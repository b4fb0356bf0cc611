----------------------------- MODULE MCReceive ------------------------------
(* A small instance of Receive for TLC.                                    *)
EXTENDS Receive, TLC

From(peer, via, kind) == [peer |-> peer, via |-> via, kind |-> kind]

\* One sender on two connections and one that sends datagrams.
SomeFeed ==
  "r1" :> From("p", "tcp", "hold") @@ "r2" :> From("p", "lines", "close")
  @@ "r3" :> From("q", "udp", "hold") @@ "r4" :> From("q", "samples", "sample")
=============================================================================
