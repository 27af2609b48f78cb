------------------------------- MODULE TxFifo -------------------------------
(***************************************************************************)
(* What a transmit channel of the CPHAL promises its caller: a queue.      *)
(* Send() appends a packet; packets go out on the wire in that order;      *)
(* SendComplete() gives each packet back once, in that order, and only     *)
(* after it was on the wire.                                               *)
(***************************************************************************)
EXTENDS Naturals, Sequences

CONSTANT Pkt

VARIABLES
  queue,     \* packets accepted by Send() and not yet given back
  wire,      \* how many of them, from the front, have been on the wire
  out        \* <<packet, was on the wire>>, in the order of SendComplete()

fifoVars == <<queue, wire, out>>

Init == queue = <<>> /\ wire = 0 /\ out = <<>>

Accept(p) ==
  /\ \A i \in 1 .. Len(queue) : queue[i] # p
  /\ \A i \in 1 .. Len(out) : out[i][1] # p
  /\ queue' = Append(queue, p)
  /\ UNCHANGED <<wire, out>>

Transmit ==
  /\ wire < Len(queue)
  /\ wire' = wire + 1
  /\ UNCHANGED <<queue, out>>

Complete ==
  /\ wire > 0
  /\ out' = Append(out, <<Head(queue), TRUE>>)
  /\ queue' = Tail(queue)
  /\ wire' = wire - 1

Next == (\E p \in Pkt : Accept(p)) \/ Transmit \/ Complete

Spec == Init /\ [][Next]_fifoVars
=============================================================================
