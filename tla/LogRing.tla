------------------------------ MODULE LogRing ------------------------------
(***************************************************************************)
(* What the log buffer promises: it keeps the last Capacity messages that  *)
(* were captured, in order, and a dump shows exactly the messages kept at  *)
(* one instant.                                                            *)
(***************************************************************************)
EXTENDS Integers, Sequences

CONSTANTS Messages, Capacity

VARIABLES kept, shown

TypeOK == kept \in Seq(Messages) /\ shown \in Seq(Messages)

Init == kept = << >> /\ shown = << >>

Push(s, m) == IF Len(s) < Capacity THEN Append(s, m) ELSE Append(Tail(s), m)

Capture == \E m \in Messages : kept' = Push(kept, m) /\ UNCHANGED shown

Dump == shown' = kept /\ UNCHANGED kept

Next == Capture \/ Dump

Spec == Init /\ [][Next]_<<kept, shown>>
=============================================================================
