---------------------------- MODULE AtomicUpdate ----------------------------
(***************************************************************************)
(* What the update API promises: the image that a boot starts changes only *)
(* during an update, to the image that runs or to the new one, whole; and  *)
(* an update is reported done only when the new image is what the next     *)
(* boot starts.                                                            *)
(***************************************************************************)
CONSTANTS
    Images,   \* images handed to the update API
    Bootable, \* those that are whole applications
    Factory,  \* the image flashed from the PC
    None

VARIABLES
    runs,     \* the image that was started
    starts,   \* the image a boot would start now
    pending,  \* the image of the update in progress
    promised  \* the image of the last update, if it was reported done

vars == <<runs, starts, pending, promised>>

Init == runs = Factory /\ starts = Factory /\ pending = None /\ promised = None

\* An image verifies: from here on nothing is promised until it is reported.
Accept(image) ==
    /\ pending = None
    /\ pending' = image /\ promised' = None
    /\ UNCHANGED <<runs, starts>>

\* The other slot is given up: a boot would start what runs.
Revert == pending # None /\ starts' = runs /\ UNCHANGED <<runs, pending, promised>>

\* The new image is in place.
Switch ==
    /\ pending \in Bootable
    /\ starts' = pending
    /\ UNCHANGED <<runs, pending, promised>>

Report ==
    /\ pending # None /\ starts = pending
    /\ promised' = pending /\ pending' = None
    /\ UNCHANGED <<runs, starts>>

\* A step of the update failed, or power did.
Abandon == pending # None /\ pending' = None /\ UNCHANGED <<runs, starts, promised>>

Restart == pending = None /\ runs' = starts /\ UNCHANGED <<starts, pending, promised>>

Next ==
    \/ \E image \in Images : Accept(image)
    \/ Revert \/ Switch \/ Report \/ Abandon \/ Restart

Spec == Init /\ [][Next]_vars
=============================================================================
