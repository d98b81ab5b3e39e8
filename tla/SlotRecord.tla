---------------------------- MODULE SlotRecord ----------------------------
(***************************************************************************)
(* What the deployment record of one Site (deploy-state.json) promises:    *)
(* which blue/green slot is active with which image, and which slot and    *)
(* image a rollback would return to.  The record changes in one atomic     *)
(* transition per completed bootstrap, release or rollback; the            *)
(* transition is the one scripts/slot-state.ts defines.  SiteRelease       *)
(* shows that the shell scripts, interrupted anywhere, implement it.       *)
(***************************************************************************)
CONSTANTS
    Images,     \* the immutable image digests a Site can be configured with
    Modes,      \* the pairs (postgres mode, redis mode)
    None        \* an absent record, slot, image or mode

VARIABLE record

(* The slot a deployment goes to: green after blue, otherwise blue.        *)
NextSlot(state) ==
    IF state # None /\ state.activeSlot = "blue" THEN "green" ELSE "blue"

(* The active slot and image become the previous ones; the modes stay.     *)
TransitionState(state, slot, image) ==
    [activeSlot |-> slot, activeImage |-> image,
     previousSlot |-> state.activeSlot, previousImage |-> state.activeImage,
     mode |-> state.mode]

(* No record on a new host; on a host deployed before the modes were       *)
(* recorded, a record without modes.                                       *)
Init ==
    \/ record = None
    \/ \E i \in Images :
          record = [activeSlot |-> "blue", activeImage |-> i, mode |-> None,
                    previousSlot |-> None, previousImage |-> None]

Bootstrap(image, mode) ==
    /\ record = None
    /\ record' = [activeSlot |-> NextSlot(None), activeImage |-> image, mode |-> mode,
                  previousSlot |-> None, previousImage |-> None]

Release(image) ==
    /\ record # None
    /\ record.mode # None
    /\ image # record.activeImage
    /\ record' = TransitionState(record, NextSlot(record), image)

Rollback ==
    /\ record # None
    /\ record.mode # None
    /\ record.previousSlot # None
    /\ record' = TransitionState(record, record.previousSlot, record.previousImage)

AdoptModes(mode) ==
    /\ record # None
    /\ record.mode = None
    /\ record' = [record EXCEPT !.mode = mode]

Next ==
    \/ \E i \in Images, m \in Modes : Bootstrap(i, m)
    \/ \E i \in Images : Release(i)
    \/ Rollback
    \/ \E m \in Modes : AdoptModes(m)

Spec == Init /\ [][Next]_record
=============================================================================
