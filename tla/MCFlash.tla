------------------------------ MODULE MCFlash -------------------------------
(***************************************************************************)
(* FlashStorage for model checking: the two ways of programming a block,   *)
(* and F4 flash that refuses a block write.                                *)
(***************************************************************************)
EXTENDS FlashStorage

VARIABLE chip  \* the flash that this behaviour is about

H7   == INSTANCE FlashStorage WITH TwoPhase <- FALSE, MaxFaults <- 0, MaxCuts <- 2
F4   == INSTANCE FlashStorage WITH TwoPhase <- TRUE, MaxFaults <- 0
Worn == INSTANCE FlashStorage WITH TwoPhase <- TRUE, MaxUpdates <- 1

MCInit ==
    \/ chip = "H7" /\ H7!Init
    \/ chip = "F4" /\ F4!Init
    \/ chip = "worn" /\ Worn!Init

MCStep ==
    \/ chip = "H7" /\ H7!Step /\ UNCHANGED chip
    \/ chip = "F4" /\ F4!Step /\ UNCHANGED chip
    \/ chip = "worn" /\ Worn!Step /\ UNCHANGED chip

MCNext ==
    \/ chip = "H7" /\ H7!Next /\ UNCHANGED chip
    \/ chip = "F4" /\ F4!Next /\ UNCHANGED chip
    \/ chip = "worn" /\ Worn!Next /\ UNCHANGED chip

MCSpec == MCInit /\ [][MCNext]_<<vars, chip>> /\ WF_<<vars, chip>>(MCStep)
=============================================================================
