-------------------------- MODULE SnapshotRegister --------------------------
(***************************************************************************)
(* What the snapshot worker promises to everyone who calls snap::Current():*)
(* one register holding the last complete capture.  A capture replaces the *)
(* whole register at once, captures arrive in order, and after a crash has *)
(* frozen the worker the register changes at most once more (the tick that *)
(* was already past its check of the freeze flag) and then never again.    *)
(***************************************************************************)
EXTENDS Integers

Capture == [head : Nat, caches : Nat]
NoCapture == [head |-> 0, caches |-> 0]   \* what Current() == nullptr stands for

VARIABLES
  value,    \* the capture a caller of Current() sees
  frozen,   \* a crash has been announced
  pending   \* after the freeze: a publication is still on its way

rvars == <<value, frozen, pending>>

RInit ==
  /\ value = NoCapture
  /\ frozen = FALSE
  /\ pending = FALSE

\* A complete capture, written by a later tick than the old one and with caches
\* of the same or a later generation.
Newer(new, old) ==
  /\ new.head > old.head
  /\ new.caches >= old.caches
  /\ new.caches > 0

RPublish ==
  /\ frozen => pending
  /\ value' \in Capture
  /\ Newer(value', value)
  /\ pending' = FALSE
  /\ UNCHANGED frozen

RFreeze ==
  /\ frozen' = TRUE
  /\ IF frozen THEN UNCHANGED pending ELSE pending' \in BOOLEAN
  /\ UNCHANGED value

\* The pending publication may also be given up (the tick threw).
RAbandon ==
  /\ frozen /\ pending
  /\ pending' = FALSE
  /\ UNCHANGED <<value, frozen>>

RNext == RPublish \/ RFreeze \/ RAbandon

RSpec == RInit /\ [][RNext]_rvars
=============================================================================
