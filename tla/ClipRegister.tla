---------------------------- MODULE ClipRegister ----------------------------
(***************************************************************************)
(* What one clip name promises, with no handles, leases, locks or homes: a *)
(* register whose settled value is replaced whole.  At most one write is   *)
(* in progress; it is published in a single step or leaves no trace; a     *)
(* settled value leaves by being replaced, removed, or taken by the one    *)
(* reader a consume-once value allows, and what was taken never returns.   *)
(* Module Slot implements it (its RegisterSpec).                           *)
(***************************************************************************)
EXTENDS Naturals

VARIABLES
  value,    \* the settled value, or 0
  writing,  \* the write in progress, or 0
  taken,    \* values handed to their one reader
  last      \* values are numbered in the order their writes began

vars == <<value, writing, taken, last>>

Init == value = 0 /\ writing = 0 /\ taken = {} /\ last = 0

Begin ==
  /\ writing = 0
  /\ writing' = last + 1
  /\ last' = last + 1
  /\ UNCHANGED <<value, taken>>

Publish ==
  /\ writing # 0
  /\ value' = writing
  /\ writing' = 0
  /\ UNCHANGED <<taken, last>>

Discard ==
  /\ writing # 0
  /\ writing' = 0
  /\ UNCHANGED <<value, taken, last>>

Remove ==
  /\ value # 0
  /\ value' = 0
  /\ UNCHANGED <<writing, taken, last>>

Take ==
  /\ value # 0
  /\ value' = 0
  /\ taken' = taken \cup {value}
  /\ UNCHANGED <<writing, last>>

Next == Begin \/ Publish \/ Discard \/ Remove \/ Take

Spec == Init /\ [][Next]_vars
=============================================================================
