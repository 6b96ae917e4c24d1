------------------------------- MODULE MCSlot -------------------------------
(* Instances of Slot for TLC: option sets and symmetry. *)
EXTENDS SlotInv, TLC

Plain   == [consume |-> FALSE, ttl |-> 0, ifMatch |-> 0]
Once    == [Plain EXCEPT !.consume = TRUE]
Brief   == [Plain EXCEPT !.ttl = 1]
OverAny == [Plain EXCEPT !.ifMatch = AnyMatch]
OverOne == [Plain EXCEPT !.ifMatch = 1]

ClaimOpts  == {Plain, Once}
RetainOpts == {Plain, Brief}
CASOpts    == {Plain, OverAny, OverOne}
MixedOpts  == {Brief, OverOne, OverAny}

Symmetry == Permutations(Writers) \cup Permutations(Readers)
            \cup Permutations(Handles)
=============================================================================
