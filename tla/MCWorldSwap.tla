----------------------------- MODULE MCWorldSwap -----------------------------
(* Model values and symmetry for checking WorldSwap with TLC. *)
EXTENDS WorldSwap, TLC

CONSTANTS level, nether, swap1, swap2

MCDirs == {level, nether}
MCTasks == {swap1, swap2}
AnyWorld == SUBSET MCDirs
NoOverlap == {}
NoWrite == {}
FirstWrite == {"begin"}
ThirdWrite == {"retire"}

Symmetry == Permutations(MCDirs) \cup Permutations(MCTasks)
=============================================================================
