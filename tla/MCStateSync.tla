----------------------------- MODULE MCStateSync -----------------------------
(* Model values for checking StateSync with TLC. *)
EXTENDS StateSync, TLC

CONSTANTS p1, q1

MCPrimaryEdits == {p1}
MCFollowerEdits == {q1}
MCDisciplines == {{}, {"edits"}}
=============================================================================
