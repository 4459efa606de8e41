----------------------------- MODULE MCAgentRuns -----------------------------
(* Model values for checking AgentRuns with TLC. *)
EXTENDS AgentRuns, TLC

CONSTANTS a, b, m1, m2, m3

MCAccounts == {a, b}
MCMessages == {m1, m2, m3}
MCSender == (m1 :> a) @@ (m2 :> b) @@ (m3 :> b)
Mix(k1, k2, k3) == (m1 :> k1) @@ (m2 :> k2) @@ (m3 :> k3)
MCKinds == {Mix("hold", "say", "hold"), Mix("say", "hold", "event")}
MCDisciplines == {{}, {"joins"}, {"saving"}, {"calls"}}
=============================================================================
