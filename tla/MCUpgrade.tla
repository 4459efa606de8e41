------------------------------ MODULE MCUpgrade ------------------------------
(* Model values for checking Upgrade with TLC. *)
EXTENDS Upgrade, TLC

CONSTANTS p, f

MCFollowers == {f}
MCProtocol == (1 :> 1) @@ (2 :> 2)
Setting(x, y, r) == [policy |-> (p :> x) @@ (f :> y), reach |-> r]
MCSettings == {Setting("all", "all", {p, f}), Setting("all", "all", {p}), Setting("followers", "off", {p, f}),
               Setting("followers", "followers", {p})}
DefaultSetting == {Setting("followers", "followers", {p, f})}
MCDisciplines == {{"jobs"}, {"swapped"}, {"gap"}}
Apart == {{}}

(* A primary that upgrades itself takes GitHub's release with a follower    *)
(* that does so too under one overlap, with one that does not under the     *)
(* others.                                                                  *)
MCInit == Init /\ (policy[p] = "all" => (f \in reach <=> overlaps = {"swapped"}))
MCSpec == MCInit /\ [][Next]_vars /\ Fairness
=============================================================================
