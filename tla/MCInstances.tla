----------------------------- MODULE MCInstances -----------------------------
(* Model values and symmetry for checking Lifecycle, Backups and Ports with *)
(* TLC.  A behaviour is one of one component; the other two, which share no *)
(* variable with it, rest in one of their initial states.                   *)
EXTENDS Lifecycle, Backups, Ports, TLC

VARIABLE part

CONSTANTS
    o1, o2,
    t1, t2,
    a, b, c, r1, r2, r3, r4, r5, r6, r7

MCOps == {o1, o2}
MCDisciplines == {{}, {"launching"}, {"slow"}, {"probing"}, {"launching", "slow"}}

MCTasks == {t1, t2}
MCKeeps == {1}

MCNames == {a, b, c}
MCRequests == {r1, r2, r3, r4, r5, r6, r7}
Asking(k, n, p) == [kind |-> k, name |-> n, port |-> p]
MCWhat == (r1 :> Asking("create", a, 0)) @@ (r2 :> Asking("create", b, 0)) @@ (r3 :> Asking("create", c, 2))
          @@ (r4 :> Asking("delete", a, 0)) @@ (r5 :> Asking("move", b, 2)) @@ (r6 :> Asking("create", a, 0))
          @@ (r7 :> Asking("delete", b, 0))
MCPool == 1..3
MCHeldBack == {3}
MCPortDisciplines == {{}}

Symmetry == Permutations(MCOps) \cup Permutations(MCTasks)

MCInit ==
    /\ part \in {"lifecycle", "backups", "ports"}
    /\ Init /\ BackupsInit /\ PortsInit
    /\ part # "lifecycle" => autoRestart /\ kind = [o \in Ops |-> "start"] /\ overlaps = {}

MCNext ==
    \/ part = "lifecycle" /\ Next /\ UNCHANGED <<backupVars, portVars>>
    \/ part = "backups" /\ BackupsNext /\ UNCHANGED <<vars, portVars>>
    \/ part = "ports" /\ PortsNext /\ UNCHANGED <<vars, backupVars>>

MCSpec == MCInit /\ [][MCNext /\ UNCHANGED part]_<<vars, backupVars, portVars, part>>
=============================================================================
