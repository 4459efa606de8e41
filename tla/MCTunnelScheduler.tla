-------------------------- MODULE MCTunnelScheduler --------------------------
(* Model values for checking ConsoleTunnel and Scheduler with TLC.  A       *)
(* behaviour is one of either: the tunnel moves once the time of a machine  *)
(* without schedules is over, and has no viewers where there are schedules. *)
(* So each component's fairness asks nothing of the other's behaviours.     *)
EXTENDS ConsoleTunnel, Scheduler, TLC

CONSTANTS v1, v2

VARIABLE part

MCViewers == {v1, v2}
MCDisciplines == SUBSET {"opening", "timeout"}

Every(k, n) == [kind |-> k, n |-> n]

\* A limited rate, a reboot asked for at a time, and a cron restart.
MCTrigger == <<Every("rate", 1), Every("at", 3), Every("cron", 2)>>
MCMaxRuns == <<2, 0, 0>>
MCSecond == {2}

MCInit ==
    /\ part \in {"tunnel", "schedules"}
    /\ Init /\ SchedulerInit
    /\ part = "schedules" => overlaps = {}

MCNext ==
    \/ part = "schedules" /\ SchedulerNext /\ UNCHANGED vars
    \/ part = "tunnel" /\ TimePasses /\ UNCHANGED vars
    \/ part = "tunnel" /\ clock > MaxTime /\ Next /\ UNCHANGED schedulerVars

MCSpec ==
    /\ MCInit /\ [][MCNext /\ UNCHANGED part]_<<vars, schedulerVars, part>>
    /\ Fairness /\ SchedulerFairness
=============================================================================
