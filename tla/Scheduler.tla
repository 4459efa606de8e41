------------------------------ MODULE Scheduler ------------------------------
(***************************************************************************)
(* Schedules and the runner that fires them (core/schedule.ts,              *)
(* daemon/scheduler.ts, and the routes that edit schedules.json).           *)
(*                                                                         *)
(* A tick loads the whole store, runs what is due one schedule after the    *)
(* other, each as slow as a graceful stop or a backup, and writes its copy  *)
(* back at the end.  The operator edits the same file by loading, changing  *)
(* and writing it.  A schedule is its place in the store; time is counted   *)
(* in units of the shortest trigger.                                        *)
(***************************************************************************)
EXTENDS Naturals

CONSTANTS
    Count,      \* schedules ever created
    Trigger,    \* per schedule, [kind, n]: at time n, cron or rate every n
    MaxRuns,    \* per schedule, maxRuns, or 0 for forever
    Late,       \* MISSED_AFTER_MS
    Naming,     \* schedules that name the instance that may be deleted
    Careless,   \* whether it is deleted from under an enabled schedule
    Overlap,    \* whether an edit and a tick may run into each other
    MaxTime,    \* bound: the clock
    MaxCrashes  \* bound: kills of the daemon

Schedules == 1..Count
Kinds == {"at", "cron", "rate"}
Never == 0

ASSUME SchedulerConstants ==
    /\ Count \in Nat
    /\ Trigger \in [Schedules -> [kind : Kinds, n : Nat \ {0}]]
    /\ MaxRuns \in [Schedules -> Nat]
    /\ Late \in Nat
    /\ Naming \subseteq Schedules
    /\ Careless \in BOOLEAN
    /\ Overlap \in BOOLEAN
    /\ MaxTime \in Nat
    /\ MaxCrashes \in Nat

VARIABLES
    store,   \* schedules.json: per schedule, its row
    clock,
    pc,      \* the runner: "idle", "run" or "execute"
    copy,    \* the runner's store
    now,     \* when the runner's pass began
    cursor,  \* the schedule the pass has come to
    gone,    \* whether the instance is deleted
    edit,    \* the operator's edit under way: [do, s], do = "none" for none
    draft,   \* the operator's copy of the store
    crashes,
    \* history
    fired,   \* per schedule, how often the runner started its action
    missed   \* per schedule, how often the runner logged it as missed

runner == <<pc, copy, now, cursor>>
operator == <<gone, edit, draft>>
schedulerVars == <<store, clock, pc, copy, now, cursor, gone, edit, draft, crashes, fired, missed>>

Row(state, runs, nextRun) == [state |-> state, runs |-> runs, nextRun |-> nextRun]

Rows == [state : {"new", "enabled", "disabled", "deleted"}, runs : Nat, nextRun : Nat]
Stores == [Schedules -> Rows]
Blank == [s \in Schedules |-> Row("new", 0, Never)]
NoEdit == [do |-> "none", s |-> 0]

SchedulerTypeOK ==
    /\ store \in Stores
    /\ clock \in 1..(MaxTime + 1)
    /\ pc \in {"idle", "run", "execute"}
    /\ copy \in Stores
    /\ now \in 0..(MaxTime + 1)
    /\ cursor \in 1..(Count + 1)
    /\ gone \in BOOLEAN
    /\ edit \in [do : {"none", "enable", "disable", "delete", "run"}, s : 0..Count]
    /\ draft \in Stores
    /\ crashes \in 0..MaxCrashes
    /\ fired \in [Schedules -> Nat]
    /\ missed \in [Schedules -> Nat]

SchedulerInit ==
    /\ store = Blank
    /\ clock = 1
    /\ pc = "idle"
    /\ copy = Blank
    /\ now = 0
    /\ cursor = 1
    /\ gone = FALSE
    /\ edit = NoEdit
    /\ draft = Blank
    /\ crashes = 0
    /\ fired = [s \in Schedules |-> 0]
    /\ missed = [s \in Schedules |-> 0]

(* The next firing the trigger gives, strictly after from, or none. *)
NextFiring(s, runs, from) ==
    LET n == Trigger[s].n IN
    CASE Trigger[s].kind = "at" -> IF runs > 0 \/ n <= from THEN Never ELSE n
      [] Trigger[s].kind = "cron" -> (from \div n + 1) * n
      [] Trigger[s].kind = "rate" -> from + n

\* maxRuns is compared with one run too many.
BugComputeNextRun(s, runs, from) ==
    IF MaxRuns[s] # 0 /\ runs > MaxRuns[s] THEN Never ELSE NextFiring(s, runs, from)

(* computeNextRun: none once the runs are used up. *)
ComputeNextRun(s, runs, from) ==
    IF MaxRuns[s] # 0 /\ runs >= MaxRuns[s] THEN Never ELSE NextFiring(s, runs, from)

DueAt(row, time) == row.state = "enabled" /\ row.nextRun # Never /\ row.nextRun <= time

-----------------------------------------------------------------------------
(* The runner *)

(* The pass is over and its copy of the store dropped. *)
Rest ==
    /\ pc' = "idle"
    /\ copy' = Blank
    /\ now' = 0
    /\ cursor' = 1

(* tick, when something is due; a tick that is still running is not joined. *)
Tick ==
    /\ pc = "idle"
    /\ Overlap \/ edit = NoEdit
    /\ \E s \in Schedules : DueAt(store[s], clock)
    /\ copy' = store
    /\ now' = clock
    /\ cursor' = 1
    /\ pc' = "run"
    /\ UNCHANGED <<store, clock, operator, crashes, fired, missed>>

\* Only a run that fired is counted.
BugSettle(s, runs) ==
    LET counted == IF now - copy[s].nextRun > Late THEN copy[s].runs ELSE runs
        nextRun == ComputeNextRun(s, counted, now) IN
    /\ copy' = [copy EXCEPT ![s] =
         Row(IF nextRun = Never THEN "disabled" ELSE "enabled", counted, nextRun)]
    /\ cursor' = cursor + 1

(* The end of a run, fired or missed: counted, rearmed, or finished. *)
Settle(s, runs) ==
    LET nextRun == ComputeNextRun(s, runs, now) IN
    /\ copy' = [copy EXCEPT ![s] =
         Row(IF nextRun = Never THEN "disabled" ELSE "enabled", runs, nextRun)]
    /\ cursor' = cursor + 1

Skip(s) ==
    /\ ~DueAt(copy[s], now)
    /\ cursor' = cursor + 1
    /\ UNCHANGED <<pc, copy, now, fired, missed>>

\* A firing that is too late is left as it is.
BugMiss(s) ==
    /\ DueAt(copy[s], now) /\ now - copy[s].nextRun > Late
    /\ cursor' = cursor + 1
    /\ UNCHANGED <<pc, copy, now, fired, missed>>

(* Too far overdue: logged, not fired late. *)
Miss(s) ==
    /\ DueAt(copy[s], now) /\ now - copy[s].nextRun > Late
    /\ missed' = [missed EXCEPT ![s] = @ + 1]
    /\ Settle(s, copy[s].runs + 1)
    /\ UNCHANGED <<pc, now, fired>>

(* Fired, unless expandTargets meets a name the cluster does not know: its   *)
(* throw ends the whole pass, and nothing the pass did is written.           *)
Fire(s) ==
    /\ DueAt(copy[s], now) /\ now - copy[s].nextRun <= Late
    /\ IF gone /\ s \in Naming
       THEN Rest /\ UNCHANGED fired
       ELSE /\ pc' = "execute"
            /\ fired' = [fired EXCEPT ![s] = @ + 1]
            /\ UNCHANGED <<copy, now, cursor>>
    /\ UNCHANGED missed

RunStep ==
    /\ pc = "run"
    /\ cursor <= Count
    /\ Skip(cursor) \/ Miss(cursor) \/ Fire(cursor)
    /\ UNCHANGED <<store, clock, operator, crashes>>

(* The action is over on every target; a target that failed is only logged. *)
EndExecute ==
    /\ pc = "execute"
    /\ Settle(cursor, copy[cursor].runs + 1)
    /\ pc' = "run"
    /\ UNCHANGED <<store, clock, now, operator, crashes, fired, missed>>

(* saveSchedules: the pass's copy becomes the store. *)
SavePass ==
    /\ pc = "run" /\ cursor > Count
    /\ store' = copy
    /\ Rest
    /\ UNCHANGED <<clock, operator, crashes, fired, missed>>

-----------------------------------------------------------------------------
(* The operator *)

(* An edit that does not wait on a tick, nor a tick on it. *)
MayEdit == edit = NoEdit /\ (Overlap \/ pc = "idle")

(* createSchedule: appended, enabled or not, with its first firing.  A      *)
(* trigger in the past or a name the cluster does not know is refused.      *)
Create(s) ==
    /\ MayEdit
    /\ store[s].state = "new"
    /\ \A earlier \in 1..(s - 1) : store[earlier].state # "new"
    /\ Trigger[s].kind = "at" => Trigger[s].n > clock
    /\ ~(gone /\ s \in Naming)
    /\ \E state \in {"enabled", "disabled"} :
         store' = [store EXCEPT ![s] = Row(state, 0, ComputeNextRun(s, 0, clock))]
    /\ UNCHANGED <<clock, runner, operator, crashes, fired, missed>>

(* An edit loads the store: enable, disable, delete, or run now, which      *)
(* executes the action on every target before it writes.                    *)
LoadEdit(do, s) ==
    /\ MayEdit
    /\ store[s].state \in {"enabled", "disabled"}
    /\ gone /\ s \in Naming => do # "run" /\ (Careless \/ do # "enable")
    /\ edit' = [do |-> do, s |-> s]
    /\ draft' = store
    /\ UNCHANGED <<store, clock, runner, gone, crashes, fired, missed>>

(* setEnabled: resuming recomputes the next firing, and re-arms nothing     *)
(* that is exhausted; pausing leaves it as it is.                           *)
Edited(row, do, s) ==
    CASE do = "run" -> row
      [] do = "delete" -> Row("deleted", row.runs, Never)
      [] do = "disable" -> Row("disabled", row.runs, row.nextRun)
      [] do = "enable" ->
           LET nextRun == ComputeNextRun(s, row.runs, clock) IN
           Row(IF nextRun = Never THEN "disabled" ELSE "enabled", row.runs, nextRun)

SaveEdit ==
    /\ edit # NoEdit
    /\ store' = [draft EXCEPT ![edit.s] = Edited(draft[edit.s], edit.do, edit.s)]
    /\ edit' = NoEdit
    /\ draft' = Blank
    /\ UNCHANGED <<clock, runner, gone, crashes, fired, missed>>

(* deleteInstance: the schedules that name the instance are left as they     *)
(* are.  A pass under way has the configuration of its start and sees no     *)
(* difference.                                                               *)
DeleteInstance ==
    /\ pc = "idle" /\ edit = NoEdit
    /\ ~gone
    /\ Careless \/ \A s \in Naming : store[s].state # "enabled"
    /\ gone' = TRUE
    /\ UNCHANGED <<store, clock, runner, edit, draft, crashes, fired, missed>>

-----------------------------------------------------------------------------
TimePasses ==
    /\ clock <= MaxTime
    /\ clock' = clock + 1
    /\ UNCHANGED <<store, runner, operator, crashes, fired, missed>>

(* The daemon is killed in the middle of a pass: what it fired is forgotten. *)
Crash ==
    /\ crashes < MaxCrashes
    /\ pc # "idle"
    /\ crashes' = crashes + 1
    /\ Rest
    /\ UNCHANGED <<store, clock, operator, fired, missed>>

SchedulerNext ==
    \/ Tick \/ RunStep \/ EndExecute \/ SavePass
    \/ \E s \in Schedules :
         \/ Create(s)
         \/ \E do \in {"enable", "disable", "delete", "run"} : LoadEdit(do, s)
    \/ SaveEdit
    \/ DeleteInstance
    \/ TimePasses
    \/ Crash

SchedulerSpec == SchedulerInit /\ [][SchedulerNext]_schedulerVars

(* The interval fires, edits or not; actions and writes end; time passes. *)
SchedulerFairness ==
    /\ SF_schedulerVars(Tick) /\ WF_schedulerVars(RunStep) /\ WF_schedulerVars(EndExecute) /\ WF_schedulerVars(SavePass)
    /\ WF_schedulerVars(SaveEdit)
    /\ WF_schedulerVars(TimePasses)

FairSchedulerSpec == SchedulerSpec /\ SchedulerFairness

-----------------------------------------------------------------------------
(* Properties *)

Limit(s) == IF Trigger[s].kind = "at" THEN 1 ELSE MaxRuns[s]

(* A one-time schedule fires once, and a recurring one stops after maxRuns  *)
(* (schedule.ts, Schedule.maxRuns): only a kill between an action and the   *)
(* write that counts it can add one.                                        *)
RunsBounded == \A s \in Schedules : Limit(s) # 0 => fired[s] <= Limit(s) + crashes

(* Between passes the store has counted every run, fired or missed, of      *)
(* every pass that was not killed.                                          *)
RunsCounted ==
    pc = "idle" /\ crashes = 0 =>
        \A s \in Schedules : store[s].runs = fired[s] + missed[s]

(* runDue fires every enabled schedule whose time has come, or logs it as   *)
(* missed: none stays due for ever.                                          *)
DueIsSettled ==
    \A s \in Schedules : DueAt(store[s], clock) ~> ~DueAt(store[s], clock)
=============================================================================
