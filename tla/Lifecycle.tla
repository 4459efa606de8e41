------------------------------ MODULE Lifecycle ------------------------------
(***************************************************************************)
(* Starting, stopping and restarting one instance: startInstance and       *)
(* stopInstance of core/instances.ts, the run.sh wrapper they leave in a   *)
(* screen session, the tracked operations of core/lifecycle.ts behind the  *)
(* console's state route, and the transient state that the sampler         *)
(* (daemon/sampler.ts) shows meanwhile.                                    *)
(*                                                                         *)
(* Nothing serialises two operations on one instance, the wrapper          *)
(* relaunches a server by itself, and a server takes its time to end: each *)
(* of these is an overlap that an execution may have or not have.          *)
(***************************************************************************)
EXTENDS Naturals, FiniteSets

CONSTANTS
    Ops,           \* operations; each runs once, of any kind
    Disciplines,   \* the sets of overlaps an execution may allow
    CrashMax,      \* CRASH_MAX
    MaxSessions,   \* bound: screen sessions
    MaxPids,       \* bound: server processes
    MaxProbes      \* bound: sampler passes

ASSUME ConstantsAssumption ==
    /\ Disciplines \subseteq SUBSET {"ops", "launching", "slow", "probing"}
    /\ {CrashMax, MaxSessions, MaxPids, MaxProbes} \subseteq Nat \ {0}

VARIABLES
    \* the host
    session,     \* per screen session: where its wrapper is
    crashes,     \* per session: exits inside the crash window
    server,      \* per process: "none", "booting", "up", "told" (asked over
                 \* the console), "closing" (no longer answering pings),
                 \* "signalled" or "gone"
    home,        \* per process: the session it was launched in
    norestart,   \* the stop sentinel file
    autoRestart, \* whether the wrapper is the relaunching one
    \* operations
    kind,        \* per operation: "start", "stop" or "restart"
    pc,          \* where it is
    target,      \* the server process a stop has looked up; 0: none
    \* the sampler
    mark,        \* the transient state: "none", "stopping" or "restarting"
    sawDown,     \* Transition.sawDown
    markedAt,    \* the processes that were alive when the mark was made
    aged,        \* more than TRANSITION_TIMEOUT_MS have passed since then
    probe,       \* what the running pass has read, "none" between passes
    probes,
    overlaps     \* "ops": two operations at once; "launching": a stop may come
                 \* while a wrapper's server is not up; "slow": a server may outlive
                 \* the stop's waits; "probing": a mark may be made in a pass,
                 \* and a ping of a live server may fail

hostVars == <<session, crashes, server, home, norestart, autoRestart>>
opVars == <<kind, pc, target>>
markVars == <<mark, sawDown, markedAt, aged>>
vars == <<session, crashes, server, home, norestart, autoRestart,
          kind, pc, target, mark, sawDown, markedAt, aged, probe, probes, overlaps>>

Sessions == 1..MaxSessions
Pids == 1..MaxPids

(* What screen -ls lists, and what pgrep finds in the instance's directory. *)
LiveSessions == {s \in Sessions : session[s] \notin {"none", "gone"}}
LivePids == {p \in Pids : server[p] \notin {"none", "gone"}}

(* Sessions without a server that has come up. *)
Launching == {s \in LiveSessions : \A p \in LivePids : home[p] = s => server[p] = "booting"}

(* The session that text for the instance's console goes to, if any. *)
Consoles == IF LiveSessions = {} THEN {0} ELSE LiveSessions

Busy == {o \in Ops : pc[o] \notin {"idle", "done"}}

TypeOK ==
    /\ session \in [Sessions -> {"none", "boot", "launch", "serving", "exited", "waiting", "gone"}]
    /\ crashes \in [Sessions -> 0..CrashMax]
    /\ server \in [Pids -> {"none", "booting", "up", "told", "closing", "signalled", "gone"}]
    /\ home \in [Pids -> Sessions \cup {0}]
    /\ \A s \in Sessions : session[s] = "serving" => Cardinality({p \in LivePids : home[p] = s}) <= 1
    /\ {norestart, autoRestart, sawDown, aged} \subseteq BOOLEAN
    /\ kind \in [Ops -> {"start", "stop", "restart"}]
    /\ target \in [Ops -> Pids \cup {0}]
    /\ mark \in {"none", "stopping", "restarting"}
    /\ markedAt \subseteq Pids
    /\ probe \in {"none", "stopped", "starting", "running", "auto-restarting"}
    /\ overlaps \in Disciplines

Init ==
    /\ session = [s \in Sessions |-> "none"]
    /\ crashes = [s \in Sessions |-> 0]
    /\ server = [p \in Pids |-> "none"]
    /\ home = [p \in Pids |-> 0]
    /\ norestart = FALSE
    /\ autoRestart \in BOOLEAN
    /\ kind \in [Ops -> {"start", "stop", "restart"}]
    /\ pc = [o \in Ops |-> "idle"]
    /\ target = [o \in Ops |-> 0]
    /\ mark = "none" /\ sawDown = FALSE /\ markedAt = {} /\ aged = FALSE
    /\ probe = "none" /\ probes = 0
    /\ overlaps \in Disciplines

-----------------------------------------------------------------------------
(* The wrapper, run.sh *)

(* The header removes what an earlier run left, the sentinel included. *)
Header(s) ==
    /\ session[s] = "boot"
    /\ session' = [session EXCEPT ![s] = "launch"]
    /\ norestart' = FALSE
    /\ UNCHANGED <<crashes, server, home, autoRestart, opVars, markVars, probe, probes, overlaps>>

Launch(s) ==
    /\ session[s] = "launch"
    /\ \E p \in Pids :
        /\ server[p] = "none" /\ \A q \in 1..(p - 1) : server[q] # "none"
        /\ server' = [server EXCEPT ![p] = "booting"]
        /\ home' = [home EXCEPT ![p] = s]
    /\ session' = [session EXCEPT ![s] = "serving"]
    /\ UNCHANGED <<crashes, norestart, autoRestart, opVars, markVars, probe, probes, overlaps>>

(* A server ends: as it was asked to, or by itself. *)
ServerExits(p) ==
    /\ p \in LivePids
    /\ \/ server[p] \in {"told", "closing", "signalled"} \/ "launching" \in overlaps
       \/ \A o \in Ops : pc[o] \notin {"stop", "lookup"}
    /\ server' = [server EXCEPT ![p] = "gone"]
    /\ session' = [session EXCEPT ![home[p]] = IF @ = "serving" THEN "exited" ELSE @]
    /\ UNCHANGED <<crashes, home, norestart, autoRestart, opVars, markVars, probe, probes, overlaps>>

(* It answers pings from some moment on, and no longer once it shuts down. *)
ServerTurns(p) ==
    /\ server[p] \in {"booting", "told"}
    /\ server' = [server EXCEPT ![p] = IF @ = "booting" THEN "up" ELSE "closing"]
    /\ UNCHANGED <<session, crashes, home, norestart, autoRestart, opVars, markVars, probe, probes, overlaps>>

(* After an exit: the sentinel first, then - where the wrapper relaunches - *)
(* the exits that are still inside the window and this one.                 *)
AfterExit(s) ==
    /\ session[s] = "exited"
    /\ \E recent \in 0..crashes[s] :
        LET exits == IF norestart \/ ~autoRestart THEN crashes[s] ELSE recent + 1 IN
        /\ session' = [session EXCEPT ![s] =
              IF norestart \/ ~autoRestart \/ exits >= CrashMax THEN "gone" ELSE "waiting"]
        /\ crashes' = [crashes EXCEPT ![s] = exits]
        /\ norestart' = FALSE
    /\ UNCHANGED <<server, home, autoRestart, opVars, markVars, probe, probes, overlaps>>

(* sleep RESTART_DELAY, during which the restart marker stands. *)
Relaunch(s) ==
    /\ session[s] = "waiting"
    /\ session' = [session EXCEPT ![s] = "launch"]
    /\ UNCHANGED <<crashes, server, home, norestart, autoRestart, opVars, markVars, probe, probes, overlaps>>

-----------------------------------------------------------------------------
(* The operations *)

Goto(o, where) == pc' = [pc EXCEPT ![o] = where]

Unmark == mark' = "none" /\ sawDown' = FALSE /\ markedAt' = {} /\ aged' = FALSE

(* The state route marks before its job runs; a start clears the mark. *)
Request(o) ==
    /\ pc[o] = "idle"
    /\ "ops" \in overlaps \/ Busy = {}
    /\ "probing" \in overlaps \/ probe = "none"
    /\ "launching" \in overlaps \/ kind[o] = "start" \/ Launching = {}
    /\ mark' = CASE kind[o] = "start" -> "none"
                 [] kind[o] = "stop" -> "stopping"
                 [] kind[o] = "restart" -> "restarting"
    /\ sawDown' = FALSE /\ markedAt' = LivePids /\ aged' = FALSE
    /\ Goto(o, IF kind[o] = "start" THEN "start" ELSE "stop")
    /\ UNCHANGED <<hostVars, kind, target, probe, probes, overlaps>>

(* The job's end: the mark goes, whoever made it. *)
Finish(o) ==
    /\ pc[o] = "finish"
    /\ Unmark
    /\ Goto(o, "done")
    /\ UNCHANGED <<hostVars, kind, target, probe, probes, overlaps>>

\* Mutant: the session is not asked for.
BugStart(o) ==
    /\ pc[o] = "start"
    /\ Goto(o, "detach")
    /\ UNCHANGED <<hostVars, kind, target, markVars, probe, probes, overlaps>>

(* startInstance: a live session ends it; then the runtime, the environment, *)
(* the managed files and the script are prepared (or one of them fails).     *)
Start(o) ==
    /\ pc[o] = "start"
    /\ \E next \in IF LiveSessions # {} THEN {"finish"} ELSE {"detach", "finish"} : Goto(o, next)
    /\ UNCHANGED <<hostVars, kind, target, markVars, probe, probes, overlaps>>

Detach(o) ==
    /\ pc[o] = "detach"
    /\ \E s \in Sessions :
        /\ session[s] = "none" /\ \A r \in 1..(s - 1) : session[r] # "none"
        /\ session' = [session EXCEPT ![s] = "boot"]
    /\ Goto(o, "watch")
    /\ UNCHANGED <<crashes, server, home, norestart, autoRestart, kind, target, markVars, probe, probes, overlaps>>

(* The tracked start follows the log: until the server is up, until the     *)
(* wrapper reports an exit, or for ten minutes; the plain one returns.      *)
Watched(o) ==
    /\ pc[o] = "watch"
    /\ "launching" \in overlaps \/ Launching = {}
    /\ Goto(o, "finish")
    /\ UNCHANGED <<hostVars, kind, target, markVars, probe, probes, overlaps>>

AfterStop(o) == IF kind[o] = "restart" THEN "start" ELSE "finish"

\* Mutant: the sentinel is written after the server was asked.
BugStop(o) ==
    /\ pc[o] = "stop"
    /\ Goto(o, IF LiveSessions = {} THEN AfterStop(o) ELSE "lookup")
    /\ UNCHANGED <<hostVars, kind, target, markVars, probe, probes, overlaps>>

(* stopInstance: without a session there is nothing to stop; else the       *)
(* sentinel comes before anything that could end the server.                *)
Stop(o) ==
    /\ pc[o] = "stop"
    /\ norestart' = (norestart \/ LiveSessions # {})
    /\ Goto(o, IF LiveSessions = {} THEN AfterStop(o) ELSE "lookup")
    /\ UNCHANGED <<session, crashes, server, home, autoRestart, kind, target, markVars, probe, probes, overlaps>>

(* The server, if there is one, and the stop command to the console. *)
Ask(o) ==
    /\ pc[o] = "lookup"
    /\ IF LivePids = {}
       THEN /\ target' = [target EXCEPT ![o] = 0]
            /\ Goto(o, "leave")
            /\ UNCHANGED server
       ELSE /\ \E p \in LivePids : target' = [target EXCEPT ![o] = p]
            /\ Goto(o, "wait")
            /\ \E s \in Consoles :
                server' = [p \in Pids |-> IF home[p] = s /\ server[p] \in {"booting", "up"} THEN "told" ELSE server[p]]
    /\ UNCHANGED <<session, crashes, home, norestart, autoRestart, kind, markVars, probe, probes, overlaps>>

(* Two minutes for the server; one that is still there gets a SIGTERM and   *)
(* three seconds.                                                           *)
Waited(o) ==
    /\ pc[o] = "wait"
    /\ IF target[o] \in LivePids
       THEN /\ server' = [server EXCEPT ![target[o]] = "signalled"]
            /\ Goto(o, "terminated")
       ELSE /\ Goto(o, "leave")
            /\ UNCHANGED server
    /\ UNCHANGED <<session, crashes, home, norestart, autoRestart, kind, target, markVars, probe, probes, overlaps>>

Terminated(o) ==
    /\ pc[o] = "terminated"
    /\ "slow" \in overlaps \/ target[o] \notin LivePids
    /\ Goto(o, "leave")
    /\ UNCHANGED <<hostVars, kind, target, markVars, probe, probes, overlaps>>

\* Mutant: the wrapper is trusted to leave.
BugLeave(o) ==
    /\ pc[o] = "leave"
    /\ Goto(o, "respawned")
    /\ UNCHANGED <<hostVars, kind, target, markVars, probe, probes, overlaps>>

(* Five seconds for the wrapper to leave, then the session is quit, which   *)
(* hangs up on what runs in it.                                             *)
Leave(o) ==
    /\ pc[o] = "leave"
    /\ IF LiveSessions = {}
       THEN UNCHANGED <<session, server>>
       ELSE \E s \in LiveSessions :
                /\ session' = [session EXCEPT ![s] = "gone"]
                /\ server' = [p \in Pids |-> IF p \in LivePids /\ home[p] = s THEN "signalled" ELSE server[p]]
    /\ Goto(o, "respawned")
    /\ UNCHANGED <<crashes, home, norestart, autoRestart, kind, target, markVars, probe, probes, overlaps>>

(* A server other than the one looked up is terminated, the sentinel goes. *)
Respawned(o) ==
    /\ pc[o] = "respawned"
    /\ IF LivePids = {}
       THEN UNCHANGED server
       ELSE \E p \in LivePids :
                server' = [server EXCEPT ![p] = IF p = target[o] THEN @ ELSE "signalled"]
    /\ norestart' = FALSE
    /\ Goto(o, AfterStop(o))
    /\ UNCHANGED <<session, crashes, home, autoRestart, kind, target, markVars, probe, probes, overlaps>>

-----------------------------------------------------------------------------
(* The sampler *)

(* getStatus: a session with a server is up, and running if it answers; a   *)
(* session without one is waiting to relaunch if the marker says so, which  *)
(* a stop removes with the writing of its sentinel.                         *)
StatusRead ==
    CASE LiveSessions # {} /\ LivePids # {} ->
            (IF \E p \in LivePids : server[p] \in {"up", "told"} THEN {"running"} ELSE {"starting"})
                \cup (IF "probing" \in overlaps THEN {"starting"} ELSE {})
      [] LiveSessions # {} /\ LivePids = {} ->
            IF ~norestart /\ \E s \in LiveSessions : session[s] = "waiting" THEN {"auto-restarting"} ELSE {"stopped"}
      [] OTHER -> {"stopped"}

Probe ==
    /\ probe = "none" /\ probes < MaxProbes
    /\ probe' \in StatusRead
    /\ probes' = probes + 1
    /\ UNCHANGED <<hostVars, opVars, markVars, overlaps>>

(* A mark that has stood for more than three minutes, whatever it waits for. *)
Ages ==
    /\ mark # "none" /\ ~aged
    /\ aged' = TRUE
    /\ UNCHANGED <<hostVars, opVars, mark, sawDown, markedAt, probe, probes, overlaps>>

Stopped == mark = "stopping" /\ probe \in {"stopped", "auto-restarting"}
Restarted == mark = "restarting" /\ probe = "running" /\ sawDown

\* Mutant: a restart is over when the server answers.
BugSettle ==
    /\ probe # "none"
    /\ probe' = "none"
    /\ IF Stopped \/ (mark = "restarting" /\ probe = "running") \/ aged
       THEN Unmark
       ELSE /\ sawDown' = (sawDown \/ (mark # "none" /\ probe # "running"))
            /\ UNCHANGED <<mark, markedAt, aged>>
    /\ UNCHANGED <<hostVars, opVars, probes, overlaps>>

(* settleTransition: the real state has caught up with the mark, or the     *)
(* sampler gives up on it.                                                  *)
Settle ==
    /\ probe # "none"
    /\ probe' = "none"
    /\ IF Stopped \/ Restarted \/ aged
       THEN Unmark
       ELSE /\ sawDown' = (sawDown \/ (mark # "none" /\ probe # "running"))
            /\ UNCHANGED <<mark, markedAt, aged>>
    /\ UNCHANGED <<hostVars, opVars, probes, overlaps>>

-----------------------------------------------------------------------------
WrapperStep(s) == Header(s) \/ Launch(s) \/ AfterExit(s) \/ Relaunch(s)
OpStep(o) ==
    \/ Start(o) \/ Detach(o) \/ Watched(o) \/ Stop(o) \/ Ask(o) \/ Waited(o)
    \/ Terminated(o) \/ Leave(o) \/ Respawned(o) \/ Finish(o)

Next ==
    \/ \E s \in Sessions : WrapperStep(s)
    \/ \E p \in Pids : ServerTurns(p) \/ ServerExits(p)
    \/ \E o \in Ops : Request(o) \/ OpStep(o)
    \/ Probe \/ Ages \/ Settle

Spec == Init /\ [][Next]_vars

-----------------------------------------------------------------------------
(* Properties *)

(* One world, one server: two processes never share the instance's          *)
(* directory (startInstance refuses a live session, stopInstance sees the   *)
(* server out) - as long as operations do not overlap, none comes while the *)
(* wrapper has no server to look up, and no server outlives a SIGTERM by    *)
(* three seconds.                                                           *)
OneServer == overlaps \subseteq {"probing"} => Cardinality(LivePids) <= 1

(* "it is what makes luna stop mean stopped rather than restart in three    *)
(* seconds" (instances.ts, stopCheck): when a stop is over, no wrapper is   *)
(* left to launch anything and every server still there has been signalled, *)
(* even one that came up while the stop was at work.                        *)
StopIsFinal ==
    "ops" \notin overlaps =>
        \A o \in Ops :
            pc[o] = "finish" /\ kind[o] = "stop" =>
                /\ LiveSessions = {} /\ ~norestart
                /\ \A p \in LivePids : server[p] = "signalled"

(* A server is asked over its console before it is signalled ("then         *)
(* escalate to SIGTERM"), so that it saves its world: unless operations     *)
(* overlap, or a stop found a wrapper whose server was not there yet.       *)
ToldFirst ==
    [][{"ops", "launching"} \cap overlaps = {} =>
        \A p \in Pids : server'[p] = "signalled" => server[p] \in {"told", "closing", "signalled"}]_vars

(* "a restart is not settled by the state it started from" (Transition):    *)
(* in the three minutes a mark is given, the sampler drops that of a        *)
(* restart only after every process it began with has gone down - unless    *)
(* that process was still booting, a ping of it failed, or the pass had     *)
(* read the state before the mark: the flag is set by any reading but       *)
(* running. A restart that takes longer is no longer shown as one.          *)
MarkHonest ==
    [][(/\ overlaps \subseteq {"slow"} /\ ~aged
        /\ mark = "restarting" /\ mark' = "none" /\ probe' # probe)
            => \A p \in markedAt : server[p] \in {"closing", "signalled", "gone"}]_vars
=============================================================================
