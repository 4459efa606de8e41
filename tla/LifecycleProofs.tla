-------------------------- MODULE LifecycleProofs --------------------------
(***************************************************************************)
(* Theorems about Lifecycle, for any number of operations, sessions,       *)
(* processes and probes, and any crash limit.                              *)
(***************************************************************************)
EXTENDS Lifecycle, FiniteSetTheorems, TLAPS

Typed ==
    /\ session \in [Sessions -> {"none", "boot", "launch", "serving", "exited", "waiting", "gone"}]
    /\ crashes \in [Sessions -> 0..CrashMax]
    /\ server \in [Pids -> {"none", "booting", "up", "told", "closing", "signalled", "gone"}]
    /\ home \in [Pids -> Sessions \cup {0}]
    /\ norestart \in BOOLEAN /\ autoRestart \in BOOLEAN /\ sawDown \in BOOLEAN /\ aged \in BOOLEAN
    /\ kind \in [Ops -> {"start", "stop", "restart"}]
    /\ pc \in [Ops -> {"idle", "start", "detach", "watch", "stop", "lookup", "wait", "terminated",
                       "leave", "respawned", "finish", "done"}]
    /\ target \in [Ops -> Pids \cup {0}]
    /\ mark \in {"none", "stopping", "restarting"}
    /\ markedAt \subseteq Pids
    /\ probe \in {"none", "stopped", "starting", "running", "auto-restarting"}
    /\ overlaps \in Disciplines

(* A wrapper that has used up its exits has left. *)
ExitsLeft == \A s \in Sessions : crashes[s] = CrashMax => session[s] = "gone"

(* A stop launches nothing. *)
AsAsked == \A o \in Ops : pc[o] \in {"start", "detach", "watch"} => kind[o] # "stop"

(* A wrapper serves one process; a process outlives its session at most. *)
Homed ==
    /\ \A p \in LivePids : home[p] \in Sessions /\ session[home[p]] \in {"serving", "gone"}
    /\ \A p, q \in LivePids : home[p] = home[q] /\ session[home[p]] = "serving" => p = q

TypeInv == Typed /\ ExitsLeft /\ AsAsked /\ Homed

-----------------------------------------------------------------------------
(* Operations that do not overlap *)

Stopping == {"lookup", "wait", "terminated", "leave", "respawned"}

OneBusy == \A o, u \in Busy : o = u
OneSession == \A s, r \in LiveSessions : s = r

(* The sentinel stands only while a stop is at work. *)
SentinelOwned == norestart => \E o \in Ops : pc[o] \in Stopping

(* Past the leaving, and before a detach, there is no wrapper. *)
NoWrapper ==
    \A o \in Ops :
        pc[o] \in {"respawned", "detach"} \/ (pc[o] = "finish" /\ kind[o] = "stop") => LiveSessions = {}

(* What outlived its session has been signalled. *)
OrphansSignalled ==
    \A p \in LivePids : session[home[p]] = "gone" => server[p] = "signalled"

AloneInv == OneBusy /\ OneSession /\ SentinelOwned /\ NoWrapper /\ OrphansSignalled

-----------------------------------------------------------------------------
(* ... and find a server that is up *)

(* Nobody tells a server to stop but a stop. *)
Untold ==
    \A p \in LivePids :
        session[home[p]] = "serving" /\ server[p] \notin {"booting", "up"} =>
            \E o \in Ops : pc[o] \in {"wait", "terminated", "leave"}

(* Until it has asked, a stop has a running server before it. *)
Ready ==
    \A o \in Ops : pc[o] \in {"stop", "lookup"} =>
        \A s \in LiveSessions : session[s] = "serving" /\ \E p \in Pids : home[p] = s /\ server[p] = "up"

(* Once it has asked, the wrapper launches nothing and every server knows. *)
Asked ==
    \A o \in Ops : pc[o] \in {"wait", "terminated", "leave"} =>
        /\ \A s \in LiveSessions : session[s] \in {"serving", "exited"}
        /\ \A p \in LivePids : server[p] \in {"told", "closing", "signalled"}
SentinelStands ==
    \A o \in Ops : pc[o] \in {"lookup", "wait", "terminated", "leave"} => norestart \/ LiveSessions = {}

AskedInv == Untold /\ Ready /\ Asked /\ SentinelStands

(* ... and no server outlives the waits *)
NoOrphans == \A p \in LivePids : session[home[p]] = "serving"
SeenOut ==
    \A o \in Ops :
        /\ pc[o] \in {"wait", "terminated"} => LivePids \subseteq {target[o]}
        /\ pc[o] = "leave" => LivePids = {}

SeenInv == NoOrphans /\ SeenOut

(* The processes a restart began with were up, and once a reading has said  *)
(* otherwise they are going.                                                *)
MarkedDown ==
    mark = "restarting" =>
        /\ \A p \in markedAt : server[p] \notin {"none", "booting"}
        /\ sawDown \/ probe \notin {"none", "running"} =>
              \A p \in markedAt : server[p] \in {"closing", "signalled", "gone"}

-----------------------------------------------------------------------------
(* Types *)

LEMMA Bounds == CrashMax \in Nat \ {0} /\ MaxPids \in Nat /\ MaxSessions \in Nat /\ 0 \notin Sessions
BY ConstantsAssumption DEF Sessions

LEMMA AtMostOne ==
    ASSUME NEW S, \A x, y \in S : x = y
    PROVE  Cardinality(S) <= 1
<1>1. CASE S = {}
  BY <1>1, FS_EmptySet
<1>2. CASE S # {}
  <2> PICK x \in S : S = {x}
    BY <1>2
  <2> QED
    BY FS_Singleton
<1> QED
  BY <1>1, <1>2

LEMMA TypedKept ==
    ASSUME TypeInv, [Next]_vars
    PROVE  Typed'
<1> USE DEF hostVars, opVars, markVars, Goto, TypeInv, Typed
<1>1. ASSUME NEW s \in Sessions, Header(s) \/ Launch(s) \/ AfterExit(s) \/ Relaunch(s)
      PROVE  Typed'
  <2>1. CASE Header(s)
    BY <2>1 DEF Header
  <2>2. CASE Launch(s)
    BY <2>2 DEF Launch
  <2>3. CASE AfterExit(s)
    <3>1. PICK recent \in 0..crashes[s] :
            LET exits == IF norestart \/ ~autoRestart THEN crashes[s] ELSE recent + 1 IN
            /\ session' = [session EXCEPT ![s] =
                  IF norestart \/ ~autoRestart \/ exits >= CrashMax THEN "gone" ELSE "waiting"]
            /\ crashes' = [crashes EXCEPT ![s] = exits]
            /\ norestart' = FALSE
      BY <2>3 DEF AfterExit
    <3>2. crashes[s] \in 0..CrashMax /\ crashes[s] < CrashMax
      BY <2>3, Bounds DEF AfterExit, ExitsLeft
    <3>3. recent + 1 \in 0..CrashMax
      BY <3>2, Bounds
    <3>4. crashes' \in [Sessions -> 0..CrashMax]
      BY <3>1, <3>2, <3>3
    <3> QED
      BY <2>3, <3>1, <3>4 DEF AfterExit
  <2>4. CASE Relaunch(s)
    BY <2>4 DEF Relaunch
  <2> QED
    BY <1>1, <2>1, <2>2, <2>3, <2>4
<1>2. ASSUME NEW p \in Pids, ServerTurns(p) \/ ServerExits(p)
      PROVE  Typed'
  <2>1. CASE ServerTurns(p)
    BY <2>1 DEF ServerTurns
  <2>2. CASE ServerExits(p)
    BY <2>2 DEF ServerExits
  <2> QED
    BY <1>2, <2>1, <2>2
<1>3. ASSUME NEW o \in Ops, Request(o) \/ OpStep(o)
      PROVE  Typed'
  <2>1. CASE Request(o)
    BY <2>1 DEF Request, LivePids
  <2>2. CASE Start(o)
    BY <2>2 DEF Start
  <2>3. CASE Detach(o)
    BY <2>3 DEF Detach
  <2>4. CASE Watched(o)
    BY <2>4 DEF Watched
  <2>5. CASE Stop(o)
    BY <2>5 DEF Stop, AfterStop
  <2>6. CASE Ask(o)
    BY <2>6 DEF Ask, AfterStop, LivePids
  <2>7. CASE Waited(o)
    BY <2>7 DEF Waited
  <2>8. CASE Terminated(o)
    BY <2>8 DEF Terminated
  <2>9. CASE Leave(o)
    BY <2>9 DEF Leave
  <2>10. CASE Respawned(o)
    BY <2>10 DEF Respawned, AfterStop, LivePids
  <2>11. CASE Finish(o)
    BY <2>11 DEF Finish, Unmark
  <2> QED
    BY <1>3, <2>1, <2>2, <2>3, <2>4, <2>5, <2>6, <2>7, <2>8, <2>9, <2>10, <2>11 DEF OpStep
<1>4. CASE Probe
  BY <1>4 DEF Probe, StatusRead
<1>5. CASE Settle \/ Ages
  BY <1>5 DEF Settle, Ages, Unmark, Stopped, Restarted
<1>6. CASE UNCHANGED vars
  BY <1>6 DEF vars
<1> QED
  BY <1>1, <1>2, <1>3, <1>4, <1>5, <1>6 DEF Next, WrapperStep

LEMMA ExitsKept ==
    ASSUME TypeInv, [Next]_vars
    PROVE  ExitsLeft'
<1> USE DEF hostVars, opVars, markVars, Goto, TypeInv, Typed, ExitsLeft
<1>1. ASSUME NEW s \in Sessions, Header(s) \/ Launch(s) \/ AfterExit(s) \/ Relaunch(s)
      PROVE  ExitsLeft'
  <2>1. CASE Header(s)
    BY <2>1 DEF Header
  <2>2. CASE Launch(s)
    BY <2>2 DEF Launch
  <2>3. CASE AfterExit(s)
    BY <2>3, Bounds DEF AfterExit
  <2>4. CASE Relaunch(s)
    BY <2>4 DEF Relaunch
  <2> QED
    BY <1>1, <2>1, <2>2, <2>3, <2>4
<1>2. ASSUME NEW p \in Pids, ServerTurns(p) \/ ServerExits(p)
      PROVE  ExitsLeft'
  <2>1. CASE ServerTurns(p)
    BY <2>1 DEF ServerTurns
  <2>2. CASE ServerExits(p)
    BY <2>2 DEF ServerExits
  <2> QED
    BY <1>2, <2>1, <2>2
<1>3. ASSUME NEW o \in Ops, Request(o) \/ OpStep(o)
      PROVE  ExitsLeft'
  <2>1. CASE Request(o)
    BY <2>1 DEF Request
  <2>2. CASE Start(o)
    BY <2>2 DEF Start
  <2>3. CASE Detach(o)
    BY <2>3 DEF Detach
  <2>4. CASE Watched(o)
    BY <2>4 DEF Watched
  <2>5. CASE Stop(o)
    BY <2>5 DEF Stop
  <2>6. CASE Ask(o)
    BY <2>6 DEF Ask
  <2>7. CASE Waited(o)
    BY <2>7 DEF Waited
  <2>8. CASE Terminated(o)
    BY <2>8 DEF Terminated
  <2>9. CASE Leave(o)
    BY <2>9 DEF Leave
  <2>10. CASE Respawned(o)
    BY <2>10 DEF Respawned
  <2>11. CASE Finish(o)
    BY <2>11 DEF Finish, Unmark
  <2> QED
    BY <1>3, <2>1, <2>2, <2>3, <2>4, <2>5, <2>6, <2>7, <2>8, <2>9, <2>10, <2>11 DEF OpStep
<1>4. CASE Probe
  BY <1>4 DEF Probe
<1>5. CASE Settle \/ Ages
  BY <1>5 DEF Settle, Ages, Unmark, Stopped, Restarted
<1>6. CASE UNCHANGED vars
  BY <1>6 DEF vars
<1> QED
  BY <1>1, <1>2, <1>3, <1>4, <1>5, <1>6 DEF Next, WrapperStep

LEMMA AskedKindKept ==
    ASSUME TypeInv, [Next]_vars
    PROVE  AsAsked'
<1> USE DEF hostVars, opVars, markVars, Goto, TypeInv, Typed, AsAsked
<1>1. ASSUME NEW s \in Sessions, Header(s) \/ Launch(s) \/ AfterExit(s) \/ Relaunch(s)
      PROVE  AsAsked'
  <2>1. CASE Header(s)
    BY <2>1 DEF Header
  <2>2. CASE Launch(s)
    BY <2>2 DEF Launch
  <2>3. CASE AfterExit(s)
    BY <2>3 DEF AfterExit
  <2>4. CASE Relaunch(s)
    BY <2>4 DEF Relaunch
  <2> QED
    BY <1>1, <2>1, <2>2, <2>3, <2>4
<1>2. ASSUME NEW p \in Pids, ServerTurns(p) \/ ServerExits(p)
      PROVE  AsAsked'
  <2>1. CASE ServerTurns(p)
    BY <2>1 DEF ServerTurns
  <2>2. CASE ServerExits(p)
    BY <2>2 DEF ServerExits
  <2> QED
    BY <1>2, <2>1, <2>2
<1>3. ASSUME NEW o \in Ops, Request(o) \/ OpStep(o)
      PROVE  AsAsked'
  <2>1. CASE Request(o)
    BY <2>1 DEF Request
  <2>2. CASE Start(o)
    BY <2>2 DEF Start
  <2>3. CASE Detach(o)
    BY <2>3 DEF Detach
  <2>4. CASE Watched(o)
    BY <2>4 DEF Watched
  <2>5. CASE Stop(o)
    BY <2>5 DEF Stop, AfterStop
  <2>6. CASE Ask(o)
    BY <2>6 DEF Ask
  <2>7. CASE Waited(o)
    BY <2>7 DEF Waited
  <2>8. CASE Terminated(o)
    BY <2>8 DEF Terminated
  <2>9. CASE Leave(o)
    BY <2>9 DEF Leave
  <2>10. CASE Respawned(o)
    BY <2>10 DEF Respawned, AfterStop
  <2>11. CASE Finish(o)
    BY <2>11 DEF Finish, Unmark
  <2> QED
    BY <1>3, <2>1, <2>2, <2>3, <2>4, <2>5, <2>6, <2>7, <2>8, <2>9, <2>10, <2>11 DEF OpStep
<1>4. CASE Probe
  BY <1>4 DEF Probe
<1>5. CASE Settle \/ Ages
  BY <1>5 DEF Settle, Ages, Unmark, Stopped, Restarted
<1>6. CASE UNCHANGED vars
  BY <1>6 DEF vars
<1> QED
  BY <1>1, <1>2, <1>3, <1>4, <1>5, <1>6 DEF Next, WrapperStep

LEMMA HomedKept ==
    ASSUME TypeInv, [Next]_vars
    PROVE  Homed'
<1> USE DEF hostVars, opVars, markVars, Goto, TypeInv, Typed, Homed, LivePids
<1>1. ASSUME NEW s \in Sessions, Header(s) \/ Launch(s) \/ AfterExit(s) \/ Relaunch(s)
      PROVE  Homed'
  <2>1. CASE Header(s)
    BY <2>1 DEF Header
  <2>2. CASE Launch(s)
    BY <2>2 DEF Launch
  <2>3. CASE AfterExit(s)
    BY <2>3 DEF AfterExit
  <2>4. CASE Relaunch(s)
    BY <2>4 DEF Relaunch
  <2> QED
    BY <1>1, <2>1, <2>2, <2>3, <2>4
<1>2. ASSUME NEW p \in Pids, ServerTurns(p) \/ ServerExits(p)
      PROVE  Homed'
  <2>1. CASE ServerTurns(p)
    BY <2>1 DEF ServerTurns
  <2>2. CASE ServerExits(p)
    BY <2>2 DEF ServerExits
  <2> QED
    BY <1>2, <2>1, <2>2
<1>3. ASSUME NEW o \in Ops, Request(o) \/ OpStep(o)
      PROVE  Homed'
  <2>1. CASE Request(o)
    BY <2>1 DEF Request
  <2>2. CASE Start(o)
    BY <2>2 DEF Start
  <2>3. CASE Detach(o)
    BY <2>3 DEF Detach
  <2>4. CASE Watched(o)
    BY <2>4 DEF Watched
  <2>5. CASE Stop(o)
    BY <2>5 DEF Stop
  <2>6. CASE Ask(o)
    BY <2>6 DEF Ask
  <2>7. CASE Waited(o)
    BY <2>7 DEF Waited
  <2>8. CASE Terminated(o)
    BY <2>8 DEF Terminated
  <2>9. CASE Leave(o)
    BY <2>9 DEF Leave, LiveSessions
  <2>10. CASE Respawned(o)
    BY <2>10 DEF Respawned
  <2>11. CASE Finish(o)
    BY <2>11 DEF Finish, Unmark
  <2> QED
    BY <1>3, <2>1, <2>2, <2>3, <2>4, <2>5, <2>6, <2>7, <2>8, <2>9, <2>10, <2>11 DEF OpStep
<1>4. CASE Probe
  BY <1>4 DEF Probe
<1>5. CASE Settle \/ Ages
  BY <1>5 DEF Settle, Ages, Unmark, Stopped, Restarted
<1>6. CASE UNCHANGED vars
  BY <1>6 DEF vars
<1> QED
  BY <1>1, <1>2, <1>3, <1>4, <1>5, <1>6 DEF Next, WrapperStep

LEMMA TypesHold == Spec => []TypeInv
<1>1. Init => TypeInv
  <2> SUFFICES ASSUME Init PROVE TypeInv
    OBVIOUS
  <2>1. Typed
    <3>1. crashes \in [Sessions -> 0..CrashMax]
      BY Bounds DEF Init
    <3> QED
      BY <3>1 DEF Init, Typed
  <2>2. ExitsLeft /\ AsAsked /\ Homed
    BY Bounds DEF Init, ExitsLeft, AsAsked, Homed, LivePids
  <2> QED
    BY <2>1, <2>2 DEF TypeInv
<1>2. TypeInv /\ [Next]_vars => TypeInv'
  BY TypedKept, ExitsKept, AskedKindKept, HomedKept DEF TypeInv
<1> QED
  BY <1>1, <1>2, PTL DEF Spec

(* In every state the variables have their types: a wrapper never counts    *)
(* more exits than the crash limit, and serves one process at a time.       *)
THEOREM TypeCorrect == Spec => []TypeOK
<1>1. TypeInv => TypeOK
  <2> SUFFICES ASSUME TypeInv PROVE TypeOK
    OBVIOUS
  <2>1. ASSUME NEW s \in Sessions, session[s] = "serving"
        PROVE  Cardinality({p \in LivePids : home[p] = s}) <= 1
    BY <2>1, AtMostOne DEF TypeInv, Homed
  <2> QED
    BY <2>1 DEF TypeInv, Typed, TypeOK
<1> QED
  BY <1>1, TypesHold, PTL

-----------------------------------------------------------------------------
(* Operations that do not overlap *)

LEMMA OneBusyKept ==
    ASSUME TypeInv, "ops" \notin overlaps, OneBusy, [Next]_vars
    PROVE  OneBusy'
<1> USE DEF hostVars, opVars, markVars, Goto, TypeInv, Typed, OneBusy, Busy
<1>1. ASSUME NEW s \in Sessions, Header(s) \/ Launch(s) \/ AfterExit(s) \/ Relaunch(s)
      PROVE  OneBusy'
  <2>1. CASE Header(s)
    BY <2>1 DEF Header
  <2>2. CASE Launch(s)
    BY <2>2 DEF Launch
  <2>3. CASE AfterExit(s)
    BY <2>3 DEF AfterExit
  <2>4. CASE Relaunch(s)
    BY <2>4 DEF Relaunch
  <2> QED
    BY <1>1, <2>1, <2>2, <2>3, <2>4
<1>2. ASSUME NEW p \in Pids, ServerTurns(p) \/ ServerExits(p)
      PROVE  OneBusy'
  <2>1. CASE ServerTurns(p)
    BY <2>1 DEF ServerTurns
  <2>2. CASE ServerExits(p)
    BY <2>2 DEF ServerExits
  <2> QED
    BY <1>2, <2>1, <2>2
<1>3. ASSUME NEW o \in Ops, Request(o) \/ OpStep(o)
      PROVE  OneBusy'
  <2>1. CASE Request(o)
    BY <2>1 DEF Request
  <2>2. CASE Start(o)
    BY <2>2 DEF Start
  <2>3. CASE Detach(o)
    BY <2>3 DEF Detach
  <2>4. CASE Watched(o)
    BY <2>4 DEF Watched
  <2>5. CASE Stop(o)
    BY <2>5 DEF Stop
  <2>6. CASE Ask(o)
    BY <2>6 DEF Ask
  <2>7. CASE Waited(o)
    BY <2>7 DEF Waited
  <2>8. CASE Terminated(o)
    BY <2>8 DEF Terminated
  <2>9. CASE Leave(o)
    BY <2>9 DEF Leave
  <2>10. CASE Respawned(o)
    BY <2>10 DEF Respawned
  <2>11. CASE Finish(o)
    BY <2>11 DEF Finish, Unmark
  <2> QED
    BY <1>3, <2>1, <2>2, <2>3, <2>4, <2>5, <2>6, <2>7, <2>8, <2>9, <2>10, <2>11 DEF OpStep
<1>4. CASE Probe
  BY <1>4 DEF Probe
<1>5. CASE Settle \/ Ages
  BY <1>5 DEF Settle, Ages, Unmark, Stopped, Restarted
<1>6. CASE UNCHANGED vars
  BY <1>6 DEF vars
<1> QED
  BY <1>1, <1>2, <1>3, <1>4, <1>5, <1>6 DEF Next, WrapperStep

LEMMA OneSessionKept ==
    ASSUME TypeInv, "ops" \notin overlaps, OneSession, NoWrapper, [Next]_vars
    PROVE  OneSession'
<1> USE DEF hostVars, opVars, markVars, Goto, TypeInv, Typed, LiveSessions, OneSession, NoWrapper
<1>1. ASSUME NEW s \in Sessions, Header(s) \/ Launch(s) \/ AfterExit(s) \/ Relaunch(s)
      PROVE  OneSession'
  <2>1. CASE Header(s)
    BY <2>1 DEF Header
  <2>2. CASE Launch(s)
    BY <2>2 DEF Launch
  <2>3. CASE AfterExit(s)
    BY <2>3 DEF AfterExit
  <2>4. CASE Relaunch(s)
    BY <2>4 DEF Relaunch
  <2> QED
    BY <1>1, <2>1, <2>2, <2>3, <2>4
<1>2. ASSUME NEW p \in Pids, ServerTurns(p) \/ ServerExits(p)
      PROVE  OneSession'
  <2>1. CASE ServerTurns(p)
    BY <2>1 DEF ServerTurns
  <2>2. CASE ServerExits(p)
    BY <2>2 DEF ServerExits
  <2> QED
    BY <1>2, <2>1, <2>2
<1>3. ASSUME NEW o \in Ops, Request(o) \/ OpStep(o)
      PROVE  OneSession'
  <2>1. CASE Request(o)
    BY <2>1 DEF Request
  <2>2. CASE Start(o)
    BY <2>2 DEF Start
  <2>3. CASE Detach(o)
    BY <2>3 DEF Detach
  <2>4. CASE Watched(o)
    BY <2>4 DEF Watched
  <2>5. CASE Stop(o)
    BY <2>5 DEF Stop
  <2>6. CASE Ask(o)
    BY <2>6 DEF Ask
  <2>7. CASE Waited(o)
    BY <2>7 DEF Waited
  <2>8. CASE Terminated(o)
    BY <2>8 DEF Terminated
  <2>9. CASE Leave(o)
    BY <2>9 DEF Leave
  <2>10. CASE Respawned(o)
    BY <2>10 DEF Respawned
  <2>11. CASE Finish(o)
    BY <2>11 DEF Finish, Unmark
  <2> QED
    BY <1>3, <2>1, <2>2, <2>3, <2>4, <2>5, <2>6, <2>7, <2>8, <2>9, <2>10, <2>11 DEF OpStep
<1>4. CASE Probe
  BY <1>4 DEF Probe
<1>5. CASE Settle \/ Ages
  BY <1>5 DEF Settle, Ages, Unmark, Stopped, Restarted
<1>6. CASE UNCHANGED vars
  BY <1>6 DEF vars
<1> QED
  BY <1>1, <1>2, <1>3, <1>4, <1>5, <1>6 DEF Next, WrapperStep

LEMMA SentinelKept ==
    ASSUME TypeInv, "ops" \notin overlaps, OneBusy, SentinelOwned, [Next]_vars
    PROVE  SentinelOwned'
<1> USE DEF hostVars, opVars, markVars, Goto, TypeInv, Typed, LiveSessions, OneBusy, Busy,
            SentinelOwned, Stopping
<1>1. ASSUME NEW s \in Sessions, Header(s) \/ Launch(s) \/ AfterExit(s) \/ Relaunch(s)
      PROVE  SentinelOwned'
  <2>1. CASE Header(s)
    BY <2>1 DEF Header
  <2>2. CASE Launch(s)
    BY <2>2 DEF Launch
  <2>3. CASE AfterExit(s)
    BY <2>3 DEF AfterExit
  <2>4. CASE Relaunch(s)
    BY <2>4 DEF Relaunch
  <2> QED
    BY <1>1, <2>1, <2>2, <2>3, <2>4
<1>2. ASSUME NEW p \in Pids, ServerTurns(p) \/ ServerExits(p)
      PROVE  SentinelOwned'
  <2>1. CASE ServerTurns(p)
    BY <2>1 DEF ServerTurns
  <2>2. CASE ServerExits(p)
    BY <2>2 DEF ServerExits
  <2> QED
    BY <1>2, <2>1, <2>2
<1>3. ASSUME NEW o \in Ops, Request(o) \/ OpStep(o)
      PROVE  SentinelOwned'
  <2>1. CASE Request(o)
    BY <2>1 DEF Request
  <2>2. CASE Start(o)
    BY <2>2 DEF Start
  <2>3. CASE Detach(o)
    BY <2>3 DEF Detach
  <2>4. CASE Watched(o)
    BY <2>4 DEF Watched
  <2>5. CASE Stop(o)
    BY <2>5 DEF Stop, AfterStop
  <2>6. CASE Ask(o)
    BY <2>6 DEF Ask
  <2>7. CASE Waited(o)
    BY <2>7 DEF Waited
  <2>8. CASE Terminated(o)
    BY <2>8 DEF Terminated
  <2>9. CASE Leave(o)
    BY <2>9 DEF Leave
  <2>10. CASE Respawned(o)
    BY <2>10 DEF Respawned, AfterStop
  <2>11. CASE Finish(o)
    BY <2>11 DEF Finish, Unmark
  <2> QED
    BY <1>3, <2>1, <2>2, <2>3, <2>4, <2>5, <2>6, <2>7, <2>8, <2>9, <2>10, <2>11 DEF OpStep
<1>4. CASE Probe
  BY <1>4 DEF Probe
<1>5. CASE Settle \/ Ages
  BY <1>5 DEF Settle, Ages, Unmark, Stopped, Restarted
<1>6. CASE UNCHANGED vars
  BY <1>6 DEF vars
<1> QED
  BY <1>1, <1>2, <1>3, <1>4, <1>5, <1>6 DEF Next, WrapperStep

LEMMA NoWrapperKept ==
    ASSUME TypeInv, "ops" \notin overlaps, OneBusy, OneSession, NoWrapper, [Next]_vars
    PROVE  NoWrapper'
<1> USE DEF hostVars, opVars, markVars, Goto, TypeInv, Typed, LiveSessions, AsAsked, OneBusy,
            Busy, OneSession, NoWrapper
<1>1. ASSUME NEW s \in Sessions, Header(s) \/ Launch(s) \/ AfterExit(s) \/ Relaunch(s)
      PROVE  NoWrapper'
  <2>1. CASE Header(s)
    BY <2>1 DEF Header
  <2>2. CASE Launch(s)
    BY <2>2 DEF Launch
  <2>3. CASE AfterExit(s)
    BY <2>3 DEF AfterExit
  <2>4. CASE Relaunch(s)
    BY <2>4 DEF Relaunch
  <2> QED
    BY <1>1, <2>1, <2>2, <2>3, <2>4
<1>2. ASSUME NEW p \in Pids, ServerTurns(p) \/ ServerExits(p)
      PROVE  NoWrapper'
  <2>1. CASE ServerTurns(p)
    BY <2>1 DEF ServerTurns
  <2>2. CASE ServerExits(p)
    BY <2>2 DEF ServerExits
  <2> QED
    BY <1>2, <2>1, <2>2
<1>3. ASSUME NEW o \in Ops, Request(o) \/ OpStep(o)
      PROVE  NoWrapper'
  <2>1. CASE Request(o)
    BY <2>1 DEF Request
  <2>2. CASE Start(o)
    <3>1. session' = session /\ kind' = kind /\ \A u \in Ops \ {o} : pc'[u] = pc[u]
      BY <2>2 DEF Start
    <3>2. pc'[o] = "finish" \/ (pc'[o] = "detach" /\ LiveSessions = {})
      <4>1. CASE LiveSessions = {}
        BY <2>2, <4>1 DEF Start
      <4>2. CASE LiveSessions # {}
        BY <2>2, <4>2 DEF Start
      <4> QED
        BY <4>1, <4>2
    <3> QED
      BY <2>2, <3>1, <3>2 DEF Start
  <2>3. CASE Detach(o)
    BY <2>3 DEF Detach
  <2>4. CASE Watched(o)
    BY <2>4 DEF Watched
  <2>5. CASE Stop(o)
    BY <2>5 DEF Stop, AfterStop
  <2>6. CASE Ask(o)
    BY <2>6 DEF Ask
  <2>7. CASE Waited(o)
    BY <2>7 DEF Waited
  <2>8. CASE Terminated(o)
    BY <2>8 DEF Terminated
  <2>9. CASE Leave(o)
    BY <2>9 DEF Leave
  <2>10. CASE Respawned(o)
    BY <2>10 DEF Respawned, AfterStop
  <2>11. CASE Finish(o)
    BY <2>11 DEF Finish, Unmark
  <2> QED
    BY <1>3, <2>1, <2>2, <2>3, <2>4, <2>5, <2>6, <2>7, <2>8, <2>9, <2>10, <2>11 DEF OpStep
<1>4. CASE Probe
  BY <1>4 DEF Probe
<1>5. CASE Settle \/ Ages
  BY <1>5 DEF Settle, Ages, Unmark, Stopped, Restarted
<1>6. CASE UNCHANGED vars
  BY <1>6 DEF vars
<1> QED
  BY <1>1, <1>2, <1>3, <1>4, <1>5, <1>6 DEF Next, WrapperStep

LEMMA OrphansKept ==
    ASSUME TypeInv, "ops" \notin overlaps, OrphansSignalled, [Next]_vars
    PROVE  OrphansSignalled'
<1> USE DEF hostVars, opVars, markVars, Goto, TypeInv, Typed, LiveSessions, Homed, LivePids,
            OrphansSignalled
<1>1. ASSUME NEW s \in Sessions, Header(s) \/ Launch(s) \/ AfterExit(s) \/ Relaunch(s)
      PROVE  OrphansSignalled'
  <2>1. CASE Header(s)
    BY <2>1 DEF Header
  <2>2. CASE Launch(s)
    BY <2>2 DEF Launch
  <2>3. CASE AfterExit(s)
    BY <2>3 DEF AfterExit
  <2>4. CASE Relaunch(s)
    BY <2>4 DEF Relaunch
  <2> QED
    BY <1>1, <2>1, <2>2, <2>3, <2>4
<1>2. ASSUME NEW p \in Pids, ServerTurns(p) \/ ServerExits(p)
      PROVE  OrphansSignalled'
  <2>1. CASE ServerTurns(p)
    BY <2>1 DEF ServerTurns
  <2>2. CASE ServerExits(p)
    BY <2>2 DEF ServerExits
  <2> QED
    BY <1>2, <2>1, <2>2
<1>3. ASSUME NEW o \in Ops, Request(o) \/ OpStep(o)
      PROVE  OrphansSignalled'
  <2>1. CASE Request(o)
    BY <2>1 DEF Request
  <2>2. CASE Start(o)
    BY <2>2 DEF Start
  <2>3. CASE Detach(o)
    BY <2>3 DEF Detach
  <2>4. CASE Watched(o)
    BY <2>4 DEF Watched
  <2>5. CASE Stop(o)
    BY <2>5 DEF Stop
  <2>6. CASE Ask(o)
    BY <2>6 DEF Ask
  <2>7. CASE Waited(o)
    BY <2>7 DEF Waited
  <2>8. CASE Terminated(o)
    BY <2>8 DEF Terminated
  <2>9. CASE Leave(o)
    BY <2>9 DEF Leave
  <2>10. CASE Respawned(o)
    BY <2>10 DEF Respawned
  <2>11. CASE Finish(o)
    BY <2>11 DEF Finish, Unmark
  <2> QED
    BY <1>3, <2>1, <2>2, <2>3, <2>4, <2>5, <2>6, <2>7, <2>8, <2>9, <2>10, <2>11 DEF OpStep
<1>4. CASE Probe
  BY <1>4 DEF Probe
<1>5. CASE Settle \/ Ages
  BY <1>5 DEF Settle, Ages, Unmark, Stopped, Restarted
<1>6. CASE UNCHANGED vars
  BY <1>6 DEF vars
<1> QED
  BY <1>1, <1>2, <1>3, <1>4, <1>5, <1>6 DEF Next, WrapperStep

LEMMA OverlapsFixed ==
    ASSUME [Next]_vars
    PROVE  overlaps' = overlaps
BY DEF Next, vars, WrapperStep, OpStep, Header, Launch, AfterExit, Relaunch, ServerTurns, ServerExits,
       Request, Start, Detach, Watched, Stop, Ask, Waited, Terminated, Leave, Respawned, Finish, Probe, Ages, Settle

LEMMA AloneHolds == Spec => [](TypeInv /\ ("ops" \notin overlaps => AloneInv))
<1> DEFINE Inv == TypeInv /\ ("ops" \notin overlaps => AloneInv)
<1>1. Init => AloneInv
  <2>1. Init => OneBusy /\ OneSession /\ NoWrapper
    BY DEF Init, OneBusy, Busy, OneSession, LiveSessions, NoWrapper
  <2>2. Init => SentinelOwned /\ OrphansSignalled
    BY DEF Init, SentinelOwned, OrphansSignalled, LivePids
  <2> QED
    BY <2>1, <2>2 DEF AloneInv
<1>2. Inv /\ [Next]_vars => Inv'
  <2> SUFFICES ASSUME Inv, [Next]_vars PROVE Inv'
    OBVIOUS
  <2>1. TypeInv'
    BY TypedKept, ExitsKept, AskedKindKept, HomedKept DEF TypeInv
  <2>2. ASSUME "ops" \notin overlaps PROVE AloneInv'
    BY <2>2, OneBusyKept, OneSessionKept, SentinelKept, NoWrapperKept, OrphansKept DEF AloneInv
  <2> QED
    BY <2>1, <2>2, OverlapsFixed
<1> QED
  BY <1>1, <1>2, TypesHold, PTL DEF Spec

(* Where operations do not overlap, a stop that is over has left no wrapper *)
(* to launch anything and no sentinel to keep the next one from it, and has *)
(* signalled every server that is still there - even where a server came up  *)
(* while the stop was at work, or outlived every wait of it.                 *)
THEOREM StopsAreFinal == Spec => []StopIsFinal
<1>1. TypeInv /\ ("ops" \notin overlaps => AloneInv) => StopIsFinal
  <2> SUFFICES ASSUME TypeInv, AloneInv, NEW o \in Ops, pc[o] = "finish", kind[o] = "stop"
               PROVE  /\ LiveSessions = {} /\ ~norestart
                      /\ \A p \in LivePids : server[p] = "signalled"
    BY DEF StopIsFinal
  <2>1. LiveSessions = {}
    BY DEF AloneInv, NoWrapper
  <2>2. ~norestart
    BY DEF AloneInv, OneBusy, Busy, SentinelOwned, Stopping
  <2>3. ASSUME NEW p \in LivePids PROVE server[p] = "signalled"
    BY <2>1, <2>3 DEF AloneInv, OrphansSignalled, TypeInv, Homed, LiveSessions
  <2> QED
    BY <2>1, <2>2, <2>3
<1> QED
  BY <1>1, AloneHolds, PTL

-----------------------------------------------------------------------------
(* Stops that find a server that is up *)

LEMMA UntoldKept ==
    ASSUME TypeInv, {"ops", "launching"} \cap overlaps = {}, AloneInv, AskedInv, [Next]_vars
    PROVE  Untold'
<1> USE DEF hostVars, opVars, markVars, Goto, TypeInv, Typed, Homed, LiveSessions, LivePids,
            AloneInv, OneBusy, Busy, OneSession, NoWrapper, AskedInv, Untold
<1>1. ASSUME NEW s \in Sessions, Header(s) \/ Launch(s) \/ AfterExit(s) \/ Relaunch(s)
      PROVE  Untold'
  <2>1. CASE Header(s)
    BY <2>1 DEF Header
  <2>2. CASE Launch(s)
    BY <2>2 DEF Launch
  <2>3. CASE AfterExit(s)
    BY <2>3 DEF AfterExit
  <2>4. CASE Relaunch(s)
    BY <2>4 DEF Relaunch
  <2> QED
    BY <1>1, <2>1, <2>2, <2>3, <2>4
<1>2. ASSUME NEW p \in Pids, ServerTurns(p) \/ ServerExits(p)
      PROVE  Untold'
  <2>1. CASE ServerTurns(p)
    BY <2>1 DEF ServerTurns
  <2>2. CASE ServerExits(p)
    BY <2>2 DEF ServerExits
  <2> QED
    BY <1>2, <2>1, <2>2
<1>3. ASSUME NEW o \in Ops, Request(o) \/ OpStep(o)
      PROVE  Untold'
  <2>1. CASE Request(o)
    BY <2>1 DEF Request, Launching
  <2>2. CASE Start(o)
    BY <2>2 DEF Start
  <2>3. CASE Detach(o)
    BY <2>3 DEF Detach
  <2>4. CASE Watched(o)
    BY <2>4 DEF Watched
  <2>5. CASE Stop(o)
    BY <2>5 DEF Stop, AfterStop
  <2>6. CASE Ask(o)
    BY <2>6 DEF Ask, Consoles
  <2>7. CASE Waited(o)
    BY <2>7 DEF Waited
  <2>8. CASE Terminated(o)
    BY <2>8 DEF Terminated
  <2>9. CASE Leave(o)
    BY <2>9 DEF Leave
  <2>10. CASE Respawned(o)
    BY <2>10 DEF Respawned, AfterStop
  <2>11. CASE Finish(o)
    BY <2>11 DEF Finish, Unmark
  <2> QED
    BY <1>3, <2>1, <2>2, <2>3, <2>4, <2>5, <2>6, <2>7, <2>8, <2>9, <2>10, <2>11 DEF OpStep
<1>4. CASE Probe
  BY <1>4 DEF Probe
<1>5. CASE Settle \/ Ages
  BY <1>5 DEF Settle, Ages, Unmark, Stopped, Restarted
<1>6. CASE UNCHANGED vars
  BY <1>6 DEF vars
<1> QED
  BY <1>1, <1>2, <1>3, <1>4, <1>5, <1>6 DEF Next, WrapperStep

LEMMA ReadyKept ==
    ASSUME TypeInv, {"ops", "launching"} \cap overlaps = {}, AloneInv, AskedInv, [Next]_vars
    PROVE  Ready'
<1> USE DEF hostVars, opVars, markVars, Goto, TypeInv, Typed, Homed, LiveSessions, LivePids,
            AloneInv, OneBusy, Busy, OneSession, NoWrapper, AskedInv, Untold, Ready
<1>1. ASSUME NEW s \in Sessions, Header(s) \/ Launch(s) \/ AfterExit(s) \/ Relaunch(s)
      PROVE  Ready'
  <2>1. CASE Header(s)
    BY <2>1 DEF Header
  <2>2. CASE Launch(s)
    BY <2>2 DEF Launch
  <2>3. CASE AfterExit(s)
    BY <2>3 DEF AfterExit
  <2>4. CASE Relaunch(s)
    BY <2>4 DEF Relaunch
  <2> QED
    BY <1>1, <2>1, <2>2, <2>3, <2>4
<1>2. ASSUME NEW p \in Pids, ServerTurns(p) \/ ServerExits(p)
      PROVE  Ready'
  <2>1. CASE ServerTurns(p)
    BY <2>1 DEF ServerTurns
  <2>2. CASE ServerExits(p)
    BY <2>2 DEF ServerExits
  <2> QED
    BY <1>2, <2>1, <2>2
<1>3. ASSUME NEW o \in Ops, Request(o) \/ OpStep(o)
      PROVE  Ready'
  <2>1. CASE Request(o)
    BY <2>1 DEF Request, Launching
  <2>2. CASE Start(o)
    BY <2>2 DEF Start
  <2>3. CASE Detach(o)
    BY <2>3 DEF Detach
  <2>4. CASE Watched(o)
    BY <2>4 DEF Watched
  <2>5. CASE Stop(o)
    BY <2>5 DEF Stop, AfterStop
  <2>6. CASE Ask(o)
    BY <2>6 DEF Ask, Consoles
  <2>7. CASE Waited(o)
    BY <2>7 DEF Waited
  <2>8. CASE Terminated(o)
    BY <2>8 DEF Terminated
  <2>9. CASE Leave(o)
    BY <2>9 DEF Leave
  <2>10. CASE Respawned(o)
    BY <2>10 DEF Respawned, AfterStop
  <2>11. CASE Finish(o)
    BY <2>11 DEF Finish, Unmark
  <2> QED
    BY <1>3, <2>1, <2>2, <2>3, <2>4, <2>5, <2>6, <2>7, <2>8, <2>9, <2>10, <2>11 DEF OpStep
<1>4. CASE Probe
  BY <1>4 DEF Probe
<1>5. CASE Settle \/ Ages
  BY <1>5 DEF Settle, Ages, Unmark, Stopped, Restarted
<1>6. CASE UNCHANGED vars
  BY <1>6 DEF vars
<1> QED
  BY <1>1, <1>2, <1>3, <1>4, <1>5, <1>6 DEF Next, WrapperStep

LEMMA AskedKept ==
    ASSUME TypeInv, {"ops", "launching"} \cap overlaps = {}, AloneInv, AskedInv, [Next]_vars
    PROVE  Asked'
<1> USE DEF hostVars, opVars, markVars, Goto, TypeInv, Typed, Homed, LiveSessions, LivePids,
            AloneInv, OneBusy, Busy, OneSession, NoWrapper, OrphansSignalled, AskedInv, Ready,
            Asked, SentinelStands
<1>1. ASSUME NEW s \in Sessions, Header(s) \/ Launch(s) \/ AfterExit(s) \/ Relaunch(s)
      PROVE  Asked'
  <2>1. CASE Header(s)
    BY <2>1 DEF Header
  <2>2. CASE Launch(s)
    BY <2>2 DEF Launch
  <2>3. CASE AfterExit(s)
    BY <2>3 DEF AfterExit
  <2>4. CASE Relaunch(s)
    BY <2>4 DEF Relaunch
  <2> QED
    BY <1>1, <2>1, <2>2, <2>3, <2>4
<1>2. ASSUME NEW p \in Pids, ServerTurns(p) \/ ServerExits(p)
      PROVE  Asked'
  <2>1. CASE ServerTurns(p)
    BY <2>1 DEF ServerTurns
  <2>2. CASE ServerExits(p)
    BY <2>2 DEF ServerExits
  <2> QED
    BY <1>2, <2>1, <2>2
<1>3. ASSUME NEW o \in Ops, Request(o) \/ OpStep(o)
      PROVE  Asked'
  <2>1. CASE Request(o)
    BY <2>1 DEF Request, Launching
  <2>2. CASE Start(o)
    BY <2>2 DEF Start
  <2>3. CASE Detach(o)
    BY <2>3 DEF Detach
  <2>4. CASE Watched(o)
    BY <2>4 DEF Watched
  <2>5. CASE Stop(o)
    BY <2>5 DEF Stop, AfterStop
  <2>6. CASE Ask(o)
    BY <2>6 DEF Ask, Consoles
  <2>7. CASE Waited(o)
    BY <2>7 DEF Waited
  <2>8. CASE Terminated(o)
    BY <2>8 DEF Terminated
  <2>9. CASE Leave(o)
    BY <2>9 DEF Leave
  <2>10. CASE Respawned(o)
    BY <2>10 DEF Respawned, AfterStop
  <2>11. CASE Finish(o)
    BY <2>11 DEF Finish, Unmark
  <2> QED
    BY <1>3, <2>1, <2>2, <2>3, <2>4, <2>5, <2>6, <2>7, <2>8, <2>9, <2>10, <2>11 DEF OpStep
<1>4. CASE Probe
  BY <1>4 DEF Probe
<1>5. CASE Settle \/ Ages
  BY <1>5 DEF Settle, Ages, Unmark, Stopped, Restarted
<1>6. CASE UNCHANGED vars
  BY <1>6 DEF vars
<1> QED
  BY <1>1, <1>2, <1>3, <1>4, <1>5, <1>6 DEF Next, WrapperStep

LEMMA SentinelStandsKept ==
    ASSUME TypeInv, {"ops", "launching"} \cap overlaps = {}, AloneInv, AskedInv, [Next]_vars
    PROVE  SentinelStands'
<1> USE DEF hostVars, opVars, markVars, Goto, TypeInv, Typed, Homed, LiveSessions, LivePids,
            AloneInv, OneBusy, Busy, OneSession, NoWrapper, AskedInv, Ready, Asked, SentinelStands
<1>1. ASSUME NEW s \in Sessions, Header(s) \/ Launch(s) \/ AfterExit(s) \/ Relaunch(s)
      PROVE  SentinelStands'
  <2>1. CASE Header(s)
    BY <2>1 DEF Header
  <2>2. CASE Launch(s)
    BY <2>2 DEF Launch
  <2>3. CASE AfterExit(s)
    BY <2>3 DEF AfterExit
  <2>4. CASE Relaunch(s)
    BY <2>4 DEF Relaunch
  <2> QED
    BY <1>1, <2>1, <2>2, <2>3, <2>4
<1>2. ASSUME NEW p \in Pids, ServerTurns(p) \/ ServerExits(p)
      PROVE  SentinelStands'
  <2>1. CASE ServerTurns(p)
    BY <2>1 DEF ServerTurns
  <2>2. CASE ServerExits(p)
    BY <2>2 DEF ServerExits
  <2> QED
    BY <1>2, <2>1, <2>2
<1>3. ASSUME NEW o \in Ops, Request(o) \/ OpStep(o)
      PROVE  SentinelStands'
  <2>1. CASE Request(o)
    BY <2>1 DEF Request, Launching
  <2>2. CASE Start(o)
    BY <2>2 DEF Start
  <2>3. CASE Detach(o)
    BY <2>3 DEF Detach
  <2>4. CASE Watched(o)
    BY <2>4 DEF Watched
  <2>5. CASE Stop(o)
    BY <2>5 DEF Stop, AfterStop
  <2>6. CASE Ask(o)
    BY <2>6 DEF Ask, Consoles
  <2>7. CASE Waited(o)
    BY <2>7 DEF Waited
  <2>8. CASE Terminated(o)
    BY <2>8 DEF Terminated
  <2>9. CASE Leave(o)
    BY <2>9 DEF Leave
  <2>10. CASE Respawned(o)
    BY <2>10 DEF Respawned, AfterStop
  <2>11. CASE Finish(o)
    BY <2>11 DEF Finish, Unmark
  <2> QED
    BY <1>3, <2>1, <2>2, <2>3, <2>4, <2>5, <2>6, <2>7, <2>8, <2>9, <2>10, <2>11 DEF OpStep
<1>4. CASE Probe
  BY <1>4 DEF Probe
<1>5. CASE Settle \/ Ages
  BY <1>5 DEF Settle, Ages, Unmark, Stopped, Restarted
<1>6. CASE UNCHANGED vars
  BY <1>6 DEF vars
<1> QED
  BY <1>1, <1>2, <1>3, <1>4, <1>5, <1>6 DEF Next, WrapperStep

LEMMA AskedHolds ==
    Spec => []({"ops", "launching"} \cap overlaps = {} => AloneInv /\ AskedInv)
<1> DEFINE Apart == {"ops", "launching"} \cap overlaps = {}
           Alone == TypeInv /\ ("ops" \notin overlaps => AloneInv)
<1>1. Init => AskedInv
  <2>1. Init => Untold
    BY DEF Init, Untold, LivePids
  <2>2. Init => Ready /\ Asked /\ SentinelStands
    BY DEF Init, Ready, Asked, SentinelStands, LiveSessions
  <2> QED
    BY <2>1, <2>2 DEF AskedInv
<1>2. Alone /\ (Apart => AskedInv) /\ [Next]_vars => (Apart => AskedInv)'
  <2> SUFFICES ASSUME Alone, Apart => AskedInv, [Next]_vars, Apart' PROVE AskedInv'
    OBVIOUS
  <2>1. Apart /\ AloneInv /\ AskedInv
    BY OverlapsFixed
  <2>2. Untold' /\ Ready' /\ Asked' /\ SentinelStands'
    BY <2>1, UntoldKept, ReadyKept, AskedKept, SentinelStandsKept
  <2> QED
    BY <2>2 DEF AskedInv
<1>3. Alone /\ Apart => AloneInv
  OBVIOUS
<1> HIDE DEF Apart, Alone
<1>4. Spec => []Alone
  BY AloneHolds DEF Alone
<1>5. Spec => [](Apart => AloneInv /\ AskedInv)
  BY <1>1, <1>2, <1>3, <1>4, PTL DEF Spec
<1> QED
  BY <1>5 DEF Apart

LEMMA SignalsAskedFirst ==
    ASSUME TypeInv, AloneInv, AskedInv, [Next]_vars, NEW p \in Pids, server'[p] = "signalled"
    PROVE  server[p] \in {"told", "closing", "signalled"}
<1> USE DEF hostVars, TypeInv, Typed
<1>1. ASSUME NEW s \in Sessions, WrapperStep(s) PROVE server[p] = "signalled"
  BY <1>1 DEF WrapperStep, Header, Launch, AfterExit, Relaunch
<1>2. ASSUME NEW q \in Pids, ServerTurns(q) \/ ServerExits(q) PROVE server[p] = "signalled"
  BY <1>2 DEF ServerTurns, ServerExits
<1>3. ASSUME NEW o \in Ops, Request(o) \/ OpStep(o)
      PROVE  server[p] \in {"told", "closing", "signalled"}
  <2>1. CASE Request(o) \/ Start(o) \/ Detach(o) \/ Watched(o) \/ Stop(o) \/ Terminated(o) \/ Finish(o)
    BY <2>1 DEF Request, Start, Detach, Watched, Stop, Terminated, Finish
  <2>2. CASE Ask(o)
    BY <2>2 DEF Ask
  <2>3. CASE Waited(o)
    BY <2>3 DEF Waited, AskedInv, Asked
  <2>4. CASE Leave(o)
    BY <2>4 DEF Leave, AskedInv, Asked
  <2>5. CASE Respawned(o)
    <3>1. \A q \in LivePids : server[q] = "signalled"
      BY <2>5 DEF Respawned, AloneInv, NoWrapper, OrphansSignalled, Homed, LiveSessions
    <3> QED
      BY <2>5, <3>1 DEF Respawned, LivePids
  <2> QED
    BY <1>3, <2>1, <2>2, <2>3, <2>4, <2>5 DEF OpStep
<1>4. CASE Probe \/ Ages \/ Settle \/ UNCHANGED vars
  BY <1>4 DEF Probe, Ages, Settle, vars
<1> QED
  BY <1>1, <1>2, <1>3, <1>4 DEF Next

(* Where operations do not overlap and no stop comes while a wrapper has no *)
(* server up, no server is signalled that was not asked over its console     *)
(* first: not by the escalation, not by the hangup of the session and not    *)
(* by the check for one that came back, however slowly servers end.          *)
THEOREM ServersToldFirst == Spec => ToldFirst
<1> DEFINE Told == {"ops", "launching"} \cap overlaps = {} =>
                      \A p \in Pids : server'[p] = "signalled" => server[p] \in {"told", "closing", "signalled"}
<1>1. TypeInv /\ ({"ops", "launching"} \cap overlaps = {} => AloneInv /\ AskedInv) /\ [Next]_vars => [Told]_vars
  BY SignalsAskedFirst
<1> QED
  BY <1>1, TypesHold, AskedHolds, PTL DEF Spec, ToldFirst

-----------------------------------------------------------------------------
(* Servers that do not outlive the waits *)

LEMMA NoOrphansKept ==
    ASSUME TypeInv, overlaps \subseteq {"probing"}, AloneInv, AskedInv, SeenInv, [Next]_vars
    PROVE  NoOrphans'
<1> USE DEF hostVars, opVars, markVars, Goto, TypeInv, Typed, Homed, LiveSessions, LivePids,
            AloneInv, OneBusy, Busy, OneSession, NoWrapper, AskedInv, Ready, Asked, SeenInv,
            NoOrphans, SeenOut
<1>1. ASSUME NEW s \in Sessions, Header(s) \/ Launch(s) \/ AfterExit(s) \/ Relaunch(s)
      PROVE  NoOrphans'
  <2>1. CASE Header(s)
    BY <2>1 DEF Header
  <2>2. CASE Launch(s)
    BY <2>2 DEF Launch
  <2>3. CASE AfterExit(s)
    BY <2>3 DEF AfterExit
  <2>4. CASE Relaunch(s)
    BY <2>4 DEF Relaunch
  <2> QED
    BY <1>1, <2>1, <2>2, <2>3, <2>4
<1>2. ASSUME NEW p \in Pids, ServerTurns(p) \/ ServerExits(p)
      PROVE  NoOrphans'
  <2>1. CASE ServerTurns(p)
    BY <2>1 DEF ServerTurns
  <2>2. CASE ServerExits(p)
    BY <2>2 DEF ServerExits
  <2> QED
    BY <1>2, <2>1, <2>2
<1>3. ASSUME NEW o \in Ops, Request(o) \/ OpStep(o)
      PROVE  NoOrphans'
  <2>1. CASE Request(o)
    BY <2>1 DEF Request
  <2>2. CASE Start(o)
    BY <2>2 DEF Start
  <2>3. CASE Detach(o)
    BY <2>3 DEF Detach
  <2>4. CASE Watched(o)
    BY <2>4 DEF Watched
  <2>5. CASE Stop(o)
    BY <2>5 DEF Stop
  <2>6. CASE Ask(o)
    BY <2>6 DEF Ask
  <2>7. CASE Waited(o)
    BY <2>7 DEF Waited
  <2>8. CASE Terminated(o)
    BY <2>8 DEF Terminated
  <2>9. CASE Leave(o)
    BY <2>9 DEF Leave
  <2>10. CASE Respawned(o)
    BY <2>10 DEF Respawned
  <2>11. CASE Finish(o)
    BY <2>11 DEF Finish, Unmark
  <2> QED
    BY <1>3, <2>1, <2>2, <2>3, <2>4, <2>5, <2>6, <2>7, <2>8, <2>9, <2>10, <2>11 DEF OpStep
<1>4. CASE Probe
  BY <1>4 DEF Probe
<1>5. CASE Settle \/ Ages
  BY <1>5 DEF Settle, Ages, Unmark, Stopped, Restarted
<1>6. CASE UNCHANGED vars
  BY <1>6 DEF vars
<1> QED
  BY <1>1, <1>2, <1>3, <1>4, <1>5, <1>6 DEF Next, WrapperStep

LEMMA SeenOutKept ==
    ASSUME TypeInv, overlaps \subseteq {"probing"}, AloneInv, AskedInv, SeenInv, [Next]_vars
    PROVE  SeenOut'
<1> USE DEF hostVars, opVars, markVars, Goto, TypeInv, Typed, Homed, LiveSessions, LivePids,
            AloneInv, OneBusy, Busy, OneSession, NoWrapper, AskedInv, Ready, Asked, SeenInv,
            NoOrphans, SeenOut
<1>1. ASSUME NEW s \in Sessions, Header(s) \/ Launch(s) \/ AfterExit(s) \/ Relaunch(s)
      PROVE  SeenOut'
  <2>1. CASE Header(s)
    BY <2>1 DEF Header
  <2>2. CASE Launch(s)
    BY <2>2 DEF Launch
  <2>3. CASE AfterExit(s)
    BY <2>3 DEF AfterExit
  <2>4. CASE Relaunch(s)
    BY <2>4 DEF Relaunch
  <2> QED
    BY <1>1, <2>1, <2>2, <2>3, <2>4
<1>2. ASSUME NEW p \in Pids, ServerTurns(p) \/ ServerExits(p)
      PROVE  SeenOut'
  <2>1. CASE ServerTurns(p)
    BY <2>1 DEF ServerTurns
  <2>2. CASE ServerExits(p)
    BY <2>2 DEF ServerExits
  <2> QED
    BY <1>2, <2>1, <2>2
<1>3. ASSUME NEW o \in Ops, Request(o) \/ OpStep(o)
      PROVE  SeenOut'
  <2>1. CASE Request(o)
    BY <2>1 DEF Request
  <2>2. CASE Start(o)
    BY <2>2 DEF Start
  <2>3. CASE Detach(o)
    BY <2>3 DEF Detach
  <2>4. CASE Watched(o)
    BY <2>4 DEF Watched
  <2>5. CASE Stop(o)
    BY <2>5 DEF Stop, AfterStop
  <2>6. CASE Ask(o)
    BY <2>6 DEF Ask
  <2>7. CASE Waited(o)
    BY <2>7 DEF Waited
  <2>8. CASE Terminated(o)
    BY <2>8 DEF Terminated
  <2>9. CASE Leave(o)
    BY <2>9 DEF Leave
  <2>10. CASE Respawned(o)
    BY <2>10 DEF Respawned, AfterStop
  <2>11. CASE Finish(o)
    BY <2>11 DEF Finish, Unmark
  <2> QED
    BY <1>3, <2>1, <2>2, <2>3, <2>4, <2>5, <2>6, <2>7, <2>8, <2>9, <2>10, <2>11 DEF OpStep
<1>4. CASE Probe
  BY <1>4 DEF Probe
<1>5. CASE Settle \/ Ages
  BY <1>5 DEF Settle, Ages, Unmark, Stopped, Restarted
<1>6. CASE UNCHANGED vars
  BY <1>6 DEF vars
<1> QED
  BY <1>1, <1>2, <1>3, <1>4, <1>5, <1>6 DEF Next, WrapperStep

LEMMA SeenHolds ==
    Spec => [](overlaps \subseteq {"probing"} => OneSession /\ SeenInv)
<1> DEFINE Prompt == overlaps \subseteq {"probing"}
           Apart == {"ops", "launching"} \cap overlaps = {}
           Told == Apart => AloneInv /\ AskedInv
<1>1. Init => SeenInv
  BY DEF Init, SeenInv, NoOrphans, SeenOut, LivePids
<1>2. TypeInv /\ Told /\ (Prompt => SeenInv) /\ [Next]_vars => (Prompt => SeenInv)'
  <2> SUFFICES ASSUME TypeInv, Told, Prompt => SeenInv, [Next]_vars, Prompt' PROVE SeenInv'
    OBVIOUS
  <2>1. Prompt /\ AloneInv /\ AskedInv /\ SeenInv
    BY OverlapsFixed
  <2> QED
    BY <2>1, NoOrphansKept, SeenOutKept DEF SeenInv
<1>3. Told /\ Prompt => OneSession
  BY DEF AloneInv
<1>4. Spec => []Told
  BY AskedHolds
<1> HIDE DEF Prompt, Told
<1>5. Spec => [](Prompt => OneSession /\ SeenInv)
  BY <1>1, <1>2, <1>3, <1>4, TypesHold, PTL DEF Spec
<1> QED
  BY <1>5 DEF Prompt

(* Where operations do not overlap, none comes while a wrapper has no       *)
(* server to look up and no server outlives a SIGTERM by three seconds, two  *)
(* servers never share the world - whatever the wrapper relaunches by        *)
(* itself between and under the operations.                                  *)
THEOREM OneServerAtATime == Spec => []OneServer
<1>1. TypeInv /\ (overlaps \subseteq {"probing"} => OneSession /\ SeenInv) => OneServer
  <2> SUFFICES ASSUME TypeInv, OneSession, SeenInv PROVE Cardinality(LivePids) <= 1
    BY DEF OneServer
  <2>1. ASSUME NEW p \in LivePids, NEW q \in LivePids PROVE p = q
    BY <2>1 DEF TypeInv, Homed, SeenInv, NoOrphans, OneSession, LiveSessions
  <2> QED
    BY <2>1, AtMostOne
<1> QED
  BY <1>1, TypesHold, SeenHolds, PTL

-----------------------------------------------------------------------------
(* The mark of a restart *)

LEMMA MarkedAtRequest ==
    ASSUME TypeInv, AloneInv, AskedInv, NEW o \in Ops, Request(o), Launching = {}
    PROVE  \A p \in LivePids : server[p] \notin {"none", "booting"}
<1> SUFFICES ASSUME NEW p \in LivePids PROVE server[p] # "booting"
  BY DEF LivePids
<1> USE DEF TypeInv, Homed
<1>1. CASE session[home[p]] = "gone"
  BY <1>1 DEF AloneInv, OrphansSignalled
<1>2. CASE session[home[p]] = "serving"
  <2>1. home[p] \in LiveSessions
    BY <1>2 DEF LiveSessions
  <2>2. PICK q \in LivePids : home[q] = home[p] /\ server[q] # "booting"
    BY <2>1 DEF Launching
  <2> QED
    BY <1>2, <2>2
<1> QED
  BY <1>1, <1>2

(* A reading other than running finds no marked process up. *)
LEMMA ReadDown ==
    ASSUME TypeInv, AloneInv, "probing" \notin overlaps, NEW reading \in StatusRead, reading # "running",
           NEW p \in Pids, server[p] \notin {"none", "booting"}
    PROVE  server[p] \in {"closing", "signalled", "gone"}
<1> USE DEF TypeInv, Typed
<1>1. CASE LiveSessions # {} /\ LivePids # {}
  <2>1. ~\E q \in LivePids : server[q] \in {"up", "told"}
    BY <1>1 DEF StatusRead
  <2> QED
    BY <2>1 DEF LivePids
<1>2. CASE LivePids = {}
  BY <1>2 DEF LivePids
<1>3. CASE LiveSessions = {}
  BY <1>3 DEF AloneInv, OrphansSignalled, Homed, LiveSessions, LivePids
<1> QED
  BY <1>1, <1>2, <1>3

LEMMA MarkedDownKept ==
    ASSUME TypeInv, overlaps \subseteq {"slow"}, AloneInv, AskedInv, MarkedDown, [Next]_vars
    PROVE  MarkedDown'
<1> USE DEF hostVars, opVars, markVars, Goto, TypeInv, Typed, MarkedDown
<1>1. ASSUME NEW s \in Sessions, Header(s) \/ Launch(s) \/ AfterExit(s) \/ Relaunch(s)
      PROVE  MarkedDown'
  <2>1. CASE Header(s)
    BY <2>1 DEF Header
  <2>2. CASE Launch(s)
    BY <2>2 DEF Launch
  <2>3. CASE AfterExit(s)
    BY <2>3 DEF AfterExit
  <2>4. CASE Relaunch(s)
    BY <2>4 DEF Relaunch
  <2> QED
    BY <1>1, <2>1, <2>2, <2>3, <2>4
<1>2. ASSUME NEW p \in Pids, ServerTurns(p) \/ ServerExits(p)
      PROVE  MarkedDown'
  <2>1. CASE ServerTurns(p)
    BY <2>1 DEF ServerTurns
  <2>2. CASE ServerExits(p)
    BY <2>2 DEF ServerExits, LivePids
  <2> QED
    BY <1>2, <2>1, <2>2
<1>3. ASSUME NEW o \in Ops, Request(o) \/ OpStep(o)
      PROVE  MarkedDown'
  <2>1. CASE Request(o)
    BY <2>1, MarkedAtRequest DEF Request
  <2>2. CASE Start(o)
    BY <2>2 DEF Start
  <2>3. CASE Detach(o)
    BY <2>3 DEF Detach
  <2>4. CASE Watched(o)
    BY <2>4 DEF Watched
  <2>5. CASE Stop(o)
    BY <2>5 DEF Stop
  <2>6. CASE Ask(o)
    BY <2>6 DEF Ask
  <2>7. CASE Waited(o)
    BY <2>7 DEF Waited, LivePids
  <2>8. CASE Terminated(o)
    BY <2>8 DEF Terminated
  <2>9. CASE Leave(o)
    BY <2>9 DEF Leave, LivePids
  <2>10. CASE Respawned(o)
    BY <2>10 DEF Respawned, LivePids
  <2>11. CASE Finish(o)
    BY <2>11 DEF Finish, Unmark
  <2> QED
    BY <1>3, <2>1, <2>2, <2>3, <2>4, <2>5, <2>6, <2>7, <2>8, <2>9, <2>10, <2>11 DEF OpStep
<1>4. CASE Probe
  BY <1>4, ReadDown DEF Probe
<1>5. CASE Settle \/ Ages
  BY <1>5 DEF Settle, Ages, Unmark, Stopped, Restarted
<1>6. CASE UNCHANGED vars
  BY <1>6 DEF vars
<1> QED
  BY <1>1, <1>2, <1>3, <1>4, <1>5, <1>6 DEF Next, WrapperStep

LEMMA MarkHolds ==
    Spec => [](overlaps \subseteq {"slow"} => MarkedDown)
<1> DEFINE Read == overlaps \subseteq {"slow"}
           Apart == {"ops", "launching"} \cap overlaps = {}
           Told == Apart => AloneInv /\ AskedInv
<1>1. Init => MarkedDown
  BY DEF Init, MarkedDown
<1>2. TypeInv /\ Told /\ (Read => MarkedDown) /\ [Next]_vars => (Read => MarkedDown)'
  <2> SUFFICES ASSUME TypeInv, Told, Read => MarkedDown, [Next]_vars, Read' PROVE MarkedDown'
    OBVIOUS
  <2>1. Read /\ AloneInv /\ AskedInv /\ MarkedDown
    BY OverlapsFixed
  <2> QED
    BY <2>1, MarkedDownKept
<1>3. Spec => []Told
  BY AskedHolds
<1> HIDE DEF Read, Told
<1>4. Spec => [](Read => MarkedDown)
  BY <1>1, <1>2, <1>3, TypesHold, PTL DEF Spec
<1> QED
  BY <1>4 DEF Read

(* Where operations do not overlap, no stop comes while a server boots, no   *)
(* ping of a live server fails and no pass spans a mark, the sampler drops a *)
(* restart's mark within the three minutes it is given only once every       *)
(* process it began with is going or gone: whatever the operations and the   *)
(* wrapper do between its readings.                                          *)
THEOREM MarksAreHonest == Spec => MarkHonest
<1> DEFINE Honest ==
             (/\ overlaps \subseteq {"slow"} /\ ~aged
              /\ mark = "restarting" /\ mark' = "none" /\ probe' # probe)
                  => \A p \in markedAt : server[p] \in {"closing", "signalled", "gone"}
<1>1. (overlaps \subseteq {"slow"} => MarkedDown) /\ [Next]_vars => [Honest]_vars
  <2> SUFFICES ASSUME overlaps \subseteq {"slow"}, MarkedDown, [Next]_vars,
                      ~aged, mark = "restarting", mark' = "none", probe' # probe
               PROVE  \A p \in markedAt : server[p] \in {"closing", "signalled", "gone"}
    OBVIOUS
  <2>1. ASSUME NEW s \in Sessions, WrapperStep(s) PROVE FALSE
    BY <2>1 DEF WrapperStep, Header, Launch, AfterExit, Relaunch
  <2>2. ASSUME NEW p \in Pids, ServerTurns(p) \/ ServerExits(p) PROVE FALSE
    BY <2>2 DEF ServerTurns, ServerExits
  <2>3. ASSUME NEW o \in Ops, Request(o) \/ OpStep(o) PROVE FALSE
    BY <2>3 DEF OpStep, Request, Start, Detach, Watched, Stop, Ask, Waited, Terminated, Leave, Respawned, Finish
  <2>4. CASE Probe \/ UNCHANGED vars
    BY <2>4 DEF Probe, markVars, vars
  <2>5. CASE Settle
    BY <2>5 DEF Settle, Stopped, Restarted, MarkedDown
  <2>6. CASE Ages
    BY <2>6 DEF Ages
  <2> QED
    BY <2>1, <2>2, <2>3, <2>4, <2>5, <2>6 DEF Next
<1> QED
  BY <1>1, MarkHolds, PTL DEF Spec, MarkHonest
=============================================================================
