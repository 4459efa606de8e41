------------------------------ MODULE WorldSwap ------------------------------
(***************************************************************************)
(* core/worldops.ts: exchanging an instance's world through a staging      *)
(* directory, an "old" directory and a journal file that is also the lock, *)
(* together with the start path that honours the lock                      *)
(* (core/instances.ts startInstance) and the recovery pass the daemon runs *)
(* when it comes up (daemon/index.ts) or on request (rpc world.recover).   *)
(*                                                                         *)
(* One action is one awaited file-system call: between two of them the     *)
(* daemon may be killed, another handler may run, and the call itself may  *)
(* throw.  A directory's content is the lineage of the world it belongs    *)
(* to; the order in which a loop visits the directories is left open.      *)
(***************************************************************************)
EXTENDS Naturals

CONSTANTS
    Dirs,           \* worldDirNames: the directories one world is made of
    Tasks,          \* the swaps asked for: replace, restore or reset
    NoDir,          \* a directory that is not there
    FirstWorld,     \* lineage of the world the instance starts out with
    GrownWorld,     \* lineage of a directory a running server generated
    Incoming,       \* the sets of directories a swap may bring; {} is a reset
    Overlaps,       \* which callers may overlap: see Enter, StartCheck, Recover
    InstallFaults,  \* whether a fault may hit while staged directories wait
    TornWrites,     \* the steps whose journal write may end unparseable
    MaxFaults       \* bound: how many crashes and failing calls a run sees

Phases == {"stage", "retire", "install", "discard"}
Recovery == "recovery"
Procs == Tasks \cup {Recovery}
Contents == Tasks \cup {NoDir, FirstWorld, GrownWorld}
OverlapKinds == {"running", "launch", "swap", "recovery"}
WritePCs == {"begin", "fill", "retire", "install"}

ASSUME ConstantsAssumption ==
    /\ Recovery \notin Tasks
    /\ NoDir \notin Tasks \cup {FirstWorld, GrownWorld}
    /\ Incoming \subseteq SUBSET Dirs
    /\ Overlaps \subseteq OverlapKinds
    /\ InstallFaults \in BOOLEAN
    /\ TornWrites \subseteq WritePCs
    /\ MaxFaults \in Nat

VARIABLES
    journal,  \* the journal file: "none", its phase, or "torn"
    live,     \* directories under their real names
    stage,    \* directories under .luna-world-stage
    old,      \* directories under .luna-world-old
    pc,       \* where each swap, and the recovery pass, has got to
    mem,      \* the phase in the journal object a process holds in memory
    want,     \* the directories a swap brings in; {} for a reset
    todo,     \* directories a swap's rename loop has not visited yet
    daemon,   \* "up" or "down"
    start,    \* "checked" while a start is past its lock check
    server,   \* "on" while a server runs in the instance's session
    faults    \* faults so far

disk == <<journal, live, stage, old>>
procs == <<pc, mem, want, todo>>
vars == <<journal, live, stage, old, pc, mem, want, todo, daemon, start, server, faults>>

Empty == [d \in Dirs |-> NoDir]

WorldOf(l, D) == [d \in Dirs |-> IF d \in D THEN l ELSE NoDir]

SwapPCs == {"clean", "fill", "retire", "install", "discard", "clear"}
HealPCs == {"restore", "healStage", "healOld", "healClear"}

(* readJournal: an unparseable journal reads as no journal at all. *)
ReadJournal == IF journal = "torn" THEN "none" ELSE journal

(* Past its first journal write and not finished with healing. *)
Armed(p) == pc[p] \in SwapPCs \cup HealPCs

(* A process that has finished: a swap ends, recovery can be asked again. *)
Ended(p) == IF p \in Tasks THEN "done" ELSE "idle"

\* Mutant: "retire" taken for "stage".
BugHealEntryNoRestore(phase) == "healStage"

(* The first thing healing does, given the phase it heals from. *)
HealEntry(phase) == IF phase = "retire" THEN "restore" ELSE "healStage"

TypeOK ==
    /\ journal \in Phases \cup {"none", "torn"}
    /\ live \in [Dirs -> Contents]
    /\ stage \in [Dirs -> Contents]
    /\ old \in [Dirs -> Contents]
    /\ pc \in [Procs -> {"idle", "begin", "due", "done"} \cup SwapPCs \cup HealPCs]
    /\ mem \in [Procs -> Phases]
    /\ want \in [Tasks -> SUBSET Dirs]
    /\ todo \in [Tasks -> SUBSET Dirs]
    /\ daemon \in {"up", "down"}
    /\ start \in {"none", "checked"}
    /\ server \in {"off", "on"}
    /\ faults \in 0..MaxFaults

Init ==
    /\ journal = "none"
    /\ \E D \in SUBSET Dirs : live = WorldOf(FirstWorld, D)
    /\ stage = Empty
    /\ old = Empty
    /\ pc = [p \in Procs |-> "idle"]
    /\ mem = [p \in Procs |-> "stage"]
    /\ want = [t \in Tasks |-> {}]
    /\ todo = [t \in Tasks |-> {}]
    /\ daemon = "up"
    /\ start = "none"
    /\ server = "off"
    /\ faults = 0

-----------------------------------------------------------------------------
(* swapWorld *)

(* The opening readJournal.  Overlaps says what the caller lets happen up    *)
(* to the first journal write, which nothing in the daemon excludes: a       *)
(* server that runs, a start past its lock check, a second swap.             *)
Enter(t) ==
    /\ daemon = "up"
    /\ pc[t] = "idle"
    /\ ReadJournal = "none"
    /\ "running" \in Overlaps \/ server = "off"
    /\ "launch" \in Overlaps \/ start = "none"
    /\ "swap" \in Overlaps \/ \A u \in Tasks : pc[u] # "begin"
    /\ \E D \in Incoming : want' = [want EXCEPT ![t] = D]
    /\ pc' = [pc EXCEPT ![t] = "begin"]
    /\ UNCHANGED <<disk, mem, todo, daemon, start, server, faults>>

(* The first journal write: from here on the instance is locked. *)
Arm(t) ==
    /\ pc[t] = "begin"
    /\ journal' = "stage"
    /\ mem' = [mem EXCEPT ![t] = "stage"]
    /\ pc' = [pc EXCEPT ![t] = "clean"]
    /\ UNCHANGED <<live, stage, old, want, todo, daemon, start, server, faults>>

(* Inside a journal write that a kill or an error may cut short. *)
Writing(t) ==
    /\ pc[t] \in TornWrites
    /\ pc[t] = "fill" => \A d \in want[t] : stage[d] = t
    /\ pc[t] \in {"retire", "install"} => todo[t] = {}

(* The first journal write fails: it is outside the try, so nothing heals. *)
ArmFails(t) ==
    /\ pc[t] = "begin"
    /\ faults < MaxFaults
    /\ faults' = faults + 1
    /\ pc' = [pc EXCEPT ![t] = "done"]
    /\ \/ UNCHANGED journal
       \/ Writing(t) /\ journal' = "torn"
    /\ UNCHANGED <<live, stage, old, mem, want, todo, daemon, start, server>>

(* Sweep what an earlier attempt may have left, then make the staging dir. *)
Clean(t) ==
    /\ pc[t] = "clean"
    /\ stage' = Empty
    /\ old' = Empty
    /\ pc' = [pc EXCEPT ![t] = "fill"]
    /\ UNCHANGED <<journal, live, mem, want, todo, daemon, start, server, faults>>

(* `fill` extracts one more directory of the incoming world. *)
Fill(t) ==
    /\ pc[t] = "fill"
    /\ \E d \in want[t] :
        /\ stage[d] # t
        /\ stage' = [stage EXCEPT ![d] = t]
    /\ UNCHANGED <<journal, live, old, procs, daemon, start, server, faults>>

(* Mutant: the swap does not await the staging task. *)
BugAdvanceRetireEarly(t) ==
    /\ pc[t] = "fill"
    /\ journal' = "retire"
    /\ mem' = [mem EXCEPT ![t] = "retire"]
    /\ todo' = [todo EXCEPT ![t] = Dirs]
    /\ pc' = [pc EXCEPT ![t] = "retire"]
    /\ UNCHANGED <<live, stage, old, want, daemon, start, server, faults>>

(* Everything is staged, on the same filesystem: the journal says "retire". *)
AdvanceRetire(t) ==
    /\ pc[t] = "fill"
    /\ \A d \in want[t] : stage[d] = t
    /\ journal' = "retire"
    /\ mem' = [mem EXCEPT ![t] = "retire"]
    /\ todo' = [todo EXCEPT ![t] = Dirs]
    /\ pc' = [pc EXCEPT ![t] = "retire"]
    /\ UNCHANGED <<live, stage, old, want, daemon, start, server, faults>>

(* One live directory is renamed aside, if it is there. *)
RetireDir(t) ==
    /\ pc[t] = "retire"
    /\ \E d \in todo[t] :
        /\ todo' = [todo EXCEPT ![t] = @ \ {d}]
        /\ \/ live[d] = NoDir /\ UNCHANGED <<live, old>>
           \/ /\ live[d] # NoDir /\ old[d] = NoDir
              /\ old' = [old EXCEPT ![d] = live[d]]
              /\ live' = [live EXCEPT ![d] = NoDir]
    /\ UNCHANGED <<journal, stage, pc, mem, want, daemon, start, server, faults>>

(* Mutant: the phase moves on in memory only. *)
BugAdvanceInstallUnwritten(t) ==
    /\ pc[t] = "retire"
    /\ todo[t] = {}
    /\ mem' = [mem EXCEPT ![t] = "install"]
    /\ todo' = [todo EXCEPT ![t] = Dirs]
    /\ pc' = [pc EXCEPT ![t] = "install"]
    /\ UNCHANGED <<disk, want, daemon, start, server, faults>>

(* The journal says "install" BEFORE the first staged directory is moved. *)
AdvanceInstall(t) ==
    /\ pc[t] = "retire"
    /\ todo[t] = {}
    /\ journal' = "install"
    /\ mem' = [mem EXCEPT ![t] = "install"]
    /\ todo' = [todo EXCEPT ![t] = Dirs]
    /\ pc' = [pc EXCEPT ![t] = "install"]
    /\ UNCHANGED <<live, stage, old, want, daemon, start, server, faults>>

(* One staged directory takes its real name, if the archive brought it. *)
InstallDir(t) ==
    /\ pc[t] = "install"
    /\ \E d \in todo[t] :
        /\ todo' = [todo EXCEPT ![t] = @ \ {d}]
        /\ \/ stage[d] = NoDir /\ UNCHANGED <<live, stage>>
           \/ /\ stage[d] # NoDir /\ live[d] = NoDir
              /\ live' = [live EXCEPT ![d] = stage[d]]
              /\ stage' = [stage EXCEPT ![d] = NoDir]
    /\ UNCHANGED <<journal, old, pc, mem, want, daemon, start, server, faults>>

AdvanceDiscard(t) ==
    /\ pc[t] = "install"
    /\ todo[t] = {}
    /\ journal' = "discard"
    /\ mem' = [mem EXCEPT ![t] = "discard"]
    /\ pc' = [pc EXCEPT ![t] = "discard"]
    /\ UNCHANGED <<live, stage, old, want, todo, daemon, start, server, faults>>

(* The old world is deleted piece by piece, the staging directory after it. *)
Discard(t) ==
    /\ pc[t] = "discard"
    /\ \/ /\ \E d \in Dirs :
              /\ old[d] # NoDir
              /\ old' = [old EXCEPT ![d] = NoDir]
          /\ UNCHANGED <<stage, pc>>
       \/ /\ old = Empty
          /\ stage' = Empty
          /\ pc' = [pc EXCEPT ![t] = "clear"]
          /\ UNCHANGED old
    /\ UNCHANGED <<journal, live, mem, want, todo, daemon, start, server, faults>>

(* clearJournal on success: the lock is released. *)
Clear(t) ==
    /\ pc[t] = "clear"
    /\ journal' = "none"
    /\ pc' = [pc EXCEPT ![t] = "done"]
    /\ UNCHANGED <<live, stage, old, mem, want, todo, daemon, start, server, faults>>

(* Some staged directory has not taken its real name yet. *)
InstallPending == \E t \in Tasks : pc[t] = "install" /\ stage # Empty

(* A call inside the try throws: recoverFromFailure heals by the journal in *)
(* memory, which a failing `advance` has not moved on, whatever it left of  *)
(* the file.                                                                *)
Fail(t) ==
    /\ pc[t] \in SwapPCs
    /\ InstallFaults \/ ~InstallPending
    /\ faults < MaxFaults
    /\ faults' = faults + 1
    /\ pc' = [pc EXCEPT ![t] = HealEntry(mem[t])]
    /\ \/ UNCHANGED journal
       \/ Writing(t) /\ journal' = "torn"
    /\ UNCHANGED <<live, stage, old, mem, want, todo, daemon, start, server>>

-----------------------------------------------------------------------------
(* recoverWorldOp and recoverFromFailure: one procedure, by the phase in the *)
(* journal on disk for the former and in memory for the latter.              *)

(* The pass over the instances at daemon start ("due"), or an operator's    *)
(* world.recover.  Unless Overlaps says so, no swap is running then.        *)
Recover ==
    /\ daemon = "up"
    /\ pc[Recovery] \in {"idle", "due"}
    /\ "recovery" \in Overlaps \/ \A t \in Tasks : ~Armed(t) /\ pc[t] # "begin"
    /\ \/ /\ ReadJournal = "none"
          /\ pc' = [pc EXCEPT ![Recovery] = "idle"]
          /\ UNCHANGED mem
       \/ /\ ReadJournal # "none"
          /\ mem' = [mem EXCEPT ![Recovery] = ReadJournal]
          /\ pc' = [pc EXCEPT ![Recovery] = HealEntry(ReadJournal)]
    /\ UNCHANGED <<disk, want, todo, daemon, start, server, faults>>

(* restoreRetired: a stashed directory replaces whatever holds its name;    *)
(* once none is stashed the old directory goes.                             *)
Restore(p) ==
    /\ pc[p] = "restore"
    /\ \/ /\ \E d \in Dirs :
              /\ old[d] # NoDir
              /\ live' = [live EXCEPT ![d] = old[d]]
              /\ old' = [old EXCEPT ![d] = NoDir]
          /\ UNCHANGED pc
       \/ /\ old = Empty
          /\ pc' = [pc EXCEPT ![p] = "healStage"]
          /\ UNCHANGED <<live, old>>
    /\ UNCHANGED <<journal, stage, mem, want, todo, daemon, start, server, faults>>

HealStage(p) ==
    /\ pc[p] = "healStage"
    /\ \/ /\ \E d \in Dirs :
              /\ stage[d] # NoDir
              /\ stage' = [stage EXCEPT ![d] = NoDir]
          /\ UNCHANGED pc
       \/ /\ stage = Empty
          /\ pc' = [pc EXCEPT ![p] =
                IF mem[p] \in {"install", "discard"} THEN "healOld" ELSE "healClear"]
          /\ UNCHANGED stage
    /\ UNCHANGED <<journal, live, old, mem, want, todo, daemon, start, server, faults>>

HealOld(p) ==
    /\ pc[p] = "healOld"
    /\ \/ /\ \E d \in Dirs :
              /\ old[d] # NoDir
              /\ old' = [old EXCEPT ![d] = NoDir]
          /\ UNCHANGED pc
       \/ /\ old = Empty
          /\ pc' = [pc EXCEPT ![p] = "healClear"]
          /\ UNCHANGED old
    /\ UNCHANGED <<journal, live, stage, mem, want, todo, daemon, start, server, faults>>

HealClear(p) ==
    /\ pc[p] = "healClear"
    /\ journal' = "none"
    /\ pc' = [pc EXCEPT ![p] = Ended(p)]
    /\ UNCHANGED <<live, stage, old, mem, want, todo, daemon, start, server, faults>>

(* A call of the healing throws: the journal stays, and so does the lock. *)
HealFails(p) ==
    /\ pc[p] \in HealPCs
    /\ faults < MaxFaults
    /\ faults' = faults + 1
    /\ pc' = [pc EXCEPT ![p] = Ended(p)]
    /\ UNCHANGED <<disk, mem, want, todo, daemon, start, server>>

-----------------------------------------------------------------------------
(* The daemon, and the instance's server *)

(* The daemon is killed.  The server lives in a screen session of its own   *)
(* and survives; a start in progress does not.                              *)
Crash ==
    /\ daemon = "up"
    /\ InstallFaults \/ ~InstallPending
    /\ faults < MaxFaults
    /\ faults' = faults + 1
    /\ daemon' = "down"
    /\ pc' = [p \in Procs |-> IF p \in Tasks /\ pc[p] # "idle" THEN "done" ELSE "idle"]
    /\ start' = "none"
    /\ \/ UNCHANGED journal
       \/ /\ \E t \in Tasks : Writing(t)
          /\ journal' = "torn"
    /\ UNCHANGED <<live, stage, old, mem, want, todo, server>>

(* Mutant: the daemon comes up without its recovery pass. *)
BugRestartNoRecovery ==
    /\ daemon = "down"
    /\ daemon' = "up"
    /\ UNCHANGED <<disk, procs, start, server, faults>>

(* runDaemon: the API answers at once, the recovery pass is still to come. *)
Restart ==
    /\ daemon = "down"
    /\ daemon' = "up"
    /\ pc' = [pc EXCEPT ![Recovery] = "due"]
    /\ UNCHANGED <<disk, mem, want, todo, start, server, faults>>

(* Mutant: the start does not look for a journal. *)
BugStartCheckUnlocked ==
    /\ daemon = "up"
    /\ start = "none"
    /\ server = "off"
    /\ start' = "checked"
    /\ UNCHANGED <<disk, procs, daemon, server, faults>>

(* startInstance: no session, and no journal. *)
StartCheck ==
    /\ daemon = "up"
    /\ start = "none"
    /\ server = "off"
    /\ ReadJournal = "none"
    /\ "launch" \in Overlaps \/ \A t \in Tasks : pc[t] # "begin"
    /\ start' = "checked"
    /\ UNCHANGED <<disk, procs, daemon, server, faults>>

(* ... and, after the runtime, the env file and the managed files, either   *)
(* the session comes up or one of those throws.                             *)
StartLaunch ==
    /\ start = "checked"
    /\ start' = "none"
    /\ server' \in {"on", server}
    /\ UNCHANGED <<disk, procs, daemon, faults>>

(* The server generates the directories its world lacks. *)
ServerGrow ==
    /\ server = "on"
    /\ live' = [d \in Dirs |-> IF live[d] = NoDir THEN GrownWorld ELSE live[d]]
    /\ UNCHANGED <<journal, stage, old, procs, daemon, start, server, faults>>

ServerStop ==
    /\ server = "on"
    /\ server' = "off"
    /\ UNCHANGED <<disk, procs, daemon, start, faults>>

-----------------------------------------------------------------------------
SwapStep(t) ==
    \/ Arm(t) \/ Clean(t) \/ Fill(t) \/ AdvanceRetire(t) \/ RetireDir(t)
    \/ AdvanceInstall(t) \/ InstallDir(t) \/ AdvanceDiscard(t) \/ Discard(t) \/ Clear(t)

HealStep(p) == Restore(p) \/ HealStage(p) \/ HealOld(p) \/ HealClear(p)

ServerStep == StartCheck \/ StartLaunch \/ ServerGrow \/ ServerStop

Next ==
    \/ \E t \in Tasks : Enter(t) \/ SwapStep(t) \/ ArmFails(t) \/ Fail(t)
    \/ \E p \in Procs : HealStep(p) \/ HealFails(p)
    \/ Recover
    \/ Crash
    \/ Restart
    \/ ServerStep

Spec == Init /\ [][Next]_vars

StartupPass == pc[Recovery] = "due" /\ Recover

(* A running handler's awaits resolve; systemd restarts the daemon, and its *)
(* start runs the recovery pass.  No operator owes a world.recover.         *)
Fairness ==
    /\ \A t \in Tasks : WF_vars(SwapStep(t))
    /\ \A p \in Procs : WF_vars(HealStep(p))
    /\ WF_vars(Restart)
    /\ WF_vars(StartupPass)

FairSpec == Spec /\ Fairness

-----------------------------------------------------------------------------
(* Properties *)

(* The world the directories on disk stand for, by the phase in the journal: *)
(* the old one until "install", from there on the one being brought in.      *)
Committed ==
    CASE journal = "retire" -> [d \in Dirs |-> IF old[d] # NoDir THEN old[d] ELSE live[d]]
      [] journal = "install" -> [d \in Dirs |-> IF stage[d] # NoDir THEN stage[d] ELSE live[d]]
      [] OTHER -> live

Asked == {WorldOf(t, want[t]) : t \in {u \in Tasks : pc[u] # "idle"}}

Store == INSTANCE WorldStore WITH world <- Committed, asked <- Asked

(* The swap is atomic: through its phases, failures, crashes and recovery,   *)
(* the instance's world changes in one step from the old to the new one, and *)
(* only while no server runs (worldops.ts header).                           *)
Atomic == Store!Spec

(* What a running server has open is a whole world under its real name, and  *)
(* no swap holds the instance: the journal is the lock startInstance checks. *)
ServerSeesWhole ==
    server = "on" => ReadJournal = "none" /\ live = Committed /\ \A t \in Tasks : ~Armed(t)

(* "A failure and a crash heal the same way" (swapWorld's catch): while a    *)
(* swap or a healing runs, the journal on disk says what its memory says, so *)
(* a kill at that point is recovered from exactly as a throw would be.       *)
JournalTellsPhase == \A p \in Procs : Armed(p) => journal = mem[p]

(* "An unparseable journal still means an operation was interrupted", and the *)
(* instance must not start (readJournal's catch).                            *)
TornHolds == journal = "torn" => start = "none" /\ server = "off"

(* The lock is released only when nothing of either world is left aside:     *)
(* whatever way the operation ended, the staging and old directories are     *)
(* empty once the journal is gone, or too torn to be read.                   *)
NoResidue == ReadJournal = "none" => stage = Empty /\ old = Empty

(* The journal a crash left does not outlive the next start of the daemon,   *)
(* once no more faults come.                                                 *)
CrashUnlocks == (daemon = "down" /\ faults = MaxFaults) ~> (ReadJournal = "none")
=============================================================================
