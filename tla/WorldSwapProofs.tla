--------------------------- MODULE WorldSwapProofs ---------------------------
(***************************************************************************)
(* Theorems about WorldSwap, for any directories, swaps and bound.         *)
(***************************************************************************)
EXTENDS WorldSwap, TLAPS

(* The discipline under which the safety theorems hold: the caller keeps    *)
(* starts and other swaps away until the journal is down, no fault hits     *)
(* while staged directories wait to be renamed, and only a journal's first  *)
(* write, which nothing depends on yet, may be torn by a kill.              *)
Disciplined == Overlaps = {} /\ ~InstallFaults /\ TornWrites \subseteq {"begin"}

LEMMA EmptyType == Empty \in [Dirs -> Contents]
BY DEF Empty, Contents

LEMMA WorldOfType ==
    ASSUME NEW l \in Contents, NEW D
    PROVE  WorldOf(l, D) \in [Dirs -> Contents]
BY DEF WorldOf, Contents

LEMMA InitType == Init => TypeOK
<1> SUFFICES ASSUME Init PROVE TypeOK
  OBVIOUS
<1>1. live \in [Dirs -> Contents]
  BY WorldOfType DEF Init, Contents
<1>2. stage \in [Dirs -> Contents] /\ old \in [Dirs -> Contents]
  BY EmptyType DEF Init
<1>3. faults \in 0..MaxFaults
  BY ConstantsAssumption DEF Init
<1> QED
  BY <1>1, <1>2, <1>3 DEF Init, TypeOK, Phases

LEMMA NextType == TypeOK /\ [Next]_vars => TypeOK'
<1> SUFFICES ASSUME TypeOK, [Next]_vars PROVE TypeOK'
  OBVIOUS
<1> USE ConstantsAssumption DEF TypeOK, Phases, SwapPCs, HealPCs, Procs, disk, procs
<1>1. ASSUME NEW t \in Tasks, Enter(t) PROVE TypeOK'
  BY <1>1 DEF Enter
<1>2. ASSUME NEW t \in Tasks, Arm(t) PROVE TypeOK'
  BY <1>2 DEF Arm
<1>3. ASSUME NEW t \in Tasks, Clean(t) PROVE TypeOK'
  BY <1>3, EmptyType DEF Clean
<1>4. ASSUME NEW t \in Tasks, Fill(t) PROVE TypeOK'
  BY <1>4 DEF Fill, Contents
<1>5. ASSUME NEW t \in Tasks, AdvanceRetire(t) PROVE TypeOK'
  BY <1>5 DEF AdvanceRetire
<1>6. ASSUME NEW t \in Tasks, RetireDir(t) PROVE TypeOK'
  BY <1>6 DEF RetireDir, Contents
<1>7. ASSUME NEW t \in Tasks, AdvanceInstall(t) PROVE TypeOK'
  BY <1>7 DEF AdvanceInstall
<1>8. ASSUME NEW t \in Tasks, InstallDir(t) PROVE TypeOK'
  BY <1>8 DEF InstallDir, Contents
<1>9. ASSUME NEW t \in Tasks, AdvanceDiscard(t) PROVE TypeOK'
  BY <1>9 DEF AdvanceDiscard
<1>10. ASSUME NEW t \in Tasks, Discard(t) PROVE TypeOK'
  BY <1>10, EmptyType DEF Discard, Contents
<1>11. ASSUME NEW t \in Tasks, Clear(t) PROVE TypeOK'
  BY <1>11 DEF Clear
<1>12. ASSUME NEW t \in Tasks, ArmFails(t) \/ Fail(t) PROVE TypeOK'
  BY <1>12 DEF ArmFails, Fail, HealEntry
<1>13. ASSUME NEW p \in Procs, HealStep(p) PROVE TypeOK'
  BY <1>13 DEF HealStep, Restore, HealStage, HealOld, HealClear, Ended, Contents
<1>14. ASSUME NEW p \in Procs, HealFails(p) PROVE TypeOK'
  BY <1>14 DEF HealFails, Ended
<1>15. CASE Recover
  BY <1>15 DEF Recover, ReadJournal, HealEntry
<1>16. CASE Crash
  BY <1>16 DEF Crash
<1>17. CASE Restart
  BY <1>17 DEF Restart
<1>18. CASE ServerStep
  BY <1>18 DEF ServerStep, StartCheck, StartLaunch, ServerGrow, ServerStop, Contents
<1>19. CASE UNCHANGED vars
  BY <1>19 DEF vars
<1> QED
  BY <1>1, <1>2, <1>3, <1>4, <1>5, <1>6, <1>7, <1>8, <1>9, <1>10, <1>11, <1>12,
     <1>13, <1>14, <1>15, <1>16, <1>17, <1>18, <1>19 DEF Next, SwapStep

(* Type correctness of every reachable state, whatever overlaps and faults  *)
(* the constants allow.                                                     *)
THEOREM TypeCorrect == Spec => []TypeOK
<1> QED
  BY InitType, NextType, PTL DEF Spec

-----------------------------------------------------------------------------
(* The inductive invariant: who holds the instance, and what lies where.    *)

(* At most one process is past its first journal write. *)
OneArmed == \A p, q \in Procs : Armed(p) /\ Armed(q) => p = q

(* Between a swap's journal read and its first journal write nobody holds   *)
(* the instance and nobody else is about to.                                *)
BeginAlone ==
    \A t \in Tasks : pc[t] = "begin" =>
        /\ ReadJournal = "none"
        /\ server = "off" /\ start = "none"
        /\ \A u \in Tasks : pc[u] = "begin" => u = t

(* A server runs, or is about to, only over an instance nobody holds. *)
ServerAlone ==
    server = "on" \/ start = "checked" => ReadJournal = "none"

(* Where a process stands agrees with the phase it remembers. *)
PhaseOfPC ==
    \A p \in Procs :
        /\ pc[p] \in {"clean", "fill"} => mem[p] = "stage"
        /\ pc[p] \in {"retire", "restore"} => mem[p] = "retire"
        /\ pc[p] = "install" => mem[p] = "install"
        /\ pc[p] \in {"discard", "clear"} => mem[p] = "discard"
        /\ pc[p] = "healOld" => mem[p] \in {"install", "discard"}

(* What each phase of the journal says about the directories. *)
Layout ==
    /\ ReadJournal = "none" => stage = Empty /\ old = Empty
    /\ journal = "stage" => old = Empty
    /\ journal = "retire" => \A d \in Dirs : old[d] = NoDir \/ live[d] = NoDir
    /\ journal = "install" => stage = Empty \/ \E t \in Tasks : pc[t] = "install"
    /\ journal = "discard" => stage = Empty

(* What a swap has done by the time it stands at each of its steps. *)
SwapProgress ==
    \A t \in Tasks :
        /\ pc[t] = "fill" => \A d \in Dirs : stage[d] = NoDir \/ (stage[d] = t /\ d \in want[t])
        /\ pc[t] = "retire" => stage = WorldOf(t, want[t])
        /\ pc[t] = "retire" => \A d \in Dirs \ todo[t] : live[d] = NoDir
        /\ pc[t] = "install" => \A d \in Dirs \ todo[t] : stage[d] = NoDir
        /\ pc[t] = "clear" => old = Empty

(* ... and a healing. *)
HealProgress ==
    \A p \in Procs :
        /\ pc[p] = "healStage" /\ mem[p] \in {"stage", "retire"} => old = Empty
        /\ pc[p] = "healOld" => stage = Empty
        /\ pc[p] = "healClear" => stage = Empty /\ old = Empty

IInv ==
    /\ TypeOK
    /\ OneArmed
    /\ JournalTellsPhase
    /\ BeginAlone
    /\ ServerAlone
    /\ PhaseOfPC
    /\ Layout
    /\ SwapProgress
    /\ HealProgress

(* A holder's journal is there: the lock is never "none" under it. *)
LEMMA ArmedLocks ==
    ASSUME TypeOK, JournalTellsPhase, NEW p \in Procs, Armed(p)
    PROVE  journal \notin {"none", "torn"} /\ journal = mem[p]
BY DEF TypeOK, JournalTellsPhase, Phases

LEMMA InitIInv == Init => IInv
<1> SUFFICES ASSUME Init PROVE IInv
  OBVIOUS
<1>1. TypeOK
  BY InitType
<1>2. \A p \in Procs : ~Armed(p)
  BY DEF Init, Armed, SwapPCs, HealPCs
<1> QED
  BY <1>1, <1>2 DEF Init, IInv, OneArmed, JournalTellsPhase, BeginAlone, ServerAlone,
     PhaseOfPC, Layout, SwapProgress, HealProgress, Procs

LEMMA NextIInv ==
    ASSUME Disciplined, IInv, [Next]_vars
    PROVE  IInv'
<1> USE ConstantsAssumption DEF Disciplined
<1>1. TypeOK'
  BY NextType DEF IInv
<1> USE <1>1 DEF IInv, TypeOK, OneArmed, JournalTellsPhase, BeginAlone, ServerAlone,
        PhaseOfPC, Layout, SwapProgress, HealProgress, Armed, SwapPCs, HealPCs,
        Procs, Phases, disk, procs, ReadJournal
<1>2. ASSUME NEW t \in Tasks, Enter(t) PROVE IInv'
  BY <1>2 DEF Enter, ReadJournal
<1>3. ASSUME NEW t \in Tasks, Arm(t) PROVE IInv'
  BY <1>3 DEF Arm
<1>4. ASSUME NEW t \in Tasks, Clean(t) PROVE IInv'
  BY <1>4 DEF Clean, Empty
<1>5. ASSUME NEW t \in Tasks, Fill(t) PROVE IInv'
  BY <1>5 DEF Fill, Empty
<1>6. ASSUME NEW t \in Tasks, AdvanceRetire(t) PROVE IInv'
  BY <1>6 DEF AdvanceRetire, Empty, WorldOf
<1>7. ASSUME NEW t \in Tasks, RetireDir(t) PROVE IInv'
  BY <1>7 DEF RetireDir, Empty
<1>8. ASSUME NEW t \in Tasks, AdvanceInstall(t) PROVE IInv'
  BY <1>8 DEF AdvanceInstall, Empty, WorldOf
<1>9. ASSUME NEW t \in Tasks, InstallDir(t) PROVE IInv'
  BY <1>9 DEF InstallDir, Empty
<1>10. ASSUME NEW t \in Tasks, AdvanceDiscard(t) PROVE IInv'
  BY <1>10 DEF AdvanceDiscard, Empty
<1>11. ASSUME NEW t \in Tasks, Discard(t) PROVE IInv'
  BY <1>11 DEF Discard, Empty
<1>12. ASSUME NEW t \in Tasks, Clear(t) PROVE IInv'
  BY <1>12 DEF Clear
<1>13. ASSUME NEW t \in Tasks, ArmFails(t) PROVE IInv'
  BY <1>13 DEF ArmFails, Writing
<1>14. ASSUME NEW t \in Tasks, Fail(t) PROVE IInv'
  BY <1>14 DEF Fail, HealEntry, InstallPending, Writing, SwapPCs
<1>15. ASSUME NEW p \in Procs, Restore(p) PROVE IInv'
  BY <1>15 DEF Restore, Empty
<1>16. ASSUME NEW p \in Procs, HealStage(p) PROVE IInv'
  BY <1>16 DEF HealStage, Empty
<1>17. ASSUME NEW p \in Procs, HealOld(p) PROVE IInv'
  BY <1>17 DEF HealOld, Empty
<1>18. ASSUME NEW p \in Procs, HealClear(p) PROVE IInv'
  BY <1>18 DEF HealClear, Ended
<1>19. ASSUME NEW p \in Procs, HealFails(p) PROVE IInv'
  BY <1>19 DEF HealFails, Ended, Empty
<1>20. CASE Recover
  BY <1>20 DEF Recover, ReadJournal, HealEntry
<1>21. CASE Crash
  BY <1>21 DEF Crash, InstallPending, Writing
<1>22. CASE Restart
  BY <1>22 DEF Restart
<1>23. CASE StartCheck
  BY <1>23 DEF StartCheck, ReadJournal
<1>24. CASE StartLaunch
  BY <1>24 DEF StartLaunch
<1>25. CASE ServerGrow
  BY <1>25 DEF ServerGrow
<1>26. CASE ServerStop
  BY <1>26 DEF ServerStop
<1>27. CASE UNCHANGED vars
  BY <1>27 DEF vars
<1> QED
  BY <1>2, <1>3, <1>4, <1>5, <1>6, <1>7, <1>8, <1>9, <1>10, <1>11, <1>12, <1>13, <1>14, <1>15, <1>16, <1>17, <1>18, <1>19, <1>20, <1>21, <1>22, <1>23, <1>24, <1>25, <1>26, <1>27
     DEF Next, SwapStep, HealStep, ServerStep

LEMMA Invariance == ASSUME Disciplined PROVE Spec => []IInv
<1>1. Init => IInv
  BY InitIInv
<1>2. IInv /\ [Next]_vars => IInv'
  BY NextIInv
<1> QED
  BY <1>1, <1>2, PTL DEF Spec

(* The lock does its work: no server ever runs over an instance whose world *)
(* is being exchanged or waits for recovery.                                *)
THEOREM LockProtectsServer == ASSUME Disciplined PROVE Spec => []ServerSeesWhole
<1>1. IInv => ServerSeesWhole
  <2> SUFFICES ASSUME IInv, server = "on" PROVE ReadJournal = "none" /\ live = Committed /\ \A t \in Tasks : ~Armed(t)
    BY DEF ServerSeesWhole
  <2>1. journal \in {"none", "torn"}
    BY DEF IInv, ServerAlone, ReadJournal
  <2>2. \A t \in Tasks : ~Armed(t)
    BY <2>1, ArmedLocks DEF IInv, TypeOK, Procs, Phases
  <2> QED
    BY <2>1, <2>2 DEF Committed, ReadJournal
<1> QED
  BY <1>1, Invariance, PTL

(* A kill and a throw heal alike, because disk and memory name one phase. *)
THEOREM KillHealsLikeThrow == ASSUME Disciplined PROVE Spec => []JournalTellsPhase
<1>1. IInv => JournalTellsPhase
  BY DEF IInv
<1> QED
  BY <1>1, Invariance, PTL

(* However an operation ended, the released instance holds one world only. *)
THEOREM ReleaseLeavesNothing == ASSUME Disciplined PROVE Spec => []NoResidue
<1>1. IInv => NoResidue
  BY DEF IInv, Layout, NoResidue
<1> QED
  BY <1>1, Invariance, PTL

-----------------------------------------------------------------------------
(* The swap implements the one-step exchange. *)

(* The worlds asked for do not depend on anything but pc and want. *)
LEMMA AskedKept ==
    ASSUME TypeOK, want' = want, \A t \in Tasks : pc'[t] = "idle" <=> pc[t] = "idle"
    PROVE  Asked' = Asked
BY DEF Asked, WorldOf

LEMMA InitStore == Init => Store!Init
<1> SUFFICES ASSUME Init PROVE Store!Init
  OBVIOUS
<1>1. Committed = live
  BY DEF Init, Committed
<1>2. Asked = {}
  BY DEF Init, Asked, Procs
<1> QED
  BY <1>1, <1>2 DEF Init, Store!Init, WorldOf, Store!WorldOf

LEMMA NextStore ==
    ASSUME Disciplined, IInv, IInv', [Next]_vars
    PROVE  [Store!Next]_<<Committed, Asked, server>>
<1> DEFINE Kept == UNCHANGED <<Committed, Asked, server>>
<1> USE ConstantsAssumption DEF disk, procs
<1> USE DEF IInv, TypeOK, Procs, Phases, ReadJournal
<1> USE AskedKept
<1>1. ASSUME NEW t \in Tasks, Enter(t) PROVE Store!Ask
  <2>1. PICK D \in SUBSET Dirs : want' = [want EXCEPT ![t] = D]
    BY <1>1 DEF Enter
  <2>2. Asked' = Asked \cup {WorldOf(t, D)}
    BY <1>1, <2>1 DEF Enter, Asked, WorldOf
  <2>3. Asked' = Asked \cup {Store!WorldOf(t, D)}
    BY <2>2 DEF WorldOf, Store!WorldOf
  <2>4. Committed' = Committed /\ server' = server
    BY <1>1 DEF Enter, Committed
  <2> HIDE DEF IInv, TypeOK
  <2> QED
    BY <2>3, <2>4 DEF Store!Ask
<1>2. ASSUME NEW t \in Tasks, Arm(t) PROVE Kept
  BY <1>2 DEF Arm, Committed, JournalTellsPhase, Armed, SwapPCs, HealPCs, Layout, PhaseOfPC, SwapProgress, BeginAlone
<1>3. ASSUME NEW t \in Tasks, Clean(t) PROVE Kept
  BY <1>3 DEF Clean, Committed, JournalTellsPhase, Armed, SwapPCs, HealPCs, Layout, PhaseOfPC, SwapProgress, Empty
<1>4. ASSUME NEW t \in Tasks, Fill(t) PROVE Kept
  BY <1>4 DEF Fill, Committed, JournalTellsPhase, Armed, SwapPCs, HealPCs, Layout, PhaseOfPC, SwapProgress, Empty
<1>5. ASSUME NEW t \in Tasks, AdvanceRetire(t) PROVE Kept
  BY <1>5 DEF AdvanceRetire, Committed, JournalTellsPhase, Armed, SwapPCs, HealPCs, Layout, PhaseOfPC, SwapProgress, Empty, WorldOf
<1>6. ASSUME NEW t \in Tasks, RetireDir(t) PROVE Kept
  BY <1>6 DEF RetireDir, Committed, JournalTellsPhase, Armed, SwapPCs, HealPCs, Layout, PhaseOfPC, SwapProgress, Empty
<1>7. ASSUME NEW t \in Tasks, AdvanceInstall(t) PROVE Store!Replace
  <2>1. journal = "retire" /\ stage = WorldOf(t, want[t])
    BY <1>7 DEF AdvanceInstall, SwapProgress, JournalTellsPhase, Armed, SwapPCs, HealPCs, Layout, PhaseOfPC
  <2>2. \A d \in Dirs : live[d] = NoDir
    BY <1>7 DEF AdvanceInstall, SwapProgress
  <2>3. Committed' = stage
    BY <1>7, <2>2 DEF AdvanceInstall, Committed
  <2>4. WorldOf(t, want[t]) \in Asked
    BY <1>7 DEF AdvanceInstall, Asked
  <2>5. Asked' = Asked
    BY <1>7 DEF AdvanceInstall
  <2>6. server = "off"
    BY <2>1 DEF ServerAlone
  <2> QED
    BY <1>7, <2>1, <2>3, <2>4, <2>5, <2>6 DEF AdvanceInstall, Store!Replace
<1>8. ASSUME NEW t \in Tasks, InstallDir(t) PROVE Kept
  BY <1>8 DEF InstallDir, Committed, JournalTellsPhase, Armed, SwapPCs, HealPCs, Layout, PhaseOfPC, SwapProgress, Empty
<1>9. ASSUME NEW t \in Tasks, AdvanceDiscard(t) PROVE Kept
  BY <1>9 DEF AdvanceDiscard, Committed, JournalTellsPhase, Armed, SwapPCs, HealPCs, Layout, PhaseOfPC, SwapProgress, Empty
<1>10. ASSUME NEW t \in Tasks, Discard(t) PROVE Kept
  BY <1>10 DEF Discard, Committed, JournalTellsPhase, Armed, SwapPCs, HealPCs, Layout, PhaseOfPC, SwapProgress, Empty
<1>11. ASSUME NEW t \in Tasks, Clear(t) PROVE Kept
  BY <1>11 DEF Clear, Committed, JournalTellsPhase, Armed, SwapPCs, HealPCs, Layout, PhaseOfPC, SwapProgress
<1>12. ASSUME NEW t \in Tasks, ArmFails(t) PROVE Kept
  <2>1. journal \in {"none", "torn"}
    BY <1>12 DEF ArmFails, BeginAlone
  <2>2. journal' \in {"none", "torn"}
    BY <1>12, <2>1 DEF ArmFails
  <2>3. Asked' = Asked /\ server' = server
    BY <1>12 DEF ArmFails
  <2> QED
    BY <1>12, <2>1, <2>2, <2>3 DEF ArmFails, Committed
<1>13. ASSUME NEW t \in Tasks, Fail(t) PROVE Kept
  BY <1>13 DEF Fail, Committed, JournalTellsPhase, Armed, SwapPCs, HealPCs, Layout, PhaseOfPC, SwapProgress, HealEntry, InstallPending, Writing, Disciplined
<1>14. ASSUME NEW p \in Procs, Restore(p) PROVE Kept
  BY <1>14 DEF Restore, Committed, JournalTellsPhase, Armed, SwapPCs, HealPCs, Layout, PhaseOfPC, HealProgress, Empty
<1>15. ASSUME NEW p \in Procs, HealStage(p) PROVE Kept
  BY <1>15 DEF HealStage, Committed, JournalTellsPhase, Armed, SwapPCs, HealPCs, Layout, PhaseOfPC, HealProgress, Empty
<1>16. ASSUME NEW p \in Procs, HealOld(p) PROVE Kept
  BY <1>16 DEF HealOld, Committed, JournalTellsPhase, Armed, SwapPCs, HealPCs, Layout, PhaseOfPC, HealProgress, Empty
<1>17. ASSUME NEW p \in Procs, HealClear(p) PROVE Kept
  <2>1. stage = Empty /\ old = Empty
    BY <1>17 DEF HealClear, HealProgress
  <2>2. Committed = live
    BY <2>1 DEF Committed, Empty
  <2>3. Committed' = live
    BY <1>17 DEF HealClear, Committed
  <2>4. Asked' = Asked
    BY <1>17 DEF HealClear, Ended
  <2> QED
    BY <1>17, <2>2, <2>3, <2>4 DEF HealClear
<1>18. ASSUME NEW p \in Procs, HealFails(p) PROVE Kept
  BY <1>18 DEF HealFails, Committed, JournalTellsPhase, Armed, SwapPCs, HealPCs, Layout, PhaseOfPC, HealProgress, Ended, Empty
<1>19. ASSUME Recover PROVE Kept
  BY <1>19 DEF Recover, Committed, JournalTellsPhase, Armed, SwapPCs, HealPCs, Layout, PhaseOfPC, ReadJournal, HealEntry
<1>20. ASSUME Crash PROVE Kept
  <2>1. Asked' = Asked /\ server' = server
    BY <1>20 DEF Crash
  <2>2. CASE journal' = journal
    BY <1>20, <2>1, <2>2 DEF Crash, Committed
  <2>3. CASE (\E t \in Tasks : Writing(t)) /\ journal' = "torn"
    <3>1. journal \in {"none", "torn"}
      BY <2>3 DEF Writing, Disciplined, BeginAlone
    <3> QED
      BY <1>20, <2>1, <2>3, <3>1 DEF Crash, Committed
  <2> QED
    BY <1>20, <2>2, <2>3 DEF Crash
<1>21. ASSUME Restart PROVE Kept
  BY <1>21 DEF Restart, Committed, JournalTellsPhase, Armed, SwapPCs, HealPCs, Layout, PhaseOfPC
<1>22. ASSUME StartCheck PROVE Kept
  BY <1>22 DEF StartCheck, Committed, JournalTellsPhase, Armed, SwapPCs, HealPCs, Layout, PhaseOfPC, ReadJournal
<1>23. ASSUME StartLaunch PROVE Store!Launch \/ Kept
  BY <1>23 DEF StartLaunch, Committed, JournalTellsPhase, Armed, SwapPCs, HealPCs, Layout, PhaseOfPC, Store!Launch, ServerAlone
<1>24. ASSUME ServerGrow PROVE Store!Grow
  BY <1>24 DEF ServerGrow, Committed, JournalTellsPhase, Armed, SwapPCs, HealPCs, Layout, PhaseOfPC, Store!Grow, ServerAlone
<1>25. ASSUME ServerStop PROVE Store!Halt
  BY <1>25 DEF ServerStop, Committed, JournalTellsPhase, Armed, SwapPCs, HealPCs, Layout, PhaseOfPC, Store!Halt
<1>26. ASSUME UNCHANGED vars PROVE Kept
  BY <1>26 DEF vars, Committed
<1> QED
  BY <1>1, <1>2, <1>3, <1>4, <1>5, <1>6, <1>7, <1>8, <1>9, <1>10, <1>11, <1>12, <1>13, <1>14, <1>15, <1>16, <1>17, <1>18, <1>19, <1>20, <1>21, <1>22, <1>23, <1>24, <1>25, <1>26
     DEF Next, SwapStep, HealStep, ServerStep, Store!Next

(* Through every interleaving of swaps, failures, crashes and recovery, the *)
(* world changes in one step, from the whole old one to the whole new one.  *)
THEOREM SwapIsAtomic == ASSUME Disciplined PROVE Spec => Atomic
<1>1. Init => Store!Init
  BY InitStore
<1>2. IInv /\ IInv' /\ [Next]_vars => [Store!Next]_<<Committed, Asked, server>>
  BY NextStore
<1> QED
  BY <1>1, <1>2, Invariance, PTL DEF Spec, Atomic, Store!Spec
=============================================================================
