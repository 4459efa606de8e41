---------------------------- MODULE BackupsProofs ----------------------------
(***************************************************************************)
(* Theorems about Backups, for any number of jobs, archives and faults.    *)
(***************************************************************************)
EXTENDS Backups, TLAPS

(* Steps at which a task has an archive of its own that is in no index. *)
Taking == {"freeze", "flush", "prepare", "archive", "thaw", "unwind", "rename", "load", "save"}

(* Who takes, deletes, verifies or pins an archive has one. *)
HasSubject == \A t \in Tasks : at[t] \in Taking \cup {"remove", "deleteSave", "hash", "pin"} => subject[t] # None
TypeInv == BackupsTypeOK /\ HasSubject

(* Two index updates do not mix, so a copy of the index is the index. *)
OneSection == \A t, u \in Tasks : at[t] \in Sections /\ at[u] \in Sections => t = u
CopyIsIndex == \A t \in Tasks : at[t] \in Sections => snap[t] = store

(* Archives are numbered as they are begun, and each by one task. *)
Numbered ==
    /\ store.entries \subseteq 1..next
    /\ \A t \in Tasks : at[t] \in Taking => subject[t] \in 1..next /\ subject[t] \notin store.entries
    /\ \A t, u \in Tasks : at[t] \in Taking /\ at[u] \in Taking /\ t # u => subject[t] # subject[u]

(* What a kill would have to note. *)
Roles ==
    \A t \in Tasks :
        /\ at[t] \in Taking \cup {"pruneLoad", "prune", "pruneSave"} => op[t] \in {"create", "restore"}
        /\ at[t] \in {"remove", "deleteSave"} => op[t] = "delete"

(* An archive is there when its entry is written, and is listed until it is *)
(* gone.                                                                    *)
OwnFiles ==
    \A t \in Tasks :
        /\ at[t] \in {"load", "save"} => subject[t] \in files
        /\ at[t] \in {"prune", "pruneSave"} => doomed[t] \subseteq store.entries
        /\ at[t] = "prune" => doomed[t] = PastKeep(store)
        /\ at[t] = "pruneSave" => doomed[t] \cap files = {}
        /\ at[t] \in {"remove", "deleteSave"} => subject[t] \in store.entries \cap asked
        /\ at[t] = "deleteSave" => subject[t] \notin files

(* Where index and directory differ, a task is between the two, or was.     *)
BetweenTheTwo ==
    /\ \A a \in store.entries \ files :
        \/ a \in cut
        \/ \E t \in Tasks : \/ at[t] = "pruneSave" /\ a \in doomed[t]
                            \/ at[t] = "deleteSave" /\ a = subject[t]
    /\ \A a \in files \ store.entries :
        a \in cut \/ \E t \in Tasks : at[t] \in {"load", "save"} /\ a = subject[t]

IndexInv == OneSection /\ CopyIsIndex /\ Numbered /\ Roles /\ OwnFiles /\ BetweenTheTwo

(* A server that writes while an archive is taken has been noted. *)
NotedInv ==
    /\ torn \subseteq warned \cup disturbed
    /\ game = "up" /\ saving => \A t \in Tasks : at[t] \in Quiet => t \in warned \cup disturbed

(* Who froze the server will thaw it. *)
FrozenInv ==
    /\ \A t \in Tasks :
        /\ froze[t] => at[t] \in {"freeze", "flush", "prepare", "archive", "thaw", "unwind"}
        /\ at[t] = "freeze" => froze[t]
    /\ ~saving => game = "up" /\ (stranded # "no" \/ \E t \in Tasks : froze[t] /\ at[t] # "freeze")

-----------------------------------------------------------------------------
(* Types *)

LEMMA Bounds == MaxBackups \in Nat /\ MaxFaults \in Nat /\ None \notin Archives /\ None \in Nat
BY BackupsConstants DEF Archives, None

LEMMA IndexType ==
    ASSUME NEW entries \in SUBSET Archives, NEW pinned \in SUBSET Archives, NEW keep \in Keeps \cup {FirstKeep}
    PROVE  Index(entries, pinned, keep) \in Stores
BY DEF Index, Stores

LEMMA NoIndexType == NoIndex \in Stores
BY IndexType DEF NoIndex

LEMMA StoreParts ==
    ASSUME NEW s \in Stores
    PROVE  /\ s.entries \subseteq Archives /\ s.pinned \subseteq Archives /\ s.keep \in Keeps \cup {FirstKeep}
           /\ PastKeep(s) \subseteq s.entries
BY DEF Stores, PastKeep

LEMMA EndType ==
    ASSUME BackupsTypeOK, NEW t \in Tasks, End(t) \/ Unpack(t)
    PROVE  /\ op' \in [Tasks -> {"none", "create", "restore", "verify", "delete", "pin", "keep"}]
           /\ at' \in [Tasks -> Sections \cup Quiet \cup
                        {"idle", "freeze", "thaw", "unwind", "rename", "load", "pruneLoad", "extract"}]
           /\ subject' \in [Tasks -> Archives \cup {None}]
           /\ picked' \in [Tasks -> Archives \cup {None}]
           /\ froze' \in [Tasks -> BOOLEAN]
           /\ snap' \in [Tasks -> Stores]
           /\ doomed' \in [Tasks -> SUBSET Archives]
<1>1. CASE End(t)
  BY <1>1, NoIndexType DEF BackupsTypeOK, End
<1>2. CASE Unpack(t)
  BY <1>2, NoIndexType DEF BackupsTypeOK, Unpack
<1> QED
  BY <1>1, <1>2

(* What a throw leaves is typed. *)
LEMMA ThrowsType ==
    ASSUME BackupsTypeOK, NEW t \in Tasks, Throws(t), files' \subseteq Archives,
           stranded' \in {"no", "killed", "refused"}
    PROVE  BackupsTypeOK'
<1>1. faults' \in 0..MaxFaults
  BY Bounds DEF BackupsTypeOK, Throws, Fault
<1>2. Apart' \subseteq Archives
  BY StoreParts DEF BackupsTypeOK, Throws, Apart
<1>3. cut' \subseteq Archives
  BY <1>2 DEF BackupsTypeOK, Throws
<1> QED
  BY <1>1, <1>3, EndType DEF BackupsTypeOK, Throws, Forget, live

LEMMA BeginType ==
    ASSUME BackupsTypeOK, NEW t \in Tasks, BeginArchive(t)
    PROVE  /\ next' \in 0..MaxBackups
           /\ subject' \in [Tasks -> Archives \cup {None}]
           /\ froze' \in [Tasks -> BOOLEAN]
           /\ at' \in [Tasks -> Sections \cup Quiet \cup
                        {"idle", "freeze", "thaw", "unwind", "rename", "load", "pruneLoad", "extract"}]
<1>1. next + 1 \in Archives
  BY Bounds DEF BackupsTypeOK, BeginArchive, Archives
<1>2. next' \in 0..MaxBackups
  BY Bounds DEF BackupsTypeOK, BeginArchive
<1> QED
  BY <1>1, <1>2 DEF BackupsTypeOK, BeginArchive, StepTo, Quiet

LEMMA CreateTypes ==
    ASSUME TypeInv, NEW t \in Tasks, CreateStep(t)
    PROVE  BackupsTypeOK'
<1> USE DEF disk, live, history, StepTo
<1>0. BackupsTypeOK /\ (at[t] \in {"rename", "save"} => subject[t] \in Archives)
  BY DEF TypeInv, HasSubject, BackupsTypeOK, Taking
<1>1. ASSUME Fault PROVE faults' \in 0..MaxFaults
  BY <1>0, <1>1, Bounds DEF BackupsTypeOK, Fault
<1>2. CASE Create(t)
  BY <1>0, <1>2, BeginType DEF Create, BackupsTypeOK
<1>3. CASE Freeze(t)
  <2>1. CASE game = "up"
    BY <1>0, <1>3, <2>1 DEF Freeze, BackupsTypeOK, Quiet
  <2>2. CASE game # "up"
    BY <1>0, <1>3, <2>2 DEF Freeze, BackupsTypeOK, Quiet
  <2> QED
    BY <2>1, <2>2
<1>4. CASE Flush(t)
  BY <1>0, <1>4 DEF Flush, BackupsTypeOK, Quiet
<1>5. CASE Prepare(t)
  BY <1>0, <1>5 DEF Prepare, BackupsTypeOK, Quiet
<1>6. CASE PrepareFails(t) \/ EntryFails(t) \/ PruneFails(t)
  <2>1. Throws(t) /\ files' \subseteq Archives /\ stranded' \in {"no", "killed", "refused"}
    BY <1>0, <1>6 DEF PrepareFails, EntryFails, PruneFails, BackupsTypeOK
  <2> QED
    BY <1>0, <2>1, ThrowsType
<1>7. CASE Archive(t)
  BY <1>0, <1>7 DEF Archive, BackupsTypeOK
<1>8. CASE ArchiveFails(t)
  BY <1>0, <1>8, <1>1 DEF ArchiveFails, BackupsTypeOK
<1>9. CASE Thaw(t)
  BY <1>0, <1>9 DEF Thaw, BackupsTypeOK, SaveOn, Uncovered, Overlapping
<1>10. CASE Unwind(t)
  BY <1>0, <1>10, EndType DEF Unwind, BackupsTypeOK, SaveOn, Uncovered, Overlapping
<1>11. CASE Rename(t)
  BY <1>0, <1>11 DEF Rename, BackupsTypeOK, Forget
<1>12. CASE LoadForEntry(t)
  BY <1>0, <1>12 DEF LoadForEntry, BackupsTypeOK, Sections
<1>13. CASE SaveEntry(t)
  <2>1. snap[t] \in Stores /\ store' \in Stores
    BY <1>0, <1>13, StoreParts, IndexType DEF SaveEntry, BackupsTypeOK
  <2> QED
    BY <1>0, <1>13, <2>1, NoIndexType DEF SaveEntry, BackupsTypeOK
<1>14. CASE LoadForPrune(t)
  BY <1>0, <1>14, EndType, StoreParts DEF LoadForPrune, BackupsTypeOK, Sections
<1>15. CASE PruneFiles(t)
  BY <1>0, <1>15 DEF PruneFiles, BackupsTypeOK, Sections
<1>16. CASE PruneSave(t)
  BY <1>0, <1>16, EndType, StoreParts, IndexType DEF PruneSave, BackupsTypeOK
<1> QED
  BY <1>2, <1>3, <1>4, <1>5, <1>6, <1>7, <1>8, <1>9, <1>10, <1>11, <1>12, <1>13, <1>14, <1>15, <1>16
     DEF CreateStep

LEMMA OtherTypes ==
    ASSUME TypeInv, NEW t \in Tasks, OtherStep(t)
    PROVE  BackupsTypeOK'
<1> USE DEF disk, live, history, StepTo
<1>0. BackupsTypeOK /\ (at[t] \in {"remove", "deleteSave", "pin"} => subject[t] \in Archives)
  BY DEF TypeInv, HasSubject, BackupsTypeOK
<1>1. ASSUME NEW kind \in {"verify", "delete", "pin", "keep"}, NEW a \in Archives \cup {None},
             NEW step \in {"hash", "remove", "pin", "setKeep"}, LoadFor(t, kind, a, step),
             warned' \cup torn' \cup disturbed' \subseteq Tasks, asked' \cup cut' \subseteq Archives,
             stranded' \in {"no", "killed", "refused"}
      PROVE  BackupsTypeOK'
  BY <1>0, <1>1 DEF LoadFor, BackupsTypeOK, Sections
<1>2. ASSUME NEW first \in BOOLEAN, Restore(t, first) PROVE BackupsTypeOK'
  <2>1. store.entries \subseteq Archives
    BY <1>0, StoreParts DEF BackupsTypeOK
  <2>2. /\ op' \in [Tasks -> {"none", "create", "restore", "verify", "delete", "pin", "keep"}]
        /\ picked' \in [Tasks -> Archives \cup {None}]
    BY <1>0, <1>2, <2>1 DEF Restore, BackupsTypeOK
  <2>3. CASE first
    BY <1>0, <1>2, <2>2, <2>3, BeginType DEF Restore, BackupsTypeOK
  <2>4. CASE ~first
    BY <1>0, <1>2, <2>2, <2>4 DEF Restore, BackupsTypeOK
  <2> QED
    BY <2>3, <2>4
<1>3. CASE Extract(t)
  BY <1>0, <1>3, EndType DEF Extract, BackupsTypeOK
<1>4. CASE Verify(t)
  BY <1>0, <1>4, <1>1, StoreParts DEF Verify, BackupsTypeOK
<1>5. CASE Hashed(t)
  BY <1>0, <1>5, EndType DEF Hashed, BackupsTypeOK
<1>6. CASE Delete(t)
  BY <1>0, <1>6, <1>1, StoreParts DEF Delete, BackupsTypeOK
<1>7. CASE DeleteFile(t)
  BY <1>0, <1>7 DEF DeleteFile, BackupsTypeOK, Sections
<1>8. CASE DeleteSave(t)
  BY <1>0, <1>8, EndType, StoreParts, IndexType DEF DeleteSave, BackupsTypeOK
<1>9. CASE Update(t)
  BY <1>0, <1>9, <1>1, StoreParts DEF Update, BackupsTypeOK
<1>10. CASE Pinned(t)
  <2>1. snap[t] \in Stores
    BY <1>0 DEF BackupsTypeOK
  <2>2. store' \in Stores
    BY <1>0, <1>10, <2>1, StoreParts, IndexType DEF Pinned
  <2> QED
    BY <1>0, <1>10, <2>2, EndType DEF Pinned, BackupsTypeOK
<1>11. CASE SetKeep(t)
  BY <1>0, <1>11, <1>1 DEF SetKeep, BackupsTypeOK
<1>12. CASE Kept(t)
  <2>1. snap[t] \in Stores
    BY <1>0 DEF BackupsTypeOK
  <2>2. store' \in Stores
    BY <1>0, <1>12, <2>1, StoreParts, IndexType DEF Kept
  <2> QED
    BY <1>0, <1>12, <2>2, EndType DEF Kept, BackupsTypeOK
<1>13. CASE UpdateFails(t)
  BY <1>0, <1>13, ThrowsType DEF UpdateFails, BackupsTypeOK
<1> QED
  BY <1>2, <1>3, <1>4, <1>5, <1>6, <1>7, <1>8, <1>9, <1>10, <1>11, <1>12, <1>13 DEF OtherStep

LEMMA WorldTypes ==
    ASSUME BackupsTypeOK, ServerStart \/ ServerStop \/ ServerWrites \/ Crash
    PROVE  BackupsTypeOK'
<1> USE DEF disk, live, task
<1>1. CASE ServerStart
  BY <1>1 DEF ServerStart, BackupsTypeOK
<1>2. CASE ServerStop
  BY <1>2 DEF ServerStop, BackupsTypeOK
<1>3. CASE ServerWrites
  BY <1>3 DEF ServerWrites, BackupsTypeOK
<1>4. CASE Crash
  <2>1. faults' \in 0..MaxFaults
    BY <1>4, Bounds DEF Crash, Fault, BackupsTypeOK
  <2>2. cut' \subseteq Archives
    BY <1>4, StoreParts DEF Crash, BackupsTypeOK, Apart
  <2> QED
    BY <1>4, <2>1, <2>2, NoIndexType DEF Crash, BackupsTypeOK
<1> QED
  BY <1>1, <1>2, <1>3, <1>4

LEMMA SubjectKept ==
    ASSUME TypeInv, BackupsNext
    PROVE  HasSubject'
<1> USE DEF HasSubject, Taking, StepTo, End
<1>0. BackupsTypeOK /\ HasSubject /\ next + 1 # None /\ None \notin store.entries
  BY StoreParts, Bounds DEF TypeInv, BackupsTypeOK, None
<1>1. ASSUME NEW t \in Tasks, CreateStep(t) PROVE HasSubject'
  <2> USE <1>0 DEF BackupsTypeOK
  <2>1. CASE Create(t)
    BY <2>1 DEF Create, BeginArchive
  <2>2. CASE Freeze(t) \/ Flush(t) \/ Prepare(t) \/ Archive(t) \/ ArchiveFails(t)
    BY <2>2 DEF Freeze, Flush, Prepare, Archive, ArchiveFails
  <2>3. CASE PrepareFails(t) \/ EntryFails(t) \/ PruneFails(t) \/ Unwind(t) \/ PruneSave(t)
    BY <2>3 DEF PrepareFails, EntryFails, PruneFails, Throws, Unwind, PruneSave, Unpack
  <2>4. CASE Thaw(t) \/ Rename(t) \/ LoadForEntry(t) \/ SaveEntry(t) \/ PruneFiles(t)
    BY <2>4 DEF Thaw, Rename, LoadForEntry, SaveEntry, PruneFiles
  <2>5. CASE LoadForPrune(t)
    BY <2>5 DEF LoadForPrune, Unpack
  <2> QED
    BY <1>1, <2>1, <2>2, <2>3, <2>4, <2>5 DEF CreateStep
<1>2. ASSUME NEW t \in Tasks, OtherStep(t) PROVE HasSubject'
  <2> USE <1>0 DEF BackupsTypeOK
  <2>1. ASSUME NEW first \in BOOLEAN, Restore(t, first) PROVE HasSubject'
    BY <2>1 DEF Restore, BeginArchive
  <2>2. CASE Extract(t) \/ Hashed(t) \/ DeleteSave(t) \/ Pinned(t) \/ Kept(t) \/ UpdateFails(t)
    BY <2>2 DEF Extract, Hashed, DeleteSave, Pinned, Kept, UpdateFails, Throws, Forget
  <2>3. CASE Verify(t) \/ Delete(t) \/ Update(t) \/ SetKeep(t)
    BY <2>3 DEF Verify, Delete, Update, SetKeep, LoadFor
  <2>4. CASE DeleteFile(t)
    BY <2>4 DEF DeleteFile
  <2> QED
    BY <1>2, <2>1, <2>2, <2>3, <2>4 DEF OtherStep
<1>3. CASE ServerStart \/ ServerStop \/ ServerWrites \/ Crash
  BY <1>0, <1>3 DEF ServerStart, ServerStop, ServerWrites, Crash, task, BackupsTypeOK
<1> QED
  BY <1>1, <1>2, <1>3 DEF BackupsNext

LEMMA TypesKept ==
    ASSUME TypeInv, [BackupsNext]_backupVars
    PROVE  TypeInv'
<1>1. CASE BackupsNext
  <2>1. BackupsTypeOK'
    BY <1>1, CreateTypes, OtherTypes, WorldTypes DEF BackupsNext, TypeInv
  <2> QED
    BY <1>1, <2>1, SubjectKept DEF TypeInv
<1>2. CASE UNCHANGED backupVars
  BY <1>2 DEF backupVars, TypeInv, BackupsTypeOK, HasSubject
<1> QED
  BY <1>1, <1>2

LEMMA InitialTypes == BackupsInit => TypeInv
<1> SUFFICES ASSUME BackupsInit PROVE TypeInv
  OBVIOUS
<1>1. BackupsTypeOK
  <2>1. next \in 0..MaxBackups /\ faults \in 0..MaxFaults
    BY Bounds DEF BackupsInit
  <2>2. snap \in [Tasks -> Stores] /\ store \in Stores
    BY NoIndexType DEF BackupsInit
  <2> QED
    BY <2>1, <2>2 DEF BackupsInit, BackupsTypeOK
<1>2. HasSubject
  BY DEF BackupsInit, HasSubject, Taking
<1> QED
  BY <1>1, <1>2 DEF TypeInv

LEMMA TypesHold == BackupsSpec => []TypeInv
<1>1. BackupsInit => TypeInv
  BY InitialTypes
<1>2. TypeInv /\ [BackupsNext]_backupVars => TypeInv'
  BY TypesKept
<1> QED
  BY <1>1, <1>2, PTL DEF BackupsSpec

(* In every state the variables have their types: an entry of the index,   *)
(* of its copies and of what retention drops is an archive, and the count   *)
(* that retention keeps is one somebody set.                                *)
THEOREM TypeCorrect == BackupsSpec => []BackupsTypeOK
<1>1. TypeInv => BackupsTypeOK
  BY DEF TypeInv
<1> QED
  BY <1>1, TypesHold, PTL

-----------------------------------------------------------------------------
(* The server under an archive *)

LEMMA NotedKept ==
    ASSUME BackupsTypeOK, NotedInv, [BackupsNext]_backupVars
    PROVE  NotedInv'
<1> USE DEF NotedInv, BackupsTypeOK, Quiet, live, StepTo, End
<1>1. ASSUME NEW t \in Tasks, CreateStep(t) PROVE NotedInv'
  <2>1. CASE Create(t)
    BY <2>1 DEF Create, BeginArchive, history
  <2>2. CASE Freeze(t)
    BY <2>2 DEF Freeze
  <2>3. CASE Flush(t)
    BY <2>3 DEF Flush
  <2>4. CASE Prepare(t) \/ Archive(t) \/ ArchiveFails(t)
    BY <2>4 DEF Prepare, Archive, ArchiveFails, history
  <2>5. CASE PrepareFails(t) \/ EntryFails(t) \/ PruneFails(t) \/ Rename(t)
    BY <2>5 DEF PrepareFails, EntryFails, PruneFails, Throws, Rename, Forget
  <2>6. CASE Thaw(t)
    BY <2>6 DEF Thaw, SaveOn, Uncovered, Overlapping
  <2>7. CASE Unwind(t)
    BY <2>7 DEF Unwind, SaveOn, Uncovered, Overlapping
  <2>8. CASE LoadForEntry(t) \/ SaveEntry(t) \/ PruneFiles(t)
    BY <2>8 DEF LoadForEntry, SaveEntry, PruneFiles, history
  <2>9. CASE LoadForPrune(t) \/ PruneSave(t)
    BY <2>9 DEF LoadForPrune, PruneSave, Unpack, history
  <2> QED
    BY <1>1, <2>1, <2>2, <2>3, <2>4, <2>5, <2>6, <2>7, <2>8, <2>9 DEF CreateStep
<1>2. ASSUME NEW t \in Tasks, OtherStep(t) PROVE NotedInv'
  <2>1. ASSUME NEW first \in BOOLEAN, Restore(t, first) PROVE NotedInv'
    BY <2>1 DEF Restore, BeginArchive, history
  <2>2. CASE Extract(t) \/ Hashed(t) \/ DeleteSave(t) \/ Pinned(t) \/ Kept(t) \/ UpdateFails(t)
    BY <2>2 DEF Extract, Hashed, DeleteSave, Pinned, Kept, UpdateFails, Throws, Forget, history
  <2>3. CASE Verify(t) \/ Delete(t) \/ Update(t) \/ SetKeep(t)
    BY <2>3 DEF Verify, Delete, Update, SetKeep, LoadFor, history
  <2>4. CASE DeleteFile(t)
    BY <2>4 DEF DeleteFile, history
  <2> QED
    BY <1>2, <2>1, <2>2, <2>3, <2>4 DEF OtherStep
<1>3. CASE ServerStart \/ ServerStop \/ ServerWrites
  BY <1>3 DEF ServerStart, ServerStop, ServerWrites, task
<1>4. CASE Crash
  BY <1>4 DEF Crash
<1>5. CASE UNCHANGED backupVars
  BY <1>5 DEF backupVars
<1> QED
  BY <1>1, <1>2, <1>3, <1>4, <1>5 DEF BackupsNext

(* An archive that caught the server writing carries a warning, or else      *)
(* somebody else thawed or started the server while it was taken: whichever  *)
(* jobs overlap and wherever the flush runs out of time.                     *)
THEOREM TornArchivesTold == BackupsSpec => []TornIsWarned
<1>1. BackupsInit => NotedInv
  BY DEF BackupsInit, NotedInv, Quiet
<1>2. BackupsTypeOK /\ NotedInv /\ [BackupsNext]_backupVars => NotedInv'
  BY NotedKept
<1>3. NotedInv => TornIsWarned
  BY DEF NotedInv, TornIsWarned
<1> QED
  BY <1>1, <1>2, <1>3, TypeCorrect, PTL DEF BackupsSpec

LEMMA FrozenKept ==
    ASSUME BackupsTypeOK, FrozenInv, [BackupsNext]_backupVars
    PROVE  FrozenInv'
<1> USE DEF FrozenInv, BackupsTypeOK, live, StepTo, End
<1>1. ASSUME NEW t \in Tasks, CreateStep(t) PROVE FrozenInv'
  <2>1. CASE Create(t)
    BY <2>1 DEF Create, BeginArchive, history
  <2>2. CASE Freeze(t)
    BY <2>2 DEF Freeze
  <2>3. CASE Flush(t) \/ Rename(t)
    BY <2>3 DEF Flush, Rename
  <2>4. CASE Prepare(t) \/ Archive(t) \/ ArchiveFails(t)
    BY <2>4 DEF Prepare, Archive, ArchiveFails, history
  <2>5. CASE PrepareFails(t) \/ EntryFails(t) \/ PruneFails(t)
    BY <2>5 DEF PrepareFails, EntryFails, PruneFails, Throws
  <2>6. CASE Thaw(t)
    BY <2>6 DEF Thaw, SaveOn
  <2>7. CASE Unwind(t)
    BY <2>7 DEF Unwind, SaveOn
  <2>8. CASE LoadForEntry(t) \/ SaveEntry(t) \/ PruneFiles(t)
    BY <2>8 DEF LoadForEntry, SaveEntry, PruneFiles, history
  <2>9. CASE LoadForPrune(t) \/ PruneSave(t)
    BY <2>9 DEF LoadForPrune, PruneSave, Unpack, history
  <2> QED
    BY <1>1, <2>1, <2>2, <2>3, <2>4, <2>5, <2>6, <2>7, <2>8, <2>9 DEF CreateStep
<1>2. ASSUME NEW t \in Tasks, OtherStep(t) PROVE FrozenInv'
  <2>1. ASSUME NEW first \in BOOLEAN, Restore(t, first) PROVE FrozenInv'
    BY <2>1 DEF Restore, BeginArchive, history
  <2>2. CASE Extract(t) \/ Hashed(t) \/ DeleteSave(t) \/ Pinned(t) \/ Kept(t) \/ UpdateFails(t)
    BY <2>2 DEF Extract, Hashed, DeleteSave, Pinned, Kept, UpdateFails, Throws, Forget, history
  <2>3. CASE Verify(t) \/ Delete(t) \/ Update(t) \/ SetKeep(t)
    BY <2>3 DEF Verify, Delete, Update, SetKeep, LoadFor, history
  <2>4. CASE DeleteFile(t)
    BY <2>4 DEF DeleteFile, history
  <2> QED
    BY <1>2, <2>1, <2>2, <2>3, <2>4 DEF OtherStep
<1>3. CASE ServerStart \/ ServerStop \/ ServerWrites
  BY <1>3 DEF ServerStart, ServerStop, ServerWrites, task
<1>4. CASE Crash
  BY <1>4 DEF Crash
<1>5. CASE UNCHANGED backupVars
  BY <1>5 DEF backupVars
<1> QED
  BY <1>1, <1>2, <1>3, <1>4, <1>5 DEF BackupsNext

(* A server that does not save is being backed up, or was when the daemon   *)
(* was killed or when something threw after its freeze and before the try:  *)
(* every other end of a backup, its failures and its overlaps with others   *)
(* included, has thawed it.                                                 *)
THEOREM FreezesEnd == BackupsSpec => []ThawedAfterwards
<1>1. BackupsInit => FrozenInv
  BY DEF BackupsInit, FrozenInv
<1>2. BackupsTypeOK /\ FrozenInv /\ [BackupsNext]_backupVars => FrozenInv'
  BY FrozenKept
<1>3. FrozenInv => ThawedAfterwards
  BY DEF FrozenInv, ThawedAfterwards
<1> QED
  BY <1>1, <1>2, <1>3, TypeCorrect, PTL DEF BackupsSpec

-----------------------------------------------------------------------------
(* The index and the directory *)

LEMMA SectionsKept ==
    ASSUME ~IndexRaces, BackupsTypeOK, HasSubject, IndexInv, [BackupsNext]_backupVars
    PROVE  OneSection' /\ CopyIsIndex'
<1> USE DEF disk, live, history, StepTo, End, Quiet, BackupsTypeOK, IndexInv, OneSection, CopyIsIndex,
            Sections
<1>1. ASSUME NEW t \in Tasks, CreateStep(t) PROVE OneSection' /\ CopyIsIndex'
  <2>1. CASE Create(t)
    BY <2>1 DEF Create, BeginArchive
  <2>2. CASE Freeze(t) \/ Flush(t)
    BY <2>2 DEF Freeze, Flush
  <2>3. CASE Prepare(t) \/ Archive(t) \/ ArchiveFails(t) \/ Thaw(t)
    BY <2>3 DEF Prepare, Archive, ArchiveFails, Thaw
  <2>4. CASE PrepareFails(t) \/ Unwind(t)
    BY <2>4 DEF PrepareFails, Throws, Unwind
  <2>5. CASE Rename(t)
    BY <2>5 DEF Rename
  <2>6. CASE LoadForEntry(t)
    BY <2>6 DEF LoadForEntry, MayLoad
  <2>7. CASE SaveEntry(t)
    BY <2>7 DEF SaveEntry, Index
  <2>8. CASE LoadForPrune(t)
    BY <2>8 DEF LoadForPrune, MayLoad, Unpack
  <2>9. CASE PruneFiles(t)
    BY <2>9 DEF PruneFiles
  <2>10. CASE PruneSave(t)
    BY <2>10 DEF PruneSave, Unpack, Index
  <2>11. CASE EntryFails(t)
    BY <2>11 DEF EntryFails, Throws
  <2>12. CASE PruneFails(t)
    BY <2>12 DEF PruneFails, Throws
  <2> QED
    BY <1>1, <2>1, <2>2, <2>3, <2>4, <2>5, <2>6, <2>7, <2>8, <2>9, <2>10, <2>11, <2>12 DEF CreateStep
<1>2. ASSUME NEW t \in Tasks, OtherStep(t) PROVE OneSection' /\ CopyIsIndex'
  <2>1. ASSUME NEW first \in BOOLEAN, Restore(t, first) PROVE OneSection' /\ CopyIsIndex'
    BY <2>1 DEF Restore, BeginArchive
  <2>2. CASE Extract(t)
    BY <2>2 DEF Extract
  <2>3. CASE Hashed(t)
    BY <2>3 DEF Hashed
  <2>4. CASE DeleteSave(t)
    BY <2>4 DEF DeleteSave, Index
  <2>5. CASE Pinned(t) \/ Kept(t)
    BY <2>5 DEF Pinned, Kept, Index
  <2>6. CASE Verify(t) \/ Delete(t) \/ Update(t) \/ SetKeep(t)
    BY <2>6 DEF Verify, Delete, Update, SetKeep, LoadFor, MayLoad
  <2>7. CASE DeleteFile(t)
    BY <2>7 DEF DeleteFile
  <2>8. CASE UpdateFails(t)
    BY <2>8 DEF UpdateFails, Throws
  <2> QED
    BY <1>2, <2>1, <2>2, <2>3, <2>4, <2>5, <2>6, <2>7, <2>8 DEF OtherStep
<1>3. CASE ServerStart \/ ServerStop \/ ServerWrites
  BY <1>3 DEF ServerStart, ServerStop, ServerWrites, task
<1>4. CASE Crash
  BY <1>4 DEF Crash
<1>5. CASE UNCHANGED backupVars
  BY <1>5 DEF backupVars
<1> QED
  BY <1>1, <1>2, <1>3, <1>4, <1>5 DEF BackupsNext

LEMMA NumberedKept ==
    ASSUME ~IndexRaces, BackupsTypeOK, HasSubject, IndexInv, [BackupsNext]_backupVars
    PROVE  Numbered'
<1> USE DEF disk, live, history, StepTo, End, Quiet, BackupsTypeOK, IndexInv, OneSection, CopyIsIndex,
            Numbered, Taking, Sections
<1>1. ASSUME NEW t \in Tasks, CreateStep(t) PROVE Numbered'
  <2>1. CASE Create(t)
    BY <2>1 DEF Create, BeginArchive
  <2>2. CASE Freeze(t) \/ Flush(t)
    BY <2>2 DEF Freeze, Flush
  <2>3. CASE Prepare(t) \/ Archive(t) \/ ArchiveFails(t) \/ Thaw(t)
    BY <2>3 DEF Prepare, Archive, ArchiveFails, Thaw
  <2>4. CASE PrepareFails(t) \/ Unwind(t)
    BY <2>4 DEF PrepareFails, Throws, Unwind
  <2>5. CASE Rename(t)
    BY <2>5 DEF Rename
  <2>6. CASE LoadForEntry(t)
    BY <2>6 DEF LoadForEntry, MayLoad
  <2>7. CASE SaveEntry(t)
    BY <2>7 DEF SaveEntry, Index
  <2>8. CASE LoadForPrune(t)
    BY <2>8 DEF LoadForPrune, MayLoad, Unpack
  <2>9. CASE PruneFiles(t)
    BY <2>9 DEF PruneFiles
  <2>10. CASE PruneSave(t)
    BY <2>10 DEF PruneSave, Unpack, Index
  <2>11. CASE EntryFails(t)
    BY <2>11 DEF EntryFails, Throws
  <2>12. CASE PruneFails(t)
    BY <2>12 DEF PruneFails, Throws
  <2> QED
    BY <1>1, <2>1, <2>2, <2>3, <2>4, <2>5, <2>6, <2>7, <2>8, <2>9, <2>10, <2>11, <2>12 DEF CreateStep
<1>2. ASSUME NEW t \in Tasks, OtherStep(t) PROVE Numbered'
  <2>1. ASSUME NEW first \in BOOLEAN, Restore(t, first) PROVE Numbered'
    BY <2>1 DEF Restore, BeginArchive
  <2>2. CASE Extract(t)
    BY <2>2 DEF Extract
  <2>3. CASE Hashed(t)
    BY <2>3 DEF Hashed
  <2>4. CASE DeleteSave(t)
    BY <2>4 DEF DeleteSave, Index
  <2>5. CASE Pinned(t) \/ Kept(t)
    BY <2>5 DEF Pinned, Kept, Index
  <2>6. CASE Verify(t) \/ Delete(t) \/ Update(t) \/ SetKeep(t)
    BY <2>6 DEF Verify, Delete, Update, SetKeep, LoadFor, MayLoad
  <2>7. CASE DeleteFile(t)
    BY <2>7 DEF DeleteFile
  <2>8. CASE UpdateFails(t)
    BY <2>8 DEF UpdateFails, Throws
  <2> QED
    BY <1>2, <2>1, <2>2, <2>3, <2>4, <2>5, <2>6, <2>7, <2>8 DEF OtherStep
<1>3. CASE ServerStart \/ ServerStop \/ ServerWrites
  BY <1>3 DEF ServerStart, ServerStop, ServerWrites, task
<1>4. CASE Crash
  BY <1>4 DEF Crash
<1>5. CASE UNCHANGED backupVars
  BY <1>5 DEF backupVars
<1> QED
  BY <1>1, <1>2, <1>3, <1>4, <1>5 DEF BackupsNext

LEMMA RolesKept ==
    ASSUME ~IndexRaces, BackupsTypeOK, HasSubject, IndexInv, [BackupsNext]_backupVars
    PROVE  Roles'
<1> USE DEF disk, live, history, StepTo, End, Quiet, BackupsTypeOK, IndexInv, Roles, Taking
<1>1. ASSUME NEW t \in Tasks, CreateStep(t) PROVE Roles'
  <2>1. CASE Create(t)
    BY <2>1 DEF Create, BeginArchive
  <2>2. CASE Freeze(t) \/ Flush(t)
    BY <2>2 DEF Freeze, Flush
  <2>3. CASE Prepare(t) \/ Archive(t) \/ ArchiveFails(t) \/ Thaw(t)
    BY <2>3 DEF Prepare, Archive, ArchiveFails, Thaw
  <2>4. CASE PrepareFails(t) \/ Unwind(t)
    BY <2>4 DEF PrepareFails, Throws, Unwind
  <2>5. CASE Rename(t)
    BY <2>5 DEF Rename
  <2>6. CASE LoadForEntry(t)
    BY <2>6 DEF LoadForEntry, MayLoad
  <2>7. CASE SaveEntry(t)
    BY <2>7 DEF SaveEntry, Index
  <2>8. CASE LoadForPrune(t)
    BY <2>8 DEF LoadForPrune, MayLoad, Unpack
  <2>9. CASE PruneFiles(t)
    BY <2>9 DEF PruneFiles
  <2>10. CASE PruneSave(t)
    BY <2>10 DEF PruneSave, Unpack, Index
  <2>11. CASE EntryFails(t)
    BY <2>11 DEF EntryFails, Throws
  <2>12. CASE PruneFails(t)
    BY <2>12 DEF PruneFails, Throws
  <2> QED
    BY <1>1, <2>1, <2>2, <2>3, <2>4, <2>5, <2>6, <2>7, <2>8, <2>9, <2>10, <2>11, <2>12 DEF CreateStep
<1>2. ASSUME NEW t \in Tasks, OtherStep(t) PROVE Roles'
  <2>1. ASSUME NEW first \in BOOLEAN, Restore(t, first) PROVE Roles'
    BY <2>1 DEF Restore, BeginArchive
  <2>2. CASE Extract(t)
    BY <2>2 DEF Extract
  <2>3. CASE Hashed(t)
    BY <2>3 DEF Hashed
  <2>4. CASE DeleteSave(t)
    BY <2>4 DEF DeleteSave, Index
  <2>5. CASE Pinned(t) \/ Kept(t)
    BY <2>5 DEF Pinned, Kept, Index
  <2>6. CASE Verify(t) \/ Delete(t) \/ Update(t) \/ SetKeep(t)
    BY <2>6 DEF Verify, Delete, Update, SetKeep, LoadFor, MayLoad
  <2>7. CASE DeleteFile(t)
    BY <2>7 DEF DeleteFile
  <2>8. CASE UpdateFails(t)
    BY <2>8 DEF UpdateFails, Throws
  <2> QED
    BY <1>2, <2>1, <2>2, <2>3, <2>4, <2>5, <2>6, <2>7, <2>8 DEF OtherStep
<1>3. CASE ServerStart \/ ServerStop \/ ServerWrites
  BY <1>3 DEF ServerStart, ServerStop, ServerWrites, task
<1>4. CASE Crash
  BY <1>4 DEF Crash
<1>5. CASE UNCHANGED backupVars
  BY <1>5 DEF backupVars
<1> QED
  BY <1>1, <1>2, <1>3, <1>4, <1>5 DEF BackupsNext

LEMMA OwnFilesKept ==
    ASSUME ~IndexRaces, BackupsTypeOK, HasSubject, IndexInv, [BackupsNext]_backupVars
    PROVE  OwnFiles'
<1> USE DEF disk, live, history, StepTo, End, Quiet, BackupsTypeOK, IndexInv, OneSection, CopyIsIndex,
            Numbered, OwnFiles, Taking, Sections
<1>1. ASSUME NEW t \in Tasks, CreateStep(t) PROVE OwnFiles'
  <2>1. CASE Create(t)
    BY <2>1 DEF Create, BeginArchive
  <2>2. CASE Freeze(t) \/ Flush(t)
    BY <2>2 DEF Freeze, Flush
  <2>3. CASE Prepare(t) \/ Archive(t) \/ ArchiveFails(t) \/ Thaw(t)
    BY <2>3 DEF Prepare, Archive, ArchiveFails, Thaw
  <2>4. CASE PrepareFails(t) \/ Unwind(t)
    BY <2>4 DEF PrepareFails, Throws, Unwind
  <2>5. CASE Rename(t)
    BY <2>5 DEF Rename
  <2>6. CASE LoadForEntry(t)
    BY <2>6 DEF LoadForEntry, MayLoad
  <2>7. CASE SaveEntry(t)
    BY <2>7 DEF SaveEntry, Index
  <2>8. CASE LoadForPrune(t)
    BY <2>8, StoreParts DEF LoadForPrune, MayLoad, Unpack
  <2>9. CASE PruneFiles(t)
    BY <2>9 DEF PruneFiles
  <2>10. CASE PruneSave(t)
    BY <2>10 DEF PruneSave, Unpack, Index
  <2>11. CASE EntryFails(t)
    BY <2>11 DEF EntryFails, Throws
  <2>12. CASE PruneFails(t)
    BY <2>12 DEF PruneFails, Throws
  <2> QED
    BY <1>1, <2>1, <2>2, <2>3, <2>4, <2>5, <2>6, <2>7, <2>8, <2>9, <2>10, <2>11, <2>12 DEF CreateStep
<1>2. ASSUME NEW t \in Tasks, OtherStep(t) PROVE OwnFiles'
  <2>1. ASSUME NEW first \in BOOLEAN, Restore(t, first) PROVE OwnFiles'
    BY <2>1 DEF Restore, BeginArchive
  <2>2. CASE Extract(t)
    BY <2>2 DEF Extract
  <2>3. CASE Hashed(t)
    BY <2>3 DEF Hashed
  <2>4. CASE DeleteSave(t)
    BY <2>4 DEF DeleteSave, Index
  <2>5. CASE Pinned(t) \/ Kept(t)
    BY <2>5 DEF Pinned, Kept, Index
  <2>6. CASE Verify(t) \/ Delete(t) \/ Update(t) \/ SetKeep(t)
    BY <2>6 DEF Verify, Delete, Update, SetKeep, LoadFor, MayLoad
  <2>7. CASE DeleteFile(t)
    BY <2>7 DEF DeleteFile
  <2>8. CASE UpdateFails(t)
    BY <2>8 DEF UpdateFails, Throws
  <2> QED
    BY <1>2, <2>1, <2>2, <2>3, <2>4, <2>5, <2>6, <2>7, <2>8 DEF OtherStep
<1>3. CASE ServerStart \/ ServerStop \/ ServerWrites
  BY <1>3 DEF ServerStart, ServerStop, ServerWrites, task
<1>4. CASE Crash
  BY <1>4 DEF Crash
<1>5. CASE UNCHANGED backupVars
  BY <1>5 DEF backupVars
<1> QED
  BY <1>1, <1>2, <1>3, <1>4, <1>5 DEF BackupsNext

(* A throw leaves nothing apart that it does not note. *)
LEMMA ThrowsBetween ==
    ASSUME BackupsTypeOK, IndexInv, NEW t \in Tasks, Throws(t), files' \subseteq files,
           files \ files' \subseteq doomed[t],
           at[t] \in {"rename", "load", "save", "pruneLoad", "prune", "pruneSave",
                     "remove", "deleteSave", "pin", "setKeep"},
           files' # files => at[t] \in {"pruneLoad", "prune", "pruneSave"}
    PROVE  BetweenTheTwo'
<1>1. /\ cut' = cut \cup (Handled(t) \cap Apart') /\ store' = store
      /\ \A u \in Tasks \ {t} : at'[u] = at[u] /\ subject'[u] = subject[u] /\ doomed'[u] = doomed[u]
  BY DEF Throws, End, BackupsTypeOK
<1>2. /\ at[t] \in {"load", "save", "prune", "pruneSave", "deleteSave", "pruneLoad"}
         => Handled(t) = {subject[t]} \cup doomed[t]
  BY DEF IndexInv, Roles, Taking, Handled
<1>3. ASSUME NEW a \in store.entries \ files'
      PROVE  \/ a \in cut'
             \/ \E u \in Tasks \ {t} : \/ at[u] = "pruneSave" /\ a \in doomed[u]
                                       \/ at[u] = "deleteSave" /\ a = subject[u]
  <2>1. CASE a \in files
    BY <1>1, <1>2, <1>3, <2>1 DEF Apart
  <2>2. CASE a \notin files
    BY <1>1, <1>2, <1>3, <2>2 DEF Apart, IndexInv, BetweenTheTwo
  <2> QED
    BY <2>1, <2>2
<1>4. ASSUME NEW a \in files' \ store.entries
      PROVE  a \in cut' \/ \E u \in Tasks \ {t} : at[u] \in {"load", "save"} /\ a = subject[u]
  BY <1>1, <1>2, <1>4 DEF Apart, IndexInv, BetweenTheTwo
<1> QED
  BY <1>1, <1>3, <1>4 DEF BetweenTheTwo

LEMMA BetweenKept ==
    ASSUME ~IndexRaces, BackupsTypeOK, HasSubject, IndexInv, [BackupsNext]_backupVars
    PROVE  BetweenTheTwo'
<1> USE DEF disk, live, history, StepTo, End, Quiet, BackupsTypeOK, IndexInv, OneSection, CopyIsIndex,
            Numbered, Roles, OwnFiles, BetweenTheTwo, Taking, Sections
<1>1. ASSUME NEW t \in Tasks, CreateStep(t) PROVE BetweenTheTwo'
  <2>1. CASE Create(t)
    BY <2>1 DEF Create, BeginArchive
  <2>2. CASE Freeze(t) \/ Flush(t)
    BY <2>2 DEF Freeze, Flush
  <2>3. CASE Prepare(t) \/ Archive(t) \/ ArchiveFails(t) \/ Thaw(t)
    BY <2>3 DEF Prepare, Archive, ArchiveFails, Thaw
  <2>4. CASE PrepareFails(t) \/ Unwind(t)
    BY <2>4 DEF PrepareFails, Throws, Unwind
  <2>5. CASE Rename(t)
    BY <2>5 DEF Rename
  <2>6. CASE LoadForEntry(t)
    BY <2>6 DEF LoadForEntry, MayLoad
  <2>7. CASE SaveEntry(t)
    BY <2>7 DEF SaveEntry, Index
  <2>8. CASE LoadForPrune(t)
    BY <2>8 DEF LoadForPrune, MayLoad, Unpack
  <2>9. CASE PruneFiles(t)
    BY <2>9 DEF PruneFiles
  <2>10. CASE PruneSave(t)
    BY <2>10 DEF PruneSave, Unpack, Index
  <2>11. CASE EntryFails(t)
    <3>1. Throws(t) /\ files' = files /\ at[t] \in {"rename", "load", "save"}
      BY <2>11 DEF EntryFails
    <3> QED
      BY <3>1, ThrowsBetween
  <2>12. CASE PruneFails(t)
    <3>1. /\ Throws(t) /\ files' \subseteq files /\ files \ files' \subseteq doomed[t]
          /\ at[t] \in {"pruneLoad", "prune", "pruneSave"}
      BY <2>12 DEF PruneFails
    <3> QED
      BY <3>1, ThrowsBetween
  <2> QED
    BY <1>1, <2>1, <2>2, <2>3, <2>4, <2>5, <2>6, <2>7, <2>8, <2>9, <2>10, <2>11, <2>12 DEF CreateStep
<1>2. ASSUME NEW t \in Tasks, OtherStep(t) PROVE BetweenTheTwo'
  <2>1. ASSUME NEW first \in BOOLEAN, Restore(t, first) PROVE BetweenTheTwo'
    BY <2>1 DEF Restore, BeginArchive
  <2>2. CASE Extract(t)
    BY <2>2 DEF Extract
  <2>3. CASE Hashed(t)
    BY <2>3 DEF Hashed
  <2>4. CASE DeleteSave(t)
    BY <2>4 DEF DeleteSave, Index
  <2>5. CASE Pinned(t) \/ Kept(t)
    BY <2>5 DEF Pinned, Kept, Index
  <2>6. CASE Verify(t) \/ Delete(t) \/ Update(t) \/ SetKeep(t)
    BY <2>6 DEF Verify, Delete, Update, SetKeep, LoadFor, MayLoad
  <2>7. CASE DeleteFile(t)
    BY <2>7 DEF DeleteFile
  <2>8. CASE UpdateFails(t)
    <3>1. Throws(t) /\ files' = files /\ at[t] \in {"remove", "deleteSave", "pin", "setKeep"}
      BY <2>8 DEF UpdateFails
    <3> QED
      BY <3>1, ThrowsBetween
  <2> QED
    BY <1>2, <2>1, <2>2, <2>3, <2>4, <2>5, <2>6, <2>7, <2>8 DEF OtherStep
<1>3. CASE ServerStart \/ ServerStop \/ ServerWrites
  BY <1>3 DEF ServerStart, ServerStop, ServerWrites, task
<1>4. CASE Crash
  <2>1. ASSUME NEW t \in Tasks, op[t] \in {"create", "restore", "delete"}
        PROVE  \A a \in Apart : a = subject[t] \/ a \in doomed[t] => a \in cut'
    BY <1>4, <2>1 DEF Crash, Handled
  <2>2. cut \subseteq cut' /\ store' = store /\ files' = files
    BY <1>4 DEF Crash
  <2>3. ASSUME NEW a \in store.entries \ files PROVE a \in cut'
    BY <2>1, <2>2, <2>3 DEF Apart
  <2>4. ASSUME NEW a \in files \ store.entries PROVE a \in cut'
    BY <2>1, <2>2, <2>4 DEF Apart
  <2> QED
    BY <2>2, <2>3, <2>4
<1>5. CASE UNCHANGED backupVars
  BY <1>5 DEF backupVars
<1> QED
  BY <1>1, <1>2, <1>3, <1>4, <1>5 DEF BackupsNext

LEMMA IndexHolds ==
    ASSUME ~IndexRaces
    PROVE  BackupsSpec => [](TypeInv /\ IndexInv)
<1> DEFINE Inv == TypeInv /\ IndexInv
<1>1. BackupsInit => Inv
  <2>1. BackupsInit => OneSection /\ CopyIsIndex /\ Roles
    BY DEF BackupsInit, OneSection, CopyIsIndex, Roles, Sections, Taking
  <2>2. BackupsInit => Numbered /\ OwnFiles /\ BetweenTheTwo
    BY DEF BackupsInit, Numbered, OwnFiles, BetweenTheTwo, Taking, NoIndex, Index
  <2>3. BackupsInit => TypeInv
    BY InitialTypes
  <2> QED
    BY <2>1, <2>2, <2>3 DEF IndexInv
<1>2. Inv /\ [BackupsNext]_backupVars => Inv'
  <2> SUFFICES ASSUME Inv, [BackupsNext]_backupVars PROVE Inv'
    OBVIOUS
  <2>1. TypeInv'
    BY TypesKept
  <2>2. OneSection' /\ CopyIsIndex' /\ Numbered' /\ Roles' /\ OwnFiles' /\ BetweenTheTwo'
    BY SectionsKept, NumberedKept, RolesKept, OwnFilesKept, BetweenKept DEF TypeInv
  <2> QED
    BY <2>1, <2>2 DEF IndexInv
<1> QED
  BY <1>1, <1>2, PTL DEF BackupsSpec

(* Where no index update begins inside another, the index and the directory *)
(* agree whenever no job runs, however backups, restores, verifications and *)
(* deletions overlapped and whichever of them threw, and where; a throw or  *)
(* a kill excuses only the archives its operation was handling and left in  *)
(* one of the two.                                                          *)
THEOREM IndexStaysTrue == ~IndexRaces => (BackupsSpec => []IndexTrue)
<1> SUFFICES ASSUME ~IndexRaces PROVE BackupsSpec => []IndexTrue
  OBVIOUS
<1>1. TypeInv /\ IndexInv => IndexTrue
  BY DEF IndexInv, BetweenTheTwo, IndexTrue, Apart
<1> QED
  BY <1>1, IndexHolds, PTL

LEMMA FilesSpared ==
    ASSUME TypeInv, IndexInv, [BackupsNext]_backupVars, NEW a \in files \ files'
    PROVE  a \in asked \/ a \in PastKeep(store)
<1> USE DEF disk, TypeInv, BackupsTypeOK, IndexInv, OwnFiles
<1>1. ASSUME NEW t \in Tasks, CreateStep(t) PROVE a \in PastKeep(store)
  <2>1. CASE PruneFiles(t) \/ PruneFails(t)
    BY <2>1 DEF PruneFiles, PruneFails
  <2>2. CASE Rename(t)
    BY <2>2 DEF Rename
  <2>3. CASE Create(t) \/ Freeze(t) \/ Flush(t) \/ Prepare(t) \/ PrepareFails(t) \/ EntryFails(t)
    BY <2>3 DEF Create, Freeze, Flush, Prepare, PrepareFails, EntryFails
  <2>4. CASE Archive(t) \/ ArchiveFails(t) \/ Thaw(t) \/ Unwind(t)
    BY <2>4 DEF Archive, ArchiveFails, Thaw, Unwind
  <2>5. CASE LoadForEntry(t) \/ SaveEntry(t) \/ LoadForPrune(t) \/ PruneSave(t)
    BY <2>5 DEF LoadForEntry, SaveEntry, LoadForPrune, PruneSave
  <2> QED
    BY <1>1, <2>1, <2>2, <2>3, <2>4, <2>5 DEF CreateStep
<1>2. ASSUME NEW t \in Tasks, OtherStep(t) PROVE a \in asked
  <2>1. ASSUME NEW first \in BOOLEAN, Restore(t, first) PROVE FALSE
    BY <2>1 DEF Restore
  <2>2. CASE Extract(t) \/ Hashed(t) \/ DeleteSave(t) \/ Pinned(t) \/ Kept(t) \/ UpdateFails(t)
    BY <2>2 DEF Extract, Hashed, DeleteSave, Pinned, Kept, UpdateFails, Throws, Forget
  <2>3. CASE Verify(t) \/ Delete(t) \/ Update(t) \/ SetKeep(t)
    BY <2>3 DEF Verify, Delete, Update, SetKeep, LoadFor
  <2>4. CASE DeleteFile(t)
    BY <2>4 DEF DeleteFile
  <2> QED
    BY <1>2, <2>1, <2>2, <2>3, <2>4 DEF OtherStep
<1>3. CASE ServerStart \/ ServerStop \/ ServerWrites \/ Crash \/ UNCHANGED backupVars
  BY <1>3 DEF ServerStart, ServerStop, ServerWrites, Crash, backupVars
<1> QED
  BY <1>1, <1>2, <1>3 DEF BackupsNext

(* Where no index update begins inside another, an archive goes away only   *)
(* because the operator deleted it, or because it is unpinned and as many    *)
(* newer unpinned ones as are kept exist at that very step: what retention   *)
(* found when it loaded the index still holds when it removes the files.     *)
THEOREM RetentionIsSparing == ~IndexRaces => (BackupsSpec => RetentionSpares)
<1> SUFFICES ASSUME ~IndexRaces PROVE BackupsSpec => RetentionSpares
  OBVIOUS
<1> DEFINE Spared == \A a \in files \ files' :
                       \/ a \in asked
                       \/ /\ a \notin store.pinned
                          /\ Cardinality({b \in store.entries \ store.pinned : b > a}) >= store.keep
<1>1. TypeInv /\ IndexInv /\ [BackupsNext]_backupVars => [Spared]_backupVars
  <2> SUFFICES ASSUME TypeInv, IndexInv, [BackupsNext]_backupVars, NEW a \in files \ files'
               PROVE  \/ a \in asked
                      \/ /\ a \notin store.pinned
                         /\ Cardinality({b \in store.entries \ store.pinned : b > a}) >= store.keep
    OBVIOUS
  <2> QED
    BY FilesSpared DEF PastKeep
<1> QED
  BY <1>1, IndexHolds, PTL DEF BackupsSpec, RetentionSpares
=============================================================================
