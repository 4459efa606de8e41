------------------------------- MODULE Backups -------------------------------
(***************************************************************************)
(* The world backups of one instance (core/backups.ts): the archives in     *)
(* its backup directory, the index backups.json that describes them, and    *)
(* the operations that run over both as jobs, any number at a time.  Every  *)
(* operation loads the whole index, changes its copy and writes it back;    *)
(* taking a backup freezes the saving of a live server for as long as the   *)
(* archive is written.                                                      *)
(*                                                                         *)
(* An archive is the number of its creation, which is also the order        *)
(* retention sorts by.  The daemon may be killed between any two steps;     *)
(* the server, a session of its own, survives it.                           *)
(***************************************************************************)
EXTENDS Naturals, FiniteSets

CONSTANTS
    Tasks,         \* jobs that may run at the same time
    MaxBackups,    \* bound: archives ever taken
    Keeps,         \* retention counts the operator may set
    FirstKeep,     \* the retention in force at first
    IndexRaces,    \* whether one index update may begin inside another
    MaxFaults      \* bound: whatever throws, and kills

ASSUME BackupsConstants ==
    /\ MaxBackups \in Nat
    /\ Keeps \subseteq Nat \ {0}
    /\ FirstKeep \in Nat \ {0}
    /\ IndexRaces \in BOOLEAN
    /\ MaxFaults \in Nat

Archives == 1..MaxBackups
None == 0

VARIABLES
    store,    \* backups.json: the entries, the pinned ones, the keep count
    files,    \* the archives in the backup directory
    game,     \* "off" or "up"
    saving,   \* whether the server writes its world (save-on)
    next,     \* how many archives have been begun
    op,       \* per task, the operation
    at,       \* per task, its next step
    subject,  \* per task, the archive it takes, verifies, pins or deletes
    picked,   \* per task, the archive a restore puts back
    froze,    \* per task, whether it froze the server
    snap,     \* per task, its copy of the index
    doomed,   \* per task, the archives retention drops
    faults,
    \* history
    warned,   \* tasks whose entry will warn of an unconfirmed freeze
    torn,     \* tasks whose archive caught the server writing
    disturbed,\* tasks under which somebody else let the server write
    asked,    \* archives the operator had deleted
    cut,      \* archives that a throw or a kill left apart from the index
    stranded  \* who left the server frozen: "no" (nobody), "killed", "refused"

disk == <<store, files>>
live == <<game, saving>>
task == <<op, at, subject, picked, froze, snap, doomed>>
history == <<warned, torn, disturbed, asked, cut, stranded>>
backupVars == <<store, files, game, saving, next, op, at, subject, picked, froze,
                snap, doomed, faults, warned, torn, disturbed, asked, cut, stranded>>

Stores == [entries : SUBSET Archives, pinned : SUBSET Archives, keep : Keeps \cup {FirstKeep}]

Index(entries, pinned, keep) == [entries |-> entries, pinned |-> pinned, keep |-> keep]

(* The index of a machine that has none yet. *)
NoIndex == Index({}, {}, FirstKeep)

(* The steps between loading the index and writing it back. *)
Sections == {"save", "prune", "pruneSave", "hash", "remove", "pin", "setKeep", "deleteSave"}

(* The steps a live server should not write in. *)
Quiet == {"flush", "prepare", "archive"}

BackupsTypeOK ==
    /\ store \in Stores
    /\ files \subseteq Archives
    /\ game \in {"off", "up"}
    /\ saving \in BOOLEAN
    /\ next \in 0..MaxBackups
    /\ op \in [Tasks -> {"none", "create", "restore", "verify", "delete", "pin", "keep"}]
    /\ at \in [Tasks -> Sections \cup Quiet \cup
                        {"idle", "freeze", "thaw", "unwind", "rename", "load", "pruneLoad", "extract"}]
    /\ subject \in [Tasks -> Archives \cup {None}]
    /\ picked \in [Tasks -> Archives \cup {None}]
    /\ froze \in [Tasks -> BOOLEAN]
    /\ snap \in [Tasks -> Stores]
    /\ doomed \in [Tasks -> SUBSET Archives]
    /\ faults \in 0..MaxFaults
    /\ warned \cup torn \cup disturbed \subseteq Tasks
    /\ asked \cup cut \subseteq Archives
    /\ stranded \in {"no", "killed", "refused"}

BackupsInit ==
    /\ store = NoIndex
    /\ files = {}
    /\ game = "off"
    /\ saving = TRUE
    /\ next = 0
    /\ op = [t \in Tasks |-> "none"]
    /\ at = [t \in Tasks |-> "idle"]
    /\ subject = [t \in Tasks |-> None]
    /\ picked = [t \in Tasks |-> None]
    /\ froze = [t \in Tasks |-> FALSE]
    /\ snap = [t \in Tasks |-> NoIndex]
    /\ doomed = [t \in Tasks |-> {}]
    /\ faults = 0
    /\ warned = {} /\ torn = {} /\ disturbed = {} /\ asked = {} /\ cut = {}
    /\ stranded = "no"

StepTo(t, step) == at' = [at EXCEPT ![t] = step]

(* The task is over; what it held locally is gone. *)
End(t) ==
    /\ at' = [at EXCEPT ![t] = "idle"]
    /\ op' = [op EXCEPT ![t] = "none"]
    /\ subject' = [subject EXCEPT ![t] = None]
    /\ picked' = [picked EXCEPT ![t] = None]
    /\ froze' = [froze EXCEPT ![t] = FALSE]
    /\ snap' = [snap EXCEPT ![t] = NoIndex]
    /\ doomed' = [doomed EXCEPT ![t] = {}]

(* A restore has its safety copy and goes on to the archive it puts back. *)
Unpack(t) ==
    /\ at' = [at EXCEPT ![t] = "extract"]
    /\ snap' = [snap EXCEPT ![t] = NoIndex]
    /\ doomed' = [doomed EXCEPT ![t] = {}]
    /\ UNCHANGED <<op, subject, picked, froze>>

(* The history of an archive ends with it. *)
Forget(t) == warned' = warned \ {t} /\ torn' = torn \ {t} /\ disturbed' = disturbed \ {t}

Fault == faults < MaxFaults /\ faults' = faults + 1

(* Archives of which index and directory do not agree, and those that a     *)
(* task was to bring into both or out of both.                              *)
Apart == (store.entries \ files) \cup (files \ store.entries)
Handled(t) ==
    IF op[t] \in {"create", "restore", "delete"} THEN {subject[t]} \cup doomed[t] ELSE {}

(* What an operation has done so far stays done when it throws. *)
Throws(t) ==
    /\ Fault
    /\ End(t)
    /\ Forget(t)
    /\ UNCHANGED <<store, live, next, asked>>
    /\ cut' = cut \cup (Handled(t) \cap Apart')

(* Whether an index update may begin: nothing in the code holds others off. *)
MayLoad(t) == IndexRaces \/ \A u \in Tasks \ {t} : at[u] \notin Sections

-----------------------------------------------------------------------------
(* createBackup, also the safety copy of a restore *)

(* The moment of creation, and whether there is a server to freeze. *)
BeginArchive(t) ==
    /\ next < MaxBackups
    /\ next' = next + 1
    /\ subject' = [subject EXCEPT ![t] = next + 1]
    /\ froze' = [froze EXCEPT ![t] = game = "up"]
    /\ StepTo(t, IF game = "up" THEN "freeze" ELSE "prepare")

Create(t) ==
    /\ at[t] = "idle"
    /\ op' = [op EXCEPT ![t] = "create"]
    /\ BeginArchive(t)
    /\ UNCHANGED <<disk, live, picked, snap, doomed, faults, history>>

(* freeze: save-off; without a session there is nothing to freeze. *)
Freeze(t) ==
    /\ at[t] = "freeze"
    /\ IF game = "up"
       THEN saving' = FALSE /\ StepTo(t, "flush") /\ UNCHANGED warned
       ELSE warned' = warned \cup {t} /\ StepTo(t, "prepare") /\ UNCHANGED saving
    /\ UNCHANGED <<disk, game, next, op, subject, picked, froze, snap, doomed, faults,
                   torn, disturbed, asked, cut, stranded>>

\* Running out of time leaves no warning.
BugFlushUnwarned(t) ==
    /\ at[t] = "flush"
    /\ \/ UNCHANGED torn
       \/ game = "up" /\ torn' = torn \cup {t}
    /\ StepTo(t, "prepare")
    /\ UNCHANGED <<disk, live, next, op, subject, picked, froze, snap, doomed, faults,
                   warned, disturbed, asked, cut, stranded>>

(* The wait for the log to confirm the flush: confirmed, or out of time, in *)
(* which case the server may still be writing into the archive.             *)
Flush(t) ==
    /\ at[t] = "flush"
    /\ \/ UNCHANGED <<warned, torn>>
       \/ /\ warned' = warned \cup {t}
          /\ torn' \in {torn, torn \cup {t}}
    /\ StepTo(t, "prepare")
    /\ UNCHANGED <<disk, live, next, op, subject, picked, froze, snap, doomed, faults,
                   disturbed, asked, cut, stranded>>

(* mkdir of the directory and rm of a stale .part. *)
Prepare(t) ==
    /\ at[t] = "prepare"
    /\ StepTo(t, "archive")
    /\ UNCHANGED <<disk, live, next, op, subject, picked, froze, snap, doomed, faults, history>>

(* They run before the try, as the console commands do: what throws there   *)
(* leaves without the thaw.                                                 *)
PrepareFails(t) ==
    /\ at[t] \in {"freeze", "flush", "prepare"}
    /\ UNCHANGED files
    /\ Throws(t)
    /\ stranded' = IF froze[t] /\ at[t] # "freeze" /\ game = "up" /\ ~saving THEN "refused" ELSE stranded

(* createArchive has written the .part; the finally comes next. *)
Archive(t) ==
    /\ at[t] = "archive"
    /\ StepTo(t, "thaw")
    /\ UNCHANGED <<disk, live, next, op, subject, picked, froze, snap, doomed, faults, history>>

\* A failed archive ends the operation at once.
BugArchiveFailsFrozen(t) ==
    /\ at[t] = "archive"
    /\ UNCHANGED <<files, stranded>>
    /\ Throws(t)

(* A throw inside createArchive; the .part is removed. *)
ArchiveFails(t) ==
    /\ at[t] = "archive"
    /\ Fault
    /\ StepTo(t, "unwind")
    /\ UNCHANGED <<disk, live, next, op, subject, picked, froze, snap, doomed, history>>

(* The other tasks that count on the server not to write. *)
Overlapping(t) == {u \in Tasks \ {t} : at[u] \in Quiet}

(* thaw: save-on, whoever else still counts on the freeze. *)
SaveOn(t) ==
    /\ saving' = (saving \/ froze[t])
    /\ stranded' = IF froze[t] THEN "no" ELSE stranded

Uncovered(t) == IF froze[t] /\ game = "up" THEN Overlapping(t) ELSE {}

Thaw(t) ==
    /\ at[t] = "thaw"
    /\ SaveOn(t)
    /\ disturbed' = disturbed \cup Uncovered(t)
    /\ froze' = [froze EXCEPT ![t] = FALSE]
    /\ StepTo(t, "rename")
    /\ UNCHANGED <<disk, game, next, op, subject, picked, snap, doomed, faults,
                   warned, torn, asked, cut>>

(* The finally of a failed archive thaws as well, and the throw goes on. *)
Unwind(t) ==
    /\ at[t] = "unwind"
    /\ SaveOn(t)
    /\ warned' = warned \ {t} /\ torn' = torn \ {t}
    /\ disturbed' = (disturbed \cup Uncovered(t)) \ {t}
    /\ End(t)
    /\ UNCHANGED <<disk, game, next, faults, asked, cut>>

(* The .part becomes the archive. *)
Rename(t) ==
    /\ at[t] = "rename"
    /\ files' = files \cup {subject[t]}
    /\ StepTo(t, "load")
    /\ Forget(t)
    /\ UNCHANGED <<store, live, next, op, subject, picked, froze, snap, doomed, faults,
                   asked, cut, stranded>>

(* The index is loaded again, after the archive has been written. *)
LoadForEntry(t) ==
    /\ at[t] = "load"
    /\ MayLoad(t)
    /\ snap' = [snap EXCEPT ![t] = store]
    /\ StepTo(t, "save")
    /\ UNCHANGED <<disk, live, next, op, subject, picked, froze, doomed, faults, history>>

SaveEntry(t) ==
    /\ at[t] = "save"
    /\ store' = Index(snap[t].entries \cup {subject[t]}, snap[t].pinned, snap[t].keep)
    /\ snap' = [snap EXCEPT ![t] = NoIndex]
    /\ StepTo(t, "pruneLoad")
    /\ UNCHANGED <<files, live, next, op, subject, picked, froze, doomed, faults, history>>

(* The rename, the load or the save throws: an archive that was renamed is  *)
(* in no index.                                                             *)
EntryFails(t) ==
    /\ at[t] \in {"rename", "load", "save"}
    /\ UNCHANGED <<files, stranded>>
    /\ Throws(t)

\* Pinned backups count toward the limit.
BugPastKeep(s) ==
    {a \in s.entries \ s.pinned : Cardinality({b \in s.entries : b > a}) >= s.keep}

(* The unpinned entries past the keep count, oldest first out. *)
PastKeep(s) ==
    {a \in s.entries \ s.pinned : Cardinality({b \in s.entries \ s.pinned : b > a}) >= s.keep}

(* pruneBackups: a fresh copy of the index says what is doomed.  A restore's *)
(* safety copy goes on to the restore when nothing is.                       *)
LoadForPrune(t) ==
    /\ at[t] = "pruneLoad"
    /\ MayLoad(t)
    /\ IF PastKeep(store) = {}
       THEN IF op[t] = "restore" THEN Unpack(t) ELSE End(t)
       ELSE /\ snap' = [snap EXCEPT ![t] = store]
            /\ doomed' = [doomed EXCEPT ![t] = PastKeep(store)]
            /\ StepTo(t, "prune")
            /\ UNCHANGED <<op, subject, picked, froze>>
    /\ UNCHANGED <<disk, live, next, faults, history>>

PruneFiles(t) ==
    /\ at[t] = "prune"
    /\ files' = files \ doomed[t]
    /\ StepTo(t, "pruneSave")
    /\ UNCHANGED <<store, live, next, op, subject, picked, froze, snap, doomed, faults, history>>

PruneSave(t) ==
    /\ at[t] = "pruneSave"
    /\ store' = Index(snap[t].entries \ doomed[t], snap[t].pinned \ doomed[t], snap[t].keep)
    /\ IF op[t] = "restore" THEN Unpack(t) ELSE End(t)
    /\ UNCHANGED <<files, live, next, faults, history>>

(* The load, a removal or the save throws: what was removed is still listed. *)
PruneFails(t) ==
    /\ at[t] \in {"pruneLoad", "prune", "pruneSave"}
    /\ \E gone \in SUBSET doomed[t] : files' = IF at[t] = "prune" THEN files \ gone ELSE files
    /\ Throws(t)
    /\ UNCHANGED stranded

-----------------------------------------------------------------------------
(* restoreBackup *)

(* The entry and its archive must be there; the safety copy comes first.   *)
(* The route checks that the server is stopped.                             *)
Restore(t, backupFirst) ==
    /\ at[t] = "idle"
    /\ game = "off"
    /\ \E a \in store.entries \cap files :
        /\ picked' = [picked EXCEPT ![t] = a]
        /\ op' = [op EXCEPT ![t] = "restore"]
    /\ IF backupFirst
       THEN BeginArchive(t)
       ELSE StepTo(t, "extract") /\ UNCHANGED <<next, subject, froze>>
    /\ UNCHANGED <<disk, live, snap, doomed, faults, history>>

(* The archive is listed, unpacked and exchanged for the world, or the      *)
(* restore throws because it is no longer there.                            *)
Extract(t) ==
    /\ at[t] = "extract"
    /\ End(t)
    /\ UNCHANGED <<disk, live, next, faults, history>>

-----------------------------------------------------------------------------
(* The other operations: each loads the index, changes it and saves it *)

LoadFor(t, kind, a, step) ==
    /\ at[t] = "idle"
    /\ MayLoad(t)
    /\ op' = [op EXCEPT ![t] = kind]
    /\ subject' = [subject EXCEPT ![t] = a]
    /\ snap' = [snap EXCEPT ![t] = store]
    /\ StepTo(t, step)
    /\ UNCHANGED <<disk, live, next, picked, froze, doomed, faults>>

(* verifyBackup: the archive is hashed while the copy ages. *)
Verify(t) ==
    \E a \in store.entries \cap files :
        LoadFor(t, "verify", a, "hash") /\ UNCHANGED history

(* The copy is written back whole; a mismatch throws and writes nothing. *)
Hashed(t) ==
    /\ at[t] = "hash"
    /\ store' \in {snap[t], store}
    /\ End(t)
    /\ UNCHANGED <<files, live, next, faults, history>>

(* deleteBackup: the archive goes first, the entry after it. *)
Delete(t) ==
    \E a \in store.entries :
        /\ LoadFor(t, "delete", a, "remove")
        /\ asked' = asked \cup {a}
        /\ UNCHANGED <<warned, torn, disturbed, cut, stranded>>

\* Only the entry is deleted.
BugDeleteFileKeeps(t) ==
    /\ at[t] = "remove"
    /\ StepTo(t, "deleteSave")
    /\ UNCHANGED <<disk, live, next, op, subject, picked, froze, snap, doomed, faults, history>>

DeleteFile(t) ==
    /\ at[t] = "remove"
    /\ files' = files \ {subject[t]}
    /\ StepTo(t, "deleteSave")
    /\ UNCHANGED <<store, live, next, op, subject, picked, froze, snap, doomed, faults, history>>

DeleteSave(t) ==
    /\ at[t] = "deleteSave"
    /\ store' = Index(snap[t].entries \ {subject[t]}, snap[t].pinned \ {subject[t]}, snap[t].keep)
    /\ End(t)
    /\ UNCHANGED <<files, live, next, faults, history>>

(* The removal, or any save of an update, throws. *)
UpdateFails(t) ==
    /\ at[t] \in {"remove", "deleteSave", "pin", "setKeep"}
    /\ UNCHANGED <<files, stranded>>
    /\ Throws(t)

(* updateBackup: an entry is pinned or unpinned. *)
Update(t) ==
    \E a \in store.entries : LoadFor(t, "pin", a, "pin") /\ UNCHANGED history

Pinned(t) ==
    /\ at[t] = "pin"
    /\ \E pinned \in {snap[t].pinned \cup {subject[t]}, snap[t].pinned \ {subject[t]}} :
         store' = Index(snap[t].entries, pinned, snap[t].keep)
    /\ End(t)
    /\ UNCHANGED <<files, live, next, faults, history>>

(* setKeepCount: at least one; it drops nothing by itself. *)
SetKeep(t) == LoadFor(t, "keep", None, "setKeep") /\ UNCHANGED history

Kept(t) ==
    /\ at[t] = "setKeep"
    /\ \E keep \in Keeps : store' = Index(snap[t].entries, snap[t].pinned, keep)
    /\ End(t)
    /\ UNCHANGED <<files, live, next, faults, history>>

-----------------------------------------------------------------------------
(* The server and the daemon *)

(* A server that starts saves its world, whatever was said before. *)
ServerStart ==
    /\ game = "off"
    /\ game' = "up"
    /\ saving' = TRUE
    /\ stranded' = "no"
    /\ disturbed' = disturbed \cup {u \in Tasks : at[u] \in Quiet}
    /\ UNCHANGED <<disk, next, task, faults, warned, torn, asked, cut>>

ServerStop ==
    /\ game = "up"
    /\ game' = "off"
    /\ saving' = TRUE
    /\ stranded' = "no"
    /\ UNCHANGED <<disk, next, task, faults, warned, torn, disturbed, asked, cut>>

(* The server rewrites region files in place: every archive under way may   *)
(* catch half a chunk.                                                       *)
ServerWrites ==
    /\ game = "up" /\ saving
    /\ torn' = torn \cup {u \in Tasks : at[u] = "archive"}
    /\ torn' # torn
    /\ UNCHANGED <<disk, live, next, task, faults, warned, disturbed, asked, cut, stranded>>

(* The daemon is killed: every job is gone, and nobody thaws the server. *)
Crash ==
    /\ Fault
    /\ cut' = cut \cup (Apart \cap UNION {Handled(t) : t \in Tasks})
    /\ stranded' = IF game = "up" /\ ~saving /\ stranded = "no" THEN "killed" ELSE stranded
    /\ op' = [t \in Tasks |-> "none"]
    /\ at' = [t \in Tasks |-> "idle"]
    /\ subject' = [t \in Tasks |-> None]
    /\ picked' = [t \in Tasks |-> None]
    /\ froze' = [t \in Tasks |-> FALSE]
    /\ snap' = [t \in Tasks |-> NoIndex]
    /\ doomed' = [t \in Tasks |-> {}]
    /\ warned' = {} /\ torn' = {} /\ disturbed' = {}
    /\ UNCHANGED <<disk, live, next, asked>>

CreateStep(t) ==
    \/ Create(t) \/ Freeze(t) \/ Flush(t) \/ Prepare(t) \/ PrepareFails(t)
    \/ Archive(t) \/ ArchiveFails(t) \/ Thaw(t) \/ Unwind(t) \/ Rename(t)
    \/ LoadForEntry(t) \/ SaveEntry(t) \/ EntryFails(t)
    \/ LoadForPrune(t) \/ PruneFiles(t) \/ PruneSave(t) \/ PruneFails(t)

OtherStep(t) ==
    \/ \E first \in BOOLEAN : Restore(t, first)
    \/ Extract(t)
    \/ Verify(t) \/ Hashed(t)
    \/ Delete(t) \/ DeleteFile(t) \/ DeleteSave(t)
    \/ Update(t) \/ Pinned(t)
    \/ SetKeep(t) \/ Kept(t) \/ UpdateFails(t)

BackupsNext ==
    \/ \E t \in Tasks : CreateStep(t) \/ OtherStep(t)
    \/ ServerStart \/ ServerStop \/ ServerWrites
    \/ Crash

BackupsSpec == BackupsInit /\ [][BackupsNext]_backupVars

-----------------------------------------------------------------------------
(* Properties *)

(* When no job runs, the index and the directory agree, except on archives  *)
(* an operation was taking, dropping or deleting when it threw or the       *)
(* daemon was killed, and left in one of the two (backupDrift).             *)
IndexTrue == (\A t \in Tasks : at[t] = "idle") => Apart \subseteq cut

(* An archive goes away only because the operator deleted it, or because it *)
(* is not pinned and as many newer unpinned entries as are kept exist: a    *)
(* failed or overlapping operation never costs the operator a good one.     *)
(* The backup a restore has picked is no exception: where it is the oldest  *)
(* of a full set, the restore's own safety copy pushes it out.              *)
RetentionSpares ==
    [][\A a \in files \ files' :
         \/ a \in asked
         \/ /\ a \notin store.pinned
            /\ Cardinality({b \in store.entries \ store.pinned : b > a}) >= store.keep]_backupVars

(* An archive that caught the server writing says so in its warnings,       *)
(* unless somebody else let the server write under it: another archive's    *)
(* thaw, or a start of the server.                                          *)
TornIsWarned == \A t \in torn : at[t] = "rename" => t \in warned \cup disturbed

(* "a torn hot backup says so here" (BackupEntry.warnings), whoever let the *)
(* server write.  It does not hold.                                         *)
TornSaysSo == \A t \in torn : at[t] = "thaw" /\ froze[t] => t \in warned

(* A server that does not save is being backed up, or was when the daemon   *)
(* was killed or when something threw between its freeze and the try: every *)
(* other path thaws it.                                                     *)
ThawedAfterwards ==
    game = "up" /\ ~saving => stranded # "no" \/ \E t \in Tasks : froze[t] /\ at[t] # "idle"

(* "thawed afterwards whatever happens" (createBackup), "Called on every    *)
(* path, including failure" (thaw): only a kill leaves it frozen.  It does  *)
(* not hold.                                                                *)
ThawedWhateverHappens ==
    game = "up" /\ ~saving => stranded = "killed" \/ \E t \in Tasks : froze[t] /\ at[t] # "idle"
=============================================================================
