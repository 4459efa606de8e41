------------------------------ MODULE StateSync ------------------------------
(***************************************************************************)
(* How a follower's copy of the cluster's state files is kept: the sync    *)
(* frames of daemon/hub.ts, their application and the save-through hook of *)
(* daemon/follower.ts, the bookkeeping of registrations in cluster.json.   *)
(*                                                                         *)
(* The primary is the single writer.  Every change of a file arms a        *)
(* debounce timer; when it fires the files are read one by one and sent as *)
(* one frame, and a registration is answered with such a frame of its own. *)
(* A follower writes a frame file by file, and sends what it saves itself  *)
(* up to the primary, which writes it verbatim.  A file is the set of the  *)
(* edits it contains.                                                      *)
(***************************************************************************)
EXTENDS Naturals, Sequences

CONSTANTS
    FileCount,      \* state files, in the order of SYNC_FILES; 1 is cluster.json
    PrimaryEdits,   \* edits made through the primary, each made once
    FollowerEdits,  \* edits made through the follower
    Disciplines,    \* the sets of overlaps an execution may allow: see overlaps
    MaxLinks        \* bound: registrations of the follower

Files == 1..FileCount
Cluster == 1
Edits == PrimaryEdits \cup FollowerEdits
Stamps == {"registration", "lastSeen"}
Readers == {"broadcast", "register"}
OverlapKinds == {"edits", "payloads", "applies"}

ASSUME SyncConstants ==
    /\ FileCount \in Nat \ {0}
    /\ PrimaryEdits \cap FollowerEdits = {}
    /\ Edits \cap Stamps = {}
    /\ Disciplines \subseteq SUBSET OverlapKinds
    /\ MaxLinks \in Nat

VARIABLES
    \* the primary
    disk,        \* the state files
    dirty,       \* whether the debounce timer is armed
    reading,     \* per reader, the files its payload has so far; <<>> is idle
    quarantined, \* whether the follower speaks another protocol
    \* the follower
    mirror,      \* its copies
    applying,    \* sync frames being written, with the file that comes next
    \* both
    pc,          \* where each edit and each stamp has got to
    draft,       \* the file and contents it loaded
    linked,      \* whether the link is up
    frames,      \* sync frames on their way
    saves,       \* save frames on their way
    links,       \* registrations so far
    overlaps     \* what may overlap here: see CanLoad, StartRead and Receive

syncVars == <<overlaps, disk, dirty, reading, quarantined, mirror, applying, pc, draft, linked, frames, saves, links>>

Content == SUBSET Edits
Payloads == {p \in Seq(Content) : Len(p) = FileCount}
Drafts == [file : Files, data : Content]
NoDraft == [file |-> Cluster, data |-> {}]

SyncTypeOK ==
    /\ disk \in [Files -> Content]
    /\ dirty \in BOOLEAN
    /\ reading \in [Readers -> Seq(Content)]
    /\ \A r \in Readers : Len(reading[r]) <= FileCount
    /\ quarantined \in BOOLEAN
    /\ mirror \in [Files -> Content]
    /\ \A a \in applying : a.files \in Payloads /\ a.next \in Files
    /\ pc \in [Edits \cup Stamps -> {"idle", "due", "loaded", "sent", "stamped", "done"}]
    /\ draft \in [Edits \cup Stamps -> Drafts]
    /\ linked \in BOOLEAN
    /\ \A i \in 1..Len(frames) : frames[i] \in Payloads
    /\ \A i \in 1..Len(saves) : saves[i] \in FollowerEdits
    /\ links \in 0..MaxLinks
    /\ overlaps \in Disciplines

SyncInit ==
    /\ disk = [f \in Files |-> {}]
    /\ dirty = FALSE
    /\ reading = [r \in Readers |-> <<>>]
    /\ quarantined = FALSE
    /\ mirror = [f \in Files |-> {}]
    /\ applying = {}
    /\ pc = [e \in Edits \cup Stamps |-> "idle"]
    /\ draft = [e \in Edits \cup Stamps |-> NoDraft]
    /\ linked = FALSE
    /\ frames = <<>> /\ saves = <<>>
    /\ links = 0
    /\ overlaps \in Disciplines

-----------------------------------------------------------------------------
(* Edits *)

(* Nobody is between loading a file and the primary's write of it. *)
NobodyEdits ==
    \A e \in Edits \cup Stamps : pc[e] \notin {"due", "loaded", "sent"}

(* Nothing keeps two edits apart.  Without "edits" in overlaps they are far  *)
(* enough apart in time, and a follower edits a copy that is up to date.     *)
CanLoad(e, f) ==
    \/ "edits" \in overlaps
    \/ NobodyEdits /\ (e \in FollowerEdits => mirror[f] = disk[f])

Source(e) == IF e \in FollowerEdits THEN mirror ELSE disk

(* loadCluster, loadEnv, ...: an operation reads the file it will change. *)
Load(e) ==
    /\ pc[e] = "idle"
    /\ \E f \in Files :
        /\ CanLoad(e, f)
        /\ draft' = [draft EXCEPT ![e] = [file |-> f, data |-> Source(e)[f]]]
    /\ pc' = [pc EXCEPT ![e] = "loaded"]
    /\ UNCHANGED <<overlaps, disk, dirty, reading, quarantined, mirror, applying, linked, frames, saves, links>>

(* A write of a state file: the watcher arms the debounce timer. *)
Write(f, data) ==
    /\ disk' = [disk EXCEPT ![f] = data]
    /\ dirty' = TRUE

(* saveCluster, saveEnv, ... on the primary. *)
SavePrimary(e) ==
    /\ e \in PrimaryEdits /\ pc[e] = "loaded"
    /\ Write(draft[e].file, draft[e].data \cup {e})
    /\ pc' = [pc EXCEPT ![e] = "done"]
    /\ draft' = [draft EXCEPT ![e] = NoDraft]
    /\ UNCHANGED <<overlaps, reading, quarantined, mirror, applying, linked, frames, saves, links>>

\* Mutant: the local copy is saved and the primary is not told.
BugSaveFollowerLocal(e) ==
    /\ e \in FollowerEdits /\ pc[e] = "loaded"
    /\ mirror' = [mirror EXCEPT ![draft[e].file] = draft[e].data \cup {e}]
    /\ pc' = [pc EXCEPT ![e] = "done"]
    /\ UNCHANGED <<overlaps, disk, dirty, reading, quarantined, applying, draft, linked, frames, saves, links>>

(* ... on the follower: the local copy, then the save hook, whose frame is   *)
(* dropped when no socket is open.                                           *)
SaveFollower(e) ==
    /\ e \in FollowerEdits /\ pc[e] = "loaded"
    /\ LET saved == [draft[e] EXCEPT !.data = @ \cup {e}] IN
        /\ mirror' = [mirror EXCEPT ![saved.file] = saved.data]
        /\ draft' = [draft EXCEPT ![e] = IF linked THEN saved ELSE NoDraft]
    /\ pc' = [pc EXCEPT ![e] = IF linked THEN "sent" ELSE "done"]
    /\ saves' = IF linked THEN Append(saves, e) ELSE saves
    /\ UNCHANGED <<overlaps, disk, dirty, reading, quarantined, applying, linked, frames, links>>

(* "save": the primary writes what the follower holds, whole. *)
OnSave ==
    /\ linked /\ saves # <<>>
    /\ LET e == Head(saves) IN
        /\ Write(draft[e].file, draft[e].data)
        /\ pc' = [pc EXCEPT ![e] = "done"]
        /\ draft' = [draft EXCEPT ![e] = NoDraft]
    /\ saves' = Tail(saves)
    /\ UNCHANGED <<overlaps, reading, quarantined, mirror, applying, linked, frames, links>>

-----------------------------------------------------------------------------
(* The link and the bookkeeping in cluster.json *)

(* "register": the follower is in the map before its registration is        *)
(* written; one of another protocol is kept, in quarantine.                 *)
Connect ==
    /\ ~linked
    /\ links < MaxLinks
    /\ links' = links + 1
    /\ pc["registration"] = "idle"
    /\ "edits" \in overlaps \/ NobodyEdits
    /\ linked' = TRUE
    /\ quarantined' \in BOOLEAN
    /\ pc' = [pc EXCEPT !["registration"] = "due"]
    /\ UNCHANGED <<overlaps, disk, dirty, reading, mirror, applying, draft, frames, saves>>

(* The link is lost with what it carries; close stamps the last-seen time.  *)
(* What a reader still prepares for this link goes nowhere.                 *)
Drop ==
    /\ linked
    /\ pc["lastSeen"] = "idle"
    /\ "edits" \in overlaps \/ \A e \in PrimaryEdits \cup Stamps : pc[e] \notin {"due", "loaded"}
    /\ linked' = FALSE
    /\ frames' = <<>> /\ saves' = <<>>
    /\ reading' = [reading EXCEPT !["register"] = <<>>]
    /\ pc' = [e \in Edits \cup Stamps |->
                IF e = "lastSeen" THEN "due"
                ELSE IF pc[e] = "sent" THEN "done"
                ELSE IF pc[e] = "stamped" THEN "idle"
                ELSE pc[e]]
    /\ draft' = [e \in Edits \cup Stamps |-> IF pc[e] = "sent" THEN NoDraft ELSE draft[e]]
    /\ UNCHANGED <<overlaps, disk, dirty, quarantined, mirror, applying, links>>

\* Mutant: the stamp goes on a copy loaded when the daemon started.
BugLoadStampCached(s) ==
    /\ pc[s] = "due"
    /\ pc' = [pc EXCEPT ![s] = "loaded"]
    /\ UNCHANGED <<overlaps, disk, dirty, reading, quarantined, mirror, applying, draft, linked, frames, saves, links>>

(* persistRegistration and persistLastSeen: cluster.json is loaded ... *)
LoadStamp(s) ==
    /\ pc[s] = "due"
    /\ pc' = [pc EXCEPT ![s] = "loaded"]
    /\ draft' = [draft EXCEPT ![s] = [file |-> Cluster, data |-> disk[Cluster]]]
    /\ UNCHANGED <<overlaps, disk, dirty, reading, quarantined, mirror, applying, linked, frames, saves, links>>

(* ... and saved, an await later; a registration's sync is then owed, unless *)
(* the follower is in quarantine or gone.                                    *)
SaveStamp(s) ==
    /\ pc[s] = "loaded"
    /\ Write(Cluster, draft[s].data)
    /\ pc' = [pc EXCEPT ![s] =
                IF s = "registration" /\ linked /\ ~quarantined THEN "stamped" ELSE "idle"]
    /\ draft' = [draft EXCEPT ![s] = NoDraft]
    /\ UNCHANGED <<overlaps, reading, quarantined, mirror, applying, linked, frames, saves, links>>

-----------------------------------------------------------------------------
(* Sync frames *)

(* Nothing keeps two payloads, each read file by file, apart. *)
StartRead(r) ==
    /\ "payloads" \in overlaps \/ \A q \in Readers : reading[q] = <<>>
    /\ reading[r] = <<>>
    /\ reading' = [reading EXCEPT ![r] = <<disk[Cluster]>>]

(* The debounce timer fires. *)
Broadcast ==
    /\ dirty
    /\ dirty' = FALSE
    /\ StartRead("broadcast")
    /\ UNCHANGED <<overlaps, disk, quarantined, mirror, applying, pc, draft, linked, frames, saves, links>>

(* sendSync, once the registration is written. *)
RegisterSync ==
    /\ pc["registration"] = "stamped"
    /\ pc' = [pc EXCEPT !["registration"] = "idle"]
    /\ StartRead("register")
    /\ UNCHANGED <<overlaps, disk, dirty, quarantined, mirror, applying, draft, linked, frames, saves, links>>

(* syncPayload reads the next file. *)
ReadNext(r) ==
    /\ reading[r] # <<>> /\ Len(reading[r]) < FileCount
    /\ reading' = [reading EXCEPT ![r] = Append(@, disk[Len(@) + 1])]
    /\ UNCHANGED <<overlaps, disk, dirty, quarantined, mirror, applying, pc, draft, linked, frames, saves, links>>

\* Mutant: the newest frame is put before what has not been delivered yet.
BugSendAhead(r) ==
    /\ Len(reading[r]) = FileCount
    /\ reading' = [reading EXCEPT ![r] = <<>>]
    /\ frames' = IF linked /\ ~quarantined THEN <<reading[r]>> \o frames ELSE frames
    /\ UNCHANGED <<overlaps, disk, dirty, quarantined, mirror, applying, pc, draft, linked, saves, links>>

\* Mutant: the timer is disarmed once the frame is out.
BugSendDisarms(r) ==
    /\ Len(reading[r]) = FileCount
    /\ reading' = [reading EXCEPT ![r] = <<>>]
    /\ dirty' = FALSE
    /\ frames' = IF linked /\ ~quarantined THEN Append(frames, reading[r]) ELSE frames
    /\ UNCHANGED <<overlaps, disk, quarantined, mirror, applying, pc, draft, linked, saves, links>>

(* The frame is sent, to nobody in quarantine. *)
Send(r) ==
    /\ Len(reading[r]) = FileCount
    /\ reading' = [reading EXCEPT ![r] = <<>>]
    /\ frames' = IF linked /\ ~quarantined THEN Append(frames, reading[r]) ELSE frames
    /\ UNCHANGED <<overlaps, disk, dirty, quarantined, mirror, applying, pc, draft, linked, saves, links>>

(* "sync": applySync starts; nothing makes it wait for an earlier one. *)
Receive ==
    /\ linked /\ frames # <<>>
    /\ "applies" \in overlaps \/ applying = {}
    /\ applying' = applying \cup {[files |-> Head(frames), next |-> Cluster]}
    /\ frames' = Tail(frames)
    /\ UNCHANGED <<overlaps, disk, dirty, reading, quarantined, mirror, pc, draft, linked, saves, links>>

(* applySync writes the next file. *)
ApplyNext ==
    /\ \E a \in applying :
        /\ mirror' = [mirror EXCEPT ![a.next] = a.files[a.next]]
        /\ applying' = (applying \ {a}) \cup
                (IF a.next < FileCount THEN {[a EXCEPT !.next = @ + 1]} ELSE {})
    /\ UNCHANGED <<overlaps, disk, dirty, reading, quarantined, pc, draft, linked, frames, saves, links>>

-----------------------------------------------------------------------------
SaveStep(e) == SavePrimary(e) \/ SaveFollower(e)
StampStep(s) == LoadStamp(s) \/ SaveStamp(s)
ReaderStep(r) == ReadNext(r) \/ Send(r)

SyncNext ==
    \/ \E e \in Edits : Load(e) \/ SaveStep(e)
    \/ \E s \in Stamps : StampStep(s)
    \/ \E r \in Readers : ReaderStep(r)
    \/ OnSave \/ Connect \/ Drop \/ Broadcast \/ RegisterSync \/ Receive \/ ApplyNext

SyncSpec == SyncInit /\ [][SyncNext]_syncVars

(* Handlers end, the timer fires and frames arrive.  Nobody owes an edit, a  *)
(* registration or a loss of the link.                                       *)
SyncFairness ==
    /\ \A e \in Edits : WF_syncVars(SaveStep(e))
    /\ \A s \in Stamps : WF_syncVars(StampStep(s))
    /\ \A r \in Readers : WF_syncVars(ReaderStep(r))
    /\ WF_syncVars(OnSave) /\ WF_syncVars(Receive) /\ WF_syncVars(ApplyNext)
    /\ SF_syncVars(Broadcast) /\ SF_syncVars(RegisterSync)

FairSyncSpec == SyncSpec /\ SyncFairness

-----------------------------------------------------------------------------
(* Properties *)

(* While edits are far enough apart, what a state file of the primary       *)
(* contains is not lost to a registration, a last-seen stamp or the whole   *)
(* file a follower saves (hub.ts, persistRegistration and the save frame).  *)
EditsStay ==
    [][("edits" \notin overlaps) => \A f \in Files : disk[f] \subseteq disk'[f]]_syncVars

(* While nothing overlaps, the mirror never goes back behind an edit of the *)
(* primary it has shown, whatever is read, sent, lost or written late.      *)
NeverBackwards ==
    [][(overlaps = {}) =>
        \A f \in Files : mirror[f] \cap disk[f] \cap PrimaryEdits \subseteq mirror'[f]]_syncVars

(* What a follower's operation is about to save reaches the primary while    *)
(* the link stays up, "instead of being clobbered by the next sync frame"   *)
(* (config.ts, notifySave), although an older frame may undo the local copy *)
(* first, and an edit that raced with it may undo it afterwards.            *)
SavesArrive ==
    \A e \in FollowerEdits :
        (pc[e] = "loaded" /\ linked) ~> (~linked \/ \E f \in Files : e \in disk[f])

(* However edits, saves, losses of the link and registrations interleave, a *)
(* follower that stays connected, at the same protocol, ends with the       *)
(* primary's files, provided payloads and their application keep in order.  *)
Converges ==
    <>[](overlaps \subseteq {"edits"} /\ linked /\ ~quarantined => mirror = disk)
=============================================================================
