---------------------------- MODULE ConsoleTunnel ----------------------------
(***************************************************************************)
(* Live consoles of instances on another machine: the streams of           *)
(* daemon/hub.ts and the tails of daemon/follower.ts, over the link that   *)
(* ClusterLink models.                                                     *)
(*                                                                         *)
(* The primary opens a stream by an id it counts up, forgets it when the   *)
(* viewer goes, when the tail ends, when the ready frame is late or when   *)
(* the link is lost; the follower runs one tail process per stream and     *)
(* stops them all when it loses the link.  The two ends lose a link at     *)
(* different times, and an open awaits a file before its tail exists.      *)
(***************************************************************************)
EXTENDS Naturals, Sequences, FiniteSets

CONSTANTS
    Viewers,       \* console viewers; each opens one stream
    Disciplines,   \* the sets of overlaps an execution may allow
    MaxLines,      \* bound: log lines sent
    MaxLinks,      \* bound: links made
    MaxRestarts    \* bound: restarts of the primary

ASSUME ConstantsAssumption ==
    /\ Disciplines \subseteq SUBSET {"opening", "timeout"}
    /\ MaxLines \in Nat
    /\ MaxLinks \in Nat
    /\ MaxRestarts \in Nat

VARIABLES
    \* the primary
    counter,   \* requestCounter
    sid,       \* the stream id of each viewer; 0 before
    state,     \* per viewer: "idle", "opening", "ready", "closed" or "ended"
    ends,      \* how often onEnd was called for it
    heard,     \* whose lines it was shown
    hubLink,   \* whether the primary has the follower's link
    \* the follower
    folLink,   \* whether it holds the same socket open
    mute,      \* whether it is a build that knows no tunnels
    opening,   \* opens awaiting loadCluster
    running,   \* tail processes
    tails,     \* the tails map, as a set of the handles in it
    \* the link
    down, up,  \* frames on their way
    lines, links, restarts,
    overlaps   \* "opening": a close or a loss may hit an open's await;
               \* "timeout": a ready frame may come after its timeout

hubVars == <<counter, sid, state, ends, heard, hubLink>>
followerVars == <<folLink, mute, opening, running, tails>>
bounds == <<lines, links, restarts, overlaps>>
vars == <<counter, sid, state, ends, heard, hubLink,
          folLink, mute, opening, running, tails, down, up, lines, links, restarts, overlaps>>

Ids == Nat \ {0}
Handles == [id : Ids, viewer : Viewers]
Frame(t, tail) == [t |-> t, id |-> tail.id, viewer |-> tail.viewer]
Handle(v) == [id |-> sid[v], viewer |-> v]

Live(v) == state[v] \in {"opening", "ready"}

(* streams.get(id) *)
StreamOf(id) == {v \in Viewers : Live(v) /\ sid[v] = id}

TypeOK ==
    /\ counter \in Nat
    /\ sid \in [Viewers -> Nat]
    /\ state \in [Viewers -> {"idle", "opening", "ready", "closed", "ended"}]
    /\ ends \in [Viewers -> Nat]
    /\ heard \in [Viewers -> SUBSET Viewers]
    /\ {hubLink, folLink, mute} \subseteq BOOLEAN
    /\ opening \subseteq Handles /\ running \subseteq Handles
    /\ tails \subseteq running
    /\ \A g, h \in tails : g.id = h.id => g = h
    /\ \A i \in 1..Len(down) : down[i].t \in {"stream-open", "stream-close"}
    /\ \A i \in 1..Len(up) : up[i].t \in {"stream-ready", "stream-data", "stream-end"}
    /\ lines \in 0..MaxLines /\ links \in 0..MaxLinks /\ restarts \in 0..MaxRestarts
    /\ overlaps \in Disciplines

Init ==
    /\ counter = 0
    /\ sid = [v \in Viewers |-> 0]
    /\ state = [v \in Viewers |-> "idle"]
    /\ ends = [v \in Viewers |-> 0]
    /\ heard = [v \in Viewers |-> {}]
    /\ hubLink = FALSE /\ folLink = FALSE /\ mute = FALSE
    /\ opening = {} /\ running = {} /\ tails = {}
    /\ down = <<>> /\ up = <<>>
    /\ lines = 0 /\ links = 0 /\ restarts = 0
    /\ overlaps \in Disciplines

ToFollower(frame) == down' = IF folLink THEN Append(down, frame) ELSE down
ToPrimary(q, frame) == IF folLink /\ hubLink THEN Append(q, frame) ELSE q

(* Streams in V are deleted and their onEnd is called. *)
EndStreams(V) ==
    /\ state' = [v \in Viewers |-> IF v \in V THEN "ended" ELSE state[v]]
    /\ ends' = [v \in Viewers |-> IF v \in V THEN ends[v] + 1 ELSE ends[v]]

-----------------------------------------------------------------------------
(* The primary *)

(* openConsoleStream: without a link the end comes at once. *)
Open(v) ==
    /\ state[v] = "idle"
    /\ IF hubLink
       THEN /\ counter' = counter + 1
            /\ sid' = [sid EXCEPT ![v] = counter + 1]
            /\ state' = [state EXCEPT ![v] = "opening"]
            /\ ToFollower([t |-> "stream-open", id |-> counter + 1, viewer |-> v])
            /\ UNCHANGED ends
       ELSE /\ EndStreams({v})
            /\ UNCHANGED <<counter, sid, down>>
    /\ UNCHANGED <<heard, hubLink, followerVars, up, bounds>>

(* Nobody who would answer has got the open. *)
Unanswerable(v) == mute \/ ~folLink \/ ~(\/ Handle(v) \in opening \cup running
                                         \/ \E i \in 1..Len(down) : down[i] = Frame("stream-open", Handle(v))
                                         \/ \E i \in 1..Len(up) : up[i].id = sid[v])

\* Mutant: the timer goes on and ends whatever has become of the stream.
BugReadyTimeout(v) ==
    /\ sid[v] # 0 /\ hubLink
    /\ "timeout" \in overlaps \/ Unanswerable(v)
    /\ ends[v] < 2
    /\ EndStreams({v})
    /\ UNCHANGED <<counter, sid, heard, hubLink, followerVars, down, up, bounds>>

(* The ready timer: the stream is forgotten, and nothing is sent. *)
ReadyTimeout(v) ==
    /\ state[v] = "opening"
    /\ "timeout" \in overlaps \/ Unanswerable(v)
    /\ EndStreams({v})
    /\ UNCHANGED <<counter, sid, heard, hubLink, followerVars, down, up, bounds>>

(* The closer: the viewer has gone. *)
CloseStream(v) ==
    /\ Live(v)
    /\ "opening" \in overlaps \/ state[v] = "ready"
    /\ state' = [state EXCEPT ![v] = "closed"]
    /\ ToFollower(Frame("stream-close", Handle(v)))
    /\ UNCHANGED <<counter, sid, ends, heard, hubLink, followerVars, up, bounds>>

(* stream-ready, stream-data and stream-end are looked up by their id. *)
OnReady ==
    /\ hubLink /\ up # <<>> /\ Head(up).t = "stream-ready"
    /\ state' = [v \in Viewers |-> IF v \in StreamOf(Head(up).id) THEN "ready" ELSE state[v]]
    /\ up' = Tail(up)
    /\ UNCHANGED <<counter, sid, ends, heard, hubLink, followerVars, down, bounds>>

OnData ==
    /\ hubLink /\ up # <<>> /\ Head(up).t = "stream-data"
    /\ heard' = [v \in Viewers |->
                    IF v \in StreamOf(Head(up).id) THEN heard[v] \cup {Head(up).viewer} ELSE heard[v]]
    /\ up' = Tail(up)
    /\ UNCHANGED <<counter, sid, state, ends, hubLink, followerVars, down, bounds>>

OnEnd ==
    /\ hubLink /\ up # <<>> /\ Head(up).t = "stream-end"
    /\ EndStreams(StreamOf(Head(up).id))
    /\ up' = Tail(up)
    /\ UNCHANGED <<counter, sid, heard, hubLink, followerVars, down, bounds>>

(* rejectPendingFor, when the link closes: every stream of it ends. *)
HubLosesLink ==
    /\ hubLink
    /\ "opening" \in overlaps \/ opening = {}
    /\ hubLink' = FALSE
    /\ EndStreams({v \in Viewers : Live(v)})
    /\ up' = <<>>
    /\ UNCHANGED <<counter, sid, heard, followerVars, down, bounds>>

(* The primary's process ends: viewers lose their connections, ids start over. *)
PrimaryRestart ==
    /\ restarts < MaxRestarts
    /\ "opening" \in overlaps \/ opening = {}
    /\ restarts' = restarts + 1
    /\ counter' = 0
    /\ state' = [v \in Viewers |-> IF Live(v) THEN "closed" ELSE state[v]]
    /\ hubLink' = FALSE
    /\ up' = <<>>
    /\ UNCHANGED <<sid, ends, heard, followerVars, down, lines, links, overlaps>>

-----------------------------------------------------------------------------
(* The follower *)

(* The open starts, and awaits the registry.  Builds before the tunnel      *)
(* ignore a frame they do not know.                                         *)
OnOpen ==
    /\ folLink /\ down # <<>> /\ Head(down).t = "stream-open"
    /\ opening' = IF mute THEN opening
                  ELSE opening \cup {[id |-> Head(down).id, viewer |-> Head(down).viewer]}
    /\ down' = Tail(down)
    /\ UNCHANGED <<hubVars, folLink, mute, running, tails, up, bounds>>

(* ... the instance is not there or not owned: the stream ends. *)
Refuse(o) ==
    /\ o \in opening
    /\ opening' = opening \ {o}
    /\ up' = ToPrimary(up, Frame("stream-end", o))
    /\ UNCHANGED <<hubVars, folLink, mute, running, tails, down, bounds>>

(* ... or the tail starts, whatever has become of the link meanwhile. *)
StartTail(o) ==
    /\ o \in opening
    /\ opening' = opening \ {o}
    /\ running' = running \cup {o}
    /\ tails' = {h \in tails : h.id # o.id} \cup {o}
    /\ up' = ToPrimary(up, Frame("stream-ready", o))
    /\ UNCHANGED <<hubVars, folLink, mute, down, bounds>>

TailLine(o) ==
    /\ o \in running
    /\ lines < MaxLines
    /\ lines' = lines + 1
    /\ up' = ToPrimary(up, Frame("stream-data", o))
    /\ UNCHANGED <<hubVars, followerVars, down, links, restarts, overlaps>>

(* The tail process exits by itself: the log's directory is gone. *)
TailExits(o) ==
    /\ o \in running
    /\ running' = running \ {o}
    /\ tails' = {h \in tails : h.id # o.id}
    /\ up' = ToPrimary(up, Frame("stream-end", o))
    /\ UNCHANGED <<hubVars, folLink, mute, opening, down, bounds>>

\* Mutant: the handle is dropped from the map and the process left alone.
BugOnStreamClose ==
    /\ folLink /\ down # <<>> /\ Head(down).t = "stream-close"
    /\ tails' = {h \in tails : h.id # Head(down).id}
    /\ down' = Tail(down)
    /\ UNCHANGED <<hubVars, folLink, mute, opening, running, up, bounds>>

(* stream-close: the handle in the map, if there is one, is stopped. *)
OnStreamClose ==
    /\ folLink /\ down # <<>> /\ Head(down).t = "stream-close"
    /\ LET stopped == {h \in tails : h.id = Head(down).id} IN
        /\ running' = running \ stopped
        /\ tails' = tails \ stopped
    /\ down' = Tail(down)
    /\ UNCHANGED <<hubVars, folLink, mute, opening, up, bounds>>

\* Mutant: tails outlive the link.
BugFollowerLosesLink ==
    /\ folLink
    /\ "opening" \in overlaps \/ opening = {}
    /\ folLink' = FALSE
    /\ down' = <<>> /\ up' = <<>>
    /\ UNCHANGED <<hubVars, mute, opening, running, tails, bounds>>

(* onclose and dropLink: stopAllTails stops what the map holds. *)
FollowerLosesLink ==
    /\ folLink
    /\ "opening" \in overlaps \/ opening = {}
    /\ folLink' = FALSE
    /\ running' = running \ tails
    /\ tails' = {}
    /\ down' = <<>> /\ up' = <<>>
    /\ UNCHANGED <<hubVars, mute, opening, bounds>>

(* The follower registers over a new socket; a primary that has not seen the *)
(* old one close ends its streams now.  The build may have changed.          *)
Connect ==
    /\ ~folLink
    /\ links < MaxLinks
    /\ links' = links + 1
    /\ folLink' = TRUE /\ hubLink' = TRUE
    /\ mute' \in BOOLEAN
    /\ EndStreams(IF hubLink THEN {v \in Viewers : Live(v)} ELSE {})
    /\ UNCHANGED <<counter, sid, heard, opening, running, tails, down, up, lines, restarts, overlaps>>

-----------------------------------------------------------------------------
HubStep == OnReady \/ OnData \/ OnEnd
OpenStep(o) == Refuse(o) \/ StartTail(o)

Next ==
    \/ \E v \in Viewers : Open(v) \/ ReadyTimeout(v) \/ CloseStream(v)
    \/ HubStep \/ HubLosesLink \/ PrimaryRestart
    \/ OnOpen \/ OnStreamClose \/ FollowerLosesLink \/ Connect
    \/ \E o \in opening : OpenStep(o)
    \/ \E o \in running : TailLine(o) \/ TailExits(o)

Spec == Init /\ [][Next]_vars

(* Frames arrive, awaits and timers end, and a follower notices that the     *)
(* primary has dropped it.  Nobody owes a viewer's going.                    *)
Fairness ==
    /\ WF_vars(HubStep) /\ WF_vars(OnOpen) /\ WF_vars(OnStreamClose)
    /\ WF_vars(\E o \in opening : OpenStep(o))
    /\ \A v \in Viewers : WF_vars(ReadyTimeout(v))
    /\ WF_vars(FollowerLosesLink /\ ~hubLink)

FairSpec == Spec /\ Fairness

-----------------------------------------------------------------------------
(* Properties *)

(* "onEnd fires exactly once when the tunnel dies for any reason other than *)
(* that closer" (hub.ts, openConsoleStream): refusals, exits, losses and    *)
(* timeouts never add up to two, and none follows the closer.               *)
EndsOnce ==
    \A v \in Viewers : ends[v] <= 1 /\ (state[v] = "closed" => ends[v] = 0)

(* A viewer sees the console it asked for and no other, although ids start  *)
(* over with the primary's process - unless a close or a loss hits an open  *)
(* in its await, when the tail started afterwards outlives its link.        *)
OwnLines == "opening" \notin overlaps => \A v \in Viewers : heard[v] \subseteq {v}

(* "Stop every live tail; the link died, nobody is listening anymore"       *)
(* (follower.ts, stopAllTails): a tail whose stream the primary has given   *)
(* up is stopped in the end, and no process reads a log for nobody.         *)
TailsStop ==
    \A v \in Viewers :
        (overlaps = {} /\ state[v] \in {"closed", "ended"})
            ~> (\A o \in opening \cup running : o.viewer # v)
=============================================================================
