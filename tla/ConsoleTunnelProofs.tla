------------------------- MODULE ConsoleTunnelProofs -------------------------
(***************************************************************************)
(* Theorems about ConsoleTunnel, for any viewers and bounds.               *)
(***************************************************************************)
EXTENDS ConsoleTunnel, TLAPS

(* A stream's end was told once if it ended, and never before or otherwise. *)
EndsCounted ==
    /\ state \in [Viewers -> {"idle", "opening", "ready", "closed", "ended"}]
    /\ ends = [v \in Viewers |-> IF state[v] = "ended" THEN 1 ELSE 0]

LEMMA EndsOnceEach ==
    ASSUME EndsCounted, NEW V \in SUBSET {v \in Viewers : state[v] # "ended"}, EndStreams(V)
    PROVE  EndsCounted'
<1>1. state' \in [Viewers -> {"idle", "opening", "ready", "closed", "ended"}]
  BY DEF EndsCounted, EndStreams
<1>2. \A v \in Viewers : ends'[v] = IF state'[v] = "ended" THEN 1 ELSE 0
  BY DEF EndsCounted, EndStreams
<1> QED
  BY <1>1, <1>2 DEF EndsCounted, EndStreams

LEMMA NoEndNoCount ==
    ASSUME EndsCounted, UNCHANGED ends,
           state' \in [Viewers -> {"idle", "opening", "ready", "closed", "ended"}],
           \A v \in Viewers : state'[v] = "ended" <=> state[v] = "ended"
    PROVE  EndsCounted'
BY DEF EndsCounted

LEMMA LiveHasNotEnded ==
    /\ \A v \in Viewers : Live(v) => state[v] # "ended"
    /\ \A id : StreamOf(id) \subseteq {v \in Viewers : state[v] # "ended"}
BY DEF Live, StreamOf

LEMMA NextEndsCounted == EndsCounted /\ [Next]_vars => EndsCounted'
<1> SUFFICES ASSUME EndsCounted, [Next]_vars PROVE EndsCounted'
  OBVIOUS
<1>1. ASSUME NEW v \in Viewers, Open(v) PROVE EndsCounted'
  <2>1. CASE EndStreams({v})
    BY <1>1, <2>1, EndsOnceEach DEF Open
  <2>2. CASE ~EndStreams({v})
    BY <1>1, <2>2, NoEndNoCount DEF Open, EndsCounted
  <2> QED
    BY <2>1, <2>2
<1>2. ASSUME NEW v \in Viewers, ReadyTimeout(v) PROVE EndsCounted'
  BY <1>2, EndsOnceEach DEF ReadyTimeout
<1>3. ASSUME NEW v \in Viewers, CloseStream(v) PROVE EndsCounted'
  BY <1>3, NoEndNoCount, LiveHasNotEnded DEF CloseStream, EndsCounted
<1>4. CASE OnReady
  BY <1>4, NoEndNoCount, LiveHasNotEnded DEF OnReady, EndsCounted
<1>5. CASE OnEnd
  BY <1>5, EndsOnceEach, LiveHasNotEnded DEF OnEnd
<1>6. CASE HubLosesLink
  BY <1>6, EndsOnceEach, LiveHasNotEnded DEF HubLosesLink
<1>7. CASE PrimaryRestart
  BY <1>7, NoEndNoCount, LiveHasNotEnded DEF PrimaryRestart, EndsCounted
<1>8. CASE Connect
  <2>1. (IF hubLink THEN {v \in Viewers : Live(v)} ELSE {}) \in SUBSET {v \in Viewers : state[v] # "ended"}
    BY LiveHasNotEnded
  <2> QED
    BY <1>8, <2>1, EndsOnceEach DEF Connect
<1>9. CASE UNCHANGED <<state, ends>>
  BY <1>9 DEF EndsCounted
<1>10. CASE OnData \/ OnOpen \/ OnStreamClose \/ FollowerLosesLink \/ UNCHANGED vars
  BY <1>9, <1>10 DEF OnData, OnOpen, OnStreamClose, FollowerLosesLink, vars, hubVars
<1>11. ASSUME NEW o, OpenStep(o) \/ TailLine(o) \/ TailExits(o) PROVE EndsCounted'
  BY <1>9, <1>11 DEF OpenStep, Refuse, StartTail, TailLine, TailExits, hubVars
<1> QED
  BY <1>1, <1>2, <1>3, <1>4, <1>5, <1>6, <1>7, <1>8, <1>10, <1>11 DEF Next, HubStep

(* openConsoleStream: whatever refusals, exits, losses, timeouts and closes *)
(* come together, onEnd fires at most once, and never after the closer.     *)
THEOREM EndIsToldOnce == Spec => []EndsOnce
<1>1. Init => EndsCounted
  BY DEF Init, EndsCounted
<1>2. EndsCounted => EndsOnce
  BY DEF EndsCounted, EndsOnce
<1> QED
  BY <1>1, <1>2, NextEndsCounted, PTL DEF Spec

-----------------------------------------------------------------------------
(* Types *)

DownFrames == [t : {"stream-open", "stream-close"}, id : Nat, viewer : Viewers]
UpFrames == [t : {"stream-ready", "stream-data", "stream-end"}, id : Nat, viewer : Viewers]

StateTypes ==
    /\ counter \in Nat
    /\ sid \in [Viewers -> Nat]
    /\ state \in [Viewers -> {"idle", "opening", "ready", "closed", "ended"}]
    /\ ends \in [Viewers -> Nat]
    /\ heard \in [Viewers -> SUBSET Viewers]
    /\ hubLink \in BOOLEAN /\ folLink \in BOOLEAN /\ mute \in BOOLEAN
    /\ opening \subseteq Handles /\ running \subseteq Handles
    /\ tails \subseteq running
    /\ \A g, h \in tails : g.id = h.id => g = h
    /\ lines \in 0..MaxLines /\ links \in 0..MaxLinks /\ restarts \in 0..MaxRestarts
    /\ overlaps \in Disciplines

(* An open that is on its way has its id. *)
DownTypes ==
    /\ down \in Seq(DownFrames)
    /\ \A i \in 1..Len(down) : down[i].t = "stream-open" => down[i].id # 0
UpTypes == up \in Seq(UpFrames)

TypeInv == StateTypes /\ DownTypes /\ UpTypes

-----------------------------------------------------------------------------
(* Ids, while no open is cut off *)

(* Live streams are numbered over the link they belong to. *)
LiveLinked == \A v \in Viewers : Live(v) => hubLink /\ sid[v] \in 1..counter
OwnIds == \A v, w \in Viewers : Live(v) /\ Live(w) /\ sid[v] = sid[w] => v = w

(* One socket never carries two opens of an id, and every tail is in the    *)
(* map; so nothing is left of a socket that the follower has lost.          *)
Pending == opening \cup running
OpenOnce ==
    /\ \A g, h \in Pending : g.id = h.id => g = h
    /\ \A i \in 1..Len(down) : down[i].t = "stream-open" => \A h \in Pending : h.id # down[i].id
    /\ \A i, j \in 1..Len(down) :
        down[i].t = "stream-open" /\ down[j].t = "stream-open" /\ down[i].id = down[j].id => i = j
Mapped == running = tails
CutClean == ~folLink => Pending = {} /\ down = <<>> /\ up = <<>>

(* What is on its way over a socket both ends hold is of the stream that    *)
(* has its id, if one has.                                                  *)
Theirs(id, viewer) == id <= counter /\ \A w \in Viewers : Live(w) /\ sid[w] = id => w = viewer
Owned ==
    folLink /\ hubLink =>
        /\ \A h \in Pending : Theirs(h.id, h.viewer)
        /\ \A i \in 1..Len(down) : down[i].t = "stream-open" => Theirs(down[i].id, down[i].viewer)
        /\ \A i \in 1..Len(up) : Theirs(up[i].id, up[i].viewer)

HeardOwn == \A v \in Viewers : heard[v] \subseteq {v}

IdInv == LiveLinked /\ OwnIds /\ OpenOnce /\ Mapped /\ CutClean /\ Owned /\ HeardOwn

LEMMA Bounds == MaxLines \in Nat /\ MaxLinks \in Nat /\ MaxRestarts \in Nat
BY ConstantsAssumption

LEMMA SequenceTail ==
    ASSUME NEW S, NEW s \in Seq(S), s # <<>>
    PROVE  /\ Head(s) \in S /\ Tail(s) \in Seq(S)
           /\ 1 \in 1..Len(s) /\ Head(s) = s[1]
           /\ \A i \in 1..Len(Tail(s)) : i + 1 \in 1..Len(s) /\ Tail(s)[i] = s[i + 1]
OBVIOUS

LEMMA SequenceAppend ==
    ASSUME NEW S, NEW s \in Seq(S), NEW x \in S
    PROVE  /\ Append(s, x) \in Seq(S)
           /\ \A i \in 1..Len(Append(s, x)) :
                \/ i \in 1..Len(s) /\ Append(s, x)[i] = s[i]
                \/ i = Len(s) + 1 /\ Append(s, x)[i] = x
OBVIOUS

LEMMA FrameTypes ==
    ASSUME NEW h \in [id : Nat, viewer : Viewers]
    PROVE  /\ Frame("stream-close", h) \in DownFrames /\ Frame("stream-close", h).t = "stream-close"
           /\ Frame("stream-ready", h) \in UpFrames
           /\ Frame("stream-data", h) \in UpFrames
           /\ Frame("stream-end", h) \in UpFrames
BY DEF Frame, DownFrames, UpFrames

LEMMA DownKept ==
    ASSUME DownTypes,
           \/ down' = down \/ down' = <<>>
           \/ down # <<>> /\ down' = Tail(down)
           \/ \E f \in DownFrames : (f.t = "stream-open" => f.id # 0) /\ ToFollower(f)
    PROVE  DownTypes'
<1> USE DEF DownTypes
<1>1. CASE down' = down
  BY <1>1
<1>4. CASE down' = <<>>
  <2>1. Len(down') = 0 /\ down' \in Seq(DownFrames)
    BY <1>4
  <2> QED
    BY <2>1
<1>2. CASE down # <<>> /\ down' = Tail(down)
  BY <1>2, SequenceTail
<1>3. ASSUME NEW f \in DownFrames, f.t = "stream-open" => f.id # 0, down' = Append(down, f)
      PROVE  DownTypes'
  BY <1>3, SequenceAppend
<1> QED
  BY <1>1, <1>2, <1>3, <1>4 DEF ToFollower

LEMMA UpKept ==
    ASSUME UpTypes,
           \/ up' = up \/ up' = <<>>
           \/ up # <<>> /\ up' = Tail(up)
           \/ \E f \in UpFrames : up' = ToPrimary(up, f)
    PROVE  UpTypes'
<1> USE DEF UpTypes
<1>1. CASE up' = up
  BY <1>1
<1>2. CASE up' = <<>>
  BY <1>2
<1>3. CASE up # <<>> /\ up' = Tail(up)
  BY <1>3, SequenceTail
<1>4. ASSUME NEW f \in UpFrames, up' = Append(up, f) PROVE UpTypes'
  BY <1>4, SequenceAppend
<1> QED
  BY <1>1, <1>2, <1>3, <1>4 DEF ToPrimary

LEMMA EndTypes ==
    ASSUME TypeInv, NEW V, EndStreams(V)
    PROVE  /\ state' \in [Viewers -> {"idle", "opening", "ready", "closed", "ended"}]
           /\ ends' \in [Viewers -> Nat]
BY DEF TypeInv, StateTypes, EndStreams

LEMMA StateTypesKept ==
    ASSUME TypeInv, [Next]_vars
    PROVE  StateTypes'
<1> USE DEF TypeInv, StateTypes, hubVars, followerVars, bounds
<1>1. ASSUME NEW v \in Viewers, Open(v) PROVE StateTypes'
  BY <1>1, EndTypes DEF Open
<1>2. ASSUME NEW v \in Viewers, ReadyTimeout(v) PROVE StateTypes'
  BY <1>2, EndTypes DEF ReadyTimeout
<1>3. ASSUME NEW v \in Viewers, CloseStream(v) PROVE StateTypes'
  BY <1>3 DEF CloseStream
<1>4. CASE OnReady
  BY <1>4 DEF OnReady
<1>5. CASE OnData
  <2>1. Head(up) \in UpFrames
    BY <1>5, SequenceTail DEF OnData, UpTypes
  <2>2. Head(up).viewer \in Viewers
    BY <2>1 DEF UpFrames
  <2> HIDE DEF UpTypes
  <2> QED
    BY <1>5, <2>2 DEF OnData
<1>6. CASE OnEnd
  BY <1>6, EndTypes DEF OnEnd
<1>7. CASE HubLosesLink
  BY <1>7, EndTypes DEF HubLosesLink
<1>8. CASE PrimaryRestart
  <2>1. restarts' \in 0..MaxRestarts
    BY <1>8, Bounds DEF PrimaryRestart
  <2>2. state' \in [Viewers -> {"idle", "opening", "ready", "closed", "ended"}]
    BY <1>8 DEF PrimaryRestart
  <2> QED
    BY <1>8, <2>1, <2>2 DEF PrimaryRestart
<1>9. CASE OnOpen
  <2>1. down # <<>> /\ 1 \in 1..Len(down) /\ Head(down) = down[1] /\ Head(down) \in DownFrames
    BY <1>9, SequenceTail DEF OnOpen, DownTypes
  <2>2. [id |-> Head(down).id, viewer |-> Head(down).viewer] \in Handles
    BY <1>9, <2>1 DEF OnOpen, DownTypes, DownFrames, Handles, Ids
  <2> QED
    BY <1>9, <2>2 DEF OnOpen
<1>10. CASE OnStreamClose
  BY <1>10 DEF OnStreamClose
<1>11. CASE FollowerLosesLink
  BY <1>11, EndTypes DEF FollowerLosesLink
<1>12. CASE Connect
  BY <1>12, EndTypes, Bounds DEF Connect
<1>13. ASSUME NEW o \in opening, Refuse(o) PROVE StateTypes'
  BY <1>13 DEF Refuse
<1>14. ASSUME NEW o \in opening, StartTail(o) PROVE StateTypes'
  BY <1>14 DEF StartTail
<1>15. ASSUME NEW o \in running, TailLine(o) PROVE StateTypes'
  BY <1>15, Bounds DEF TailLine
<1>16. ASSUME NEW o \in running, TailExits(o) PROVE StateTypes'
  BY <1>16, EndTypes DEF TailExits
<1>17. CASE UNCHANGED vars
  BY <1>17 DEF vars
<1> QED
  BY <1>1, <1>2, <1>3, <1>4, <1>5, <1>6, <1>7, <1>8, <1>9, <1>10, <1>11, <1>12, <1>13,
            <1>14, <1>15, <1>16, <1>17 DEF Next, HubStep, OpenStep

LEMMA QueueTypesKept ==
    ASSUME TypeInv, [Next]_vars
    PROVE  DownTypes' /\ UpTypes'
<1> USE DEF TypeInv, hubVars, followerVars, bounds
<1>0. \A o \in opening \cup running : o \in [id : Nat, viewer : Viewers]
  BY DEF StateTypes, Handles, Ids
<1>1. ASSUME NEW v \in Viewers, Open(v) \/ ReadyTimeout(v) \/ CloseStream(v) PROVE DownTypes' /\ UpTypes'
  <2>1. CASE Open(v)
    <3> DEFINE f == [t |-> "stream-open", id |-> counter + 1, viewer |-> v]
    <3>1. f \in DownFrames /\ f.id # 0
      BY DEF DownFrames, StateTypes
    <3>2. down' = down \/ ToFollower(f)
      BY <2>1 DEF Open
    <3> HIDE DEF f
    <3> QED
      BY <2>1, <3>1, <3>2, DownKept, UpKept DEF Open
  <2>2. CASE ReadyTimeout(v)
    BY <2>2, DownKept, UpKept DEF ReadyTimeout
  <2>3. CASE CloseStream(v)
    <3>1. Handle(v) \in [id : Nat, viewer : Viewers]
      BY DEF StateTypes, Handle
    <3> QED
      BY <2>3, <3>1, FrameTypes, DownKept, UpKept DEF CloseStream
  <2> QED
    BY <1>1, <2>1, <2>2, <2>3
<1>2. CASE OnReady \/ OnData \/ OnEnd
  BY <1>2, DownKept, UpKept DEF OnReady, OnData, OnEnd
<1>3. CASE HubLosesLink \/ PrimaryRestart \/ FollowerLosesLink \/ Connect
  BY <1>3, DownKept, UpKept DEF HubLosesLink, PrimaryRestart, FollowerLosesLink, Connect
<1>4. CASE OnOpen \/ OnStreamClose
  BY <1>4, DownKept, UpKept DEF OnOpen, OnStreamClose
<1>5. ASSUME NEW o \in opening, OpenStep(o) PROVE DownTypes' /\ UpTypes'
  BY <1>0, <1>5, FrameTypes, DownKept, UpKept DEF OpenStep, Refuse, StartTail
<1>6. ASSUME NEW o \in running, TailLine(o) \/ TailExits(o) PROVE DownTypes' /\ UpTypes'
  BY <1>0, <1>6, FrameTypes, DownKept, UpKept DEF TailLine, TailExits
<1>7. CASE UNCHANGED vars
  BY <1>7, DownKept, UpKept DEF vars
<1> QED
  BY <1>1, <1>2, <1>3, <1>4, <1>5, <1>6, <1>7 DEF Next, HubStep

LEMMA TypesHold == Spec => []TypeInv
<1>1. Init => TypeInv
  <2>1. ASSUME Init PROVE StateTypes
    <3>1. lines \in 0..MaxLines /\ links \in 0..MaxLinks /\ restarts \in 0..MaxRestarts
      BY <2>1, Bounds DEF Init
    <3> QED
      BY <2>1, <3>1 DEF Init, StateTypes
  <2>2. Init => DownTypes /\ UpTypes
    BY DEF Init, DownTypes, UpTypes
  <2> QED
    BY <2>1, <2>2 DEF TypeInv
<1>2. TypeInv /\ [Next]_vars => TypeInv'
  BY StateTypesKept, QueueTypesKept DEF TypeInv
<1> QED
  BY <1>1, <1>2, PTL DEF Spec

(* In every state the variables have their types: the tails map holds only  *)
(* handles of processes that run, and one for an id.                         *)
THEOREM TypeCorrect == Spec => []TypeOK
<1>1. TypeInv => TypeOK
  <2> SUFFICES ASSUME TypeInv PROVE TypeOK
    OBVIOUS
  <2>1. \A i \in 1..Len(down) : down[i].t \in {"stream-open", "stream-close"}
    <3>1. \A i \in 1..Len(down) : down[i] \in DownFrames
      BY DEF TypeInv, DownTypes
    <3> QED
      BY <3>1 DEF DownFrames
  <2>2. \A i \in 1..Len(up) : up[i].t \in {"stream-ready", "stream-data", "stream-end"}
    <3>1. \A i \in 1..Len(up) : up[i] \in UpFrames
      BY DEF TypeInv, UpTypes
    <3> QED
      BY <3>1 DEF UpFrames
  <2> QED
    BY <2>1, <2>2 DEF TypeInv, StateTypes, TypeOK
<1> QED
  BY <1>1, TypesHold, PTL

-----------------------------------------------------------------------------
(* Ids over one socket *)

LEMMA DownShrinks ==
    ASSUME DownTypes, down' = down \/ down' = <<>> \/ (down # <<>> /\ down' = Tail(down))
    PROVE  \E k \in {0, 1} : \A i \in 1..Len(down') : i + k \in 1..Len(down) /\ down'[i] = down[i + k]
<1> USE DEF DownTypes
<1>1. CASE down' = down
  BY <1>1
<1>2. CASE down' = <<>>
  <2>1. Len(down') = 0
    BY <1>2
  <2> QED
    BY <2>1
<1>3. CASE down # <<>> /\ down' = Tail(down)
  BY <1>3, SequenceTail
<1> QED
  BY <1>1, <1>2, <1>3

LEMMA UpShrinks ==
    ASSUME UpTypes, up' = up \/ up' = <<>> \/ (up # <<>> /\ up' = Tail(up))
    PROVE  \A i \in 1..Len(up') : \E j \in 1..Len(up) : up'[i] = up[j]
<1> USE DEF UpTypes
<1>1. CASE up' = up
  BY <1>1
<1>2. CASE up' = <<>>
  <2>1. Len(up') = 0
    BY <1>2
  <2> QED
    BY <2>1
<1>3. CASE up # <<>> /\ up' = Tail(up)
  BY <1>3, SequenceTail
<1> QED
  BY <1>1, <1>2, <1>3

LEMMA StreamsKept ==
    ASSUME TypeInv, "opening" \notin overlaps, IdInv, [Next]_vars
    PROVE  LiveLinked' /\ OwnIds'
<1> USE DEF TypeInv, StateTypes, hubVars, followerVars, bounds, IdInv, LiveLinked, OwnIds, Live,
            EndStreams, StreamOf
<1>1. ASSUME NEW v \in Viewers, Open(v) PROVE LiveLinked' /\ OwnIds'
  BY <1>1 DEF Open
<1>2. ASSUME NEW v \in Viewers, ReadyTimeout(v) PROVE LiveLinked' /\ OwnIds'
  BY <1>2 DEF ReadyTimeout
<1>3. ASSUME NEW v \in Viewers, CloseStream(v) PROVE LiveLinked' /\ OwnIds'
  BY <1>3 DEF CloseStream
<1>4. CASE OnReady
  BY <1>4 DEF OnReady
<1>5. CASE OnData
  BY <1>5 DEF OnData
<1>6. CASE OnEnd
  BY <1>6 DEF OnEnd
<1>7. CASE HubLosesLink
  BY <1>7 DEF HubLosesLink
<1>8. CASE PrimaryRestart
  BY <1>8 DEF PrimaryRestart
<1>9. CASE OnOpen
  BY <1>9 DEF OnOpen
<1>10. CASE OnStreamClose
  BY <1>10 DEF OnStreamClose
<1>11. CASE FollowerLosesLink
  BY <1>11 DEF FollowerLosesLink
<1>12. CASE Connect
  BY <1>12 DEF Connect
<1>13. ASSUME NEW o \in opening, Refuse(o) PROVE LiveLinked' /\ OwnIds'
  BY <1>13 DEF Refuse
<1>14. ASSUME NEW o \in opening, StartTail(o) PROVE LiveLinked' /\ OwnIds'
  BY <1>14 DEF StartTail
<1>15. ASSUME NEW o \in running, TailLine(o) PROVE LiveLinked' /\ OwnIds'
  BY <1>15 DEF TailLine
<1>16. ASSUME NEW o \in running, TailExits(o) PROVE LiveLinked' /\ OwnIds'
  BY <1>16 DEF TailExits
<1>17. CASE UNCHANGED vars
  BY <1>17 DEF vars
<1> QED
  BY <1>1, <1>2, <1>3, <1>4, <1>5, <1>6, <1>7, <1>8, <1>9, <1>10, <1>11, <1>12, <1>13,
            <1>14, <1>15, <1>16, <1>17 DEF Next, HubStep, OpenStep

LEMMA MappedKept ==
    ASSUME TypeInv, "opening" \notin overlaps, IdInv, [Next]_vars
    PROVE  Mapped'
<1> USE DEF TypeInv, StateTypes, hubVars, followerVars, bounds, IdInv, Mapped, OpenOnce, Pending
<1>1. ASSUME NEW v \in Viewers, Open(v) PROVE Mapped'
  BY <1>1 DEF Open
<1>2. ASSUME NEW v \in Viewers, ReadyTimeout(v) PROVE Mapped'
  BY <1>2 DEF ReadyTimeout
<1>3. ASSUME NEW v \in Viewers, CloseStream(v) PROVE Mapped'
  BY <1>3 DEF CloseStream
<1>4. CASE OnReady
  BY <1>4 DEF OnReady
<1>5. CASE OnData
  BY <1>5 DEF OnData
<1>6. CASE OnEnd
  BY <1>6 DEF OnEnd
<1>7. CASE HubLosesLink
  BY <1>7 DEF HubLosesLink
<1>8. CASE PrimaryRestart
  BY <1>8 DEF PrimaryRestart
<1>9. CASE OnOpen
  BY <1>9 DEF OnOpen
<1>10. CASE OnStreamClose
  BY <1>10 DEF OnStreamClose
<1>11. CASE FollowerLosesLink
  BY <1>11 DEF FollowerLosesLink
<1>12. CASE Connect
  BY <1>12 DEF Connect
<1>13. ASSUME NEW o \in opening, Refuse(o) PROVE Mapped'
  BY <1>13 DEF Refuse
<1>14. ASSUME NEW o \in opening, StartTail(o) PROVE Mapped'
  BY <1>14 DEF StartTail
<1>15. ASSUME NEW o \in running, TailLine(o) PROVE Mapped'
  BY <1>15 DEF TailLine
<1>16. ASSUME NEW o \in running, TailExits(o) PROVE Mapped'
  BY <1>16 DEF TailExits
<1>17. CASE UNCHANGED vars
  BY <1>17 DEF vars
<1> QED
  BY <1>1, <1>2, <1>3, <1>4, <1>5, <1>6, <1>7, <1>8, <1>9, <1>10, <1>11, <1>12, <1>13,
            <1>14, <1>15, <1>16, <1>17 DEF Next, HubStep, OpenStep

LEMMA CutKept ==
    ASSUME TypeInv, "opening" \notin overlaps, IdInv, [Next]_vars
    PROVE  CutClean'
<1> USE DEF TypeInv, StateTypes, hubVars, followerVars, bounds, IdInv, Mapped, CutClean,
            Pending, ToFollower, ToPrimary
<1>1. ASSUME NEW v \in Viewers, Open(v) PROVE CutClean'
  BY <1>1 DEF Open
<1>2. ASSUME NEW v \in Viewers, ReadyTimeout(v) PROVE CutClean'
  BY <1>2 DEF ReadyTimeout
<1>3. ASSUME NEW v \in Viewers, CloseStream(v) PROVE CutClean'
  BY <1>3 DEF CloseStream
<1>4. CASE OnReady
  BY <1>4 DEF OnReady
<1>5. CASE OnData
  BY <1>5 DEF OnData
<1>6. CASE OnEnd
  BY <1>6 DEF OnEnd
<1>7. CASE HubLosesLink
  BY <1>7 DEF HubLosesLink
<1>8. CASE PrimaryRestart
  BY <1>8 DEF PrimaryRestart
<1>9. CASE OnOpen
  BY <1>9 DEF OnOpen
<1>10. CASE OnStreamClose
  BY <1>10 DEF OnStreamClose
<1>11. CASE FollowerLosesLink
  BY <1>11 DEF FollowerLosesLink
<1>12. CASE Connect
  BY <1>12 DEF Connect
<1>13. ASSUME NEW o \in opening, Refuse(o) PROVE CutClean'
  BY <1>13 DEF Refuse
<1>14. ASSUME NEW o \in opening, StartTail(o) PROVE CutClean'
  BY <1>14 DEF StartTail
<1>15. ASSUME NEW o \in running, TailLine(o) PROVE CutClean'
  BY <1>15 DEF TailLine
<1>16. ASSUME NEW o \in running, TailExits(o) PROVE CutClean'
  BY <1>16 DEF TailExits
<1>17. CASE UNCHANGED vars
  BY <1>17 DEF vars
<1> QED
  BY <1>1, <1>2, <1>3, <1>4, <1>5, <1>6, <1>7, <1>8, <1>9, <1>10, <1>11, <1>12, <1>13,
            <1>14, <1>15, <1>16, <1>17 DEF Next, HubStep, OpenStep

LEMMA HeardKept ==
    ASSUME TypeInv, "opening" \notin overlaps, IdInv, [Next]_vars
    PROVE  HeardOwn'
<1> USE DEF TypeInv, StateTypes, hubVars, followerVars, bounds, IdInv, HeardOwn
<1>1. ASSUME NEW v \in Viewers, Open(v) PROVE HeardOwn'
  BY <1>1 DEF Open
<1>2. ASSUME NEW v \in Viewers, ReadyTimeout(v) PROVE HeardOwn'
  BY <1>2 DEF ReadyTimeout
<1>3. ASSUME NEW v \in Viewers, CloseStream(v) PROVE HeardOwn'
  BY <1>3 DEF CloseStream
<1>4. CASE OnReady
  BY <1>4 DEF OnReady
<1>5. CASE OnData
  <2>1. 1 \in 1..Len(up) /\ Head(up) = up[1]
    BY <1>5, SequenceTail DEF OnData, UpTypes
  <2>2. Theirs(Head(up).id, Head(up).viewer)
    BY <1>5, <2>1 DEF OnData, Owned, CutClean
  <2> QED
    BY <1>5, <2>2 DEF OnData, Theirs, StreamOf
<1>6. CASE OnEnd
  BY <1>6 DEF OnEnd
<1>7. CASE HubLosesLink
  BY <1>7 DEF HubLosesLink
<1>8. CASE PrimaryRestart
  BY <1>8 DEF PrimaryRestart
<1>9. CASE OnOpen
  BY <1>9 DEF OnOpen
<1>10. CASE OnStreamClose
  BY <1>10 DEF OnStreamClose
<1>11. CASE FollowerLosesLink
  BY <1>11 DEF FollowerLosesLink
<1>12. CASE Connect
  BY <1>12 DEF Connect
<1>13. ASSUME NEW o \in opening, Refuse(o) PROVE HeardOwn'
  BY <1>13 DEF Refuse
<1>14. ASSUME NEW o \in opening, StartTail(o) PROVE HeardOwn'
  BY <1>14 DEF StartTail
<1>15. ASSUME NEW o \in running, TailLine(o) PROVE HeardOwn'
  BY <1>15 DEF TailLine
<1>16. ASSUME NEW o \in running, TailExits(o) PROVE HeardOwn'
  BY <1>16 DEF TailExits
<1>17. CASE UNCHANGED vars
  BY <1>17 DEF vars
<1> QED
  BY <1>1, <1>2, <1>3, <1>4, <1>5, <1>6, <1>7, <1>8, <1>9, <1>10, <1>11, <1>12, <1>13,
            <1>14, <1>15, <1>16, <1>17 DEF Next, HubStep, OpenStep

LEMMA OpenOnceShrinks ==
    ASSUME TypeInv, OpenOnce, Pending' \subseteq Pending,
           down' = down \/ down' = <<>> \/ (down # <<>> /\ down' = Tail(down))
    PROVE  OpenOnce'
<1> PICK k \in {0, 1} : \A i \in 1..Len(down') : i + k \in 1..Len(down) /\ down'[i] = down[i + k]
  BY DownShrinks DEF TypeInv
<1>1. \A i, j \in 1..Len(down') : i + k = j + k => i = j
  OBVIOUS
<1>2. ASSUME NEW i \in 1..Len(down'), NEW j \in 1..Len(down'),
             down'[i].t = "stream-open", down'[j].t = "stream-open", down'[i].id = down'[j].id
      PROVE  i = j
  <2>1. i + k = j + k
    BY <1>2 DEF OpenOnce
  <2> QED
    BY <1>1, <2>1
<1>3. ASSUME NEW i \in 1..Len(down'), down'[i].t = "stream-open", NEW h \in Pending'
      PROVE  h.id # down'[i].id
  BY <1>3 DEF OpenOnce
<1>4. \A g, h \in Pending' : g.id = h.id => g = h
  BY DEF OpenOnce
<1> QED
  BY <1>2, <1>3, <1>4 DEF OpenOnce

LEMMA PendingTypes ==
    ASSUME TypeInv, NEW h \in Pending
    PROVE  h \in [id : Nat, viewer : Viewers] /\ h.id # 0
BY DEF TypeInv, StateTypes, Pending, Handles, Ids

LEMMA OpenOnceKept ==
    ASSUME TypeInv, "opening" \notin overlaps, IdInv, [Next]_vars
    PROVE  OpenOnce'
<1> USE DEF TypeInv, hubVars, followerVars, bounds, IdInv
<1>1. ASSUME NEW v \in Viewers, Open(v) PROVE OpenOnce'
  <2> DEFINE f == [t |-> "stream-open", id |-> counter + 1, viewer |-> v]
  <2>1. f \in DownFrames /\ f.t = "stream-open" /\ f.id = counter + 1 /\ counter \in Nat
    BY DEF DownFrames, StateTypes
  <2>2. Pending' = Pending /\ (down' = down \/ (hubLink /\ folLink /\ down' = Append(down, f)))
    BY <1>1 DEF Open, Pending, ToFollower
  <2> HIDE DEF f
  <2>3. CASE down' = down
    BY <2>2, <2>3, OpenOnceShrinks
  <2>4. CASE hubLink /\ folLink /\ down' = Append(down, f)
    <3>1. \A h \in Pending : h.id \in Nat /\ h.id <= counter
      BY <2>4, PendingTypes DEF Owned, Theirs
    <3>2. \A i \in 1..Len(down) : down[i].t = "stream-open" => down[i].id # f.id
      <4>1. ASSUME NEW i \in 1..Len(down), down[i].t = "stream-open" PROVE down[i].id # f.id
        <5>1. down[i].id <= counter /\ down[i] \in DownFrames
          BY <2>4, <4>1 DEF Owned, Theirs, DownTypes
        <5> QED
          BY <2>1, <5>1 DEF DownFrames
      <4> QED
        BY <4>1
    <3>3. \A i \in 1..Len(down') :
            \/ i \in 1..Len(down) /\ down'[i] = down[i]
            \/ i = Len(down) + 1 /\ down'[i] = f
      BY <2>1, <2>4, SequenceAppend DEF DownTypes
    <3>4. \A h \in Pending : h.id # f.id
      BY <2>1, <3>1
    <3> QED
      BY <2>2, <3>2, <3>3, <3>4 DEF OpenOnce
  <2> QED
    BY <2>2, <2>3, <2>4
<1>2. ASSUME NEW v \in Viewers, CloseStream(v) PROVE OpenOnce'
  <2> DEFINE f == Frame("stream-close", Handle(v))
  <2>1. f \in DownFrames /\ f.t = "stream-close"
    BY FrameTypes DEF Handle, StateTypes
  <2>2. Pending' = Pending /\ (down' = down \/ down' = Append(down, f))
    BY <1>2 DEF CloseStream, Pending, ToFollower
  <2> HIDE DEF f
  <2>3. CASE down' = down
    BY <2>2, <2>3, OpenOnceShrinks
  <2>4. CASE down' = Append(down, f)
    <3>1. \A i \in 1..Len(down') :
            \/ i \in 1..Len(down) /\ down'[i] = down[i]
            \/ i = Len(down) + 1 /\ down'[i] = f
      BY <2>1, <2>4, SequenceAppend DEF DownTypes
    <3> QED
      BY <2>1, <2>2, <3>1 DEF OpenOnce
  <2> QED
    BY <2>2, <2>3, <2>4
<1>3. CASE OnOpen
  <2> DEFINE h == [id |-> Head(down).id, viewer |-> Head(down).viewer]
  <2>1. /\ 1 \in 1..Len(down) /\ Head(down) = down[1] /\ down[1].t = "stream-open"
        /\ \A i \in 1..Len(down') : i + 1 \in 1..Len(down) /\ down'[i] = down[i + 1] /\ i + 1 # 1
    BY <1>3, SequenceTail DEF OnOpen, DownTypes
  <2>2. Pending' \subseteq Pending \cup {h} /\ h.id = down[1].id
    BY <1>3, <2>1 DEF OnOpen, Pending
  <2> HIDE DEF h
  <2>3. \A g \in Pending : g.id # h.id
    BY <2>1, <2>2 DEF OpenOnce
  <2>4. \A i \in 1..Len(down') : down'[i].t = "stream-open" => down'[i].id # h.id
    BY <2>1, <2>2 DEF OpenOnce
  <2>5. ASSUME NEW i \in 1..Len(down'), NEW j \in 1..Len(down'),
               down'[i].t = "stream-open", down'[j].t = "stream-open", down'[i].id = down'[j].id
        PROVE  i = j
    <3>1. i + 1 = j + 1
      BY <2>1, <2>5 DEF OpenOnce
    <3> QED
      BY <3>1
  <2>6. ASSUME NEW i \in 1..Len(down'), down'[i].t = "stream-open", NEW g \in Pending'
        PROVE  g.id # down'[i].id
    BY <2>1, <2>2, <2>4, <2>6 DEF OpenOnce
  <2>7. \A g, e \in Pending' : g.id = e.id => g = e
    BY <2>2, <2>3 DEF OpenOnce
  <2> QED
    BY <2>5, <2>6, <2>7 DEF OpenOnce
<1>4. ASSUME NEW v \in Viewers, ReadyTimeout(v) PROVE OpenOnce'
  BY <1>4, OpenOnceShrinks DEF ReadyTimeout, Pending
<1>5. CASE HubStep \/ HubLosesLink \/ PrimaryRestart \/ Connect \/ UNCHANGED vars
  BY <1>5, OpenOnceShrinks DEF HubStep, OnReady, OnData, OnEnd, HubLosesLink, PrimaryRestart, Connect, vars, Pending
<1>6. CASE OnStreamClose \/ FollowerLosesLink
  BY <1>6, OpenOnceShrinks DEF OnStreamClose, FollowerLosesLink, Pending
<1>7. ASSUME NEW o \in opening, OpenStep(o) PROVE OpenOnce'
  BY <1>7, OpenOnceShrinks DEF OpenStep, Refuse, StartTail, Pending
<1>8. ASSUME NEW o \in running, TailLine(o) \/ TailExits(o) PROVE OpenOnce'
  BY <1>8, OpenOnceShrinks DEF TailLine, TailExits, Pending
<1> QED
  BY <1>1, <1>2, <1>3, <1>4, <1>5, <1>6, <1>7, <1>8 DEF Next

(* What is on its way stays with its stream while no stream is opened.      *)
LEMMA OwnedStays ==
    ASSUME TypeInv, Owned, folLink' /\ hubLink' => folLink /\ hubLink,
           counter' = counter, sid' = sid, \A w \in Viewers : Live(w)' => Live(w),
           \A h \in Pending' : \/ h \in Pending
                               \/ \E i \in 1..Len(down) :
                                    down[i].t = "stream-open" /\ h.id = down[i].id /\ h.viewer = down[i].viewer,
           \A i \in 1..Len(down') : down'[i].t = "stream-open" =>
                \E j \in 1..Len(down) : down'[i] = down[j],
           \A i \in 1..Len(up') : \/ \E j \in 1..Len(up) : up'[i] = up[j]
                                  \/ \E h \in Pending : up'[i].id = h.id /\ up'[i].viewer = h.viewer
    PROVE  Owned'
<1> DEFINE Then(id, viewer) == id <= counter' /\ \A w \in Viewers : Live(w)' /\ sid'[w] = id => w = viewer
<1>1. \A id, viewer : folLink' /\ hubLink' /\ Theirs(id, viewer) => folLink /\ hubLink /\ Then(id, viewer)
  BY DEF Theirs
<1> HIDE DEF Then
<1>2. ASSUME folLink', hubLink', NEW h \in Pending' PROVE Then(h.id, h.viewer)
  BY <1>1, <1>2 DEF Owned
<1>3. ASSUME folLink', hubLink', NEW i \in 1..Len(down'), down'[i].t = "stream-open"
      PROVE  Then(down'[i].id, down'[i].viewer)
  BY <1>1, <1>3 DEF Owned
<1>4. ASSUME folLink', hubLink', NEW i \in 1..Len(up') PROVE Then(up'[i].id, up'[i].viewer)
  BY <1>1, <1>4 DEF Owned
<1> QED
  BY <1>2, <1>3, <1>4 DEF Owned, Theirs, Then

(* ... nor when a tail sends a frame. *)
LEMMA TailSends ==
    ASSUME TypeInv, Owned, UNCHANGED <<hubVars, folLink, down>>, Pending' \subseteq Pending,
           NEW h \in Pending, NEW kind \in {"stream-ready", "stream-data", "stream-end"},
           up' = ToPrimary(up, Frame(kind, h))
    PROVE  Owned'
<1> DEFINE f == Frame(kind, h)
<1>1. f \in UpFrames /\ f.id = h.id /\ f.viewer = h.viewer
  BY PendingTypes DEF Frame, UpFrames
<1>2. up' = up \/ up' = Append(up, f)
  BY DEF ToPrimary
<1> HIDE DEF f
<1>3. \A i \in 1..Len(up') : (\E j \in 1..Len(up) : up'[i] = up[j]) \/ up'[i] = f
  <2>1. CASE up' = up
    BY <2>1
  <2>2. CASE up' = Append(up, f)
    BY <1>1, <2>2, SequenceAppend DEF TypeInv, UpTypes
  <2> QED
    BY <1>2, <2>1, <2>2
<1>4. \A w \in Viewers : Live(w)' => Live(w)
  BY DEF Live, hubVars
<1> QED
  BY <1>1, <1>3, <1>4, OwnedStays DEF hubVars

LEMMA OwnedKept ==
    ASSUME TypeInv, "opening" \notin overlaps, IdInv, [Next]_vars
    PROVE  Owned'
<1> USE DEF TypeInv, hubVars, followerVars, bounds, IdInv
<1>1. ASSUME NEW v \in Viewers, Open(v) PROVE Owned'
  <2> DEFINE f == [t |-> "stream-open", id |-> counter + 1, viewer |-> v]
             Then(id, viewer) == id <= counter' /\ \A w \in Viewers : Live(w)' /\ sid'[w] = id => w = viewer
  <2> SUFFICES ASSUME folLink', hubLink' PROVE Owned'
    BY DEF Owned
  <2>1. f \in DownFrames /\ f.id = counter + 1 /\ f.viewer = v /\ counter \in Nat
    BY DEF DownFrames, StateTypes
  <2>2. /\ hubLink /\ folLink /\ counter' = counter + 1
        /\ sid' = [sid EXCEPT ![v] = counter + 1] /\ state' = [state EXCEPT ![v] = "opening"]
        /\ down' = Append(down, f) /\ up' = up /\ Pending' = Pending
    BY <1>1 DEF Open, ToFollower, Pending
  <2>3. \A id \in Nat : \A viewer : Theirs(id, viewer) => Then(id, viewer)
    BY <2>1, <2>2 DEF Theirs, Live, StateTypes
  <2>4. Then(f.id, f.viewer)
    <3>1. \A w \in Viewers \ {v} : Live(w)' => sid'[w] # f.id
      BY <2>1, <2>2 DEF Live, LiveLinked, StateTypes
    <3> QED
      BY <2>1, <2>2, <3>1
  <2> HIDE DEF f, Then
  <2>5. \A h \in Pending' : Then(h.id, h.viewer)
    BY <2>2, <2>3, PendingTypes DEF Owned
  <2>6. \A i \in 1..Len(up') : Then(up'[i].id, up'[i].viewer)
    <3>1. \A i \in 1..Len(up) : up[i].id \in Nat
      <4>1. \A i \in 1..Len(up) : up[i] \in UpFrames
        BY DEF UpTypes
      <4> QED
        BY <4>1 DEF UpFrames
    <3> QED
      BY <2>2, <2>3, <3>1 DEF Owned
  <2>7. \A i \in 1..Len(down') : down'[i].t = "stream-open" => Then(down'[i].id, down'[i].viewer)
    <3>1. \A i \in 1..Len(down) : down[i].id \in Nat
      <4>1. \A i \in 1..Len(down) : down[i] \in DownFrames
        BY DEF DownTypes
      <4> QED
        BY <4>1 DEF DownFrames
    <3>2. \A i \in 1..Len(down') : (i \in 1..Len(down) /\ down'[i] = down[i]) \/ down'[i] = f
      BY <2>1, <2>2, SequenceAppend DEF DownTypes
    <3> QED
      BY <2>2, <2>3, <2>4, <3>1, <3>2 DEF Owned
  <2> QED
    BY <2>5, <2>6, <2>7 DEF Owned, Theirs, Then
<1>2. ASSUME NEW v \in Viewers, CloseStream(v) PROVE Owned'
  <2> DEFINE f == Frame("stream-close", Handle(v))
  <2>1. f \in DownFrames /\ f.t = "stream-close"
    BY FrameTypes DEF Handle, StateTypes
  <2>2. /\ Pending' = Pending /\ (down' = down \/ down' = Append(down, f)) /\ up' = up
        /\ \A w \in Viewers : Live(w)' => Live(w)
    BY <1>2 DEF CloseStream, Pending, ToFollower, Live, StateTypes
  <2> HIDE DEF f
  <2>3. \A i \in 1..Len(down') : down'[i].t = "stream-open" => \E j \in 1..Len(down) : down'[i] = down[j]
    <3>1. CASE down' = down
      BY <3>1
    <3>2. CASE down' = Append(down, f)
      BY <2>1, <3>2, SequenceAppend DEF DownTypes
    <3> QED
      BY <2>2, <3>1, <3>2
  <2> QED
    BY <1>2, <2>2, <2>3, OwnedStays DEF CloseStream
<1>3. CASE OnOpen
  <2>1. PICK k \in {0, 1} : \A i \in 1..Len(down') : i + k \in 1..Len(down) /\ down'[i] = down[i + k]
    BY <1>3, DownShrinks DEF OnOpen
  <2>2. 1 \in 1..Len(down) /\ Head(down) = down[1] /\ down[1].t = "stream-open"
    BY <1>3, SequenceTail DEF OnOpen, DownTypes
  <2>3. \A h \in Pending' : h \in Pending \/ (h.id = down[1].id /\ h.viewer = down[1].viewer)
    BY <1>3, <2>2 DEF OnOpen, Pending
  <2>4. \A w \in Viewers : Live(w)' => Live(w)
    BY <1>3 DEF OnOpen, Live
  <2> QED
    BY <1>3, <2>1, <2>2, <2>3, <2>4, OwnedStays DEF OnOpen
<1>4. CASE OnStreamClose
  <2>1. PICK k \in {0, 1} : \A i \in 1..Len(down') : i + k \in 1..Len(down) /\ down'[i] = down[i + k]
    BY <1>4, DownShrinks DEF OnStreamClose
  <2>2. Pending' \subseteq Pending /\ \A w \in Viewers : Live(w)' => Live(w)
    BY <1>4 DEF OnStreamClose, Pending, Live
  <2> QED
    BY <1>4, <2>1, <2>2, OwnedStays DEF OnStreamClose
<1>5. CASE HubStep
  <2>1. \A i \in 1..Len(up') : \E j \in 1..Len(up) : up'[i] = up[j]
    BY <1>5, UpShrinks DEF HubStep, OnReady, OnData, OnEnd
  <2>2. Pending' = Pending /\ \A w \in Viewers : Live(w)' => Live(w)
    BY <1>5 DEF HubStep, OnReady, OnData, OnEnd, EndStreams, StreamOf, Pending, Live
  <2> QED
    BY <1>5, <2>1, <2>2, OwnedStays DEF HubStep, OnReady, OnData, OnEnd
<1>6. ASSUME NEW v \in Viewers, ReadyTimeout(v) PROVE Owned'
  <2>1. Pending' = Pending /\ \A w \in Viewers : Live(w)' => Live(w)
    BY <1>6 DEF ReadyTimeout, EndStreams, Pending, Live
  <2> QED
    BY <1>6, <2>1, OwnedStays DEF ReadyTimeout
<1>7. CASE HubLosesLink \/ PrimaryRestart \/ FollowerLosesLink
  BY <1>7 DEF HubLosesLink, PrimaryRestart, FollowerLosesLink, Owned
<1>8. CASE Connect
  <2>1. Pending' = {} /\ down' = <<>> /\ up' = <<>>
    BY <1>8 DEF Connect, CutClean, Pending
  <2>2. Len(down') = 0 /\ Len(up') = 0
    BY <2>1
  <2> QED
    BY <2>1, <2>2 DEF Owned
<1>9. ASSUME NEW o \in opening, OpenStep(o) PROVE Owned'
  <2>1. o \in Pending /\ Pending' \subseteq Pending
    BY <1>9 DEF OpenStep, Refuse, StartTail, Pending
  <2>2. CASE Refuse(o)
    BY <2>1, <2>2, TailSends DEF Refuse
  <2>3. CASE StartTail(o)
    BY <2>1, <2>3, TailSends DEF StartTail
  <2> QED
    BY <1>9, <2>2, <2>3 DEF OpenStep
<1>10. ASSUME NEW o \in running, TailLine(o) \/ TailExits(o) PROVE Owned'
  <2>1. o \in Pending /\ Pending' \subseteq Pending
    BY <1>10 DEF TailLine, TailExits, Pending
  <2>2. CASE TailLine(o)
    BY <2>1, <2>2, TailSends DEF TailLine
  <2>3. CASE TailExits(o)
    BY <2>1, <2>3, TailSends DEF TailExits
  <2> QED
    BY <1>10, <2>2, <2>3
<1>11. CASE UNCHANGED vars
  BY <1>11 DEF vars, Owned, Theirs, Pending, Live
<1> QED
  BY <1>1, <1>2, <1>3, <1>4, <1>5, <1>6, <1>7, <1>8, <1>9, <1>10, <1>11 DEF Next

LEMMA DisciplineFixed ==
    ASSUME [Next]_vars
    PROVE  overlaps' = overlaps
<1> USE DEF bounds
<1>1. CASE HubStep \/ HubLosesLink \/ PrimaryRestart \/ OnOpen \/ OnStreamClose \/ FollowerLosesLink \/ Connect
  BY <1>1 DEF HubStep, OnReady, OnData, OnEnd, HubLosesLink, PrimaryRestart, OnOpen, OnStreamClose,
              FollowerLosesLink, Connect
<1>2. ASSUME NEW v \in Viewers, Open(v) \/ ReadyTimeout(v) \/ CloseStream(v) PROVE overlaps' = overlaps
  BY <1>2 DEF Open, ReadyTimeout, CloseStream
<1>3. ASSUME NEW o, OpenStep(o) \/ TailLine(o) \/ TailExits(o) PROVE overlaps' = overlaps
  BY <1>3 DEF OpenStep, Refuse, StartTail, TailLine, TailExits
<1> QED
  BY <1>1, <1>2, <1>3 DEF Next, vars

(* Where no close and no loss hits an open's await, a viewer is shown lines *)
(* of its own console only: however often links are lost and made, whichever *)
(* end notices first, and although ids start over with the primary.          *)
THEOREM LinesAreOwn == Spec => []OwnLines
<1> DEFINE Kept == "opening" \notin overlaps => IdInv
<1>1. Init => IdInv
  <2> SUFFICES ASSUME Init PROVE IdInv
    OBVIOUS
  <2>1. LiveLinked /\ OwnIds /\ Mapped /\ HeardOwn
    BY DEF Init, LiveLinked, OwnIds, Live, Mapped, HeardOwn
  <2>2. Pending = {} /\ Len(down) = 0 /\ ~folLink /\ down = <<>> /\ up = <<>>
    BY DEF Init, Pending
  <2> QED
    BY <2>1, <2>2 DEF IdInv, OpenOnce, CutClean, Owned
<1>2. TypeInv /\ Kept /\ [Next]_vars => Kept'
  <2> SUFFICES ASSUME TypeInv, Kept, [Next]_vars, "opening" \notin overlaps PROVE IdInv'
    BY DisciplineFixed
  <2>1. LiveLinked' /\ OwnIds' /\ Mapped' /\ CutClean' /\ HeardOwn'
    BY StreamsKept, MappedKept, CutKept, HeardKept
  <2>2. OpenOnce' /\ Owned'
    BY OpenOnceKept, OwnedKept
  <2> QED
    BY <2>1, <2>2 DEF IdInv
<1>3. Kept => OwnLines
  BY DEF IdInv, HeardOwn, OwnLines
<1> QED
  BY <1>1, <1>2, <1>3, TypesHold, PTL DEF Spec
=============================================================================
