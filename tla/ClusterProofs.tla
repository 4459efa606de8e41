---------------------------- MODULE ClusterProofs ----------------------------
(***************************************************************************)
(* Theorems about a primary and its follower: ClusterLink, for any sockets, *)
(* calls and bounds, and StateSync, for any state files, edits, overlaps   *)
(* and registrations.                                                      *)
(***************************************************************************)
EXTENDS ClusterLink, StateSync, SequenceTheorems, TLAPS

-----------------------------------------------------------------------------
(* The link *)

(* A channel that carries frames of S still does after a send of one. *)
LEMMA SentType ==
    ASSUME NEW S, NEW ch \in [Socks -> Seq(S)], NEW s, NEW f \in S
    PROVE  Sent(ch, s, f) \in [Socks -> Seq(S)]
<1>1. CASE s \in Socks
  <2>1. Append(ch[s], f) \in Seq(S)
    BY <1>1, AppendProperties
  <2> QED
    BY <1>1, <2>1 DEF Sent
<1>2. CASE s \notin Socks
  BY <1>2 DEF Sent
<1> QED
  BY <1>1, <1>2

(* What comes out of a channel was in it, and so was all that stays. *)
LEMMA ReceivedType ==
    ASSUME NEW S, NEW ch \in [Socks -> Seq(S)], NEW s \in Socks, Head1(ch, s)
    PROVE  /\ Head(ch[s]) \in S
           /\ Received(ch, s) \in [Socks -> Seq(S)]
<1>1. ch[s] \in Seq(S) /\ ch[s] # <<>>
  BY DEF Head1
<1>2. Head(ch[s]) \in S /\ Tail(ch[s]) \in Seq(S)
  BY <1>1, HeadTailProperties
<1> QED
  BY <1>2 DEF Received

LEMMA FrameTypes ==
    /\ Register \in Frames
    /\ Close \in Frames
    /\ \A n \in Nat, c \in Calls :
         Frame("rpc", n, c) \in Frames /\ Frame("result", n, c) \in Frames
BY DEF Register, Close, Frame, Frames

LEMMA InitType == Init => TypeOK
BY ConstantsAssumption, EmptySeq DEF Init, TypeOK

LEMMA NextType == TypeOK /\ [Next]_vars => TypeOK'
<1> SUFFICES ASSUME TypeOK, [Next]_vars PROVE TypeOK'
  OBVIOUS
<1> USE ConstantsAssumption DEF TypeOK, hubVars, followerVars, netVars, bounds
<1>1. ASSUME Dial PROVE TypeOK'
  <2>1. down' \in [Socks -> Seq(Frames)]
    BY <1>1, EmptySeq DEF Dial
  <2>2. up' \in [Socks -> Seq(Frames)]
    BY <1>1, EmptySeq DEF Dial
  <2> QED
    BY <1>1, <2>1, <2>2 DEF Dial
<1>2. ASSUME Open PROVE TypeOK'
  BY <1>2, SentType, FrameTypes DEF Open
<1>3. ASSUME DialFails PROVE TypeOK'
  BY <1>3 DEF DialFails, Fault, Reconnect
<1>4. ASSUME OnClose PROVE TypeOK'
  BY <1>4, ReceivedType DEF OnClose, Reconnect
<1>5. ASSUME Watchdog PROVE TypeOK'
  <2>1. up' \in [Socks -> Seq(Frames)]
    BY <1>5, SentType, FrameTypes DEF Watchdog
  <2>2. watch \in Socks /\ watch' = None /\ sock' = None /\ retry' = TRUE
    BY <1>5 DEF Watchdog, Reconnect
  <2>3. fstate' \in [Socks -> {"free", "dialling", "open", "closed"}]
    BY <1>5 DEF Watchdog, Reconnect
  <2>4. faults' \in 0..MaxFaults
    BY <1>5 DEF Watchdog, Fault
  <2> QED
    BY <1>5, <2>1, <2>2, <2>3, <2>4 DEF Watchdog
<1>6. ASSUME ReceiveOp PROVE TypeOK'
  <2> DEFINE frame == Head(down[sock])
  <2>1. frame \in Frames /\ frame.t = "rpc"
    BY <1>6, ReceivedType DEF ReceiveOp
  <2>2. [id |-> frame.id, call |-> frame.call] \in Ops
    BY <2>1 DEF Frames, Ops
  <2>3. down' \in [Socks -> Seq(Frames)]
    BY <1>6, ReceivedType DEF ReceiveOp
  <2> QED
    BY <1>6, <2>2, <2>3 DEF ReceiveOp
<1>7. ASSUME FinishOp PROVE TypeOK'
  <2>1. PICK op \in work :
           up' = IF sock # None /\ fstate[sock] = "open"
                 THEN Sent(up, sock, Frame("result", op.id, op.call)) ELSE up
    BY <1>7 DEF FinishOp
  <2>2. Frame("result", op.id, op.call) \in Frames
    BY FrameTypes DEF Ops
  <2>3. up' \in [Socks -> Seq(Frames)]
    BY <2>1, <2>2, SentType
  <2> QED
    BY <1>7, <2>3 DEF FinishOp
<1>8. ASSUME FollowerRestart PROVE TypeOK'
  <2>1. Sent(up, sock, Close) \in [Socks -> Seq(Frames)]
    BY SentType, FrameTypes
  <2>2. up' \in [Socks -> Seq(Frames)] /\ fstate' \in [Socks -> {"free", "dialling", "open", "closed"}]
    BY <1>8, <2>1 DEF FollowerRestart
  <2>3. work' \subseteq Ops /\ frestarts' \in 0..FollowerRestarts
    BY <1>8 DEF FollowerRestart
  <2> QED
    BY <1>8, <2>2, <2>3 DEF FollowerRestart
<1>9. ASSUME NEW s \in Socks, OnRegister(s) PROVE TypeOK'
  <2>1. down' \in [Socks -> Seq(Frames)]
    BY <1>9, ReceivedType DEF OnRegister, Incoming
  <2>2. up' \in [Socks -> Seq(Frames)]
    BY <1>9, ReceivedType DEF OnRegister, Incoming
  <2> QED
    BY <1>9, <2>1, <2>2 DEF OnRegister, RejectPending, Incoming
<1>10. ASSUME NEW s \in Socks, OnResult(s) PROVE TypeOK'
  <2> DEFINE frame == Head(up[s])
  <2>1. frame \in Frames /\ frame.t = "result"
    BY <1>10, ReceivedType DEF OnResult, Incoming
  <2>2. frame.call \in Calls
    BY <2>1 DEF Frames
  <2>3. up' \in [Socks -> Seq(Frames)]
    BY <1>10, ReceivedType DEF OnResult, Incoming
  <2> QED
    BY <1>10, <2>2, <2>3 DEF OnResult
<1>11. ASSUME NEW s \in Socks, OnStray(s) PROVE TypeOK'
  <2>1. down' \in [Socks -> Seq(Frames)]
    BY <1>11, ReceivedType, SentType, FrameTypes DEF OnStray, Incoming
  <2>2. up' \in [Socks -> Seq(Frames)]
    BY <1>11, ReceivedType, SentType, FrameTypes DEF OnStray, Incoming
  <2> QED
    BY <1>11, <2>1, <2>2 DEF OnStray, Incoming, Deregister, RejectPending
<1>12. ASSUME NEW s \in Socks, OnPeerClose(s) PROVE TypeOK'
  <2>1. down' \in [Socks -> Seq(Frames)]
    BY <1>12, ReceivedType DEF OnPeerClose, Incoming
  <2>2. up' \in [Socks -> Seq(Frames)]
    BY <1>12, ReceivedType DEF OnPeerClose, Incoming
  <2> QED
    BY <1>12, <2>1, <2>2 DEF OnPeerClose, Incoming, Deregister, RejectPending
<1>13. ASSUME NEW s \in Socks, ForgetDead(s) PROVE TypeOK'
  BY <1>13 DEF ForgetDead, Deregister, RejectPending
<1>14. ASSUME NEW s \in Socks, Cut(s) PROVE TypeOK'
  BY <1>14 DEF Cut, Fault
<1>15. ASSUME PingTimeout PROVE TypeOK'
  <2>1. down' \in [Socks -> Seq(Frames)]
    BY <1>15, SentType, FrameTypes DEF PingTimeout
  <2>2. up' \in [Socks -> Seq(Frames)]
    BY <1>15, SentType, FrameTypes DEF PingTimeout
  <2> QED
    BY <1>15, <2>1, <2>2 DEF PingTimeout, Fault, Deregister, RejectPending
<1>16. ASSUME NEW c \in Calls, Forward(c) PROVE TypeOK'
  <2> DEFINE n == counter + 1
  <2>1. n \in Nat
    OBVIOUS
  <2>5. Frame("rpc", n, c) \in Frames
    BY <2>1, FrameTypes
  <2>2. CASE link = None
    BY <1>16, <2>2 DEF Forward
  <2>3. CASE link # None
    <3>1. /\ counter' = n
          /\ issued' = [issued EXCEPT ![c] = n]
          /\ waiting' = waiting \cup {c}
          /\ down' = Sent(down, link, Frame("rpc", n, c))
          /\ UNCHANGED answer
      BY <1>16, <2>3 DEF Forward
    <3> HIDE DEF n
    <3>2. down' \in [Socks -> Seq(Frames)]
      BY <2>5, <3>1, SentType
    <3>3. issued' \in [Calls -> Nat]
      BY <2>1, <3>1
    <3> QED
      BY <1>16, <2>1, <3>1, <3>2, <3>3 DEF Forward
  <2> QED
    BY <2>2, <2>3
<1>17. ASSUME PrimaryRestart PROVE TypeOK'
  <2>1. \A s \in Socks : Append(down[s], Close) \in Seq(Frames)
    BY AppendProperties, FrameTypes
  <2>2. down' \in [Socks -> Seq(Frames)]
    BY <1>17, <2>1 DEF PrimaryRestart
  <2>3. up' \in [Socks -> Seq(Frames)]
    BY <1>17, EmptySeq DEF PrimaryRestart
  <2> QED
    BY <1>17, <2>2, <2>3 DEF PrimaryRestart, RejectPending
<1>18. CASE UNCHANGED vars
  BY <1>18 DEF vars
<1> QED
  BY <1>1, <1>2, <1>3, <1>4, <1>5, <1>6, <1>7, <1>8, <1>9, <1>10, <1>11, <1>12, <1>13, <1>14, <1>15, <1>16,
     <1>17, <1>18 DEF Next, FollowerStep, HubSocketStep

(* The state is well typed: one link, at most one watched socket, and       *)
(* channels that carry only the frames the two ends exchange.               *)
THEOREM TypeCorrect == Spec => []TypeOK
BY InitType, NextType, PTL DEF Spec

-----------------------------------------------------------------------------
(* The links.  OneWayBack and OpenIsWatched are not inductive: whoever       *)
(* leaves a socket must know that no other socket is dialling or open, and   *)
(* that the watchdog, when armed, is armed for the socket held now.          *)

Held ==
    /\ \A s \in Socks : s # sock => fstate[s] \in {"free", "closed"}
    /\ sock # None => fstate[sock] \in {"dialling", "open"}
    /\ watch \in {None, sock}

LinkInv == OneWayBack /\ OpenIsWatched /\ LinkIsOpen /\ WaitersHaveLink /\ Held

LEMMA InitLink == Init => LinkInv
BY ConstantsAssumption DEF Init, LinkInv, OneWayBack, OpenIsWatched, LinkIsOpen, WaitersHaveLink, Held

LEMMA NextLink == TypeOK /\ LinkInv /\ [Next]_vars => LinkInv'
<1> SUFFICES ASSUME TypeOK, LinkInv, [Next]_vars PROVE LinkInv'
  OBVIOUS
<1> USE ConstantsAssumption DEF LinkInv, OneWayBack, OpenIsWatched, LinkIsOpen,
      WaitersHaveLink, Held, hubVars, followerVars, netVars, bounds
<1>1. ASSUME Dial PROVE LinkInv'
  BY <1>1 DEF TypeOK, Dial, Reusable
<1>2. ASSUME Open PROVE LinkInv'
  BY <1>2 DEF TypeOK, Open
<1>3. ASSUME DialFails PROVE LinkInv'
  BY <1>3 DEF TypeOK, DialFails, Fault, Reconnect
<1>4. ASSUME OnClose PROVE LinkInv'
  BY <1>4 DEF TypeOK, OnClose, Reconnect
<1>5. ASSUME Watchdog PROVE LinkInv'
  BY <1>5 DEF TypeOK, Watchdog, Fault, Reconnect
<1>6. ASSUME ReceiveOp PROVE LinkInv'
  BY <1>6 DEF TypeOK, ReceiveOp
<1>7. ASSUME FinishOp PROVE LinkInv'
  BY <1>7 DEF TypeOK, FinishOp
<1>8. ASSUME FollowerRestart PROVE LinkInv'
  BY <1>8 DEF TypeOK, FollowerRestart
<1>9. ASSUME NEW s \in Socks, OnRegister(s) PROVE LinkInv'
  BY <1>9 DEF TypeOK, OnRegister, RejectPending, Incoming
<1>10. ASSUME NEW s \in Socks, OnResult(s) PROVE LinkInv'
  BY <1>10 DEF TypeOK, OnResult, Incoming
<1>11. ASSUME NEW s \in Socks, OnStray(s) PROVE LinkInv'
  BY <1>11 DEF TypeOK, OnStray, Incoming, Deregister, RejectPending
<1>12. ASSUME NEW s \in Socks, OnPeerClose(s) PROVE LinkInv'
  BY <1>12 DEF TypeOK, OnPeerClose, Incoming, Deregister, RejectPending
<1>13. ASSUME NEW s \in Socks, ForgetDead(s) PROVE LinkInv'
  BY <1>13 DEF TypeOK, ForgetDead, Deregister, RejectPending
<1>14. ASSUME NEW s \in Socks, Cut(s) PROVE LinkInv'
  BY <1>14 DEF TypeOK, Cut, Fault
<1>15. ASSUME PingTimeout PROVE LinkInv'
  BY <1>15 DEF TypeOK, PingTimeout, Fault, Deregister, RejectPending
<1>16. ASSUME NEW c \in Calls, Forward(c) PROVE LinkInv'
  BY <1>16 DEF TypeOK, Forward
<1>17. ASSUME PrimaryRestart PROVE LinkInv'
  BY <1>17 DEF TypeOK, PrimaryRestart, RejectPending
<1>18. CASE UNCHANGED vars
  BY <1>18 DEF TypeOK, vars
<1> QED
  BY <1>1, <1>2, <1>3, <1>4, <1>5, <1>6, <1>7, <1>8, <1>9, <1>10, <1>11, <1>12, <1>13, <1>14, <1>15, <1>16,
     <1>17, <1>18 DEF Next, FollowerStep, HubSocketStep

(* The four properties of the links hold together, after any dial, close,   *)
(* silence, loss and restart of either end.                                 *)
THEOREM LinksCorrect == Spec => []LinkInv
<1>1. Init => TypeOK /\ LinkInv
  BY InitType, InitLink
<1>2. TypeOK /\ LinkInv /\ [Next]_vars => (TypeOK /\ LinkInv)'
  BY NextType, NextLink
<1> QED
  BY <1>1, <1>2, PTL DEF Spec

(* The follower always has a socket or a retry timer, and never both. *)
THEOREM AlwaysOneWayBack == Spec => []OneWayBack
BY LinksCorrect, PTL DEF LinkInv

(* The silence watchdog is armed for every socket that is open. *)
THEOREM OpenSocketsWatched == Spec => []OpenIsWatched
BY LinksCorrect, PTL DEF LinkInv

(* Operations are routed to a socket the primary holds open. *)
THEOREM RoutedToOpenLink == Spec => []LinkIsOpen
BY LinksCorrect, PTL DEF LinkInv

(* No call waits without a link whose close would settle it. *)
THEOREM NoCallWaitsWithoutLink == Spec => []WaitersHaveLink
BY LinksCorrect, PTL DEF LinkInv

(* A replaced socket that closes late leaves the current link alone. *)
THEOREM LateCloseIsHarmless == Spec => LinkLostWithItsSocket
<1>1. TypeOK /\ LinkInv /\ [Next]_vars
        => [link # None /\ link' = None => link \notin hubOpen']_vars
  <2> SUFFICES ASSUME TypeOK, LinkInv, Next, link # None, link' = None
               PROVE  link \notin hubOpen'
    OBVIOUS
  <2> USE ConstantsAssumption DEF TypeOK, hubVars, followerVars, netVars, bounds
  <2>1. ASSUME FollowerStep PROVE FALSE
    BY <2>1 DEF FollowerStep, Dial, Open, DialFails, OnClose, Watchdog, ReceiveOp, FinishOp,
         FollowerRestart, Reconnect, Fault
  <2>2. ASSUME NEW s \in Socks, HubSocketStep(s) \/ Cut(s) PROVE link \notin hubOpen'
    BY <2>2 DEF HubSocketStep, OnRegister, OnResult, OnStray, OnPeerClose, ForgetDead, Cut,
         Deregister, Incoming
  <2>3. ASSUME PingTimeout PROVE link \notin hubOpen'
    BY <2>3 DEF PingTimeout, Deregister
  <2>4. ASSUME NEW c \in Calls, Forward(c) PROVE FALSE
    BY <2>4 DEF Forward
  <2>5. ASSUME PrimaryRestart PROVE link \notin hubOpen'
    BY <2>5 DEF PrimaryRestart
  <2> QED
    BY <2>1, <2>2, <2>3, <2>4, <2>5 DEF Next
<1>2. Spec => [](TypeOK /\ LinkInv)
  BY TypeCorrect, LinksCorrect, PTL
<1> QED
  BY <1>1, <1>2, PTL DEF Spec, LinkLostWithItsSocket

-----------------------------------------------------------------------------
(* The answers, while the primary's process lives.  Every frame and every    *)
(* running operation carries the number its call went out under, and no two  *)
(* calls share a number.                                                     *)

Faithful ==
    {f \in Frames : f.t \in {"rpc", "result"} => issued[f.call] = f.id /\ f.id # 0}

Carried ==
    /\ down \in [Socks -> Seq(Faithful)]
    /\ up \in [Socks -> Seq(Faithful)]
    /\ \A op \in work : issued[op.call] = op.id /\ op.id # 0

Numbered ==
    /\ \A c \in Calls : issued[c] <= counter
    /\ \A c, d \in Calls : issued[c] = issued[d] /\ issued[c] # 0 => c = d
    /\ \A c \in Calls : issued[c] # 0 => c \in waiting \/ answer[c] # "none"
    /\ OwnAnswer

AnswerInv == Carried /\ Numbered

LEMMA InitAnswer == Init => AnswerInv
BY ConstantsAssumption, EmptySeq DEF Init, AnswerInv, Carried, Numbered, OwnAnswer

(* Register and Close carry no number. *)
LEMMA PlainFrames == Register \in Faithful /\ Close \in Faithful
BY FrameTypes DEF Faithful, Register, Close, Frame

LEMMA NextCarried ==
    prestarts' = 0 /\ TypeOK /\ AnswerInv /\ [Next]_vars => Carried'
<1> SUFFICES ASSUME prestarts' = 0, TypeOK, AnswerInv, [Next]_vars PROVE Carried'
  OBVIOUS
<1> USE ConstantsAssumption DEF hubVars, followerVars, netVars, bounds
<1>0. down \in [Socks -> Seq(Faithful)] /\ up \in [Socks -> Seq(Faithful)]
  BY DEF AnswerInv, Carried
<1>a. ASSUME issued' = issued,
             down' \in [Socks -> Seq(Faithful)],
             up' \in [Socks -> Seq(Faithful)],
             \A op \in work' : issued[op.call] = op.id /\ op.id # 0
      PROVE  Carried'
  BY <1>a DEF Carried, Faithful
<1>b. \A op \in work : issued[op.call] = op.id /\ op.id # 0
  BY DEF AnswerInv, Carried
<1>1. ASSUME Dial PROVE Carried'
  <2>1. down' \in [Socks -> Seq(Faithful)]
    BY <1>1, <1>0, EmptySeq DEF Dial, TypeOK
  <2>2. up' \in [Socks -> Seq(Faithful)]
    BY <1>1, <1>0, EmptySeq DEF Dial, TypeOK
  <2> QED
    BY <1>1, <1>a, <1>b, <2>1, <2>2 DEF Dial
<1>2. ASSUME Open PROVE Carried'
  <2>1. down' \in [Socks -> Seq(Faithful)]
    BY <1>2, <1>0, SentType, PlainFrames DEF Open, TypeOK
  <2>2. up' \in [Socks -> Seq(Faithful)]
    BY <1>2, <1>0, SentType, PlainFrames DEF Open, TypeOK
  <2> QED
    BY <1>2, <1>a, <1>b, <2>1, <2>2 DEF Open
<1>3. ASSUME DialFails PROVE Carried'
  BY <1>3, <1>0, <1>a, <1>b DEF DialFails, Fault, Reconnect
<1>4. ASSUME OnClose PROVE Carried'
  <2>1. down' \in [Socks -> Seq(Faithful)]
    BY <1>4, <1>0, ReceivedType DEF OnClose, TypeOK
  <2>2. up' \in [Socks -> Seq(Faithful)]
    BY <1>4, <1>0, ReceivedType DEF OnClose, TypeOK
  <2> QED
    BY <1>4, <1>a, <1>b, <2>1, <2>2 DEF OnClose, Reconnect
<1>5. ASSUME Watchdog PROVE Carried'
  <2>1. down' \in [Socks -> Seq(Faithful)]
    BY <1>5, <1>0, SentType, PlainFrames DEF Watchdog, TypeOK
  <2>2. up' \in [Socks -> Seq(Faithful)]
    BY <1>5, <1>0, SentType, PlainFrames DEF Watchdog, TypeOK
  <2> QED
    BY <1>5, <1>a, <1>b, <2>1, <2>2 DEF Watchdog, Fault, Reconnect
<1>6. ASSUME ReceiveOp PROVE Carried'
  <2> DEFINE frame == Head(down[sock])
  <2>1. /\ sock \in Socks /\ Head1(down, sock) /\ frame.t = "rpc"
        /\ work' = work \cup {[id |-> frame.id, call |-> frame.call]}
        /\ down' = Received(down, sock)
        /\ issued' = issued /\ up' = up
    BY <1>6 DEF ReceiveOp, TypeOK
  <2>2. frame \in Faithful /\ down' \in [Socks -> Seq(Faithful)]
    BY <1>0, <2>1, ReceivedType
  <2>3. issued[frame.call] = frame.id /\ frame.id # 0
    BY <2>1, <2>2 DEF Faithful
  <2> HIDE DEF frame
  <2>4. \A op \in work' : issued[op.call] = op.id /\ op.id # 0
    BY <1>b, <2>1, <2>3
  <2> QED
    BY <1>0, <1>a, <2>1, <2>2, <2>4
<1>7. ASSUME FinishOp PROVE Carried'
  <2>1. PICK op \in work :
           /\ work' = work \ {op}
           /\ up' = IF sock # None /\ fstate[sock] = "open"
                    THEN Sent(up, sock, Frame("result", op.id, op.call)) ELSE up
    BY <1>7 DEF FinishOp
  <2>2. op.id \in Nat /\ op.call \in Calls
    BY DEF TypeOK, Ops
  <2>3. Frame("result", op.id, op.call) \in Faithful
    BY <1>b, <2>2, FrameTypes DEF Faithful, Frame
  <2>4. up' \in [Socks -> Seq(Faithful)]
    BY <1>0, <2>1, <2>3, SentType
  <2> QED
    BY <1>7, <1>0, <1>a, <1>b, <2>1, <2>4 DEF FinishOp
<1>8. ASSUME FollowerRestart PROVE Carried'
  <2>1. Sent(up, sock, Close) \in [Socks -> Seq(Faithful)]
    BY <1>0, SentType, PlainFrames
  <2>2. up' \in [Socks -> Seq(Faithful)]
    BY <1>8, <1>0, <2>1 DEF FollowerRestart
  <2>3. work' = {} /\ issued' = issued /\ down' = down
    BY <1>8 DEF FollowerRestart
  <2> QED
    BY <1>0, <1>a, <2>2, <2>3
<1>9. ASSUME NEW s \in Socks, OnRegister(s) PROVE Carried'
  <2>1. down' \in [Socks -> Seq(Faithful)]
    BY <1>9, <1>0, ReceivedType DEF OnRegister, Incoming
  <2>2. up' \in [Socks -> Seq(Faithful)]
    BY <1>9, <1>0, ReceivedType DEF OnRegister, Incoming
  <2> QED
    BY <1>9, <1>a, <1>b, <2>1, <2>2 DEF OnRegister, RejectPending, Incoming
<1>10. ASSUME NEW s \in Socks, OnResult(s) PROVE Carried'
  <2>1. down' \in [Socks -> Seq(Faithful)]
    BY <1>10, <1>0, ReceivedType DEF OnResult, Incoming
  <2>2. up' \in [Socks -> Seq(Faithful)]
    BY <1>10, <1>0, ReceivedType DEF OnResult, Incoming
  <2> QED
    BY <1>10, <1>a, <1>b, <2>1, <2>2 DEF OnResult, Incoming
<1>11. ASSUME NEW s \in Socks, OnStray(s) PROVE Carried'
  <2>1. down' \in [Socks -> Seq(Faithful)]
    BY <1>11, <1>0, ReceivedType, SentType, PlainFrames DEF OnStray, Incoming
  <2>2. up' \in [Socks -> Seq(Faithful)]
    BY <1>11, <1>0, ReceivedType, SentType, PlainFrames DEF OnStray, Incoming
  <2> QED
    BY <1>11, <1>a, <1>b, <2>1, <2>2 DEF OnStray, Incoming, Deregister, RejectPending
<1>12. ASSUME NEW s \in Socks, OnPeerClose(s) PROVE Carried'
  <2>1. down' \in [Socks -> Seq(Faithful)]
    BY <1>12, <1>0, ReceivedType DEF OnPeerClose, Incoming
  <2>2. up' \in [Socks -> Seq(Faithful)]
    BY <1>12, <1>0, ReceivedType DEF OnPeerClose, Incoming
  <2> QED
    BY <1>12, <1>a, <1>b, <2>1, <2>2 DEF OnPeerClose, Incoming, Deregister, RejectPending
<1>13. ASSUME NEW s \in Socks, ForgetDead(s) PROVE Carried'
  BY <1>13, <1>0, <1>a, <1>b DEF ForgetDead, Deregister, RejectPending
<1>14. ASSUME NEW s \in Socks, Cut(s) PROVE Carried'
  BY <1>14, <1>0, <1>a, <1>b DEF Cut, Fault
<1>15. ASSUME PingTimeout PROVE Carried'
  <2>1. down' \in [Socks -> Seq(Faithful)]
    BY <1>15, <1>0, SentType, PlainFrames DEF PingTimeout, TypeOK
  <2>2. up' \in [Socks -> Seq(Faithful)]
    BY <1>15, <1>0, SentType, PlainFrames DEF PingTimeout, TypeOK
  <2> QED
    BY <1>15, <1>a, <1>b, <2>1, <2>2 DEF PingTimeout, Fault, Deregister, RejectPending
<1>16. ASSUME NEW c \in Calls, Forward(c) PROVE Carried'
  <2>1. CASE link = None
    BY <1>16, <1>0, <1>a, <1>b, <2>1 DEF Forward
  <2>2. CASE link # None
    <3> DEFINE n == counter + 1
    <3>1. /\ issued' = [issued EXCEPT ![c] = n]
          /\ down' = Sent(down, link, Frame("rpc", n, c))
          /\ up' = up /\ work' = work
          /\ c \notin waiting /\ answer[c] = "none"
      BY <1>16, <2>2 DEF Forward
    <3>2. n \in Nat /\ n # 0
      BY DEF TypeOK
    <3> HIDE DEF n
    <3>3. issued[c] = 0
      BY <3>1 DEF AnswerInv, Numbered
    <3>4. Faithful \subseteq Faithful'
      BY <3>1, <3>3 DEF Faithful, TypeOK, Frames
    <3>5. Seq(Faithful) \subseteq Seq(Faithful')
      BY <3>4, SeqMonotonic
    <3>6. Frame("rpc", n, c) \in Faithful'
      BY <3>1, <3>2, FrameTypes DEF Faithful, Frame, TypeOK
    <3>7. down \in [Socks -> Seq(Faithful')] /\ up \in [Socks -> Seq(Faithful')]
      BY <1>0, <3>5
    <3>8. down' \in [Socks -> Seq(Faithful')]
      BY <3>1, <3>6, <3>7, SentType
    <3>9. \A op \in work : issued'[op.call] = op.id /\ op.id # 0
      BY <1>b, <3>1, <3>3 DEF TypeOK, Ops
    <3> QED
      BY <3>1, <3>7, <3>8, <3>9 DEF Carried
  <2> QED
    BY <2>1, <2>2
<1>17. ASSUME PrimaryRestart PROVE Carried'
  BY <1>17 DEF PrimaryRestart, TypeOK
<1>18. CASE UNCHANGED vars
  BY <1>18, <1>0, <1>a, <1>b DEF vars
<1> QED
  BY <1>1, <1>2, <1>3, <1>4, <1>5, <1>6, <1>7, <1>8, <1>9, <1>10, <1>11, <1>12, <1>13, <1>14, <1>15, <1>16,
     <1>17, <1>18 DEF Next, FollowerStep, HubSocketStep

LEMMA NextNumbered ==
    prestarts' = 0 /\ TypeOK /\ AnswerInv /\ [Next]_vars => Numbered'
<1> SUFFICES ASSUME prestarts' = 0, TypeOK, AnswerInv, [Next]_vars PROVE Numbered'
  OBVIOUS
<1> USE ConstantsAssumption DEF AnswerInv, Numbered, OwnAnswer, TypeOK, hubVars, followerVars, netVars, bounds
<1>1. ASSUME Dial PROVE Numbered'
  BY <1>1 DEF Dial
<1>2. ASSUME Open PROVE Numbered'
  BY <1>2 DEF Open
<1>3. ASSUME DialFails PROVE Numbered'
  BY <1>3 DEF DialFails, Fault, Reconnect
<1>4. ASSUME OnClose PROVE Numbered'
  BY <1>4 DEF OnClose, Reconnect
<1>5. ASSUME Watchdog PROVE Numbered'
  BY <1>5 DEF Watchdog, Fault, Reconnect
<1>6. ASSUME ReceiveOp PROVE Numbered'
  BY <1>6 DEF ReceiveOp
<1>7. ASSUME FinishOp PROVE Numbered'
  BY <1>7 DEF FinishOp
<1>8. ASSUME FollowerRestart PROVE Numbered'
  BY <1>8 DEF FollowerRestart
<1>9. ASSUME NEW s \in Socks, OnRegister(s) PROVE Numbered'
  BY <1>9 DEF OnRegister, RejectPending, Incoming
<1>10. ASSUME NEW s \in Socks, OnResult(s) PROVE Numbered'
  <2> DEFINE frame == Head(up[s])
             settled == {c \in waiting : issued[c] = frame.id}
  <2>1. /\ Head1(up, s) /\ frame.t = "result"
        /\ waiting' = waiting \ settled
        /\ answer' = [c \in Calls |-> IF c \in settled THEN frame.call ELSE answer[c]]
        /\ UNCHANGED <<issued, counter>>
    BY <1>10 DEF OnResult, Incoming
  <2>2. frame \in Faithful
    BY <2>1, ReceivedType DEF Carried
  <2>3. frame.call \in Calls /\ issued[frame.call] = frame.id /\ frame.id # 0
    BY <2>1, <2>2 DEF Faithful, Frames
  <2>4. settled \subseteq {frame.call}
    BY <2>3
  <2> HIDE DEF frame, settled
  <2> QED
    BY <2>1, <2>3, <2>4
<1>11. ASSUME NEW s \in Socks, OnStray(s) PROVE Numbered'
  <2>1. issued' = issued /\ counter' = counter
    BY <1>11 DEF OnStray
  <2>2. \/ UNCHANGED <<answer, waiting>>
        \/ RejectPending
    BY <1>11 DEF OnStray, Deregister
  <2> QED
    BY <2>1, <2>2 DEF RejectPending
<1>12. ASSUME NEW s \in Socks, OnPeerClose(s) PROVE Numbered'
  <2>1. issued' = issued /\ counter' = counter
    BY <1>12 DEF OnPeerClose
  <2>2. \/ UNCHANGED <<answer, waiting>>
        \/ RejectPending
    BY <1>12 DEF OnPeerClose, Deregister
  <2> QED
    BY <2>1, <2>2 DEF RejectPending
<1>13. ASSUME NEW s \in Socks, ForgetDead(s) PROVE Numbered'
  BY <1>13 DEF ForgetDead, Deregister, RejectPending
<1>14. ASSUME NEW s \in Socks, Cut(s) PROVE Numbered'
  BY <1>14 DEF Cut, Fault
<1>15. ASSUME PingTimeout PROVE Numbered'
  BY <1>15 DEF PingTimeout, Fault, Deregister, RejectPending
<1>16. ASSUME NEW c \in Calls, Forward(c) PROVE Numbered'
  <2>1. CASE link = None
    <3>1. /\ counter' = counter /\ issued' = issued /\ waiting' = waiting
          /\ answer' = [answer EXCEPT ![c] = "rejected"]
      BY <1>16, <2>1 DEF Forward
    <3>2. \A d \in Calls : answer'[d] = IF d = c THEN "rejected" ELSE answer[d]
      BY <3>1
    <3> QED
      BY <3>1, <3>2
  <2>2. CASE link # None
    <3> DEFINE n == counter + 1
    <3>1. /\ counter' = n
          /\ issued' = [issued EXCEPT ![c] = n]
          /\ waiting' = waiting \cup {c}
          /\ answer' = answer
      BY <1>16, <2>2 DEF Forward
    <3>2. n \in Nat /\ n # 0 /\ \A d \in Calls : issued[d] < n
      OBVIOUS
    <3>3. \A d \in Calls : issued[d] \in Nat
      OBVIOUS
    <3> HIDE DEF n
    <3>4. \A d \in Calls : issued'[d] = IF d = c THEN n ELSE issued[d]
      BY <3>1
    <3>5. \A d \in Calls : issued'[d] <= counter'
      BY <3>1, <3>2, <3>3, <3>4
    <3>6. \A d, e \in Calls : issued'[d] = issued'[e] /\ issued'[d] # 0 => d = e
      BY <3>2, <3>3, <3>4
    <3>7. \A d \in Calls : issued'[d] # 0 => d \in waiting' \/ answer'[d] # "none"
      BY <3>1, <3>4
    <3> QED
      BY <3>1, <3>5, <3>6, <3>7
  <2> QED
    BY <2>1, <2>2
<1>17. ASSUME PrimaryRestart PROVE Numbered'
  BY <1>17 DEF PrimaryRestart, RejectPending
<1>18. CASE UNCHANGED vars
  BY <1>18 DEF vars
<1> QED
  BY <1>1, <1>2, <1>3, <1>4, <1>5, <1>6, <1>7, <1>8, <1>9, <1>10, <1>11, <1>12, <1>13, <1>14, <1>15, <1>16,
     <1>17, <1>18 DEF Next, FollowerStep, HubSocketStep

(* Only a restart of the primary counts one. *)
LEMMA RestartsOnlyGrow ==
    TypeOK /\ [Next]_vars /\ prestarts' = 0 => prestarts = 0
<1> SUFFICES ASSUME TypeOK, [Next]_vars, prestarts' = 0 PROVE prestarts = 0
  OBVIOUS
<1>1. prestarts' = prestarts \/ prestarts' = prestarts + 1
  BY DEF Next, FollowerStep, HubSocketStep, vars, bounds, Dial, Open, DialFails, OnClose, Watchdog, ReceiveOp,
     FinishOp, FollowerRestart, OnRegister, OnResult, OnStray, OnPeerClose, ForgetDead, Cut, PingTimeout,
     Forward, PrimaryRestart
<1> QED
  BY <1>1 DEF TypeOK

(* While the primary's process lives, no call is settled with the outcome   *)
(* of another: forwardOp's caller gets its own result or a rejection.       *)
THEOREM CallsGetTheirOwnAnswer == Spec => []OwnAnswerInOneLife
<1> DEFINE LifeInv == TypeOK /\ (prestarts = 0 => AnswerInv)
<1>1. Init => LifeInv
  BY InitType, InitAnswer
<1>2. LifeInv /\ [Next]_vars => LifeInv'
  BY NextType, NextCarried, NextNumbered, RestartsOnlyGrow DEF AnswerInv
<1>3. LifeInv => OwnAnswerInOneLife
  BY DEF AnswerInv, Numbered, OwnAnswerInOneLife
<1> QED
  BY <1>1, <1>2, <1>3, PTL DEF Spec

-----------------------------------------------------------------------------
(* The state files *)

Writers == Edits \cup Stamps

(* Both channels are sequences of what they should carry. *)
SyncTypes ==
    /\ SyncTypeOK
    /\ frames \in Seq(Payloads) /\ saves \in Seq(FollowerEdits)
    /\ applying \subseteq [files : Payloads, next : Files]

Editing(e) == pc[e] \in {"due", "loaded", "sent"}

(* A follower edits a copy that only it will see: the link is lost, and the *)
(* loss is being stamped meanwhile.                                         *)
Stranded(e, s) == ~linked /\ e \in FollowerEdits /\ pc[e] = "loaded" /\ s = "lastSeen"

(* Edits are apart: one at a time is between its load and its write, and    *)
(* what it holds is what the file contains, with its own edit on top.       *)
Alone ==
    /\ \A d, e \in Writers : Editing(d) /\ Editing(e) => d = e \/ Stranded(d, e) \/ Stranded(e, d)
    /\ \A e \in Writers : pc[e] = "loaded" => draft[e].data = disk[draft[e].file]
    /\ \A e \in Writers : pc[e] = "sent" => e \in FollowerEdits /\ draft[e].data = disk[draft[e].file] \cup {e}
    /\ \A s \in Stamps : pc[s] = "loaded" => draft[s].file = Cluster
    /\ \A e \in Edits : pc[e] # "due"
    /\ saves # <<>> => linked /\ Tail(saves) = <<>> /\ pc[Head(saves)] = "sent"

Apart == "edits" \notin overlaps
AloneInv == Apart => Alone

(* What the primary contributed to a file's contents. *)
Share(data) == data \cap PrimaryEdits

(* A set of edits is no older than what the follower has or is writing, ... *)
PastShown(f, held) == Share(mirror[f]) \subseteq held /\ \A a \in applying : Share(a.files[f]) \subseteq held

(* ... than what is on its way to it, ... *)
PastSent(f, held) == PastShown(f, held) /\ \A i \in 1..Len(frames) : Share(frames[i][f]) \subseteq held

(* ... and than what has been read for it. *)
PastRead(f, held) ==
    PastSent(f, held) /\ \A r \in Readers : f <= Len(reading[r]) => Share(reading[r][f]) \subseteq held

(* Where nothing overlaps, every copy of a file between the primary's disk  *)
(* and the follower's is no newer than the one before it.                   *)
InOrder(f) ==
    /\ \A a \in applying : a.next <= f => Share(mirror[f]) \subseteq Share(a.files[f])
    /\ \A i \in 1..Len(frames) : PastShown(f, Share(frames[i][f]))
    /\ \A i, j \in 1..Len(frames) : i <= j => Share(frames[i][f]) \subseteq Share(frames[j][f])
    /\ \A r \in Readers : f <= Len(reading[r]) => PastSent(f, Share(reading[r][f]))
    /\ PastRead(f, Share(disk[f]))

OneAtATime ==
    /\ \A q, r \in Readers : reading[q] # <<>> /\ reading[r] # <<>> => q = r
    /\ \A a, b \in applying : a = b

(* A follower edits a copy that is up to date. *)
EditsLatest ==
    \A e \in FollowerEdits : pc[e] = "loaded" => Share(mirror[draft[e].file]) = Share(disk[draft[e].file])

Ordered == (\A f \in Files : InOrder(f)) /\ OneAtATime /\ EditsLatest
Calm == overlaps = {}
OrderedInv == Calm => Ordered

-----------------------------------------------------------------------------
(* Types *)

LEMMA SyncBounds ==
    /\ FileCount \in Nat /\ FileCount >= 1 /\ Cluster = 1 /\ Cluster \in Files /\ MaxLinks \in Nat
    /\ \A f \in Files : f \in Nat /\ 1 <= f /\ f <= FileCount
BY SyncConstants DEF Files, Cluster

LEMMA PayloadType ==
    ASSUME NEW p \in Payloads
    PROVE  p \in Seq(Content) /\ Len(p) = FileCount /\ \A f \in Files : p[f] \in Content
<1>1. p \in Seq(Content) /\ Len(p) = FileCount
  BY DEF Payloads
<1>2. \A f \in 1..Len(p) : p[f] \in Content
  BY <1>1, ElementOfSeq
<1> QED
  BY <1>1, <1>2 DEF Files

LEMMA DraftType ==
    ASSUME NEW f \in Files, NEW data \in Content
    PROVE  [file |-> f, data |-> data] \in Drafts
BY DEF Drafts

LEMMA NoDraftType == NoDraft \in Drafts
BY SyncBounds, DraftType DEF NoDraft, Content

LEMMA DraftParts ==
    ASSUME SyncTypes, NEW e \in Writers
    PROVE  draft[e] \in Drafts /\ draft[e].file \in Files /\ draft[e].data \in Content
BY DEF SyncTypes, SyncTypeOK, Drafts, Writers

LEMMA DraftFields == \A d \in Drafts : d.file \in Files /\ d.data \in Content
BY DEF Drafts

LEMMA SavedDraft ==
    ASSUME NEW d \in Drafts, NEW e \in Edits
    PROVE  /\ [d EXCEPT !.data = @ \cup {e}] = [file |-> d.file, data |-> d.data \cup {e}]
           /\ d.data \cup {e} \in Content
           /\ [d EXCEPT !.data = @ \cup {e}] \in Drafts
<1>1. d.data \cup {e} \in Content /\ d.file \in Files
  BY DEF Drafts, Content
<1>2. [d EXCEPT !.data = @ \cup {e}] = [file |-> d.file, data |-> d.data \cup {e}]
  BY DEF Drafts
<1> QED
  BY <1>1, <1>2, DraftType

LEMMA WriteType ==
    ASSUME SyncTypes, NEW f \in Files, NEW data \in Content, Write(f, data)
    PROVE  disk' \in [Files -> Content] /\ dirty' \in BOOLEAN
BY DEF Write, SyncTypes, SyncTypeOK

LEMMA ReadType ==
    ASSUME SyncTypes, NEW r \in Readers, NEW s \in Seq(Content), Len(s) <= FileCount,
           reading' = [reading EXCEPT ![r] = s]
    PROVE  /\ reading' \in [Readers -> Seq(Content)]
           /\ \A q \in Readers : Len(reading'[q]) <= FileCount
BY DEF SyncTypes, SyncTypeOK

LEMMA ReaderTypes ==
    ASSUME SyncTypes, NEW r \in Readers
    PROVE  reading[r] \in Seq(Content) /\ Len(reading[r]) \in Nat /\ Len(reading[r]) <= FileCount
<1>1. reading[r] \in Seq(Content)
  BY DEF SyncTypes, SyncTypeOK
<1> QED
  BY <1>1, LenProperties DEF SyncTypes, SyncTypeOK

LEMMA StartReadType ==
    ASSUME SyncTypes, NEW r \in Readers, StartRead(r)
    PROVE  /\ reading' \in [Readers -> Seq(Content)]
           /\ \A q \in Readers : Len(reading'[q]) <= FileCount
<1> DEFINE s == <<disk[Cluster]>>
<1>1. disk[Cluster] \in Content
  BY SyncBounds DEF SyncTypes, SyncTypeOK
<1>2. s \in Seq(Content) /\ Len(s) = 1
  BY <1>1
<1>3. reading' = [reading EXCEPT ![r] = s]
  BY DEF StartRead
<1> HIDE DEF s
<1> QED
  BY <1>2, <1>3, ReadType, SyncBounds

(* What the channels carry follows from their being such sequences. *)
LEMMA SyncTypesFrom ==
    ASSUME frames \in Seq(Payloads), saves \in Seq(FollowerEdits),
           disk \in [Files -> Content], dirty \in BOOLEAN, reading \in [Readers -> Seq(Content)],
           \A r \in Readers : Len(reading[r]) <= FileCount,
           quarantined \in BOOLEAN, mirror \in [Files -> Content],
           applying \subseteq [files : Payloads, next : Files],
           pc \in [Writers -> {"idle", "due", "loaded", "sent", "stamped", "done"}],
           draft \in [Writers -> Drafts], linked \in BOOLEAN, links \in 0..MaxLinks,
           overlaps \in Disciplines
    PROVE  SyncTypes
<1>1. \A i \in 1..Len(frames) : frames[i] \in Payloads
  BY ElementOfSeq
<1>2. \A i \in 1..Len(saves) : saves[i] \in FollowerEdits
  BY ElementOfSeq
<1> QED
  BY <1>1, <1>2 DEF SyncTypes, SyncTypeOK, Writers

LEMMA SyncTypesInit == SyncInit => SyncTypes
<1> SUFFICES ASSUME SyncInit PROVE SyncTypes
  OBVIOUS
<1>1. disk \in [Files -> Content] /\ mirror \in [Files -> Content]
  BY DEF SyncInit, Content
<1>2. /\ reading \in [Readers -> Seq(Content)]
      /\ \A r \in Readers : Len(reading[r]) <= FileCount
  BY SyncBounds, EmptySeq DEF SyncInit
<1>5. pc \in [Writers -> {"idle", "due", "loaded", "sent", "stamped", "done"}]
  BY DEF SyncInit, Writers
<1>6. /\ applying \subseteq [files : Payloads, next : Files] /\ links \in 0..MaxLinks
      /\ dirty \in BOOLEAN /\ quarantined \in BOOLEAN /\ linked \in BOOLEAN /\ overlaps \in Disciplines
  <2>1. /\ applying = {} /\ links = 0 /\ dirty = FALSE /\ quarantined = FALSE /\ linked = FALSE
        /\ overlaps \in Disciplines
    BY Zenon DEF SyncInit
  <2>2. 0 \in 0..MaxLinks
    BY SyncBounds
  <2> QED
    BY <2>1, <2>2
<1>3. draft \in [Edits \cup Stamps -> Drafts]
  BY NoDraftType DEF SyncInit
<1>4. frames \in Seq(Payloads) /\ saves \in Seq(FollowerEdits) /\ Len(frames) = 0 /\ Len(saves) = 0
  BY EmptySeq DEF SyncInit
<1> QED
  BY <1>1, <1>2, <1>3, <1>4, <1>5, <1>6, SyncTypesFrom DEF Writers

LEMMA EditTypes ==
    ASSUME SyncTypes, NEW e \in Edits, Load(e) \/ SavePrimary(e) \/ SaveFollower(e)
    PROVE  SyncTypes'
<1> USE DEF SyncTypes, SyncTypeOK, Writers
<1>1. draft[e] \in Drafts /\ draft[e].file \in Files /\ draft[e].data \in Content
  BY DraftParts
<1>2. CASE Load(e)
  <2>1. PICK f \in Files : draft' = [draft EXCEPT ![e] = [file |-> f, data |-> Source(e)[f]]]
    BY <1>2 DEF Load
  <2>2. Source(e)[f] \in Content
    BY DEF Source
  <2>3. draft' \in [Writers -> Drafts]
    BY <2>1, <2>2, DraftType
  <2> QED
    BY <1>2, <2>3 DEF Load
<1>3. CASE SavePrimary(e)
  <2>1. draft[e].data \cup {e} \in Content
    BY <1>1 DEF Content
  <2>2. disk' \in [Files -> Content] /\ dirty' \in BOOLEAN
    BY <1>1, <1>3, <2>1, WriteType DEF SavePrimary
  <2>3. draft' \in [Writers -> Drafts]
    BY <1>3, NoDraftType DEF SavePrimary
  <2> QED
    BY <1>3, <2>2, <2>3 DEF SavePrimary
<1>4. CASE SaveFollower(e)
  <2> DEFINE saved == [draft[e] EXCEPT !.data = @ \cup {e}]
  <2>1. saved \in Drafts /\ saved.file \in Files /\ saved.data \in Content
    <3>1. saved \in Drafts
      BY <1>1, SavedDraft
    <3> QED
      BY <3>1, DraftFields
  <2>2. /\ mirror' = [mirror EXCEPT ![saved.file] = saved.data]
        /\ draft' = [draft EXCEPT ![e] = IF linked THEN saved ELSE NoDraft]
    BY <1>4 DEF SaveFollower
  <2> HIDE DEF saved
  <2>3. mirror' \in [Files -> Content] /\ draft' \in [Writers -> Drafts]
    BY <2>1, <2>2, NoDraftType
  <2>4. saves' \in Seq(FollowerEdits)
    BY <1>4, AppendProperties DEF SaveFollower
  <2>5. /\ UNCHANGED <<overlaps, disk, dirty, reading, quarantined, applying, linked, frames, links>>
        /\ pc' \in [Writers -> {"idle", "due", "loaded", "sent", "stamped", "done"}]
    BY <1>4 DEF SaveFollower
  <2>6. \A i \in 1..Len(saves') : saves'[i] \in FollowerEdits
    BY <2>4, ElementOfSeq
  <2> QED
    BY <2>3, <2>4, <2>5, <2>6
<1> QED
  BY <1>2, <1>3, <1>4

LEMMA OnSaveTypes == ASSUME SyncTypes, OnSave PROVE SyncTypes'
<1> USE DEF SyncTypes, SyncTypeOK, Writers
<1> DEFINE e == Head(saves)
<1>1. e \in FollowerEdits /\ Tail(saves) \in Seq(FollowerEdits)
  BY HeadTailProperties DEF OnSave
<1>2. e \in Writers
  BY <1>1 DEF Edits
<1>3. /\ Write(draft[e].file, draft[e].data)
      /\ pc' = [pc EXCEPT ![e] = "done"]
      /\ draft' = [draft EXCEPT ![e] = NoDraft]
      /\ saves' = Tail(saves)
      /\ UNCHANGED <<overlaps, reading, quarantined, mirror, applying, linked, frames, links>>
  BY DEF OnSave
<1> HIDE DEF e
<1>4. disk' \in [Files -> Content] /\ dirty' \in BOOLEAN
  BY <1>2, <1>3, DraftParts, WriteType
<1>5. draft' \in [Writers -> Drafts]
  BY <1>3, NoDraftType
<1>6. \A i \in 1..Len(saves') : saves'[i] \in FollowerEdits
  BY <1>1, <1>3, ElementOfSeq
<1> QED
  BY <1>1, <1>3, <1>4, <1>5, <1>6

LEMMA DropTypes == ASSUME SyncTypes, Drop PROVE SyncTypes'
<1> USE DEF SyncTypes, SyncTypeOK, Writers
<1>1. frames' = <<>> /\ saves' = <<>>
  BY DEF Drop
<1>2. frames' \in Seq(Payloads) /\ saves' \in Seq(FollowerEdits) /\ Len(frames') = 0 /\ Len(saves') = 0
  BY <1>1, EmptySeq
<1>3. /\ reading' \in [Readers -> Seq(Content)]
      /\ \A q \in Readers : Len(reading'[q]) <= FileCount
  <2> DEFINE s == <<>>
  <2>1. s \in Seq(Content) /\ Len(s) <= FileCount
    BY EmptySeq, SyncBounds
  <2>2. reading' = [reading EXCEPT !["register"] = s] /\ "register" \in Readers
    BY DEF Drop, Readers
  <2> HIDE DEF s
  <2> QED
    BY <2>1, <2>2, ReadType
<1>4. pc' \in [Writers -> {"idle", "due", "loaded", "sent", "stamped", "done"}]
  BY DEF Drop
<1>5. draft' \in [Writers -> Drafts]
  BY NoDraftType DEF Drop
<1>6. linked' \in BOOLEAN /\ UNCHANGED <<overlaps, disk, dirty, quarantined, mirror, applying, links>>
  BY DEF Drop
<1> QED
  BY <1>2, <1>3, <1>4, <1>5, <1>6

LEMMA StampTypes == ASSUME SyncTypes, NEW s \in Stamps, StampStep(s) PROVE SyncTypes'
<1> USE DEF SyncTypes, SyncTypeOK, Writers
<1>1. s \in Writers /\ draft[s].data \in Content
  BY DraftParts
<1>2. CASE LoadStamp(s)
  <2>1. [file |-> Cluster, data |-> disk[Cluster]] \in Drafts
    BY SyncBounds, DraftType
  <2>2. draft' \in [Writers -> Drafts]
    BY <1>1, <1>2, <2>1 DEF LoadStamp
  <2> QED
    BY <1>2, <2>2 DEF LoadStamp
<1>3. CASE SaveStamp(s)
  <2>1. disk' \in [Files -> Content] /\ dirty' \in BOOLEAN
    BY <1>1, <1>3, SyncBounds, WriteType DEF SaveStamp
  <2>2. draft' \in [Writers -> Drafts]
    BY <1>3, NoDraftType DEF SaveStamp
  <2> QED
    BY <1>3, <2>1, <2>2 DEF SaveStamp
<1> QED
  BY <1>2, <1>3 DEF StampStep

LEMMA ReaderStepTypes == ASSUME SyncTypes, NEW r \in Readers, ReaderStep(r) PROVE SyncTypes'
<1>1. reading[r] \in Seq(Content) /\ Len(reading[r]) \in Nat /\ Len(reading[r]) <= FileCount
  BY ReaderTypes
<1>2. CASE ReadNext(r)
  <2> DEFINE n == Len(reading[r]) + 1
             s == Append(reading[r], disk[n])
  <2>1. n \in Files
    BY <1>1, <1>2, SyncBounds DEF ReadNext, Files
  <2>2. disk[n] \in Content
    BY <2>1 DEF SyncTypes, SyncTypeOK
  <2>3. s \in Seq(Content) /\ Len(s) = n
    BY <1>1, <2>2, AppendProperties
  <2>4. reading' = [reading EXCEPT ![r] = s]
    BY <1>2 DEF ReadNext, SyncTypes, SyncTypeOK
  <2> HIDE DEF s
  <2>5. Len(s) <= FileCount
    BY <2>1, <2>3, SyncBounds
  <2>6. /\ reading' \in [Readers -> Seq(Content)]
        /\ \A q \in Readers : Len(reading'[q]) <= FileCount
    BY <2>3, <2>4, <2>5, ReadType
  <2> QED
    BY <1>2, <2>6 DEF ReadNext, SyncTypes, SyncTypeOK
<1>3. CASE Send(r)
  <2> DEFINE s == <<>>
  <2>1. s \in Seq(Content) /\ Len(s) <= FileCount
    BY EmptySeq, SyncBounds
  <2>2. reading' = [reading EXCEPT ![r] = s]
    BY <1>3 DEF Send
  <2> HIDE DEF s
  <2>3. /\ reading' \in [Readers -> Seq(Content)]
        /\ \A q \in Readers : Len(reading'[q]) <= FileCount
    BY <2>1, <2>2, ReadType
  <2>4. reading[r] \in Payloads
    BY <1>1, <1>3 DEF Send, Payloads
  <2>5. frames' \in Seq(Payloads)
    BY <1>3, <2>4, AppendProperties DEF Send, SyncTypes
  <2>6. \A i \in 1..Len(frames') : frames'[i] \in Payloads
    BY <2>5, ElementOfSeq
  <2> QED
    BY <1>3, <2>3, <2>5, <2>6 DEF Send, SyncTypes, SyncTypeOK
<1> QED
  BY <1>2, <1>3 DEF ReaderStep

LEMMA ReceiveTypes == ASSUME SyncTypes, Receive PROVE SyncTypes'
<1>1. Head(frames) \in Payloads /\ Tail(frames) \in Seq(Payloads)
  BY HeadTailProperties DEF Receive, SyncTypes
<1>2. \A i \in 1..Len(frames') : frames'[i] \in Payloads
  BY <1>1, ElementOfSeq DEF Receive
<1>3. applying' \subseteq [files : Payloads, next : Files]
  <2> DEFINE frame == [files |-> Head(frames), next |-> Cluster]
  <2>1. frame \in [files : Payloads, next : Files]
    BY <1>1, SyncBounds
  <2>2. applying' = applying \cup {frame}
    BY DEF Receive
  <2> HIDE DEF frame
  <2> QED
    BY <2>1, <2>2 DEF SyncTypes, SyncTypeOK
<1> QED
  BY <1>1, <1>2, <1>3 DEF Receive, SyncTypes, SyncTypeOK

(* The step of one application: what it writes and what is left of it. *)
LEMMA ApplyEffect ==
    ASSUME SyncTypes, NEW a \in applying
    PROVE  /\ a.files \in Payloads /\ a.next \in Files /\ a.next \in Nat
           /\ a.files[a.next] \in Content
           /\ a.next < FileCount => a.next + 1 \in Files
           /\ [a EXCEPT !.next = @ + 1] = [files |-> a.files, next |-> a.next + 1]
<1>1. a \in [files : Payloads, next : Files]
  BY DEF SyncTypes
<1>2. a.files \in Payloads /\ a.next \in Files /\ a.next \in Nat
  BY <1>1, SyncBounds
<1>3. [a EXCEPT !.next = @ + 1] = [files |-> a.files, next |-> a.next + 1]
  BY <1>1
<1>4. a.next < FileCount => a.next + 1 \in Files
  BY <1>2, SyncBounds DEF Files
<1> QED
  BY <1>2, <1>3, <1>4, PayloadType

LEMMA ApplyTypes == ASSUME SyncTypes, ApplyNext PROVE SyncTypes'
<1> DEFINE rest(a) == IF a.next < FileCount THEN {[files |-> a.files, next |-> a.next + 1]} ELSE {}
<1>1. PICK a \in applying :
        /\ mirror' = [mirror EXCEPT ![a.next] = a.files[a.next]]
        /\ applying' = (applying \ {a}) \cup rest(a)
  BY ApplyEffect DEF ApplyNext
<1>2. /\ a.files \in Payloads /\ a.next \in Files /\ a.files[a.next] \in Content
      /\ a.next < FileCount => a.next + 1 \in Files
  BY ApplyEffect
<1>3. rest(a) \subseteq [files : Payloads, next : Files]
  BY <1>2
<1> HIDE DEF rest
<1>4. applying' \subseteq [files : Payloads, next : Files]
  BY <1>1, <1>3 DEF SyncTypes
<1>5. mirror' \in [Files -> Content]
  BY <1>1, <1>2 DEF SyncTypes, SyncTypeOK
<1>6. UNCHANGED <<overlaps, disk, dirty, reading, quarantined, pc, draft, linked, frames, saves, links>>
  BY DEF ApplyNext
<1> QED
  BY <1>4, <1>5, <1>6 DEF SyncTypes, SyncTypeOK

LEMMA SyncTypesNext == SyncTypes /\ [SyncNext]_syncVars => SyncTypes'
<1> SUFFICES ASSUME SyncTypes, [SyncNext]_syncVars PROVE SyncTypes'
  OBVIOUS
<1>1. ASSUME NEW e \in Edits, Load(e) \/ SaveStep(e) PROVE SyncTypes'
  BY <1>1, EditTypes DEF SaveStep
<1>2. CASE Connect
  <2>1. links' \in 0..MaxLinks
    BY <1>2, SyncBounds DEF Connect, SyncTypes, SyncTypeOK
  <2> QED
    BY <1>2, <2>1 DEF Connect, SyncTypes, SyncTypeOK
<1>3. CASE Broadcast
  <2>1. "broadcast" \in Readers
    BY DEF Readers
  <2> QED
    BY <1>3, <2>1, StartReadType DEF Broadcast, SyncTypes, SyncTypeOK
<1>4. CASE RegisterSync
  <2>1. "register" \in Readers
    BY DEF Readers
  <2> QED
    BY <1>4, <2>1, StartReadType DEF RegisterSync, SyncTypes, SyncTypeOK
<1>5. CASE UNCHANGED syncVars
  BY <1>5 DEF syncVars, SyncTypes, SyncTypeOK
<1> QED
  BY <1>1, <1>2, <1>3, <1>4, <1>5, StampTypes, ReaderStepTypes, OnSaveTypes, DropTypes, ReceiveTypes,
     ApplyTypes DEF SyncNext

LEMMA SyncTypesHold == SyncSpec => []SyncTypes
BY SyncTypesInit, SyncTypesNext, PTL DEF SyncSpec

(* The state files are well typed: payloads are read no further than their  *)
(* length, and both channels carry only what the two ends exchange.         *)
THEOREM SyncTypeCorrect == SyncSpec => []SyncTypeOK
<1>1. SyncTypes => SyncTypeOK
  BY DEF SyncTypes
<1> QED
  BY <1>1, SyncTypesHold, PTL

-----------------------------------------------------------------------------
(* Edits that are apart *)

LEMMA WriterKinds ==
    /\ Edits \subseteq Writers /\ Stamps \subseteq Writers /\ Edits \cap Stamps = {}
    /\ PrimaryEdits \subseteq Edits /\ FollowerEdits \subseteq Edits /\ PrimaryEdits \cap FollowerEdits = {}
    /\ "lastSeen" \in Stamps /\ "registration" \in Stamps
BY SyncConstants DEF Writers, Edits, Stamps

(* Whoever saves to the primary has nobody beside it. *)
LEMMA NobodyElse ==
    ASSUME Alone, NEW e \in Writers,
           \/ pc[e] = "loaded" /\ e \in PrimaryEdits
           \/ pc[e] = "sent"
    PROVE  \A d \in Writers : Editing(d) => d = e
BY WriterKinds DEF Alone, Editing, Stranded

LEMMA LoadAlone ==
    ASSUME SyncTypes, Alone, Apart, NEW e \in Edits, Load(e)
    PROVE  Alone'
<1>1. PICK f \in Files : /\ NobodyEdits /\ (e \in FollowerEdits => mirror[f] = disk[f])
                        /\ draft' = [draft EXCEPT ![e] = [file |-> f, data |-> Source(e)[f]]]
  BY DEF Load, CanLoad, Apart
<1>2. Source(e)[f] = disk[f]
  BY <1>1 DEF Source
<1>3. pc' = [pc EXCEPT ![e] = "loaded"] /\ UNCHANGED <<disk, linked, saves>> /\ e \in Writers
  BY WriterKinds DEF Load
<1>4. \A d \in Writers : ~Editing(d)
  BY <1>1 DEF NobodyEdits, Editing, Writers
<1>5. /\ pc'[e] = "loaded" /\ draft'[e].data = disk[f] /\ draft'[e].file = f
      /\ \A d \in Writers \ {e} : pc'[d] = pc[d] /\ ~(pc[d] \in {"due", "loaded", "sent"})
  BY <1>1, <1>2, <1>3, <1>4 DEF SyncTypes, SyncTypeOK, Writers, Editing
<1>6. saves = <<>>
  <2>1. saves # <<>> => Head(saves) \in FollowerEdits
    BY HeadTailProperties DEF SyncTypes
  <2> QED
    BY <1>4, <2>1, WriterKinds DEF Alone, Editing
<1>7. e \notin Stamps
  BY WriterKinds
<1> QED
  BY <1>3, <1>5, <1>6, <1>7, WriterKinds DEF Alone, Editing

LEMMA SavePrimaryAlone ==
    ASSUME SyncTypes, Alone, NEW e \in Edits, SavePrimary(e)
    PROVE  Alone'
<1>1. e \in Writers /\ pc[e] = "loaded" /\ e \in PrimaryEdits
  BY WriterKinds DEF SavePrimary
<1>2. \A d \in Writers : Editing(d) => d = e
  BY <1>1, NobodyElse
<1>3. \A d \in Writers : pc'[d] \notin {"due", "loaded", "sent"}
  BY <1>1, <1>2 DEF SavePrimary, SyncTypes, SyncTypeOK, Writers, Editing
<1>4. saves = <<>> /\ saves' = saves
  <2>1. saves # <<>> => Head(saves) \in FollowerEdits
    BY HeadTailProperties DEF SyncTypes
  <2> QED
    BY <1>1, <1>2, <2>1, WriterKinds DEF SavePrimary, Alone, Editing
<1> QED
  BY <1>3, <1>4, WriterKinds DEF Alone, Editing

LEMMA SaveFollowerAlone ==
    ASSUME SyncTypes, Alone, NEW e \in Edits, SaveFollower(e)
    PROVE  Alone'
<1> DEFINE saved == [draft[e] EXCEPT !.data = @ \cup {e}]
<1>1. /\ e \in Writers /\ pc[e] = "loaded" /\ e \in FollowerEdits /\ draft[e] \in Drafts
      /\ UNCHANGED <<disk, linked>>
  BY WriterKinds, DraftParts DEF SaveFollower
<1>2. saved.file = draft[e].file /\ saved.data = draft[e].data \cup {e}
  BY <1>1, SavedDraft
<1>3. /\ draft' = [draft EXCEPT ![e] = IF linked THEN saved ELSE NoDraft]
      /\ pc' = [pc EXCEPT ![e] = IF linked THEN "sent" ELSE "done"]
      /\ saves' = IF linked THEN Append(saves, e) ELSE saves
  BY DEF SaveFollower
<1> HIDE DEF saved
<1>4. \A d \in Writers \ {e} : pc'[d] = pc[d] /\ draft'[d] = draft[d]
  BY <1>3 DEF SyncTypes, SyncTypeOK, Writers
<1>5. CASE linked
  <2>1. \A d \in Writers \ {e} : ~Editing(d)
    BY <1>1, <1>5 DEF Alone, Editing, Stranded
  <2>2. pc'[e] = "sent" /\ draft'[e] = saved
    BY <1>1, <1>3, <1>5 DEF SyncTypes, SyncTypeOK, Writers
  <2>3. saves = <<>>
    <3>1. saves # <<>> => Head(saves) \in FollowerEdits
      BY HeadTailProperties DEF SyncTypes
    <3> QED
      BY <1>1, <2>1, <3>1, WriterKinds DEF Alone, Editing
  <2>4. Tail(saves') = <<>> /\ Head(saves') = e
    BY <1>3, <1>5, <2>3
  <2>5. draft'[e].data = disk'[draft'[e].file] \cup {e}
    BY <1>1, <1>2, <2>2 DEF Alone
  <2> QED
    BY <1>1, <1>4, <1>5, <2>1, <2>2, <2>4, <2>5, WriterKinds DEF Alone, Editing
<1>6. CASE ~linked
  <2>1. pc'[e] = "done" /\ saves' = saves
    BY <1>1, <1>3, <1>6 DEF SyncTypes, SyncTypeOK, Writers
  <2> QED
    BY <1>1, <1>4, <1>6, <2>1, WriterKinds DEF Alone, Editing, Stranded
<1> QED
  BY <1>5, <1>6

LEMMA OnSaveAlone == ASSUME SyncTypes, Alone, OnSave PROVE Alone'
<1> DEFINE e == Head(saves)
<1>1. e \in FollowerEdits /\ e \in Writers
  BY HeadTailProperties, WriterKinds DEF OnSave, SyncTypes
<1>2. pc[e] = "sent" /\ Tail(saves) = <<>>
  BY DEF OnSave, Alone
<1>3. pc' = [pc EXCEPT ![e] = "done"] /\ saves' = Tail(saves)
  BY DEF OnSave
<1> HIDE DEF e
<1>4. \A d \in Writers : Editing(d) => d = e
  BY <1>1, <1>2, NobodyElse
<1>5. \A d \in Writers : pc'[d] \notin {"due", "loaded", "sent"}
  BY <1>1, <1>3, <1>4 DEF SyncTypes, SyncTypeOK, Writers, Editing
<1> QED
  BY <1>2, <1>3, <1>5, WriterKinds DEF Alone, Editing

LEMMA ConnectAlone == ASSUME SyncTypes, Alone, Apart, Connect PROVE Alone'
<1>1. /\ NobodyEdits /\ ~linked /\ linked' /\ pc' = [pc EXCEPT !["registration"] = "due"]
      /\ UNCHANGED <<disk, draft, saves>>
  BY DEF Connect, Apart
<1>2. \A d \in Writers : pc'[d] \in {"due", "loaded", "sent"} => d = "registration" /\ pc'[d] = "due"
  BY <1>1 DEF NobodyEdits, SyncTypes, SyncTypeOK, Writers
<1>3. saves = <<>>
  BY <1>1 DEF Alone
<1> QED
  BY <1>1, <1>2, <1>3, WriterKinds DEF Alone, Editing

LEMMA DropAlone == ASSUME SyncTypes, Alone, Apart, Drop PROVE Alone'
<1>1. /\ \A e \in PrimaryEdits \cup Stamps : pc[e] \notin {"due", "loaded"}
      /\ linked /\ ~linked' /\ saves' = <<>> /\ disk' = disk
  BY DEF Drop, Apart
<1>2. \A e \in Writers :
        pc'[e] \in {"due", "loaded", "sent"} =>
            \/ e = "lastSeen" /\ pc'[e] = "due"
            \/ e \in FollowerEdits /\ pc[e] = "loaded" /\ pc'[e] = "loaded" /\ draft'[e] = draft[e]
  <2> SUFFICES ASSUME NEW e \in Writers, pc'[e] \in {"due", "loaded", "sent"}
               PROVE  \/ e = "lastSeen" /\ pc'[e] = "due"
                      \/ e \in FollowerEdits /\ pc[e] = "loaded" /\ pc'[e] = "loaded" /\ draft'[e] = draft[e]
    OBVIOUS
  <2>1. /\ pc'[e] = IF e = "lastSeen" THEN "due" ELSE IF pc[e] = "sent" THEN "done"
                    ELSE IF pc[e] = "stamped" THEN "idle" ELSE pc[e]
        /\ draft'[e] = IF pc[e] = "sent" THEN NoDraft ELSE draft[e]
    BY DEF Drop, Writers
  <2>2. e \notin FollowerEdits => e \in PrimaryEdits \cup Stamps
    BY DEF Writers, Edits
  <2>3. e \in FollowerEdits => pc[e] # "due" /\ e # "lastSeen"
    BY WriterKinds DEF Alone
  <2>4. CASE e \in FollowerEdits
    BY <2>1, <2>3, <2>4
  <2>5. CASE e \in PrimaryEdits \cup Stamps
    BY <1>1, <2>1, <2>5
  <2> QED
    BY <2>2, <2>4, <2>5
<1> QED
  BY <1>1, <1>2, WriterKinds DEF Alone, Editing, Stranded

LEMMA StampAlone == ASSUME SyncTypes, Alone, NEW s \in Stamps, StampStep(s) PROVE Alone'
<1>1. s \in Writers /\ s \notin FollowerEdits /\ pc[s] \in {"due", "loaded"}
  BY WriterKinds DEF StampStep, LoadStamp, SaveStamp
<1>2. UNCHANGED <<linked, saves>> /\ \A d \in Writers \ {s} : pc'[d] = pc[d] /\ draft'[d] = draft[d]
  BY DEF StampStep, LoadStamp, SaveStamp, SyncTypes, SyncTypeOK, Writers
<1>3. saves # <<>> => Head(saves) \in Writers \ {s} /\ pc'[Head(saves)] = pc[Head(saves)]
  <2>1. saves # <<>> => Head(saves) \in FollowerEdits
    BY HeadTailProperties DEF SyncTypes
  <2> QED
    BY <1>1, <1>2, <2>1, WriterKinds
<1>4. CASE LoadStamp(s)
  <2>1. /\ pc'[s] = "loaded" /\ draft'[s].file = Cluster /\ draft'[s].data = disk[Cluster]
        /\ disk' = disk
    BY <1>1, <1>4 DEF LoadStamp, SyncTypes, SyncTypeOK, Writers
  <2>3. \A d, e \in Writers : pc'[d] \in {"due", "loaded", "sent"} /\ pc'[e] \in {"due", "loaded", "sent"}
            => d = e \/ Stranded(d, e) \/ Stranded(e, d)
    BY <1>1, <1>2, <2>1 DEF Alone, Editing
  <2>4. \A d, e \in Writers : Stranded(d, e) => Stranded(d, e)'
    BY <1>1, <1>2 DEF Stranded
  <2>5. \A d, e \in Writers : Editing(d)' /\ Editing(e)' => d = e \/ Stranded(d, e)' \/ Stranded(e, d)'
    BY <2>3, <2>4 DEF Editing
  <2> QED
    BY <1>1, <1>2, <1>3, <2>1, <2>5, WriterKinds DEF Alone
<1>5. CASE SaveStamp(s)
  <2>1. pc'[s] \notin {"due", "loaded", "sent"}
    BY <1>1, <1>5 DEF SaveStamp, SyncTypes, SyncTypeOK, Writers
  <2>2. disk' = disk
    <3>1. disk' = [disk EXCEPT ![Cluster] = disk[Cluster]]
      BY <1>1, <1>5 DEF SaveStamp, Write, Alone
    <3> QED
      BY <3>1 DEF SyncTypes, SyncTypeOK
  <2>3. \A d, e \in Writers : pc'[d] \in {"due", "loaded", "sent"} /\ pc'[e] \in {"due", "loaded", "sent"}
            => d = e \/ Stranded(d, e) \/ Stranded(e, d)
    BY <1>1, <1>2, <2>1 DEF Alone, Editing
  <2>4. \A d, e \in Writers : Stranded(d, e) => Stranded(d, e)'
    BY <1>1, <1>2 DEF Stranded
  <2>5. \A d, e \in Writers : Editing(d)' /\ Editing(e)' => d = e \/ Stranded(d, e)' \/ Stranded(e, d)'
    BY <2>3, <2>4 DEF Editing
  <2> QED
    BY <1>1, <1>2, <1>3, <2>1, <2>2, <2>5, WriterKinds DEF Alone
<1> QED
  BY <1>4, <1>5 DEF StampStep

LEMMA AloneInit == SyncInit => Alone
<1> SUFFICES ASSUME SyncInit PROVE Alone
  OBVIOUS
<1>1. saves = <<>> /\ \A e \in Writers : pc[e] = "idle"
  BY DEF SyncInit, Writers
<1> QED
  BY <1>1, WriterKinds DEF Alone, Editing

LEMMA AloneNext == SyncTypes /\ AloneInv /\ [SyncNext]_syncVars => AloneInv'
<1> SUFFICES ASSUME SyncTypes, Alone, Apart, [SyncNext]_syncVars PROVE Alone'
  <2>1. [SyncNext]_syncVars => overlaps' = overlaps
    BY DEF SyncNext, Load, SaveStep, SavePrimary, SaveFollower, StampStep, LoadStamp, SaveStamp, ReaderStep,
       ReadNext,
       Send, OnSave, Connect, Drop, Broadcast, RegisterSync, Receive, ApplyNext, syncVars
  <2> QED
    BY <2>1 DEF AloneInv, Apart
<1>1. ASSUME NEW e \in Edits, Load(e) \/ SaveStep(e) PROVE Alone'
  BY <1>1, LoadAlone, SavePrimaryAlone, SaveFollowerAlone DEF SaveStep
<1>2. ASSUME UNCHANGED <<pc, draft, disk, linked, saves>> PROVE Alone'
  BY <1>2 DEF Alone, Editing, Stranded
<1>3. CASE RegisterSync
  <2>1. UNCHANGED <<draft, disk, linked, saves>> /\ pc["registration"] = "stamped"
        /\ pc' = [pc EXCEPT !["registration"] = "idle"]
    BY <1>3 DEF RegisterSync
  <2>2. \A e \in Writers : \/ pc'[e] = pc[e]
                           \/ pc[e] = "stamped" /\ pc'[e] = "idle"
    BY <2>1 DEF SyncTypes, SyncTypeOK, Writers
  <2>3. saves # <<>> => Head(saves) \in Writers
    <3>1. saves # <<>> => Head(saves) \in FollowerEdits
      BY HeadTailProperties DEF SyncTypes
    <3> QED
      BY <3>1, WriterKinds
  <2> QED
    BY <2>1, <2>2, <2>3, WriterKinds DEF Alone, Editing, Stranded
<1>4. ASSUME NEW r \in Readers, ReaderStep(r) PROVE Alone'
  BY <1>2, <1>4 DEF ReaderStep, ReadNext, Send
<1>5. CASE Broadcast \/ Receive \/ ApplyNext \/ UNCHANGED syncVars
  BY <1>2, <1>5 DEF Broadcast, Receive, ApplyNext, syncVars
<1> QED
  BY <1>1, <1>3, <1>4, <1>5, StampAlone, OnSaveAlone, ConnectAlone, DropAlone DEF SyncNext

LEMMA AloneAlways == SyncSpec => []AloneInv
<1>1. SyncInit => AloneInv
  BY AloneInit DEF AloneInv
<1> QED
  BY <1>1, AloneNext, SyncTypesHold, PTL DEF SyncSpec

(* What the primary's files contain stays while edits are apart. *)
LEMMA DiskGrows ==
    ASSUME SyncTypes, Alone, Apart, [SyncNext]_syncVars
    PROVE  \A f \in Files : disk[f] \subseteq disk'[f]
<1>1. ASSUME NEW e \in Edits, SavePrimary(e) PROVE \A f \in Files : disk[f] \subseteq disk'[f]
  <2>1. e \in Writers /\ pc[e] = "loaded" /\ disk' = [disk EXCEPT ![draft[e].file] = draft[e].data \cup {e}]
    BY <1>1, WriterKinds DEF SavePrimary, Write
  <2> QED
    BY <2>1 DEF Alone, SyncTypes, SyncTypeOK
<1>2. CASE OnSave
  <2>1. Head(saves) \in Writers /\ pc[Head(saves)] = "sent"
    BY <1>2, HeadTailProperties, WriterKinds DEF OnSave, SyncTypes, Alone
  <2>2. disk' = [disk EXCEPT ![draft[Head(saves)].file] = draft[Head(saves)].data]
    BY <1>2 DEF OnSave, Write
  <2> QED
    BY <2>1, <2>2 DEF Alone, SyncTypes, SyncTypeOK
<1>3. ASSUME NEW s \in Stamps, SaveStamp(s) PROVE \A f \in Files : disk[f] \subseteq disk'[f]
  <2>1. s \in Writers /\ disk' = [disk EXCEPT ![Cluster] = draft[s].data] /\ draft[s].data = disk[Cluster]
    BY <1>3, WriterKinds DEF SaveStamp, Write, Alone
  <2> QED
    BY <2>1 DEF SyncTypes, SyncTypeOK
<1>4. CASE disk' = disk
  BY <1>4
<1>5. \/ \E e \in Edits : SavePrimary(e)
      \/ OnSave
      \/ \E s \in Stamps : SaveStamp(s)
      \/ disk' = disk
  BY DEF SyncNext, Load, SaveStep, SaveFollower, StampStep, LoadStamp, ReaderStep, ReadNext,
     Send, Connect, Drop, Broadcast, RegisterSync, Receive, ApplyNext, syncVars
<1> QED
  BY <1>1, <1>2, <1>3, <1>4, <1>5

(* Edits on the primary stay: while edits are far enough apart, no          *)
(* registration, last-seen stamp, save of an operation or whole file that a *)
(* follower saves (hub.ts, persistRegistration and the save frame) puts a   *)
(* state file back behind an edit it contained.                             *)
THEOREM NoEditIsLost == SyncSpec => EditsStay
<1>1. SyncTypes /\ AloneInv /\ [SyncNext]_syncVars =>
        [("edits" \notin overlaps) => \A f \in Files : disk[f] \subseteq disk'[f]]_syncVars
  BY DiskGrows DEF AloneInv, Apart
<1> QED
  BY <1>1, SyncTypesHold, AloneAlways, PTL DEF SyncSpec, EditsStay

-----------------------------------------------------------------------------
(* Copies in order *)

(* The primary's files grow, frames and payloads are dropped, and the       *)
(* mirror's share of the primary's edits is what it was.                    *)
LEMMA OrderKept ==
    ASSUME NEW f \in Files, InOrder(f), Share(mirror'[f]) = Share(mirror[f]), applying' = applying,
           frames' = frames \/ Len(frames') = 0,
           \A r \in Readers : reading'[r] = reading[r] \/ Len(reading'[r]) = 0,
           disk[f] \subseteq disk'[f]
    PROVE  InOrder(f)'
<1>1. \A r \in Readers : f <= Len(reading'[r]) => reading'[r] = reading[r]
  BY SyncBounds
<1>2. \A i \in 1..Len(frames') : frames' = frames
  OBVIOUS
<1>3. Share(disk[f]) \subseteq Share(disk'[f])
  BY DEF Share
<1> QED
  BY <1>1, <1>2, <1>3 DEF InOrder, PastShown, PastSent, PastRead

(* A payload gets what the primary's files contain. *)
LEMMA ReadInOrder ==
    ASSUME NEW f \in Files, InOrder(f), NEW r \in Readers, UNCHANGED <<disk, mirror, applying, frames>>,
           \A q \in Readers \ {r} : reading'[q] = reading[q],
           f <= Len(reading'[r]) =>
              \/ f <= Len(reading[r]) /\ reading'[r][f] = reading[r][f]
              \/ reading'[r][f] = disk[f]
    PROVE  InOrder(f)'
<1>1. PastSent(f, Share(disk[f]))
  BY DEF InOrder, PastRead
<1>2. \A q \in Readers : f <= Len(reading'[q]) =>
        \/ f <= Len(reading[q]) /\ reading'[q][f] = reading[q][f]
        \/ reading'[q][f] = disk[f]
  OBVIOUS
<1>3. \A q \in Readers : f <= Len(reading'[q]) =>
        PastSent(f, Share(reading'[q][f])) /\ Share(reading'[q][f]) \subseteq Share(disk[f])
  BY <1>1, <1>2 DEF InOrder, PastRead
<1> QED
  BY <1>3 DEF InOrder, PastShown, PastSent, PastRead

(* A frame goes behind all others. *)
LEMMA SendInOrder ==
    ASSUME SyncTypes, Ordered, NEW r \in Readers, Send(r), NEW f \in Files
    PROVE  InOrder(f)'
<1> DEFINE p == reading[r]
<1>1. /\ p \in Payloads /\ p # <<>> /\ f <= Len(p)
  <2>1. p \in Seq(Content) /\ Len(p) = FileCount
    BY ReaderTypes DEF Send
  <2> QED
    BY <2>1, SyncBounds DEF Payloads
<1>2. \A q \in Readers : q # r => reading[q] = <<>>
  BY <1>1 DEF Ordered, OneAtATime
<1>3. \A q \in Readers : Len(reading'[q]) = 0
  BY <1>2 DEF Send, SyncTypes, SyncTypeOK
<1>4. UNCHANGED <<disk, mirror, applying>> /\ frames' \in {frames, Append(frames, p)}
  BY DEF Send
<1>5. InOrder(f) /\ PastSent(f, Share(p[f])) /\ Share(p[f]) \subseteq Share(disk[f])
  BY <1>1 DEF Ordered, InOrder, PastRead
<1> HIDE DEF p
<1>6. CASE frames' = frames
  BY <1>3, <1>4, <1>5, <1>6, OrderKept
<1>7. CASE frames' = Append(frames, p)
  <2> DEFINE n == Len(frames) + 1
  <2>1. /\ Len(frames) \in Nat /\ Len(frames') = n /\ frames'[n] = p
        /\ \A i \in 1..Len(frames) : frames'[i] = frames[i]
    BY <1>1, <1>7, AppendProperties DEF SyncTypes
  <2>2. \A i \in 1..Len(frames') : i = n \/ i \in 1..Len(frames)
    BY <2>1
  <2> HIDE DEF n
  <2>3. \A i \in 1..Len(frames') : PastShown(f, Share(frames'[i][f]))
    BY <1>5, <2>1, <2>2 DEF InOrder, PastSent
  <2>4. \A i, j \in 1..Len(frames') : i <= j => Share(frames'[i][f]) \subseteq Share(frames'[j][f])
    <3> SUFFICES ASSUME NEW i \in 1..Len(frames'), NEW j \in 1..Len(frames'), i <= j
                 PROVE  Share(frames'[i][f]) \subseteq Share(frames'[j][f])
      OBVIOUS
    <3>1. CASE j \in 1..Len(frames)
      <4>1. i \in 1..Len(frames)
        BY <2>1, <2>2, <3>1
      <4> QED
        BY <1>5, <2>1, <3>1, <4>1 DEF InOrder
    <3>2. CASE j = n
      BY <1>5, <2>1, <2>2, <3>2 DEF PastSent
    <3> QED
      BY <2>2, <3>1, <3>2
  <2>5. \A i \in 1..Len(frames') : Share(frames'[i][f]) \subseteq Share(disk[f])
    BY <1>5, <2>1, <2>2 DEF InOrder, PastSent, PastRead
  <2>6. \A q \in Readers : ~(f <= Len(reading'[q]))
    BY <1>3, SyncBounds
  <2> QED
    BY <1>4, <1>5, <2>3, <2>4, <2>5, <2>6 DEF InOrder, PastShown, PastSent, PastRead
<1> QED
  BY <1>4, <1>6, <1>7

(* The oldest frame is written next. *)
LEMMA ReceiveInOrder ==
    ASSUME SyncTypes, Ordered, Calm, Receive, NEW f \in Files
    PROVE  InOrder(f)'
<1> DEFINE p == Head(frames)
           frame == [files |-> p, next |-> Cluster]
<1>1. /\ frames # <<>> /\ frames \in Seq(Payloads) /\ applying = {} /\ applying' = {frame} /\ frames' = Tail(frames)
      /\ UNCHANGED <<disk, reading, mirror>>
  BY DEF Receive, Calm, SyncTypes
<1>2. /\ Len(frames) \in Nat /\ Len(frames) >= 1 /\ p = frames[1] /\ Len(frames') = Len(frames) - 1
      /\ \A i \in 1..Len(frames') : frames'[i] = frames[i + 1] /\ i + 1 \in 1..Len(frames)
  <2>1. Len(frames) \in Nat /\ Len(frames) >= 1
    BY <1>1, EmptySeq, LenProperties
  <2>2. p = frames[1] /\ Len(frames') = Len(frames) - 1
    BY <1>1, HeadTailProperties
  <2>3. \A i \in 1..Len(frames') : frames'[i] = frames[i + 1]
    BY <1>1, HeadTailProperties
  <2> QED
    BY <2>1, <2>2, <2>3
<1>3. frame.files = p /\ InOrder(f) /\ 1 \in 1..Len(frames)
  BY <1>2 DEF Ordered
<1> HIDE DEF p, frame
<1>4. (\A i \in 1..Len(frames) : PastShown(f, Share(frames[i][f])))'
  <2> SUFFICES ASSUME NEW i \in 1..Len(frames')
               PROVE  /\ Share(mirror[f]) \subseteq Share(frames[i + 1][f])
                      /\ Share(p[f]) \subseteq Share(frames[i + 1][f])
    BY <1>1, <1>2, <1>3 DEF PastShown
  <2>1. i + 1 \in 1..Len(frames) /\ 1 <= i + 1
    BY <1>2
  <2> QED
    BY <1>2, <1>3, <2>1 DEF InOrder, PastShown
<1>5. \A i, j \in 1..Len(frames') : i <= j => Share(frames'[i][f]) \subseteq Share(frames'[j][f])
  <2>1. \A i, j \in 1..Len(frames') : i <= j => i + 1 <= j + 1
    OBVIOUS
  <2> QED
    BY <1>2, <1>3, <2>1 DEF InOrder
<1>6. Share(mirror[f]) \subseteq Share(p[f])
  BY <1>2, <1>3 DEF InOrder, PastShown
<1>7. ASSUME NEW held, PastSent(f, held) PROVE PastSent(f, held)'
  BY <1>1, <1>2, <1>3, <1>7 DEF PastSent, PastShown
<1>8. PastRead(f, Share(disk[f]))'
  BY <1>1, <1>3, <1>7 DEF InOrder, PastRead
<1>9. (\A r \in Readers : f <= Len(reading[r]) => PastSent(f, Share(reading[r][f])))'
  BY <1>1, <1>3, <1>7 DEF InOrder
<1> QED
  <2>1. \A a \in applying' : Share(mirror'[f]) \subseteq Share(a.files[f])
    BY <1>1, <1>3, <1>6
  <2> QED
    BY <1>4, <1>5, <1>8, <1>9, <2>1 DEF InOrder

(* The step of an application writes what is no older than the mirror. *)
LEMMA ApplyInOrder ==
    ASSUME SyncTypes, Ordered, ApplyNext
    PROVE  /\ \A f \in Files : InOrder(f)' /\ Share(mirror[f]) \subseteq Share(mirror'[f])
           /\ \A a, b \in applying' : a = b
           /\ \A f \in Files : Share(mirror'[f]) \subseteq Share(disk[f])
<1> DEFINE rest(a) == IF a.next < FileCount THEN {[files |-> a.files, next |-> a.next + 1]} ELSE {}
<1>1. PICK a \in applying :
        /\ mirror' = [mirror EXCEPT ![a.next] = a.files[a.next]]
        /\ applying' = (applying \ {a}) \cup rest(a)
  BY ApplyEffect DEF ApplyNext
<1>2. applying' = rest(a)
  BY <1>1 DEF Ordered, OneAtATime
<1>3. \A b \in applying' : b.files = a.files /\ b.next = a.next + 1
  BY <1>2
<1>4. \A b, c \in applying' : b = c
  BY <1>2
<1> HIDE DEF rest
<1>5. /\ a.next \in Files /\ a.next \in Nat /\ UNCHANGED <<disk, reading, frames>>
      /\ \A f \in Files : mirror'[f] = IF f = a.next THEN a.files[f] ELSE mirror[f]
  BY <1>1, ApplyEffect DEF ApplyNext, SyncTypes, SyncTypeOK
<1>6. ASSUME NEW f \in Files PROVE InOrder(f)' /\ Share(mirror[f]) \subseteq Share(mirror'[f])
  <2>1. InOrder(f) /\ f \in Nat
    BY SyncBounds DEF Ordered
  <2>2. Share(mirror[f]) \subseteq Share(mirror'[f])
    BY <1>5, <2>1 DEF InOrder
  <2>3. \A held : PastShown(f, held) => PastShown(f, held)'
    BY <1>3, <1>5 DEF PastShown
  <2>4. \A held : PastSent(f, held) => PastSent(f, held)'
    BY <1>5, <2>3 DEF PastSent
  <2>5. \A b \in applying' : b.next <= f => Share(mirror'[f]) \subseteq Share(b.files[f])
    BY <1>3, <1>5, <2>1 DEF InOrder
  <2> QED
    BY <1>5, <2>1, <2>2, <2>3, <2>4, <2>5 DEF InOrder, PastRead
<1>7. ASSUME NEW f \in Files PROVE Share(mirror'[f]) \subseteq Share(disk[f])
  BY <1>5, <1>6, <1>7 DEF InOrder, PastRead, PastSent, PastShown
<1> QED
  BY <1>4, <1>6, <1>7

(* An edit that is loaded on the follower has nobody beside it who saves to *)
(* the primary or to the same copy.                                         *)
LEMMA LatestKept ==
    ASSUME EditsLatest, \A e \in FollowerEdits : pc'[e] = "loaded" => pc[e] = "loaded" /\ draft'[e] = draft[e],
           disk' = disk, \A f \in Files : Share(mirror'[f]) = Share(mirror[f]),
           \A e \in FollowerEdits : draft[e].file \in Files
    PROVE  EditsLatest'
BY DEF EditsLatest

LEMMA NobodyLoads ==
    ASSUME \A e \in FollowerEdits : pc'[e] # "loaded"
    PROVE  EditsLatest'
BY DEF EditsLatest

LEMMA LoadLatest == ASSUME SyncTypes, Ordered, Calm, NEW e \in Edits, Load(e) PROVE EditsLatest'
<1>1. PICK f \in Files : /\ NobodyEdits /\ (e \in FollowerEdits => mirror[f] = disk[f])
                        /\ draft' = [draft EXCEPT ![e] = [file |-> f, data |-> Source(e)[f]]]
  BY DEF Load, CanLoad, Calm
<1>2. /\ UNCHANGED <<mirror, disk>> /\ pc' = [pc EXCEPT ![e] = "loaded"] /\ e \in Writers
      /\ \A d \in FollowerEdits : pc[d] # "loaded" /\ d \in Writers
  BY <1>1, WriterKinds DEF Load, NobodyEdits, Writers
<1>3. \A d \in FollowerEdits : pc'[d] = "loaded" => d = e /\ draft'[d].file = f
  BY <1>1, <1>2 DEF SyncTypes, SyncTypeOK, Writers
<1> QED
  BY <1>1, <1>2, <1>3 DEF EditsLatest

(* A follower's save shows nothing older than its copy did. *)
LEMMA SaveFollowerShows ==
    ASSUME SyncTypes, Alone, Ordered, NEW e \in Edits, SaveFollower(e)
    PROVE  /\ \A f \in Files : Share(mirror'[f]) = Share(mirror[f])
           /\ \A d \in FollowerEdits : pc'[d] = "loaded" => pc[d] = "loaded" /\ draft'[d] = draft[d]
<1> DEFINE g == draft[e].file
           saved == [draft[e] EXCEPT !.data = @ \cup {e}]
<1>1. e \in FollowerEdits /\ e \in Writers /\ pc[e] = "loaded" /\ draft[e] \in Drafts
  BY WriterKinds, DraftParts DEF SaveFollower
<1>2. saved.file = g /\ saved.data = disk[g] \cup {e}
  <2>1. saved.file = g /\ saved.data = draft[e].data \cup {e}
    BY <1>1, SavedDraft
  <2>2. draft[e].data = disk[g]
    BY <1>1 DEF Alone
  <2> QED
    BY <2>1, <2>2
<1>3. /\ mirror' = [mirror EXCEPT ![saved.file] = saved.data]
      /\ draft' = [draft EXCEPT ![e] = IF linked THEN saved ELSE NoDraft]
      /\ pc' = [pc EXCEPT ![e] = IF linked THEN "sent" ELSE "done"]
  BY DEF SaveFollower
<1> HIDE DEF saved, g
<1>4. Share(disk[g] \cup {e}) = Share(disk[g]) /\ Share(mirror[g]) = Share(disk[g])
  BY <1>1, WriterKinds DEF Share, Ordered, EditsLatest, g
<1>5. \A f \in Files : mirror'[f] = IF f = g THEN disk[g] \cup {e} ELSE mirror[f]
  BY <1>2, <1>3 DEF SyncTypes, SyncTypeOK
<1>6. \A d \in FollowerEdits : pc'[d] = "loaded" => pc[d] = "loaded" /\ draft'[d] = draft[d]
  BY <1>1, <1>3, WriterKinds DEF SyncTypes, SyncTypeOK, Writers
<1> QED
  BY <1>4, <1>5, <1>6

(* The steps that move no copy on but the disk's. *)
LEMMA QuietOrdered ==
    ASSUME Ordered, \A f \in Files : Share(mirror'[f]) = Share(mirror[f]), applying' = applying,
           frames' = frames \/ Len(frames') = 0,
           \A r \in Readers : reading'[r] = reading[r] \/ (reading'[r] = <<>> /\ Len(reading'[r]) = 0),
           \A f \in Files : disk[f] \subseteq disk'[f],
           EditsLatest'
    PROVE  Ordered'
<1>1. \A f \in Files : InOrder(f)'
  BY OrderKept DEF Ordered
<1>2. OneAtATime'
  BY DEF Ordered, OneAtATime
<1> QED
  BY <1>1, <1>2 DEF Ordered

LEMMA EditOrdered ==
    ASSUME SyncTypes, Alone, Ordered, Calm, \A f \in Files : disk[f] \subseteq disk'[f],
           NEW e \in Edits, Load(e) \/ SaveStep(e)
    PROVE  Ordered'
<1>1. CASE Load(e)
  BY <1>1, LoadLatest, QuietOrdered DEF Load
<1>2. CASE SavePrimary(e)
  <2>1. e \in Writers /\ pc[e] = "loaded" /\ e \in PrimaryEdits
    BY <1>2, WriterKinds DEF SavePrimary
  <2>2. \A d \in FollowerEdits : pc'[d] # "loaded"
    BY <1>2, <2>1, NobodyElse, WriterKinds DEF SavePrimary, SyncTypes, SyncTypeOK, Writers, Editing
  <2> QED
    BY <1>2, <2>2, NobodyLoads, QuietOrdered DEF SavePrimary
<1>3. CASE SaveFollower(e)
  <2>1. disk' = disk /\ applying' = applying /\ frames' = frames /\ reading' = reading
    BY <1>3 DEF SaveFollower
  <2>2. EditsLatest'
    BY <1>3, <2>1, SaveFollowerShows, LatestKept, DraftParts, WriterKinds DEF Ordered
  <2> QED
    BY <1>3, <2>1, <2>2, SaveFollowerShows, QuietOrdered
<1> QED
  BY <1>1, <1>2, <1>3 DEF SaveStep

LEMMA OnSaveOrdered ==
    ASSUME SyncTypes, Alone, Ordered, OnSave, \A f \in Files : disk[f] \subseteq disk'[f]
    PROVE  Ordered'
<1> DEFINE e == Head(saves)
<1>1. e \in Writers /\ pc[e] = "sent" /\ pc' = [pc EXCEPT ![e] = "done"]
  BY HeadTailProperties, WriterKinds DEF OnSave, SyncTypes, Alone
<1> HIDE DEF e
<1>2. \A d \in FollowerEdits : pc'[d] # "loaded"
  BY <1>1, NobodyElse, WriterKinds DEF SyncTypes, SyncTypeOK, Writers, Editing
<1> QED
  BY <1>2, NobodyLoads, QuietOrdered DEF OnSave

(* Stamps, registrations and losses leave all files as they were. *)
LEMMA LinkOrdered ==
    ASSUME SyncTypes, Alone, Ordered, Connect \/ Drop \/ \E s \in Stamps : StampStep(s)
    PROVE  Ordered'
<1>1. disk' = disk
  <2>1. ASSUME NEW s \in Stamps, SaveStamp(s) PROVE disk' = disk
    <3>1. disk' = [disk EXCEPT ![Cluster] = disk[Cluster]]
      BY <2>1, WriterKinds DEF SaveStamp, Write, Alone
    <3> QED
      BY <3>1 DEF SyncTypes, SyncTypeOK
  <2> QED
    BY <2>1 DEF Connect, Drop, StampStep, LoadStamp
<1>2. mirror' = mirror /\ applying' = applying
  BY DEF Connect, Drop, StampStep, LoadStamp, SaveStamp
<1>3. \A e \in FollowerEdits : pc'[e] = "loaded" => pc[e] = "loaded" /\ draft'[e] = draft[e]
  <2>1. CASE Connect
    BY <2>1, WriterKinds DEF Connect, SyncTypes, SyncTypeOK, Writers
  <2>2. CASE Drop
    BY <2>2, WriterKinds DEF Drop, Writers
  <2>3. ASSUME NEW s \in Stamps, StampStep(s)
        PROVE  \A e \in FollowerEdits : pc'[e] = "loaded" => pc[e] = "loaded" /\ draft'[e] = draft[e]
    BY <2>3, WriterKinds DEF StampStep, LoadStamp, SaveStamp, SyncTypes, SyncTypeOK, Writers
  <2> QED
    BY <2>1, <2>2, <2>3
<1>4. EditsLatest'
  BY <1>1, <1>2, <1>3, LatestKept, DraftParts, WriterKinds DEF Ordered
<1>5. frames' = frames \/ Len(frames') = 0
  <2>1. frames' = frames \/ frames' = <<>>
    BY DEF Connect, Drop, StampStep, LoadStamp, SaveStamp
  <2> QED
    BY <2>1, EmptySeq
<1>6. \A r \in Readers : reading'[r] = reading[r] \/ (reading'[r] = <<>> /\ Len(reading'[r]) = 0)
  <2>1. \A r \in Readers : reading'[r] = reading[r] \/ reading'[r] = <<>>
    BY DEF Connect, Drop, StampStep, LoadStamp, SaveStamp, SyncTypes, SyncTypeOK
  <2> QED
    BY <2>1, EmptySeq
<1> QED
  BY <1>1, <1>2, <1>4, <1>5, <1>6, QuietOrdered

LEMMA StartReadOrdered ==
    ASSUME SyncTypes, Ordered, Calm, NEW r \in Readers, StartRead(r),
           UNCHANGED <<disk, mirror, applying, frames>>,
           \A e \in FollowerEdits : pc'[e] = "loaded" => pc[e] = "loaded" /\ draft'[e] = draft[e]
    PROVE  Ordered'
<1> DEFINE s == <<disk[Cluster]>>
<1>1. /\ reading' = [reading EXCEPT ![r] = s] /\ \A q \in Readers : reading[q] = <<>>
      /\ Len(s) = 1 /\ s[1] = disk[1]
  BY DEF StartRead, Calm, Cluster
<1> HIDE DEF s
<1>2. reading'[r] = s /\ \A q \in Readers \ {r} : reading'[q] = reading[q]
  BY <1>1 DEF SyncTypes, SyncTypeOK
<1>3. \A f \in Files : InOrder(f)'
  <2> SUFFICES ASSUME NEW f \in Files PROVE InOrder(f)'
    OBVIOUS
  <2>1. f <= Len(s) => s[f] = disk[f]
    <3>1. f \in Nat /\ 1 <= f
      BY SyncBounds
    <3>2. f <= 1 => f = 1
      BY <3>1
    <3> QED
      BY <1>1, <3>2
  <2> QED
    BY <1>2, <2>1, ReadInOrder DEF Ordered
<1>4. OneAtATime'
  BY <1>1, <1>2 DEF Ordered, OneAtATime
<1>5. EditsLatest'
  BY LatestKept, DraftParts, WriterKinds DEF Ordered
<1> QED
  BY <1>3, <1>4, <1>5 DEF Ordered

LEMMA ReaderStepOrdered ==
    ASSUME SyncTypes, Ordered, NEW r \in Readers, ReaderStep(r)
    PROVE  Ordered'
<1>1. UNCHANGED <<disk, mirror, applying, pc, draft>>
  BY DEF ReaderStep, ReadNext, Send
<1>2. EditsLatest'
  BY <1>1, LatestKept, DraftParts, WriterKinds DEF Ordered
<1>3. CASE ReadNext(r)
  <2> DEFINE n == Len(reading[r]) + 1
             s == Append(reading[r], disk[n])
  <2>1. /\ reading[r] \in Seq(Content) /\ Len(reading[r]) \in Nat
        /\ n \in Files /\ disk[n] \in Content
    <3>1. reading[r] \in Seq(Content) /\ Len(reading[r]) \in Nat
      BY ReaderTypes
    <3>2. n \in Files
      BY <1>3, <3>1, SyncBounds DEF ReadNext, Files
    <3> QED
      BY <3>1, <3>2 DEF SyncTypes, SyncTypeOK
  <2>2. Len(s) = n /\ s[n] = disk[n] /\ \A i \in 1..Len(reading[r]) : s[i] = reading[r][i]
    BY <2>1, AppendProperties
  <2>3. reading[r] # <<>> /\ frames' = frames /\ reading' = [reading EXCEPT ![r] = s]
    BY <1>3 DEF ReadNext, SyncTypes, SyncTypeOK
  <2> HIDE DEF s
  <2>4. reading'[r] = s /\ \A q \in Readers \ {r} : reading'[q] = reading[q]
    BY <2>3 DEF SyncTypes, SyncTypeOK
  <2>5. \A f \in Files : InOrder(f)'
    <3> SUFFICES ASSUME NEW f \in Files PROVE InOrder(f)'
      OBVIOUS
    <3>1. f <= Len(s) => \/ f <= Len(reading[r]) /\ s[f] = reading[r][f]
                         \/ s[f] = disk[f]
      <4>1. f \in Nat /\ 1 <= f
        BY SyncBounds
      <4>2. f <= n => f = n \/ (f <= Len(reading[r]) /\ f \in 1..Len(reading[r]))
        BY <2>1, <4>1
      <4> QED
        BY <2>2, <4>2
    <3> QED
      BY <1>1, <2>3, <2>4, <3>1, ReadInOrder DEF Ordered
  <2>6. OneAtATime'
    BY <1>1, <2>3, <2>4 DEF Ordered, OneAtATime
  <2> QED
    BY <1>2, <2>5, <2>6 DEF Ordered
<1>4. CASE Send(r)
  <2>1. \A f \in Files : InOrder(f)'
    BY <1>4, SendInOrder
  <2>2. OneAtATime'
    BY <1>1, <1>4 DEF Send, Ordered, OneAtATime, SyncTypes, SyncTypeOK
  <2> QED
    BY <1>2, <2>1, <2>2 DEF Ordered
<1> QED
  BY <1>3, <1>4 DEF ReaderStep

LEMMA ReceiveOrdered == ASSUME SyncTypes, Ordered, Calm, Receive PROVE Ordered'
<1>1. \A f \in Files : InOrder(f)'
  BY ReceiveInOrder
<1>2. UNCHANGED <<disk, mirror, reading, pc, draft>> /\ applying' = {[files |-> Head(frames), next |-> Cluster]}
  BY DEF Receive, Calm
<1>3. OneAtATime'
  BY <1>2 DEF Ordered, OneAtATime
<1>4. EditsLatest'
  BY <1>2, LatestKept, DraftParts, WriterKinds DEF Ordered
<1> QED
  BY <1>1, <1>3, <1>4 DEF Ordered

LEMMA ApplyOrdered == ASSUME SyncTypes, Ordered, ApplyNext PROVE Ordered'
<1>1. /\ \A f \in Files : InOrder(f)' /\ Share(mirror[f]) \subseteq Share(mirror'[f])
      /\ \A a, b \in applying' : a = b
      /\ \A f \in Files : Share(mirror'[f]) \subseteq Share(disk[f])
  BY ApplyInOrder
<1>2. UNCHANGED <<disk, reading, pc, draft>>
  BY DEF ApplyNext
<1>3. OneAtATime'
  BY <1>1, <1>2 DEF Ordered, OneAtATime
<1>4. EditsLatest'
  <2>1. \A e \in FollowerEdits : draft[e].file \in Files
    BY DraftParts, WriterKinds
  <2> QED
    BY <1>1, <1>2, <2>1 DEF Ordered, EditsLatest
<1> QED
  BY <1>1, <1>3, <1>4 DEF Ordered

LEMMA OrderedInit == SyncInit => Ordered
<1> SUFFICES ASSUME SyncInit PROVE Ordered
  OBVIOUS
<1>1. /\ applying = {} /\ frames = <<>> /\ \A r \in Readers : reading[r] = <<>>
      /\ \A f \in Files : mirror[f] = {} /\ disk[f] = {}
      /\ \A e \in Writers : pc[e] = "idle"
  BY DEF SyncInit, Writers
<1>2. Len(frames) = 0 /\ \A r \in Readers : Len(reading[r]) = 0
  BY <1>1, EmptySeq
<1>3. \A f \in Files : InOrder(f)
  <2>1. \A f \in Files, r \in Readers : ~(f <= Len(reading[r]))
    BY <1>2, SyncBounds
  <2> QED
    BY <1>1, <1>2, <2>1 DEF InOrder, PastShown, PastSent, PastRead, Share
<1> QED
  BY <1>1, <1>3, WriterKinds DEF Ordered, OneAtATime, EditsLatest

LEMMA OrderedNext == SyncTypes /\ AloneInv /\ OrderedInv /\ [SyncNext]_syncVars => OrderedInv'
<1> SUFFICES ASSUME SyncTypes, Alone, Apart, Ordered, Calm, [SyncNext]_syncVars PROVE Ordered'
  <2>1. [SyncNext]_syncVars => overlaps' = overlaps
    BY DEF SyncNext, Load, SaveStep, SavePrimary, SaveFollower, StampStep, LoadStamp, SaveStamp, ReaderStep,
       ReadNext,
       Send, OnSave, Connect, Drop, Broadcast, RegisterSync, Receive, ApplyNext, syncVars
  <2> QED
    BY <2>1 DEF AloneInv, OrderedInv, Apart, Calm
<1>1. \A f \in Files : disk[f] \subseteq disk'[f]
  BY DiskGrows
<1>2. CASE Broadcast
  <2>1. "broadcast" \in Readers
    BY DEF Readers
  <2> QED
    BY <1>2, <2>1, StartReadOrdered DEF Broadcast
<1>3. CASE RegisterSync
  <2>1. "register" \in Readers
    BY DEF Readers
  <2>2. \A e \in FollowerEdits : pc'[e] = "loaded" => pc[e] = "loaded" /\ draft'[e] = draft[e]
    BY <1>3, WriterKinds DEF RegisterSync, SyncTypes, SyncTypeOK, Writers
  <2> QED
    BY <1>3, <2>1, <2>2, StartReadOrdered DEF RegisterSync
<1>4. CASE UNCHANGED syncVars
  BY <1>4, DraftParts, WriterKinds, LatestKept, QuietOrdered DEF syncVars, Ordered
<1> QED
  BY <1>1, <1>2, <1>3, <1>4, EditOrdered, OnSaveOrdered, LinkOrdered, ReaderStepOrdered, ReceiveOrdered,
     ApplyOrdered
     DEF SyncNext

LEMMA OrderedAlways == SyncSpec => []OrderedInv
<1>1. SyncInit => OrderedInv
  BY OrderedInit DEF OrderedInv
<1> QED
  BY <1>1, OrderedNext, AloneAlways, SyncTypesHold, PTL DEF SyncSpec

LEMMA ShowsNoLess ==
    ASSUME SyncTypes, Alone, Ordered, [SyncNext]_syncVars
    PROVE  \A f \in Files : Share(mirror[f]) \subseteq Share(mirror'[f])
<1>1. ASSUME NEW e \in Edits, SaveFollower(e) PROVE \A f \in Files : Share(mirror[f]) \subseteq Share(mirror'[f])
  BY <1>1, SaveFollowerShows
<1>2. CASE ApplyNext
  BY <1>2, ApplyInOrder
<1>3. \/ \E e \in Edits : SaveFollower(e)
      \/ ApplyNext
      \/ mirror' = mirror
  BY DEF SyncNext, Load, SaveStep, SavePrimary, StampStep, LoadStamp, SaveStamp, ReaderStep, ReadNext,
     Send, OnSave, Connect, Drop, Broadcast, RegisterSync, Receive, syncVars
<1> QED
  BY <1>1, <1>2, <1>3

(* The follower's copy of a state file never goes back behind an edit of    *)
(* the primary it has shown, while payloads are read and applied one at a   *)
(* time (hub.ts, syncPayload and sendSync; follower.ts, applySync).         *)
THEOREM MirrorNeverBackwards == SyncSpec => NeverBackwards
<1>1. SyncTypes /\ AloneInv /\ OrderedInv /\ [SyncNext]_syncVars =>
        [(overlaps = {}) => \A f \in Files : mirror[f] \cap disk[f] \cap PrimaryEdits \subseteq mirror'[f]]_syncVars
  BY ShowsNoLess DEF AloneInv, OrderedInv, Apart, Calm, Share
<1> QED
  BY <1>1, SyncTypesHold, AloneAlways, OrderedAlways, PTL DEF SyncSpec, NeverBackwards
=============================================================================
