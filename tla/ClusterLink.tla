----------------------------- MODULE ClusterLink -----------------------------
(***************************************************************************)
(* The link between a follower and the primary: daemon/hub.ts (the         *)
(* primary's end) and daemon/follower.ts.  The follower dials, registers   *)
(* and redials after a close, after a silence its watchdog noticed, or     *)
(* after a dial that failed; the primary keeps one link per follower, drops *)
(* it when its pings stay unanswered, and forwards operations over it.     *)
(*                                                                         *)
(* A socket is two first-in first-out channels, and an end learns of a     *)
(* close when the "close" frame comes out of its channel.  A cut socket    *)
(* loses everything and closes at neither end.  Frames of a socket the     *)
(* follower has abandoned may arrive long after its successor registered.  *)
(***************************************************************************)
EXTENDS Naturals, Sequences

CONSTANTS
    Socks,            \* sockets; one is dialled again once both ends are done
    Calls,            \* operations asked of the follower; each asked once
    None,             \* no socket, no call
    MaxFaults,        \* bound: cuts, timeouts of a sound link, failed dials
    PrimaryRestarts,  \* bound: restarts of the primary
    FollowerRestarts  \* bound: restarts of the follower

ASSUME ConstantsAssumption ==
    /\ None \notin Socks \cup Calls
    /\ {"none", "rejected"} \cap Calls = {}
    /\ MaxFaults \in Nat
    /\ PrimaryRestarts \in Nat
    /\ FollowerRestarts \in Nat

VARIABLES
    \* the primary
    link,      \* followers.get(name).ws: the socket of the current link
    named,     \* sockets a follower registered over (ws.data.name is set)
    hubOpen,   \* sockets this end holds open
    counter,   \* requestCounter
    issued,    \* per call, the request id it went out under; 0 before
    waiting,   \* calls in the pending map
    answer,    \* per call: "none", "rejected", or the call that was executed
    \* the follower
    sock,      \* the module variable ws
    fstate,    \* per socket: "free", "dialling", "open" or "closed"
    retry,     \* whether a setTimeout(connect) is outstanding
    watch,     \* the socket the silence watchdog is armed for
    work,      \* forwarded operations being executed
    \* the network and the bounds
    down,      \* per socket, frames from the primary
    up,        \* per socket, frames to the primary
    cut,       \* sockets that carry nothing any more
    faults, prestarts, frestarts

hubVars == <<link, named, hubOpen, counter, issued, waiting, answer>>
followerVars == <<sock, fstate, retry, watch, work>>
netVars == <<down, up, cut>>
bounds == <<faults, prestarts, frestarts>>
vars == <<link, named, hubOpen, counter, issued, waiting, answer,
          sock, fstate, retry, watch, work, down, up, cut,
          faults, prestarts, frestarts>>

Frame(t, id, call) == [t |-> t, id |-> id, call |-> call]
Register == Frame("register", 0, None)
Close == Frame("close", 0, None)

Ops == [id : Nat, call : Calls]
Frames == [t : {"register", "close"}, id : {0}, call : {None}]
          \cup [t : {"rpc", "result"}, id : Nat, call : Calls]

(* What a send leaves in a channel: a cut socket swallows it. *)
Sent(channel, s, frame) ==
    IF s \in cut THEN channel ELSE [channel EXCEPT ![s] = Append(@, frame)]

Head1(channel, s) == channel[s] # <<>> /\ s \notin cut

Received(channel, s) == [channel EXCEPT ![s] = Tail(@)]

TypeOK ==
    /\ link \in Socks \cup {None}
    /\ named \subseteq Socks
    /\ hubOpen \subseteq Socks
    /\ counter \in Nat
    /\ issued \in [Calls -> Nat]
    /\ waiting \subseteq Calls
    /\ answer \in [Calls -> Calls \cup {"none", "rejected"}]
    /\ sock \in Socks \cup {None}
    /\ fstate \in [Socks -> {"free", "dialling", "open", "closed"}]
    /\ retry \in BOOLEAN
    /\ watch \in Socks \cup {None}
    /\ work \subseteq Ops
    /\ down \in [Socks -> Seq(Frames)]
    /\ up \in [Socks -> Seq(Frames)]
    /\ cut \subseteq Socks
    /\ faults \in 0..MaxFaults
    /\ prestarts \in 0..PrimaryRestarts
    /\ frestarts \in 0..FollowerRestarts

(* startFollower dials at once: the first dial is a timer that has run out. *)
Init ==
    /\ link = None
    /\ named = {} /\ hubOpen = {}
    /\ counter = 0
    /\ issued = [c \in Calls |-> 0]
    /\ waiting = {}
    /\ answer = [c \in Calls |-> "none"]
    /\ sock = None
    /\ fstate = [s \in Socks |-> "free"]
    /\ retry = TRUE
    /\ watch = None
    /\ work = {}
    /\ down = [s \in Socks |-> <<>>]
    /\ up = [s \in Socks |-> <<>>]
    /\ cut = {}
    /\ faults = 0 /\ prestarts = 0 /\ frestarts = 0

Fault == faults < MaxFaults /\ faults' = faults + 1

-----------------------------------------------------------------------------
(* The follower *)

(* Both ends are done with the socket: whatever it still carries is lost. *)
Reusable(s) ==
    /\ fstate[s] \in {"free", "closed"}
    /\ s \notin hubOpen

(* connect: the retry timer fires and a new socket is dialled. *)
Dial ==
    /\ retry
    /\ \E s \in Socks :
        /\ Reusable(s)
        /\ sock' = s
        /\ fstate' = [fstate EXCEPT ![s] = "dialling"]
        /\ down' = [down EXCEPT ![s] = <<>>]
        /\ up' = [up EXCEPT ![s] = <<>>]
        /\ cut' = cut \ {s}
        /\ named' = named \ {s}
    /\ retry' = FALSE
    /\ UNCHANGED <<link, hubOpen, counter, issued, waiting, answer, watch, work, bounds>>

(* onopen: the watchdog is armed and the register frame goes out first. *)
Open ==
    /\ sock # None
    /\ fstate[sock] = "dialling"
    /\ fstate' = [fstate EXCEPT ![sock] = "open"]
    /\ hubOpen' = hubOpen \cup {sock}
    /\ watch' = sock
    /\ up' = Sent(up, sock, Register)
    /\ UNCHANGED <<link, named, counter, issued, waiting, answer, sock, retry, work, down, cut, bounds>>

\* The next dial is not queued.
BugReconnectNoRetry(s) ==
    /\ watch' = None
    /\ sock' = None
    /\ fstate' = [fstate EXCEPT ![s] = "closed"]
    /\ UNCHANGED retry

(* What onclose does: disarm, forget the socket, queue the next dial. *)
Reconnect(s) ==
    /\ watch' = None
    /\ sock' = None
    /\ retry' = TRUE
    /\ fstate' = [fstate EXCEPT ![s] = "closed"]

(* onclose of a dial that never opened. *)
DialFails ==
    /\ sock # None
    /\ fstate[sock] = "dialling"
    /\ Fault
    /\ Reconnect(sock)
    /\ UNCHANGED <<hubVars, work, netVars, prestarts, frestarts>>

(* onclose: the primary's close has come through. *)
OnClose ==
    /\ sock # None
    /\ fstate[sock] = "open"
    /\ Head1(down, sock) /\ Head(down[sock]) = Close
    /\ down' = Received(down, sock)
    /\ Reconnect(sock)
    /\ UNCHANGED <<hubVars, work, up, cut, bounds>>

(* Nothing reaches this end of the socket: it is cut, or the primary pings  *)
(* another one.  Pings come every 5 s, so silence for 30 s means this.      *)
Silent(s) == s \in cut \/ (link # s /\ \A i \in 1..Len(up[s]) : up[s][i] # Register)

\* dropLink leaves the reconnect to an onclose that may never come.
BugWatchdogTrustsClose ==
    /\ watch # None
    /\ Silent(watch)
    /\ up' = Sent(up, watch, Close)
    /\ watch' = None
    /\ UNCHANGED <<hubVars, sock, fstate, retry, work, down, cut, bounds>>

(* dropLink: the handlers come off, so no onclose follows for this socket; *)
(* the close frame is a courtesy.                                          *)
Watchdog ==
    /\ watch # None
    /\ \/ Silent(watch) /\ UNCHANGED faults
       \/ ~Silent(watch) /\ Fault
    /\ up' = Sent(up, watch, Close)
    /\ Reconnect(watch)
    /\ UNCHANGED <<hubVars, work, down, cut, prestarts, frestarts>>

(* A forwarded operation starts; whatever socket brought it is forgotten. *)
ReceiveOp ==
    /\ sock # None
    /\ fstate[sock] = "open"
    /\ Head1(down, sock)
    /\ LET frame == Head(down[sock]) IN
        /\ frame.t = "rpc"
        /\ work' = work \cup {[id |-> frame.id, call |-> frame.call]}
    /\ down' = Received(down, sock)
    /\ UNCHANGED <<hubVars, sock, fstate, retry, watch, up, cut, bounds>>

(* runOp ends, well or badly: the result goes out over the socket of NOW,   *)
(* and is dropped when there is none open.                                  *)
FinishOp ==
    /\ \E op \in work :
        /\ work' = work \ {op}
        /\ up' = IF sock # None /\ fstate[sock] = "open"
                 THEN Sent(up, sock, Frame("result", op.id, op.call))
                 ELSE up
    /\ UNCHANGED <<hubVars, sock, fstate, retry, watch, down, cut, bounds>>

(* The follower's process ends and starts again; its kernel closes for it. *)
FollowerRestart ==
    /\ frestarts < FollowerRestarts
    /\ frestarts' = frestarts + 1
    /\ sock' = None
    /\ retry' = TRUE
    /\ watch' = None
    /\ work' = {}
    /\ IF sock = None
       THEN UNCHANGED <<fstate, up>>
       ELSE /\ up' = IF fstate[sock] = "open" THEN Sent(up, sock, Close) ELSE up
            /\ fstate' = [fstate EXCEPT ![sock] = "closed"]
    /\ UNCHANGED <<hubVars, down, cut, faults, prestarts>>

-----------------------------------------------------------------------------
(* The primary *)

(* rejectPendingFor: every call waiting on this follower fails. *)
RejectPending ==
    /\ answer' = [c \in Calls |-> IF c \in waiting THEN "rejected" ELSE answer[c]]
    /\ waiting' = {}

Incoming(s) == s \in hubOpen /\ Head1(up, s)

\* The replaced link's calls are left waiting.
BugRegisterKeepsCalls(s) ==
    /\ Incoming(s) /\ Head(up[s]) = Register
    /\ link' = s
    /\ named' = named \cup {s}
    /\ up' = Received(up, s)
    /\ UNCHANGED <<hubOpen, counter, issued, waiting, answer, followerVars, down, cut, bounds>>

\* The request counter belongs to the link instead of the process.
BugRegisterRecounts(s) ==
    /\ Incoming(s) /\ Head(up[s]) = Register
    /\ IF link # None THEN RejectPending ELSE UNCHANGED <<answer, waiting>>
    /\ link' = s
    /\ named' = named \cup {s}
    /\ counter' = 0
    /\ up' = Received(up, s)
    /\ UNCHANGED <<hubOpen, issued, followerVars, down, cut, bounds>>

(* "register": the new link replaces the old one, whose calls are rejected. *)
OnRegister(s) ==
    /\ Incoming(s) /\ Head(up[s]) = Register
    /\ IF link # None THEN RejectPending ELSE UNCHANGED <<answer, waiting>>
    /\ link' = s
    /\ named' = named \cup {s}
    /\ up' = Received(up, s)
    /\ UNCHANGED <<hubOpen, counter, issued, followerVars, down, cut, bounds>>

(* "result": looked up by its id alone, on whatever socket it came. *)
OnResult(s) ==
    /\ Incoming(s) /\ Head(up[s]).t = "result"
    /\ s \in named /\ link # None
    /\ LET frame == Head(up[s])
           settled == {c \in waiting : issued[c] = frame.id}
       IN /\ waiting' = waiting \ settled
          /\ answer' = [c \in Calls |-> IF c \in settled THEN frame.call ELSE answer[c]]
    /\ up' = Received(up, s)
    /\ UNCHANGED <<link, named, hubOpen, counter, issued, followerVars, down, cut, bounds>>

\* Any close deregisters.
BugDeregisterAny(s) ==
    /\ hubOpen' = hubOpen \ {s}
    /\ link' = None
    /\ RejectPending

(* This end closes the socket and its close handler runs: only the current  *)
(* link's close deregisters the follower.                                   *)
Deregister(s) ==
    /\ hubOpen' = hubOpen \ {s}
    /\ IF link = s
       THEN link' = None /\ RejectPending
       ELSE UNCHANGED <<link, answer, waiting>>

(* A frame on a socket whose name has no link: it is told to register. *)
OnStray(s) ==
    /\ Incoming(s) /\ Head(up[s]).t = "result"
    /\ s \notin named \/ link = None
    /\ Deregister(s)
    /\ down' = Sent(down, s, Close)
    /\ up' = Received(up, s)
    /\ UNCHANGED <<named, counter, issued, followerVars, cut, bounds>>

(* The close event of a socket the follower closed. *)
OnPeerClose(s) ==
    /\ Incoming(s) /\ Head(up[s]) = Close
    /\ Deregister(s)
    /\ up' = Received(up, s)
    /\ UNCHANGED <<named, counter, issued, followerVars, down, cut, bounds>>

(* Nobody answers the pings on this socket. *)
Unanswered(s) == s \in cut \/ fstate[s] # "open"

(* pingRound: three unanswered pings, and the link is closed. *)
PingTimeout ==
    /\ link # None
    /\ \/ Unanswered(link) /\ UNCHANGED faults
       \/ ~Unanswered(link) /\ Fault
    /\ Deregister(link)
    /\ down' = Sent(down, link, Close)
    /\ UNCHANGED <<named, counter, issued, followerVars, up, cut, prestarts, frestarts>>

(* The kernel gives up on a dead socket that is not the current link. *)
ForgetDead(s) ==
    /\ s \in hubOpen /\ s # link
    /\ s \in cut
    /\ Deregister(s)
    /\ UNCHANGED <<named, counter, issued, followerVars, netVars, bounds>>

(* forwardOp: rejected without a link, else numbered and sent. *)
Forward(c) ==
    /\ c \notin waiting /\ answer[c] = "none"
    /\ IF link = None
       THEN /\ answer' = [answer EXCEPT ![c] = "rejected"]
            /\ UNCHANGED <<counter, issued, waiting, down>>
       ELSE /\ counter' = counter + 1
            /\ issued' = [issued EXCEPT ![c] = counter + 1]
            /\ waiting' = waiting \cup {c}
            /\ down' = Sent(down, link, Frame("rpc", counter + 1, c))
            /\ UNCHANGED answer
    /\ UNCHANGED <<link, named, hubOpen, followerVars, up, cut, bounds>>

(* The primary's process ends: its callers fail, its counter starts over,   *)
(* and its kernel closes every socket.                                      *)
PrimaryRestart ==
    /\ prestarts < PrimaryRestarts
    /\ prestarts' = prestarts + 1
    /\ link' = None
    /\ named' = {}
    /\ hubOpen' = {}
    /\ counter' = 0
    /\ RejectPending
    /\ down' = [s \in Socks |->
                  IF s \in hubOpen \ cut THEN Append(down[s], Close) ELSE down[s]]
    /\ up' = [s \in Socks |-> <<>>]
    /\ UNCHANGED <<issued, followerVars, cut, faults, frestarts>>

-----------------------------------------------------------------------------
(* The network loses a socket: neither end is told. *)
Cut(s) ==
    /\ s \notin cut
    /\ fstate[s] = "open" \/ s \in hubOpen
    /\ Fault
    /\ cut' = cut \cup {s}
    /\ UNCHANGED <<hubVars, followerVars, down, up, prestarts, frestarts>>

FollowerStep ==
    Dial \/ Open \/ DialFails \/ OnClose \/ Watchdog \/ ReceiveOp \/ FinishOp \/ FollowerRestart

HubSocketStep(s) == OnRegister(s) \/ OnResult(s) \/ OnStray(s) \/ OnPeerClose(s) \/ ForgetDead(s)

Next ==
    \/ FollowerStep
    \/ \E s \in Socks : HubSocketStep(s) \/ Cut(s)
    \/ PingTimeout
    \/ \E c \in Calls : Forward(c)
    \/ PrimaryRestart

Spec == Init /\ [][Next]_vars

(* Timers fire, frames of sockets that are not cut arrive, handlers end. *)
Fairness ==
    /\ WF_vars(Dial) /\ WF_vars(Open) /\ WF_vars(OnClose)
    /\ WF_vars(Watchdog /\ UNCHANGED faults)
    /\ WF_vars(ReceiveOp) /\ WF_vars(FinishOp)
    /\ \A s \in Socks : WF_vars(HubSocketStep(s))
    /\ WF_vars(PingTimeout /\ UNCHANGED faults)

FairSpec == Spec /\ Fairness

-----------------------------------------------------------------------------
(* Properties *)

(* The follower always has exactly one way back: a socket it holds, or one  *)
(* outstanding retry timer.  None, and it stays offline until somebody      *)
(* restarts it; two, and it dials twice.                                    *)
OneWayBack == (sock = None) <=> retry

(* An open socket is always watched, so a half-open one cannot sit healthy  *)
(* and idle for hours (follower.ts, LINK_SILENCE_MS).                       *)
OpenIsWatched == \A s \in Socks : fstate[s] = "open" <=> watch = s

(* The link operations are routed to is a socket the primary still holds    *)
(* and a follower registered over.                                          *)
LinkIsOpen == link # None => link \in hubOpen /\ link \in named

(* Only the close of the current link takes it down: a replaced socket that *)
(* closes later must not tear down its successor (hub.ts, close handler).   *)
LinkLostWithItsSocket == [][link # None /\ link' = None => link \notin hubOpen']_vars

(* Whoever waits for a result waits on a link that exists, so the close of  *)
(* it, or its replacement, settles the call.                                *)
WaitersHaveLink == waiting # {} => link # None

(* forwardOp awaits ITS result: a call is never settled with the outcome of *)
(* another.                                                                 *)
OwnAnswer == \A c \in Calls : answer[c] \in {"none", "rejected", c}

(* ... as far as the code goes: while the primary's process lives, its request *)
(* counter never hands out a number twice (hub.ts, requestCounter).         *)
OwnAnswerInOneLife == prestarts = 0 => OwnAnswer

(* Every forwarded call is settled one way or the other. *)
CallsSettle == \A c \in Calls : c \in waiting ~> c \notin waiting

(* Once the network and the processes behave, primary and follower agree on *)
(* one open socket for good, whatever stale frames were still around.       *)
LinkStabilizes == <>[](sock # None /\ fstate[sock] = "open" /\ link = sock)
=============================================================================
