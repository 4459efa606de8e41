------------------------------ MODULE AgentRuns ------------------------------
(***************************************************************************)
(* Runs of the console's chat agent in one shared conversation             *)
(* (web/src/lib/server/agent/runner.ts): how a message starts a run, joins *)
(* the one going, takes it over from another participant or waits for its  *)
(* turn; how a run delivers what it held, ends and is saved; and on whose  *)
(* authority a tool call is made.                                          *)
(*                                                                         *)
(* Everything is one JavaScript thread: a step goes from one await to the  *)
(* next, and what a handler read before an await may be stale after it.    *)
(***************************************************************************)
EXTENDS Naturals, Sequences, FiniteSets, SequencesExt

CONSTANTS
    Accounts,      \* participants; each may write
    Messages,      \* messages; each is sent once
    Sender,        \* who sends each
    Kinds,         \* what the messages may be: each "say", "hold" (wait for
                   \* the answer's end) or "event" (a background report)
    None,          \* no account, no message
    Disciplines,   \* the sets of overlaps an execution may allow
    MaxRuns        \* bound: runs; a message starts one at most

ASSUME ConstantsAssumption ==
    /\ Disciplines \subseteq SUBSET {"joins", "saving", "calls"}
    /\ Kinds \subseteq [Messages -> {"say", "hold", "event"}]
    /\ Sender \in [Messages -> Accounts]
    /\ None \notin Accounts \cup Messages
    /\ MaxRuns \in Nat \ {0}

VARIABLES
    run,       \* the runs there have been
    current,   \* runs.get(conversation): the run last set, 0 if none
    waiting,   \* the messages that wait for a run to end
    saved,     \* how many runs have saved their session
    pc,        \* where each message is
    kind,
    seen,      \* what its handler has read of the conversation: saved, then
    into,      \* the run it looked up, or was put into
    called,    \* messages taken from the waiting list
    as,        \* the account whose bearer the session had when it took it
    update,    \* a settings change between its check and its effect
    overlaps   \* "joins": two messages may be in their handlers' awaits at
               \* once, or one unread while another is handled; "saving": a run may end or be in its save then;
               \* "calls": a run may change hands between the yes to a call
               \* and the call, or a settings change's check and effect

messageVars == <<pc, kind, seen, into, called, as>>
vars == <<run, current, waiting, saved, pc, kind, seen, into, called, as, update, overlaps>>

Runs == 1..MaxRuns
NoRun == [phase |-> "none", closing |-> FALSE, actor |-> None, bearer |-> None, modeBy |-> None,
          queue |-> <<>>, held |-> <<>>, carrying |-> None, call |-> "none", by |-> None]

(* run.running, and a run that still takes messages.  An abandoned run is   *)
(* one whose preparation threw: it is in the map, running, and not driven.  *)
Running(r) == r # 0 /\ run[r].phase \in {"preparing", "abandoned", "going", "delivering"}
Open(r) == Running(r) /\ ~run[r].closing

(* Messages whose handler is between two of its steps. *)
Handled == {m \in Messages : pc[m] \in {"read", "joining", "starting"}}
Quiet ==
    "joins" \in overlaps
        \/ (Handled = {} /\ \A r \in Runs : run[r].phase # "delivering" /\ run[r].queue = <<>>)
Settled == "saving" \in overlaps \/ \A r \in Runs : run[r].phase # "saving"
Idle(r) == "calls" \in overlaps \/ (run[r].call # "allowed" /\ update.run # r)

TypeOK ==
    /\ current \in 0..MaxRuns /\ saved \in 0..MaxRuns
    /\ \A r \in Runs :
        /\ run[r].phase \in {"none", "preparing", "abandoned", "going", "delivering", "saving", "over"}
        /\ {run[r].actor, run[r].bearer, run[r].modeBy, run[r].by} \subseteq Accounts \cup {None}
        /\ run[r].queue \in Seq(Messages) /\ run[r].held \in Seq(Messages)
        /\ run[r].call \in {"none", "asked", "allowed", "done"}
        /\ run[r].phase = "delivering" <=> run[r].carrying # None
    /\ waiting \in Seq(Messages)
    /\ pc \in [Messages -> {"idle", "read", "joining", "starting", "finish", "held", "waiting",
                            "pushed", "refused", "returned", "stopped", "lost"}]
    /\ \A m \in Messages : pc[m] = "waiting" <=> m \in Range(waiting)
    /\ overlaps \in Disciplines

Init ==
    /\ run = [r \in Runs |-> NoRun]
    /\ current = 0 /\ waiting = <<>> /\ saved = 0
    /\ pc = [m \in Messages |-> "idle"]
    /\ kind \in Kinds
    /\ seen = [m \in Messages |-> 0]
    /\ into = [m \in Messages |-> 0]
    /\ called = {}
    /\ as = [m \in Messages |-> None]
    /\ update = [run |-> 0, by |-> None]
    /\ overlaps \in Disciplines

-----------------------------------------------------------------------------
(* startRun *)

Goto(m, where) == pc' = [pc EXCEPT ![m] = where]

\* Mutant: the run changes hands and its bearer does not.
BugHandedTo(r, a) ==
    [run[r] EXCEPT !.actor = a, !.modeBy = a]

(* The run r given to account a, whose message's mode applies from here on: *)
(* handOver when it was another's.  Before drive there is no bearer to move, *)
(* and a run that was a's already keeps the bearer it has.                  *)
HandedTo(r, a) ==
    [run[r] EXCEPT !.actor = a, !.modeBy = a,
                   !.bearer = IF @ = None \/ run[r].actor = a THEN @ ELSE a]

(* The message is sent: the conversation and the launch are read. *)
Send(m) ==
    /\ pc[m] = "idle" /\ Quiet /\ Settled
    /\ Goto(m, "read")
    /\ seen' = [seen EXCEPT ![m] = saved]
    /\ UNCHANGED <<run, current, waiting, saved, kind, into, called, as, update, overlaps>>

(* startWaiting: the next in line is read for its turn. *)
CallNext(queue, where, count) ==
    IF queue = <<>>
    THEN /\ pc' = where
         /\ waiting' = <<>>
         /\ UNCHANGED <<seen, called>>
    ELSE /\ pc' = [where EXCEPT ![Head(queue)] = "read"]
         /\ waiting' = Tail(queue)
         /\ seen' = [seen EXCEPT ![Head(queue)] = count]
         /\ called' = called \cup {Head(queue)}

(* startRun throws: the sender is told, or, of a message that waited for its *)
(* turn, the next in line has it.                                           *)
Throw(m) ==
    IF m \in called
    THEN CallNext(waiting, [pc EXCEPT ![m] = "refused"], saved)
    ELSE Goto(m, "refused") /\ UNCHANGED <<waiting, seen, called>>

(* A sender who may not write, settings or an executable that will not do. *)
Refuse(m) ==
    /\ pc[m] = "read"
    /\ Throw(m)
    /\ UNCHANGED <<run, current, saved, kind, into, as, update, overlaps>>

Hold(m) ==
    /\ pc[m] = "read" /\ kind[m] = "hold" /\ Open(current)
    /\ run' = [run EXCEPT ![current].held = Append(@, m)]
    /\ Goto(m, "held")
    /\ into' = [into EXCEPT ![m] = current]
    /\ UNCHANGED <<current, waiting, saved, kind, seen, called, as, update, overlaps>>

(* The message joins the run that is going, which becomes its sender's. *)
Join(m) ==
    /\ pc[m] = "read" /\ kind[m] # "hold" /\ Open(current)
    /\ \/ run[current].actor = Sender[m]
       \/ kind[m] # "event" /\ Idle(current)
    /\ run' = [run EXCEPT ![current] = HandedTo(current, Sender[m])]
    /\ Goto(m, "joining")
    /\ into' = [into EXCEPT ![m] = current]
    /\ UNCHANGED <<current, waiting, saved, kind, seen, called, as, update, overlaps>>

(* A report for another account waits for the run to end. *)
Queue(m) ==
    /\ pc[m] = "read" /\ kind[m] = "event" /\ Running(current)
    /\ run[current].actor # Sender[m]
    /\ waiting' = Append(waiting, m)
    /\ Goto(m, "waiting")
    /\ UNCHANGED <<run, current, saved, kind, seen, into, called, as, update, overlaps>>

(* A run winding down still owns the session. *)
AwaitEnd(m) ==
    /\ pc[m] = "read" /\ Running(current) /\ run[current].closing
    /\ kind[m] = "event" => run[current].actor = Sender[m]
    /\ Goto(m, "finish")
    /\ into' = [into EXCEPT ![m] = current]
    /\ UNCHANGED <<run, current, waiting, saved, kind, seen, called, as, update, overlaps>>

(* ... and once it is saved, the message starts over. *)
Retry(m) ==
    /\ pc[m] = "finish" /\ run[into[m]].phase = "over" /\ Quiet /\ Settled
    /\ Goto(m, "read")
    /\ seen' = [seen EXCEPT ![m] = saved]
    /\ UNCHANGED <<run, current, waiting, saved, kind, into, called, as, update, overlaps>>

(* new Run, and runs.set: whatever the map held is replaced. *)
NewRun(m) ==
    \E r \in Runs :
        /\ run[r].phase = "none" /\ \A q \in 1..(r - 1) : run[q].phase # "none"
        /\ run' = [run EXCEPT ![r] = [NoRun EXCEPT !.phase = "preparing",
                                         !.actor = Sender[m], !.modeBy = Sender[m]]]
        /\ current' = r
        /\ into' = [into EXCEPT ![m] = r]

\* Mutant: a run winding down is as good as none.
BugBegin(m) ==
    /\ pc[m] = "read" /\ ~Open(current)
    /\ NewRun(m)
    /\ Goto(m, "starting")
    /\ UNCHANGED <<waiting, saved, kind, seen, called, as, update, overlaps>>

Begin(m) ==
    /\ pc[m] = "read" /\ ~Running(current)
    /\ NewRun(m)
    /\ Goto(m, "starting")
    /\ UNCHANGED <<waiting, saved, kind, seen, called, as, update, overlaps>>

(* joinRun's end: the message goes into the run's queue.  If that is closed *)
(* a held one stays held; any other waits for the run's end, or starts the  *)
(* next run with what it had read before.  Nothing reads the queue of an    *)
(* abandoned run, which is left out.                                        *)
Push(m) ==
    /\ pc[m] = "joining"
    /\ LET r == into[m]
           carried == run[r].carrying = m IN
        \/ /\ Open(r)
           /\ run' = [run EXCEPT ![r].queue = IF run[r].phase = "abandoned" THEN @ ELSE Append(@, m),
                                 ![r].carrying = IF carried THEN None ELSE @,
                                 ![r].phase = IF carried THEN "going" ELSE @]
           /\ Goto(m, "pushed")
           /\ UNCHANGED <<current, into>>
        \/ /\ ~Open(r) /\ carried
           /\ run' = [run EXCEPT ![r].held = <<m>> \o @, ![r].carrying = None, ![r].phase = "going"]
           /\ Goto(m, "held")
           /\ UNCHANGED <<current, into>>
        \/ /\ ~Open(r) /\ ~carried /\ Running(r)
           /\ Goto(m, "finish")
           /\ UNCHANGED <<run, current, into>>
        \/ /\ ~Open(r) /\ ~carried /\ ~Running(r)
           /\ NewRun(m)
           /\ Goto(m, "starting")
    /\ UNCHANGED <<waiting, saved, kind, seen, called, as, update, overlaps>>

(* drive's finally, up to the save. *)
Ended(rec) ==
    [rec EXCEPT !.phase = "saving", !.closing = TRUE, !.bearer = None, !.call = "done",
                !.queue = <<>>, !.carrying = None]

(* joinRun throws: the query takes no model, an attachment cannot be copied. *)
(* startRun throws with it; in deliverHeld the message is no longer held,   *)
(* and drive ends as by any error of the session.                           *)
PushFails(m) ==
    LET r == into[m] IN
    /\ pc[m] = "joining"
    /\ \/ /\ run[r].carrying # m
          /\ Throw(m)
          /\ UNCHANGED run
       \/ /\ run[r].carrying = m
          /\ "saving" \in overlaps \/ Handled = {m}
          /\ run' = [run EXCEPT ![r] = Ended(@)]
          /\ Goto(m, "lost")
          /\ UNCHANGED <<waiting, seen, called>>
    /\ UNCHANGED <<current, saved, kind, into, as, update, overlaps>>

(* The first message is filed and pushed, and drive issues the bearer of    *)
(* the account that sent it.  The queue of a run stopped meanwhile refuses  *)
(* the message, and nothing looks at its answer.                            *)
Drive(m) ==
    /\ pc[m] = "starting"
    /\ LET r == into[m] IN
        /\ run' = [run EXCEPT ![r].phase = "going", ![r].bearer = Sender[m],
                              ![r].queue = IF run[r].closing THEN @ ELSE Append(@, m)]
        /\ Goto(m, IF run[r].closing THEN "stopped" ELSE "pushed")
    /\ UNCHANGED <<current, waiting, saved, kind, seen, into, called, as, update, overlaps>>

(* The scratch space, the transcript or an attachment cannot be written:    *)
(* startRun throws, and the run it has put into the map is left there.      *)
DriveFails(m) ==
    /\ pc[m] = "starting"
    /\ run' = [run EXCEPT ![into[m]].phase = "abandoned"]
    /\ Throw(m)
    /\ UNCHANGED <<current, saved, kind, into, as, update, overlaps>>

-----------------------------------------------------------------------------
(* drive *)

(* The session reads the next message, also from a closed queue. *)
Take(r) ==
    /\ run[r].phase \in {"going", "delivering"} /\ run[r].queue # <<>>
    /\ run' = [run EXCEPT ![r].queue = Tail(@)]
    /\ as' = [as EXCEPT ![Head(run[r].queue)] = run[r].bearer]
    /\ UNCHANGED <<current, waiting, saved, pc, kind, seen, into, called, update, overlaps>>

(* The next held message is taken up, or the queue closes. *)
NextHeld(r, rec) ==
    IF rec.held # <<>>
    THEN [rec EXCEPT !.phase = "delivering", !.carrying = Head(rec.held), !.held = Tail(@)]
    ELSE [rec EXCEPT !.phase = "going", !.carrying = None, !.closing = TRUE]

(* A turn is over with nothing queued: deliverHeld. *)
TurnDone(r) ==
    /\ run[r].phase = "going" /\ Open(r)
    /\ run[r].queue = <<>> /\ run[r].call \notin {"asked", "allowed"}
    /\ "joins" \in overlaps \/ Handled = {}
    /\ run' = [run EXCEPT ![r] = NextHeld(r, @)]
    /\ UNCHANGED <<current, waiting, saved, messageVars, update, overlaps>>

(* Its sender may still write, and it joins; or not, and it is dropped. *)
Deliver(r) ==
    LET m == run[r].carrying IN
    /\ run[r].phase = "delivering" /\ pc[m] = "held"
    /\ \/ /\ Idle(r)
          /\ run' = [run EXCEPT ![r] = HandedTo(r, Sender[m])]
          /\ Goto(m, "joining")
          /\ into' = [into EXCEPT ![m] = r]
       \/ /\ run' = [run EXCEPT ![r] = NextHeld(r, @)]
          /\ Goto(m, "returned")
          /\ UNCHANGED into
    /\ UNCHANGED <<current, waiting, saved, kind, seen, called, as, update, overlaps>>

(* Run.stop, by its actor or the owner: held messages go back to their      *)
(* senders, a waiting call is denied.                                       *)
Stop(r) ==
    /\ Open(r)
    /\ run' = [run EXCEPT ![r].closing = TRUE, ![r].held = <<>>,
                          ![r].call = IF @ = "asked" THEN "done" ELSE @]
    /\ pc' = [m \in Messages |-> IF m \in Range(run[r].held) THEN "returned" ELSE pc[m]]
    /\ UNCHANGED <<current, waiting, saved, kind, seen, into, called, as, update, overlaps>>

(* The query ends, after the queue closed or by an error. *)
End(r) ==
    /\ run[r].phase = "going"
    /\ "saving" \in overlaps \/ Handled = {}
    /\ run' = [run EXCEPT ![r] = Ended(@)]
    /\ UNCHANGED <<current, waiting, saved, messageVars, update, overlaps>>

\* Mutant: what is held ends with the run.
BugSave(r) ==
    /\ run[r].phase = "saving"
    /\ "saving" \in overlaps \/ Handled = {}
    /\ run' = [run EXCEPT ![r] = [NoRun EXCEPT !.phase = "over"]]
    /\ saved' = saved + 1
    /\ CallNext(waiting, pc, saved + 1)
    /\ UNCHANGED <<current, kind, into, as, update, overlaps>>

(* The transcript and the session are saved, or the save throws and the run *)
(* is over all the same, of which nothing is read again; held messages come *)
(* before those that wait, and the first of them is called.                 *)
Save(r) ==
    /\ run[r].phase = "saving"
    /\ "saving" \in overlaps \/ Handled = {}
    /\ run' = [run EXCEPT ![r] = [NoRun EXCEPT !.phase = "over"]]
    /\ saved' \in {saved, saved + 1}
    /\ CallNext(run[r].held \o waiting,
                [m \in Messages |-> IF m \in Range(run[r].held) THEN "waiting" ELSE pc[m]], saved')
    /\ UNCHANGED <<current, kind, into, as, update, overlaps>>

-----------------------------------------------------------------------------
(* Tool calls and settings *)

(* canUseTool: unasked in the mode somebody chose, or put to the actor.     *)
(* Bound: one call in a run; the turn limit bounds them in the code.        *)
Ask(r) ==
    /\ run[r].phase = "going" /\ run[r].call = "none"
    /\ \E m \in Messages : as[m] # None /\ into[m] = r
    /\ \/ run' = [run EXCEPT ![r].call = "allowed", ![r].by = run[r].modeBy]
       \/ ~run[r].closing /\ run' = [run EXCEPT ![r].call = "asked"]
    /\ UNCHANGED <<current, waiting, saved, messageVars, update, overlaps>>

\* Mutant: anybody who follows the run may decide.
BugDecide(r) ==
    /\ run[r].call = "asked"
    /\ \/ \E a \in Accounts : run' = [run EXCEPT ![r].call = "allowed", ![r].by = a]
       \/ run' = [run EXCEPT ![r].call = "done"]
    /\ UNCHANGED <<current, waiting, saved, messageVars, update, overlaps>>

(* decideCall, "Only the run's actor may"; or ten minutes of silence. *)
Decide(r) ==
    /\ run[r].call = "asked"
    /\ \/ run' = [run EXCEPT ![r].call = "allowed", ![r].by = run[r].actor]
       \/ run' = [run EXCEPT ![r].call = "done"]
    /\ UNCHANGED <<current, waiting, saved, messageVars, update, overlaps>>

(* The call reaches the tool server with the run's bearer. *)
Make(r) ==
    /\ run[r].call = "allowed" /\ run[r].phase \in {"going", "delivering"}
    /\ run' = [run EXCEPT ![r].call = "done"]
    /\ UNCHANGED <<current, waiting, saved, messageVars, update, overlaps>>

(* updateRun: the actor's change is checked, *)
ChangeMode ==
    /\ update.run = 0 /\ Open(current)
    /\ run[current].actor # run[current].modeBy \/ "calls" \in overlaps
    /\ update' = [run |-> current, by |-> run[current].actor]
    /\ UNCHANGED <<run, current, waiting, saved, messageVars, overlaps>>

(* ... the launch is read, and the change made. *)
ApplyMode ==
    /\ update.run # 0
    /\ run' = [run EXCEPT ![update.run].modeBy = update.by]
    /\ update' = [run |-> 0, by |-> None]
    /\ UNCHANGED <<current, waiting, saved, messageVars, overlaps>>

-----------------------------------------------------------------------------
Handle(m) ==
    \/ Refuse(m) \/ Hold(m) \/ Join(m) \/ Queue(m) \/ AwaitEnd(m) \/ Retry(m)
    \/ Begin(m) \/ Push(m) \/ PushFails(m) \/ Drive(m) \/ DriveFails(m)
CallStep(r) == Ask(r) \/ Decide(r) \/ Make(r)

Next ==
    \/ \E m \in Messages : Send(m) \/ Handle(m)
    \/ \E r \in Runs : Take(r) \/ TurnDone(r) \/ Deliver(r) \/ Stop(r) \/ End(r) \/ Save(r) \/ CallStep(r)
    \/ ChangeMode \/ ApplyMode

Spec == Init /\ [][Next]_vars

(* Awaits come back, the session reads its queue and ends its turns, a call *)
(* is decided or times out, and a closed query ends.                        *)
Fairness ==
    /\ \A m \in Messages : WF_vars(Handle(m))
    /\ \A r \in Runs :
        /\ WF_vars(Take(r)) /\ WF_vars(TurnDone(r)) /\ WF_vars(Deliver(r)) /\ WF_vars(Save(r))
        /\ WF_vars(Decide(r)) /\ WF_vars(Make(r))
        /\ WF_vars(End(r) /\ run[r].closing)
    /\ WF_vars(ApplyMode)

FairSpec == Spec /\ Fairness

-----------------------------------------------------------------------------
(* Properties *)

(* "a run winding down still owns the session; the next one resumes it once *)
(* it is saved" (startRun): no two runs of a conversation are unsaved at    *)
(* once, and a run begins from what the last one saved - unless a message   *)
(* is handled while a run is being saved, when it is no longer running and  *)
(* its session is not there yet.                                            *)
SessionIsOwned ==
    "saving" \notin overlaps =>
        /\ Cardinality({r \in Runs : run[r].phase \notin {"none", "over"}}) <= 1
        /\ \A m \in Messages : pc[m] = "starting" => seen[m] = saved

(* "so their words never act on anybody else's permissions" (startRun): the *)
(* session takes every message with its sender's bearer - unless another    *)
(* participant's message is handled before it is pushed and read.           *)
OwnAuthority ==
    {"joins", "saving"} \cap overlaps = {} =>
        \A m \in Messages : as[m] \in {None, Sender[m]}

(* "the call runs on the actor's authority, so the yes is theirs to give"   *)
(* (awaitDecision): whoever allowed a call, by a yes or by the mode they    *)
(* chose, is who it is made as - unless the run changes hands between the   *)
(* two, or before its bearer exists.                                        *)
OwnYes ==
    [][overlaps = {} =>
        \A r \in Runs : run[r].call = "allowed" /\ run'[r].call = "done" /\ run'[r].bearer # None
            => run[r].by = run[r].bearer]_vars

(* A message does not stay in the air: it reaches a run's queue, is refused *)
(* or goes back to its sender, however runs end, fail, are stopped or are   *)
(* handed over meanwhile.  The code has three exceptions, and there are no  *)
(* others: the first message of a run stopped while it is prepared is filed *)
(* and not answered, a message deliverHeld took up goes with an error of    *)
(* joinRun, and what waits for an abandoned run waits for ever.             *)
NothingForgotten ==
    \A m \in Messages :
        pc[m] # "idle" ~>
            \/ pc[m] \in {"pushed", "refused", "returned", "stopped", "lost"}
            \/ \E r \in Runs : run[r].phase = "abandoned"
=============================================================================
