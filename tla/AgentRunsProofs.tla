-------------------------- MODULE AgentRunsProofs --------------------------
(***************************************************************************)
(* Theorems about AgentRuns, for any participants, messages and runs.      *)
(***************************************************************************)
EXTENDS AgentRuns, SequenceTheorems, FiniteSetTheorems, TLAPS

RunRecords ==
    [phase : {"none", "preparing", "abandoned", "going", "delivering", "saving", "over"},
     closing : BOOLEAN,
     actor : Accounts \cup {None}, bearer : Accounts \cup {None}, modeBy : Accounts \cup {None},
     queue : Seq(Messages), held : Seq(Messages), carrying : Messages \cup {None},
     call : {"none", "asked", "allowed", "done"}, by : Accounts \cup {None}]

Positions ==
    {"idle", "read", "joining", "starting", "finish", "held", "waiting", "pushed", "refused", "returned",
     "stopped", "lost"}

Typed ==
    /\ run \in [Runs -> RunRecords]
    /\ current \in 0..MaxRuns
    /\ waiting \in Seq(Messages)
    /\ pc \in [Messages -> Positions]
    /\ kind \in Kinds
    /\ saved \in Nat
    /\ seen \in [Messages -> Nat]
    /\ into \in [Messages -> 0..MaxRuns]
    /\ as \in [Messages -> Accounts \cup {None}]
    /\ update \in [run : 0..MaxRuns, by : Accounts \cup {None}]
    /\ overlaps \in Disciplines

(* A message that starts, joins or is held by a run has one; a run that is  *)
(* being prepared has one message to start it.                              *)
Homed ==
    /\ \A m \in Messages : pc[m] \in {"starting", "joining", "held"} => into[m] \in Runs
    /\ \A m \in Messages : pc[m] = "starting" => run[into[m]].phase = "preparing"
    /\ \A m, n \in Messages : pc[m] = "starting" /\ pc[n] = "starting" /\ into[m] = into[n] => m = n

(* A message is in one place, once. *)
Distinct(s) == \A i, j \in 1..Len(s) : s[i] = s[j] => i = j
Carries == \A r \in Runs : run[r].phase = "delivering" <=> run[r].carrying # None
Placed ==
    /\ \A r \in Runs : Distinct(run[r].held)
    /\ \A r \in Runs : \A m \in Range(run[r].held) : pc[m] = "held" /\ into[m] = r
    /\ \A r \in Runs, m \in Messages :
        run[r].carrying = m =>
            pc[m] \in {"held", "joining"} /\ into[m] = r /\ m \notin Range(run[r].held)
    /\ Distinct(waiting)
    /\ \A m \in Messages : pc[m] = "waiting" <=> m \in Range(waiting)

Counted == saved <= Cardinality({r \in Runs : run[r].phase = "over"})

TypeInv == Typed /\ Homed /\ Carries /\ Placed /\ Counted

-----------------------------------------------------------------------------
(* Sequences *)

LEMMA RangeHead ==
    ASSUME NEW S, NEW s \in Seq(S), s # <<>>
    PROVE  /\ Head(s) \in S /\ Tail(s) \in Seq(S)
           /\ Range(s) = {Head(s)} \cup Range(Tail(s))
<1>1. /\ Range(s) = {s[i] : i \in 1..Len(s)}
      /\ Range(Tail(s)) = {Tail(s)[i] : i \in 1..Len(Tail(s))}
  BY HeadTailProperties, RangeEquality
<1>2. /\ Head(s) = s[1] /\ Len(s) \in Nat \ {0} /\ Len(Tail(s)) = Len(s) - 1
      /\ \A i \in 1..(Len(s) - 1) : Tail(s)[i] = s[i + 1]
  BY HeadTailProperties
<1>3. \A i \in 1..Len(s) : i = 1 \/ (i - 1 \in 1..(Len(s) - 1) /\ s[i] = Tail(s)[i - 1])
  BY <1>2
<1>4. Range(s) \subseteq {Head(s)} \cup Range(Tail(s))
  BY <1>1, <1>2, <1>3
<1>5. {Head(s)} \cup Range(Tail(s)) \subseteq Range(s)
  <2>1. 1 \in 1..Len(s) /\ \A i \in 1..(Len(s) - 1) : i + 1 \in 1..Len(s)
    BY <1>2
  <2> QED
    BY <1>1, <1>2, <2>1
<1> QED
  BY <1>4, <1>5, HeadTailProperties

LEMMA DistinctTail ==
    ASSUME NEW S, NEW s \in Seq(S), s # <<>>, Distinct(s)
    PROVE  Distinct(Tail(s)) /\ Range(Tail(s)) = Range(s) \ {Head(s)}
<1>1. /\ Head(s) = s[1] /\ Len(s) \in Nat \ {0} /\ Len(Tail(s)) = Len(s) - 1
      /\ \A i \in 1..(Len(s) - 1) : Tail(s)[i] = s[i + 1] /\ i + 1 \in 1..Len(s) /\ i + 1 # 1
  BY HeadTailProperties
<1>2. Distinct(Tail(s))
  BY <1>1 DEF Distinct
<1>3. \A i \in 1..Len(Tail(s)) : Tail(s)[i] # Head(s)
  BY <1>1 DEF Distinct
<1>4. Range(Tail(s)) = {Tail(s)[i] : i \in 1..Len(Tail(s))}
  BY HeadTailProperties, RangeEquality
<1>5. Head(s) \notin Range(Tail(s))
  BY <1>3, <1>4
<1> QED
  BY <1>2, <1>5, RangeHead

LEMMA DistinctConcat ==
    ASSUME NEW S, NEW s \in Seq(S), NEW t \in Seq(S),
           Distinct(s), Distinct(t), Range(s) \cap Range(t) = {}
    PROVE  Distinct(s \o t) /\ Range(s \o t) = Range(s) \cup Range(t)
<1> DEFINE c == s \o t
<1>1. /\ Len(s) \in Nat /\ Len(t) \in Nat /\ Len(c) = Len(s) + Len(t)
      /\ \A i \in 1..Len(c) : IF i <= Len(s) THEN c[i] = s[i] ELSE c[i] = t[i - Len(s)]
  BY ConcatProperties
<1>2. \A i \in 1..Len(s), j \in 1..Len(t) : s[i] # t[j]
  <2>1. Range(s) = {s[i] : i \in 1..Len(s)} /\ Range(t) = {t[j] : j \in 1..Len(t)}
    BY RangeEquality
  <2> QED
    BY <2>1
<1>8. Range(c) = Range(s) \cup Range(t)
  BY RangeConcatenation
<1>3. SUFFICES ASSUME NEW i \in 1..Len(c), NEW j \in 1..Len(c), c[i] = c[j] PROVE i = j
  BY <1>8 DEF Distinct
<1>4. CASE i <= Len(s) /\ j <= Len(s)
  BY <1>1, <1>3, <1>4 DEF Distinct
<1>5. CASE i > Len(s) /\ j > Len(s)
  <2>1. i - Len(s) \in 1..Len(t) /\ j - Len(s) \in 1..Len(t) /\ t[i - Len(s)] = t[j - Len(s)]
    BY <1>1, <1>3, <1>5
  <2>2. i - Len(s) = j - Len(s)
    BY <2>1 DEF Distinct
  <2> QED
    BY <1>1, <2>2
<1>6. CASE i <= Len(s) /\ j > Len(s)
  <2>1. i \in 1..Len(s) /\ j - Len(s) \in 1..Len(t) /\ c[i] = s[i] /\ c[j] = t[j - Len(s)]
    BY <1>1, <1>6
  <2> QED
    BY <1>2, <1>3, <2>1
<1>7. CASE i > Len(s) /\ j <= Len(s)
  <2>1. j \in 1..Len(s) /\ i - Len(s) \in 1..Len(t) /\ c[j] = s[j] /\ c[i] = t[i - Len(s)]
    BY <1>1, <1>7
  <2> QED
    BY <1>2, <1>3, <2>1
<1> QED
  BY <1>1, <1>4, <1>5, <1>6, <1>7

LEMMA One ==
    ASSUME NEW S, NEW x \in S
    PROVE  <<x>> \in Seq(S) /\ Distinct(<<x>>) /\ Range(<<x>>) = {x}
<1>1. <<x>> \in Seq(S) /\ Len(<<x>>) = 1 /\ <<x>>[1] = x
  OBVIOUS
<1>2. Range(<<x>>) = {<<x>>[i] : i \in 1..1}
  BY <1>1, RangeEquality
<1> QED
  BY <1>1, <1>2 DEF Distinct

LEMMA DistinctAppend ==
    ASSUME NEW S, NEW s \in Seq(S), NEW x \in S
    PROVE  /\ Append(s, x) \in Seq(S) /\ Range(Append(s, x)) = Range(s) \cup {x}
           /\ Distinct(s) /\ x \notin Range(s) => Distinct(Append(s, x))
<1>1. Append(s, x) = s \o <<x>>
  BY AppendIsConcat
<1>2. <<x>> \in Seq(S) /\ Distinct(<<x>>) /\ Range(<<x>>) = {x}
  BY One
<1>3. Range(s \o <<x>>) = Range(s) \cup Range(<<x>>)
  BY <1>2, RangeConcatenation
<1>4. Distinct(s) /\ Range(s) \cap Range(<<x>>) = {} => Distinct(s \o <<x>>)
  BY <1>2, DistinctConcat
<1> QED
  BY <1>1, <1>2, <1>3, <1>4, AppendProperties

LEMMA EmptyDistinct == <<>> \in Seq(Messages) /\ Distinct(<<>>) /\ Range(<<>>) = {}
BY DEF Distinct, Range

-----------------------------------------------------------------------------
(* Types *)

LEMMA Bounds ==
    /\ MaxRuns \in Nat \ {0} /\ Runs = 1..MaxRuns /\ 0 \notin Runs /\ Runs \subseteq 0..MaxRuns
    /\ None \notin Accounts /\ None \notin Messages
    /\ \A m \in Messages : Sender[m] \in Accounts
BY ConstantsAssumption DEF Runs

LEMMA NoRunTyped == NoRun \in RunRecords
BY DEF NoRun, RunRecords

(* The changes that the actions make to a run's record. *)
LEMMA RecordTyped ==
    ASSUME NEW rec \in RunRecords, NEW m \in Messages, NEW a \in Accounts \cup {None},
           NEW b \in Accounts \cup {None}, NEW queue \in Seq(Messages), NEW held \in Seq(Messages)
    PROVE  /\ [rec EXCEPT !.held = held] \in RunRecords
           /\ [rec EXCEPT !.queue = queue] \in RunRecords
           /\ [rec EXCEPT !.actor = a, !.modeBy = a, !.bearer = b] \in RunRecords
           /\ Ended(rec) \in RunRecords /\ [rec EXCEPT !.phase = "abandoned"] \in RunRecords
           /\ [rec EXCEPT !.phase = "preparing", !.actor = a, !.modeBy = a] \in RunRecords
           /\ [rec EXCEPT !.queue = queue, !.carrying = None, !.phase = "going"] \in RunRecords
           /\ [rec EXCEPT !.held = held, !.carrying = None, !.phase = "going"] \in RunRecords
           /\ [rec EXCEPT !.phase = "going", !.bearer = a, !.queue = queue] \in RunRecords
           /\ [rec EXCEPT !.phase = "delivering", !.carrying = m, !.held = held] \in RunRecords
           /\ [rec EXCEPT !.phase = "going", !.carrying = None, !.closing = TRUE] \in RunRecords
           /\ [rec EXCEPT !.closing = TRUE, !.held = <<>>,
                          !.call = IF @ = "asked" THEN "done" ELSE @] \in RunRecords
           /\ [NoRun EXCEPT !.phase = "over"] \in RunRecords
           /\ [rec EXCEPT !.call = "allowed", !.by = a] \in RunRecords
           /\ [rec EXCEPT !.call = "asked"] \in RunRecords
           /\ [rec EXCEPT !.call = "done"] \in RunRecords
           /\ [rec EXCEPT !.modeBy = a] \in RunRecords
<1>1. [rec EXCEPT !.held = held] \in RunRecords /\ [rec EXCEPT !.queue = queue] \in RunRecords
  BY DEF RunRecords
<1>2. [rec EXCEPT !.actor = a, !.modeBy = a, !.bearer = b] \in RunRecords
  BY DEF RunRecords
<1>3. [rec EXCEPT !.phase = "preparing", !.actor = a, !.modeBy = a] \in RunRecords
  BY DEF RunRecords
<1>4. [rec EXCEPT !.queue = queue, !.carrying = None, !.phase = "going"] \in RunRecords
  BY DEF RunRecords
<1>5. [rec EXCEPT !.held = held, !.carrying = None, !.phase = "going"] \in RunRecords
  BY DEF RunRecords
<1>6. [rec EXCEPT !.phase = "going", !.bearer = a, !.queue = queue] \in RunRecords
  BY DEF RunRecords
<1>7. [rec EXCEPT !.phase = "delivering", !.carrying = m, !.held = held] \in RunRecords
  BY DEF RunRecords
<1>8. [rec EXCEPT !.phase = "going", !.carrying = None, !.closing = TRUE] \in RunRecords
  BY DEF RunRecords
<1>9. [rec EXCEPT !.closing = TRUE, !.held = <<>>, !.call = IF @ = "asked" THEN "done" ELSE @] \in RunRecords
  BY EmptyDistinct DEF RunRecords
<1>10. Ended(rec) \in RunRecords /\ [rec EXCEPT !.phase = "abandoned"] \in RunRecords
  BY EmptyDistinct DEF RunRecords, Ended
<1>11. [NoRun EXCEPT !.phase = "over"] \in RunRecords
  BY NoRunTyped DEF RunRecords
<1>12. /\ [rec EXCEPT !.call = "allowed", !.by = a] \in RunRecords
       /\ [rec EXCEPT !.call = "asked"] \in RunRecords /\ [rec EXCEPT !.call = "done"] \in RunRecords
       /\ [rec EXCEPT !.modeBy = a] \in RunRecords
  BY DEF RunRecords
<1> QED
  BY <1>1, <1>2, <1>3, <1>4, <1>5, <1>6, <1>7, <1>8, <1>9, <1>10, <1>11, <1>12

LEMMA HandedTyped ==
    ASSUME Typed, NEW r \in Runs, NEW a \in Accounts
    PROVE  HandedTo(r, a) \in RunRecords
<1> DEFINE b == IF run[r].bearer = None \/ run[r].actor = a THEN run[r].bearer ELSE a
<1>1. run[r] \in RunRecords
  BY DEF Typed
<1>2. b \in Accounts \cup {None}
  BY <1>1 DEF RunRecords
<1>3. HandedTo(r, a) = [run[r] EXCEPT !.actor = a, !.modeBy = a, !.bearer = b]
  BY DEF HandedTo
<1> HIDE DEF b
<1>4. [run[r] EXCEPT !.actor = a, !.modeBy = a, !.bearer = b] \in RunRecords
  BY <1>1, <1>2 DEF RunRecords
<1> QED
  BY <1>3, <1>4

(* A run that ends, and one that is over or abandoned. *)
LEMMA EndedTyped ==
    /\ \A rec \in RunRecords : Ended(rec) \in RunRecords /\ [rec EXCEPT !.phase = "abandoned"] \in RunRecords
    /\ [NoRun EXCEPT !.phase = "over"] \in RunRecords
<1>1. ASSUME NEW rec \in RunRecords
      PROVE  Ended(rec) \in RunRecords /\ [rec EXCEPT !.phase = "abandoned"] \in RunRecords
  BY <1>1, EmptyDistinct DEF RunRecords, Ended
<1>2. [NoRun EXCEPT !.phase = "over"] \in RunRecords
  BY NoRunTyped DEF RunRecords
<1> QED
  BY <1>1, <1>2

LEMMA TypedInit == Init => Typed
BY NoRunTyped, Bounds DEF Init, Typed, Positions

LEMMA NewRunTyped ==
    ASSUME Typed, NEW m \in Messages, NewRun(m)
    PROVE  /\ run' \in [Runs -> RunRecords] /\ current' \in 0..MaxRuns
           /\ into' \in [Messages -> 0..MaxRuns]
<1>1. PICK r \in Runs : /\ run' = [run EXCEPT ![r] = [NoRun EXCEPT !.phase = "preparing",
                                                    !.actor = Sender[m], !.modeBy = Sender[m]]]
                        /\ current' = r
                        /\ into' = [into EXCEPT ![m] = r]
  BY DEF NewRun
<1>2. [NoRun EXCEPT !.phase = "preparing", !.actor = Sender[m], !.modeBy = Sender[m]] \in RunRecords
  BY NoRunTyped, RecordTyped, Bounds, EmptyDistinct
<1> QED
  BY <1>1, <1>2, Bounds DEF Typed

LEMMA CallNextTyped ==
    ASSUME Typed, NEW queue \in Seq(Messages), NEW where \in [Messages -> Positions],
           NEW count \in Nat, CallNext(queue, where, count)
    PROVE  /\ waiting' \in Seq(Messages) /\ seen' \in [Messages -> Nat] /\ pc' \in [Messages -> Positions]
<1>1. CASE queue = <<>>
  BY <1>1, EmptyDistinct DEF CallNext, Typed
<1>2. CASE queue # <<>>
  <2>1. Head(queue) \in Messages /\ Tail(queue) \in Seq(Messages)
    BY <1>2, RangeHead
  <2>2. [where EXCEPT ![Head(queue)] = "read"] \in [Messages -> Positions]
    BY <2>1 DEF Positions
  <2>3. [seen EXCEPT ![Head(queue)] = count] \in [Messages -> Nat]
    BY <2>1 DEF Typed
  <2> QED
    BY <1>2, <2>1, <2>2, <2>3 DEF CallNext
<1> QED
  BY <1>1, <1>2

(* The sender is told; the next in line, if any, is called. *)
LEMMA ThrowTyped ==
    ASSUME Typed, NEW m \in Messages, Throw(m)
    PROVE  /\ waiting' \in Seq(Messages) /\ seen' \in [Messages -> Nat] /\ pc' \in [Messages -> Positions]
<1> DEFINE where == [pc EXCEPT ![m] = "refused"]
<1>1. where \in [Messages -> Positions] /\ waiting \in Seq(Messages) /\ saved \in Nat
  BY DEF Typed, Positions
<1>2. CASE m \in called
  <2>1. CallNext(waiting, where, saved)
    BY <1>2 DEF Throw
  <2> HIDE DEF where
  <2> QED
    BY <1>1, <2>1, CallNextTyped
<1>3. CASE m \notin called
  BY <1>1, <1>3 DEF Throw, Goto, Typed
<1> QED
  BY <1>2, <1>3

(* A run's record, replaced. *)
LEMMA RunReplaced ==
    ASSUME Typed, NEW r \in Runs, NEW rec \in RunRecords, run' = [run EXCEPT ![r] = rec]
    PROVE  run' \in [Runs -> RunRecords]
BY DEF Typed

LEMMA MessageTyped ==
    ASSUME TypeInv, NEW m \in Messages, Send(m) \/ Handle(m)
    PROVE  Typed'
<1> USE DEF Goto, messageVars, Positions
<1>0. Typed /\ \A r \in Runs : run[r] \in RunRecords /\ run[r].queue \in Seq(Messages) /\ run[r].held \in Seq(Messages)
  BY DEF TypeInv, Typed, RunRecords
<1>1. CASE Send(m)
  BY <1>0, <1>1 DEF Send, Typed
<1>2. CASE Refuse(m)
  BY <1>0, <1>2, ThrowTyped DEF Refuse, Typed
<1>3. CASE Hold(m)
  <2>1. current \in Runs
    BY <1>0, <1>3, Bounds DEF Hold, Open, Running, Typed
  <2>2. Append(run[current].held, m) \in Seq(Messages)
    BY <1>0, <2>1, AppendProperties
  <2>3. [run[current] EXCEPT !.held = Append(@, m)] \in RunRecords
    BY <1>0, <2>1, <2>2, RecordTyped
  <2>4. run' \in [Runs -> RunRecords]
    BY <1>0, <1>3, <2>1, <2>3 DEF Hold, Typed
  <2> QED
    BY <1>0, <1>3, <2>4 DEF Hold, Typed
<1>4. CASE Join(m)
  <2>1. current \in Runs
    BY <1>0, <1>4, Bounds DEF Join, Open, Running, Typed
  <2>2. HandedTo(current, Sender[m]) \in RunRecords
    BY <1>0, <2>1, HandedTyped, Bounds
  <2>3. run' \in [Runs -> RunRecords]
    BY <1>0, <1>4, <2>1, <2>2 DEF Join, Typed
  <2> QED
    BY <1>0, <1>4, <2>3 DEF Join, Typed
<1>5. CASE Queue(m)
  <2>1. Append(waiting, m) \in Seq(Messages)
    BY <1>0, AppendProperties DEF Typed
  <2> QED
    BY <1>0, <1>5, <2>1 DEF Queue, Typed
<1>6. CASE AwaitEnd(m)
  BY <1>0, <1>6 DEF AwaitEnd, Typed
<1>7. CASE Retry(m)
  BY <1>0, <1>7 DEF Retry, Typed
<1>8. CASE Begin(m)
  BY <1>0, <1>8, NewRunTyped DEF Begin, Typed
<1>9. CASE Push(m)
  <2> DEFINE r == into[m]
  <2>0. r \in Runs
    BY <1>9 DEF Push, TypeInv, Homed
  <2>1. CASE Open(r)
    <3> DEFINE queue == IF run[r].phase = "abandoned" THEN run[r].queue ELSE Append(run[r].queue, m)
    <3>1. queue \in Seq(Messages)
      BY <1>0, <2>0, AppendProperties
    <3>0. run' = [run EXCEPT ![r].queue = queue,
                             ![r].carrying = IF run[r].carrying = m THEN None ELSE @,
                             ![r].phase = IF run[r].carrying = m THEN "going" ELSE @]
      BY <1>9, <2>1 DEF Push
    <3> HIDE DEF queue
    <3>2. /\ [run[r] EXCEPT !.queue = queue, !.carrying = None, !.phase = "going"] \in RunRecords
          /\ [run[r] EXCEPT !.queue = queue] \in RunRecords
      BY <1>0, <2>0, <3>1, RecordTyped, EmptyDistinct
    <3>3. run' = [run EXCEPT ![r] = IF run[r].carrying = m
                        THEN [run[r] EXCEPT !.queue = queue, !.carrying = None, !.phase = "going"]
                        ELSE [run[r] EXCEPT !.queue = queue]]
      <4>1. CASE run[r].carrying = m
        BY <1>0, <2>0, <3>0, <4>1 DEF Typed
      <4>2. CASE run[r].carrying # m
        <5>1. [run[r] EXCEPT !.queue = queue] =
                 [run[r] EXCEPT !.queue = queue, !.carrying = run[r].carrying, !.phase = run[r].phase]
          BY <1>0, <2>0 DEF RunRecords
        <5> QED
          BY <1>0, <2>0, <3>0, <4>2, <5>1 DEF Typed
      <4> QED
        BY <4>1, <4>2
    <3>4. run' \in [Runs -> RunRecords]
      BY <1>0, <2>0, <3>2, <3>3 DEF Typed
    <3> QED
      BY <1>0, <1>9, <2>1, <3>4 DEF Push, Typed
  <2>2. CASE ~Open(r) /\ run[r].carrying = m
    <3>1. <<m>> \o run[r].held \in Seq(Messages)
      BY <1>0, <2>0, One, ConcatProperties
    <3>2. [run[r] EXCEPT !.held = <<m>> \o @, !.carrying = None, !.phase = "going"] \in RunRecords
      BY <1>0, <2>0, <3>1, RecordTyped, Bounds
    <3>3. run' = [run EXCEPT ![r] = [run[r] EXCEPT !.held = <<m>> \o @, !.carrying = None, !.phase = "going"]]
      BY <1>0, <1>9, <2>0, <2>2 DEF Push, Typed
    <3>4. run' \in [Runs -> RunRecords]
      BY <1>0, <2>0, <3>2, <3>3 DEF Typed
    <3> QED
      BY <1>0, <1>9, <2>2, <3>4 DEF Push, Typed
  <2>3. CASE ~Open(r) /\ run[r].carrying # m
    BY <1>0, <1>9, <2>3, NewRunTyped DEF Push, Typed
  <2> QED
    BY <2>1, <2>2, <2>3
<1>10. CASE Drive(m)
  <2> DEFINE r == into[m]
             queue == IF run[r].closing THEN run[r].queue ELSE Append(run[r].queue, m)
  <2>0. r \in Runs
    BY <1>10 DEF Drive, TypeInv, Homed
  <2>1. queue \in Seq(Messages)
    BY <1>0, <2>0, AppendProperties
  <2>2. [run[r] EXCEPT !.phase = "going", !.bearer = Sender[m], !.queue = queue] \in RunRecords
    BY <1>0, <2>0, <2>1, RecordTyped, Bounds
  <2>3. run' = [run EXCEPT ![r] = [run[r] EXCEPT !.phase = "going", !.bearer = Sender[m], !.queue = queue]]
    BY <1>0, <1>10, <2>0 DEF Drive, Typed
  <2>4. run' \in [Runs -> RunRecords]
    BY <1>0, <2>0, <2>2, <2>3 DEF Typed
  <2> QED
    BY <1>0, <1>10, <2>4 DEF Drive, Typed
<1>11. CASE PushFails(m)
  <2> DEFINE r == into[m]
  <2>0. r \in Runs
    BY <1>11 DEF PushFails, TypeInv, Homed
  <2>1. CASE run[r].carrying # m
    BY <1>0, <1>11, <2>1, ThrowTyped DEF PushFails, Typed
  <2>2. CASE run[r].carrying = m
    <3>1. Ended(run[r]) \in RunRecords
      BY <1>0, <2>0, RecordTyped, EmptyDistinct
    <3>2. run' = [run EXCEPT ![r] = Ended(run[r])]
      BY <1>0, <1>11, <2>0, <2>2 DEF PushFails, Typed
    <3>3. run' \in [Runs -> RunRecords]
      BY <1>0, <2>0, <3>1, <3>2 DEF Typed
    <3> QED
      BY <1>0, <1>11, <2>2, <3>3 DEF PushFails, Typed
  <2> QED
    BY <2>1, <2>2
<1>12. CASE DriveFails(m)
  <2> DEFINE r == into[m]
  <2>0. r \in Runs
    BY <1>12 DEF DriveFails, TypeInv, Homed
  <2>1. [run[r] EXCEPT !.phase = "abandoned"] \in RunRecords
    BY <1>0, <2>0, RecordTyped, EmptyDistinct
  <2>2. run' = [run EXCEPT ![r] = [run[r] EXCEPT !.phase = "abandoned"]]
    BY <1>0, <1>12, <2>0 DEF DriveFails, Typed
  <2>3. run' \in [Runs -> RunRecords]
    BY <1>0, <2>0, <2>1, <2>2 DEF Typed
  <2> QED
    BY <1>0, <1>12, <2>3, ThrowTyped DEF DriveFails, Typed
<1> QED
  BY <1>1, <1>2, <1>3, <1>4, <1>5, <1>6, <1>7, <1>8, <1>9, <1>10, <1>11, <1>12 DEF Handle

LEMMA NextHeldTyped ==
    ASSUME NEW r \in Runs, NEW rec \in RunRecords
    PROVE  NextHeld(r, rec) \in RunRecords
<1>1. CASE rec.held # <<>>
  <2>1. Head(rec.held) \in Messages /\ Tail(rec.held) \in Seq(Messages)
    BY <1>1, RangeHead DEF RunRecords
  <2>2. [rec EXCEPT !.phase = "delivering", !.carrying = Head(rec.held), !.held = Tail(rec.held)] \in RunRecords
    BY <2>1, RecordTyped, EmptyDistinct
  <2> QED
    BY <1>1, <2>2 DEF NextHeld
<1>2. CASE rec.held = <<>>
  BY <1>2 DEF NextHeld, RunRecords
<1> QED
  BY <1>1, <1>2

LEMMA RunTyped ==
    ASSUME TypeInv, NEW r \in Runs,
           Take(r) \/ TurnDone(r) \/ Deliver(r) \/ Stop(r) \/ End(r) \/ Save(r) \/ CallStep(r)
    PROVE  Typed'
<1> USE DEF Goto, messageVars, Positions
<1>0. /\ Typed /\ run[r] \in RunRecords
      /\ run[r].queue \in Seq(Messages) /\ run[r].held \in Seq(Messages) /\ run[r].bearer \in Accounts \cup {None}
      /\ run[r].actor \in Accounts \cup {None} /\ run[r].modeBy \in Accounts \cup {None}
      /\ run[r].carrying \in Messages \cup {None}
  BY DEF TypeInv, Typed, RunRecords
<1>1. CASE Take(r)
  <2>1. Head(run[r].queue) \in Messages /\ Tail(run[r].queue) \in Seq(Messages)
    BY <1>0, <1>1, RangeHead DEF Take
  <2>2. [run[r] EXCEPT !.queue = Tail(@)] \in RunRecords
    BY <1>0, <2>1 DEF RunRecords
  <2>3. run' \in [Runs -> RunRecords]
    BY <1>0, <1>1, <2>2 DEF Take, Typed
  <2>4. as' \in [Messages -> Accounts \cup {None}]
    BY <1>0, <1>1, <2>1 DEF Take, Typed
  <2> QED
    BY <1>0, <1>1, <2>3, <2>4 DEF Take, Typed
<1>2. CASE TurnDone(r)
  <2>1. run' \in [Runs -> RunRecords]
    BY <1>0, <1>2, NextHeldTyped DEF TurnDone, Typed
  <2> QED
    BY <1>0, <1>2, <2>1 DEF TurnDone, Typed
<1>3. CASE Deliver(r)
  <2> DEFINE m == run[r].carrying
  <2>1. m \in Messages
    BY <1>0, <1>3 DEF Deliver, TypeInv, Carries
  <2>2. HandedTo(r, Sender[m]) \in RunRecords
    BY <1>0, <2>1, HandedTyped, Bounds
  <2>3. NextHeld(r, run[r]) \in RunRecords
    BY <1>0, NextHeldTyped
  <2>4. run' = [run EXCEPT ![r] = HandedTo(r, Sender[m])] \/ run' = [run EXCEPT ![r] = NextHeld(r, run[r])]
    BY <1>0, <1>3 DEF Deliver, Typed
  <2>5. run' \in [Runs -> RunRecords]
    BY <1>0, <2>2, <2>3, <2>4 DEF Typed
  <2>6. [into EXCEPT ![m] = r] \in [Messages -> 0..MaxRuns]
    BY <1>0, <2>1, Bounds DEF Typed
  <2>7. \A where \in {"joining", "returned"} : [pc EXCEPT ![m] = where] \in [Messages -> Positions]
    BY <1>0, <2>1 DEF Typed
  <2>8. into' \in [Messages -> 0..MaxRuns] /\ pc' \in [Messages -> Positions]
    BY <1>0, <1>3, <2>6, <2>7 DEF Deliver, Typed
  <2> QED
    BY <1>0, <1>3, <2>5, <2>8 DEF Deliver, Typed
<1>4. CASE Stop(r)
  <2>1. [run[r] EXCEPT !.closing = TRUE, !.held = <<>>, !.call = IF @ = "asked" THEN "done" ELSE @]
            \in RunRecords
    BY <1>0, EmptyDistinct DEF RunRecords
  <2>2. run' \in [Runs -> RunRecords]
    BY <1>0, <1>4, <2>1 DEF Stop, Typed
  <2> QED
    BY <1>0, <1>4, <2>2 DEF Stop, Typed
<1>5. CASE End(r)
  <2>1. Ended(run[r]) \in RunRecords
    BY <1>0, EndedTyped
  <2>2. run' \in [Runs -> RunRecords]
    BY <1>0, <1>5, <2>1 DEF End, Typed
  <2> QED
    BY <1>0, <1>5, <2>2 DEF End, Typed
<1>6. CASE Save(r)
  <2>1. run[r].held \o waiting \in Seq(Messages)
    BY <1>0, ConcatProperties DEF Typed
  <2>2. [NoRun EXCEPT !.phase = "over"] \in RunRecords
    BY EndedTyped
  <2>3. run' \in [Runs -> RunRecords]
    BY <1>0, <1>6, <2>2 DEF Save, Typed
  <2>4. [m \in Messages |-> IF m \in Range(run[r].held) THEN "waiting" ELSE pc[m]] \in [Messages -> Positions]
    BY <1>0 DEF Typed
  <2>5. saved' \in Nat
    BY <1>0, <1>6 DEF Save, Typed
  <2>6. /\ waiting' \in Seq(Messages) /\ seen' \in [Messages -> Nat] /\ pc' \in [Messages -> Positions]
    BY <1>0, <1>6, <2>1, <2>4, <2>5, CallNextTyped DEF Save
  <2> QED
    BY <1>0, <1>6, <2>3, <2>5, <2>6 DEF Save, Typed
<1>7. CASE CallStep(r)
  <2>1. \A a \in Accounts \cup {None} :
          /\ [run[r] EXCEPT !.call = "allowed", !.by = a] \in RunRecords
          /\ [run[r] EXCEPT !.call = "asked"] \in RunRecords
          /\ [run[r] EXCEPT !.call = "done"] \in RunRecords
    BY <1>0 DEF RunRecords
  <2>2. run' \in {[run EXCEPT ![r] = rec] : rec \in RunRecords}
    BY <1>0, <1>7, <2>1 DEF CallStep, Ask, Decide, Make, Typed
  <2>3. run' \in [Runs -> RunRecords]
    BY <1>0, <2>2 DEF Typed
  <2> QED
    BY <1>0, <1>7, <2>3 DEF CallStep, Ask, Decide, Make, Typed
<1> QED
  BY <1>1, <1>2, <1>3, <1>4, <1>5, <1>6, <1>7

LEMMA TypedKept == TypeInv /\ [Next]_vars => Typed'
<1> SUFFICES ASSUME TypeInv, [Next]_vars PROVE Typed'
  OBVIOUS
<1>1. CASE ChangeMode
  <2>1. current \in Runs
    BY <1>1, Bounds DEF ChangeMode, Open, Running, TypeInv, Typed
  <2>2. run[current].actor \in Accounts \cup {None}
    BY <2>1 DEF TypeInv, Typed, RunRecords
  <2> QED
    BY <1>1, <2>1, <2>2, Bounds DEF ChangeMode, messageVars, TypeInv, Typed
<1>2. CASE ApplyMode
  <2>1. update.run \in Runs /\ update.by \in Accounts \cup {None}
    BY <1>2, Bounds DEF ApplyMode, TypeInv, Typed
  <2>2. [run[update.run] EXCEPT !.modeBy = update.by] \in RunRecords
    <3>1. run[update.run] \in RunRecords
      BY <2>1 DEF TypeInv, Typed
    <3> QED
      BY <2>1, <3>1 DEF RunRecords
  <2>3. run' \in [Runs -> RunRecords]
    BY <1>2, <2>1, <2>2 DEF ApplyMode, TypeInv, Typed
  <2>4. [run |-> 0, by |-> None] \in [run : 0..MaxRuns, by : Accounts \cup {None}]
    BY Bounds
  <2> QED
    BY <1>2, <2>3, <2>4 DEF ApplyMode, messageVars, TypeInv, Typed
<1>3. CASE UNCHANGED vars
  BY <1>3 DEF vars, TypeInv, Typed
<1> QED
  BY <1>1, <1>2, <1>3, MessageTyped, RunTyped DEF Next

-----------------------------------------------------------------------------
(* Where a message is *)

PlaceInv == Homed /\ Carries /\ Placed /\ Counted
SameShape(r) ==
    run'[r].phase = run[r].phase /\ run'[r].carrying = run[r].carrying /\ run'[r].held = run[r].held

(* Nothing moves. *)
LEMMA Unmoved ==
    ASSUME TypeInv, \A r \in Runs : SameShape(r), UNCHANGED <<waiting, saved, pc, into>>
    PROVE  PlaceInv'
<1>1. Homed' /\ Carries'
  BY DEF TypeInv, Homed, Carries, SameShape
<1>2. Placed'
  BY DEF TypeInv, Placed, SameShape
<1>3. {r \in Runs : run'[r].phase = "over"} = {r \in Runs : run[r].phase = "over"}
  BY DEF SameShape
<1>4. Counted'
  BY <1>3 DEF TypeInv, Counted
<1> QED
  BY <1>1, <1>2, <1>4 DEF PlaceInv

(* A message that no run carries or holds and that does not wait is in no   *)
(* place.                                                                   *)
LEMMA Nowhere ==
    ASSUME TypeInv, NEW m \in Messages, pc[m] \notin {"held", "waiting"}
    PROVE  /\ \A r \in Runs : m \notin Range(run[r].held)
           /\ m \notin Range(waiting)
           /\ pc[m] # "joining" => \A r \in Runs : run[r].carrying # m
BY DEF TypeInv, Placed

(* A message moves on, in or out of no place. *)
LEMMA MovedOn ==
    ASSUME TypeInv, NEW m \in Messages, NEW where \in Positions,
           pc[m] \notin {"held", "waiting"}, \A r \in Runs : run[r].carrying # m,
           where \notin {"held", "waiting", "starting"},
           pc' = [pc EXCEPT ![m] = where],
           \A n \in Messages \ {m} : into'[n] = into[n],
           where = "joining" => into'[m] \in Runs,
           \A r \in Runs : SameShape(r), UNCHANGED <<waiting, saved>>
    PROVE  PlaceInv'
<1>1. /\ pc'[m] = where /\ \A n \in Messages \ {m} : pc'[n] = pc[n]
      /\ m \notin Range(waiting) /\ \A r \in Runs : m \notin Range(run[r].held)
  BY Nowhere DEF TypeInv, Typed
<1>2. Homed'
  BY <1>1 DEF TypeInv, Homed, SameShape
<1>3. Carries'
  BY DEF TypeInv, Carries, SameShape
<1>4. \A r \in Runs : \A n \in Range(run[r].held) : n \in Messages
  <2>1. \A r \in Runs : run[r].held \in Seq(Messages)
    BY DEF TypeInv, Typed, RunRecords
  <2> QED
    BY <2>1, RangeOfSeq
<1>5. Placed'
  BY <1>1, <1>4 DEF TypeInv, Placed, SameShape
<1>6. {r \in Runs : run'[r].phase = "over"} = {r \in Runs : run[r].phase = "over"}
  BY DEF SameShape
<1>7. Counted'
  BY <1>6 DEF TypeInv, Counted
<1> QED
  BY <1>2, <1>3, <1>5, <1>7 DEF PlaceInv

LEMMA NewRunPlaces ==
    ASSUME TypeInv, NEW m \in Messages, NewRun(m),
           pc[m] \in {"read", "joining"}, \A r \in Runs : run[r].carrying # m,
           pc' = [pc EXCEPT ![m] = "starting"], UNCHANGED <<waiting, saved>>
    PROVE  PlaceInv'
<1>1. PICK r \in Runs : /\ run[r].phase = "none"
                        /\ run' = [run EXCEPT ![r] = [NoRun EXCEPT !.phase = "preparing",
                                                    !.actor = Sender[m], !.modeBy = Sender[m]]]
                        /\ into' = [into EXCEPT ![m] = r]
  BY DEF NewRun
<1>2. /\ run'[r].phase = "preparing" /\ run'[r].carrying = None /\ run'[r].held = <<>>
      /\ \A q \in Runs \ {r} : run'[q] = run[q]
  BY <1>1 DEF TypeInv, Typed, NoRun
<1>3. /\ pc'[m] = "starting" /\ into'[m] = r
      /\ \A n \in Messages \ {m} : pc'[n] = pc[n] /\ into'[n] = into[n]
      /\ m \notin Range(waiting) /\ \A q \in Runs : m \notin Range(run[q].held)
  BY <1>1, Nowhere DEF TypeInv, Typed
<1>4. Homed'
  BY <1>1, <1>2, <1>3 DEF TypeInv, Homed
<1>5. Carries'
  BY <1>2 DEF TypeInv, Carries
<1>6. \A q \in Runs : \A n \in Range(run[q].held) : n \in Messages
  <2>1. \A q \in Runs : run[q].held \in Seq(Messages)
    BY DEF TypeInv, Typed, RunRecords
  <2> QED
    BY <2>1, RangeOfSeq
<1>7. Placed'
  BY <1>2, <1>3, <1>6, EmptyDistinct, Bounds DEF TypeInv, Placed
<1>8. {q \in Runs : run'[q].phase = "over"} = {q \in Runs : run[q].phase = "over"}
  BY <1>1, <1>2
<1>9. Counted'
  BY <1>8 DEF TypeInv, Counted
<1> QED
  BY <1>4, <1>5, <1>7, <1>9 DEF PlaceInv

(* The next in line is called, and no other message moves. *)
LEMMA CallNextMoves ==
    ASSUME Typed, NEW queue \in Seq(Messages), NEW where \in [Messages -> Positions], NEW count \in Nat,
           Distinct(queue), \A n \in Messages : where[n] = "waiting" <=> n \in Range(queue),
           CallNext(queue, where, count)
    PROVE  /\ Distinct(waiting')
           /\ \A n \in Messages : pc'[n] = "waiting" <=> n \in Range(waiting')
           /\ \A n \in Messages : \/ pc'[n] = where[n] /\ seen'[n] = seen[n]
                                  \/ where[n] = "waiting" /\ pc'[n] = "read" /\ seen'[n] = count
<1>1. CASE queue = <<>>
  BY <1>1, EmptyDistinct DEF CallNext
<1>2. CASE queue # <<>>
  <2>1. /\ Head(queue) \in Messages /\ Range(queue) = {Head(queue)} \cup Range(Tail(queue))
        /\ Distinct(Tail(queue)) /\ Range(Tail(queue)) = Range(queue) \ {Head(queue)}
    BY <1>2, RangeHead, DistinctTail
  <2>2. /\ waiting' = Tail(queue) /\ pc' = [where EXCEPT ![Head(queue)] = "read"]
        /\ seen' = [seen EXCEPT ![Head(queue)] = count]
    BY <1>2 DEF CallNext
  <2>3. \A n \in Messages : /\ pc'[n] = IF n = Head(queue) THEN "read" ELSE where[n]
                            /\ seen'[n] = IF n = Head(queue) THEN count ELSE seen[n]
    BY <2>2 DEF Typed
  <2> QED
    BY <2>1, <2>2, <2>3
<1> QED
  BY <1>1, <1>2

(* startRun throws: its message is refused, and at most one that waited is  *)
(* called.                                                                  *)
LEMMA ThrowMoves ==
    ASSUME TypeInv, NEW m \in Messages, Throw(m), pc[m] # "waiting"
    PROVE  /\ Distinct(waiting')
           /\ \A n \in Messages : pc'[n] = "waiting" <=> n \in Range(waiting')
           /\ pc'[m] = "refused"
           /\ \A n \in Messages \ {m} : \/ pc'[n] = pc[n] /\ seen'[n] = seen[n]
                                        \/ pc[n] = "waiting" /\ pc'[n] = "read" /\ seen'[n] = saved
           /\ \A n, o \in Messages : pc'[n] # pc[n] /\ pc'[n] = "read" /\ pc'[o] # pc[o] /\ pc'[o] = "read"
                                    => n = o
<1> DEFINE where == [pc EXCEPT ![m] = "refused"]
<1>1. where \in [Messages -> Positions] /\ where[m] = "refused" /\ \A n \in Messages \ {m} : where[n] = pc[n]
  BY DEF TypeInv, Typed, Positions
<1>2. Typed /\ waiting \in Seq(Messages) /\ saved \in Nat /\ Distinct(waiting)
      /\ \A n \in Messages : where[n] = "waiting" <=> n \in Range(waiting)
  BY <1>1 DEF TypeInv, Typed, Placed
<1>3. CASE m \in called
  <2>1. CallNext(waiting, where, saved)
    BY <1>3 DEF Throw
  <2> HIDE DEF where
  <2>2. /\ Distinct(waiting')
        /\ \A n \in Messages : pc'[n] = "waiting" <=> n \in Range(waiting')
        /\ \A n \in Messages : \/ pc'[n] = where[n] /\ seen'[n] = seen[n]
                               \/ where[n] = "waiting" /\ pc'[n] = "read" /\ seen'[n] = saved
    BY <1>1, <1>2, <2>1, CallNextMoves
  <2>3. \A n, o \in Messages : pc'[n] # pc[n] /\ pc'[n] = "read" /\ pc'[o] # pc[o] /\ pc'[o] = "read" => n = o
    <3>1. CASE waiting = <<>>
      BY <1>1, <2>1, <3>1 DEF CallNext
    <3>2. CASE waiting # <<>>
      <4>1. Head(waiting) \in Messages /\ pc' = [where EXCEPT ![Head(waiting)] = "read"]
        BY <1>2, <2>1, <3>2, RangeHead DEF CallNext
      <4>2. \A n \in Messages : pc'[n] = IF n = Head(waiting) THEN "read" ELSE where[n]
        BY <1>1, <4>1
      <4> QED
        BY <1>1, <4>2
    <3> QED
      BY <3>1, <3>2
  <2> QED
    BY <1>1, <2>2, <2>3
<1>4. CASE m \notin called
  <2>1. pc' = where /\ UNCHANGED <<waiting, seen>>
    BY <1>4 DEF Throw, Goto
  <2> HIDE DEF where
  <2> QED
    BY <1>1, <1>2, <2>1
<1> QED
  BY <1>3, <1>4

(* The runs keep what they carry and hold while a message is refused. *)
LEMMA ThrowPlaces ==
    ASSUME TypeInv, NEW m \in Messages, Throw(m), pc[m] \in {"read", "joining", "starting"},
           \A r \in Runs : run[r].carrying # m,
           \A r \in Runs : run'[r].carrying = run[r].carrying /\ run'[r].held = run[r].held,
           \A r \in Runs : \/ run'[r].phase = run[r].phase
                           \/ /\ run[r].phase = "preparing" /\ run'[r].phase = "abandoned"
                              /\ pc[m] = "starting" /\ into[m] = r,
           UNCHANGED <<saved, into>>
    PROVE  PlaceInv'
<1>1. /\ Distinct(waiting')
      /\ \A n \in Messages : pc'[n] = "waiting" <=> n \in Range(waiting')
      /\ pc'[m] = "refused"
      /\ \A n \in Messages \ {m} : pc'[n] = pc[n] \/ (pc[n] = "waiting" /\ pc'[n] = "read")
  BY ThrowMoves
<1>2. \A n \in Messages : /\ pc'[n] \in {"starting", "joining", "held"} => pc'[n] = pc[n] /\ n # m
                          /\ pc[n] \in {"starting", "joining", "held"} /\ n # m => pc'[n] = pc[n]
  BY <1>1
<1>3. Homed'
  BY <1>2 DEF TypeInv, Homed
<1>4. Carries'
  BY DEF TypeInv, Carries
<1>5. Counted'
  <2>1. {r \in Runs : run'[r].phase = "over"} = {r \in Runs : run[r].phase = "over"}
    OBVIOUS
  <2> QED
    BY <2>1 DEF TypeInv, Counted
<1>6. \A q \in Runs : \A n \in Range(run[q].held) : n \in Messages /\ n # m
  <2>1. \A q \in Runs : run[q].held \in Seq(Messages)
    BY DEF TypeInv, Typed, RunRecords
  <2> QED
    BY <2>1, RangeOfSeq DEF TypeInv, Placed
<1>7. Placed'
  BY <1>1, <1>2, <1>6 DEF TypeInv, Placed
<1> QED
  BY <1>3, <1>4, <1>5, <1>7 DEF PlaceInv

LEMMA RefusePlaces ==
    ASSUME TypeInv, NEW m \in Messages, Refuse(m)
    PROVE  PlaceInv'
<1>1. pc[m] = "read" /\ Throw(m) /\ UNCHANGED <<run, saved, into>>
  BY DEF Refuse
<1> QED
  BY <1>1, ThrowPlaces, Nowhere

LEMMA HeldTyped ==
    ASSUME TypeInv
    PROVE  /\ \A r \in Runs : run[r] \in RunRecords
           /\ \A r \in Runs : run[r].held \in Seq(Messages) /\ run[r].queue \in Seq(Messages)
           /\ \A r \in Runs : Range(run[r].held) \subseteq Messages /\ Range(run[r].queue) \subseteq Messages
<1>1. \A r \in Runs : run[r] \in RunRecords
  BY DEF TypeInv, Typed
<1>2. \A r \in Runs : run[r].held \in Seq(Messages) /\ run[r].queue \in Seq(Messages)
  BY <1>1 DEF RunRecords
<1> QED
  BY <1>1, <1>2, RangeOfSeq

LEMMA SavePlaces ==
    ASSUME TypeInv, NEW r \in Runs, Save(r)
    PROVE  PlaceInv'
<1> DEFINE where == [n \in Messages |-> IF n \in Range(run[r].held) THEN "waiting" ELSE pc[n]]
           queue == run[r].held \o waiting
<1>1. /\ run[r].phase = "saving" /\ saved' \in {saved, saved + 1} /\ into' = into
      /\ CallNext(queue, where, saved')
  BY DEF Save
<1>2. /\ run'[r].phase = "over" /\ run'[r].held = <<>> /\ run'[r].carrying = None
      /\ \A q \in Runs \ {r} : run'[q] = run[q]
  BY HeldTyped DEF Save, NoRun, TypeInv, Typed
<1>3. where \in [Messages -> Positions] /\ saved \in Nat /\ saved' \in Nat /\ waiting \in Seq(Messages)
  BY <1>1 DEF TypeInv, Typed, Positions
<1>4. /\ queue \in Seq(Messages) /\ Range(queue) = Range(run[r].held) \cup Range(waiting)
  BY <1>3, HeldTyped, ConcatProperties, RangeConcatenation
<1>5. \A n \in Messages : n \in Range(run[r].held) => pc[n] = "held" /\ n \notin Range(waiting)
  BY DEF TypeInv, Placed
<1>6. Distinct(queue)
  <2>1. Range(run[r].held) \cap Range(waiting) = {}
    BY <1>5, HeldTyped
  <2> QED
    BY <1>3, <2>1, HeldTyped, DistinctConcat DEF TypeInv, Placed
<1>7. \A n \in Messages : where[n] = "waiting" <=> n \in Range(queue)
  BY <1>4 DEF TypeInv, Placed
<1>8. /\ Distinct(waiting')
      /\ \A n \in Messages : pc'[n] = "waiting" <=> n \in Range(waiting')
      /\ \A n \in Messages : pc'[n] = where[n] \/ (where[n] = "waiting" /\ pc'[n] = "read")
  <2>1. Typed
    BY DEF TypeInv
  <2> HIDE DEF where, queue
  <2> QED
    BY <1>1, <1>3, <1>4, <1>6, <1>7, <2>1, CallNextMoves
<1>9. \A n \in Messages :
        /\ pc'[n] \in {"starting", "joining", "held"} => pc'[n] = pc[n]
        /\ pc[n] \in {"starting", "joining", "held"} /\ n \notin Range(run[r].held) => pc'[n] = pc[n]
  BY <1>8
<1>10. Homed' /\ Carries'
  BY <1>1, <1>2, <1>9 DEF TypeInv, Homed, Carries
<1>11. \A q \in Runs \ {r}, n \in Messages :
          n \in Range(run[q].held) \/ run[q].carrying = n => n \notin Range(run[r].held)
  BY HeldTyped DEF TypeInv, Placed
<1>12. run[r].carrying = None
  BY <1>1 DEF TypeInv, Carries
<1>13. Placed'
  <2>1. \A q \in Runs : Distinct(run'[q].held)
    BY <1>2, EmptyDistinct DEF TypeInv, Placed
  <2>2. \A q \in Runs : \A n \in Range(run'[q].held) : pc'[n] = "held" /\ into'[n] = q
    BY <1>1, <1>2, <1>9, <1>11, HeldTyped, EmptyDistinct DEF TypeInv, Placed
  <2>3. \A q \in Runs, n \in Messages :
          run'[q].carrying = n =>
              pc'[n] \in {"held", "joining"} /\ into'[n] = q /\ n \notin Range(run'[q].held)
    BY <1>1, <1>2, <1>9, <1>11, <1>12, Bounds DEF TypeInv, Placed
  <2> QED
    BY <1>8, <2>1, <2>2, <2>3 DEF Placed
<1>14. Counted'
  <2> DEFINE Over == {q \in Runs : run[q].phase = "over"}
  <2>1. {q \in Runs : run'[q].phase = "over"} = Over \cup {r} /\ r \notin Over
    BY <1>1, <1>2
  <2>2. IsFiniteSet(Over)
    <3>1. IsFiniteSet(Runs)
      <4>1. MaxRuns \in Int /\ 1 \in Int /\ Runs = 1..MaxRuns
        BY Bounds
      <4>2. IsFiniteSet(1..MaxRuns)
        BY <4>1, FS_Interval
      <4> QED
        BY <4>1, <4>2
    <3>2. Over \in SUBSET Runs
      OBVIOUS
    <3> HIDE DEF Over
    <3> QED
      BY <3>1, <3>2, FS_Subset
  <2>3. Cardinality(Over \cup {r}) = Cardinality(Over) + 1 /\ Cardinality(Over) \in Nat
    BY <2>1, <2>2, FS_AddElement, FS_CardinalityType
  <2>4. saved <= Cardinality(Over)
    BY DEF TypeInv, Counted
  <2>5. saved' <= Cardinality(Over) + 1
    BY <1>1, <1>3, <2>3, <2>4
  <2> QED
    BY <2>1, <2>3, <2>5 DEF Counted
<1> QED
  BY <1>10, <1>13, <1>14 DEF PlaceInv

(* A run changes, and no other; how many are over does not.  *)
LEMMA CountKept ==
    ASSUME TypeInv, NEW r \in Runs, \A q \in Runs \ {r} : run'[q] = run[q],
           run'[r].phase = "over" <=> run[r].phase = "over", saved' = saved
    PROVE  Counted'
<1>1. {q \in Runs : run'[q].phase = "over"} = {q \in Runs : run[q].phase = "over"}
  OBVIOUS
<1> QED
  BY <1>1 DEF TypeInv, Counted

LEMMA HoldPlaces ==
    ASSUME TypeInv, NEW m \in Messages, Hold(m)
    PROVE  PlaceInv'
<1>1. /\ current \in Runs /\ pc[m] = "read" /\ pc'[m] = "held" /\ into'[m] = current
      /\ \A n \in Messages \ {m} : pc'[n] = pc[n] /\ into'[n] = into[n]
      /\ UNCHANGED <<waiting, saved>>
  BY Bounds DEF Hold, Goto, Open, Running, TypeInv, Typed
<1>2. /\ run'[current].phase = run[current].phase /\ run'[current].carrying = run[current].carrying
      /\ run'[current].held = Append(run[current].held, m)
      /\ \A q \in Runs \ {current} : run'[q] = run[q]
  BY <1>1, HeldTyped DEF Hold, TypeInv, Typed, RunRecords
<1>3. /\ \A q \in Runs : m \notin Range(run[q].held) /\ run[q].carrying # m
      /\ m \notin Range(waiting)
  BY <1>1, Nowhere
<1>4. /\ Range(Append(run[current].held, m)) = Range(run[current].held) \cup {m}
      /\ Distinct(Append(run[current].held, m))
  BY <1>1, <1>3, HeldTyped, DistinctAppend DEF TypeInv, Placed
<1>5. Homed' /\ Carries' /\ Counted'
  BY <1>1, <1>2, CountKept DEF TypeInv, Homed, Carries
<1>6. Placed'
  <2>1. \A q \in Runs : Distinct(run'[q].held)
    BY <1>2, <1>4 DEF TypeInv, Placed
  <2>2. \A q \in Runs : \A n \in Range(run'[q].held) : pc'[n] = "held" /\ into'[n] = q
    <3>1. \A n \in Range(run'[current].held) : pc'[n] = "held" /\ into'[n] = current
      BY <1>1, <1>2, <1>4, HeldTyped DEF TypeInv, Placed
    <3>2. \A q \in Runs \ {current} : \A n \in Range(run'[q].held) : pc'[n] = "held" /\ into'[n] = q
      BY <1>1, <1>2, <1>3, HeldTyped DEF TypeInv, Placed
    <3> QED
      BY <3>1, <3>2
  <2>3. \A q \in Runs, n \in Messages :
          run'[q].carrying = n =>
              pc'[n] \in {"held", "joining"} /\ into'[n] = q /\ n \notin Range(run'[q].held)
    <3>1. \A q \in Runs : run'[q].carrying = run[q].carrying
      BY <1>2
    <3>2. \A q \in Runs : Range(run'[q].held) \subseteq Range(run[q].held) \cup {m}
      BY <1>2, <1>4
    <3> QED
      BY <1>1, <1>3, <3>1, <3>2 DEF TypeInv, Placed
  <2>4. Distinct(waiting') /\ \A n \in Messages : pc'[n] = "waiting" <=> n \in Range(waiting')
    BY <1>1, <1>3 DEF TypeInv, Placed
  <2> QED
    BY <2>1, <2>2, <2>3, <2>4 DEF Placed
<1> QED
  BY <1>5, <1>6 DEF PlaceInv

LEMMA QueuePlaces ==
    ASSUME TypeInv, NEW m \in Messages, Queue(m)
    PROVE  PlaceInv'
<1>1. /\ pc[m] = "read" /\ pc'[m] = "waiting" /\ \A n \in Messages \ {m} : pc'[n] = pc[n]
      /\ waiting' = Append(waiting, m) /\ waiting \in Seq(Messages)
      /\ UNCHANGED <<run, into, saved>>
  BY DEF Queue, Goto, TypeInv, Typed
<1>2. /\ \A q \in Runs : m \notin Range(run[q].held) /\ run[q].carrying # m
      /\ m \notin Range(waiting)
  BY <1>1, Nowhere
<1>3. Range(waiting') = Range(waiting) \cup {m} /\ Distinct(waiting')
  BY <1>1, <1>2, DistinctAppend DEF TypeInv, Placed
<1>4. Homed' /\ Carries' /\ Counted'
  BY <1>1 DEF TypeInv, Homed, Carries, Counted
<1>5. Placed'
  BY <1>1, <1>2, <1>3, HeldTyped DEF TypeInv, Placed
<1> QED
  BY <1>4, <1>5 DEF PlaceInv

LEMMA PushPlaces ==
    ASSUME TypeInv, NEW m \in Messages, Push(m)
    PROVE  PlaceInv'
<1> DEFINE r == into[m]
<1>1. /\ pc[m] = "joining" /\ r \in Runs /\ into[m] = r
      /\ UNCHANGED <<waiting, saved>>
  BY DEF Push, TypeInv, Homed
<1>2. run[r].carrying # m => \A q \in Runs : run[q].carrying # m
  BY DEF TypeInv, Placed
<1>3. \A q \in Runs : m \notin Range(run[q].held)
  BY <1>1, Nowhere
<1>4. m # None
  BY Bounds
<1>5. CASE Open(r) /\ run[r].carrying # m
  <2>1. \A q \in Runs : SameShape(q)
    <3>1. run' = [run EXCEPT ![r].queue = IF run[r].phase = "abandoned" THEN @ ELSE Append(@, m),
                             ![r].carrying = @, ![r].phase = @]
      BY <1>5 DEF Push
    <3> QED
      BY <1>1, <3>1, HeldTyped DEF SameShape, TypeInv, Typed, RunRecords
  <2>2. pc' = [pc EXCEPT ![m] = "pushed"] /\ into' = into
    BY <1>5 DEF Push, Goto
  <2> QED
    BY <1>1, <1>2, <1>5, <2>1, <2>2, MovedOn DEF Positions
<1>6. CASE Open(r) /\ run[r].carrying = m
  <2>1. /\ run'[r].phase = "going" /\ run'[r].carrying = None /\ run'[r].held = run[r].held
        /\ \A q \in Runs \ {r} : run'[q] = run[q]
    BY <1>1, <1>6, HeldTyped DEF Push, TypeInv, Typed, RunRecords
  <2>2. pc'[m] = "pushed" /\ into' = into /\ \A n \in Messages \ {m} : pc'[n] = pc[n]
    BY <1>6 DEF Push, Goto, TypeInv, Typed
  <2>3. run[r].phase = "delivering"
    BY <1>1, <1>4, <1>6 DEF TypeInv, Carries
  <2>4. Homed' /\ Carries' /\ Counted'
    BY <1>1, <2>1, <2>2, <2>3, CountKept DEF TypeInv, Homed, Carries
  <2>5. Placed'
    <3> HIDE DEF r
    <3>1. \A q \in Runs : run'[q].held = run[q].held
      BY <2>1
    <3>2. \A q \in Runs : \A n \in Range(run[q].held) : pc'[n] = "held" /\ into'[n] = q
      BY <1>3, <2>2, HeldTyped DEF TypeInv, Placed
    <3>3. \A q \in Runs, n \in Messages : run'[q].carrying = n => run[q].carrying = n /\ n # m
      BY <1>1, <1>6, <2>1, Bounds DEF TypeInv, Placed
    <3>4. \A n \in Messages : pc'[n] = "waiting" <=> pc[n] = "waiting"
      BY <1>1, <2>2
    <3> QED
      BY <1>1, <2>2, <3>1, <3>2, <3>3, <3>4 DEF TypeInv, Placed
  <2> QED
    BY <2>4, <2>5 DEF PlaceInv
<1>7. CASE ~Open(r) /\ run[r].carrying = m
  <2>1. /\ run'[r].phase = "going" /\ run'[r].carrying = None /\ run'[r].held = <<m>> \o run[r].held
        /\ \A q \in Runs \ {r} : run'[q] = run[q]
    BY <1>1, <1>7, HeldTyped DEF Push, TypeInv, Typed, RunRecords
  <2>2. pc'[m] = "held" /\ into' = into /\ \A n \in Messages \ {m} : pc'[n] = pc[n]
    BY <1>7 DEF Push, Goto, TypeInv, Typed
  <2>3. run[r].phase = "delivering"
    BY <1>1, <1>4, <1>7 DEF TypeInv, Carries
  <2>4. <<m>> \in Seq(Messages) /\ Distinct(<<m>>) /\ Range(<<m>>) = {m}
    BY One
  <2>5. Distinct(<<m>> \o run[r].held) /\ Range(<<m>> \o run[r].held) = {m} \cup Range(run[r].held)
    <3>1. Distinct(run[r].held) /\ Range(<<m>>) \cap Range(run[r].held) = {} /\ run[r].held \in Seq(Messages)
      BY <1>1, <1>3, <2>4, HeldTyped DEF TypeInv, Placed
    <3>2. /\ Distinct(<<m>> \o run[r].held)
          /\ Range(<<m>> \o run[r].held) = Range(<<m>>) \cup Range(run[r].held)
      <4> DEFINE first == <<m>>
             rest == run[r].held
      <4>1. /\ first \in Seq(Messages) /\ Distinct(first) /\ rest \in Seq(Messages) /\ Distinct(rest)
            /\ Range(first) \cap Range(rest) = {}
        BY <2>4, <3>1
      <4> HIDE DEF first, rest
      <4>2. Distinct(first \o rest) /\ Range(first \o rest) = Range(first) \cup Range(rest)
        BY <4>1, DistinctConcat
      <4> QED
        BY <4>2 DEF first, rest
    <3> QED
      BY <2>4, <3>2
  <2>6. Homed' /\ Carries' /\ Counted'
    <3> HIDE DEF r
    <3>1. Homed'
      BY <1>1, <2>1, <2>2, <2>3 DEF TypeInv, Homed
    <3> QED
      BY <1>1, <2>1, <2>3, <3>1, CountKept DEF TypeInv, Carries
  <2>7. Placed'
    <3> HIDE DEF r
    <3>1. \A q \in Runs : Distinct(run'[q].held)
      BY <2>1, <2>5 DEF TypeInv, Placed
    <3>2. \A q \in Runs : \A n \in Range(run'[q].held) : pc'[n] = "held" /\ into'[n] = q
      <4>1. \A n \in Range(run'[r].held) : pc'[n] = "held" /\ into'[n] = r
        BY <1>1, <2>1, <2>2, <2>5, HeldTyped DEF TypeInv, Placed
      <4>2. \A q \in Runs \ {r} : \A n \in Range(run'[q].held) : pc'[n] = "held" /\ into'[n] = q
        BY <1>3, <2>1, <2>2, HeldTyped DEF TypeInv, Placed
      <4> QED
        BY <4>1, <4>2
    <3>3. \A q \in Runs, n \in Messages : run'[q].carrying = n => run[q].carrying = n /\ n # m /\ q # r
      BY <1>1, <1>7, <2>1, Bounds DEF TypeInv, Placed
    <3>4. \A n \in Messages : pc'[n] = "waiting" <=> pc[n] = "waiting"
      BY <1>1, <2>2
    <3> QED
      BY <1>1, <2>1, <2>2, <3>1, <3>2, <3>3, <3>4 DEF TypeInv, Placed
  <2> QED
    BY <2>6, <2>7 DEF PlaceInv
<1>8. CASE ~Open(r) /\ run[r].carrying # m /\ Running(r)
  <2>1. pc' = [pc EXCEPT ![m] = "finish"] /\ UNCHANGED <<run, into>>
    BY <1>8 DEF Push, Goto
  <2> QED
    BY <1>1, <1>2, <1>8, <2>1, MovedOn DEF Positions, SameShape
<1>9. CASE ~Open(r) /\ run[r].carrying # m /\ ~Running(r)
  BY <1>1, <1>2, <1>9, NewRunPlaces DEF Push, Goto
<1> QED
  BY <1>5, <1>6, <1>7, <1>8, <1>9

LEMMA DrivePlaces ==
    ASSUME TypeInv, NEW m \in Messages, Drive(m)
    PROVE  PlaceInv'
<1> DEFINE r == into[m]
<1>1. /\ pc[m] = "starting" /\ r \in Runs /\ run[r].phase = "preparing"
      /\ UNCHANGED <<waiting, saved, into>>
  BY DEF Drive, TypeInv, Homed
<1>2. /\ run'[r].phase = "going" /\ run'[r].carrying = run[r].carrying /\ run'[r].held = run[r].held
      /\ \A q \in Runs \ {r} : run'[q] = run[q]
  BY <1>1, HeldTyped DEF Drive, TypeInv, Typed, RunRecords
<1>3. pc'[m] \in {"pushed", "stopped"} /\ \A n \in Messages \ {m} : pc'[n] = pc[n]
  BY DEF Drive, Goto, TypeInv, Typed
<1>4. \A q \in Runs : m \notin Range(run[q].held) /\ run[q].carrying # m
  BY <1>1, Nowhere
<1>5. Homed'
  BY <1>1, <1>2, <1>3 DEF TypeInv, Homed
<1>6. Carries' /\ Counted'
  BY <1>1, <1>2, CountKept DEF TypeInv, Carries
<1>7. Placed'
  BY <1>1, <1>2, <1>3, <1>4, HeldTyped DEF TypeInv, Placed
<1> QED
  BY <1>5, <1>6, <1>7 DEF PlaceInv

LEMMA PushFailsPlaces ==
    ASSUME TypeInv, NEW m \in Messages, PushFails(m)
    PROVE  PlaceInv'
<1> DEFINE r == into[m]
<1>1. pc[m] = "joining" /\ r \in Runs /\ UNCHANGED <<saved, into>>
  BY DEF PushFails, TypeInv, Homed
<1>2. CASE run[r].carrying # m
  <2>1. Throw(m) /\ run' = run
    BY <1>2 DEF PushFails
  <2>2. \A q \in Runs : run[q].carrying # m
    BY <1>2 DEF TypeInv, Placed
  <2> QED
    BY <1>1, <2>1, <2>2, ThrowPlaces
<1>3. CASE run[r].carrying = m
  <2>1. run' = [run EXCEPT ![r] = Ended(run[r])] /\ pc' = [pc EXCEPT ![m] = "lost"] /\ waiting' = waiting
    BY <1>1, <1>3 DEF PushFails, Goto, TypeInv, Typed
  <2>2. run[r].phase = "delivering" /\ m # None
    BY <1>1, <1>3, Bounds DEF TypeInv, Carries
  <2> HIDE DEF r
  <2>3. /\ run'[r].phase = "saving" /\ run'[r].carrying = None /\ run'[r].held = run[r].held
        /\ \A q \in Runs \ {r} : run'[q] = run[q]
    BY <1>1, <2>1, HeldTyped DEF Ended, TypeInv, Typed, RunRecords
  <2>4. pc'[m] = "lost" /\ \A n \in Messages \ {m} : pc'[n] = pc[n]
    BY <2>1 DEF TypeInv, Typed
  <2>5. \A q \in Runs : m \notin Range(run[q].held)
    BY <1>1, Nowhere
  <2>6. Homed' /\ Carries' /\ Counted'
    <3>1. Homed'
      BY <1>1, <2>2, <2>3, <2>4 DEF TypeInv, Homed
    <3> QED
      BY <1>1, <2>2, <2>3, <3>1, CountKept DEF TypeInv, Carries
  <2>7. Placed'
    <3>1. \A q \in Runs : run'[q].held = run[q].held
      BY <2>3
    <3>2. \A q \in Runs : \A n \in Range(run[q].held) : pc'[n] = "held" /\ into'[n] = q
      BY <1>1, <2>4, <2>5, HeldTyped DEF TypeInv, Placed
    <3>3. \A q \in Runs, n \in Messages : run'[q].carrying = n => run[q].carrying = n /\ n # m
      BY <1>1, <1>3, <2>3, Bounds DEF TypeInv, Placed
    <3>4. \A n \in Messages : pc'[n] = "waiting" <=> pc[n] = "waiting"
      BY <1>1, <2>4
    <3> QED
      BY <1>1, <2>1, <2>4, <3>1, <3>2, <3>3, <3>4 DEF TypeInv, Placed
  <2> QED
    BY <2>6, <2>7 DEF PlaceInv
<1> QED
  BY <1>2, <1>3

LEMMA DriveFailsPlaces ==
    ASSUME TypeInv, NEW m \in Messages, DriveFails(m)
    PROVE  PlaceInv'
<1> DEFINE r == into[m]
<1>1. /\ pc[m] = "starting" /\ r \in Runs /\ run[r].phase = "preparing"
      /\ Throw(m) /\ UNCHANGED <<saved, into>> /\ run' = [run EXCEPT ![r].phase = "abandoned"]
  BY DEF DriveFails, TypeInv, Homed
<1>2. \A q \in Runs : run[q].carrying # m
  BY <1>1, Nowhere
<1> HIDE DEF r
<1>3. /\ run'[r].phase = "abandoned" /\ run'[r].carrying = run[r].carrying /\ run'[r].held = run[r].held
      /\ \A q \in Runs \ {r} : run'[q] = run[q]
  BY <1>1, HeldTyped DEF TypeInv, Typed, RunRecords
<1> QED
  BY <1>1, <1>2, <1>3, ThrowPlaces DEF r

LEMMA NextHeldTakes ==
    ASSUME NEW r \in Runs, NEW rec \in RunRecords
    PROVE  /\ rec.held # <<>> =>
                /\ NextHeld(r, rec).phase = "delivering" /\ NextHeld(r, rec).carrying = Head(rec.held)
                /\ NextHeld(r, rec).held = Tail(rec.held)
           /\ rec.held = <<>> =>
                /\ NextHeld(r, rec).phase = "going" /\ NextHeld(r, rec).carrying = None
                /\ NextHeld(r, rec).held = <<>>
<1>1. CASE rec.held # <<>>
  BY <1>1 DEF NextHeld, RunRecords
<1>2. CASE rec.held = <<>>
  BY <1>2 DEF NextHeld, RunRecords
<1> QED
  BY <1>1, <1>2

(* What taking up a held message, or none, does to a run's record. *)
LEMMA NextHeldPlaces ==
    ASSUME TypeInv, NEW r \in Runs, run' = [run EXCEPT ![r] = NextHeld(r, run[r])]
    PROVE  /\ \A q \in Runs \ {r} : run'[q] = run[q]
           /\ \/ /\ run[r].held # <<>>
                 /\ run'[r].phase = "delivering" /\ run'[r].carrying = Head(run[r].held)
                 /\ run'[r].held = Tail(run[r].held)
                 /\ Head(run[r].held) \in Range(run[r].held)
                 /\ Distinct(run'[r].held) /\ Range(run'[r].held) = Range(run[r].held) \ {Head(run[r].held)}
              \/ /\ run[r].held = <<>> /\ run'[r].held = <<>>
                 /\ run'[r].phase = "going" /\ run'[r].carrying = None
<1>1. /\ run[r] \in RunRecords /\ run[r].held \in Seq(Messages) /\ Distinct(run[r].held)
      /\ run'[r] = NextHeld(r, run[r]) /\ \A q \in Runs \ {r} : run'[q] = run[q]
  <2>1. run[r] \in RunRecords /\ run[r].held \in Seq(Messages)
    BY HeldTyped
  <2>2. Distinct(run[r].held)
    BY DEF TypeInv, Placed
  <2>3. run'[r] = NextHeld(r, run[r]) /\ \A q \in Runs \ {r} : run'[q] = run[q]
    BY DEF TypeInv, Typed
  <2> QED
    BY <2>1, <2>2, <2>3
<1>2. CASE run[r].held # <<>>
  <2>1. /\ run'[r].phase = "delivering" /\ run'[r].carrying = Head(run[r].held)
        /\ run'[r].held = Tail(run[r].held)
    BY <1>1, <1>2, NextHeldTakes
  <2>2. /\ Head(run[r].held) \in Range(run[r].held)
        /\ Distinct(Tail(run[r].held)) /\ Range(Tail(run[r].held)) = Range(run[r].held) \ {Head(run[r].held)}
    BY <1>1, <1>2, RangeHead, DistinctTail
  <2> QED
    BY <1>1, <1>2, <2>1, <2>2
<1>3. CASE run[r].held = <<>>
  BY <1>1, <1>3, NextHeldTakes
<1> QED
  BY <1>2, <1>3

(* A run takes up the next of the messages it holds; the one it carried, if *)
(* any, has left.                                                           *)
LEMMA TakenUp ==
    ASSUME TypeInv, NEW r \in Runs, run' = [run EXCEPT ![r] = NextHeld(r, run[r])],
           run[r].phase \in {"going", "delivering"}, UNCHANGED <<waiting, saved, into>>,
           \A n \in Messages : pc'[n] = IF n = run[r].carrying THEN "returned" ELSE pc[n],
           run[r].carrying \in Messages => pc[run[r].carrying] = "held"
    PROVE  PlaceInv'
<1>1. \A q \in Runs \ {r} : run'[q] = run[q]
  BY NextHeldPlaces
<1>2. run'[r].phase = "delivering" <=> run'[r].carrying # None
  <2>1. Range(run[r].held) \subseteq Messages
    BY HeldTyped
  <2>2. \/ run'[r].phase = "delivering" /\ run'[r].carrying \in Range(run[r].held)
        \/ run'[r].phase = "going" /\ run'[r].carrying = None
    BY NextHeldPlaces
  <2> QED
    BY <2>1, <2>2, Bounds
<1>3. run'[r].phase \in {"going", "delivering"} /\ Distinct(run'[r].held)
  BY NextHeldPlaces, EmptyDistinct
<1>4. Range(run'[r].held) \subseteq Range(run[r].held)
      /\ \A n \in Messages : run'[r].carrying = n => n \in Range(run[r].held) /\ n \notin Range(run'[r].held)
  <2>1. \/ run'[r].carrying \in Range(run[r].held) /\ Range(run'[r].held) = Range(run[r].held) \ {run'[r].carrying}
        \/ run'[r].carrying = None /\ Range(run'[r].held) = {}
    BY NextHeldPlaces, EmptyDistinct
  <2> QED
    BY <2>1, Bounds
<1>5. \A q \in Runs : \A n \in Range(run[q].held) : n # run[r].carrying /\ pc'[n] = "held" /\ into'[n] = q
  BY HeldTyped DEF TypeInv, Placed
<1>6. \A q \in Runs \ {r}, n \in Messages : run[q].carrying = n => n # run[r].carrying /\ pc'[n] = pc[n]
  BY DEF TypeInv, Placed
<1>7. Homed' /\ Carries' /\ Counted'
  BY <1>1, <1>2, <1>3, CountKept DEF TypeInv, Homed, Carries
<1>8. Placed'
  <2>1. \A q \in Runs : Distinct(run'[q].held)
    BY <1>1, <1>3 DEF TypeInv, Placed
  <2>2. \A q \in Runs : \A n \in Range(run'[q].held) : pc'[n] = "held" /\ into'[n] = q
    BY <1>1, <1>4, <1>5
  <2>3. \A q \in Runs, n \in Messages :
          run'[q].carrying = n =>
              pc'[n] \in {"held", "joining"} /\ into'[n] = q /\ n \notin Range(run'[q].held)
    <3>1. \A n \in Messages :
            run'[r].carrying = n =>
                pc'[n] \in {"held", "joining"} /\ into'[n] = r /\ n \notin Range(run'[r].held)
      BY <1>4, <1>5
    <3>2. \A q \in Runs \ {r}, n \in Messages :
            run'[q].carrying = n =>
                pc'[n] \in {"held", "joining"} /\ into'[n] = q /\ n \notin Range(run'[q].held)
      BY <1>1, <1>6 DEF TypeInv, Placed
    <3> QED
      BY <3>1, <3>2
  <2>4. Distinct(waiting') /\ \A n \in Messages : pc'[n] = "waiting" <=> n \in Range(waiting')
    BY DEF TypeInv, Placed
  <2> QED
    BY <2>1, <2>2, <2>3, <2>4 DEF Placed
<1> QED
  BY <1>7, <1>8 DEF PlaceInv

LEMMA TurnDonePlaces ==
    ASSUME TypeInv, NEW r \in Runs, TurnDone(r)
    PROVE  PlaceInv'
<1>1. /\ run' = [run EXCEPT ![r] = NextHeld(r, run[r])] /\ run[r].phase = "going"
      /\ UNCHANGED <<waiting, saved, into, pc>>
  BY DEF TurnDone, messageVars
<1>2. run[r].carrying = None /\ \A n \in Messages : n # None
  BY <1>1, Bounds DEF TypeInv, Carries
<1> QED
  BY <1>1, <1>2, TakenUp, Bounds

LEMMA DeliverPlaces ==
    ASSUME TypeInv, NEW r \in Runs, Deliver(r)
    PROVE  PlaceInv'
<1> DEFINE m == run[r].carrying
<1>1. /\ run[r].phase = "delivering" /\ m \in Messages /\ pc[m] = "held" /\ UNCHANGED <<waiting, saved>>
  BY HeldTyped DEF Deliver, TypeInv, Carries, RunRecords
<1>2. CASE run' = [run EXCEPT ![r] = NextHeld(r, run[r])] /\ pc' = [pc EXCEPT ![m] = "returned"] /\ into' = into
  <2>1. \A n \in Messages : pc'[n] = IF n = m THEN "returned" ELSE pc[n]
    BY <1>2 DEF TypeInv, Typed
  <2> QED
    BY <1>1, <1>2, <2>1, TakenUp
<1>3. CASE /\ run' = [run EXCEPT ![r] = HandedTo(r, Sender[m])] /\ pc' = [pc EXCEPT ![m] = "joining"]
           /\ into' = [into EXCEPT ![m] = r]
  <2>1. \A q \in Runs : SameShape(q)
    BY <1>3, HeldTyped DEF HandedTo, SameShape, TypeInv, Typed, RunRecords
  <2>2. /\ pc'[m] = "joining" /\ \A n \in Messages \ {m} : pc'[n] = pc[n]
        /\ into' = into
    BY <1>1, <1>3 DEF TypeInv, Typed, Placed
  <2>3. \A q \in Runs : m \notin Range(run[q].held)
    BY <1>1 DEF TypeInv, Placed
  <2> HIDE DEF m
  <2>4. Homed' /\ Carries' /\ Counted'
    <3>1. {q \in Runs : run'[q].phase = "over"} = {q \in Runs : run[q].phase = "over"}
      BY <2>1 DEF SameShape
    <3>2. Counted'
      BY <1>1, <3>1 DEF TypeInv, Counted
    <3> QED
      BY <1>1, <2>1, <2>2, <3>2 DEF TypeInv, Homed, Carries, SameShape
  <2>5. Placed'
    BY <1>1, <2>1, <2>2, <2>3, HeldTyped DEF TypeInv, Placed, SameShape
  <2> QED
    BY <2>4, <2>5 DEF PlaceInv
<1> QED
  BY <1>2, <1>3 DEF Deliver, Goto

LEMMA StopPlaces ==
    ASSUME TypeInv, NEW r \in Runs, Stop(r)
    PROVE  PlaceInv'
<1>1. /\ run'[r].phase = run[r].phase /\ run'[r].carrying = run[r].carrying /\ run'[r].held = <<>>
      /\ \A q \in Runs \ {r} : run'[q] = run[q]
      /\ UNCHANGED <<waiting, saved, into>>
  BY HeldTyped DEF Stop, TypeInv, Typed, RunRecords
<1>2. \A n \in Messages : pc'[n] = IF n \in Range(run[r].held) THEN "returned" ELSE pc[n]
  BY DEF Stop
<1>3. \A n \in Messages : n \in Range(run[r].held) => pc[n] = "held" /\ into[n] = r /\ run[r].carrying # n
  BY DEF TypeInv, Placed
<1>4. \A q \in Runs \ {r} : \A n \in Messages :
          n \in Range(run[q].held) \/ run[q].carrying = n => n \notin Range(run[r].held)
  BY <1>3 DEF TypeInv, Placed
<1>5. Homed' /\ Carries' /\ Counted'
  <2>1. Homed' /\ Carries'
    BY <1>1, <1>2 DEF TypeInv, Homed, Carries
  <2> QED
    BY <1>1, <2>1, CountKept
<1>6. Placed'
  <2>1. \A q \in Runs : Distinct(run'[q].held)
    BY <1>1, EmptyDistinct DEF TypeInv, Placed
  <2>2. \A q \in Runs : \A n \in Range(run'[q].held) : pc'[n] = "held" /\ into'[n] = q
    BY <1>1, <1>2, <1>4, HeldTyped, EmptyDistinct DEF TypeInv, Placed
  <2>3. \A q \in Runs, n \in Messages :
          run'[q].carrying = n =>
              pc'[n] \in {"held", "joining"} /\ into'[n] = q /\ n \notin Range(run'[q].held)
    BY <1>1, <1>2, <1>3, <1>4, EmptyDistinct DEF TypeInv, Placed
  <2>4. Distinct(waiting') /\ \A n \in Messages : pc'[n] = "waiting" <=> n \in Range(waiting')
    BY <1>1, <1>2, <1>3 DEF TypeInv, Placed
  <2> QED
    BY <2>1, <2>2, <2>3, <2>4 DEF Placed
<1> QED
  BY <1>5, <1>6 DEF PlaceInv

LEMMA EndPlaces ==
    ASSUME TypeInv, NEW r \in Runs, End(r)
    PROVE  PlaceInv'
<1>0. run[r].phase = "going" /\ run[r].carrying = None
  BY DEF End, TypeInv, Carries
<1>1. /\ run[r].phase = "going" /\ run'[r].phase = "saving"
      /\ run'[r].carrying = run[r].carrying /\ run'[r].held = run[r].held
      /\ \A q \in Runs \ {r} : run'[q] = run[q]
      /\ UNCHANGED <<waiting, saved, into, pc>>
  BY <1>0, HeldTyped DEF End, Ended, messageVars, TypeInv, Typed, RunRecords
<1>2. Homed' /\ Carries'
  BY <1>1 DEF TypeInv, Homed, Carries
<1>3. \A q \in Runs : run'[q].carrying = run[q].carrying /\ run'[q].held = run[q].held
  BY <1>1
<1>4. Placed'
  BY <1>1, <1>3 DEF TypeInv, Placed
<1> QED
  BY <1>1, <1>2, <1>4, CountKept DEF PlaceInv

LEMMA SameForAll ==
    ASSUME TypeInv, NEW r \in Runs, \A q \in Runs \ {r} : run'[q] = run[q], SameShape(r)
    PROVE  \A q \in Runs : SameShape(q)
BY DEF SameShape

LEMMA MessagePlaces ==
    ASSUME TypeInv, NEW m \in Messages, Send(m) \/ Handle(m)
    PROVE  PlaceInv'
<1>0. pc[m] \in {"idle", "read", "finish"} =>
        pc[m] \notin {"held", "waiting"} /\ \A r \in Runs : run[r].carrying # m
  BY Nowhere
<1>1. CASE Send(m)
  BY <1>0, <1>1, MovedOn DEF Send, Goto, Positions, SameShape
<1>2. CASE Join(m)
  <2>1. current \in Runs /\ pc[m] = "read"
    BY <1>2, Bounds DEF Join, Open, Running, TypeInv, Typed
  <2>2. \A q \in Runs : SameShape(q)
    BY <1>2, <2>1, HeldTyped DEF Join, HandedTo, SameShape, TypeInv, Typed, RunRecords
  <2>3. pc' = [pc EXCEPT ![m] = "joining"] /\ UNCHANGED <<waiting, saved>>
    BY <1>2 DEF Join, Goto
  <2>4. into'[m] \in Runs /\ \A n \in Messages \ {m} : into'[n] = into[n]
    BY <1>2, <2>1 DEF Join, TypeInv, Typed
  <2>5. "joining" \in Positions /\ "joining" \notin {"held", "waiting", "starting"}
    BY DEF Positions
  <2> QED
    BY <1>0, <2>1, <2>2, <2>3, <2>4, <2>5, MovedOn
<1>3. CASE AwaitEnd(m)
  <2>1. \A n \in Messages \ {m} : into'[n] = into[n]
    BY <1>3 DEF AwaitEnd, TypeInv, Typed
  <2> QED
    BY <1>0, <1>3, <2>1, MovedOn DEF AwaitEnd, Goto, Positions, SameShape
<1>4. CASE Retry(m)
  BY <1>0, <1>4, MovedOn DEF Retry, Goto, Positions, SameShape
<1>5. CASE Begin(m)
  BY <1>0, <1>5, NewRunPlaces DEF Begin, Goto
<1> QED
  BY <1>1, <1>2, <1>3, <1>4, <1>5, RefusePlaces, HoldPlaces, QueuePlaces, PushPlaces, DrivePlaces,
     PushFailsPlaces, DriveFailsPlaces DEF Handle

LEMMA RunPlaces ==
    ASSUME TypeInv, NEW r \in Runs,
           Take(r) \/ TurnDone(r) \/ Deliver(r) \/ Stop(r) \/ End(r) \/ Save(r) \/ CallStep(r)
    PROVE  PlaceInv'
<1>0. run[r] \in RunRecords /\ run \in [Runs -> RunRecords]
  BY DEF TypeInv, Typed
<1>1. CASE Take(r)
  <2>1. \A q \in Runs : SameShape(q)
    BY <1>0, <1>1 DEF Take, SameShape, RunRecords
  <2> QED
    BY <1>1, <2>1, Unmoved DEF Take
<1>2. CASE CallStep(r)
  <2>1. \A q \in Runs : SameShape(q)
    <3>1. PICK c \in {"asked", "allowed", "done"}, a \in Accounts \cup {None} :
             run' = [run EXCEPT ![r] = [run[r] EXCEPT !.call = c, !.by = a]]
      <4>1. \A c : [run[r] EXCEPT !.call = c] = [run[r] EXCEPT !.call = c, !.by = run[r].by]
        BY <1>0 DEF RunRecords
      <4>2. \E c \in {"asked", "allowed", "done"}, a \in Accounts \cup {None} :
              \/ run' = [run EXCEPT ![r] = [run[r] EXCEPT !.call = c, !.by = a]]
              \/ run' = [run EXCEPT ![r] = [run[r] EXCEPT !.call = c]]
        BY <1>0, <1>2 DEF CallStep, Ask, Decide, Make, RunRecords
      <4>3. run[r].by \in Accounts \cup {None}
        BY <1>0 DEF RunRecords
      <4> QED
        BY <4>1, <4>2, <4>3
    <3>2. LET rec == [run[r] EXCEPT !.call = c, !.by = a]
          IN  rec.phase = run[r].phase /\ rec.carrying = run[r].carrying /\ rec.held = run[r].held
      BY <1>0 DEF RunRecords
    <3> QED
      BY <1>0, <3>1, <3>2 DEF SameShape
  <2> QED
    BY <1>2, <2>1, Unmoved DEF CallStep, Ask, Decide, Make, messageVars
<1> QED
  BY <1>1, <1>2, TurnDonePlaces, DeliverPlaces, StopPlaces, EndPlaces, SavePlaces

LEMMA TypeInit == Init => TypeInv
<1> SUFFICES ASSUME Init PROVE TypeInv
  OBVIOUS
<1>1. \A r \in Runs : run[r] = NoRun
  BY DEF Init
<1>2. Homed /\ Carries
  BY <1>1 DEF Init, Homed, Carries, NoRun
<1>3. Placed
  BY <1>1, EmptyDistinct, Bounds DEF Init, Placed, NoRun
<1>4. Counted
  <2>1. {r \in Runs : run[r].phase = "over"} = {}
    BY <1>1 DEF NoRun
  <2>2. Cardinality({}) = 0
    BY FS_EmptySet
  <2>3. saved = 0
    BY DEF Init
  <2> QED
    BY <2>1, <2>2, <2>3 DEF Counted
<1> QED
  BY <1>2, <1>3, <1>4, TypedInit DEF TypeInv

LEMMA TypeNext == TypeInv /\ [Next]_vars => TypeInv'
<1> SUFFICES ASSUME TypeInv, [Next]_vars PROVE PlaceInv'
  BY TypedKept DEF TypeInv, PlaceInv
<1>1. CASE ChangeMode
  BY <1>1, Unmoved DEF ChangeMode, messageVars, SameShape
<1>2. CASE ApplyMode
  <2>1. update.run \in Runs
    BY <1>2, Bounds DEF ApplyMode, TypeInv, Typed
  <2>2. \A q \in Runs : SameShape(q)
    BY <1>2, <2>1, HeldTyped DEF ApplyMode, SameShape, TypeInv, Typed, RunRecords
  <2> QED
    BY <1>2, <2>2, Unmoved DEF ApplyMode, messageVars
<1>3. CASE UNCHANGED vars
  BY <1>3, Unmoved DEF vars, SameShape
<1> QED
  BY <1>1, <1>2, <1>3, MessagePlaces, RunPlaces DEF Next

LEMMA TypesAlways == Spec => []TypeInv
BY TypeInit, TypeNext, PTL DEF Spec

(* Whatever is sent, taken over, stopped and saved, a conversation's runs   *)
(* stay well formed: a run carries a message exactly while it delivers it,  *)
(* a message waits exactly when it is in the waiting list, and no more runs *)
(* are saved than there have been.                                          *)
THEOREM TypeCorrect == Spec => []TypeOK
<1>1. TypeInv => TypeOK
  <2> SUFFICES ASSUME TypeInv PROVE TypeOK
    OBVIOUS
  <2>1. saved \in 0..MaxRuns
    <3> DEFINE Over == {r \in Runs : run[r].phase = "over"}
    <3>1. IsFiniteSet(Runs) /\ Cardinality(Runs) = MaxRuns
      BY Bounds, FS_Interval
    <3>2. Over \subseteq Runs
      OBVIOUS
    <3>3. IsFiniteSet(Over) /\ Cardinality(Over) <= Cardinality(Runs)
      BY <3>1, <3>2, FS_Subset
    <3>4. Cardinality(Over) \in Nat
      BY <3>3, FS_CardinalityType
    <3>5. saved \in Nat /\ saved <= Cardinality(Over)
      BY DEF TypeInv, Typed, Counted
    <3>6. saved <= Cardinality(Over) /\ Cardinality(Over) <= MaxRuns
      BY <3>1, <3>3, <3>5
    <3> HIDE DEF Over
    <3>7. saved <= MaxRuns
      BY <3>4, <3>5, <3>6, Bounds
    <3> QED
      BY <3>5, <3>7, Bounds
  <2>2. \A r \in Runs : run[r] \in RunRecords
    BY HeldTyped
  <2>3. \A r \in Runs : run[r].phase = "delivering" <=> run[r].carrying # None
    BY DEF TypeInv, Carries
  <2> QED
    BY <2>1, <2>2, <2>3 DEF TypeOK, TypeInv, Typed, Placed, RunRecords, Positions
<1> QED
  BY <1>1, TypesAlways, PTL

-----------------------------------------------------------------------------
(* What the actions do to the runs *)

Fixed(r) ==
    /\ run'[r].actor = run[r].actor /\ run'[r].modeBy = run[r].modeBy
    /\ run'[r].call = run[r].call /\ run'[r].by = run[r].by
Still(r) ==
    /\ run'[r].phase = run[r].phase /\ run'[r].queue = run[r].queue
    /\ run'[r].carrying = run[r].carrying /\ run'[r].bearer = run[r].bearer
    /\ run'[r].actor = run[r].actor
Elsewhere(r) == \A q \in Runs \ {r} : run'[q] = run[q]

LEMMA HoldEffect ==
    ASSUME TypeInv, NEW m \in Messages, Hold(m)
    PROVE  \A r \in Runs : Fixed(r) /\ Still(r)
<1>1. current \in Runs
  BY Bounds DEF Hold, Open, Running, TypeInv, Typed
<1>2. run[current] \in RunRecords /\ run \in [Runs -> RunRecords]
  BY <1>1 DEF TypeInv, Typed
<1>3. Fixed(current) /\ Still(current) /\ Elsewhere(current)
  BY <1>1, <1>2 DEF Hold, Fixed, Still, Elsewhere, RunRecords
<1> QED
  BY <1>1, <1>3 DEF Fixed, Still, Elsewhere

LEMMA HandedEffect ==
    ASSUME TypeInv, NEW r \in Runs, NEW a, run' = [run EXCEPT ![r] = HandedTo(r, a)]
    PROVE  /\ Elsewhere(r)
           /\ run'[r].phase = run[r].phase /\ run'[r].queue = run[r].queue
           /\ run'[r].carrying = run[r].carrying
           /\ run'[r].bearer = IF run[r].bearer = None \/ run[r].actor = a THEN run[r].bearer ELSE a
           /\ run'[r].actor = a /\ run'[r].modeBy = a
           /\ run'[r].call = run[r].call /\ run'[r].by = run[r].by
<1>1. run[r] \in RunRecords /\ run \in [Runs -> RunRecords]
  BY DEF TypeInv, Typed
<1> QED
  BY <1>1 DEF HandedTo, Elsewhere, RunRecords

LEMMA NewRunEffect ==
    ASSUME TypeInv, NEW m \in Messages, NewRun(m)
    PROVE  /\ current' \in Runs /\ Elsewhere(current') /\ run[current'].phase = "none"
           /\ into'[m] = current' /\ \A n \in Messages \ {m} : into'[n] = into[n]
           /\ run'[current'] = [NoRun EXCEPT !.phase = "preparing", !.actor = Sender[m], !.modeBy = Sender[m]]
<1>1. PICK r \in Runs : /\ run[r].phase = "none"
                        /\ run' = [run EXCEPT ![r] = [NoRun EXCEPT !.phase = "preparing",
                                                    !.actor = Sender[m], !.modeBy = Sender[m]]]
                        /\ current' = r /\ into' = [into EXCEPT ![m] = r]
  BY DEF NewRun
<1> DEFINE rec == [NoRun EXCEPT !.phase = "preparing", !.actor = Sender[m], !.modeBy = Sender[m]]
<1> HIDE DEF rec
<1>2. run' = [run EXCEPT ![r] = rec]
  BY <1>1 DEF rec
<1>3. run'[r] = rec /\ (\A q \in Runs \ {r} : run'[q] = run[q])
      /\ into'[m] = r /\ (\A n \in Messages \ {m} : into'[n] = into[n])
  BY <1>1, <1>2 DEF TypeInv, Typed
<1> QED
  BY <1>1, <1>3 DEF rec, Elsewhere

LEMMA PushEffect ==
    ASSUME TypeInv, NEW m \in Messages, Push(m), Running(into[m])
    PROVE  LET r == into[m] IN
           /\ r \in Runs /\ Elsewhere(r) /\ Fixed(r) /\ run'[r].bearer = run[r].bearer
           /\ run'[r].phase = IF run[r].carrying = m THEN "going" ELSE run[r].phase
           /\ run'[r].carrying = IF run[r].carrying = m THEN None ELSE run[r].carrying
           /\ run'[r].queue \in {run[r].queue, Append(run[r].queue, m)}
           /\ run[r].phase = "abandoned" => run'[r].queue = run[r].queue
           /\ pc' \in {[pc EXCEPT ![m] = where] : where \in {"pushed", "held", "finish"}}
           /\ UNCHANGED <<current, into>>
<1> DEFINE r == into[m]
<1>1. r \in Runs
  BY DEF Push, TypeInv, Homed
<1>2. run[r] \in RunRecords /\ run \in [Runs -> RunRecords]
  BY <1>1 DEF TypeInv, Typed
<1>3. CASE Open(r)
  <2>1. run' = [run EXCEPT ![r].queue = IF run[r].phase = "abandoned" THEN @ ELSE Append(@, m),
                           ![r].carrying = IF run[r].carrying = m THEN None ELSE @,
                           ![r].phase = IF run[r].carrying = m THEN "going" ELSE @]
        /\ pc' = [pc EXCEPT ![m] = "pushed"] /\ UNCHANGED <<current, into>>
    BY <1>3 DEF Push, Goto
  <2> HIDE DEF r
  <2>2. /\ Elsewhere(r) /\ run'[r].bearer = run[r].bearer
        /\ run'[r].phase = (IF run[r].carrying = m THEN "going" ELSE run[r].phase)
        /\ run'[r].carrying = (IF run[r].carrying = m THEN None ELSE run[r].carrying)
        /\ run'[r].queue = (IF run[r].phase = "abandoned" THEN run[r].queue ELSE Append(run[r].queue, m))
    BY <1>1, <1>2, <2>1 DEF Elsewhere, RunRecords
  <2>3. Fixed(r)
    BY <1>1, <1>2, <2>1 DEF Fixed, RunRecords
  <2> QED
    BY <1>1, <2>1, <2>2, <2>3 DEF r
<1>4. CASE ~Open(r) /\ run[r].carrying = m
  <2>1. run' = [run EXCEPT ![r].held = <<m>> \o @, ![r].carrying = None, ![r].phase = "going"]
        /\ pc' = [pc EXCEPT ![m] = "held"] /\ UNCHANGED <<current, into>>
    BY <1>4 DEF Push, Goto
  <2> HIDE DEF r
  <2>2. /\ Elsewhere(r) /\ run'[r].bearer = run[r].bearer
        /\ run'[r].phase = "going" /\ run'[r].carrying = None
        /\ run'[r].queue = run[r].queue
    BY <1>1, <1>2, <2>1 DEF Elsewhere, RunRecords
  <2>3. Fixed(r)
    BY <1>1, <1>2, <2>1 DEF Fixed, RunRecords
  <2> QED
    BY <1>1, <1>4, <2>1, <2>2, <2>3 DEF r
<1>5. CASE ~Open(r) /\ run[r].carrying # m
  <2>1. run' = run /\ pc' = [pc EXCEPT ![m] = "finish"] /\ UNCHANGED <<current, into>>
    BY <1>5 DEF Push, Goto
  <2> QED
    BY <1>1, <1>5, <2>1 DEF Elsewhere, Fixed
<1> QED
  BY <1>3, <1>4, <1>5

LEMMA DriveEffect ==
    ASSUME TypeInv, NEW m \in Messages, Drive(m)
    PROVE  LET r == into[m] IN
           /\ pc[m] = "starting" /\ r \in Runs /\ run[r].phase = "preparing" /\ Elsewhere(r) /\ Fixed(r)
           /\ run'[r].phase = "going" /\ run'[r].bearer = Sender[m]
           /\ run'[r].carrying = run[r].carrying
           /\ run'[r].queue \in {run[r].queue, Append(run[r].queue, m)}
<1> DEFINE r == into[m]
<1>1. pc[m] = "starting" /\ r \in Runs /\ run[r].phase = "preparing"
  BY DEF Drive, TypeInv, Homed
<1>2. run[r] \in RunRecords /\ run \in [Runs -> RunRecords]
  BY <1>1 DEF TypeInv, Typed
<1>3. run' = [run EXCEPT ![r].phase = "going", ![r].bearer = Sender[m],
                         ![r].queue = IF run[r].closing THEN @ ELSE Append(@, m)]
  BY DEF Drive
<1> HIDE DEF r
<1>4. /\ Elsewhere(r) /\ run'[r].phase = "going" /\ run'[r].bearer = Sender[m]
      /\ run'[r].carrying = run[r].carrying
      /\ run'[r].queue \in {run[r].queue, Append(run[r].queue, m)}
  BY <1>1, <1>2, <1>3 DEF Elsewhere, RunRecords
<1>5. Fixed(r)
  BY <1>1, <1>2, <1>3 DEF Fixed, RunRecords
<1> QED
  BY <1>1, <1>4, <1>5 DEF r

LEMMA EndedEffect ==
    ASSUME TypeInv, NEW r \in Runs, run' = [run EXCEPT ![r] = Ended(run[r])]
    PROVE  /\ Elsewhere(r) /\ run'[r].phase = "saving" /\ run'[r].queue = <<>> /\ run'[r].bearer = None
           /\ run'[r].call = "done" /\ run'[r].actor = run[r].actor /\ run'[r].modeBy = run[r].modeBy
           /\ run'[r].carrying = None
BY HeldTyped DEF Ended, Elsewhere, TypeInv, Typed, RunRecords

(* joinRun throws: its message is refused and the runs go on, or it is lost *)
(* and its run ends.                                                        *)
LEMMA PushFailsEffect ==
    ASSUME TypeInv, NEW m \in Messages, PushFails(m)
    PROVE  /\ pc[m] = "joining" /\ into[m] \in Runs /\ UNCHANGED <<current, saved, into, as, update>>
           /\ \/ Throw(m) /\ run' = run
              \/ /\ "saving" \in overlaps \/ Handled = {m}
                 /\ run' = [run EXCEPT ![into[m]] = Ended(run[into[m]])]
                 /\ pc' = [pc EXCEPT ![m] = "lost"] /\ UNCHANGED <<waiting, seen>>
                 /\ run[into[m]].phase = "delivering"
<1>1. pc[m] = "joining" /\ into[m] \in Runs /\ UNCHANGED <<current, saved, into, as, update>>
  BY DEF PushFails, TypeInv, Homed
<1>2. run[into[m]].carrying = m => run[into[m]].phase = "delivering"
  BY <1>1, Bounds DEF TypeInv, Carries
<1> QED
  BY <1>1, <1>2 DEF PushFails, Goto, TypeInv, Typed

LEMMA DriveFailsEffect ==
    ASSUME TypeInv, NEW m \in Messages, DriveFails(m)
    PROVE  LET r == into[m] IN
           /\ pc[m] = "starting" /\ r \in Runs /\ run[r].phase = "preparing" /\ Elsewhere(r) /\ Fixed(r)
           /\ run'[r].phase = "abandoned" /\ run'[r].bearer = run[r].bearer
           /\ run'[r].carrying = run[r].carrying /\ run'[r].queue = run[r].queue
           /\ Throw(m) /\ UNCHANGED <<current, saved, into, as, update>>
<1> DEFINE r == into[m]
<1>1. pc[m] = "starting" /\ r \in Runs /\ run[r].phase = "preparing"
  BY DEF DriveFails, TypeInv, Homed
<1>2. run[r] \in RunRecords /\ run \in [Runs -> RunRecords]
  BY <1>1 DEF TypeInv, Typed
<1>3. run' = [run EXCEPT ![r].phase = "abandoned"]
  BY DEF DriveFails
<1> HIDE DEF r
<1>4. /\ Elsewhere(r) /\ Fixed(r) /\ run'[r].phase = "abandoned" /\ run'[r].bearer = run[r].bearer
      /\ run'[r].carrying = run[r].carrying /\ run'[r].queue = run[r].queue
  BY <1>1, <1>2, <1>3 DEF Elsewhere, Fixed, RunRecords
<1> QED
  BY <1>1, <1>4 DEF r, DriveFails

LEMMA TakeEffect ==
    ASSUME TypeInv, NEW r \in Runs, Take(r)
    PROVE  /\ Elsewhere(r) /\ Fixed(r) /\ run'[r].phase = run[r].phase
           /\ run'[r].bearer = run[r].bearer /\ run'[r].carrying = run[r].carrying
           /\ run'[r].queue = Tail(run[r].queue)
BY HeldTyped DEF Take, Elsewhere, Fixed, TypeInv, Typed, RunRecords

LEMMA NextHeldEffect ==
    ASSUME TypeInv, NEW r \in Runs, run' = [run EXCEPT ![r] = NextHeld(r, run[r])]
    PROVE  /\ Elsewhere(r) /\ Fixed(r) /\ run'[r].phase \in {"going", "delivering"}
           /\ run'[r].bearer = run[r].bearer /\ run'[r].queue = run[r].queue
<1>1. run[r] \in RunRecords /\ run'[r] = NextHeld(r, run[r]) /\ Elsewhere(r)
  BY HeldTyped DEF Elsewhere, TypeInv, Typed
<1>2. \A rec \in RunRecords :
        LET next == NextHeld(r, rec) IN
        /\ next.actor = rec.actor /\ next.modeBy = rec.modeBy /\ next.call = rec.call
        /\ next.by = rec.by /\ next.bearer = rec.bearer /\ next.queue = rec.queue
        /\ next.phase \in {"going", "delivering"}
  BY DEF NextHeld, RunRecords
<1> QED
  BY <1>1, <1>2 DEF Fixed

LEMMA DeliverEffect ==
    ASSUME TypeInv, NEW r \in Runs, Deliver(r)
    PROVE  LET m == run[r].carrying IN
           /\ m \in Messages /\ pc[m] = "held" /\ into[m] = r /\ UNCHANGED into
           /\ \/ /\ run' = [run EXCEPT ![r] = HandedTo(r, Sender[m])] /\ pc' = [pc EXCEPT ![m] = "joining"]
                 /\ Idle(r)
              \/ run' = [run EXCEPT ![r] = NextHeld(r, run[r])] /\ pc' = [pc EXCEPT ![m] = "returned"]
<1> DEFINE m == run[r].carrying
<1>1. m \in Messages /\ pc[m] = "held"
  BY HeldTyped DEF Deliver, TypeInv, Carries, RunRecords
<1>2. into[m] = r /\ [into EXCEPT ![m] = r] = into
  BY <1>1 DEF TypeInv, Typed, Placed
<1> QED
  BY <1>1, <1>2 DEF Deliver, Goto

LEMMA StopEffect ==
    ASSUME TypeInv, NEW r \in Runs, Stop(r)
    PROVE  /\ Elsewhere(r) /\ Still(r) /\ run'[r].actor = run[r].actor /\ run'[r].modeBy = run[r].modeBy
           /\ run'[r].by = run[r].by
           /\ run'[r].call = IF run[r].call = "asked" THEN "done" ELSE run[r].call
           /\ \A n \in Messages : pc'[n] = pc[n] \/ (pc[n] = "held" /\ pc'[n] = "returned")
<1>1. run[r] \in RunRecords /\ run \in [Runs -> RunRecords]
  BY DEF TypeInv, Typed
<1>2. Elsewhere(r) /\ Still(r)
  BY <1>1 DEF Stop, Elsewhere, Still, RunRecords
<1>3. /\ run'[r].actor = run[r].actor /\ run'[r].modeBy = run[r].modeBy /\ run'[r].by = run[r].by
      /\ run'[r].call = (IF run[r].call = "asked" THEN "done" ELSE run[r].call)
  BY <1>1 DEF Stop, RunRecords
<1>4. \A n \in Messages : pc'[n] = pc[n] \/ (pc[n] = "held" /\ pc'[n] = "returned")
  BY DEF Stop, TypeInv, Placed
<1> QED
  BY <1>2, <1>3, <1>4

LEMMA EndEffect ==
    ASSUME TypeInv, NEW r \in Runs, End(r)
    PROVE  /\ Elsewhere(r) /\ run'[r].phase = "saving" /\ run'[r].queue = <<>> /\ run'[r].bearer = None
           /\ run'[r].call = "done" /\ run'[r].actor = run[r].actor /\ run'[r].modeBy = run[r].modeBy
           /\ run'[r].carrying = None
<1>1. run' = [run EXCEPT ![r] = Ended(run[r])]
  BY DEF End, TypeInv, Typed
<1> QED
  BY <1>1, EndedEffect

LEMMA SaveEffect ==
    ASSUME TypeInv, NEW r \in Runs, Save(r)
    PROVE  /\ run[r].phase = "saving" /\ Elsewhere(r) /\ run'[r] = [NoRun EXCEPT !.phase = "over"]
           /\ UNCHANGED <<current, into>>
           /\ \A n \in Messages :
                \/ pc'[n] = pc[n] /\ seen'[n] = seen[n]
                \/ pc'[n] = "waiting"
                \/ pc[n] \in {"waiting", "held"} /\ pc'[n] = "read" /\ seen'[n] = saved'
           /\ \A n, o \in Messages : pc'[n] # pc[n] /\ pc'[n] = "read" /\ pc'[o] # pc[o] /\ pc'[o] = "read"
                                    => n = o
<1> DEFINE where == [n \in Messages |-> IF n \in Range(run[r].held) THEN "waiting" ELSE pc[n]]
           queue == run[r].held \o waiting
<1>1. run[r] \in RunRecords /\ run \in [Runs -> RunRecords] /\ pc \in [Messages -> Positions]
  BY DEF TypeInv, Typed
<1>2. /\ run[r].phase = "saving" /\ Elsewhere(r) /\ run'[r] = [NoRun EXCEPT !.phase = "over"]
      /\ UNCHANGED <<current, into>>
  BY <1>1 DEF Save, Elsewhere
<1>3. CallNext(queue, where, saved') /\ queue \in Seq(Messages)
      /\ Range(queue) = Range(run[r].held) \cup Range(waiting)
  <2>1. run[r].held \in Seq(Messages) /\ waiting \in Seq(Messages)
    BY HeldTyped DEF TypeInv, Typed
  <2> QED
    BY <2>1, ConcatProperties, RangeConcatenation DEF Save
<1>4. \A n \in Messages : /\ n \in Range(run[r].held) => pc[n] = "held"
                          /\ n \in Range(waiting) => pc[n] = "waiting"
                          /\ where[n] = (IF n \in Range(run[r].held) THEN "waiting" ELSE pc[n])
  BY DEF TypeInv, Placed
<1>5. DOMAIN where = Messages
  OBVIOUS
<1> HIDE DEF where, queue
<1>6. CASE queue = <<>>
  BY <1>2, <1>3, <1>4, <1>5, <1>6 DEF CallNext
<1>7. CASE queue # <<>>
  <2>1. Head(queue) \in Range(queue) /\ Head(queue) \in Messages
    BY <1>3, <1>7, RangeHead
  <2>2. \A n \in Messages : /\ pc'[n] = IF n = Head(queue) THEN "read" ELSE where[n]
                            /\ seen'[n] = IF n = Head(queue) THEN saved' ELSE seen[n]
    BY <1>3, <1>5, <1>7 DEF CallNext, TypeInv, Typed
  <2> QED
    BY <1>2, <1>3, <1>4, <2>1, <2>2
<1> QED
  BY <1>6, <1>7

(* A call is asked for, decided or made. *)
LEMMA CallEffect ==
    ASSUME TypeInv, NEW r \in Runs, CallStep(r)
    PROVE  /\ Elsewhere(r) /\ Still(r) /\ run'[r].actor = run[r].actor /\ run'[r].modeBy = run[r].modeBy
           /\ \/ run'[r].call = "allowed" /\ run'[r].by \in {run[r].modeBy, run[r].actor}
              \/ run'[r].call # "allowed" /\ run'[r].by = run[r].by
           /\ run[r].call = "allowed" => Make(r)
           /\ UNCHANGED <<current, waiting, saved, messageVars, update, overlaps>>
<1>1. run[r] \in RunRecords /\ run \in [Runs -> RunRecords]
  BY DEF TypeInv, Typed
<1>2. PICK c \in {"asked", "allowed", "done"}, a \in {run[r].modeBy, run[r].actor, run[r].by} :
         /\ run' = [run EXCEPT ![r] = [run[r] EXCEPT !.call = c, !.by = a]]
         /\ c # "allowed" => a = run[r].by
         /\ c = "allowed" => a \in {run[r].modeBy, run[r].actor}
  <2>1. \A c : [run[r] EXCEPT !.call = c] = [run[r] EXCEPT !.call = c, !.by = run[r].by]
    BY <1>1 DEF RunRecords
  <2>2. \/ \E c \in {"asked", "done"} : run' = [run EXCEPT ![r] = [run[r] EXCEPT !.call = c]]
        \/ \E a \in {run[r].modeBy, run[r].actor} :
              run' = [run EXCEPT ![r] = [run[r] EXCEPT !.call = "allowed", !.by = a]]
    BY <1>1 DEF CallStep, Ask, Decide, Make
  <2> QED
    BY <2>1, <2>2
<1>3. LET rec == [run[r] EXCEPT !.call = c, !.by = a]
      IN  /\ rec.phase = run[r].phase /\ rec.queue = run[r].queue /\ rec.carrying = run[r].carrying
          /\ rec.bearer = run[r].bearer /\ rec.actor = run[r].actor /\ rec.modeBy = run[r].modeBy
          /\ rec.call = c /\ rec.by = a
  BY <1>1 DEF RunRecords
<1>4. Elsewhere(r) /\ Still(r) /\ run'[r].actor = run[r].actor /\ run'[r].modeBy = run[r].modeBy
      /\ run'[r].call = c /\ run'[r].by = a
  BY <1>1, <1>2, <1>3 DEF Elsewhere, Still
<1>5. run[r].call = "allowed" => Make(r)
  BY DEF CallStep, Ask, Decide
<1>6. UNCHANGED <<current, waiting, saved, messageVars, update, overlaps>>
  BY DEF CallStep, Ask, Decide, Make
<1> QED
  BY <1>2, <1>4, <1>5, <1>6

LEMMA ApplyEffect ==
    ASSUME TypeInv, ApplyMode
    PROVE  \A r \in Runs : Still(r)
<1>1. update.run \in Runs
  BY Bounds DEF ApplyMode, TypeInv, Typed
<1> QED
  BY <1>1, HeldTyped DEF ApplyMode, Still, TypeInv, Typed, RunRecords

-----------------------------------------------------------------------------
(* One run owns the session *)

Active(r) == run[r].phase \notin {"none", "over"}
Going(phase) == phase \in {"preparing", "abandoned", "going", "delivering"}

(* Only the conversation's current run has something to save; while it is   *)
(* being saved no message is handled; a message that joins or starts a run  *)
(* finds it running; and what a handler has read of the session is what was *)
(* saved last.                                                              *)
Own ==
    /\ \A r \in Runs : Active(r) => r = current
    /\ Handled # {} => \A r \in Runs : run[r].phase # "saving"
    /\ \A m \in Messages : pc[m] \in {"joining", "starting"} => Running(into[m])
    /\ \A m \in Messages : pc[m] \in {"read", "starting"} => seen[m] = saved

OwnInv == "saving" \notin overlaps => Own

LEMMA PhaseActive ==
    ASSUME TypeInv, NEW r \in Runs
    PROVE  /\ Active(r) <=> Going(run[r].phase) \/ run[r].phase = "saving"
           /\ Running(r) <=> Going(run[r].phase)
BY HeldTyped, Bounds DEF Active, Going, Running, RunRecords

(* A message is handled that was not, or is no longer, or moves on; no run  *)
(* begins, ends or is saved.                                                *)
LEMMA OwnKept ==
    ASSUME TypeInv, TypeInv', Own, UNCHANGED <<current, saved>>,
           \A r \in Runs : run'[r].phase = run[r].phase \/ (Going(run[r].phase) /\ Going(run'[r].phase)),
           \A n \in Messages : pc'[n] \in {"read", "joining", "starting"} =>
              \/ pc'[n] = pc[n] /\ into'[n] = into[n] /\ seen'[n] = seen[n]
              \/ /\ \A r \in Runs : run[r].phase # "saving"
                 /\ pc'[n] = "read" => seen'[n] = saved
                 /\ pc'[n] = "joining" => into'[n] \in Runs /\ Going(run[into'[n]].phase)
                 /\ pc'[n] # "starting"
    PROVE  Own'
<1>1. \A r \in Runs : /\ Going(run'[r].phase) <=> Going(run[r].phase)
                      /\ run'[r].phase = "saving" <=> run[r].phase = "saving"
                      /\ Active(r)' <=> Active(r)
  BY DEF Going, Active
<1>2. \A r \in Runs : Running(r)' <=> Going(run'[r].phase)
  BY Bounds DEF Running, Going
<1>3. \A n \in Messages : pc[n] \in {"joining", "starting"} => into[n] \in Runs
  BY DEF TypeInv, Homed
<1>4. \A n \in Messages : pc'[n] \in {"joining", "starting"} => Running(into[n])'
  <2> SUFFICES ASSUME NEW n \in Messages, pc'[n] \in {"joining", "starting"} PROVE Running(into[n])'
    OBVIOUS
  <2>1. into'[n] \in Runs /\ Going(run[into'[n]].phase)
    BY <1>3, PhaseActive DEF Own
  <2>2. Going(run'[into'[n]].phase)
    BY <1>1, <2>1
  <2> QED
    BY <2>1, <2>2, Bounds DEF Running, Going
<1>5. Handled' # {} => \A r \in Runs : run'[r].phase # "saving"
  <2> SUFFICES ASSUME NEW n \in Handled' PROVE \A r \in Runs : run[r].phase # "saving"
    BY <1>1
  <2>1. n \in Messages /\ pc'[n] \in {"read", "joining", "starting"}
    BY DEF Handled
  <2> QED
    BY <2>1 DEF Own, Handled
<1>6. \A n \in Messages : pc'[n] \in {"read", "starting"} => seen'[n] = saved'
  BY DEF Own
<1> QED
  BY <1>1, <1>4, <1>5, <1>6 DEF Own

LEMMA OwnBegin ==
    ASSUME TypeInv, Own, NEW m \in Messages, NewRun(m), m \in Handled, ~Running(current),
           pc' = [pc EXCEPT ![m] = "starting"], pc[m] = "read", UNCHANGED <<saved, seen>>
    PROVE  Own'
<1>1. \A r \in Runs : ~Active(r)
  BY PhaseActive DEF Own
<1>2. \A n \in Messages : pc[n] \notin {"joining", "starting"}
  <2> SUFFICES ASSUME NEW n \in Messages, pc[n] \in {"joining", "starting"} PROVE FALSE
    OBVIOUS
  <2>1. Running(into[n]) /\ into[n] \in Runs
    BY DEF Own, TypeInv, Homed
  <2> QED
    BY <1>1, <2>1, PhaseActive
<1>3. /\ current' \in Runs /\ into'[m] = current' /\ run'[current'].phase = "preparing"
      /\ \A r \in Runs \ {current'} : run'[r] = run[r]
  BY NewRunEffect DEF NoRun, Elsewhere
<1>4. pc'[m] = "starting" /\ \A n \in Messages \ {m} : pc'[n] = pc[n]
  BY DEF TypeInv, Typed
<1>5. (\A r \in Runs : Active(r) => r = current)' /\ \A r \in Runs : run'[r].phase # "saving"
  BY <1>1, <1>3 DEF Active
<1>6. Running(current)'
  BY <1>3, Bounds DEF Running
<1>7. \A n \in Messages : pc'[n] \in {"joining", "starting"} => into'[n] = current'
  BY <1>2, <1>3, <1>4
<1> QED
  BY <1>4, <1>5, <1>6, <1>7 DEF Own

(* A message is refused, and another may be called. *)
LEMMA OwnThrow ==
    ASSUME TypeInv, TypeInv', Own, NEW m \in Messages, Throw(m), pc[m] \in {"read", "joining", "starting"},
           UNCHANGED <<current, saved, into>>,
           \A r \in Runs : run'[r].phase = run[r].phase \/ (Going(run[r].phase) /\ Going(run'[r].phase))
    PROVE  Own'
<1>1. \A r \in Runs : run[r].phase # "saving"
  BY DEF Own, Handled
<1>2. /\ pc'[m] = "refused"
      /\ \A n \in Messages \ {m} : \/ pc'[n] = pc[n] /\ seen'[n] = seen[n]
                                   \/ pc'[n] = "read" /\ seen'[n] = saved
  BY ThrowMoves
<1>3. \A n \in Messages : pc'[n] \in {"read", "joining", "starting"} =>
          \/ pc'[n] = pc[n] /\ into'[n] = into[n] /\ seen'[n] = seen[n]
          \/ pc'[n] = "read" /\ seen'[n] = saved
  BY <1>2
<1> QED
  BY <1>1, <1>3, OwnKept

LEMMA OwnMessage ==
    ASSUME TypeInv, TypeInv', Own, "saving" \notin overlaps, NEW m \in Messages, Send(m) \/ Handle(m)
    PROVE  Own'
<1> USE DEF Going
<1>0. /\ pc[m] \in {"read", "joining", "starting"} => \A r \in Runs : run[r].phase # "saving"
      /\ \A where : /\ [pc EXCEPT ![m] = where][m] = where
                    /\ \A n \in Messages \ {m} : [pc EXCEPT ![m] = where][n] = pc[n]
  BY DEF Own, Handled, TypeInv, Typed
<1>1. CASE Send(m) \/ Retry(m)
  <2>1. \A r \in Runs : run[r].phase # "saving"
    BY <1>1 DEF Send, Retry, Settled
  <2>2. seen'[m] = saved /\ \A n \in Messages \ {m} : seen'[n] = seen[n]
    BY <1>1 DEF Send, Retry, TypeInv, Typed
  <2>3. pc'[m] = "read" /\ (\A n \in Messages \ {m} : pc'[n] = pc[n]) /\ UNCHANGED <<run, current, saved, into>>
    BY <1>1 DEF Send, Retry, Goto, TypeInv, Typed
  <2> QED
    BY <2>1, <2>2, <2>3, OwnKept
<1>2. CASE Refuse(m)
  BY <1>2, OwnThrow DEF Refuse
<1>3. CASE Hold(m)
  <2>1. \A r \in Runs : run'[r].phase = run[r].phase
    BY <1>3, HoldEffect DEF Still
  <2>2. pc' = [pc EXCEPT ![m] = "held"] /\ (\A n \in Messages \ {m} : into'[n] = into[n]) /\ UNCHANGED <<current, saved, seen>>
    BY <1>3 DEF Hold, Goto, TypeInv, Typed
  <2> QED
    BY <1>0, <2>1, <2>2, OwnKept
<1>4. CASE Join(m)
  <2>1. current \in Runs /\ Going(run[current].phase) /\ pc[m] = "read"
    BY <1>4, Bounds DEF Join, Open, Running, TypeInv, Typed
  <2>2. \A r \in Runs : run'[r].phase = run[r].phase
    BY <1>4, <2>1, HandedEffect DEF Join, Elsewhere
  <2>3. /\ pc' = [pc EXCEPT ![m] = "joining"] /\ into'[m] = current
        /\ (\A n \in Messages \ {m} : into'[n] = into[n]) /\ UNCHANGED <<current, saved, seen>>
    BY <1>4 DEF Join, Goto, TypeInv, Typed
  <2>4. pc'[m] = "joining" /\ \A n \in Messages \ {m} : pc'[n] = pc[n]
    BY <2>3 DEF TypeInv, Typed
  <2> QED
    BY <1>0, <2>1, <2>2, <2>3, <2>4, OwnKept
<1>5. CASE Queue(m)
  BY <1>0, <1>5, OwnKept DEF Queue, Goto
<1>6. CASE AwaitEnd(m)
  <2>1. \A n \in Messages \ {m} : into'[n] = into[n]
    BY <1>6 DEF AwaitEnd, TypeInv, Typed
  <2> QED
    BY <1>0, <1>6, <2>1, OwnKept DEF AwaitEnd, Goto
<1>7. CASE Begin(m)
  BY <1>7, OwnBegin DEF Begin, Goto, Handled
<1>8. CASE Push(m)
  <2> DEFINE r == into[m]
  <2>1. pc[m] = "joining" /\ Running(r) /\ UNCHANGED <<saved, seen>>
    BY <1>8 DEF Push, Own
  <2>2. /\ r \in Runs /\ Elsewhere(r) /\ UNCHANGED <<current, into>>
        /\ run'[r].phase = IF run[r].carrying = m THEN "going" ELSE run[r].phase
        /\ pc' \in {[pc EXCEPT ![m] = where] : where \in {"pushed", "held", "finish"}}
    BY <1>8, <2>1, PushEffect
  <2>3. Going(run[r].phase)
    BY <2>1, <2>2, PhaseActive
  <2> HIDE DEF r
  <2>4. \A q \in Runs : run'[q].phase = run[q].phase \/ (Going(run[q].phase) /\ Going(run'[q].phase))
    BY <2>2, <2>3 DEF Elsewhere
  <2>5. pc'[m] \notin {"read", "joining", "starting"} /\ \A n \in Messages \ {m} : pc'[n] = pc[n]
    BY <2>2 DEF TypeInv, Typed
  <2> HIDE DEF Going
  <2> QED
    BY <2>1, <2>2, <2>4, <2>5, OwnKept
<1>9. CASE Drive(m)
  <2>1. \A q \in Runs : run'[q].phase = run[q].phase \/ (Going(run[q].phase) /\ Going(run'[q].phase))
    BY <1>9, DriveEffect DEF Elsewhere
  <2>2. /\ pc'[m] \in {"pushed", "stopped"} /\ \A n \in Messages \ {m} : pc'[n] = pc[n]
        /\ UNCHANGED <<into, seen, current, saved>>
    BY <1>9 DEF Drive, Goto, TypeInv, Typed
  <2> QED
    BY <1>0, <2>1, <2>2, OwnKept
<1>10. CASE PushFails(m)
  <2>1. CASE Throw(m) /\ run' = run
    BY <1>10, <2>1, OwnThrow, PushFailsEffect
  <2>2. CASE Handled = {m} /\ run' = [run EXCEPT ![into[m]] = Ended(run[into[m]])] /\ pc' = [pc EXCEPT ![m] = "lost"]
             /\ UNCHANGED seen /\ run[into[m]].phase = "delivering"
    <3>1. into[m] \in Runs /\ UNCHANGED <<current, saved, into>>
      BY <1>10, PushFailsEffect
    <3>2. Elsewhere(into[m]) /\ run'[into[m]].phase = "saving"
      BY <2>2, <3>1, EndedEffect
    <3>3. \A n \in Messages : pc'[n] \notin {"read", "joining", "starting"}
      BY <1>0, <2>2 DEF Handled
    <3>4. \A q \in Runs : Active(q)' => Active(q)
      BY <2>2, <3>1, <3>2 DEF Elsewhere, Active
    <3>5. Handled' = {}
      BY <3>3 DEF Handled
    <3> QED
      BY <3>1, <3>3, <3>4, <3>5 DEF Own
  <2> QED
    BY <1>10, <2>1, <2>2, PushFailsEffect
<1>11. CASE DriveFails(m)
  <2>1. \A q \in Runs : run'[q].phase = run[q].phase \/ (Going(run[q].phase) /\ Going(run'[q].phase))
    BY <1>11, DriveFailsEffect DEF Elsewhere
  <2> QED
    BY <1>11, <2>1, DriveFailsEffect, OwnThrow
<1> QED
  BY <1>1, <1>2, <1>3, <1>4, <1>5, <1>6, <1>7, <1>8, <1>9, <1>10, <1>11 DEF Handle

LEMMA OwnRun ==
    ASSUME TypeInv, TypeInv', Own, "saving" \notin overlaps, NEW r \in Runs,
           Take(r) \/ TurnDone(r) \/ Deliver(r) \/ Stop(r) \/ End(r) \/ Save(r) \/ CallStep(r)
    PROVE  Own'
<1> USE DEF Going
<1>1. CASE Take(r)
  <2>1. \A q \in Runs : run'[q].phase = run[q].phase
    BY <1>1, TakeEffect DEF Elsewhere
  <2> QED
    BY <1>1, <2>1, OwnKept DEF Take
<1>2. CASE TurnDone(r)
  <2>1. \A q \in Runs : run'[q].phase = run[q].phase \/ (Going(run[q].phase) /\ Going(run'[q].phase))
    BY <1>2, NextHeldEffect DEF TurnDone, Elsewhere
  <2> QED
    BY <1>2, <2>1, OwnKept DEF TurnDone, messageVars
<1>3. CASE Deliver(r)
  <2> DEFINE m == run[r].carrying
  <2>1. run[r].phase = "delivering" /\ UNCHANGED <<current, saved, seen, into>>
    BY <1>3, DeliverEffect DEF Deliver
  <2>2. m \in Messages /\ into[m] = r /\ pc' \in {[pc EXCEPT ![m] = where] : where \in {"joining", "returned"}}
    BY <1>3, DeliverEffect
  <2>3. \A q \in Runs : run[q].phase # "saving"
    BY <2>1 DEF Own, Active
  <2>4. run'[r].phase \in {"going", "delivering"} /\ Elsewhere(r)
    BY <1>3, <2>1, DeliverEffect, HandedEffect, NextHeldEffect
  <2> HIDE DEF m
  <2>5. \A q \in Runs : run'[q].phase = run[q].phase \/ (Going(run[q].phase) /\ Going(run'[q].phase))
    BY <2>1, <2>4 DEF Elsewhere
  <2>6. pc'[m] \in {"joining", "returned"} /\ \A n \in Messages \ {m} : pc'[n] = pc[n]
    BY <2>2 DEF TypeInv, Typed
  <2> QED
    BY <2>1, <2>2, <2>3, <2>5, <2>6, OwnKept
<1>4. CASE Stop(r)
  <2>1. \A q \in Runs : run'[q].phase = run[q].phase
    BY <1>4, StopEffect DEF Elsewhere, Still
  <2>2. UNCHANGED <<current, saved, seen, into>>
    BY <1>4 DEF Stop
  <2>3. \A n \in Messages : pc'[n] = pc[n] \/ pc'[n] = "returned"
    BY <1>4, StopEffect
  <2> QED
    BY <2>1, <2>2, <2>3, OwnKept
<1>5. CASE End(r)
  <2>1. Handled = {} /\ run[r].phase = "going" /\ UNCHANGED <<current, saved, pc, seen, into>>
    BY <1>5 DEF End, messageVars
  <2>2. \A n \in Messages : pc[n] \notin {"read", "joining", "starting"}
    BY <2>1 DEF Handled
  <2>3. \A q \in Runs : Active(q)' => Active(q)
    BY <1>5, <2>1, EndEffect DEF Elsewhere, Active
  <2>4. Handled' = {}
    BY <2>1 DEF Handled
  <2> QED
    BY <2>1, <2>2, <2>3, <2>4 DEF Own
<1>6. CASE Save(r)
  <2>1. Handled = {} /\ run[r].phase = "saving"
    BY <1>6 DEF Save
  <2>2. \A n \in Messages : pc[n] \notin {"read", "joining", "starting"}
    BY <2>1 DEF Handled
  <2>3. \A n \in Messages : pc'[n] \in {"read", "joining", "starting"} => pc'[n] = "read" /\ seen'[n] = saved'
    BY <1>6, <2>2, SaveEffect
  <2>4. \A q \in Runs : ~Active(q)'
    BY <1>6, <2>1, SaveEffect DEF Own, Active, Elsewhere, NoRun
  <2>5. \A q \in Runs : run'[q].phase # "saving"
    BY <2>4 DEF Active
  <2> QED
    BY <2>3, <2>4, <2>5 DEF Own
<1>7. CASE CallStep(r)
  <2>1. \A q \in Runs : run'[q].phase = run[q].phase
    BY <1>7, CallEffect DEF Elsewhere, Still
  <2> QED
    BY <1>7, <2>1, CallEffect, OwnKept DEF messageVars
<1> QED
  BY <1>1, <1>2, <1>3, <1>4, <1>5, <1>6, <1>7

LEMMA OwnNext == TypeInv /\ TypeInv' /\ OwnInv /\ [Next]_vars => OwnInv'
<1> SUFFICES ASSUME TypeInv, TypeInv', Own, "saving" \notin overlaps, [Next]_vars PROVE Own'
  <2>1. [Next]_vars => overlaps' = overlaps
    BY DEF Next, Send, Handle, Refuse, Hold, Join, Queue, AwaitEnd, Retry, Begin, Push, PushFails, Drive, DriveFails, Take, TurnDone,
           Deliver, Stop, End, Save, CallStep, Ask, Decide, Make, ChangeMode, ApplyMode, vars
  <2> QED
    BY <2>1 DEF OwnInv
<1>1. CASE ChangeMode
  BY <1>1, OwnKept DEF ChangeMode, messageVars
<1>2. CASE ApplyMode
  BY <1>2, OwnKept, ApplyEffect DEF ApplyMode, messageVars, Still
<1>3. CASE UNCHANGED vars
  BY <1>3, OwnKept DEF vars
<1> QED
  BY <1>1, <1>2, <1>3, OwnMessage, OwnRun DEF Next

LEMMA OwnInit == Init => OwnInv
BY DEF Init, OwnInv, Own, Active, Handled, NoRun

LEMMA OwnsAlways == Spec => []OwnInv
BY OwnInit, OwnNext, TypesAlways, PTL DEF Spec

LEMMA AtMostOne ==
    ASSUME NEW S, \A x, y \in S : x = y
    PROVE  Cardinality(S) <= 1
<1>1. CASE S = {}
  BY <1>1, FS_EmptySet
<1>2. CASE S # {}
  <2>1. PICK x \in S : S = {x}
    BY <1>2
  <2> QED
    BY <2>1, FS_Singleton
<1> QED
  BY <1>1, <1>2

(* "a run winding down still owns the session; the next one resumes it once *)
(* it is saved" (startRun): no two runs of a conversation are unsaved at    *)
(* once and a run begins from what the last one saved, as long as no        *)
(* message is handled while a run is being saved.                           *)
THEOREM OneOwner == Spec => []SessionIsOwned
<1>1. TypeInv /\ OwnInv => SessionIsOwned
  <2> SUFFICES ASSUME TypeInv, Own PROVE
          /\ Cardinality({r \in Runs : run[r].phase \notin {"none", "over"}}) <= 1
          /\ \A m \in Messages : pc[m] = "starting" => seen[m] = saved
    BY DEF OwnInv, SessionIsOwned
  <2>1. \A q, r \in {r \in Runs : run[r].phase \notin {"none", "over"}} : q = r
    BY DEF Own, Active
  <2> QED
    BY <2>1, AtMostOne DEF Own
<1> QED
  BY <1>1, TypesAlways, OwnsAlways, PTL

-----------------------------------------------------------------------------
(* Every message acts on its sender's authority *)

(* One message at a time is handled, and none while another is queued, or   *)
(* another is delivered; a run that is being prepared has its message; a    *)
(* run that goes has its actor's bearer, its queue's senders'.              *)
Bears(r) == run[r].bearer # None /\ run[r].bearer = run[r].actor

Mover ==
    /\ \A m, n \in Handled : m = n
    /\ Handled # {} => \A r \in Runs : run[r].queue = <<>>
    /\ \A m \in Handled, r \in Runs : run[r].phase = "delivering" => run[r].carrying = m
    /\ \A r \in Runs : run[r].queue # <<>> => run[r].phase = "going"
    /\ \A r \in Runs : run[r].phase = "preparing" => \E m \in Messages : pc[m] = "starting" /\ into[m] = r
    /\ \A r \in Runs : run[r].phase \in {"going", "delivering"} => Bears(r)
    /\ \A r \in Runs, m \in Messages : m \in Range(run[r].queue) => run[r].bearer = Sender[m]
    /\ \A m \in Messages : pc[m] = "joining" =>
          run[into[m]].phase = "abandoned" \/ run[into[m]].bearer = Sender[m]
    /\ \A m \in Messages : pc[m] = "starting" => run[into[m]].actor = Sender[m]
    /\ \A m \in Messages : as[m] \in {None, Sender[m]}

MoverInv == {"joins", "saving"} \cap overlaps = {} => Mover

LEMMA OnlyOne ==
    ASSUME NEW s \in Seq(Messages), NEW m \in Messages
    PROVE  s = <<>> => Range(Append(s, m)) = {m}
<1>1. Range(Append(s, m)) = Range(s) \cup {m}
  BY DistinctAppend
<1> QED
  BY <1>1, EmptyDistinct

(* While a message is handled. *)
LEMMA Busy ==
    ASSUME TypeInv, Mover, NEW m \in Handled
    PROVE  /\ m \in Messages /\ Handled = {m} /\ \A r \in Runs : run[r].queue = <<>>
           /\ pc[m] \in {"read", "starting"} => \A r \in Runs : run[r].phase # "delivering"
           /\ pc[m] \in {"read", "joining"} => \A r \in Runs : run[r].phase # "preparing"
           /\ \A n \in Messages \ {m} : pc[n] \notin {"read", "joining", "starting"}
<1>1. /\ m \in Messages /\ Handled = {m} /\ \A r \in Runs : run[r].queue = <<>>
      /\ \A n \in Messages \ {m} : pc[n] \notin {"read", "joining", "starting"}
  BY DEF Mover, Handled
<1>2. pc[m] \in {"read", "starting"} => \A r \in Runs : run[r].phase # "delivering"
  BY DEF Mover, Handled, TypeInv, Placed
<1>3. pc[m] \in {"read", "joining"} => \A r \in Runs : run[r].phase # "preparing"
  BY <1>1 DEF Mover
<1> QED
  BY <1>1, <1>2, <1>3

(* The runs go on as they did, and no message begins to join or to start.  *)
LEMMA MoverKept ==
    ASSUME TypeInv, TypeInv', Mover, \A r \in Runs : Still(r), UNCHANGED as,
           \A n \in Messages : pc'[n] = "starting" <=> pc[n] = "starting",
           \A n \in Messages : pc'[n] = "joining" => pc[n] = "joining",
           \A n \in Messages : pc[n] \in {"joining", "starting"} => into'[n] = into[n],
           \/ Handled' \subseteq Handled
           \/ /\ \A m, n \in Handled' : m = n
              /\ \A r \in Runs : run[r].queue = <<>> /\ run[r].phase # "delivering"
    PROVE  Mover'
<1>1. /\ (\A m, n \in Handled : m = n)'
      /\ (Handled # {} => \A r \in Runs : run[r].queue = <<>>)'
      /\ (\A m \in Handled, r \in Runs : run[r].phase = "delivering" => run[r].carrying = m)'
  <2>1. \A r \in Runs : run'[r].queue = run[r].queue /\ run'[r].phase = run[r].phase
                        /\ run'[r].carrying = run[r].carrying
    BY DEF Still
  <2>2. CASE Handled' \subseteq Handled
    BY <2>1, <2>2 DEF Mover
  <2>3. CASE /\ \A m, n \in Handled' : m = n
             /\ \A r \in Runs : run[r].queue = <<>> /\ run[r].phase # "delivering"
    BY <2>1, <2>3
  <2> QED
    BY <2>2, <2>3
<1>2. /\ (\A r \in Runs : run[r].queue # <<>> => run[r].phase = "going")'
      /\ (\A r \in Runs : run[r].phase \in {"going", "delivering"} => Bears(r))'
      /\ (\A r \in Runs, m \in Messages : m \in Range(run[r].queue) => run[r].bearer = Sender[m])'
      /\ (\A m \in Messages : as[m] \in {None, Sender[m]})'
  <2>1. \A r \in Runs : run'[r].queue = run[r].queue /\ run'[r].phase = run[r].phase
                        /\ run'[r].bearer = run[r].bearer /\ run'[r].actor = run[r].actor
    BY DEF Still
  <2>2. \A r \in Runs, m \in Messages : m \in Range(run'[r].queue) => run'[r].bearer = Sender[m]
    BY <2>1 DEF Mover
  <2>3. /\ \A r \in Runs : run'[r].queue # <<>> => run'[r].phase = "going"
        /\ \A r \in Runs : run'[r].phase \in {"going", "delivering"} => Bears(r)'
    BY <2>1 DEF Mover, Bears
  <2> QED
    BY <2>2, <2>3 DEF Mover
<1>3. (\A r \in Runs : run[r].phase = "preparing" => \E m \in Messages : pc[m] = "starting" /\ into[m] = r)'
  <2> SUFFICES ASSUME NEW r \in Runs, run'[r].phase = "preparing"
               PROVE  \E m \in Messages : pc'[m] = "starting" /\ into'[m] = r
    OBVIOUS
  <2>1. PICK m \in Messages : pc[m] = "starting" /\ into[m] = r
    BY DEF Mover, Still
  <2> QED
    BY <2>1
<1>4. /\ (\A m \in Messages : pc[m] = "joining" =>
            run[into[m]].phase = "abandoned" \/ run[into[m]].bearer = Sender[m])'
      /\ (\A m \in Messages : pc[m] = "starting" => run[into[m]].actor = Sender[m])'
  <2>1. \A m \in Messages : pc[m] \in {"joining", "starting"} => into[m] \in Runs
    BY DEF TypeInv, Homed
  <2> QED
    BY <2>1 DEF Mover, Still
<1> QED
  BY <1>1, <1>2, <1>3, <1>4 DEF Mover

LEMMA MoverJoin ==
    ASSUME TypeInv, Own, Mover, NEW m \in Messages, Join(m)
    PROVE  Mover'
<1>1. pc[m] = "read" /\ m \in Handled /\ current \in Runs /\ Running(current)
      /\ run' = [run EXCEPT ![current] = HandedTo(current, Sender[m])]
      /\ UNCHANGED <<as, current>>
  BY Bounds DEF Join, Open, Running, TypeInv, Typed, Handled
<1>2. /\ pc'[m] = "joining" /\ into'[m] = current /\ \A n \in Messages \ {m} : pc'[n] = pc[n]
  BY DEF Join, Goto, TypeInv, Typed
<1>3. Handled' = {m}
  BY <1>1, <1>2, Busy DEF Handled
<1>4. run[current].phase \in {"going", "abandoned"} /\ (run[current].phase = "going" => Bears(current))
  BY <1>1, Busy DEF Running, Mover
<1>8. \A r \in Runs : run[r].queue = <<>> /\ run[r].phase \notin {"delivering", "preparing"}
  BY <1>1, Busy
<1>9. /\ run'[current].phase = run[current].phase /\ run'[current].queue = run[current].queue
      /\ run'[current].bearer = (IF run[current].bearer = None \/ run[current].actor = Sender[m]
                                THEN run[current].bearer ELSE Sender[m])
      /\ run'[current].actor = Sender[m]
      /\ Elsewhere(current)
  BY <1>1, HandedEffect
<1>5. /\ run'[current].phase \in {"going", "abandoned"} /\ run'[current].queue = <<>>
      /\ run'[current].phase = "abandoned" \/ run'[current].bearer = Sender[m]
      /\ run'[current].actor = Sender[m] /\ Elsewhere(current)
  BY <1>1, <1>4, <1>8, <1>9 DEF Bears
<1>6. /\ \A r \in Runs : run'[r].queue = <<>> /\ run'[r].phase \notin {"delivering", "preparing"}
      /\ \A r \in Runs : run'[r].phase = "going" => Bears(r)'
  <2>1. \A r \in Runs \ {current} : run'[r] = run[r]
    BY <1>5 DEF Elsewhere
  <2>2. \A r \in Runs \ {current} : run'[r].phase = "going" => Bears(r)'
    BY <2>1 DEF Mover, Bears
  <2>3. Sender[m] # None
    BY Bounds
  <2>4. run'[current].phase = "going" => Bears(current)'
    BY <1>1, <1>5, <2>3 DEF Bears
  <2> QED
    BY <1>1, <1>5, <1>8, <2>1, <2>2, <2>4
<1>7. \A n \in Messages : (pc'[n] = "joining" => n = m) /\ pc'[n] # "starting"
  BY <1>1, <1>2, Busy
<1> QED
  BY <1>1, <1>2, <1>3, <1>5, <1>6, <1>7, EmptyDistinct DEF Mover

LEMMA MoverBegin ==
    ASSUME TypeInv, Own, Mover, NEW m \in Messages, Begin(m)
    PROVE  Mover'
<1>1. pc[m] = "read" /\ m \in Handled /\ NewRun(m) /\ UNCHANGED as
  BY DEF Begin, Handled
<1>2. pc'[m] = "starting" /\ \A n \in Messages \ {m} : pc'[n] = pc[n]
  BY DEF Begin, Goto, TypeInv, Typed
<1>3. Handled' = {m}
  BY <1>1, <1>2, Busy DEF Handled
<1>4. /\ into'[m] = current' /\ run'[current'].phase = "preparing" /\ run'[current'].queue = <<>>
      /\ run'[current'].actor = Sender[m] /\ \A r \in Runs \ {current'} : run'[r] = run[r]
  BY <1>1, NewRunEffect DEF NoRun, Elsewhere
<1>5. /\ \A r \in Runs : run'[r].queue = <<>> /\ run'[r].phase # "delivering"
      /\ \A r \in Runs : run'[r].phase = "preparing" => r = current'
      /\ \A r \in Runs : run'[r].phase = "going" => Bears(r)'
  <2>1. \A r \in Runs : run[r].queue = <<>> /\ run[r].phase \notin {"delivering", "preparing"}
    BY <1>1, Busy
  <2>2. \A r \in Runs : run[r].phase = "going" => Bears(r)
    BY DEF Mover
  <2> QED
    BY <1>4, <2>1, <2>2 DEF Bears
<1>6. \A n \in Messages : pc'[n] # "joining" /\ (pc'[n] = "starting" => n = m)
  BY <1>1, <1>2, Busy
<1> QED
  BY <1>1, <1>2, <1>3, <1>4, <1>5, <1>6, EmptyDistinct DEF Mover

LEMMA MoverPush ==
    ASSUME TypeInv, Own, Mover, NEW m \in Messages, Push(m)
    PROVE  Mover'
<1> DEFINE r == into[m]
<1>1. pc[m] = "joining" /\ m \in Handled /\ Running(r) /\ UNCHANGED as
  BY DEF Push, Own, Handled
<1>2. /\ r \in Runs /\ Elsewhere(r) /\ run'[r].bearer = run[r].bearer
      /\ run'[r].phase = IF run[r].carrying = m THEN "going" ELSE run[r].phase
      /\ run'[r].queue \in {run[r].queue, Append(run[r].queue, m)}
      /\ run[r].phase = "abandoned" => run'[r].queue = run[r].queue
      /\ run'[r].actor = run[r].actor /\ (run[r].carrying = m => run[r].phase = "delivering")
      /\ pc' \in {[pc EXCEPT ![m] = where] : where \in {"pushed", "held", "finish"}}
  BY <1>1, PushEffect, Bounds DEF Fixed, TypeInv, Carries
<1>3. run[r].phase = "abandoned" \/ run[r].bearer = Sender[m]
  BY <1>1 DEF Mover
<1> HIDE DEF r
<1>4. pc'[m] \notin {"read", "joining", "starting"} /\ \A n \in Messages \ {m} : pc'[n] = pc[n]
  BY <1>2 DEF TypeInv, Typed
<1>5. Handled' = {}
  BY <1>1, <1>4, Busy DEF Handled
<1>6. /\ run[r].phase = "abandoned" => run'[r].phase = "abandoned" /\ run'[r].queue = <<>>
      /\ run[r].phase # "abandoned" => run'[r].phase = "going"
  <2>1. run[r].phase \in {"going", "delivering", "abandoned"} /\ run[r].queue = <<>>
    BY <1>1, <1>2, Busy DEF Running
  <2>2. run[r].phase = "delivering" => run[r].carrying = m
    BY <1>1, <1>2 DEF Mover
  <2> QED
    BY <1>2, <2>1, <2>2
<1>7. \A n \in Range(run'[r].queue) : n = m /\ run[r].phase # "abandoned"
  <2>1. run[r].queue = <<>> /\ run[r].queue \in Seq(Messages)
    BY <1>1, <1>2, Busy, HeldTyped
  <2>2. Range(Append(run[r].queue, m)) = {m}
    BY <2>1, OnlyOne
  <2> QED
    BY <1>2, <2>1, <2>2, EmptyDistinct
<1>8. /\ \A q \in Runs \ {r} : run'[q] = run[q] /\ run[q].queue = <<>> /\ run[q].phase # "preparing"
      /\ \A q \in Runs : run'[q].phase # "preparing"
  BY <1>1, <1>2, <1>6, Busy DEF Elsewhere
<1>9. \A n \in Messages : pc'[n] \notin {"joining", "starting"}
  BY <1>5 DEF Handled
<1>10. (\A q \in Runs : run[q].phase \in {"going", "delivering"} => Bears(q))'
  <2>1. run'[r].phase \in {"going", "delivering"} => run[r].phase \in {"going", "delivering"}
    BY <1>1, <1>2, <1>6, Busy DEF Running
  <2> QED
    BY <1>2, <1>8, <2>1 DEF Mover, Bears
<1>11. (\A q \in Runs, n \in Messages : n \in Range(run[q].queue) => run[q].bearer = Sender[n])'
  BY <1>2, <1>3, <1>7, <1>8, EmptyDistinct
<1> QED
  BY <1>1, <1>5, <1>6, <1>8, <1>9, <1>10, <1>11 DEF Mover

LEMMA MoverDrive ==
    ASSUME TypeInv, Own, Mover, NEW m \in Messages, Drive(m)
    PROVE  Mover'
<1> DEFINE r == into[m]
<1>1. /\ pc[m] = "starting" /\ r \in Runs /\ run[r].phase = "preparing" /\ Elsewhere(r)
      /\ run'[r].phase = "going" /\ run'[r].bearer = Sender[m]
      /\ run'[r].queue \in {run[r].queue, Append(run[r].queue, m)}
      /\ run'[r].actor = Sender[m]
      /\ UNCHANGED <<into, as>>
  <2>1. /\ pc[m] = "starting" /\ r \in Runs /\ run[r].phase = "preparing" /\ Elsewhere(r)
        /\ run'[r].phase = "going" /\ run'[r].bearer = Sender[m]
        /\ run'[r].queue \in {run[r].queue, Append(run[r].queue, m)}
        /\ run'[r].actor = run[r].actor
    BY DriveEffect DEF Fixed
  <2>2. run[r].actor = Sender[m]
    BY <2>1 DEF Mover
  <2> QED
    BY <2>1, <2>2 DEF Drive
<1>2. \A q \in Runs : run[q].phase = "preparing" => q = r
  BY <1>1, Busy DEF Mover, Handled
<1> HIDE DEF r
<1>3. m \in Handled /\ pc'[m] \in {"pushed", "stopped"} /\ \A n \in Messages \ {m} : pc'[n] = pc[n]
  BY <1>1 DEF Drive, Goto, Handled, TypeInv, Typed
<1>4. Handled' = {}
  BY <1>3, Busy DEF Handled
<1>5. \A n \in Range(run'[r].queue) : n = m
  <2>1. run[r].queue = <<>> /\ run[r].queue \in Seq(Messages)
    BY <1>1, <1>3, Busy, HeldTyped
  <2>2. Range(Append(run[r].queue, m)) = {m}
    BY <2>1, OnlyOne
  <2> QED
    BY <1>1, <2>1, <2>2, EmptyDistinct
<1>6. /\ \A q \in Runs \ {r} : run'[q] = run[q] /\ run[q].queue = <<>>
      /\ \A q \in Runs : run'[q].phase # "preparing"
  BY <1>1, <1>2, <1>3, Busy DEF Elsewhere
<1>7. \A n \in Messages : pc'[n] \notin {"joining", "starting"}
  BY <1>4 DEF Handled
<1>8. (\A q \in Runs : run[q].phase \in {"going", "delivering"} => Bears(q))'
  BY <1>1, <1>6, Bounds DEF Mover, Bears
<1>9. (\A q \in Runs, n \in Messages : n \in Range(run[q].queue) => run[q].bearer = Sender[n])'
  BY <1>1, <1>5, <1>6, EmptyDistinct
<1>10. \A q \in Runs : run'[q].queue # <<>> => run'[q].phase = "going"
  BY <1>1, <1>6
<1>11. \A n \in Messages : as'[n] \in {None, Sender[n]}
  BY <1>1 DEF Mover
<1> QED
  BY <1>4, <1>6, <1>7, <1>8, <1>9, <1>10, <1>11 DEF Mover

LEMMA MoverTake ==
    ASSUME TypeInv, Mover, NEW r \in Runs, Take(r)
    PROVE  Mover'
<1> DEFINE h == Head(run[r].queue)
<1>1. /\ run[r].queue # <<>> /\ run[r].queue \in Seq(Messages)
      /\ as' = [as EXCEPT ![h] = run[r].bearer] /\ UNCHANGED <<pc, into>>
  BY HeldTyped DEF Take
<1>2. h \in Messages /\ h \in Range(run[r].queue) /\ Range(Tail(run[r].queue)) \subseteq Range(run[r].queue)
  BY <1>1, RangeHead
<1>3. run[r].bearer = Sender[h] /\ run[r].phase = "going" /\ Handled = {}
  BY <1>1, <1>2 DEF Mover
<1>4. /\ Elsewhere(r) /\ run'[r].phase = "going" /\ run'[r].bearer = run[r].bearer
      /\ run'[r].queue = Tail(run[r].queue) /\ run'[r].actor = run[r].actor
  BY <1>3, TakeEffect DEF Fixed
<1> HIDE DEF h
<1>5. \A n \in Messages : as'[n] = IF n = h THEN Sender[h] ELSE as[n]
  BY <1>1, <1>2, <1>3 DEF TypeInv, Typed
<1>6. Handled' = {} /\ \A n \in Messages : pc'[n] \notin {"joining", "starting"}
  BY <1>1, <1>3 DEF Handled
<1>7. (\A q \in Runs, n \in Messages : n \in Range(run[q].queue) => run[q].bearer = Sender[n])'
  BY <1>2, <1>4 DEF Mover, Elsewhere
<1>8. /\ (\A q \in Runs : run[q].queue # <<>> => run[q].phase = "going")'
      /\ (\A q \in Runs : run[q].phase \in {"going", "delivering"} => Bears(q))'
  BY <1>1, <1>3, <1>4 DEF Mover, Elsewhere, Bears
<1>9. (\A q \in Runs : run[q].phase = "preparing" => \E m \in Messages : pc[m] = "starting" /\ into[m] = q)'
  <2> SUFFICES ASSUME NEW q \in Runs, run'[q].phase = "preparing"
               PROVE  \E m \in Messages : pc'[m] = "starting" /\ into'[m] = q
    OBVIOUS
  <2>1. run[q].phase = "preparing" /\ UNCHANGED <<pc, into>>
    BY <1>1, <1>4 DEF Elsewhere
  <2> QED
    BY <2>1 DEF Mover
<1>10. /\ (\A m, n \in Handled : m = n)'
       /\ (Handled # {} => \A q \in Runs : run[q].queue = <<>>)'
       /\ (\A m \in Handled, q \in Runs : run[q].phase = "delivering" => run[q].carrying = m)'
       /\ (\A m \in Messages : pc[m] = "joining" =>
              run[into[m]].phase = "abandoned" \/ run[into[m]].bearer = Sender[m])'
       /\ (\A m \in Messages : pc[m] = "starting" => run[into[m]].actor = Sender[m])'
  BY <1>6
<1>11. (\A m \in Messages : as[m] \in {None, Sender[m]})'
  BY <1>5 DEF Mover
<1> QED
  BY <1>7, <1>8, <1>9, <1>10, <1>11 DEF Mover

(* A run takes up the next held message, or none, while none is handled.    *)
LEMMA MoverNextHeld ==
    ASSUME TypeInv, Mover, NEW r \in Runs, run' = [run EXCEPT ![r] = NextHeld(r, run[r])],
           run[r].phase \in {"going", "delivering"}, run[r].queue = <<>>,
           Handled' = {}, Handled = {}, UNCHANGED as
    PROVE  Mover'
<1>1. /\ Elsewhere(r) /\ run'[r].phase \in {"going", "delivering"}
      /\ run'[r].bearer = run[r].bearer /\ run'[r].queue = <<>> /\ run'[r].actor = run[r].actor
  BY NextHeldEffect DEF Fixed
<1>2. \A n \in Messages : pc'[n] \notin {"joining", "starting"} /\ pc[n] # "starting"
  BY DEF Handled
<1>3. \A q \in Runs : run'[q].phase # "preparing"
  BY <1>1, <1>2 DEF Mover, Elsewhere
<1>4. (\A q \in Runs, n \in Messages : n \in Range(run[q].queue) => run[q].bearer = Sender[n])'
  BY <1>1, EmptyDistinct DEF Mover, Elsewhere
<1>5. /\ (\A q \in Runs : run[q].queue # <<>> => run[q].phase = "going")'
      /\ (\A q \in Runs : run[q].phase \in {"going", "delivering"} => Bears(q))'
  BY <1>1 DEF Mover, Elsewhere, Bears
<1> QED
  BY <1>2, <1>3, <1>4, <1>5 DEF Mover

LEMMA MoverDeliver ==
    ASSUME TypeInv, Own, Mover, NEW r \in Runs, Deliver(r)
    PROVE  Mover'
<1> DEFINE m == run[r].carrying
<1>1. /\ m \in Messages /\ pc[m] = "held" /\ into[m] = r /\ UNCHANGED <<into, as>>
      /\ run[r].phase = "delivering"
  BY DeliverEffect DEF Deliver
<1>2. Handled = {} /\ run[r].queue = <<>>
  BY <1>1 DEF Mover, Handled
<1>3. CASE run' = [run EXCEPT ![r] = NextHeld(r, run[r])] /\ pc' = [pc EXCEPT ![m] = "returned"]
  <2>1. Handled' = {}
    BY <1>2, <1>3 DEF Handled, TypeInv, Typed
  <2> QED
    BY <1>1, <1>2, <1>3, <2>1, MoverNextHeld
<1>4. CASE run' = [run EXCEPT ![r] = HandedTo(r, Sender[m])] /\ pc' = [pc EXCEPT ![m] = "joining"]
  <2>1. /\ Elsewhere(r) /\ run'[r].phase = "delivering" /\ run'[r].queue = <<>> /\ run'[r].carrying = m
        /\ run'[r].bearer = Sender[m] /\ run'[r].actor = Sender[m]
    <3>1. Bears(r)
      BY <1>1 DEF Mover
    <3>2. /\ Elsewhere(r) /\ run'[r].phase = run[r].phase /\ run'[r].queue = run[r].queue
          /\ run'[r].carrying = m
          /\ run'[r].bearer = (IF run[r].bearer = None \/ run[r].actor = Sender[m]
                              THEN run[r].bearer ELSE Sender[m])
          /\ run'[r].actor = Sender[m]
      BY <1>4, HandedEffect
    <3> QED
      BY <1>1, <1>2, <3>1, <3>2 DEF Bears
  <2> HIDE DEF m
  <2>2. pc'[m] = "joining" /\ \A n \in Messages \ {m} : pc'[n] = pc[n]
    BY <1>1, <1>4 DEF TypeInv, Typed
  <2>3. Handled' = {m} /\ \A n \in Messages : pc'[n] \in {"joining", "starting"} => n = m
    BY <1>1, <1>2, <2>2 DEF Handled
  <2>4. \A q \in Runs \ {r} : run'[q] = run[q] /\ ~Active(q)
    BY <1>1, <2>1 DEF Own, Active, Elsewhere
  <2>5. \A q \in Runs : run'[q].queue = <<>>
    BY <2>1, <2>4 DEF Mover, Active
  <2>6. \A q \in Runs : run'[q].phase \in {"going", "delivering", "preparing"} => q = r
    BY <2>4 DEF Active
  <2>7. (\A q \in Runs, n \in Messages : n \in Range(run[q].queue) => run[q].bearer = Sender[n])'
    BY <2>5, EmptyDistinct
  <2>8. /\ \A q \in Runs : run'[q].phase \in {"going", "delivering"} => Bears(q)'
        /\ \A q \in Runs : run'[q].phase # "preparing"
        /\ \A q \in Runs : run'[q].phase = "delivering" => run'[q].carrying = m
    BY <1>1, <2>1, <2>6, Bounds DEF Bears
  <2>9. \A n \in Messages : pc'[n] # "starting" /\ (pc'[n] = "joining" => run'[into'[n]].bearer = Sender[n])
    BY <1>1, <1>2, <2>1, <2>2, <2>3 DEF Handled
  <2> QED
    BY <1>1, <2>3, <2>5, <2>7, <2>8, <2>9 DEF Mover
<1> QED
  BY <1>3, <1>4, DeliverEffect

LEMMA MoverEnd ==
    ASSUME TypeInv, Mover, NEW r \in Runs, End(r), Handled = {}
    PROVE  Mover'
<1>1. Elsewhere(r) /\ run'[r].phase = "saving" /\ run'[r].queue = <<>> /\ UNCHANGED <<pc, into, as>>
  BY EndEffect DEF End, messageVars
<1>2. Handled' = {} /\ \A n \in Messages : pc'[n] \notin {"joining", "starting"}
  BY <1>1 DEF Handled
<1>3. (\A q \in Runs, n \in Messages : n \in Range(run[q].queue) => run[q].bearer = Sender[n])'
  BY <1>1, EmptyDistinct DEF Mover, Elsewhere
<1>4. /\ (\A q \in Runs : run[q].queue # <<>> => run[q].phase = "going")'
      /\ (\A q \in Runs : run[q].phase \in {"going", "delivering"} => Bears(q))'
      /\ (\A q \in Runs : run[q].phase = "preparing" => \E m \in Messages : pc[m] = "starting" /\ into[m] = q)'
  BY <1>1 DEF Mover, Elsewhere, Bears
<1> QED
  BY <1>1, <1>2, <1>3, <1>4 DEF Mover

LEMMA MoverSave ==
    ASSUME TypeInv, Own, Mover, NEW r \in Runs, Save(r), Handled = {}
    PROVE  Mover'
<1>1. /\ run[r].phase = "saving" /\ Elsewhere(r) /\ run'[r].phase = "over" /\ run'[r].queue = <<>>
      /\ UNCHANGED <<into, as>>
  <2>1. run[r].phase = "saving" /\ Elsewhere(r) /\ run'[r] = [NoRun EXCEPT !.phase = "over"]
    BY SaveEffect
  <2> QED
    BY <2>1 DEF Save, NoRun
<1>2. \A q \in Runs : run'[q].queue = <<>> /\ run'[q].phase \notin {"preparing", "going", "delivering"}
  BY <1>1 DEF Own, Active, Mover, Elsewhere
<1>3. \A n \in Messages : pc[n] \notin {"read", "joining", "starting"}
  BY DEF Handled
<1>4. (\A m, n \in Handled : m = n)' /\ \A n \in Messages : pc'[n] \notin {"joining", "starting"}
  BY <1>3, SaveEffect DEF Handled
<1> QED
  BY <1>1, <1>2, <1>4, EmptyDistinct DEF Mover

(* A message is refused while it is handled, and another may be called. *)
LEMMA MoverThrow ==
    ASSUME TypeInv, TypeInv', Mover, NEW m \in Messages, Throw(m), m \in Handled,
           UNCHANGED <<into, as>>,
           \A r \in Runs : run'[r].phase \notin {"preparing", "delivering"},
           \A r \in Runs : run'[r].queue = run[r].queue,
           \A r \in Runs : run'[r].phase = "going" => Bears(r)'
    PROVE  Mover'
<1>1. /\ \A r \in Runs : run'[r].queue = <<>>
      /\ \A n \in Messages \ {m} : pc[n] \notin {"read", "joining", "starting"}
      /\ pc[m] \in {"read", "joining", "starting"}
  BY Busy DEF Handled
<1>2. /\ pc'[m] = "refused"
      /\ \A n \in Messages \ {m} : pc'[n] = pc[n] \/ (pc[n] = "waiting" /\ pc'[n] = "read")
      /\ \A n, o \in Messages : pc'[n] # pc[n] /\ pc'[n] = "read" /\ pc'[o] # pc[o] /\ pc'[o] = "read" => n = o
  BY <1>1, ThrowMoves
<1>3. /\ \A n \in Messages : pc'[n] \notin {"joining", "starting"}
      /\ \A n, o \in Messages : pc'[n] = "read" /\ pc'[o] = "read" => n = o
  BY <1>1, <1>2
<1>4. \A n, o \in Handled' : n = o
  BY <1>3 DEF Handled
<1> QED
  BY <1>1, <1>3, <1>4, EmptyDistinct DEF Mover

LEMMA MoverPushFails ==
    ASSUME TypeInv, TypeInv', Own, Mover, "saving" \notin overlaps, NEW m \in Messages, PushFails(m)
    PROVE  Mover'
<1> DEFINE r == into[m]
<1>1. /\ pc[m] = "joining" /\ m \in Handled /\ r \in Runs /\ UNCHANGED <<current, saved, into, as, update>>
  BY PushFailsEffect DEF Handled
<1>2. /\ \A q \in Runs : run[q].queue = <<>> /\ run[q].phase # "preparing"
      /\ \A n \in Messages \ {m} : pc[n] \notin {"read", "joining", "starting"}
  BY <1>1, Busy
<1>3. CASE run[r].carrying # m
  <2>1. Throw(m) /\ run' = run
    BY <1>3 DEF PushFails
  <2>2. \A q \in Runs : run[q].phase # "delivering"
    BY <1>1, <1>3 DEF Mover, TypeInv, Placed
  <2>3. \A q \in Runs : run'[q].phase = "going" => Bears(q)'
    BY <2>1 DEF Mover, Bears
  <2> QED
    BY <1>1, <1>2, <2>1, <2>2, <2>3, MoverThrow
<1>4. CASE run[r].carrying = m
  <2>1. run' = [run EXCEPT ![r] = Ended(run[r])] /\ pc' = [pc EXCEPT ![m] = "lost"]
    BY <1>1, <1>4 DEF PushFails, Goto, TypeInv, Typed
  <2>2. Elsewhere(r) /\ run'[r].phase = "saving" /\ run'[r].queue = <<>>
    BY <1>1, <2>1, EndedEffect
  <2> HIDE DEF r
  <2>3. Handled' = {} /\ \A n \in Messages : pc'[n] \notin {"joining", "starting"}
    BY <1>1, <1>2, <2>1 DEF Handled, TypeInv, Typed
  <2>4. \A q \in Runs : run'[q].queue = <<>> /\ run'[q].phase # "preparing"
    BY <1>2, <2>2 DEF Elsewhere
  <2>5. (\A q \in Runs : run[q].phase \in {"going", "delivering"} => Bears(q))'
    BY <2>2 DEF Mover, Elsewhere, Bears
  <2> QED
    BY <1>1, <2>3, <2>4, <2>5, EmptyDistinct DEF Mover
<1> QED
  BY <1>3, <1>4

LEMMA MoverDriveFails ==
    ASSUME TypeInv, TypeInv', Mover, NEW m \in Messages, DriveFails(m)
    PROVE  Mover'
<1> DEFINE r == into[m]
<1>1. /\ pc[m] = "starting" /\ r \in Runs /\ Elsewhere(r) /\ Throw(m) /\ UNCHANGED <<into, as>>
      /\ run'[r].phase = "abandoned" /\ run'[r].queue = run[r].queue
  BY DriveFailsEffect
<1>2. m \in Handled /\ \A q \in Runs : run[q].phase # "delivering"
  BY <1>1, Busy DEF Handled
<1>3. \A q \in Runs : run[q].phase = "preparing" => q = r
  BY <1>1, <1>2, Busy DEF Mover, Handled
<1> HIDE DEF r
<1>4. \A q \in Runs : run'[q].phase \notin {"preparing", "delivering"} /\ run'[q].queue = run[q].queue
  BY <1>1, <1>2, <1>3 DEF Elsewhere
<1>5. \A q \in Runs : run'[q].phase = "going" => Bears(q)'
  BY <1>1 DEF Mover, Elsewhere, Bears
<1> QED
  BY <1>1, <1>2, <1>4, <1>5, MoverThrow

LEMMA MoverMessage ==
    ASSUME TypeInv, TypeInv', Own, Mover, {"joins", "saving"} \cap overlaps = {},
           NEW m \in Messages, Send(m) \/ Handle(m)
    PROVE  Mover'
<1>1. CASE Send(m) \/ Retry(m)
  <2>1. /\ Handled = {} /\ \A r \in Runs : run[r].phase # "delivering" /\ run[r].queue = <<>>
    BY <1>1 DEF Send, Retry, Quiet
  <2>2. /\ pc[m] \in {"idle", "finish"} /\ pc'[m] = "read" /\ \A n \in Messages \ {m} : pc'[n] = pc[n]
    BY <1>1 DEF Send, Retry, Goto, TypeInv, Typed
  <2>3. \A n, o \in Handled' : n = o
    BY <2>1, <2>2 DEF Handled
  <2>4. \A r \in Runs : Still(r)
    BY <1>1 DEF Send, Retry, Still
  <2> QED
    BY <1>1, <2>1, <2>2, <2>3, <2>4, MoverKept DEF Send, Retry
<1>2. CASE Refuse(m)
  <2>1. pc[m] = "read" /\ m \in Handled /\ Throw(m) /\ UNCHANGED <<run, into, as>>
    BY <1>2 DEF Refuse, Handled
  <2>2. \A r \in Runs : run[r].phase \notin {"preparing", "delivering"}
    BY <2>1, Busy
  <2>3. \A r \in Runs : run'[r].phase = "going" => Bears(r)'
    BY <2>1 DEF Mover, Bears
  <2> QED
    BY <2>1, <2>2, <2>3, MoverThrow
<1>3. CASE Hold(m) \/ Queue(m) \/ AwaitEnd(m)
  <2>1. /\ pc[m] = "read" /\ UNCHANGED as
        /\ \A n \in Messages \ {m} : pc'[n] = pc[n] /\ into'[n] = into[n]
        /\ pc'[m] \in {"held", "waiting", "finish"}
    BY <1>3 DEF Hold, Queue, AwaitEnd, Goto, TypeInv, Typed
  <2>2. \A r \in Runs : Still(r)
    <3>1. CASE Hold(m)
      BY <3>1, HoldEffect
    <3>2. CASE Queue(m) \/ AwaitEnd(m)
      BY <3>2 DEF Queue, AwaitEnd, Still
    <3> QED
      BY <1>3, <3>1, <3>2
  <2>3. Handled' \subseteq Handled
    BY <2>1 DEF Handled
  <2>4. \A n \in Messages : pc[n] \in {"joining", "starting"} \/ pc'[n] \in {"joining", "starting"} =>
            pc'[n] = pc[n] /\ into'[n] = into[n]
    BY <2>1
  <2> QED
    BY <2>1, <2>2, <2>3, <2>4, MoverKept
<1> QED
  BY <1>1, <1>2, <1>3, MoverJoin, MoverBegin, MoverPush, MoverPushFails, MoverDrive, MoverDriveFails DEF Handle

LEMMA MoverRun ==
    ASSUME TypeInv, TypeInv', Own, Mover, {"joins", "saving"} \cap overlaps = {}, NEW r \in Runs,
           Take(r) \/ TurnDone(r) \/ Deliver(r) \/ Stop(r) \/ End(r) \/ Save(r) \/ CallStep(r)
    PROVE  Mover'
<1>1. CASE TurnDone(r)
  <2>1. /\ run' = [run EXCEPT ![r] = NextHeld(r, run[r])] /\ run[r].phase = "going" /\ run[r].queue = <<>>
        /\ Handled = {} /\ UNCHANGED <<pc, as>>
    BY <1>1 DEF TurnDone, messageVars
  <2>2. Handled' = {}
    BY <2>1 DEF Handled
  <2> QED
    BY <2>1, <2>2, MoverNextHeld
<1>2. CASE Stop(r)
  <2>1. UNCHANGED <<into, as>> /\ \A q \in Runs : Still(q)
    BY <1>2, StopEffect DEF Stop, Still, Elsewhere
  <2>2. \A n \in Messages : pc'[n] = pc[n] \/ (pc[n] = "held" /\ pc'[n] = "returned")
    BY <1>2, StopEffect
  <2>3. Handled' \subseteq Handled
    BY <2>2 DEF Handled
  <2>4. \A n \in Messages : pc[n] \in {"joining", "starting"} \/ pc'[n] \in {"joining", "starting"} => pc'[n] = pc[n]
    BY <2>2
  <2> QED
    BY <2>1, <2>3, <2>4, MoverKept
<1>3. CASE End(r)
  BY <1>3, MoverEnd DEF End
<1>4. CASE Save(r)
  BY <1>4, MoverSave DEF Save
<1>5. CASE CallStep(r)
  <2>1. UNCHANGED <<pc, into, as>> /\ \A q \in Runs : Still(q)
    BY <1>5, CallEffect DEF messageVars, Still, Elsewhere
  <2>2. Handled' = Handled
    BY <2>1 DEF Handled
  <2> QED
    BY <2>1, <2>2, MoverKept
<1> QED
  BY <1>1, <1>2, <1>3, <1>4, <1>5, MoverTake, MoverDeliver

LEMMA OverlapsFixed == [Next]_vars => overlaps' = overlaps
BY DEF Next, Send, Handle, Refuse, Hold, Join, Queue, AwaitEnd, Retry, Begin, Push, PushFails, Drive, DriveFails, Take, TurnDone,
       Deliver, Stop, End, Save, CallStep, Ask, Decide, Make, ChangeMode, ApplyMode, vars

LEMMA MoverNext == TypeInv /\ TypeInv' /\ OwnInv /\ MoverInv /\ [Next]_vars => MoverInv'
<1> SUFFICES ASSUME TypeInv, TypeInv', Own, Mover, {"joins", "saving"} \cap overlaps = {}, [Next]_vars
             PROVE  Mover'
  BY OverlapsFixed DEF OwnInv, MoverInv
<1>1. CASE ChangeMode \/ ApplyMode \/ UNCHANGED vars
  <2>1. UNCHANGED <<pc, into, as>>
    BY <1>1 DEF ChangeMode, ApplyMode, vars, messageVars
  <2>2. \A r \in Runs : Still(r)
    BY <1>1, ApplyEffect DEF ChangeMode, vars, Still
  <2>3. Handled' = Handled
    BY <2>1 DEF Handled
  <2> QED
    BY <2>1, <2>2, <2>3, MoverKept
<1> QED
  BY <1>1, MoverMessage, MoverRun DEF Next

LEMMA MoverInit == Init => MoverInv
<1> SUFFICES ASSUME Init PROVE Mover
  BY DEF MoverInv
<1>1. Handled = {} /\ \A r \in Runs : run[r] = NoRun
  BY DEF Init, Handled
<1> QED
  BY <1>1, EmptyDistinct DEF Init, Mover, NoRun

LEMMA MoversAlways == Spec => []MoverInv
BY MoverInit, MoverNext, OwnsAlways, TypesAlways, PTL DEF Spec

(* "so their words never act on anybody else's permissions" (startRun): a   *)
(* session takes each message with the bearer of the account that sent it,  *)
(* as long as one message at a time is handled, pushed and read.            *)
THEOREM ActsAsSender == Spec => []OwnAuthority
<1>1. MoverInv => OwnAuthority
  BY DEF MoverInv, Mover, OwnAuthority
<1> QED
  BY <1>1, MoversAlways, PTL

-----------------------------------------------------------------------------
(* Whose yes a call has *)

(* A run that nobody but its actor has spoken for: its mode is the actor's, *)
(* so is its bearer once it goes, and so is a yes to a call.                *)
Yes ==
    /\ update.run = 0
    /\ \A r \in Runs : run[r].modeBy = run[r].actor
    /\ \A r \in Runs : run[r].phase \in {"going", "delivering"} => run[r].bearer = run[r].actor
    /\ \A r \in Runs : run[r].call = "allowed" => run[r].by = run[r].actor
    /\ \A m \in Messages : pc[m] = "starting" => run[into[m]].actor = Sender[m]

YesInv == overlaps = {} => Yes

(* One run changes, in a way that keeps it its actor's. *)
LEMMA YesKept ==
    ASSUME TypeInv, TypeInv', Yes, UNCHANGED update, NEW r \in Runs, Elsewhere(r),
           run'[r].modeBy = run'[r].actor,
           run'[r].phase \in {"going", "delivering"} => run'[r].bearer = run'[r].actor,
           run'[r].call = "allowed" => run'[r].by = run'[r].actor,
           \A m \in Messages : pc'[m] = "starting" =>
              \/ pc[m] = "starting" /\ into'[m] = into[m] /\ (into[m] = r => run'[r].actor = run[r].actor)
              \/ into'[m] = r /\ run'[r].actor = Sender[m]
    PROVE  Yes'
<1>1. /\ (\A q \in Runs : run[q].modeBy = run[q].actor)'
      /\ (\A q \in Runs : run[q].phase \in {"going", "delivering"} => run[q].bearer = run[q].actor)'
      /\ (\A q \in Runs : run[q].call = "allowed" => run[q].by = run[q].actor)'
  BY DEF Yes, Elsewhere
<1>2. \A m \in Messages : pc[m] = "starting" => into[m] \in Runs
  BY DEF TypeInv, Homed
<1>3. (\A m \in Messages : pc[m] = "starting" => run[into[m]].actor = Sender[m])'
  BY <1>2 DEF Yes, Elsewhere
<1> QED
  BY <1>1, <1>3 DEF Yes

LEMMA YesStill ==
    ASSUME TypeInv, Yes, UNCHANGED update, \A r \in Runs : Still(r) /\ Fixed(r),
           \A m \in Messages : pc'[m] = "starting" => pc[m] = "starting" /\ into'[m] = into[m]
    PROVE  Yes'
<1>1. \A m \in Messages : pc[m] = "starting" => into[m] \in Runs
  BY DEF TypeInv, Homed
<1>2. (\A m \in Messages : pc[m] = "starting" => run[into[m]].actor = Sender[m])'
  BY <1>1 DEF Yes, Fixed
<1> QED
  BY <1>2 DEF Yes, Still, Fixed

LEMMA YesMessage ==
    ASSUME TypeInv, TypeInv', Own, Mover, Yes, overlaps = {}, NEW m \in Messages, Send(m) \/ Handle(m)
    PROVE  Yes'
<1>1. CASE Send(m) \/ Retry(m) \/ Queue(m) \/ AwaitEnd(m) \/ Hold(m)
  <2>1. /\ \A n \in Messages \ {m} : pc'[n] = pc[n] /\ into'[n] = into[n]
        /\ pc'[m] # "starting" /\ UNCHANGED update
    BY <1>1 DEF Send, Retry, Queue, AwaitEnd, Hold, Goto, TypeInv, Typed
  <2>2. \A r \in Runs : Still(r) /\ Fixed(r)
    <3>1. CASE Hold(m)
      BY <3>1, HoldEffect
    <3>2. CASE run' = run
      BY <3>2 DEF Still, Fixed
    <3> QED
      BY <1>1, <3>1, <3>2 DEF Send, Retry, Queue, AwaitEnd
  <2> QED
    BY <2>1, <2>2, YesStill
<1>2. CASE Refuse(m)
  <2>1. UNCHANGED <<run, into, update>>
    BY <1>2 DEF Refuse
  <2>2. \A n \in Messages : pc'[n] = "starting" => pc[n] = "starting"
    BY <1>2, ThrowMoves DEF Refuse
  <2>3. \A r \in Runs : Still(r) /\ Fixed(r)
    BY <2>1 DEF Still, Fixed
  <2> QED
    BY <2>1, <2>2, <2>3, YesStill
<1>3. CASE Join(m)
  <2>1. /\ pc[m] = "read" /\ m \in Handled /\ current \in Runs /\ Running(current) /\ UNCHANGED update
        /\ run' = [run EXCEPT ![current] = HandedTo(current, Sender[m])]
        /\ run[current].actor = Sender[m] \/ Idle(current)
    BY <1>3, Bounds DEF Join, Open, Running, TypeInv, Typed, Handled
  <2>2. \A n \in Messages : pc'[n] # "starting"
    BY <1>3, <2>1, Busy DEF Join, Goto, TypeInv, Typed
  <2>3. /\ Elsewhere(current) /\ run'[current].phase = run[current].phase
        /\ run'[current].bearer = (IF run[current].bearer = None \/ run[current].actor = Sender[m]
                                  THEN run[current].bearer ELSE Sender[m])
        /\ run'[current].actor = Sender[m] /\ run'[current].modeBy = Sender[m]
        /\ run'[current].call = run[current].call /\ run'[current].by = run[current].by
    BY <2>1, HandedEffect
  <2>4. run[current].phase \in {"going", "delivering"} => Bears(current)
    BY <2>1 DEF Mover
  <2>6. run'[current].phase \in {"going", "delivering"} => run'[current].bearer = Sender[m]
    BY <2>3, <2>4 DEF Bears
  <2>5. run[current].call = "allowed" => run[current].actor = Sender[m] /\ run[current].by = Sender[m]
    BY <2>1 DEF Idle, Yes
  <2> QED
    BY <2>1, <2>2, <2>3, <2>5, <2>6, YesKept
<1>4. CASE Begin(m)
  <2>1. pc[m] = "read" /\ NewRun(m) /\ UNCHANGED update
    BY <1>4 DEF Begin
  <2>2. /\ current' \in Runs /\ Elsewhere(current') /\ into'[m] = current' /\ run[current'].phase = "none"
        /\ \A n \in Messages \ {m} : into'[n] = into[n]
        /\ run'[current'].phase = "preparing" /\ run'[current'].actor = Sender[m]
        /\ run'[current'].modeBy = Sender[m] /\ run'[current'].call = "none"
    BY <2>1, NewRunEffect DEF NoRun
  <2>3. pc'[m] = "starting" /\ \A n \in Messages \ {m} : pc'[n] = pc[n]
    BY <1>4 DEF Begin, Goto, TypeInv, Typed
  <2>4. \A n \in Messages : pc[n] = "starting" => into[n] # current'
    BY <2>2 DEF TypeInv, Homed
  <2> QED
    BY <2>1, <2>2, <2>3, <2>4, YesKept
<1>5. CASE Push(m)
  <2> DEFINE r == into[m]
  <2>1. pc[m] = "joining" /\ Running(r) /\ UNCHANGED update
    BY <1>5 DEF Push, Own
  <2>2. /\ r \in Runs /\ Elsewhere(r) /\ Fixed(r) /\ run'[r].bearer = run[r].bearer
        /\ run'[r].phase = IF run[r].carrying = m THEN "going" ELSE run[r].phase
        /\ pc' \in {[pc EXCEPT ![m] = where] : where \in {"pushed", "held", "finish"}} /\ into' = into
    BY <1>5, <2>1, PushEffect
  <2> HIDE DEF r
  <2>3. run[r].carrying = m => run[r].phase = "delivering"
    BY <2>2, Bounds DEF TypeInv, Carries
  <2>4. pc'[m] # "starting" /\ \A n \in Messages \ {m} : pc'[n] = pc[n]
    BY <2>2 DEF TypeInv, Typed
  <2>5. /\ run'[r].modeBy = run'[r].actor /\ (run'[r].call = "allowed" => run'[r].by = run'[r].actor)
        /\ run'[r].actor = run[r].actor
        /\ (run'[r].phase \in {"going", "delivering"} => run'[r].bearer = run'[r].actor)
    BY <2>2, <2>3 DEF Yes, Fixed
  <2> QED
    BY <2>1, <2>2, <2>4, <2>5, YesKept
<1>6. CASE Drive(m)
  <2> DEFINE r == into[m]
  <2>1. /\ pc[m] = "starting" /\ r \in Runs /\ Elsewhere(r) /\ Fixed(r) /\ run'[r].bearer = Sender[m]
        /\ UNCHANGED <<update, into>>
    BY <1>6, DriveEffect DEF Drive
  <2>2. run[r].actor = Sender[m]
    BY <2>1 DEF Yes
  <2> HIDE DEF r
  <2>3. pc'[m] # "starting" /\ \A n \in Messages \ {m} : pc'[n] = pc[n]
    BY <1>6 DEF Drive, Goto, TypeInv, Typed
  <2>4. /\ run'[r].modeBy = run'[r].actor /\ (run'[r].call = "allowed" => run'[r].by = run'[r].actor)
        /\ run'[r].actor = run[r].actor /\ run'[r].bearer = run'[r].actor
    BY <2>1, <2>2 DEF Yes, Fixed
  <2> QED
    BY <2>1, <2>3, <2>4, YesKept
<1>7. CASE PushFails(m)
  <2> DEFINE r == into[m]
  <2>1. pc[m] = "joining" /\ r \in Runs /\ UNCHANGED <<into, update>>
    BY <1>7, PushFailsEffect
  <2>2. CASE Throw(m) /\ run' = run
    <3>1. \A n \in Messages : pc'[n] = "starting" => pc[n] = "starting"
      BY <2>1, <2>2, ThrowMoves
    <3>2. \A q \in Runs : Still(q) /\ Fixed(q)
      BY <2>2 DEF Still, Fixed
    <3> QED
      BY <2>1, <3>1, <3>2, YesStill
  <2>3. CASE run' = [run EXCEPT ![r] = Ended(run[r])] /\ pc' = [pc EXCEPT ![m] = "lost"]
    <3>1. /\ Elsewhere(r) /\ run'[r].phase = "saving" /\ run'[r].call = "done"
          /\ run'[r].actor = run[r].actor /\ run'[r].modeBy = run[r].modeBy
      BY <2>1, <2>3, EndedEffect
    <3>2. \A n \in Messages : pc'[n] = "starting" => pc[n] = "starting"
      BY <2>3 DEF TypeInv, Typed
    <3>3. run'[r].modeBy = run'[r].actor
      BY <2>1, <3>1 DEF Yes
    <3> HIDE DEF r
    <3> QED
      BY <2>1, <3>1, <3>2, <3>3, YesKept
  <2> QED
    BY <1>7, <2>2, <2>3, PushFailsEffect
<1>8. CASE DriveFails(m)
  <2> DEFINE r == into[m]
  <2>1. /\ pc[m] = "starting" /\ r \in Runs /\ Elsewhere(r) /\ Fixed(r) /\ Throw(m)
        /\ run'[r].phase = "abandoned" /\ UNCHANGED <<into, update>>
    BY <1>8, DriveFailsEffect
  <2>2. \A n \in Messages : pc'[n] = "starting" => pc[n] = "starting"
    BY <2>1, ThrowMoves
  <2>3. run'[r].modeBy = run'[r].actor /\ (run'[r].call = "allowed" => run'[r].by = run'[r].actor)
        /\ run'[r].actor = run[r].actor
    BY <2>1 DEF Yes, Fixed
  <2> HIDE DEF r
  <2> QED
    BY <2>1, <2>2, <2>3, YesKept
<1> QED
  BY <1>1, <1>2, <1>3, <1>4, <1>5, <1>6, <1>7, <1>8 DEF Handle

LEMMA YesRun ==
    ASSUME TypeInv, TypeInv', Own, Mover, Yes, overlaps = {}, NEW r \in Runs,
           Take(r) \/ TurnDone(r) \/ Deliver(r) \/ Stop(r) \/ End(r) \/ Save(r) \/ CallStep(r)
    PROVE  Yes'
<1>0. /\ run[r].modeBy = run[r].actor /\ (run[r].call = "allowed" => run[r].by = run[r].actor)
      /\ (run[r].phase \in {"going", "delivering"} => run[r].bearer = run[r].actor)
  BY DEF Yes
<1>1. CASE Take(r)
  <2>1. Elsewhere(r) /\ Fixed(r) /\ run'[r].phase = run[r].phase /\ run'[r].bearer = run[r].bearer
        /\ UNCHANGED <<update, pc, into>>
    BY <1>1, TakeEffect DEF Take
  <2> QED
    BY <1>0, <2>1, YesKept DEF Fixed
<1>2. CASE TurnDone(r)
  <2>1. Elsewhere(r) /\ Fixed(r) /\ run'[r].bearer = run[r].bearer /\ run[r].phase = "going"
        /\ UNCHANGED <<update, pc, into>>
    BY <1>2, NextHeldEffect DEF TurnDone, messageVars
  <2> QED
    BY <1>0, <2>1, YesKept DEF Fixed
<1>3. CASE Deliver(r)
  <2> DEFINE m == run[r].carrying
  <2>1. m \in Messages /\ run[r].phase = "delivering" /\ UNCHANGED <<update, into>>
    BY <1>3, DeliverEffect DEF Deliver
  <2>2. CASE run' = [run EXCEPT ![r] = NextHeld(r, run[r])] /\ pc' = [pc EXCEPT ![m] = "returned"]
    <3>1. Elsewhere(r) /\ Fixed(r) /\ run'[r].bearer = run[r].bearer
      BY <2>2, NextHeldEffect
    <3> HIDE DEF m
    <3>2. \A n \in Messages : pc'[n] = "starting" => pc[n] = "starting"
      BY <2>2 DEF TypeInv, Typed
    <3> QED
      BY <1>0, <2>1, <3>1, <3>2, YesKept DEF Fixed
  <2>3. CASE run' = [run EXCEPT ![r] = HandedTo(r, Sender[m])] /\ pc' = [pc EXCEPT ![m] = "joining"] /\ Idle(r)
    <3>1. /\ Elsewhere(r)
          /\ run'[r].bearer = (IF run[r].bearer = None \/ run[r].actor = Sender[m]
                              THEN run[r].bearer ELSE Sender[m])
          /\ run'[r].actor = Sender[m] /\ run'[r].modeBy = Sender[m] /\ run'[r].call = run[r].call
      BY <2>3, HandedEffect
    <3>2. Bears(r) /\ run[r].call # "allowed"
      BY <2>1, <2>3 DEF Mover, Idle
    <3> HIDE DEF m
    <3>3. \A n \in Messages : pc'[n] = "starting" => pc[n] = "starting" /\ into[n] # r
      BY <2>1, <2>3 DEF TypeInv, Typed, Homed
    <3> QED
      BY <2>1, <3>1, <3>2, <3>3, YesKept DEF Bears
  <2> QED
    BY <1>3, <2>2, <2>3, DeliverEffect
<1>4. CASE Stop(r)
  <2>1. /\ Elsewhere(r) /\ Still(r) /\ run'[r].actor = run[r].actor /\ run'[r].modeBy = run[r].modeBy
        /\ run'[r].by = run[r].by /\ (run'[r].call = "allowed" => run[r].call = "allowed")
        /\ \A n \in Messages : pc'[n] = "starting" => pc[n] = "starting"
    BY <1>4, StopEffect
  <2>2. UNCHANGED <<update, into>>
    BY <1>4 DEF Stop
  <2> QED
    BY <1>0, <2>1, <2>2, YesKept DEF Still
<1>5. CASE End(r)
  <2>1. /\ Elsewhere(r) /\ run'[r].phase = "saving" /\ run'[r].call = "done" /\ run'[r].actor = run[r].actor
        /\ run'[r].modeBy = run[r].modeBy /\ UNCHANGED <<update, pc, into>>
    BY <1>5, EndEffect DEF End, messageVars
  <2> QED
    BY <1>0, <2>1, YesKept
<1>6. CASE Save(r)
  <2>1. /\ Elsewhere(r) /\ run'[r].phase = "over" /\ run'[r].actor = None /\ run'[r].modeBy = None
        /\ run'[r].call = "none" /\ UNCHANGED <<update, into>>
        /\ \A n \in Messages : pc'[n] = "starting" => pc[n] = "starting" /\ into[n] # r
    <3>1. /\ run[r].phase = "saving" /\ Elsewhere(r) /\ run'[r] = [NoRun EXCEPT !.phase = "over"]
          /\ \A n \in Messages : pc'[n] = "starting" => pc[n] = "starting"
      BY <1>6, SaveEffect
    <3>2. \A n \in Messages : pc[n] = "starting" => into[n] # r
      BY <3>1 DEF TypeInv, Homed
    <3>3. UNCHANGED <<update, into>>
      BY <1>6 DEF Save
    <3> QED
      BY <3>1, <3>2, <3>3 DEF NoRun
  <2> QED
    BY <1>0, <2>1, YesKept
<1>7. CASE CallStep(r)
  <2>1. /\ Elsewhere(r) /\ Still(r) /\ run'[r].actor = run[r].actor /\ run'[r].modeBy = run[r].modeBy
        /\ UNCHANGED <<update, pc, into>>
        /\ \/ run'[r].call = "allowed" /\ run'[r].by \in {run[r].modeBy, run[r].actor}
           \/ run'[r].call # "allowed"
    BY <1>7, CallEffect DEF messageVars
  <2> QED
    BY <1>0, <2>1, YesKept DEF Still
<1> QED
  BY <1>1, <1>2, <1>3, <1>4, <1>5, <1>6, <1>7

LEMMA YesNext == TypeInv /\ TypeInv' /\ OwnInv /\ MoverInv /\ YesInv /\ [Next]_vars => YesInv'
<1> SUFFICES ASSUME TypeInv, TypeInv', Own, Mover, Yes, overlaps = {}, [Next]_vars
             PROVE  Yes'
  BY OverlapsFixed DEF OwnInv, MoverInv, YesInv
<1>1. CASE ChangeMode
  <2>1. current \in Runs
    BY <1>1, Bounds DEF ChangeMode, Open, Running, TypeInv, Typed
  <2> QED
    BY <1>1, <2>1 DEF ChangeMode, Yes
<1>2. CASE ApplyMode
  BY <1>2 DEF ApplyMode, Yes
<1>3. CASE UNCHANGED vars
  BY <1>3, YesStill DEF vars, Still, Fixed
<1> QED
  BY <1>1, <1>2, <1>3, YesMessage, YesRun DEF Next

LEMMA YesInit == Init => YesInv
<1> SUFFICES ASSUME Init PROVE Yes
  BY DEF YesInv
<1>1. \A r \in Runs : run[r] = NoRun
  BY DEF Init
<1> QED
  BY <1>1 DEF Init, Yes, NoRun

LEMMA YesAlways == Spec => []YesInv
BY YesInit, YesNext, MoversAlways, OwnsAlways, TypesAlways, PTL DEF Spec

(* A call that was allowed is made by Make, and by nothing else; a run that *)
(* ends meanwhile has no bearer to make it with.                            *)
LEMMA AllowedKept ==
    ASSUME TypeInv, [Next]_vars, NEW r \in Runs, run[r].call = "allowed", run'[r].call = "done",
           run'[r].bearer # None
    PROVE  Make(r)
<1>1. SUFFICES ASSUME ~Make(r) PROVE FALSE
  OBVIOUS
<1>2. ASSUME NEW m \in Messages, Send(m) \/ Handle(m) PROVE FALSE
  <2>1. CASE run' = run
    BY <2>1
  <2>2. CASE Hold(m)
    BY <2>2, HoldEffect DEF Fixed
  <2>3. CASE Join(m)
    <3>1. current \in Runs /\ run' = [run EXCEPT ![current] = HandedTo(current, Sender[m])]
      BY <2>3, Bounds DEF Join, Open, Running, TypeInv, Typed
    <3>2. Elsewhere(current) /\ run'[current].call = run[current].call
      BY <3>1, HandedEffect
    <3> QED
      BY <3>2 DEF Elsewhere
  <2>4. CASE NewRun(m)
    <3>1. Elsewhere(current') /\ run'[current'].call = "none"
      BY <2>4, NewRunEffect DEF NoRun
    <3> QED
      BY <3>1 DEF Elsewhere
  <2>5. CASE Push(m)
    <3>1. CASE Running(into[m])
      BY <2>5, <3>1, PushEffect DEF Elsewhere, Fixed
    <3>2. CASE ~Running(into[m])
      <4>1. CASE run[into[m]].carrying = m
        BY <2>5, <3>2, <4>1, Bounds DEF Push, TypeInv, Homed, Carries, Running
      <4>2. CASE run[into[m]].carrying # m
        BY <2>4, <2>5, <3>2, <4>2 DEF Push, Open
      <4> QED
        BY <4>1, <4>2
    <3> QED
      BY <3>1, <3>2
  <2>6. CASE Drive(m)
    BY <2>6, DriveEffect DEF Elsewhere, Fixed
  <2>7. CASE DriveFails(m)
    BY <2>7, DriveFailsEffect DEF Elsewhere, Fixed
  <2>8. CASE PushFails(m)
    <3>1. into[m] \in Runs /\ run' = [run EXCEPT ![into[m]] = Ended(run[into[m]])]
      BY <2>1, <2>8, PushFailsEffect
    <3>2. Elsewhere(into[m]) /\ run'[into[m]].bearer = None
      BY <3>1, EndedEffect
    <3> QED
      BY <3>2 DEF Elsewhere
  <2> QED
    BY <1>2, <2>1, <2>2, <2>3, <2>4, <2>5, <2>6, <2>7, <2>8
       DEF Send, Handle, Refuse, Queue, AwaitEnd, Retry, Begin
<1>3. ASSUME NEW q \in Runs,
             Take(q) \/ TurnDone(q) \/ Deliver(q) \/ Stop(q) \/ End(q) \/ Save(q) \/ CallStep(q)
      PROVE  FALSE
  <2>1. CASE Take(q)
    BY <2>1, TakeEffect DEF Elsewhere, Fixed
  <2>2. CASE TurnDone(q)
    BY <2>2, NextHeldEffect DEF TurnDone, Elsewhere, Fixed
  <2>3. CASE Deliver(q)
    BY <2>3, DeliverEffect, HandedEffect, NextHeldEffect DEF Elsewhere, Fixed
  <2>4. CASE Stop(q)
    BY <2>4, StopEffect DEF Elsewhere
  <2>5. CASE End(q)
    BY <2>5, EndEffect DEF Elsewhere
  <2>6. CASE Save(q)
    BY <2>6, SaveEffect DEF Elsewhere, NoRun
  <2>7. CASE CallStep(q)
    BY <1>1, <2>7, CallEffect DEF Elsewhere
  <2> QED
    BY <1>3, <2>1, <2>2, <2>3, <2>4, <2>5, <2>6, <2>7
<1>4. CASE ApplyMode
  <2>1. update.run \in Runs
    BY <1>4, Bounds DEF ApplyMode, TypeInv, Typed
  <2> QED
    BY <1>4, <2>1, HeldTyped DEF ApplyMode, TypeInv, Typed, RunRecords
<1>5. CASE ChangeMode \/ UNCHANGED vars
  BY <1>5 DEF ChangeMode, vars
<1> QED
  BY <1>2, <1>3, <1>4, <1>5 DEF Next

(* "the call runs on the actor's authority, so the yes is theirs to give"   *)
(* (awaitDecision): a call is made as the account that allowed it, by a yes *)
(* or by the mode it chose, as long as one thing happens at a time.         *)
THEOREM YesIsTheActors == Spec => OwnYes
<1>1. TypeInv /\ YesInv /\ [Next]_vars =>
        [overlaps = {} =>
            \A r \in Runs : run[r].call = "allowed" /\ run'[r].call = "done" /\ run'[r].bearer # None
                => run[r].by = run[r].bearer]_vars
  <2> SUFFICES ASSUME TypeInv, Yes, [Next]_vars, NEW r \in Runs, run[r].call = "allowed",
                      run'[r].call = "done", run'[r].bearer # None
               PROVE  run[r].by = run[r].bearer
    BY DEF YesInv
  <2>1. Make(r)
    BY AllowedKept
  <2> QED
    BY <2>1 DEF Make, Yes
<1> QED
  BY <1>1, TypesAlways, YesAlways, PTL DEF Spec, OwnYes
=============================================================================
