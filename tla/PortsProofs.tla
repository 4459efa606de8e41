----------------------------- MODULE PortsProofs -----------------------------
(***************************************************************************)
(* Theorems about Ports, for any instances, operations and pool.           *)
(***************************************************************************)
EXTENDS Ports, WellFoundedInduction, TLAPS

LEMMA MinIsLeast ==
    ASSUME NEW S, S \subseteq Nat, S # {}
    PROVE  Min(S) \in S
<1>1. \E x \in S : \A y \in S : ~(<<y, x>> \in OpToRel(<, Nat))
  BY NatLessThanWellFounded, WFMin
<1>2. PICK x \in S : \A y \in S : ~(<<y, x>> \in OpToRel(<, Nat))
  BY <1>1
<1>3. ASSUME NEW y \in S PROVE x <= y
  <2>1. x \in Nat /\ y \in Nat
    OBVIOUS
  <2>2. CASE y < x
    <3>1. <<y, x>> \in Nat \X Nat /\ <<y, x>>[1] < <<y, x>>[2]
      BY <2>1, <2>2
    <3>2. <<y, x>> \in OpToRel(<, Nat)
      BY <3>1, Zenon DEF OpToRel
    <3> QED
      BY <1>2, <3>2
  <2> QED
    BY <2>1, <2>2
<1> QED
  BY <1>3 DEF Min

-----------------------------------------------------------------------------
(* The invariant.  Apart from typing it speaks of executions without the    *)
(* overlaps, like the properties.                                           *)

(* A provision or a move that has chosen its number. *)
Taking(o) == What[o].kind \in {"create", "move"} /\ progress[o] \in {"building", "built"}

(* One operation at a time decides, on the registry as it is. *)
DecidesOnCurrent ==
    /\ \A o, x \in Requests : progress[o] = "loaded" /\ progress[x] = "loaded" => o = x
    /\ \A o \in Requests : progress[o] = "loaded" => copy[o] = registry

(* What an operation saves differs from what it loaded in its own entry,    *)
(* and nobody else changes that one.                                        *)
ChangesItsOwn ==
    /\ \A o, x \in Requests : Underway(o) /\ Underway(x) /\ o # x => What[o].name # What[x].name
    /\ \A o \in Requests : Underway(o) => base[o][What[o].name] = registry[What[o].name]
    /\ \A o \in Requests : progress[o] \in {"loaded", "building"} => copy[o] = base[o]
    /\ \A o \in Requests : progress[o] = "built" =>
        copy[o] = [base[o] EXCEPT ![What[o].name] = IF What[o].kind = "delete" THEN NoPort ELSE number[o]]

(* A number that is being taken is nobody else's, and nobody else is taking *)
(* it; a provision's is held as well.                                       *)
TakenApart ==
    /\ \A o, x \in Requests : Taking(o) /\ Taking(x) /\ o # x => number[o] # number[x]
    /\ \A o \in Requests : Taking(o) =>
        number[o] \in Pool /\ \A n \in Names \ {What[o].name} : registry[n] # number[o]
    /\ \A o \in Requests : Building(o) =>
        reservations[number[o]] = "held" /\ registry[What[o].name] = NoPort

(* The number in a server's files is the registered one, or about to be. *)
FilesKnown ==
    /\ \A n \in Names : bound[n] # NoPort =>
        \/ registry[n] = bound[n]
        \/ \E o \in Requests : progress[o] = "built" /\ What[o].kind # "delete" /\ What[o].name = n /\ number[o] = bound[n]
    /\ \A o \in Requests : progress[o] = "built" =>
        bound[What[o].name] = IF What[o].kind = "delete" THEN NoPort ELSE number[o]

RegisteredApart ==
    \A n, m \in Names : n # m /\ registry[n] # NoPort => registry[n] # registry[m]

Kept == DecidesOnCurrent /\ ChangesItsOwn /\ TakenApart /\ FilesKnown /\ RegisteredApart

IInv == PortsTypeOK /\ (portOverlaps = {} => Kept)

LEMMA InitType == PortsInit => PortsTypeOK
BY DEF PortsInit, PortsTypeOK, Registries

LEMMA WhatTypes ==
    ASSUME NEW o \in Requests
    PROVE  /\ What[o].kind \in {"create", "move", "delete"}
           /\ What[o].name \in Names
           /\ What[o].port \in Pool \cup {NoPort}
BY PortsConstants

LEMMA PoolIsNumbers == Pool \subseteq Nat /\ NoPort \notin Pool
BY PortsConstants

LEMMA PrunedType ==
    ASSUME NEW cfg
    PROVE  Pruned(cfg) \in [Pool -> {"free", "held", "stale"}]
BY DEF Pruned

LEMMA NextType == PortsTypeOK /\ [PortsNext]_portVars => PortsTypeOK'
<1> SUFFICES ASSUME PortsTypeOK, [PortsNext]_portVars PROVE PortsTypeOK'
  OBVIOUS
<1> USE DEF PortsTypeOK, Registries
<1>1. ASSUME NEW o \in Requests, Load(o) PROVE PortsTypeOK'
  BY <1>1, WhatTypes DEF Load, Proceed
<1>2. ASSUME NEW o \in Requests, Acquire(o) PROVE PortsTypeOK'
  <2> DEFINE held == Pruned(copy[o])
             free == FreeIn(copy[o], held)
  <2>1. held \in [Pool -> {"free", "held", "stale"}] /\ free \subseteq Pool
    BY PrunedType DEF FreeIn
  <2>2. CASE free = {}
    BY <1>2, <2>1, <2>2 DEF Acquire, Proceed
  <2>3. CASE free # {}
    <3>1. Min(free) \in Pool
      BY <2>1, <2>3, MinIsLeast, PoolIsNumbers
    <3> QED
      BY <1>2, <2>1, <2>3, <3>1 DEF Acquire, Proceed
  <2> QED
    BY <2>2, <2>3
<1>3. ASSUME NEW o \in Requests, Reserve(o) \/ CheckMove(o) \/ Refused(o) PROVE PortsTypeOK'
  BY <1>3, WhatTypes DEF Reserve, CheckMove, Refused, Proceed
<1>4. ASSUME NEW o \in Requests, Built(o) \/ Moved(o) \/ Dropped(o) PROVE PortsTypeOK'
  <2>1. What[o].name \in Names /\ number[o] \in Pool \cup {NoPort} /\ copy[o] \in Registries
    BY WhatTypes
  <2>2. copy' \in [Requests -> Registries]
    <3>1. PICK x \in Pool \cup {NoPort} : copy' = [copy EXCEPT ![o][What[o].name] = x]
      BY <1>4, <2>1 DEF Built, Moved, Dropped
    <3>2. [copy[o] EXCEPT ![What[o].name] = x] \in Registries
      BY <2>1
    <3> QED
      BY <3>1, <3>2
  <2>3. bound' \in Registries
    BY <1>4, <2>1 DEF Built, Moved, Dropped
  <2>4. reservations' \in [Pool -> {"free", "held", "stale"}]
    BY <1>4, <2>1 DEF Built, Moved, Dropped
  <2> QED
    BY <1>4, <2>2, <2>3, <2>4 DEF Built, Moved, Dropped, Proceed
<1>5. ASSUME NEW o \in Requests, Fails(o) \/ Save(o) PROVE PortsTypeOK'
  <2>1. What[o].name \in Names /\ copy[o] \in Registries
    BY WhatTypes
  <2> QED
    BY <1>5, <2>1 DEF Fails, Save, Proceed
<1>6. ASSUME NEW p \in Pool, Expires(p) PROVE PortsTypeOK'
  BY <1>6 DEF Expires
<1>7. CASE Restart
  <2>1. PICK stages \in {{"building", "built"}} \cup IF "slow" \in portOverlaps THEN {{"building"}} ELSE {} :
            LET lost == {o \in Requests : progress[o] \in stages}
                unmade == {What[o].name : o \in {x \in lost : What[x].kind = "create"}} IN
            /\ progress' = [o \in Requests |-> IF o \in lost THEN "failed" ELSE progress[o]]
            /\ bound' = [n \in Names |-> IF n \in unmade THEN NoPort ELSE bound[n]]
    BY <1>7 DEF Restart
  <2> QED
    BY <1>7, <2>1 DEF Restart
<1>8. CASE UNCHANGED portVars
  BY <1>8 DEF portVars
<1> QED
  BY <1>1, <1>2, <1>3, <1>4, <1>5, <1>6, <1>7, <1>8 DEF PortsNext, Step

LEMMA MovesTake ==
    ASSUME NEW o \in Requests, What[o].kind = "move"
    PROVE  What[o].port \in Pool
BY PortsConstants

LEMMA OverlapsStay == PortsTypeOK /\ [PortsNext]_portVars => portOverlaps' = portOverlaps
BY DEF PortsNext, Step, Load, Acquire, Reserve, CheckMove, Refused, Built, Moved, Dropped, Fails, Save,
       Expires, Restart, portVars

LEMMA InitKept == PortsInit => Kept
BY DEF PortsInit, Kept, DecidesOnCurrent, ChangesItsOwn, TakenApart, FilesKnown, RegisteredApart,
       Underway, Taking, Building

-----------------------------------------------------------------------------
(* Choosing a number.  All three ways leave an operation, until now loaded, *)
(* with a number that is neither in the registry as it is nor in another's  *)
(* hands.                                                                   *)

(* A number a provision holds is not in the registry. *)
LEMMA HeldIsNotUsed ==
    ASSUME PortsTypeOK, TakenApart, NEW x \in Requests, Building(x)
    PROVE  number[x] \in Pool /\ number[x] \notin Used(registry)
<1>1. Taking(x)
  BY DEF Building, Taking
<1>2. number[x] \in Pool /\ registry[What[x].name] = NoPort
  BY <1>1 DEF TakenApart
<1> QED
  BY <1>1, <1>2, PoolIsNumbers DEF TakenApart, Used

LEMMA TakingIs ==
    ASSUME NEW o \in Requests, Taking(o)
    PROVE  Building(o) \/ Moving(o)
BY DEF Taking, Building, Moving

LEMMA ChooseKept ==
    ASSUME PortsTypeOK, Kept, NEW o \in Requests, NEW p \in Pool,
           progress[o] = "loaded", What[o].kind \in {"create", "move"},
           \A n \in Names \ {What[o].name} : registry[n] # p,
           \A x \in Requests : Taking(x) => number[x] # p,
           progress' = [progress EXCEPT ![o] = "building"],
           number' = [number EXCEPT ![o] = p],
           \A x \in Requests : Building(x) => reservations'[number[x]] = "held",
           What[o].kind = "create" => reservations'[p] = "held" /\ registry[What[o].name] = NoPort,
           UNCHANGED <<registry, copy, base, bound>>
    PROVE  Kept'
<1> USE DEF PortsTypeOK, Kept
<1>1. DecidesOnCurrent'
  BY DEF DecidesOnCurrent
<1>2. ChangesItsOwn'
  BY DEF ChangesItsOwn, Underway
<1>3. TakenApart'
  <2>1. \A x \in Requests \ {o} : /\ Taking(x)' <=> Taking(x)
                                  /\ Building(x)' <=> Building(x)
                                  /\ number'[x] = number[x]
    BY DEF Taking, Building
  <2>2. number'[o] = p /\ (Building(o)' => What[o].kind = "create")
    BY DEF Building
  <2>3. \A x, y \in Requests : Taking(x)' /\ Taking(y)' /\ x # y => number'[x] # number'[y]
    BY <2>1, <2>2 DEF TakenApart
  <2>4. \A x \in Requests : Taking(x)' =>
          number'[x] \in Pool /\ \A n \in Names \ {What[x].name} : registry[n] # number'[x]
    BY <2>1, <2>2 DEF TakenApart
  <2>5. \A x \in Requests : Building(x)' =>
          reservations'[number'[x]] = "held" /\ registry[What[x].name] = NoPort
    BY <2>1, <2>2 DEF TakenApart
  <2> QED
    BY <2>3, <2>4, <2>5 DEF TakenApart
<1>4. FilesKnown'
  BY DEF FilesKnown
<1>5. RegisteredApart'
  BY DEF RegisteredApart
<1> QED
  BY <1>1, <1>2, <1>3, <1>4, <1>5

LEMMA AcquireKept ==
    ASSUME PortsTypeOK, portOverlaps = {}, Kept, NEW o \in Requests, Acquire(o)
    PROVE  Kept'
<1> DEFINE held == Pruned(copy[o])
           free == FreeIn(copy[o], held)
<1>1. copy[o] = registry
  BY DEF Kept, DecidesOnCurrent, Acquire
<1>2. \A x \in Requests : Building(x) => number[x] \in Pool /\ held[number[x]] = "held"
  BY <1>1, HeldIsNotUsed DEF Kept, TakenApart, Pruned
<1>3. CASE free = {}
  <2>1. UNCHANGED <<registry, copy, base, bound, number>> /\ reservations' = held
        /\ progress' = [progress EXCEPT ![o] = "failed"] /\ progress[o] = "loaded"
    BY <1>3 DEF Acquire, Proceed
  <2>2. DecidesOnCurrent' /\ ChangesItsOwn' /\ FilesKnown' /\ RegisteredApart'
    BY <2>1 DEF PortsTypeOK, Kept, DecidesOnCurrent, ChangesItsOwn, Underway, FilesKnown, RegisteredApart
  <2>3. TakenApart'
    BY <2>1, <1>2 DEF PortsTypeOK, Kept, TakenApart, Taking, Building
  <2> QED
    BY <2>2, <2>3 DEF Kept
<1>4. CASE free # {}
  <2> DEFINE p == Min(free)
  <2>1. p \in free
    BY <1>4, MinIsLeast, PoolIsNumbers DEF FreeIn
  <2>2. p \in Pool /\ p \notin Used(registry) /\ held[p] = "free"
    BY <2>1, <1>1 DEF FreeIn
  <2>3. /\ MayTake(p) /\ reservations' = [held EXCEPT ![p] = "held"]
        /\ number' = [number EXCEPT ![o] = p] /\ progress' = [progress EXCEPT ![o] = "building"]
        /\ progress[o] = "loaded" /\ What[o].kind = "create" /\ copy[o][What[o].name] = NoPort
        /\ UNCHANGED <<registry, copy, base, bound>>
    BY <1>4 DEF Acquire, Proceed
  <2>4. \A n \in Names : registry[n] # p
    BY <2>2, PoolIsNumbers DEF Used
  <2>5. \A x \in Requests : Taking(x) => number[x] # p
    BY <1>2, <2>2, <2>3, TakingIs DEF MayTake
  <2>6. \A q \in Pool : held[q] = "held" => reservations'[q] = "held"
    BY <2>3, PrunedType
  <2>7. reservations'[p] = "held"
    BY <2>2, <2>3, PrunedType
  <2>8. registry[What[o].name] = NoPort
    BY <2>3, <1>1
  <2>9. \A x \in Requests : Building(x) => reservations'[number[x]] = "held"
    BY <1>2, <2>6
  <2> HIDE DEF p
  <2> QED
    BY <2>2, <2>3, <2>4, <2>5, <2>7, <2>8, <2>9, ChooseKept
<1> QED
  BY <1>3, <1>4

(* What checkPort refuses: another's number, one a provision holds. *)
LEMMA CheckedIsFree ==
    ASSUME PortsTypeOK, portOverlaps = {}, Kept, NEW o \in Requests, progress[o] = "loaded", NEW p \in Pool,
           CheckPort(copy[o], p, What[o].name), MayTake(p)
    PROVE  /\ \A n \in Names \ {What[o].name} : registry[n] # p
           /\ \A x \in Requests : Taking(x) => number[x] # p
<1>1. copy[o] = registry
  BY DEF Kept, DecidesOnCurrent
<1>2. \A x \in Requests : Building(x) => number[x] # p
  BY DEF CheckPort, Reserved, Kept, TakenApart
<1> QED
  BY <1>1, <1>2, TakingIs DEF CheckPort, MayTake

LEMMA ReserveKept ==
    ASSUME PortsTypeOK, portOverlaps = {}, Kept, NEW o \in Requests, Reserve(o)
    PROVE  Kept'
<1> DEFINE p == What[o].port
<1>1. p \in Pool /\ progress[o] = "loaded" /\ What[o].kind = "create"
  BY WhatTypes DEF Reserve
<1>2. /\ \A n \in Names \ {What[o].name} : registry[n] # p
      /\ \A x \in Requests : Taking(x) => number[x] # p
  BY <1>1, CheckedIsFree DEF Reserve
<1>3. registry[What[o].name] = NoPort
  BY DEF Reserve, Kept, DecidesOnCurrent
<1>4. reservations'[p] = "held"
      /\ \A x \in Requests : Building(x) => reservations'[number[x]] = "held"
  BY <1>1, HeldIsNotUsed DEF Reserve, PortsTypeOK, Kept, TakenApart
<1> QED
  BY <1>1, <1>2, <1>3, <1>4, ChooseKept DEF Reserve, Proceed

LEMMA CheckMoveKept ==
    ASSUME PortsTypeOK, portOverlaps = {}, Kept, NEW o \in Requests, CheckMove(o)
    PROVE  Kept'
<1> DEFINE p == What[o].port
<1>1. p \in Pool /\ progress[o] = "loaded" /\ What[o].kind = "move"
  BY MovesTake DEF CheckMove
<1>2. /\ \A n \in Names \ {What[o].name} : registry[n] # p
      /\ \A x \in Requests : Taking(x) => number[x] # p
  BY <1>1, CheckedIsFree DEF CheckMove
<1>3. \A x \in Requests : Building(x) => reservations'[number[x]] = "held"
  BY DEF CheckMove, Kept, TakenApart
<1> QED
  BY <1>1, <1>2, <1>3, ChooseKept DEF CheckMove, Proceed

-----------------------------------------------------------------------------
(* The other steps *)

LEMMA LoadKept ==
    ASSUME PortsTypeOK, portOverlaps = {}, Kept, NEW o \in Requests, Load(o)
    PROVE  Kept'
<1> USE DEF PortsTypeOK, Kept, Load, Proceed
<1>1. DecidesOnCurrent'
  BY DEF DecidesOnCurrent, MayAct, Undecided
<1>2. ChangesItsOwn'
  BY DEF ChangesItsOwn, Underway
<1>3. TakenApart'
  BY DEF TakenApart, Taking, Building
<1>4. FilesKnown' /\ RegisteredApart'
  BY DEF FilesKnown, RegisteredApart
<1> QED
  BY <1>1, <1>2, <1>3, <1>4

LEMMA RefusedKept ==
    ASSUME PortsTypeOK, portOverlaps = {}, Kept, NEW o \in Requests, Refused(o)
    PROVE  Kept'
BY DEF PortsTypeOK, Kept, Refused, Proceed, DecidesOnCurrent, ChangesItsOwn, Underway, TakenApart, Taking,
       Building, FilesKnown, RegisteredApart

(* A reservation a step lets go is no provision's that goes on. *)
LEMMA BuiltKept ==
    ASSUME PortsTypeOK, portOverlaps = {}, Kept, NEW o \in Requests, Built(o) \/ Moved(o)
    PROVE  Kept'
<1> USE DEF PortsTypeOK, Kept
<1> DEFINE n == What[o].name
<1>1. /\ progress[o] = "building" /\ progress' = [progress EXCEPT ![o] = "built"]
      /\ copy' = [copy EXCEPT ![o][n] = number[o]]
      /\ bound' = [bound EXCEPT ![n] = number[o]]
      /\ What[o].kind \in {"create", "move"}
      /\ UNCHANGED <<registry, base, number>>
  BY DEF Built, Moved, Proceed
<1>2. n \in Names /\ copy[o] \in Registries
  BY WhatTypes
<1>3. copy'[o] = [copy[o] EXCEPT ![n] = number[o]] /\ \A x \in Requests \ {o} : copy'[x] = copy[x]
  BY <1>1
<1>4. DecidesOnCurrent'
  BY <1>1, <1>3 DEF DecidesOnCurrent
<1>5. ChangesItsOwn'
  <2>1. \A x \in Requests : Underway(x)' <=> Underway(x)
    BY <1>1 DEF Underway
  <2>2. copy'[o] = [base[o] EXCEPT ![n] = number[o]]
    BY <1>1, <1>3 DEF ChangesItsOwn
  <2>3. \A x \in Requests : progress'[x] \in {"loaded", "building"} => copy'[x] = base[x]
    BY <1>1, <1>3 DEF ChangesItsOwn
  <2>4. \A x \in Requests : progress'[x] = "built" =>
          copy'[x] = [base[x] EXCEPT ![What[x].name] =
                        IF What[x].kind = "delete" THEN NoPort ELSE number[x]]
    BY <1>1, <1>3, <2>2 DEF ChangesItsOwn
  <2>5. \A x, y \in Requests : Underway(x)' /\ Underway(y)' /\ x # y => What[x].name # What[y].name
    BY <2>1 DEF ChangesItsOwn
  <2>6. \A x \in Requests : Underway(x)' => base[x][What[x].name] = registry[What[x].name]
    BY <2>1 DEF ChangesItsOwn
  <2> QED
    BY <1>1, <2>3, <2>4, <2>5, <2>6 DEF ChangesItsOwn
<1>6. TakenApart'
  <2>1. \A x \in Requests : (Taking(x)' <=> Taking(x)) /\ (Building(x)' <=> Building(x))
    BY <1>1 DEF Taking, Building
  <2>2. \A x \in Requests : Building(x) => reservations'[number[x]] = "held"
    <3>1. CASE Built(o)
      BY <3>1 DEF Built, TakenApart
    <3>2. CASE Moved(o)
      <4>1. reservations' = [reservations EXCEPT ![registry[n]] = "free"] /\ What[o].kind = "move"
        BY <3>2, <1>2 DEF Moved, ChangesItsOwn, Underway
      <4>2. \A x \in Requests : Building(x) => number[x] # registry[n]
        BY <1>2, HeldIsNotUsed, PoolIsNumbers DEF Used
      <4> QED
        BY <4>1, <4>2, HeldIsNotUsed DEF TakenApart
    <3> QED
      BY <3>1, <3>2
  <2> QED
    BY <1>1, <2>1, <2>2 DEF TakenApart
<1>7. FilesKnown'
  <2>1. \A x \in Requests : progress'[x] = "built" =>
          bound'[What[x].name] = IF What[x].kind = "delete" THEN NoPort ELSE number[x]
    BY <1>1, <1>2, WhatTypes DEF FilesKnown, ChangesItsOwn, Underway, Registries
  <2>2. ASSUME NEW m \in Names, bound'[m] # NoPort
        PROVE  \/ registry[m] = bound'[m]
               \/ \E x \in Requests : /\ progress'[x] = "built" /\ What[x].kind # "delete"
                                      /\ What[x].name = m /\ number[x] = bound'[m]
    <3>1. CASE m = n
      <4>1. progress'[o] = "built" /\ What[o].kind # "delete" /\ number[o] = bound'[m]
        BY <1>1, <1>2, <3>1 DEF Registries
      <4> QED
        BY <4>1, <3>1
    <3>2. CASE m # n
      <4>1. bound'[m] = bound[m]
        BY <1>1, <3>2
      <4> QED
        BY <1>1, <4>1, <2>2 DEF FilesKnown
    <3> QED
      BY <3>1, <3>2
  <2> QED
    BY <1>1, <2>1, <2>2 DEF FilesKnown
<1>8. RegisteredApart'
  BY <1>1 DEF RegisteredApart
<1> QED
  BY <1>4, <1>5, <1>6, <1>7, <1>8

LEMMA DroppedKept ==
    ASSUME PortsTypeOK, portOverlaps = {}, Kept, NEW o \in Requests, Dropped(o)
    PROVE  Kept'
<1> USE DEF PortsTypeOK, Kept
<1> DEFINE n == What[o].name
<1>1. /\ progress[o] = "loaded" /\ progress' = [progress EXCEPT ![o] = "built"]
      /\ copy' = [copy EXCEPT ![o][n] = NoPort]
      /\ bound' = [bound EXCEPT ![n] = NoPort]
      /\ What[o].kind = "delete" /\ UNCHANGED <<registry, base, number>>
  BY DEF Dropped, Proceed
<1>2. n \in Names /\ copy[o] = registry /\ copy[o] = base[o]
  BY <1>1, WhatTypes DEF DecidesOnCurrent, ChangesItsOwn
<1>3. copy'[o] = [base[o] EXCEPT ![n] = NoPort] /\ \A x \in Requests \ {o} : copy'[x] = copy[x]
  BY <1>1, <1>2
<1>4. DecidesOnCurrent'
  BY <1>1, <1>3 DEF DecidesOnCurrent
<1>5. ChangesItsOwn'
  <2>1. \A x \in Requests : Underway(x)' <=> Underway(x)
    BY <1>1 DEF Underway
  <2>2. \A x \in Requests : progress'[x] \in {"loaded", "building"} => copy'[x] = base[x]
    BY <1>1, <1>3 DEF ChangesItsOwn
  <2>3. \A x \in Requests : progress'[x] = "built" =>
          copy'[x] = [base[x] EXCEPT ![What[x].name] =
                        IF What[x].kind = "delete" THEN NoPort ELSE number[x]]
    BY <1>1, <1>3 DEF ChangesItsOwn
  <2> QED
    BY <1>1, <2>1, <2>2, <2>3 DEF ChangesItsOwn
<1>6. TakenApart'
  <2>1. \A x \in Requests : (Taking(x)' <=> Taking(x)) /\ (Building(x)' <=> Building(x))
    BY <1>1 DEF Taking, Building
  <2>2. \A x \in Requests : Building(x) => number[x] # registry[n]
    BY <1>2, HeldIsNotUsed, PoolIsNumbers DEF Used
  <2>3. \A x \in Requests : Building(x) => reservations'[number[x]] = "held"
    BY <1>2, <2>2, HeldIsNotUsed DEF Dropped, TakenApart
  <2> QED
    BY <1>1, <2>1, <2>3 DEF TakenApart
<1>7. FilesKnown'
  BY <1>1, <1>2, WhatTypes DEF FilesKnown, ChangesItsOwn, Underway, Registries
<1>8. RegisteredApart'
  BY <1>1 DEF RegisteredApart
<1> QED
  BY <1>4, <1>5, <1>6, <1>7, <1>8

LEMMA FailsKept ==
    ASSUME PortsTypeOK, portOverlaps = {}, Kept, NEW o \in Requests, Fails(o)
    PROVE  Kept'
<1> USE DEF PortsTypeOK, Kept
<1> DEFINE n == What[o].name
<1>1. /\ progress' = [progress EXCEPT ![o] = "failed"] /\ progress[o] \in {"building", "built"}
      /\ UNCHANGED <<registry, copy, base, number>> /\ n \in Names
  BY WhatTypes DEF Fails, Proceed, Building, Moving
<1>2. \/ Building(o) /\ reservations' = [reservations EXCEPT ![number[o]] = "free"]
         /\ bound' = [bound EXCEPT ![n] = NoPort]
      \/ progress[o] = "building" /\ UNCHANGED <<reservations, bound>>
  BY DEF Fails
<1>3. DecidesOnCurrent' /\ RegisteredApart'
  BY <1>1 DEF DecidesOnCurrent, RegisteredApart
<1>4. ChangesItsOwn'
  BY <1>1 DEF ChangesItsOwn, Underway
<1>5. TakenApart'
  <2>1. \A x \in Requests : /\ Taking(x)' <=> (Taking(x) /\ x # o)
                            /\ Building(x)' <=> (Building(x) /\ x # o)
    BY <1>1 DEF Taking, Building
  <2>2. \A x \in Requests : Building(x) => Taking(x)
    BY DEF Building, Taking
  <2>3. \A x \in Requests : Building(x) /\ x # o => reservations'[number[x]] = "held"
    BY <1>2, <2>2 DEF TakenApart
  <2> QED
    BY <1>1, <2>1, <2>3 DEF TakenApart
<1>6. FilesKnown'
  <2>1. \A x \in Requests : progress'[x] = "built" => progress[x] = "built" /\ x # o /\ What[x].name # n
    BY <1>1 DEF ChangesItsOwn, Underway
  <2>2. \A x \in Requests : progress'[x] = "built" =>
          bound'[What[x].name] = IF What[x].kind = "delete" THEN NoPort ELSE number[x]
    BY <1>1, <1>2, <2>1, WhatTypes DEF FilesKnown, Registries
  <2>3. ASSUME NEW m \in Names, bound'[m] # NoPort
        PROVE  \/ registry[m] = bound'[m]
               \/ \E x \in Requests : /\ progress'[x] = "built" /\ What[x].kind # "delete"
                                      /\ What[x].name = m /\ number[x] = bound'[m]
    <3>1. bound'[m] = bound[m] /\ (progress[o] = "built" => m # n)
      BY <1>1, <1>2, <2>3 DEF Registries
    <3> QED
      BY <1>1, <3>1, <2>3 DEF FilesKnown
  <2> QED
    BY <1>1, <2>2, <2>3 DEF FilesKnown
<1> QED
  BY <1>3, <1>4, <1>5, <1>6

LEMMA SaveKept ==
    ASSUME PortsTypeOK, portOverlaps = {}, Kept, NEW o \in Requests, Save(o)
    PROVE  Kept'
<1> USE DEF PortsTypeOK, Kept
<1> DEFINE n == What[o].name
           q == IF What[o].kind = "delete" THEN NoPort ELSE number[o]
<1>1. /\ progress[o] = "built" /\ progress' = [progress EXCEPT ![o] = "done"] /\ n \in Names
      /\ UNCHANGED <<reservations, copy, base, number, bound>>
      /\ \A x \in Requests : progress[x] # "loaded"
  BY WhatTypes DEF Save, Proceed, MayAct, Undecided
<1>2. registry' = [registry EXCEPT ![n] = q]
  BY <1>1 DEF Save, ChangesItsOwn
<1>3. registry'[n] = q /\ \A m \in Names \ {n} : registry'[m] = registry[m]
  BY <1>1, <1>2 DEF Registries
<1>4. q # NoPort => Taking(o) /\ \A m \in Names \ {n} : registry[m] # q
  BY <1>1, WhatTypes DEF Taking, TakenApart
<1>5. \A x \in Requests : Underway(x)' => Underway(x) /\ x # o /\ What[x].name # n
  BY <1>1 DEF Underway, ChangesItsOwn
<1>6. DecidesOnCurrent'
  BY <1>1 DEF DecidesOnCurrent
<1>7. ChangesItsOwn'
  <2>1. \A x \in Requests : Underway(x)' => base[x][What[x].name] = registry'[What[x].name]
    BY <1>3, <1>5, WhatTypes DEF ChangesItsOwn
  <2> QED
    BY <1>1, <1>5, <2>1 DEF ChangesItsOwn
<1>8. TakenApart'
  <2>1. \A x \in Requests : /\ Taking(x)' => Taking(x) /\ x # o /\ What[x].name # n
                            /\ Building(x)' => Building(x) /\ x # o /\ What[x].name # n
    BY <1>1, <1>5 DEF Taking, Building, Underway
  <2>2. \A x \in Requests : Taking(x)' =>
          number[x] \in Pool /\ \A m \in Names \ {What[x].name} : registry'[m] # number[x]
    BY <1>3, <1>4, <2>1, PoolIsNumbers DEF TakenApart
  <2>3. \A x \in Requests : Building(x)' =>
          reservations[number[x]] = "held" /\ registry'[What[x].name] = NoPort
    BY <1>3, <2>1, WhatTypes DEF TakenApart
  <2> QED
    BY <1>1, <2>1, <2>2, <2>3 DEF TakenApart
<1>9. FilesKnown'
  <2>1. \A x \in Requests : progress'[x] = "built" => progress[x] = "built"
    BY <1>1
  <2>2. ASSUME NEW m \in Names, bound[m] # NoPort
        PROVE  \/ registry'[m] = bound[m]
               \/ \E x \in Requests : /\ progress'[x] = "built" /\ What[x].kind # "delete"
                                      /\ What[x].name = m /\ number[x] = bound[m]
    <3>1. CASE m = n
      BY <1>1, <1>3, <3>1 DEF FilesKnown
    <3>2. CASE m # n
      BY <1>1, <1>3, <3>2, <2>2 DEF FilesKnown
    <3> QED
      BY <3>1, <3>2
  <2> QED
    BY <1>1, <2>1, <2>2 DEF FilesKnown
<1>10. RegisteredApart'
  BY <1>3, <1>4 DEF RegisteredApart
<1> QED
  BY <1>6, <1>7, <1>8, <1>9, <1>10

LEMMA ExpiresKept ==
    ASSUME PortsTypeOK, portOverlaps = {}, Kept, NEW p \in Pool, Expires(p)
    PROVE  Kept'
<1>1. UNCHANGED <<registry, progress, copy, base, number, bound>>
      /\ reservations' = [reservations EXCEPT ![p] = "stale"]
      /\ \A o \in Requests : Building(o) => number[o] # p
  BY DEF Expires
<1>2. TakenApart'
  BY <1>1 DEF PortsTypeOK, Kept, TakenApart, Taking, Building
<1> QED
  BY <1>1, <1>2 DEF Kept, DecidesOnCurrent, ChangesItsOwn, Underway, FilesKnown, RegisteredApart

LEMMA RestartKept ==
    ASSUME PortsTypeOK, portOverlaps = {}, Kept, Restart
    PROVE  Kept'
<1> USE DEF PortsTypeOK, Kept
<1> DEFINE lost == {o \in Requests : progress[o] \in {"building", "built"}}
           unmade == {What[o].name : o \in {x \in lost : What[x].kind = "create"}}
<1>1. /\ progress' = [o \in Requests |-> IF o \in lost THEN "failed" ELSE progress[o]]
      /\ bound' = [n \in Names |-> IF n \in unmade THEN NoPort ELSE bound[n]]
      /\ \A o \in Requests : ~(Moving(o) /\ progress[o] = "built")
      /\ UNCHANGED <<registry, copy, base, number>>
  BY DEF Restart
<1>2. \A o \in Requests : progress'[o] \notin {"building", "built"} /\ (progress'[o] = "loaded" <=> progress[o] = "loaded")
  BY <1>1
<1>3. DecidesOnCurrent' /\ RegisteredApart'
  BY <1>1, <1>2 DEF DecidesOnCurrent, RegisteredApart
<1>4. ChangesItsOwn'
  BY <1>1, <1>2 DEF ChangesItsOwn, Underway
<1>5. TakenApart'
  BY <1>2 DEF TakenApart, Taking, Building
<1>6. FilesKnown'
  <2>1. ASSUME NEW n \in Names, bound'[n] # NoPort PROVE registry[n] = bound'[n]
    <3>1. n \notin unmade /\ bound'[n] = bound[n]
      BY <1>1, <2>1
    <3>2. \A o \in Requests : progress[o] = "built" /\ What[o].kind # "delete" => What[o].name # n
      BY <1>1, <3>1, WhatTypes DEF Moving
    <3> QED
      BY <2>1, <3>1, <3>2 DEF FilesKnown
  <2> QED
    BY <1>1, <1>2, <2>1 DEF FilesKnown
<1> QED
  BY <1>3, <1>4, <1>5, <1>6

LEMMA StutterKept ==
    ASSUME Kept, UNCHANGED portVars
    PROVE  Kept'
<1> USE DEF Kept, portVars
<1>1. DecidesOnCurrent' /\ RegisteredApart'
  BY DEF DecidesOnCurrent, RegisteredApart
<1>2. ChangesItsOwn'
  BY DEF ChangesItsOwn, Underway
<1>3. TakenApart'
  BY DEF TakenApart, Taking, Building
<1>4. FilesKnown'
  BY DEF FilesKnown
<1> QED
  BY <1>1, <1>2, <1>3, <1>4

LEMMA NextKept ==
    ASSUME PortsTypeOK, portOverlaps = {}, Kept, [PortsNext]_portVars
    PROVE  Kept'
<1>1. ASSUME NEW o \in Requests, Step(o) PROVE Kept'
  BY <1>1, LoadKept, AcquireKept, ReserveKept, CheckMoveKept, RefusedKept, BuiltKept, DroppedKept,
     FailsKept, SaveKept DEF Step
<1>2. ASSUME NEW p \in Pool, Expires(p) PROVE Kept'
  BY <1>2, ExpiresKept
<1> QED
  BY <1>1, <1>2, RestartKept, StutterKept DEF PortsNext

-----------------------------------------------------------------------------
(* The theorems *)

LEMMA Inductive == PortsSpec => []IInv
<1>1. PortsInit => IInv
  BY InitType, InitKept DEF IInv
<1>2. IInv /\ [PortsNext]_portVars => IInv'
  BY NextType, OverlapsStay, NextKept DEF IInv
<1> QED
  BY <1>1, <1>2, PTL DEF PortsSpec

(* The registry, the reservations and the files of the servers only ever    *)
(* hold numbers of the pool, whatever overlaps: in particular the least     *)
(* free number, where a pool that has one is asked for it, is one of them.  *)
THEOREM TypeCorrect == PortsSpec => []PortsTypeOK
BY Inductive, PTL DEF IInv

(* Two provisions that run at once hold different numbers (createInstance), *)
(* however many operations there are and whichever fail, under the          *)
(* conditions HandedApart states.                                           *)
THEOREM ProvisionsApart == PortsSpec => []HandedApart
<1>1. IInv => HandedApart
  BY DEF IInv, Kept, TakenApart, HandedApart, Building, Taking
<1> QED
  BY <1>1, Inductive, PTL

(* No two servers have one number in their own files (setPort), registered  *)
(* or still being built, under the conditions ServersApart states.          *)
THEOREM NoPortTwice == PortsSpec => []ServersApart
<1>1. ASSUME IInv, portOverlaps = {}, NEW n \in Names, NEW m \in Names, n # m, bound[n] # NoPort,
             bound[n] = bound[m]
      PROVE  FALSE
  <2>1. Kept
    BY <1>1 DEF IInv
  <2>2. ASSUME NEW k \in Names, bound[k] # NoPort, registry[k] # bound[k]
        PROVE  \E o \in Requests : Taking(o) /\ What[o].name = k /\ number[o] = bound[k]
    BY <2>1, <2>2, WhatTypes DEF Kept, FilesKnown, Taking
  <2>3. CASE registry[n] = bound[n] /\ registry[m] = bound[m]
    BY <1>1, <2>1, <2>3 DEF Kept, RegisteredApart
  <2>4. CASE registry[n] # bound[n] /\ registry[m] = bound[m]
    BY <1>1, <2>1, <2>2, <2>4 DEF Kept, TakenApart
  <2>5. CASE registry[n] = bound[n] /\ registry[m] # bound[m]
    BY <1>1, <2>1, <2>2, <2>5 DEF Kept, TakenApart
  <2>6. CASE registry[n] # bound[n] /\ registry[m] # bound[m]
    BY <1>1, <2>1, <2>2, <2>6 DEF Kept, TakenApart
  <2> QED
    BY <2>3, <2>4, <2>5, <2>6
<1>2. IInv => ServersApart
  BY <1>1 DEF ServersApart
<1> QED
  BY <1>2, Inductive, PTL
=============================================================================
