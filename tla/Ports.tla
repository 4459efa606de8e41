-------------------------------- MODULE Ports --------------------------------
(***************************************************************************)
(* The game ports of one machine (core/ports.ts, core/admin.ts): the       *)
(* registry as the ledger of what is allocated, the reservations that hold *)
(* a number while a provision runs, and the operations that take, move and *)
(* release numbers.  Each operation works on a copy of the registry that   *)
(* its caller loaded and later saves as a whole.                           *)
(*                                                                         *)
(* A port is only taken on the machine that binds it, so machines are      *)
(* independent and one is modelled.                                        *)
(***************************************************************************)
EXTENDS Naturals, FiniteSets, FiniteSetsExt

CONSTANTS
    Names,         \* instances
    Requests,      \* operations; each runs once
    What,          \* what each is: its kind, its instance and the port it
                   \* asks for, NoPort to take one from the pool
    Pool,          \* the numbers of the game pool
    HeldBack,      \* those the pool's definition holds back
    NoPort,
    PortDisciplines \* the sets of overlaps an execution may allow

ASSUME PortsConstants ==
    /\ Pool \subseteq Nat /\ IsFiniteSet(Pool) /\ HeldBack \subseteq Pool
    /\ NoPort \in Nat \ Pool
    /\ What \in [Requests -> [kind : {"create", "move", "delete"}, name : Names, port : Pool \cup {NoPort}]]
    /\ \A o \in Requests : What[o].kind = "move" => What[o].port # NoPort
    /\ PortDisciplines \subseteq SUBSET {"late", "slow", "moves", "copies"}

VARIABLES
    registry,     \* cluster.json: the port of each instance, NoPort if there is none
    reservations, \* per number: "free", "held", or "stale" once it has been
                  \* held for RESERVATION_TTL_MS
    progress,     \* where each operation is
    copy,         \* the registry it has loaded
    base,         \* the same as it was then
    bound,        \* per instance: the number its own files have, NoPort without
    number,       \* the number it has been handed, or moves to
    portOverlaps  \* "late": another operation may act between a load and the
                  \* choice made on it; "slow": a reservation may expire, or go
                  \* with the daemon, while its provision is not saved; "moves":
                  \* a number may be chosen while a move to it is not saved;
                  \* "copies": a save may undo another, and operations
                  \* may work on one instance at once

portVars == <<registry, reservations, progress, copy, base, number, bound, portOverlaps>>

Registries == [Names -> Pool \cup {NoPort}]
Used(cfg) == {cfg[n] : n \in Names} \ {NoPort}
Reserved == {p \in Pool : reservations[p] # "free"}

Building(o) == What[o].kind = "create" /\ progress[o] \in {"building", "built"}
Underway(o) == progress[o] \in {"loaded", "building", "built"}
Moving(o) == What[o].kind = "move" /\ progress[o] \in {"building", "built"}

PortsTypeOK ==
    /\ registry \in Registries /\ bound \in Registries
    /\ reservations \in [Pool -> {"free", "held", "stale"}]
    /\ progress \in [Requests -> {"idle", "loaded", "building", "built", "done", "failed"}]
    /\ copy \in [Requests -> Registries] /\ base \in [Requests -> Registries]
    /\ number \in [Requests -> Pool \cup {NoPort}]
    /\ portOverlaps \in PortDisciplines

PortsInit ==
    /\ registry = [n \in Names |-> NoPort] /\ bound = registry
    /\ reservations = [p \in Pool |-> "free"]
    /\ progress = [o \in Requests |-> "idle"]
    /\ copy = [o \in Requests |-> registry] /\ base = copy
    /\ number = [o \in Requests |-> NoPort]
    /\ portOverlaps \in PortDisciplines

-----------------------------------------------------------------------------
(* Operations on the ledger *)

\* Mutant: dropped is what the registry has not caught up with.
BugPruned(cfg) ==
    [p \in Pool |-> IF reservations[p] = "held" /\ p \in Used(cfg) THEN "held" ELSE "free"]

(* What is left of the reservations once stale ones and those that the      *)
(* registry - as the caller has it - has caught up with are dropped.        *)
Pruned(cfg) ==
    [p \in Pool |-> IF reservations[p] = "held" /\ p \notin Used(cfg) THEN "held" ELSE "free"]

(* Numbers a pool could hand out. *)
FreeIn(cfg, held) == {p \in Pool \ HeldBack : p \notin Used(cfg) /\ held[p] = "free"}

(* checkPort: nobody else's, in no provision's hands, not held back. *)
CheckPort(cfg, p, name) ==
    /\ \A n \in Names \ {name} : cfg[n] # p
    /\ p \notin Reserved
    /\ p \notin HeldBack

-----------------------------------------------------------------------------
(* One operation *)

Undecided == {o \in Requests : progress[o] = "loaded"}
MayAct(o) == "late" \in portOverlaps \/ Undecided \subseteq {o}
MayTake(p) == "moves" \in portOverlaps \/ \A x \in Requests : Moving(x) => number[x] # p

Proceed(o, where) == progress' = [progress EXCEPT ![o] = where]

(* The route loads the registry. *)
Load(o) ==
    /\ progress[o] = "idle" /\ MayAct(o)
    /\ "copies" \in portOverlaps \/ \A x \in Requests : Underway(x) => What[x].name # What[o].name
    /\ What[o].kind # "create" => registry[What[o].name] # NoPort
    /\ copy' = [copy EXCEPT ![o] = registry]
    /\ base' = [base EXCEPT ![o] = registry]
    /\ Proceed(o, "loaded")
    /\ UNCHANGED <<registry, reservations, number, bound, portOverlaps>>

(* createInstance up to the first byte: the name must be new, and the       *)
(* lowest free number of the pool, or the one asked for, is reserved.       *)
Acquire(o) ==
    /\ progress[o] = "loaded" /\ What[o].kind = "create"
    /\ copy[o][What[o].name] = NoPort /\ What[o].port = NoPort
    /\ LET held == Pruned(copy[o])
           free == FreeIn(copy[o], held) IN
        IF free = {}
        THEN /\ reservations' = held
             /\ Proceed(o, "failed") /\ UNCHANGED number
        ELSE /\ MayTake(Min(free))
             /\ reservations' = [held EXCEPT ![Min(free)] = "held"]
             /\ number' = [number EXCEPT ![o] = Min(free)]
             /\ Proceed(o, "building")
    /\ UNCHANGED <<registry, copy, base, bound, portOverlaps>>

Reserve(o) ==
    /\ progress[o] = "loaded" /\ What[o].kind = "create"
    /\ copy[o][What[o].name] = NoPort /\ What[o].port # NoPort
    /\ CheckPort(copy[o], What[o].port, What[o].name) /\ MayTake(What[o].port)
    /\ reservations' = [reservations EXCEPT ![What[o].port] = "held"]
    /\ number' = [number EXCEPT ![o] = What[o].port]
    /\ Proceed(o, "building")
    /\ UNCHANGED <<registry, copy, base, bound, portOverlaps>>

\* Mutant: the number is checked against the registry, not the reservations.
BugCheckMove(o) ==
    /\ progress[o] = "loaded" /\ What[o].kind = "move"
    /\ \A n \in Names \ {What[o].name} : copy[o][n] # What[o].port
    /\ MayTake(What[o].port)
    /\ number' = [number EXCEPT ![o] = What[o].port]
    /\ Proceed(o, "building")
    /\ UNCHANGED <<registry, reservations, copy, base, bound, portOverlaps>>

(* setPort's check; its config file is written before the copy changes.     *)
CheckMove(o) ==
    /\ progress[o] = "loaded" /\ What[o].kind = "move"
    /\ CheckPort(copy[o], What[o].port, What[o].name) /\ MayTake(What[o].port)
    /\ number' = [number EXCEPT ![o] = What[o].port]
    /\ Proceed(o, "building")
    /\ UNCHANGED <<registry, reservations, copy, base, bound, portOverlaps>>

(* A request that its checks refuse: a name that exists, a number taken. *)
Refused(o) ==
    /\ progress[o] = "loaded"
    /\ \/ What[o].kind = "create" /\ copy[o][What[o].name] # NoPort
       \/ What[o].port # NoPort /\ ~CheckPort(copy[o], What[o].port, What[o].name)
    /\ Proceed(o, "failed")
    /\ UNCHANGED <<registry, reservations, copy, base, number, bound, portOverlaps>>

(* The server is installed and its files written, for minutes. *)
Built(o) ==
    /\ progress[o] = "building" /\ What[o].kind = "create" /\ MayAct(o)
    /\ copy' = [copy EXCEPT ![o][What[o].name] = number[o]]
    /\ Proceed(o, "built")
    /\ bound' = [bound EXCEPT ![What[o].name] = number[o]]
    /\ UNCHANGED <<registry, reservations, base, number, portOverlaps>>

(* The number it moves off is no longer held, should it still have been. *)
Moved(o) ==
    /\ progress[o] = "building" /\ What[o].kind = "move" /\ MayAct(o)
    /\ reservations' = [reservations EXCEPT ![copy[o][What[o].name]] = "free"]
    /\ copy' = [copy EXCEPT ![o][What[o].name] = number[o]]
    /\ Proceed(o, "built")
    /\ bound' = [bound EXCEPT ![What[o].name] = number[o]]
    /\ UNCHANGED <<registry, base, number, portOverlaps>>

(* deleteInstance: dropping the entry is the release. *)
Dropped(o) ==
    /\ progress[o] = "loaded" /\ What[o].kind = "delete"
    /\ reservations' = [reservations EXCEPT ![copy[o][What[o].name]] = "free"]
    /\ copy' = [copy EXCEPT ![o][What[o].name] = NoPort]
    /\ Proceed(o, "built")
    /\ bound' = [bound EXCEPT ![What[o].name] = NoPort]
    /\ UNCHANGED <<registry, base, number, portOverlaps>>

(* A build or a pack that fails gives its number back at once; a move whose *)
(* file cannot be written changes nothing.                                  *)
Fails(o) ==
    /\ \/ Building(o)
          /\ reservations' = [reservations EXCEPT ![number[o]] = "free"]
          /\ bound' = [bound EXCEPT ![What[o].name] = NoPort]
       \/ Moving(o) /\ progress[o] = "building" /\ UNCHANGED <<reservations, bound>>
    /\ MayAct(o)
    /\ Proceed(o, "failed")
    /\ UNCHANGED <<registry, copy, base, number, portOverlaps>>

(* saveCluster, of the whole copy. *)
Save(o) ==
    /\ progress[o] = "built" /\ MayAct(o)
    /\ "copies" \in portOverlaps \/ registry = base[o]
    /\ registry' = copy[o]
    /\ Proceed(o, "done")
    /\ UNCHANGED <<reservations, copy, base, number, bound, portOverlaps>>

(* Fifteen minutes pass. *)
Expires(p) ==
    /\ reservations[p] = "held"
    /\ "slow" \in portOverlaps \/ \A o \in Requests : Building(o) => number[o] # p
    /\ reservations' = [reservations EXCEPT ![p] = "stale"]
    /\ UNCHANGED <<registry, progress, copy, base, number, bound, portOverlaps>>

(* The daemon restarts: its reservations and what it was building are gone, *)
(* and a save that comes while it is down fails.  A move that is lost       *)
(* between its file and the save leaves the new number in the file.         *)
Restart ==
    /\ \E o \in Requests : progress[o] = "building"
    /\ "moves" \in portOverlaps \/ ~\E o \in Requests : Moving(o) /\ progress[o] = "built"
    /\ reservations' = [p \in Pool |-> "free"]
    /\ \E stages \in {{"building", "built"}} \cup IF "slow" \in portOverlaps THEN {{"building"}} ELSE {} :
        LET lost == {o \in Requests : progress[o] \in stages}
            unmade == {What[o].name : o \in {x \in lost : What[x].kind = "create"}} IN
        /\ progress' = [o \in Requests |-> IF o \in lost THEN "failed" ELSE progress[o]]
        /\ bound' = [n \in Names |-> IF n \in unmade THEN NoPort ELSE bound[n]]
    /\ UNCHANGED <<registry, copy, base, number, portOverlaps>>

-----------------------------------------------------------------------------
Step(o) ==
    \/ Load(o) \/ Acquire(o) \/ Reserve(o) \/ CheckMove(o) \/ Refused(o)
    \/ Built(o) \/ Moved(o) \/ Dropped(o) \/ Fails(o) \/ Save(o)

PortsNext ==
    \/ \E o \in Requests : Step(o)
    \/ \E p \in Pool : Expires(p)
    \/ Restart

PortsSpec == PortsInit /\ [][PortsNext]_portVars

-----------------------------------------------------------------------------
(* Properties *)

(* "a second one started in that window must not be handed the same number" *)
(* (createInstance): provisions that run at once hold different numbers,    *)
(* also while instances are moved, deleted, fail or are cut off by a        *)
(* restart - as long as each operation chooses on the registry as it is, no *)
(* provision takes longer than a reservation lasts, no number is taken      *)
(* while a move to it is under way, no save undoes another and no two work  *)
(* on one instance.                                                         *)
HandedApart ==
    portOverlaps = {} =>
        \A o \in Requests : Building(o) =>
            \A x \in Requests \ {o} : Building(x) => number[o] # number[x]

(* "a port moved onto one another instance on that host already binds would *)
(* take both servers down" (setPort): no two servers have one number in     *)
(* their own files, registered or still being built - under the same        *)
(* conditions, each of which is needed.                                     *)
ServersApart ==
    portOverlaps = {} =>
        \A n, m \in Names : (n # m /\ bound[n] # NoPort) => bound[n] # bound[m]
=============================================================================
