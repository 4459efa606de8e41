----------------------------- MODULE DaemonProofs -----------------------------
(***************************************************************************)
(* Theorems about the two timers of the daemon that act on their own:      *)
(* Upgrade, for any daemons, builds, policies and bounds, and Scheduler,   *)
(* for any schedules, triggers, limits, clock and number of kills.  The    *)
(* counts of runs hold where no edit and pass overlap and no instance is   *)
(* deleted from under an enabled schedule.                                 *)
(***************************************************************************)
EXTENDS Upgrade, Scheduler, TLAPS

-----------------------------------------------------------------------------
(* The upgrade *)

LEMMA LowestIsOne == Lowest = 1
BY DEF Lowest

LEMMA CallersAre ==
    /\ "watch" \in Callers /\ "rescue" \in Callers /\ "operator" \in Callers
    /\ Primary \in Daemons /\ Followers \subseteq Daemons
BY DEF Callers, Daemons

LEMMA IdleType == Idle \in Upgrades
BY DEF Idle, Upgrades

LEMMA OfferTypes ==
    ASSUME TypeOK, NEW d \in Daemons, NEW force \in BOOLEAN, NEW o \in Offers(d, force)
    PROVE  /\ o \in PrimaryOffer(d) \/ o \in GithubOffer(d)
           /\ o.from \in {"primary", "github"}
           /\ o.build \in Builds
           /\ o.promise \in Builds \cup {None}
<1>1. o \in PrimaryOffer(d) \/ o \in GithubOffer(d)
  BY DEF Offers
<1>2. CASE o \in PrimaryOffer(d)
  BY <1>1, <1>2, CallersAre DEF PrimaryOffer, TypeOK
<1>3. CASE o \in GithubOffer(d)
  BY <1>1, <1>3 DEF GithubOffer, TypeOK
<1> QED
  BY <1>1, <1>2, <1>3

LEMMA InitType == Init => TypeOK
<1> SUFFICES ASSUME Init PROVE TypeOK
  OBVIOUS
<1>1. 1 \in Builds
  BY ConstantsAssumption
<1>2. disk \in [Daemons -> [build : Builds \cup {None}, whole : BOOLEAN]]
  BY <1>1, LowestIsOne DEF Init
<1>3. staging \in [Daemons -> [build : Builds \cup {None}, whole : BOOLEAN]]
  BY DEF Init, NoFile
<1>4. upgrade \in [Daemons -> [Callers -> Upgrades]]
  BY IdleType DEF Init
<1> QED
  BY <1>1, <1>2, <1>3, <1>4, LowestIsOne DEF Init, TypeOK

(* What Pipeline and Fails write: one caller's upgrade, well typed.         *)
LEMMA UpgradeType ==
    ASSUME TypeOK, NEW d \in Daemons, NEW c \in Callers, NEW u \in Upgrades
    PROVE  [upgrade EXCEPT ![d][c] = u] \in [Daemons -> [Callers -> Upgrades]]
BY DEF TypeOK

LEMMA AtType ==
    ASSUME TypeOK, NEW d \in Daemons, NEW c \in Callers,
           NEW where \in {"staging", "staged", "console", "moving", "swapped"}, At(d, c, where)
    PROVE  upgrade' \in [Daemons -> [Callers -> Upgrades]]
<1>1. upgrade[d][c] \in Upgrades
  BY DEF TypeOK
<1>2. [upgrade[d][c] EXCEPT !.at = where] \in Upgrades
  BY <1>1 DEF Upgrades
<1>3. upgrade' = [upgrade EXCEPT ![d][c] = [upgrade[d][c] EXCEPT !.at = where]]
  BY DEF At
<1> QED
  BY <1>2, <1>3, UpgradeType

LEMMA AbandonType ==
    ASSUME TypeOK, NEW d \in Daemons, NEW c \in Callers, Abandon(d, c)
    PROVE  TypeOK'
<1>1. upgrade' \in [Daemons -> [Callers -> Upgrades]]
  BY IdleType, UpgradeType DEF Abandon
<1>2. staging' \in [Daemons -> [build : Builds \cup {None}, whole : BOOLEAN]]
  BY DEF Abandon, NoFile, TypeOK
<1> QED
  BY <1>1, <1>2 DEF Abandon, World, TypeOK

LEMMA BeginType ==
    ASSUME TypeOK, NEW d \in Daemons, NEW c \in Callers, NEW force \in BOOLEAN, Begin(d, c, force)
    PROVE  /\ upgrade' \in [Daemons -> [Callers -> Upgrades]]
           /\ applying' \in [Daemons -> Callers \cup {None}]
<1>1. [Idle EXCEPT !.at = "resolving", !.forced = force] \in Upgrades
  BY DEF Idle, Upgrades
<1> QED
  BY <1>1, UpgradeType DEF Begin, TypeOK

LEMMA NextType == TypeOK /\ [Next]_vars => TypeOK'
<1> SUFFICES ASSUME TypeOK, [Next]_vars PROVE TypeOK'
  OBVIOUS
<1> DEFINE Files0 == [Daemons -> [build : Builds \cup {None}, whole : BOOLEAN]]
<1>1. ASSUME NEW d \in Daemons, NEW c \in Callers, Resolve(d, c) PROVE TypeOK'
  <2>1. CASE Abandon(d, c)
    BY <2>1, AbandonType
  <2>2. ASSUME NEW o \in Offers(d, upgrade[d][c].forced),
               upgrade' = [upgrade EXCEPT ![d][c].at = "fetching", ![d][c].from = o.from,
                                          ![d][c].build = o.build, ![d][c].promise = o.promise],
               UNCHANGED <<run, applying, leaving, forcedOut, Files, World>>
        PROVE  TypeOK'
    <3> DEFINE u == [upgrade[d][c] EXCEPT !.at = "fetching", !.from = o.from, !.build = o.build, !.promise = o.promise]
    <3>1. upgrade[d][c] \in Upgrades /\ upgrade[d][c].forced \in BOOLEAN
      BY DEF TypeOK, Upgrades
    <3>2. u \in Upgrades
      BY <3>1, OfferTypes DEF Upgrades
    <3>3. upgrade' = [upgrade EXCEPT ![d][c] = u]
      BY <2>2 DEF TypeOK, Upgrades
    <3>4. upgrade' \in [Daemons -> [Callers -> Upgrades]]
      BY <3>2, <3>3, UpgradeType
    <3> QED
      BY <2>2, <3>4 DEF Files, World, TypeOK
  <2> QED
    BY <1>1, <2>1, <2>2 DEF Resolve
<1>2. ASSUME NEW d \in Daemons, NEW c \in Callers, Fetch(d, c) PROVE TypeOK'
  <2>1. CASE Abandon(d, c)
    BY <2>1, AbandonType
  <2>2. CASE ~Abandon(d, c)
    <3>1. upgrade' \in [Daemons -> [Callers -> Upgrades]]
      BY <1>2, <2>2, AtType DEF Fetch
    <3>2. upgrade[d][c].promise \in Builds \cup {None} /\ staging \in Files0
      BY DEF TypeOK, Upgrades
    <3>3. staging' = [staging EXCEPT ![d] = [build |-> upgrade[d][c].promise, whole |-> FALSE]]
      BY <1>2, <2>2 DEF Fetch
    <3>4. staging' \in Files0
      BY <3>2, <3>3
    <3> QED
      BY <1>2, <2>2, <3>1, <3>4 DEF Fetch, World, TypeOK
  <2> QED
    BY <2>1, <2>2
<1>3. ASSUME NEW d \in Daemons, NEW c \in Callers, WriteEnds(d, c) PROVE TypeOK'
  <2>1. upgrade' \in [Daemons -> [Callers -> Upgrades]]
    BY <1>3, AtType DEF WriteEnds
  <2>2. staging' \in Files0
    BY <1>3 DEF WriteEnds, TypeOK, Upgrades
  <2> QED
    BY <1>3, <2>1, <2>2 DEF WriteEnds, World, TypeOK
<1>4. ASSUME NEW d \in Daemons, NEW c \in Callers, Swap(d, c) PROVE TypeOK'
  <2>1. CASE Abandon(d, c)
    BY <2>1, AbandonType
  <2>2. CASE ~Abandon(d, c)
    <3>1. upgrade' \in [Daemons -> [Callers -> Upgrades]]
      BY <1>4, <2>2, AtType DEF Swap
    <3>2. disk \in Files0 /\ staging \in Files0
      BY DEF TypeOK
    <3>3. /\ disk' = [disk EXCEPT ![d] = staging[d]]
          /\ staging' = [staging EXCEPT ![d] = NoFile]
      BY <1>4, <2>2 DEF Swap
    <3>4. disk' \in Files0
      BY <3>2, <3>3
    <3>5. staging' \in Files0
      BY <3>2, <3>3 DEF NoFile
    <3> QED
      BY <1>4, <2>2, <3>1, <3>4, <3>5 DEF Swap, World, TypeOK
  <2> QED
    BY <2>1, <2>2
<1>5. ASSUME NEW d \in Daemons, NEW c \in Callers, MoveAside(d, c) PROVE TypeOK'
  <2>1. upgrade' \in [Daemons -> [Callers -> Upgrades]]
    BY <1>5, AtType DEF MoveAside
  <2> QED
    BY <1>5, <2>1 DEF MoveAside, links, TypeOK
<1>6. ASSUME NEW d \in Daemons, NEW c \in Callers, MoveIn(d, c) PROVE TypeOK'
  <2>1. upgrade' \in [Daemons -> [Callers -> Upgrades]]
    BY <1>6, AtType DEF MoveIn
  <2>2. console' \in Builds \cup {None}
    BY <1>6 DEF MoveIn, TypeOK, Upgrades
  <2>3. faults' \in Nat /\ lost' \in BOOLEAN
    <3>1. faults \in Nat /\ lost \in BOOLEAN
      BY DEF TypeOK
    <3>2. (lost' = FALSE /\ faults' = faults) \/ (lost' = TRUE /\ faults' = faults + 1)
      BY <1>6 DEF MoveIn
    <3>3. faults' \in Nat
      BY <3>1, <3>2
    <3>4. lost' \in BOOLEAN
      BY <3>2, Zenon
    <3> QED
      BY <3>3, <3>4
  <2>4. UNCHANGED <<run, disk, staging, applying, leaving, forcedOut, link, pushed, release, jobs, overlaps>>
    BY <1>6 DEF MoveIn, links
  <2> QED
    BY <2>1, <2>2, <2>3, <2>4 DEF TypeOK
<1>7. ASSUME NEW d \in Daemons, NEW c \in Callers, Done(d, c) PROVE TypeOK'
  <2>1. upgrade' \in [Daemons -> [Callers -> Upgrades]]
    BY <1>7, IdleType, UpgradeType DEF Done
  <2>2. forcedOut' \in [Daemons -> BOOLEAN] /\ leaving' \in [Daemons -> BOOLEAN]
    BY <1>7 DEF Done, TypeOK, Upgrades
  <2> QED
    BY <1>7, <2>1, <2>2 DEF Done, Files, World, TypeOK
<1>8. ASSUME NEW d \in Daemons, NEW c \in Callers, Fails(d, c) PROVE TypeOK'
  <2>1. upgrade' \in [Daemons -> [Callers -> Upgrades]]
    BY <1>8, IdleType, UpgradeType DEF Fails
  <2>2. staging' \in Files0
    BY <1>8 DEF Fails, NoFile, TypeOK
  <2> QED
    BY <1>8, <2>1, <2>2 DEF Fails, links, TypeOK
<1>9. ASSUME NEW d \in Daemons, NEW c \in Callers, NEW force \in BOOLEAN, Begin(d, c, force),
             UNCHANGED <<release, jobs, faults, overlaps, pushed>>,
             link' \in [Followers -> {"down", "refused", "up"}]
      PROVE  TypeOK'
  BY <1>9, BeginType DEF Begin, Files, TypeOK
<1>10. ASSUME NEW d \in Daemons, Ends(d), faults' \in Nat, lost' \in BOOLEAN PROVE TypeOK'
  <2>1. upgrade' \in [Daemons -> [Callers -> Upgrades]]
    BY <1>10, IdleType DEF Ends, TypeOK
  <2> QED
    BY <1>10, <2>1 DEF Ends, TypeOK
<1>11. ASSUME NEW d \in Daemons, ServiceStarts(d) PROVE TypeOK'
  BY <1>11 DEF ServiceStarts, Files, World, TypeOK
<1>12. ASSUME NEW d \in Daemons, JobStarts(d) \/ JobSettles(d) PROVE TypeOK'
  <2>1. jobs[d] \in Nat /\ jobs \in [Daemons -> Nat]
    BY DEF TypeOK
  <2>2. jobs' \in [Daemons -> Nat]
    BY <1>12, <2>1 DEF JobStarts, JobSettles
  <2> QED
    BY <1>12, <2>2 DEF JobStarts, JobSettles, Files, links, TypeOK
<1>13. ASSUME Publish PROVE TypeOK'
  BY <1>13 DEF Publish, Files, links, TypeOK
<1>14. ASSUME UNCHANGED vars PROVE TypeOK'
  BY <1>14 DEF vars, TypeOK
<1>15. ASSUME NEW d \in Daemons, Watch(d) \/ Operator(d) PROVE TypeOK'
  <2>1. UNCHANGED <<release, jobs, faults, overlaps, link, pushed>>
    BY <1>15 DEF Watch, Operator, World, links
  <2>2. link' \in [Followers -> {"down", "refused", "up"}]
    BY <2>1 DEF TypeOK
  <2> QED
    BY <1>15, <1>9, <2>1, <2>2, CallersAre DEF Watch, Operator
<1>16. ASSUME NEW f \in Followers, Rescue(f) PROVE TypeOK'
  <2>1. link' \in [Followers -> {"down", "refused", "up"}] /\ UNCHANGED <<release, jobs, faults, overlaps, pushed>>
    BY <1>16 DEF Rescue, TypeOK
  <2>2. CASE Begin(f, "rescue", FALSE)
    BY <1>9, <2>1, <2>2, CallersAre
  <2>3. CASE UNCHANGED <<run, upgrade, applying, leaving, forcedOut, Files>>
    BY <2>1, <2>3 DEF Files, TypeOK
  <2> QED
    BY <1>16, <2>2, <2>3 DEF Rescue
<1>17. ASSUME NEW d \in Daemons, Exit(d) \/ Killed(d) PROVE TypeOK'
  <2>1. faults' \in Nat
    BY <1>17 DEF Exit, Killed, TypeOK
  <2>2. lost' \in BOOLEAN
    BY <1>17, Zenon DEF Exit, Killed, TypeOK
  <2> QED
    BY <1>17, <1>10, <2>1, <2>2 DEF Exit, Killed
<1>18. ASSUME NEW f \in Followers, Register(f) \/ LinkBreaks(f) PROVE TypeOK'
  <2>1. link' \in [Followers -> {"down", "refused", "up"}] /\ pushed' \in [Followers -> BOOLEAN]
    BY <1>18 DEF Register, LinkBreaks, TypeOK
  <2> QED
    BY <1>18, <2>1 DEF Register, LinkBreaks, Files, TypeOK
<1> QED
  BY <1>1, <1>2, <1>3, <1>4, <1>5, <1>6, <1>7, <1>8, <1>11, <1>12, <1>13, <1>14, <1>15, <1>16, <1>17, <1>18
     DEF Next, Pipeline

(* Every reachable state is well typed: what is on a disk or being staged   *)
(* is a build, and every upgrade is at one of the steps of selfUpgrade.     *)
THEOREM TypeCorrect == Spec => []TypeOK
BY InitType, NextType, PTL DEF Spec

-----------------------------------------------------------------------------
(* What holds of each caller's upgrade while it is under way: others join   *)
(* it, what it staged is what it was promised and whole once written, what  *)
(* it was promised is what it announced, only the primary has a console to  *)
(* move, and no job runs unless the upgrade was forced.                     *)
Fine(d, c) ==
    /\ upgrade[d][c].at # "idle" => applying[d] = c
    /\ upgrade[d][c].at = "staged" => staging[d] = NoFile \/ staging[d].whole
    /\ upgrade[d][c].at \in {"staging", "staged"} =>
        staging[d] = NoFile \/ staging[d].build = upgrade[d][c].promise
    /\ upgrade[d][c].at \in {"fetching", "staging", "staged"} /\ "swapped" \notin overlaps =>
        upgrade[d][c].promise = upgrade[d][c].build
    /\ upgrade[d][c].at \in {"console", "moving"} => d = Primary
    /\ upgrade[d][c].at # "idle" /\ ~upgrade[d][c].forced /\ "jobs" \notin overlaps => jobs[d] = 0

AllFine == \A d \in Daemons, c \in Callers : Fine(d, c)

IInv == TypeOK /\ AllFine /\ BinaryWhole /\ JobsSpared

LEMMA IdleIsFine ==
    ASSUME NEW d, NEW c, upgrade'[d][c].at = "idle"
    PROVE  Fine(d, c)'
BY DEF Fine

LEMMA UntouchedIsFine ==
    ASSUME NEW d, NEW c, Fine(d, c), upgrade'[d][c] = upgrade[d][c], applying'[d] = applying[d],
           staging'[d] = staging[d], jobs'[d] = jobs[d], overlaps' = overlaps
    PROVE  Fine(d, c)'
BY DEF Fine

(* A step of one upgrade: the other callers of its daemon have none.        *)
LEMMA StepIsFine ==
    ASSUME IInv, NEW d \in Daemons, NEW c \in Callers, upgrade[d][c].at # "idle",
           NEW u, upgrade' = [upgrade EXCEPT ![d][c] = u],
           \A e \in Daemons \ {d} : applying'[e] = applying[e] /\ staging'[e] = staging[e] /\ jobs'[e] = jobs[e],
           overlaps' = overlaps,
           Fine(d, c)'
    PROVE  AllFine'
<1> SUFFICES ASSUME NEW e \in Daemons, NEW k \in Callers PROVE Fine(e, k)'
  BY DEF AllFine
<1>1. CASE e # d
  <2>1. upgrade'[e][k] = upgrade[e][k]
    BY <1>1 DEF IInv, TypeOK
  <2> QED
    BY <1>1, <2>1, UntouchedIsFine DEF IInv, AllFine
<1>2. CASE e = d /\ k # c
  <2>1. applying[d] = c /\ (upgrade[d][k].at # "idle" => applying[d] = k)
    BY DEF IInv, AllFine, Fine
  <2>2. upgrade'[d][k] = upgrade[d][k] /\ upgrade[d][k].at = "idle"
    BY <1>2, <2>1 DEF IInv, TypeOK
  <2> QED
    BY <1>2, <2>2, IdleIsFine
<1> QED
  BY <1>1, <1>2

LEMMA HereIs ==
    ASSUME TypeOK, NEW d \in Daemons, NEW c \in Callers, NEW u, upgrade' = [upgrade EXCEPT ![d][c] = u]
    PROVE  upgrade'[d][c] = u
BY DEF TypeOK

LEMMA InitIInv == Init => IInv
<1> SUFFICES ASSUME Init PROVE IInv
  OBVIOUS
<1>1. AllFine
  BY DEF Init, AllFine, Fine, Idle
<1> QED
  BY <1>1, InitType DEF Init, IInv, BinaryWhole, JobsSpared

LEMMA AbandonKeeps ==
    ASSUME IInv, NEW d \in Daemons, NEW c \in Callers, upgrade[d][c].at # "idle", Abandon(d, c)
    PROVE  IInv'
<1>1. upgrade'[d][c].at = "idle"
  <2>1. upgrade'[d][c] = Idle
    BY HereIs DEF Abandon, IInv
  <2> QED
    BY <2>1 DEF Idle
<1>2. \A e \in Daemons \ {d} : applying'[e] = applying[e] /\ staging'[e] = staging[e] /\ jobs'[e] = jobs[e]
  BY DEF Abandon, World, IInv, TypeOK
<1>3. AllFine'
  BY <1>1, <1>2, StepIsFine, IdleIsFine DEF Abandon, World
<1> QED
  BY <1>3, AbandonType DEF Abandon, World, IInv, BinaryWhole, JobsSpared

LEMMA NextIInv == IInv /\ [Next]_vars => IInv'
<1> SUFFICES ASSUME IInv, [Next]_vars PROVE IInv'
  OBVIOUS
<1>00. TypeOK
  BY DEF IInv
<1>0. TypeOK /\ TypeOK'
  BY NextType DEF IInv
<1>1. ASSUME NEW d \in Daemons, NEW c \in Callers, Resolve(d, c) PROVE IInv'
  <2>0. upgrade[d][c].at # "idle"
    BY <1>1 DEF Resolve
  <2>1. CASE Abandon(d, c)
    BY <2>0, <2>1, AbandonKeeps
  <2>2. ASSUME NEW o \in Offers(d, upgrade[d][c].forced),
               upgrade' = [upgrade EXCEPT ![d][c].at = "fetching", ![d][c].from = o.from,
                                          ![d][c].build = o.build, ![d][c].promise = o.promise],
               UNCHANGED <<run, applying, leaving, forcedOut, Files, World>>
        PROVE  IInv'
    <3> DEFINE u == [upgrade[d][c] EXCEPT !.at = "fetching", !.from = o.from, !.build = o.build, !.promise = o.promise]
    <3>1. upgrade[d][c] \in Upgrades /\ upgrade[d][c].forced \in BOOLEAN
      BY <1>0 DEF TypeOK, Upgrades
    <3>2. upgrade' = [upgrade EXCEPT ![d][c] = u]
      BY <1>00, <2>2 DEF TypeOK, Upgrades
    <3>3. /\ upgrade'[d][c].at = "fetching" /\ upgrade'[d][c].forced = upgrade[d][c].forced
          /\ upgrade'[d][c].build = o.build /\ upgrade'[d][c].promise = o.promise
      <4>1. upgrade'[d][c] = u
        BY <1>0, <3>2, HereIs
      <4> QED
        BY <3>1, <4>1 DEF Upgrades
    <3>4. "swapped" \notin overlaps => o.promise = o.build
      <4>1. CASE o \in GithubOffer(d)
        BY <4>1 DEF GithubOffer
      <4>2. CASE o \in PrimaryOffer(d)
        <5>1. d # Primary /\ run[Primary] # None /\ o.build = run[Primary] /\ o.promise = disk[Primary].build
          BY <4>2 DEF PrimaryOffer
        <5>2. "swapped" \in overlaps \/ d = Primary \/ run[Primary] \in {None, disk[Primary].build}
          BY <1>1 DEF Resolve
        <5> QED
          BY <5>1, <5>2
      <4> QED
        BY <1>0, <3>1, <4>1, <4>2, OfferTypes
    <3>5. Fine(d, c)'
      BY <2>0, <2>2, <3>3, <3>4 DEF Fine, IInv, AllFine, World
    <3>6. AllFine'
      BY <2>0, <2>2, <3>2, <3>5, StepIsFine DEF Files, World
    <3> QED
      BY <1>0, <2>2, <3>6 DEF IInv, BinaryWhole, JobsSpared, Files, World
  <2> QED
    BY <1>1, <2>1, <2>2 DEF Resolve
<1>2. ASSUME NEW d \in Daemons, NEW c \in Callers, Fetch(d, c) PROVE IInv'
  <2>0. upgrade[d][c].at = "fetching"
    BY <1>2 DEF Fetch
  <2>1. CASE Abandon(d, c)
    BY <2>0, <2>1, AbandonKeeps
  <2>2. CASE ~Abandon(d, c)
    <3> DEFINE u == [upgrade[d][c] EXCEPT !.at = "staging"]
    <3>1. upgrade' = [upgrade EXCEPT ![d][c] = u] /\ upgrade[d][c] \in Upgrades
      BY <1>0, <1>2, <2>2 DEF Fetch, At, TypeOK
    <3>2. /\ staging' = [staging EXCEPT ![d] = [build |-> upgrade[d][c].promise, whole |-> FALSE]]
          /\ UNCHANGED <<run, disk, console, applying, leaving, forcedOut, World>>
      BY <1>2, <2>2 DEF Fetch
    <3>3. upgrade'[d][c] = u /\ staging'[d] = [build |-> upgrade[d][c].promise, whole |-> FALSE]
      BY <1>0, <3>1, <3>2, HereIs DEF TypeOK
    <3>4. /\ upgrade'[d][c].at = "staging" /\ upgrade'[d][c].forced = upgrade[d][c].forced
          /\ upgrade'[d][c].build = upgrade[d][c].build /\ upgrade'[d][c].promise = upgrade[d][c].promise
      BY <3>1, <3>3 DEF Upgrades
    <3>5. Fine(d, c)'
      BY <2>0, <3>2, <3>3, <3>4 DEF Fine, IInv, AllFine, World
    <3>6. \A e \in Daemons \ {d} : staging'[e] = staging[e]
      BY <1>0, <3>2 DEF TypeOK
    <3>7. AllFine'
      BY <2>0, <3>1, <3>2, <3>5, <3>6, StepIsFine DEF World
    <3> QED
      BY <1>0, <3>2, <3>7 DEF IInv, BinaryWhole, JobsSpared, World
  <2> QED
    BY <2>1, <2>2
<1>3. ASSUME NEW d \in Daemons, NEW c \in Callers, WriteEnds(d, c) PROVE IInv'
  <2> DEFINE u == [upgrade[d][c] EXCEPT !.at = "staged"]
  <2>1. upgrade' = [upgrade EXCEPT ![d][c] = u] /\ upgrade[d][c] \in Upgrades
    BY <1>0, <1>3 DEF WriteEnds, At, TypeOK
  <2>2. /\ staging' = [staging EXCEPT ![d] = [build |-> upgrade[d][c].promise, whole |-> TRUE]]
        /\ upgrade[d][c].at = "staging"
        /\ UNCHANGED <<run, disk, console, applying, leaving, forcedOut, World>>
    BY <1>3 DEF WriteEnds
  <2>3. upgrade'[d][c] = u /\ staging'[d] = [build |-> upgrade[d][c].promise, whole |-> TRUE]
    BY <1>0, <2>1, <2>2, HereIs DEF TypeOK
  <2>4. /\ upgrade'[d][c].at = "staged" /\ upgrade'[d][c].forced = upgrade[d][c].forced
        /\ upgrade'[d][c].build = upgrade[d][c].build /\ upgrade'[d][c].promise = upgrade[d][c].promise
    BY <2>1, <2>3 DEF Upgrades
  <2>5. Fine(d, c)'
    BY <2>2, <2>3, <2>4 DEF Fine, IInv, AllFine, World
  <2>6. \A e \in Daemons \ {d} : staging'[e] = staging[e]
    BY <1>0, <2>2 DEF TypeOK
  <2>7. AllFine'
    BY <2>1, <2>2, <2>5, <2>6, StepIsFine DEF World
  <2> QED
    BY <1>0, <2>2, <2>7 DEF IInv, BinaryWhole, JobsSpared, World
<1>4. ASSUME NEW d \in Daemons, NEW c \in Callers, Swap(d, c) PROVE IInv'
  <2>0. upgrade[d][c].at = "staged"
    BY <1>4 DEF Swap
  <2>1. CASE Abandon(d, c)
    BY <2>0, <2>1, AbandonKeeps
  <2>2. CASE ~Abandon(d, c)
    <3> DEFINE u == [upgrade[d][c] EXCEPT !.at = IF d = Primary /\ upgrade[d][c].from = "github" THEN "console" ELSE "swapped"]
    <3>1. upgrade' = [upgrade EXCEPT ![d][c] = u] /\ upgrade[d][c] \in Upgrades
      BY <1>0, <1>4, <2>2 DEF Swap, At, TypeOK
    <3>2. /\ staging[d] # NoFile
          /\ disk' = [disk EXCEPT ![d] = staging[d]]
          /\ staging' = [staging EXCEPT ![d] = NoFile]
          /\ UNCHANGED <<run, console, applying, leaving, forcedOut, World>>
      BY <1>4, <2>2 DEF Swap
    <3>3. /\ upgrade'[d][c].at \in {"console", "swapped"}
          /\ upgrade'[d][c].at = "console" => d = Primary
          /\ upgrade'[d][c].forced = upgrade[d][c].forced
      <4>1. upgrade'[d][c] = u
        BY <1>0, <3>1, HereIs
      <4> QED
        BY <3>1, <4>1 DEF Upgrades
    <3>4. Fine(d, c)'
      BY <2>0, <3>2, <3>3 DEF Fine, IInv, AllFine, World
    <3>5. \A e \in Daemons \ {d} : staging'[e] = staging[e]
      BY <1>0, <3>2 DEF TypeOK
    <3>6. AllFine'
      BY <2>0, <3>1, <3>2, <3>4, <3>5, StepIsFine DEF World
    <3>7. staging[d].whole
      BY <2>0, <3>2 DEF IInv, AllFine, Fine
    <3>8. BinaryWhole'
      BY <1>0, <3>2, <3>7 DEF IInv, BinaryWhole, TypeOK
    <3> QED
      BY <1>0, <3>2, <3>6, <3>8 DEF IInv, JobsSpared, World
  <2> QED
    BY <2>1, <2>2
<1>5. ASSUME NEW d \in Daemons, NEW c \in Callers, MoveAside(d, c) \/ MoveIn(d, c) PROVE IInv'
  <2>1. PICK where \in {"moving", "swapped"} : At(d, c, where)
    BY <1>5 DEF MoveAside, MoveIn
  <2>2. /\ upgrade[d][c].at \in {"console", "moving"}
        /\ UNCHANGED <<run, disk, staging, applying, leaving, forcedOut, jobs, overlaps>>
    BY <1>5 DEF MoveAside, MoveIn
  <2> DEFINE u == [upgrade[d][c] EXCEPT !.at = where]
  <2>3. upgrade' = [upgrade EXCEPT ![d][c] = u] /\ upgrade[d][c] \in Upgrades
    BY <1>0, <2>1 DEF At, TypeOK
  <2>4. upgrade'[d][c].at = where /\ upgrade'[d][c].forced = upgrade[d][c].forced
    <3>1. upgrade'[d][c] = u
      BY <1>0, <2>3, HereIs
    <3> QED
      BY <2>3, <3>1 DEF Upgrades
  <2>5. Fine(d, c)'
    BY <2>2, <2>4 DEF Fine, IInv, AllFine
  <2>6. AllFine'
    BY <2>2, <2>3, <2>5, StepIsFine
  <2> QED
    BY <1>0, <2>2, <2>6 DEF IInv, BinaryWhole, JobsSpared
<1>6. ASSUME NEW d \in Daemons, NEW c \in Callers, Done(d, c) PROVE IInv'
  <2>1. /\ upgrade[d][c].at # "idle"
        /\ upgrade' = [upgrade EXCEPT ![d][c] = Idle]
        /\ leaving' = [leaving EXCEPT ![d] = TRUE]
        /\ forcedOut' = [forcedOut EXCEPT ![d] = @ \/ upgrade[d][c].forced]
        /\ applying' = [applying EXCEPT ![d] = None]
        /\ UNCHANGED <<disk, staging, jobs, overlaps>>
    BY <1>6 DEF Done, Files, World
  <2>2. upgrade'[d][c].at = "idle"
    <3>1. upgrade'[d][c] = Idle
      BY <1>0, <2>1, HereIs
    <3> QED
      BY <3>1 DEF Idle
  <2>3. \A e \in Daemons \ {d} : applying'[e] = applying[e]
    BY <1>0, <2>1 DEF TypeOK
  <2>4. AllFine'
    BY <2>1, <2>2, <2>3, StepIsFine, IdleIsFine
  <2>5. "jobs" \notin overlaps /\ ~upgrade[d][c].forced => jobs[d] = 0
    BY <2>1 DEF IInv, AllFine, Fine
  <2>6. JobsSpared'
    <3>1. /\ \A e \in Daemons \ {d} : leaving'[e] = leaving[e] /\ forcedOut'[e] = forcedOut[e]
          /\ forcedOut'[d] = (forcedOut[d] \/ upgrade[d][c].forced)
      BY <1>0, <2>1 DEF TypeOK
    <3> QED
      BY <2>1, <2>5, <3>1 DEF IInv, JobsSpared
  <2> QED
    BY <1>0, <2>1, <2>4, <2>6 DEF IInv, BinaryWhole
<1>7. ASSUME NEW d \in Daemons, NEW c \in Callers, Fails(d, c) PROVE IInv'
  <2>1. /\ upgrade[d][c].at # "idle"
        /\ upgrade' = [upgrade EXCEPT ![d][c] = Idle]
        /\ UNCHANGED <<disk, leaving, forcedOut, jobs, overlaps>>
    BY <1>7 DEF Fails
  <2>2. upgrade'[d][c].at = "idle"
    <3>1. upgrade'[d][c] = Idle
      BY <1>0, <2>1, HereIs
    <3> QED
      BY <3>1 DEF Idle
  <2>3. \A e \in Daemons \ {d} : applying'[e] = applying[e] /\ staging'[e] = staging[e]
    BY <1>0, <1>7 DEF Fails, TypeOK
  <2>4. AllFine'
    BY <2>1, <2>2, <2>3, StepIsFine, IdleIsFine
  <2> QED
    BY <1>0, <2>1, <2>4 DEF IInv, BinaryWhole, JobsSpared
<1>8. ASSUME NEW d \in Daemons, NEW c \in Callers, NEW force \in BOOLEAN, Begin(d, c, force),
             UNCHANGED <<jobs, overlaps>>
      PROVE  IInv'
  <2> DEFINE u == [Idle EXCEPT !.at = "resolving", !.forced = force]
  <2>1. /\ applying[d] = None /\ (jobs[d] = 0 \/ force)
        /\ applying' = [applying EXCEPT ![d] = c]
        /\ upgrade' = [upgrade EXCEPT ![d][c] = u]
        /\ UNCHANGED <<run, leaving, forcedOut, disk, staging>>
    BY <1>8 DEF Begin, Files
  <2>2. \A k \in Callers : upgrade[d][k].at = "idle"
    BY <2>1, ConstantsAssumption DEF IInv, AllFine, Fine
  <2>3. upgrade'[d][c].at = "resolving" /\ upgrade'[d][c].forced = force /\ applying'[d] = c
    BY <1>0, <2>1, HereIs DEF Idle, TypeOK
  <2>4. ASSUME NEW e \in Daemons, NEW k \in Callers PROVE Fine(e, k)'
    <3>1. CASE e = d /\ k = c
      BY <1>8, <2>1, <2>3, <3>1 DEF Fine
    <3>2. CASE e = d /\ k # c
      <4>1. upgrade'[e][k] = upgrade[e][k]
        BY <1>0, <2>1, <3>2 DEF TypeOK
      <4> QED
        BY <2>2, <3>2, <4>1, IdleIsFine
    <3>3. CASE e # d
      <4>1. upgrade'[e][k] = upgrade[e][k] /\ applying'[e] = applying[e]
        BY <1>0, <2>1, <3>3 DEF TypeOK
      <4> QED
        BY <1>8, <2>1, <4>1, UntouchedIsFine DEF IInv, AllFine
    <3> QED
      BY <3>1, <3>2, <3>3
  <2> QED
    BY <1>0, <1>8, <2>1, <2>4 DEF IInv, AllFine, BinaryWhole, JobsSpared
<1>9. ASSUME NEW d \in Daemons, Ends(d) PROVE IInv'
  <2>1. ASSUME NEW e \in Daemons, NEW k \in Callers PROVE Fine(e, k)'
    <3>1. CASE e = d
      <4>1. upgrade'[e][k].at = "idle"
        BY <1>0, <1>9, <3>1 DEF Ends, Idle, TypeOK
      <4> QED
        BY <4>1, IdleIsFine
    <3>2. CASE e # d
      BY <1>0, <1>9, <3>2, UntouchedIsFine DEF Ends, IInv, AllFine, TypeOK
    <3> QED
      BY <3>1, <3>2
  <2>2. JobsSpared'
    BY <1>0, <1>9 DEF Ends, IInv, JobsSpared, TypeOK
  <2> QED
    BY <1>0, <1>9, <2>1, <2>2 DEF Ends, IInv, AllFine, BinaryWhole
<1>10. ASSUME NEW d \in Daemons, JobStarts(d) PROVE IInv'
  <2>1. /\ jobs' = [jobs EXCEPT ![d] = @ + 1]
        /\ "jobs" \in overlaps \/ (applying[d] = None /\ ~leaving[d])
        /\ UNCHANGED <<disk, staging, upgrade, applying, leaving, forcedOut, overlaps>>
    BY <1>10 DEF JobStarts, Files
  <2>2. ASSUME NEW e \in Daemons, NEW k \in Callers PROVE Fine(e, k)'
    <3>1. CASE e = d
      <4>1. "jobs" \notin overlaps => upgrade[d][k].at = "idle"
        BY <2>1, ConstantsAssumption DEF IInv, AllFine, Fine
      <4> QED
        BY <2>1, <3>1, <4>1 DEF IInv, AllFine, Fine
    <3>2. CASE e # d
      BY <1>0, <2>1, <3>2, UntouchedIsFine DEF IInv, AllFine, TypeOK
    <3> QED
      BY <3>1, <3>2
  <2>3. JobsSpared'
    BY <1>0, <2>1 DEF IInv, JobsSpared, TypeOK
  <2> QED
    BY <1>0, <2>1, <2>2, <2>3 DEF IInv, AllFine, BinaryWhole
<1>11. ASSUME NEW d \in Daemons, JobSettles(d) PROVE IInv'
  <2>1. /\ jobs[d] > 0 /\ jobs' = [jobs EXCEPT ![d] = @ - 1]
        /\ UNCHANGED <<disk, staging, upgrade, applying, leaving, forcedOut, overlaps>>
    BY <1>11 DEF JobSettles, Files
  <2>2. \A e \in Daemons : jobs[e] = 0 => jobs'[e] = 0
    BY <1>0, <2>1 DEF TypeOK
  <2>3. AllFine'
    BY <2>1, <2>2 DEF IInv, AllFine, Fine
  <2> QED
    BY <1>0, <2>1, <2>2, <2>3 DEF IInv, BinaryWhole, JobsSpared
<1>12. ASSUME UNCHANGED <<disk, staging, upgrade, applying, leaving, forcedOut, jobs, overlaps>> PROVE IInv'
  BY <1>0, <1>12 DEF IInv, AllFine, Fine, BinaryWhole, JobsSpared
<1>13. ASSUME NEW d \in Daemons, Watch(d) \/ Operator(d) PROVE IInv'
  BY <1>8, <1>13, CallersAre DEF Watch, Operator, World
<1>14. ASSUME NEW f \in Followers, Rescue(f) PROVE IInv'
  BY <1>8, <1>12, <1>14, CallersAre DEF Rescue, Files
<1>15. ASSUME NEW d \in Daemons, ServiceStarts(d) PROVE IInv'
  BY <1>12, <1>15 DEF ServiceStarts, Files, World
<1>16. CASE Publish \/ UNCHANGED vars
  BY <1>12, <1>16 DEF Publish, Files, vars
<1>17. ASSUME NEW d \in Daemons, Exit(d) \/ Killed(d) PROVE IInv'
  BY <1>9, <1>17 DEF Exit, Killed
<1>18. ASSUME NEW f \in Followers, Register(f) \/ LinkBreaks(f) PROVE IInv'
  BY <1>12, <1>18 DEF Register, LinkBreaks, Files
<1> QED
  BY <1>1, <1>2, <1>3, <1>4, <1>5, <1>6, <1>7, <1>10, <1>11, <1>13, <1>14, <1>15, <1>16, <1>17, <1>18 DEF Next, Pipeline

LEMMA AlwaysIInv == Spec => []IInv
BY InitIInv, NextIInv, PTL DEF Spec

(* selfUpgrade: whatever fails, and whenever a process dies, the service    *)
(* manager finds one whole build.                                           *)
THEOREM BinaryNeverHalf == Spec => []BinaryWhole
<1>1. IInv => BinaryWhole
  BY DEF IInv
<1> QED
  BY <1>1, AlwaysIInv, PTL

(* runningJobs: an upgrade that nobody forced ends no job.                  *)
THEOREM JobsAreSpared == Spec => []JobsSpared
<1>1. IInv => JobsSpared
  BY DEF IInv
<1> QED
  BY <1>1, AlwaysIInv, PTL

(* Nothing but a swap takes an upgrade on from what it has staged.          *)
LEMMA OnlySwapPlaces ==
    ASSUME TypeOK, Next, NEW d \in Daemons, NEW c \in Callers,
           upgrade[d][c].at = "staged", upgrade'[d][c].at \in {"console", "swapped"}
    PROVE  Swap(d, c) /\ staging[d] # NoFile
<1>1. ASSUME NEW e \in Daemons, NEW k \in Callers, NEW u, upgrade' = [upgrade EXCEPT ![e][k] = u]
      PROVE  e = d /\ k = c /\ upgrade'[d][c] = u
  BY <1>1 DEF TypeOK
<1>2. ASSUME NEW e \in Daemons, NEW k \in Callers, NEW where, At(e, k, where)
      PROVE  e = d /\ k = c
  BY <1>1, <1>2 DEF At
<1>3. ASSUME NEW e \in Daemons, NEW k \in Callers, upgrade' = [upgrade EXCEPT ![e][k] = Idle]
      PROVE  FALSE
  <2>1. upgrade'[d][c] = Idle
    BY <1>1, <1>3
  <2> QED
    BY <2>1 DEF Idle
<1>4. ASSUME NEW e \in Daemons, NEW k \in Callers, Resolve(e, k) PROVE FALSE
  <2>1. CASE Abandon(e, k)
    BY <1>3, <2>1 DEF Abandon
  <2>2. ASSUME NEW o,
               upgrade' = [upgrade EXCEPT ![e][k].at = "fetching", ![e][k].from = o.from,
                                          ![e][k].build = o.build, ![e][k].promise = o.promise]
        PROVE  FALSE
    <3> DEFINE u == [upgrade[e][k] EXCEPT !.at = "fetching", !.from = o.from, !.build = o.build, !.promise = o.promise]
    <3>1. upgrade' = [upgrade EXCEPT ![e][k] = u]
      BY <2>2 DEF TypeOK, Upgrades
    <3>2. e = d /\ k = c
      BY <1>1, <3>1
    <3> QED
      BY <1>4, <3>2 DEF Resolve
  <2> QED
    BY <1>4, <2>1, <2>2 DEF Resolve
<1>5. ASSUME NEW e \in Daemons, NEW k \in Callers, Fetch(e, k) PROVE FALSE
  BY <1>2, <1>3, <1>5 DEF Fetch, Abandon
<1>6. ASSUME NEW e \in Daemons, NEW k \in Callers, WriteEnds(e, k) \/ MoveAside(e, k) \/ MoveIn(e, k) PROVE FALSE
  BY <1>2, <1>6 DEF WriteEnds, MoveAside, MoveIn
<1>7. ASSUME NEW e \in Daemons, NEW k \in Callers, Done(e, k) \/ Fails(e, k) PROVE FALSE
  BY <1>3, <1>7 DEF Done, Fails
<1>8. ASSUME NEW e \in Daemons, NEW k \in Callers, Swap(e, k) PROVE Swap(d, c) /\ staging[d] # NoFile
  <2>1. CASE staging[e] = NoFile
    BY <1>3, <1>8, <2>1 DEF Swap, Abandon
  <2>2. CASE staging[e] # NoFile
    BY <1>2, <1>8, <2>2 DEF Swap
  <2> QED
    BY <2>1, <2>2
<1>9. ASSUME NEW e \in Daemons, NEW k \in Callers, NEW force, Begin(e, k, force) PROVE FALSE
  <2>1. upgrade'[d][c] = [Idle EXCEPT !.at = "resolving", !.forced = force]
    BY <1>1, <1>9 DEF Begin
  <2> QED
    BY <2>1 DEF Idle
<1>10. ASSUME NEW e \in Daemons, Ends(e) PROVE FALSE
  BY <1>10 DEF Ends, Idle, TypeOK
<1>11. ASSUME UNCHANGED upgrade PROVE FALSE
  BY <1>11
<1>12. ASSUME NEW e \in Daemons,
              Watch(e) \/ Operator(e) \/ Exit(e) \/ Killed(e) \/ ServiceStarts(e) \/ JobStarts(e) \/ JobSettles(e)
       PROVE  FALSE
  BY <1>9, <1>10, <1>11, <1>12, CallersAre DEF Watch, Operator, Exit, Killed, ServiceStarts, JobStarts, JobSettles
<1>13. ASSUME NEW f \in Followers, Rescue(f) PROVE FALSE
  BY <1>9, <1>11, <1>13, CallersAre DEF Rescue
<1>14. ASSUME Publish PROVE FALSE
  BY <1>11, <1>14 DEF Publish
<1>15. ASSUME NEW f \in Followers, Register(f) \/ LinkBreaks(f) PROVE FALSE
  BY <1>11, <1>15 DEF Register, LinkBreaks
<1> QED
  BY <1>4, <1>5, <1>6, <1>7, <1>8, <1>12, <1>13, <1>14, <1>15 DEF Next, Pipeline

(* UpgradeResult.to: what is put in place is what was announced.            *)
THEOREM AnnouncedIsInstalled == Spec => Announced
<1>1. IInv /\ [Next]_vars =>
        [\A d \in Daemons, c \in Callers :
            ("swapped" \notin overlaps /\ upgrade[d][c].at = "staged" /\ upgrade'[d][c].at \in {"console", "swapped"})
                => disk'[d].build = upgrade[d][c].build]_vars
  <2> SUFFICES ASSUME IInv, Next, NEW d \in Daemons, NEW c \in Callers, "swapped" \notin overlaps,
                      upgrade[d][c].at = "staged", upgrade'[d][c].at \in {"console", "swapped"}
               PROVE  disk'[d].build = upgrade[d][c].build
    BY DEF vars
  <2>1. TypeOK
    BY DEF IInv
  <2>2. Swap(d, c) /\ staging[d] # NoFile
    BY <2>1, OnlySwapPlaces
  <2>3. disk'[d] = staging[d]
    BY <2>1, <2>2 DEF Swap, TypeOK
  <2> QED
    BY <2>2, <2>3 DEF IInv, AllFine, Fine
<1> QED
  BY <1>1, AlwaysIInv, PTL DEF Spec, Announced

-----------------------------------------------------------------------------
(* The primary's console.  What each upgrade of the primary is about to put *)
(* in place is no older than what is there and no newer than the release;   *)
(* once the binary is swapped the console that follows is that binary's.    *)
InOrder(c) ==
    LET u == upgrade[Primary][c] IN
    /\ u.at \in {"fetching", "staging", "staged"} =>
        /\ u.promise \in Builds /\ u.build = u.promise
        /\ disk[Primary].build <= u.promise /\ u.promise <= release
    /\ u.at \in {"console", "moving"} => u.build = disk[Primary].build

NeverGone ==
    "gap" \notin overlaps /\ console = None => lost \/ \E c \in Callers : upgrade[Primary][c].at = "moving"

LeavesAtRest ==
    "gap" \notin overlaps /\ leaving[Primary] => \A c \in Callers : upgrade[Primary][c].at = "idle"

CInv ==
    /\ disk[Primary].build \in Builds /\ disk[Primary].build <= release
    /\ console # None => console <= disk[Primary].build
    /\ \A c \in Callers : InOrder(c)
    /\ NeverGone /\ LeavesAtRest

LEMMA BuildsAreNumbers == Builds \subseteq Nat /\ None \notin Builds
BY ConstantsAssumption

LEMMA InitCInv == Init => CInv
BY LowestIsOne, ConstantsAssumption DEF Init, CInv, InOrder, NeverGone, LeavesAtRest, Idle, Daemons

(* Steps that leave the primary's upgrades alone. *)
LEMMA ElsewhereKeeps ==
    ASSUME CInv, upgrade'[Primary] = upgrade[Primary], disk'[Primary] = disk[Primary], console' = console,
           leaving'[Primary] = leaving[Primary], overlaps' = overlaps,
           release \in Builds, release' \in Builds, release <= release', lost => lost'
    PROVE  CInv'
<1>0. release \in Nat /\ release' \in Nat
  BY BuildsAreNumbers
<1>01. \A b \in Nat : b <= release => b <= release'
  BY <1>0
<1>1. \A c \in Callers : InOrder(c)'
  <2> SUFFICES ASSUME NEW c \in Callers PROVE InOrder(c)'
    OBVIOUS
  <2>1. InOrder(c)
    BY DEF CInv
  <2>2. upgrade[Primary][c].promise \in Builds /\ upgrade[Primary][c].promise <= release
            => upgrade[Primary][c].promise <= release'
    BY <1>01, BuildsAreNumbers
  <2> QED
    BY <2>1, <2>2 DEF InOrder
<1>2. disk'[Primary].build \in Builds /\ disk'[Primary].build <= release'
  <2>1. disk[Primary].build \in Builds /\ disk[Primary].build <= release
    BY DEF CInv
  <2> QED
    BY <1>01, <2>1, BuildsAreNumbers
<1> QED
  BY <1>1, <1>2 DEF CInv, NeverGone, LeavesAtRest

(* Steps of an upgrade of the primary: it is the only one. *)
LEMMA OnlyOne ==
    ASSUME IInv, NEW c \in Callers, upgrade[Primary][c].at # "idle"
    PROVE  \A k \in Callers \ {c} : upgrade[Primary][k].at = "idle"
BY CallersAre DEF IInv, AllFine, Fine

LEMMA StepKeeps ==
    ASSUME IInv, CInv, NEW c \in Callers, upgrade[Primary][c].at # "idle",
           NEW u, upgrade' = [upgrade EXCEPT ![Primary][c] = u],
           disk'[Primary].build \in Builds, disk'[Primary].build <= release',
           console' # None => console' <= disk'[Primary].build,
           InOrder(c)', NeverGone',
           overlaps' = overlaps, leaving'[Primary] => leaving[Primary] \/ u.at = "idle"
    PROVE  CInv'
<1>0. TypeOK /\ Primary \in Daemons
  BY CallersAre DEF IInv
<1>1. \A k \in Callers \ {c} : upgrade[Primary][k].at = "idle" /\ upgrade'[Primary][k] = upgrade[Primary][k]
  BY <1>0, OnlyOne DEF TypeOK
<1>2. upgrade'[Primary][c] = u
  BY <1>0, HereIs
<1>3. \A k \in Callers : InOrder(k)'
  BY <1>1 DEF InOrder
<1>4. LeavesAtRest'
  BY <1>1, <1>2 DEF CInv, LeavesAtRest
<1> QED
  BY <1>3, <1>4 DEF CInv

LEMMA AbandonKeepsConsole ==
    ASSUME IInv, CInv, NEW c \in Callers, upgrade[Primary][c].at \notin {"idle", "moving"}, Abandon(Primary, c)
    PROVE  CInv'
<1>0. TypeOK /\ Primary \in Daemons
  BY CallersAre DEF IInv
<1>1. upgrade'[Primary][c] = Idle
  BY <1>0, HereIs DEF Abandon
<1>2. upgrade'[Primary][c].at = "idle"
  BY <1>1 DEF Idle
<1>3. InOrder(c)'
  BY <1>2 DEF InOrder
<1>4. NeverGone'
  <2>1. \A k \in Callers : upgrade[Primary][k].at # "moving"
    BY OnlyOne
  <2> QED
    BY <2>1 DEF CInv, NeverGone, Abandon, World
<1>5. Idle.at = "idle"
  BY DEF Idle
<1> QED
  BY <1>3, <1>4, <1>5, StepKeeps DEF Abandon, World, CInv

LEMMA NextCInv == IInv /\ IInv' /\ CInv /\ [Next]_vars => CInv'
<1> SUFFICES ASSUME IInv, IInv', CInv, [Next]_vars PROVE CInv'
  OBVIOUS
<1>0. TypeOK /\ Primary \in Daemons
  BY CallersAre DEF IInv
<1>00. TypeOK'
  BY DEF IInv
<1>01. release \in Builds /\ release \in Nat
  BY <1>0, BuildsAreNumbers DEF TypeOK
<1>1. ASSUME NEW d \in Daemons, NEW c \in Callers, d # Primary, Pipeline(d, c) \/ Fails(d, c) PROVE CInv'
  <2>1. UNCHANGED <<release, overlaps>>
    <3>1. CASE Resolve(d, c) \/ Fetch(d, c) \/ WriteEnds(d, c) \/ Swap(d, c)
      BY <3>1 DEF Resolve, Abandon, Fetch, WriteEnds, Swap, World
    <3>2. CASE MoveAside(d, c) \/ MoveIn(d, c) \/ Done(d, c) \/ Fails(d, c)
      BY <3>2 DEF MoveAside, MoveIn, Done, Fails, World
    <3> QED
      BY <1>1, <3>1, <3>2 DEF Pipeline
  <2>2. console' = console /\ lost' = lost
    <3>1. ASSUME MoveAside(d, c) \/ MoveIn(d, c) PROVE FALSE
      BY <1>1, <3>1 DEF MoveAside, MoveIn, IInv, AllFine, Fine
    <3> QED
      BY <1>1, <3>1 DEF Pipeline, Resolve, Abandon, Fetch, WriteEnds, Swap, Done, Fails, Files
  <2>3. disk'[Primary] = disk[Primary] /\ leaving'[Primary] = leaving[Primary]
    BY <1>0, <1>1 DEF Pipeline, Resolve, Abandon, Fetch, WriteEnds, Swap, MoveAside, MoveIn, Done, Fails, Files, TypeOK
  <2>4. upgrade'[Primary] = upgrade[Primary]
    BY <1>0, <1>1 DEF Pipeline, Resolve, Abandon, Fetch, WriteEnds, Swap, MoveAside, MoveIn, Done, Fails, At, TypeOK
  <2> QED
    BY <1>01, <2>1, <2>2, <2>3, <2>4, ElsewhereKeeps
<1>2. ASSUME NEW c \in Callers, Resolve(Primary, c) PROVE CInv'
  <2>0. upgrade[Primary][c].at = "resolving"
    BY <1>2 DEF Resolve
  <2>1. CASE Abandon(Primary, c)
    BY <2>0, <2>1, AbandonKeepsConsole
  <2>2. ASSUME NEW o \in Offers(Primary, upgrade[Primary][c].forced),
               upgrade' = [upgrade EXCEPT ![Primary][c].at = "fetching", ![Primary][c].from = o.from,
                                          ![Primary][c].build = o.build, ![Primary][c].promise = o.promise],
               UNCHANGED <<run, applying, leaving, forcedOut, Files, World>>
        PROVE  CInv'
    <3> DEFINE u == [upgrade[Primary][c] EXCEPT !.at = "fetching", !.from = o.from, !.build = o.build, !.promise = o.promise]
    <3>1. upgrade[Primary][c] \in Upgrades /\ upgrade[Primary][c].forced \in BOOLEAN
      BY <1>0 DEF TypeOK, Upgrades
    <3>2. upgrade' = [upgrade EXCEPT ![Primary][c] = u]
      BY <1>0, <2>2 DEF TypeOK, Upgrades
    <3>3. upgrade'[Primary][c] = u
      BY <1>0, <3>2, HereIs
    <3>4. u.at = "fetching" /\ u.build = o.build /\ u.promise = o.promise
      BY <3>1 DEF Upgrades
    <3>5. o.build = release /\ o.promise = release
      <4>1. o \in GithubOffer(Primary)
        BY <1>0, <3>1, OfferTypes DEF PrimaryOffer
      <4> QED
        BY <4>1 DEF GithubOffer
    <3>6. InOrder(c)'
      <4>1. disk[Primary].build <= release /\ release <= release
        BY <1>01 DEF CInv
      <4>2. UNCHANGED <<release, disk>>
        BY <2>2 DEF Files, World
      <4> QED
        BY <1>01, <3>3, <3>4, <3>5, <4>1, <4>2 DEF InOrder
    <3>7. NeverGone'
      <4>1. \A k \in Callers : upgrade[Primary][k].at # "moving"
        BY <2>0, OnlyOne
      <4> QED
        BY <2>2, <4>1 DEF NeverGone, CInv, Files, World
    <3> QED
      BY <2>0, <2>2, <3>2, <3>6, <3>7, StepKeeps DEF CInv, Files, World
  <2> QED
    BY <1>2, <2>1, <2>2 DEF Resolve
<1>3. ASSUME NEW c \in Callers, Fetch(Primary, c) \/ WriteEnds(Primary, c) PROVE CInv'
  <2>1. CASE Abandon(Primary, c)
    BY <1>3, <2>1, AbandonKeepsConsole DEF Fetch, WriteEnds
  <2>2. CASE ~Abandon(Primary, c)
    <3>1. PICK where \in {"staging", "staged"} : At(Primary, c, where)
      BY <1>3, <2>2 DEF Fetch, WriteEnds
    <3>2. /\ upgrade[Primary][c].at \in {"fetching", "staging"}
          /\ UNCHANGED <<disk, console, lost, leaving, World>>
      BY <1>3, <2>2 DEF Fetch, WriteEnds
    <3> DEFINE u == [upgrade[Primary][c] EXCEPT !.at = where]
    <3>3. upgrade' = [upgrade EXCEPT ![Primary][c] = u] /\ upgrade[Primary][c] \in Upgrades
      BY <1>0, <3>1 DEF At, TypeOK
    <3>4. upgrade'[Primary][c] = u
      BY <1>0, <3>3, HereIs
    <3>5. u.at = where /\ u.build = upgrade[Primary][c].build /\ u.promise = upgrade[Primary][c].promise
      BY <3>3 DEF Upgrades
    <3>6. InOrder(c)'
      BY <3>2, <3>4, <3>5 DEF InOrder, CInv, World
    <3>7. NeverGone'
      <4>1. \A k \in Callers : upgrade[Primary][k].at # "moving"
        BY <3>2, OnlyOne
      <4> QED
        BY <3>2, <4>1 DEF NeverGone, CInv, World
    <3> QED
      BY <3>2, <3>3, <3>6, <3>7, StepKeeps DEF CInv, World
  <2> QED
    BY <2>1, <2>2
<1>4. ASSUME NEW c \in Callers, Swap(Primary, c) PROVE CInv'
  <2>0. upgrade[Primary][c].at = "staged"
    BY <1>4 DEF Swap
  <2>1. CASE Abandon(Primary, c)
    BY <2>0, <2>1, AbandonKeepsConsole
  <2>2. CASE ~Abandon(Primary, c)
    <3> DEFINE u == [upgrade[Primary][c] EXCEPT !.at = IF Primary = Primary /\ upgrade[Primary][c].from = "github" THEN "console" ELSE "swapped"]
    <3>1. upgrade' = [upgrade EXCEPT ![Primary][c] = u] /\ upgrade[Primary][c] \in Upgrades
      BY <1>0, <1>4, <2>2 DEF Swap, At, TypeOK
    <3>2. /\ staging[Primary] # NoFile
          /\ disk' = [disk EXCEPT ![Primary] = staging[Primary]]
          /\ UNCHANGED <<console, lost, leaving, World>>
      BY <1>4, <2>2 DEF Swap
    <3>3. upgrade'[Primary][c] = u
      BY <1>0, <3>1, HereIs
    <3>4. u.at \in {"console", "swapped"} /\ u.build = upgrade[Primary][c].build
      BY <3>1 DEF Upgrades
    <3>5. disk'[Primary].build = upgrade[Primary][c].promise
      BY <1>0, <2>0, <3>2 DEF IInv, AllFine, Fine, TypeOK
    <3>6. /\ upgrade[Primary][c].promise \in Builds /\ upgrade[Primary][c].build = upgrade[Primary][c].promise
          /\ disk[Primary].build <= upgrade[Primary][c].promise /\ upgrade[Primary][c].promise <= release
      BY <2>0 DEF CInv, InOrder
    <3>7. InOrder(c)'
      BY <3>3, <3>4, <3>5, <3>6 DEF InOrder
    <3>8. NeverGone'
      <4>1. \A k \in Callers : upgrade[Primary][k].at # "moving"
        BY <2>0, OnlyOne
      <4> QED
        BY <3>2, <4>1 DEF NeverGone, CInv, World
    <3>9. console' # None => console' <= disk'[Primary].build
      BY <1>0, <3>2, <3>5, <3>6, BuildsAreNumbers DEF CInv, TypeOK
    <3> QED
      BY <2>0, <3>1, <3>2, <3>5, <3>6, <3>7, <3>8, <3>9, StepKeeps DEF World
  <2> QED
    BY <2>1, <2>2
<1>5. ASSUME NEW c \in Callers, MoveAside(Primary, c) PROVE CInv'
  <2>1. PICK where \in {"moving", "swapped"} :
            /\ At(Primary, c, where)
            /\ where = "moving" => console' = None
            /\ where = "swapped" => console' = console
    BY <1>5 DEF MoveAside
  <2>2. upgrade[Primary][c].at = "console" /\ UNCHANGED <<disk, lost, leaving, release, overlaps>>
    BY <1>5 DEF MoveAside
  <2> DEFINE u == [upgrade[Primary][c] EXCEPT !.at = where]
  <2>3. upgrade' = [upgrade EXCEPT ![Primary][c] = u] /\ upgrade[Primary][c] \in Upgrades
    BY <1>0, <2>1 DEF At, TypeOK
  <2>4. upgrade'[Primary][c] = u
    BY <1>0, <2>3, HereIs
  <2>5. u.at = where /\ u.build = upgrade[Primary][c].build
    BY <2>3 DEF Upgrades
  <2>6. InOrder(c)'
    BY <2>2, <2>4, <2>5 DEF InOrder, CInv
  <2>7. NeverGone'
    <3>1. \A k \in Callers : upgrade[Primary][k].at # "moving"
      BY <2>2, OnlyOne
    <3> QED
      BY <2>1, <2>2, <2>4, <2>5, <3>1 DEF CInv, NeverGone
  <2> QED
    BY <2>1, <2>2, <2>3, <2>6, <2>7, StepKeeps DEF CInv
<1>6. ASSUME NEW c \in Callers, MoveIn(Primary, c) PROVE CInv'
  <2>1. /\ upgrade[Primary][c].at = "moving"
        /\ console' = upgrade[Primary][c].build \/ (console' = console /\ lost' = TRUE)
        /\ At(Primary, c, "swapped") /\ UNCHANGED <<disk, leaving, release, overlaps>>
    BY <1>6 DEF MoveIn
  <2> DEFINE u == [upgrade[Primary][c] EXCEPT !.at = "swapped"]
  <2>2. upgrade' = [upgrade EXCEPT ![Primary][c] = u] /\ upgrade[Primary][c] \in Upgrades
    BY <1>0, <2>1 DEF At, TypeOK
  <2>3. upgrade'[Primary][c] = u
    BY <1>0, <2>2, HereIs
  <2>4. u.at = "swapped"
    BY <2>2 DEF Upgrades
  <2>5. upgrade[Primary][c].build = disk[Primary].build /\ disk[Primary].build \in Nat
    BY <2>1, BuildsAreNumbers DEF CInv, InOrder
  <2>6. disk[Primary].build # None
    BY BuildsAreNumbers DEF CInv
  <2>7. InOrder(c)' /\ NeverGone'
    BY <2>1, <2>3, <2>4, <2>5, <2>6 DEF InOrder, NeverGone
  <2>8. /\ disk'[Primary].build \in Builds /\ disk'[Primary].build <= release'
        /\ console' # None => console' <= disk'[Primary].build
    BY <2>1, <2>5 DEF CInv
  <2> QED
    BY <2>1, <2>2, <2>7, <2>8, StepKeeps
<1>7. ASSUME NEW c \in Callers, Done(Primary, c) \/ Fails(Primary, c) PROVE CInv'
  <2>1. /\ upgrade[Primary][c].at \notin {"idle", "moving"}
        /\ upgrade' = [upgrade EXCEPT ![Primary][c] = Idle]
        /\ UNCHANGED <<disk, console, lost, release, overlaps>>
    BY <1>0, <1>7 DEF Done, Fails, Files, World, TypeOK
  <2>2. upgrade'[Primary][c] = Idle /\ Idle.at = "idle"
    BY <1>0, <2>1, HereIs DEF Idle
  <2>3. InOrder(c)'
    BY <2>2 DEF InOrder
  <2>4. NeverGone'
    <3>1. \A k \in Callers : upgrade[Primary][k].at # "moving"
      BY <2>1, OnlyOne
    <3> QED
      BY <2>1, <3>1 DEF NeverGone, CInv
  <2> QED
    BY <2>1, <2>2, <2>3, <2>4, StepKeeps DEF CInv
<1>8. ASSUME NEW d \in Daemons, NEW c \in Callers, NEW force \in BOOLEAN, Begin(d, c, force),
             UNCHANGED <<release, overlaps>>
      PROVE  CInv'
  <2>1. /\ applying[d] = None /\ ("gap" \in overlaps \/ ~leaving[d])
        /\ upgrade' = [upgrade EXCEPT ![d][c] = [Idle EXCEPT !.at = "resolving", !.forced = force]]
        /\ UNCHANGED <<leaving, disk, console, lost>>
    BY <1>8 DEF Begin, Files
  <2>2. CASE d # Primary
    <3>1. upgrade'[Primary] = upgrade[Primary]
      BY <1>0, <2>1, <2>2 DEF TypeOK
    <3> QED
      BY <1>8, <1>01, <2>1, <3>1, ElsewhereKeeps
  <2>3. CASE d = Primary
    <3>1. \A k \in Callers : upgrade[Primary][k].at = "idle"
      BY <1>0, <2>1, <2>3, ConstantsAssumption DEF IInv, AllFine, Fine
    <3>2. \A k \in Callers : upgrade'[Primary][k].at \in {"idle", "resolving"}
      BY <1>0, <2>1, <2>3, <3>1 DEF TypeOK, Idle
    <3>3. \A k \in Callers : InOrder(k)'
      BY <3>2 DEF InOrder
    <3>4. NeverGone' /\ LeavesAtRest'
      BY <1>8, <2>1, <2>3, <3>1 DEF CInv, NeverGone, LeavesAtRest
    <3> QED
      BY <1>8, <2>1, <3>3, <3>4 DEF CInv
  <2> QED
    BY <2>2, <2>3
<1>9. ASSUME NEW d \in Daemons, Ends(d), lost => lost',
             leaving[d] \/ ((\E c \in Callers : upgrade[d][c].at = "moving") => lost')
      PROVE  CInv'
  <2>1. UNCHANGED <<disk, console, release, overlaps>>
    BY <1>9 DEF Ends
  <2>2. CASE d # Primary
    <3>1. upgrade'[Primary] = upgrade[Primary] /\ leaving'[Primary] = leaving[Primary]
      BY <1>0, <1>9, <2>2 DEF Ends, TypeOK
    <3> QED
      BY <1>9, <1>01, <2>1, <3>1, ElsewhereKeeps
  <2>3. CASE d = Primary
    <3>1. ~leaving'[Primary] /\ \A k \in Callers : upgrade'[Primary][k].at = "idle"
      BY <1>0, <1>9, <2>3 DEF Ends, TypeOK, Idle
    <3>2. \A k \in Callers : InOrder(k)'
      BY <3>1 DEF InOrder
    <3>3. NeverGone'
      BY <1>9, <2>1, <2>3 DEF CInv, NeverGone, LeavesAtRest
    <3> QED
      BY <2>1, <3>1, <3>2, <3>3 DEF CInv, LeavesAtRest
  <2> QED
    BY <2>2, <2>3
<1>10. ASSUME UNCHANGED <<upgrade, disk, console, lost, leaving, overlaps>>, release' \in Builds, release <= release'
       PROVE  CInv'
  BY <1>10, <1>01, ElsewhereKeeps
<1>11. ASSUME NEW d \in Daemons, Watch(d) \/ Operator(d) PROVE CInv'
  BY <1>8, <1>11, CallersAre DEF Watch, Operator, World
<1>12. ASSUME NEW f \in Followers, Rescue(f) PROVE CInv'
  <2>1. CASE Begin(f, "rescue", FALSE)
    BY <1>8, <1>12, <2>1, CallersAre DEF Rescue
  <2>2. CASE UNCHANGED <<run, upgrade, applying, leaving, forcedOut, Files>>
    <3>1. UNCHANGED <<upgrade, disk, console, lost, leaving, overlaps, release>>
      BY <1>12, <2>2 DEF Rescue, Files
    <3> QED
      BY <1>01, <1>10, <3>1
  <2> QED
    BY <1>12, <2>1, <2>2 DEF Rescue
<1>13. ASSUME NEW d \in Daemons, Exit(d) \/ Killed(d) PROVE CInv'
  <2>1. CASE Exit(d)
    BY <1>9, <2>1 DEF Exit
  <2>2. CASE Killed(d)
    BY <1>9, <2>2 DEF Killed
  <2> QED
    BY <1>13, <2>1, <2>2
<1>14. ASSUME NEW d \in Daemons, ServiceStarts(d) \/ JobStarts(d) \/ JobSettles(d) PROVE CInv'
  BY <1>01, <1>10, <1>14 DEF ServiceStarts, JobStarts, JobSettles, Files, World
<1>15. CASE Publish \/ UNCHANGED vars
  BY <1>01, <1>10, <1>15 DEF Publish, Files, vars
<1>16. ASSUME NEW f \in Followers, Register(f) \/ LinkBreaks(f) PROVE CInv'
  BY <1>01, <1>10, <1>16 DEF Register, LinkBreaks, Files
<1> QED
  BY <1>1, <1>2, <1>3, <1>4, <1>5, <1>6, <1>7, <1>11, <1>12, <1>13, <1>14, <1>15, <1>16 DEF Next, Pipeline

(* runUpgrade: the console is never newer than the binary it is served by;  *)
(* it is gone only between its two renames, or since an installation whose  *)
(* second rename failed or was not reached alive.                           *)
THEOREM ConsoleAlwaysServed == Spec => []ConsoleServed
<1>1. CInv => ConsoleServed
  BY DEF CInv, NeverGone, ConsoleServed
<1> QED
  BY <1>1, InitCInv, NextCInv, AlwaysIInv, PTL DEF Spec

-----------------------------------------------------------------------------
(* The scheduler *)

Apart == ~Overlap /\ ~Careless

(* An edit under way is one of the four, on a schedule; a run is of one. *)
EditMade == edit = NoEdit \/ (edit.do \in {"enable", "disable", "delete", "run"} /\ edit.s \in Schedules)
ExecutesOne == pc = "execute" => cursor <= Count

(* Whoever edits or runs a pass has the store to itself. *)
OneHolder ==
    /\ edit # NoEdit => pc = "idle" /\ draft = store
    /\ pc # "idle" => edit = NoEdit
    /\ pc = "idle" => copy = Blank

(* Rows that are armed have a run left, none has had too many, and one that *)
(* is yet to be created has had none.                                       *)
WithinLimit(rows) ==
    \A s \in Schedules :
        /\ Limit(s) # 0 => rows[s].runs <= Limit(s)
        /\ Limit(s) # 0 /\ rows[s].nextRun # Never => rows[s].runs < Limit(s)
        /\ rows[s].state = "new" => rows[s].runs = 0

(* No row that names a deleted instance is enabled, or about to be. *)
Unnamed(rows) == gone => \A s \in Naming : rows[s].state # "enabled"
NamesNone == ~(gone /\ edit.do = "enable" /\ edit.s \in Naming)

(* What the pass has come past it has counted once at most; the rest of its *)
(* copy is the store, and what it executes was due.                         *)
PassCounts ==
    pc # "idle" =>
        /\ \A s \in Schedules : s >= cursor => copy[s] = store[s]
        /\ \A s \in Schedules : s < cursor => copy[s].runs \in {store[s].runs, store[s].runs + 1}
        /\ pc = "execute" => copy[cursor].nextRun # Never /\ copy[cursor].state = "enabled"

(* The runs of s that are counted, or will be unless the pass is killed. *)
Counted(s) ==
    IF pc = "idle" THEN store[s].runs
    ELSE IF pc = "execute" /\ s = cursor THEN copy[s].runs + 1 ELSE copy[s].runs

(* A kill forgets one run of a schedule at most. *)
CountsHold ==
    \A s \in Schedules : Counted(s) <= fired[s] + missed[s] /\ fired[s] + missed[s] <= Counted(s) + crashes

PassTypes == SchedulerTypeOK /\ EditMade /\ ExecutesOne

PassKept ==
    /\ OneHolder
    /\ WithinLimit(store) /\ WithinLimit(copy)
    /\ Unnamed(store) /\ Unnamed(copy) /\ NamesNone
    /\ PassCounts
    /\ CountsHold

-----------------------------------------------------------------------------
(* The trigger and the limit *)

LEMMA TriggerTypes ==
    ASSUME NEW s \in Schedules
    PROVE  /\ Trigger[s].kind \in Kinds /\ Trigger[s].n \in Nat /\ Trigger[s].n > 0
           /\ MaxRuns[s] \in Nat /\ Limit(s) \in Nat
BY SchedulerConstants DEF Limit, Kinds

LEMMA SchedulerBounds == Count \in Nat /\ MaxTime \in Nat /\ MaxCrashes \in Nat
BY SchedulerConstants

LEMMA NextCron ==
    ASSUME NEW from \in Nat, NEW n \in Nat, n > 0
    PROVE  (from \div n + 1) * n \in Nat
<1>1. from \div n \in Nat
  BY SMT
<1>2. \A a, b \in Nat : a * b \in Nat
  BY SMT
<1> QED
  BY <1>1, <1>2

(* computeNextRun gives a time, or none; and none to who has used up the    *)
(* runs, a one-time schedule after its only one.                            *)
LEMMA NextRunType ==
    ASSUME NEW s \in Schedules, NEW runs \in Nat, NEW from \in Nat
    PROVE  ComputeNextRun(s, runs, from) \in Nat
<1> DEFINE n == Trigger[s].n
<1>1. n \in Nat /\ n > 0 /\ Trigger[s].kind \in {"at", "cron", "rate"}
  BY TriggerTypes DEF Kinds
<1>2. (from \div n + 1) * n \in Nat
  BY <1>1, NextCron
<1> HIDE DEF n
<1>3. NextFiring(s, runs, from) =
        IF Trigger[s].kind = "at" THEN (IF runs > 0 \/ n <= from THEN Never ELSE n)
        ELSE IF Trigger[s].kind = "cron" THEN (from \div n + 1) * n ELSE from + n
  BY <1>1, Zenon DEF NextFiring, n
<1>4. NextFiring(s, runs, from) \in Nat
  BY <1>1, <1>2, <1>3 DEF Never
<1> QED
  BY <1>4 DEF ComputeNextRun, Never

LEMMA NextRunSpares ==
    ASSUME NEW s \in Schedules, NEW runs \in Nat, NEW from \in Nat, Limit(s) # 0,
           ComputeNextRun(s, runs, from) # Never
    PROVE  runs < Limit(s)
<1>1. CASE Trigger[s].kind = "at"
  BY <1>1 DEF ComputeNextRun, NextFiring, Limit
<1>2. CASE Trigger[s].kind # "at"
  BY <1>2, TriggerTypes DEF ComputeNextRun, Limit
<1> QED
  BY <1>1, <1>2

LEMMA BlankType == Blank \in Stores
BY DEF Blank, Stores, Rows, Row, Never

LEMMA RowType ==
    ASSUME NEW state \in {"new", "enabled", "disabled", "deleted"}, NEW runs \in Nat, NEW nextRun \in Nat
    PROVE  Row(state, runs, nextRun) \in Rows
BY DEF Row, Rows

LEMMA StoreWith ==
    ASSUME NEW rows \in Stores, NEW s \in Schedules, NEW row \in Rows
    PROVE  [rows EXCEPT ![s] = row] \in Stores
BY DEF Stores

-----------------------------------------------------------------------------
(* Types *)

LEMMA SettleType ==
    ASSUME PassTypes, cursor \in Schedules, NEW runs \in Nat, Settle(cursor, runs)
    PROVE  copy' \in Stores /\ cursor' \in 1..(Count + 1)
<1> DEFINE nextRun == ComputeNextRun(cursor, runs, now)
<1>1. nextRun \in Nat
  BY NextRunType DEF PassTypes, SchedulerTypeOK
<1>2. Row(IF nextRun = Never THEN "disabled" ELSE "enabled", runs, nextRun) \in Rows
  BY <1>1, RowType
<1>3. copy' \in Stores
  BY <1>2, StoreWith DEF Settle, PassTypes, SchedulerTypeOK
<1>4. cursor' = cursor + 1 /\ Count \in Nat
  BY SchedulerConstants DEF Settle
<1> QED
  BY <1>3, <1>4 DEF Schedules

LEMMA EditedType ==
    ASSUME PassTypes, NEW row \in Rows, edit # NoEdit
    PROVE  Edited(row, edit.do, edit.s) \in Rows
<1>1. edit.do \in {"enable", "disable", "delete", "run"} /\ edit.s \in Schedules
  BY DEF PassTypes, EditMade
<1>2. row.runs \in Nat /\ row.nextRun \in Nat /\ clock \in Nat
  BY DEF Rows, PassTypes, SchedulerTypeOK
<1>3. CASE edit.do = "run"
  BY <1>3 DEF Edited
<1>4. CASE edit.do = "delete"
  BY <1>2, <1>4, RowType DEF Edited, Never
<1>5. CASE edit.do = "disable"
  BY <1>2, <1>5, RowType DEF Edited
<1>6. CASE edit.do = "enable"
  <2> DEFINE nextRun == ComputeNextRun(edit.s, row.runs, clock)
  <2>1. nextRun \in Nat
    BY <1>1, <1>2, NextRunType
  <2>2. Edited(row, edit.do, edit.s) = Row(IF nextRun = Never THEN "disabled" ELSE "enabled", row.runs, nextRun)
    BY <1>6 DEF Edited
  <2> QED
    BY <1>2, <2>1, <2>2, RowType
<1> QED
  BY <1>1, <1>3, <1>4, <1>5, <1>6

LEMMA RunStepType == ASSUME PassTypes, RunStep PROVE PassTypes'
<1>1. cursor \in Schedules /\ Count \in Nat
  BY SchedulerConstants DEF RunStep, Schedules, PassTypes, SchedulerTypeOK
<1>2. copy[cursor].runs + 1 \in Nat
  BY <1>1 DEF PassTypes, SchedulerTypeOK, Stores, Rows
<1>3. CASE Skip(cursor)
  BY <1>1, <1>3 DEF RunStep, Skip, PassTypes, SchedulerTypeOK, EditMade, ExecutesOne, operator, Schedules
<1>4. CASE Miss(cursor)
  BY <1>1, <1>2, <1>4, SettleType DEF RunStep, Miss, PassTypes, SchedulerTypeOK, EditMade, ExecutesOne, operator
<1>5. CASE Fire(cursor)
  <2>1. CASE gone /\ cursor \in Naming
    BY <1>1, <1>5, <2>1, BlankType, SchedulerBounds
        DEF RunStep, Fire, Rest, PassTypes, SchedulerTypeOK, EditMade, ExecutesOne, operator
  <2>2. CASE ~(gone /\ cursor \in Naming)
    <3>1. fired' = [fired EXCEPT ![cursor] = fired[cursor] + 1] /\ fired[cursor] \in Nat
      BY <1>1, <1>5, <2>2 DEF Fire, PassTypes, SchedulerTypeOK
    <3>2. fired' \in [Schedules -> Nat]
      BY <1>1, <3>1 DEF PassTypes, SchedulerTypeOK
    <3> QED
      BY <1>1, <1>5, <2>2, <3>2 DEF RunStep, Fire, PassTypes, SchedulerTypeOK, EditMade, ExecutesOne, operator, Schedules
  <2> QED
    BY <2>1, <2>2
<1> QED
  BY <1>3, <1>4, <1>5 DEF RunStep

LEMMA SchedulerInitType == SchedulerInit => PassTypes
<1> SUFFICES ASSUME SchedulerInit PROVE PassTypes
  OBVIOUS
<1>1. edit \in [do : {"none", "enable", "disable", "delete", "run"}, s : 0..Count]
  BY SchedulerBounds DEF SchedulerInit, NoEdit
<1>2. store \in Stores /\ copy \in Stores /\ draft \in Stores
  BY BlankType DEF SchedulerInit
<1>3. /\ clock \in 1..(MaxTime + 1) /\ now \in 0..(MaxTime + 1)
      /\ cursor \in 1..(Count + 1) /\ crashes \in 0..MaxCrashes
  BY SchedulerBounds DEF SchedulerInit
<1>4. fired \in [Schedules -> Nat] /\ missed \in [Schedules -> Nat]
  BY DEF SchedulerInit
<1> QED
  BY <1>1, <1>2, <1>3, <1>4 DEF SchedulerInit, PassTypes, SchedulerTypeOK, EditMade, ExecutesOne

LEMMA SchedulerNextType == PassTypes /\ [SchedulerNext]_schedulerVars => PassTypes'
<1> SUFFICES ASSUME PassTypes, [SchedulerNext]_schedulerVars PROVE PassTypes'
  OBVIOUS
<1> USE DEF PassTypes, SchedulerTypeOK, EditMade, ExecutesOne
<1>1. CASE Tick
  BY <1>1, SchedulerConstants DEF Tick, operator
<1>2. CASE RunStep
  BY <1>2, RunStepType
<1>3. CASE EndExecute
  <2>1. cursor \in Schedules
    BY <1>3 DEF EndExecute, Schedules
  <2>2. copy[cursor].runs + 1 \in Nat
    BY <2>1 DEF Stores, Rows
  <2> QED
    BY <1>3, <2>1, <2>2, SettleType DEF EndExecute, operator
<1>4. CASE SavePass
  BY <1>4, BlankType, SchedulerConstants DEF SavePass, Rest, operator
<1>5. ASSUME NEW s \in Schedules, Create(s) PROVE PassTypes'
  <2> DEFINE nextRun == ComputeNextRun(s, 0, clock)
  <2>1. nextRun \in Nat
    BY NextRunType
  <2>2. PICK state \in {"enabled", "disabled"} : store' = [store EXCEPT ![s] = Row(state, 0, nextRun)]
    BY <1>5 DEF Create
  <2>3. store' \in Stores
    BY <2>1, <2>2, RowType, StoreWith
  <2> QED
    BY <1>5, <2>3 DEF Create, runner, operator
<1>6. ASSUME NEW s \in Schedules, NEW do \in {"enable", "disable", "delete", "run"}, LoadEdit(do, s)
      PROVE  PassTypes'
  BY <1>6, SchedulerConstants DEF LoadEdit, runner, Schedules
<1>7. CASE SaveEdit
  <2>1. draft[edit.s] \in Rows /\ edit.s \in Schedules
    BY <1>7 DEF SaveEdit, Stores
  <2>2. store' \in Stores
    BY <1>7, <2>1, EditedType, StoreWith DEF SaveEdit
  <2> QED
    BY <1>7, <2>2, BlankType, SchedulerConstants DEF SaveEdit, runner, NoEdit
<1>8. CASE DeleteInstance
  BY <1>8 DEF DeleteInstance, runner
<1>9. CASE TimePasses
  BY <1>9, SchedulerConstants DEF TimePasses, runner, operator
<1>10. CASE Crash
  BY <1>10, BlankType, SchedulerConstants DEF Crash, Rest, operator
<1>11. CASE UNCHANGED schedulerVars
  BY <1>11 DEF schedulerVars
<1> QED
  BY <1>1, <1>2, <1>3, <1>4, <1>5, <1>6, <1>7, <1>8, <1>9, <1>10, <1>11 DEF SchedulerNext

-----------------------------------------------------------------------------
(* The counts *)

LEMMA Numbers ==
    ASSUME PassTypes, NEW s \in Schedules
    PROVE  /\ store[s] \in Rows /\ copy[s] \in Rows /\ s \in Nat
           /\ store[s].runs \in Nat /\ copy[s].runs \in Nat
           /\ store[s].nextRun \in Nat /\ copy[s].nextRun \in Nat
           /\ fired[s] \in Nat /\ missed[s] \in Nat /\ crashes \in Nat /\ cursor \in Nat
           /\ Counted(s) \in Nat
<1>1. store[s] \in Rows /\ copy[s] \in Rows /\ s \in Nat /\ cursor \in Nat /\ crashes \in Nat
  BY SchedulerBounds DEF PassTypes, SchedulerTypeOK, Stores, Schedules
<1>2. store[s].runs \in Nat /\ copy[s].runs \in Nat /\ store[s].nextRun \in Nat /\ copy[s].nextRun \in Nat
  BY <1>1 DEF Rows
<1> QED
  BY <1>1, <1>2 DEF PassTypes, SchedulerTypeOK, Counted

LEMMA RowFields ==
    ASSUME NEW state, NEW runs, NEW nextRun
    PROVE  /\ Row(state, runs, nextRun).state = state
           /\ Row(state, runs, nextRun).runs = runs
           /\ Row(state, runs, nextRun).nextRun = nextRun
BY DEF Row

LEMMA BlankKept == WithinLimit(Blank) /\ Unnamed(Blank)
<1>1. \A s \in Schedules : Blank[s].state = "new" /\ Blank[s].runs = 0 /\ Blank[s].nextRun = Never
  BY RowFields DEF Blank
<1>2. Naming \subseteq Schedules
  BY SchedulerConstants
<1> QED
  BY <1>1, <1>2, TriggerTypes DEF WithinLimit, Unnamed

LEMMA BlankDisarmed == \A s \in Naming : Blank[s].state # "enabled"
<1>1. Naming \subseteq Schedules
  BY SchedulerConstants
<1> QED
  BY <1>1, RowFields DEF Blank

(* A row rewritten with the next firing its runs leave it stays in limits. *)
LEMMA RearmKeeps ==
    ASSUME NEW rows \in Stores, WithinLimit(rows), NEW s \in Schedules, NEW state, state # "new",
           NEW runs \in Nat, NEW from \in Nat, Limit(s) # 0 => runs <= Limit(s)
    PROVE  WithinLimit([rows EXCEPT ![s] = Row(state, runs, ComputeNextRun(s, runs, from))])
<1> DEFINE row == Row(state, runs, ComputeNextRun(s, runs, from))
<1>1. row.runs = runs /\ row.nextRun = ComputeNextRun(s, runs, from) /\ row.state # "new"
  BY RowFields
<1>2. Limit(s) # 0 /\ row.nextRun # Never => runs < Limit(s)
  BY <1>1, NextRunSpares
<1> HIDE DEF row
<1>3. \A r \in Schedules : [rows EXCEPT ![s] = row][r] = IF r = s THEN row ELSE rows[r]
  BY DEF Stores
<1> QED
  BY <1>1, <1>2, <1>3 DEF WithinLimit, row

LEMMA TickKept == ASSUME Apart, PassTypes, PassKept, Tick PROVE PassKept'
<1>1. /\ edit = NoEdit /\ pc = "idle" /\ pc' = "run" /\ copy' = store /\ cursor' = 1
      /\ UNCHANGED <<store, gone, edit, draft, crashes, fired, missed>>
  BY DEF Tick, Apart, operator
<1>2. PassCounts'
  BY <1>1 DEF PassCounts, Schedules
<1>3. CountsHold'
  BY <1>1 DEF PassKept, CountsHold, Counted
<1> QED
  BY <1>1, <1>2, <1>3 DEF PassKept, OneHolder, WithinLimit, Unnamed, NamesNone

(* A row that was due and is settled with one more run. *)
LEMMA SettleKept ==
    ASSUME PassTypes, PassKept, pc # "idle", cursor \in Schedules, pc' = "run",
           copy[cursor].nextRun # Never, copy[cursor].state = "enabled",
           Settle(cursor, copy[cursor].runs + 1),
           UNCHANGED <<store, gone, edit, draft, crashes>>,
           \A s \in Schedules : fired'[s] + missed'[s] =
              IF pc = "run" /\ s = cursor THEN fired[s] + missed[s] + 1 ELSE fired[s] + missed[s]
    PROVE  PassKept'
<1> DEFINE runs == copy[cursor].runs + 1
           nextRun == ComputeNextRun(cursor, runs, now)
           state == IF nextRun = Never THEN "disabled" ELSE "enabled"
<1>1. /\ copy' = [copy EXCEPT ![cursor] = Row(state, runs, nextRun)]
      /\ cursor' = cursor + 1 /\ runs \in Nat /\ now \in Nat /\ copy \in Stores
  BY Numbers, SchedulerBounds DEF Settle, PassTypes, SchedulerTypeOK
<1>2. /\ copy'[cursor].runs = runs
      /\ \A s \in Schedules \ {cursor} : copy'[s] = copy[s]
  BY <1>1, RowFields DEF Stores
<1>3. WithinLimit(copy)'
  <2>1. Limit(cursor) # 0 => runs <= Limit(cursor)
    BY Numbers, TriggerTypes DEF PassKept, WithinLimit
  <2> QED
    BY <1>1, <2>1, RearmKeeps DEF PassKept
<1>4. Unnamed(copy)' /\ Unnamed(store)'
  <2>1. gone => cursor \notin Naming
    BY DEF PassKept, Unnamed
  <2>2. Naming \subseteq Schedules
    BY SchedulerConstants
  <2> QED
    BY <1>2, <2>1, <2>2 DEF PassKept, Unnamed
<1>5. PassCounts'
  <2>1. copy[cursor] = store[cursor] /\ cursor >= cursor
    BY Numbers DEF PassKept, PassCounts
  <2>2. \A s \in Schedules : s >= cursor' => s >= cursor /\ s # cursor
    BY <1>1, Numbers
  <2>3. \A s \in Schedules : s < cursor' => s < cursor \/ s = cursor
    BY <1>1, Numbers
  <2> QED
    BY <1>2, <2>1, <2>2, <2>3 DEF PassKept, PassCounts
<1>6. CountsHold'
  <2>1. \A s \in Schedules : Counted(s)' = IF pc = "run" /\ s = cursor THEN Counted(s) + 1 ELSE Counted(s)
    <3>1. \A s \in Schedules : Counted(s)' = copy'[s].runs
      BY DEF Counted
    <3>2. pc \in {"run", "execute"}
      BY DEF PassTypes, SchedulerTypeOK
    <3> QED
      BY <1>2, <3>1, <3>2, Numbers DEF Counted
  <2> QED
    BY <2>1, Numbers DEF PassKept, CountsHold
<1> QED
  BY <1>3, <1>4, <1>5, <1>6 DEF PassKept, OneHolder, WithinLimit, Unnamed, NamesNone

LEMMA SkipKept == ASSUME PassTypes, PassKept, RunStep, Skip(cursor) PROVE PassKept'
<1>1. /\ pc = "run" /\ cursor' = cursor + 1 /\ cursor \in Nat /\ cursor \in Schedules
      /\ UNCHANGED <<store, pc, copy, gone, edit, draft, crashes, fired, missed>>
  BY SchedulerBounds DEF RunStep, Skip, operator, PassTypes, SchedulerTypeOK, Schedules
<1>2. PassCounts'
  <2>1. \A s \in Schedules : s >= cursor + 1 => s >= cursor
    BY <1>1, Numbers
  <2>2. \A s \in Schedules : s < cursor + 1 => s < cursor \/ copy[s] = store[s]
    BY <1>1, Numbers DEF PassKept, PassCounts
  <2> QED
    BY <1>1, <2>1, <2>2 DEF PassKept, PassCounts
<1>3. CountsHold'
  BY <1>1 DEF PassKept, CountsHold, Counted
<1> QED
  BY <1>1, <1>2, <1>3 DEF PassKept, OneHolder, WithinLimit, Unnamed, NamesNone

LEMMA FireKept == ASSUME Apart, PassTypes, PassKept, RunStep, Fire(cursor) PROVE PassKept'
<1>1. /\ pc = "run" /\ cursor \in Schedules /\ DueAt(copy[cursor], now)
      /\ UNCHANGED <<store, gone, edit, draft, crashes, missed>>
  BY SchedulerBounds DEF RunStep, Fire, operator, PassTypes, SchedulerTypeOK, Schedules
<1>2. copy[cursor].nextRun # Never /\ copy[cursor].state = "enabled"
  BY <1>1 DEF DueAt
<1>3. ~(gone /\ cursor \in Naming)
  BY <1>2 DEF PassKept, Unnamed
<1>4. /\ pc' = "execute" /\ UNCHANGED <<copy, cursor>>
      /\ fired' = [fired EXCEPT ![cursor] = fired[cursor] + 1]
  BY <1>3 DEF Fire
<1>5. PassCounts'
  BY <1>1, <1>2, <1>4 DEF PassKept, PassCounts
<1>6. CountsHold'
  <2>1. \A s \in Schedules :
          /\ Counted(s)' = IF s = cursor THEN Counted(s) + 1 ELSE Counted(s)
          /\ fired'[s] = IF s = cursor THEN fired[s] + 1 ELSE fired[s]
    BY <1>1, <1>4 DEF Counted, PassTypes, SchedulerTypeOK
  <2> QED
    BY <1>1, <2>1, Numbers DEF PassKept, CountsHold
<1> QED
  BY <1>1, <1>4, <1>5, <1>6 DEF PassKept, OneHolder, WithinLimit, Unnamed, NamesNone

LEMMA RunStepKept == ASSUME Apart, PassTypes, PassKept, RunStep PROVE PassKept'
<1>1. CASE Miss(cursor)
  <2>1. /\ pc = "run" /\ cursor \in Schedules /\ DueAt(copy[cursor], now)
        /\ UNCHANGED <<store, pc, fired, gone, edit, draft, crashes>>
        /\ missed' = [missed EXCEPT ![cursor] = missed[cursor] + 1]
        /\ Settle(cursor, copy[cursor].runs + 1)
    BY <1>1, SchedulerBounds DEF RunStep, Miss, operator, PassTypes, SchedulerTypeOK, Schedules
  <2>2. \A s \in Schedules : fired'[s] + missed'[s] =
          IF pc = "run" /\ s = cursor THEN fired[s] + missed[s] + 1 ELSE fired[s] + missed[s]
    BY <2>1, Numbers DEF PassTypes, SchedulerTypeOK
  <2> QED
    BY <2>1, <2>2, SettleKept DEF DueAt
<1> QED
  BY <1>1, SkipKept, FireKept DEF RunStep

LEMMA EndExecuteKept == ASSUME PassTypes, PassKept, EndExecute PROVE PassKept'
<1>1. /\ pc = "execute" /\ cursor \in Schedules
      /\ UNCHANGED <<store, gone, edit, draft, crashes, fired, missed>>
  BY SchedulerBounds DEF EndExecute, operator, PassTypes, SchedulerTypeOK, ExecutesOne, Schedules
<1> QED
  BY <1>1, SettleKept DEF EndExecute, PassKept, PassCounts

(* The pass is written, or it is killed. *)
LEMMA PassEnds ==
    ASSUME PassTypes, PassKept, Rest, pc # "idle", store' \in {store, copy}, UNCHANGED <<gone, edit, draft>>,
           UNCHANGED <<fired, missed>>,
           \/ pc = "run" /\ cursor > Count /\ store' = copy /\ crashes' = crashes
           \/ store' = store /\ crashes' = crashes + 1
    PROVE  PassKept'
<1>1. pc' = "idle" /\ copy' = Blank /\ edit = NoEdit
  BY DEF Rest, PassKept, OneHolder
<1>2. CountsHold'
  <2>1. \A s \in Schedules : Counted(s)' = store'[s].runs
    BY <1>1 DEF Counted
  <2>2. CASE pc = "run" /\ store' = copy /\ crashes' = crashes
    BY <2>1, <2>2, Numbers DEF PassKept, CountsHold, Counted
  <2>3. CASE store' = store /\ crashes' = crashes + 1
    <3>1. \A s \in Schedules : store[s].runs <= Counted(s) /\ Counted(s) <= store[s].runs + 1
      <4> SUFFICES ASSUME NEW s \in Schedules
                   PROVE  store[s].runs <= Counted(s) /\ Counted(s) <= store[s].runs + 1
        OBVIOUS
      <4>1. CASE s >= cursor
        BY <4>1, Numbers DEF PassKept, PassCounts, Counted
      <4>2. CASE s < cursor
        BY <4>2, Numbers DEF PassKept, PassCounts, Counted
      <4> QED
        BY <4>1, <4>2, Numbers
    <3> QED
      BY <2>1, <2>3, <3>1, Numbers DEF PassKept, CountsHold
  <2> QED
    BY <2>2, <2>3
<1>3. WithinLimit(store)' /\ WithinLimit(copy)' /\ Unnamed(store)'
  BY <1>1, BlankKept DEF PassKept, WithinLimit, Unnamed
<1>4. Unnamed(copy)'
  BY <1>1, BlankKept, SchedulerConstants, RowFields DEF Unnamed, Blank
<1> QED
  BY <1>1, <1>2, <1>3, <1>4 DEF PassKept, OneHolder, PassCounts, NamesNone, Rest

(* Steps between passes that rewrite one row, counting nothing. *)
LEMMA RowChanged ==
    ASSUME PassTypes, PassKept, pc = "idle", pc' = "idle", NEW s \in Schedules, NEW row \in Rows,
           store' = [store EXCEPT ![s] = row], row.runs = store[s].runs,
           WithinLimit(store'), gone /\ s \in Naming => row.state # "enabled",
           edit' = NoEdit, UNCHANGED <<copy, gone, crashes, fired, missed>>
    PROVE  PassKept'
<1>1. store'[s] = row /\ \A r \in Schedules \ {s} : store'[r] = store[r]
  BY DEF PassTypes, SchedulerTypeOK, Stores
<1>2. Naming \subseteq Schedules
  BY SchedulerConstants
<1>3. Unnamed(store)'
  BY <1>1, <1>2 DEF PassKept, Unnamed
<1>4. CountsHold'
  BY <1>1 DEF PassKept, CountsHold, Counted
<1> QED
  BY <1>3, <1>4 DEF PassKept, OneHolder, PassCounts, WithinLimit, Unnamed, NamesNone, NoEdit

LEMMA CreateKept == ASSUME Apart, PassTypes, PassKept, NEW s \in Schedules, Create(s) PROVE PassKept'
<1> DEFINE nextRun == ComputeNextRun(s, 0, clock)
<1>1. PICK state \in {"enabled", "disabled"} : store' = [store EXCEPT ![s] = Row(state, 0, nextRun)]
  BY DEF Create
<1>2. clock \in Nat /\ nextRun \in Nat /\ Row(state, 0, nextRun) \in Rows
  <2>1. clock \in Nat
    BY SchedulerBounds DEF PassTypes, SchedulerTypeOK
  <2> QED
    BY <2>1, NextRunType, RowType
<1>3. WithinLimit(store')
  <2>1. store \in Stores /\ WithinLimit(store) /\ (Limit(s) # 0 => 0 <= Limit(s))
    BY TriggerTypes DEF PassKept, PassTypes, SchedulerTypeOK
  <2>2. 0 \in Nat /\ state # "new"
    BY <1>1
  <2> QED
    BY <1>1, <1>2, <2>1, <2>2, RearmKeeps
<1>4. store[s].runs = 0
  BY DEF Create, PassKept, WithinLimit
<1>5. /\ pc = "idle" /\ pc' = "idle" /\ edit' = NoEdit /\ ~(gone /\ s \in Naming)
      /\ UNCHANGED <<copy, gone, crashes, fired, missed>>
  BY DEF Create, MayEdit, Apart, runner, operator
<1>6. Row(state, 0, nextRun).runs = store[s].runs
  BY <1>4, RowFields
<1> HIDE DEF nextRun
<1> QED
  BY <1>1, <1>2, <1>3, <1>5, <1>6, RowChanged

LEMMA SaveEditKept == ASSUME Apart, PassTypes, PassKept, SaveEdit PROVE PassKept'
<1> DEFINE s == edit.s
           row == Edited(store[s], edit.do, s)
<1>1. /\ edit # NoEdit /\ edit' = NoEdit /\ draft = store /\ pc = "idle" /\ pc' = "idle"
      /\ s \in Schedules /\ edit.do \in {"enable", "disable", "delete", "run"}
      /\ UNCHANGED <<copy, gone, crashes, fired, missed>>
  BY DEF SaveEdit, PassKept, OneHolder, PassTypes, EditMade, runner
<1>2. store' = [store EXCEPT ![s] = row] /\ row \in Rows
  BY <1>1, Numbers, EditedType DEF SaveEdit
<1>3. clock \in Nat /\ store \in Stores /\ WithinLimit(store)
  BY SchedulerBounds DEF PassTypes, SchedulerTypeOK, PassKept
<1>4. row.runs = store[s].runs /\ WithinLimit(store') /\ (gone /\ s \in Naming => row.state # "enabled")
  <2>1. CASE edit.do = "run"
    <3>1. row = store[s]
      BY <2>1 DEF Edited
    <3>2. store' = store
      BY <1>2, <1>3, <3>1 DEF Stores
    <3> QED
      BY <1>1, <1>3, <3>1, <3>2 DEF PassKept, Unnamed
  <2>2. CASE edit.do = "delete" \/ edit.do = "disable"
    <3>1. /\ row.runs = store[s].runs /\ row.state \in {"deleted", "disabled"}
          /\ row.nextRun \in {Never, store[s].nextRun}
      BY <2>2, RowFields DEF Edited
    <3>2. \A r \in Schedules : store'[r] = IF r = s THEN row ELSE store[r]
      BY <1>2, <1>3 DEF Stores
    <3> HIDE DEF row
    <3> QED
      BY <1>1, <1>3, <3>1, <3>2 DEF WithinLimit
  <2>3. CASE edit.do = "enable"
    <3> DEFINE runs == store[s].runs
               nextRun == ComputeNextRun(s, runs, clock)
               state == IF nextRun = Never THEN "disabled" ELSE "enabled"
    <3>1. row = Row(state, runs, nextRun)
      BY <2>3 DEF Edited
    <3>2. runs \in Nat /\ (Limit(s) # 0 => runs <= Limit(s))
      BY <1>1, <1>3, Numbers DEF WithinLimit
    <3>3. WithinLimit([store EXCEPT ![s] = Row(state, runs, nextRun)])
      <4>1. state # "new"
        OBVIOUS
      <4> QED
        BY <1>1, <1>3, <3>2, <4>1, RearmKeeps
    <3>4. ~(gone /\ s \in Naming)
      BY <1>1, <2>3 DEF PassKept, NamesNone
    <3> QED
      BY <1>2, <3>1, <3>3, <3>4, RowFields
  <2> QED
    BY <1>1, <2>1, <2>2, <2>3
<1> HIDE DEF row, s
<1> QED
  BY <1>1, <1>2, <1>4, RowChanged

LEMMA EditKept ==
    ASSUME Apart, PassTypes, PassKept,
           \/ \E s \in Schedules : \E do \in {"enable", "disable", "delete", "run"} : LoadEdit(do, s)
           \/ DeleteInstance
           \/ TimePasses
    PROVE  PassKept'
<1>1. UNCHANGED <<store, pc, copy, cursor, fired, missed, crashes>>
  BY DEF LoadEdit, DeleteInstance, TimePasses, runner
<1>2. PassCounts' /\ CountsHold' /\ WithinLimit(store)' /\ WithinLimit(copy)'
  BY <1>1 DEF PassKept, PassCounts, CountsHold, Counted, WithinLimit
<1>3. ASSUME NEW s \in Schedules, NEW do \in {"enable", "disable", "delete", "run"}, LoadEdit(do, s)
      PROVE  OneHolder' /\ Unnamed(store)' /\ Unnamed(copy)' /\ NamesNone'
  <2>1. pc = "idle" /\ draft' = store /\ gone' = gone /\ edit' = [do |-> do, s |-> s]
        /\ (gone /\ s \in Naming => do # "enable")
    BY <1>3 DEF LoadEdit, MayEdit, Apart
  <2> QED
    BY <1>1, <2>1 DEF PassKept, OneHolder, Unnamed, NamesNone
<1>4. CASE DeleteInstance
  <2>1. /\ pc = "idle" /\ edit = NoEdit /\ UNCHANGED <<edit, draft>>
        /\ \A s \in Naming : store[s].state # "enabled"
    BY <1>4 DEF DeleteInstance, Apart
  <2>2. copy = Blank
    BY <2>1 DEF PassKept, OneHolder
  <2>3. Unnamed(copy)'
    BY <1>1, <2>2, BlankDisarmed DEF Unnamed
  <2> QED
    BY <1>1, <1>2, <2>1, <2>3 DEF PassKept, OneHolder, Unnamed, NamesNone, NoEdit
<1>5. CASE TimePasses
  BY <1>1, <1>2, <1>5 DEF TimePasses, operator, PassKept, OneHolder, Unnamed, NamesNone
<1> QED
  BY <1>2, <1>3, <1>4, <1>5 DEF PassKept

LEMMA PassNext == ASSUME Apart, PassTypes, PassKept, [SchedulerNext]_schedulerVars PROVE PassKept'
<1>1. CASE SavePass
  <2>1. UNCHANGED <<gone, edit, draft, fired, missed>> /\ pc = "run" /\ cursor > Count
        /\ store' = copy /\ crashes' = crashes /\ Rest
    BY <1>1 DEF SavePass, operator
  <2> QED
    BY <2>1, PassEnds
<1>2. CASE Crash
  <2>1. UNCHANGED <<gone, edit, draft, fired, missed>> /\ pc # "idle"
        /\ store' = store /\ crashes' = crashes + 1 /\ Rest
    BY <1>2 DEF Crash, operator
  <2> QED
    BY <2>1, PassEnds
<1>3. CASE UNCHANGED schedulerVars
  BY <1>3 DEF schedulerVars, PassKept, OneHolder, WithinLimit, Unnamed, NamesNone, PassCounts, CountsHold, Counted
<1> QED
  BY <1>1, <1>2, <1>3, TickKept, RunStepKept, EndExecuteKept, CreateKept, SaveEditKept, EditKept DEF SchedulerNext

-----------------------------------------------------------------------------
(* The theorems *)

(* Every reachable state is well typed: whatever edits, passes, kills and   *)
(* deletions overlap, a row's next firing is a time or none.                *)
THEOREM SchedulerTypeCorrect == SchedulerSpec => []SchedulerTypeOK
<1>1. PassTypes => SchedulerTypeOK
  BY DEF PassTypes
<1> QED
  BY <1>1, SchedulerInitType, SchedulerNextType, PTL DEF SchedulerSpec

LEMMA PassInit == SchedulerInit => PassKept
<1> SUFFICES ASSUME SchedulerInit PROVE PassKept
  OBVIOUS
<1>1. store = Blank /\ copy = Blank /\ pc = "idle" /\ edit = NoEdit /\ gone = FALSE /\ crashes = 0
  BY DEF SchedulerInit
<1>2. CountsHold
  <2>1. \A s \in Schedules : Counted(s) = 0 /\ fired[s] = 0 /\ missed[s] = 0
    BY <1>1, RowFields DEF SchedulerInit, Counted, Blank
  <2> QED
    BY <1>1, <2>1 DEF CountsHold
<1> QED
  BY <1>1, <1>2, BlankKept DEF PassKept, OneHolder, PassCounts, NamesNone

LEMMA PassInductive == Apart => (SchedulerSpec => [](PassTypes /\ PassKept))
<1>1. Apart /\ PassTypes /\ PassKept /\ [SchedulerNext]_schedulerVars => (PassTypes /\ PassKept)'
  BY SchedulerNextType, PassNext
<1>2. Apart => (SchedulerSpec => [](PassTypes /\ PassKept))
  <2> SUFFICES ASSUME Apart PROVE SchedulerSpec => [](PassTypes /\ PassKept)
    OBVIOUS
  <2>1. PassTypes /\ PassKept /\ [SchedulerNext]_schedulerVars => (PassTypes /\ PassKept)'
    BY <1>1
  <2> QED
    BY <2>1, SchedulerInitType, PassInit, PTL DEF SchedulerSpec
<1> QED
  BY <1>2

(* Schedule.maxRuns: a one-time schedule fires once and a recurring one     *)
(* never more often than its limit says, but for one firing per kill of the *)
(* daemon, where edits and passes keep apart.                               *)
THEOREM LimitsHold == Apart => (SchedulerSpec => []RunsBounded)
<1>1. PassTypes /\ PassKept => RunsBounded
  <2> SUFFICES ASSUME PassTypes, PassKept, NEW s \in Schedules, Limit(s) # 0
               PROVE  fired[s] <= Limit(s) + crashes
    BY DEF RunsBounded
  <2>1. Counted(s) <= Limit(s)
    BY Numbers, TriggerTypes DEF PassKept, WithinLimit, Counted, PassCounts
  <2>2. fired[s] + missed[s] <= Counted(s) + crashes
    BY DEF PassKept, CountsHold
  <2> QED
    BY <2>1, <2>2, Numbers, TriggerTypes
<1> SUFFICES ASSUME Apart PROVE SchedulerSpec => []RunsBounded
  OBVIOUS
<1> QED
  BY <1>1, PassInductive, PTL

(* runDue: between passes, without a kill, the store has counted every run  *)
(* that fired or was logged as missed, where edits and passes keep apart.   *)
THEOREM EveryRunCounts == Apart => (SchedulerSpec => []RunsCounted)
<1>1. PassTypes /\ PassKept => RunsCounted
  <2> SUFFICES ASSUME PassTypes, PassKept, pc = "idle", crashes = 0, NEW s \in Schedules
               PROVE  store[s].runs = fired[s] + missed[s]
    BY DEF RunsCounted
  <2> QED
    BY Numbers DEF PassKept, CountsHold, Counted
<1> SUFFICES ASSUME Apart PROVE SchedulerSpec => []RunsCounted
  OBVIOUS
<1> QED
  BY <1>1, PassInductive, PTL
=============================================================================
