------------------------------- MODULE Upgrade -------------------------------
(***************************************************************************)
(* How the daemons of a cluster replace themselves by newer builds         *)
(* (daemon/upgrade.ts): the offers of the two channels, one upgrade at a   *)
(* time from the job check to the exit, the console bundle that follows    *)
(* the primary's binary (daemon/console.ts), who asks for an upgrade - the *)
(* watcher, an operator, or the rescue of a follower the primary refuses   *)
(* (daemon/hub.ts, daemon/follower.ts) - and the jobs that an exit ends.   *)
(*                                                                         *)
(* Builds are numbered from 1 in the order of their versions.              *)
(***************************************************************************)
EXTENDS Naturals, FiniteSets

CONSTANTS
    Primary, Followers,
    Protocol,      \* the protocol each build speaks
    Settings,      \* the daemons' policies, and which of them reach GitHub
    Disciplines,   \* the sets of overlaps an execution may allow
    None,
    MaxJobs,       \* bound: jobs started in all
    MaxAsks,       \* bound: upgrades an operator asks for, in all
    MaxFaults      \* bound: kills, and steps of an upgrade that fail

Daemons == Followers \cup {Primary}
Builds == DOMAIN Protocol
Callers == {"watch", "rescue", "operator"}

ASSUME ConstantsAssumption ==
    /\ Primary \notin Followers /\ None \notin Daemons \cup Builds
    /\ None \notin Callers
    /\ Protocol \in [Builds -> Nat] /\ Builds \subseteq Nat \ {0} /\ 1 \in Builds
    /\ Settings \subseteq [policy : [Daemons -> {"off", "followers", "all"}], reach : SUBSET Daemons]
    /\ Disciplines \subseteq SUBSET {"gap", "swapped", "jobs"}
    /\ MaxJobs \in Nat /\ MaxAsks \in Nat /\ MaxFaults \in Nat

VARIABLES
    release,    \* the newest release on GitHub
    run,        \* per daemon: the build its process is, None while it is down
    disk,       \* per daemon: the binary, its build and whether it is whole
    staging,    \* per daemon: <binary>.new
    upgrade,    \* per daemon and caller: an upgrade and how far it has come
    applying,   \* per daemon: the caller whose upgrade others join, or None
    leaving,    \* per daemon: an exit is due in 500 ms
    forcedOut,  \* per daemon: ... and the upgrade that set it was forced
    console,    \* the build of the console installed beside the primary
    lost,       \* its last installation moved the old one aside and no new one in
    jobs,       \* per daemon: the jobs that run
    link,       \* per follower: its link to the primary is "down", or "up", or
                \* "refused": quarantined, and what that starts is on its way
    pushed,     \* per follower: recoveryPushes has a time for it
    asked, started, faults,
    policy, reach,
    overlaps    \* "gap": an upgrade may begin in the 500 ms before an exit;
                \* "swapped": a follower may ask a primary that is about to
                \* exit what it runs; "jobs": a job may start in an upgrade

vars == <<release, run, disk, staging, upgrade, applying, leaving, forcedOut, console, lost, jobs,
          link, pushed, asked, started, faults, policy, reach, overlaps>>

NoFile == [build |-> None, whole |-> FALSE]
Idle == [at |-> "idle", forced |-> FALSE, from |-> None, build |-> None, promise |-> None]
Lowest == 1

Init ==
    /\ release = Lowest
    /\ run = [d \in Daemons |-> Lowest]
    /\ disk = [d \in Daemons |-> [build |-> Lowest, whole |-> TRUE]]
    /\ staging = [d \in Daemons |-> NoFile]
    /\ upgrade = [d \in Daemons |-> [c \in Callers |-> Idle]]
    /\ applying = [d \in Daemons |-> None]
    /\ leaving = [d \in Daemons |-> FALSE]
    /\ forcedOut = [d \in Daemons |-> FALSE]
    /\ console = Lowest /\ lost = FALSE
    /\ link = [f \in Followers |-> "up"] /\ pushed = [f \in Followers |-> FALSE]
    /\ jobs = [d \in Daemons |-> 0]
    /\ asked = 0 /\ started = 0 /\ faults = 0
    /\ \E s \in Settings : policy = s.policy /\ reach = s.reach
    /\ overlaps \in Disciplines

At(d, c, where) == upgrade' = [upgrade EXCEPT ![d][c].at = where]
Files == <<disk, staging, console, lost>>
links == <<link, pushed>>
World == <<release, jobs, link, pushed, asked, started, faults, policy, reach, overlaps>>

-----------------------------------------------------------------------------
(* Offers *)

(* The primary's: any build that is not the follower's own, named by the    *)
(* primary's process and measured on the primary's file.                    *)
PrimaryOffer(d) ==
    {[from |-> "primary", build |-> run[Primary], promise |-> disk[Primary].build,
      newer |-> run[Primary] # run[d]] : x \in {y \in {d} \ {Primary} : run[Primary] # None}}

(* GitHub's: the newest release, and never backwards. *)
GithubOffer(d) ==
    {[from |-> "github", build |-> release, promise |-> release, newer |-> release > run[d]] : x \in {d} \cap reach}

\* Mutant: an upgrade takes what is offered, be it what runs already.
BugOffers(d, force) ==
    IF PrimaryOffer(d) # {} THEN PrimaryOffer(d) ELSE GithubOffer(d)

(* The first newer one, the primary's before GitHub's; a forced upgrade     *)
(* makes do with the first.                                                 *)
Offers(d, force) ==
    LET Newer(offers) == {o \in offers : o.newer} IN
    CASE Newer(PrimaryOffer(d)) # {} -> PrimaryOffer(d)
      [] Newer(PrimaryOffer(d)) = {} /\ Newer(GithubOffer(d)) # {} -> GithubOffer(d)
      [] OTHER -> IF ~force THEN {}
                  ELSE IF PrimaryOffer(d) # {} THEN PrimaryOffer(d) ELSE GithubOffer(d)

-----------------------------------------------------------------------------
(* selfUpgrade *)

\* Mutant: a second caller does not join the first.
BugBegin(d, c, force) ==
    /\ run[d] # None /\ upgrade[d][c] = Idle
    /\ "gap" \in overlaps \/ ~leaving[d]
    /\ jobs[d] = 0 \/ force
    /\ applying' = [applying EXCEPT ![d] = c]
    /\ upgrade' = [upgrade EXCEPT ![d][c] = [Idle EXCEPT !.at = "resolving", !.forced = force]]
    /\ UNCHANGED <<run, leaving, forcedOut, Files>>

\* Mutant: an upgrade does not look at the jobs.
BugBeginBusy(d, c, force) ==
    /\ run[d] # None /\ upgrade[d][c] = Idle
    /\ "gap" \in overlaps \/ ~leaving[d]
    /\ applying[d] = None
    /\ applying' = [applying EXCEPT ![d] = c]
    /\ upgrade' = [upgrade EXCEPT ![d][c] = [Idle EXCEPT !.at = "resolving", !.forced = force]]
    /\ UNCHANGED <<run, leaving, forcedOut, Files>>

(* Nobody's upgrade to join, and no job unless it is forced. *)
Begin(d, c, force) ==
    /\ run[d] # None /\ upgrade[d][c] = Idle
    /\ "gap" \in overlaps \/ ~leaving[d]
    /\ applying[d] = None
    /\ jobs[d] = 0 \/ force
    /\ applying' = [applying EXCEPT ![d] = c]
    /\ upgrade' = [upgrade EXCEPT ![d][c] = [Idle EXCEPT !.at = "resolving", !.forced = force]]
    /\ UNCHANGED <<run, leaving, forcedOut, Files>>

(* The upgrade is over without a swap; what it staged is unlinked. *)
Abandon(d, c) ==
    /\ upgrade' = [upgrade EXCEPT ![d][c] = Idle]
    /\ applying' = [applying EXCEPT ![d] = None]
    /\ staging' = [staging EXCEPT ![d] = IF upgrade[d][c].at \in {"staging", "staged"} THEN NoFile ELSE @]
    /\ UNCHANGED <<run, disk, console, lost, leaving, forcedOut, World>>

Resolve(d, c) ==
    LET offers == Offers(d, upgrade[d][c].forced) IN
    /\ upgrade[d][c].at = "resolving"
    /\ "swapped" \in overlaps \/ d = Primary \/ run[Primary] \in {None, disk[Primary].build}
    /\ \/ /\ offers = {}
          /\ Abandon(d, c)
       \/ /\ \E o \in offers :
                upgrade' = [upgrade EXCEPT ![d][c].at = "fetching", ![d][c].from = o.from,
                                           ![d][c].build = o.build, ![d][c].promise = o.promise]
          /\ UNCHANGED <<run, applying, leaving, forcedOut, Files, World>>

(* What the channel serves by now: the primary's file may have changed. *)
Served(d, c) ==
    IF upgrade[d][c].from = "github" THEN upgrade[d][c].promise
    ELSE IF run[Primary] = None THEN None ELSE disk[Primary].build

\* Mutant: the download is not checked against its promise.
BugFetch(d, c) ==
    /\ upgrade[d][c].at = "fetching" /\ Served(d, c) # None
    /\ upgrade' = [upgrade EXCEPT ![d][c].at = "staging", ![d][c].promise = Served(d, c)]
    /\ staging' = [staging EXCEPT ![d] = [build |-> Served(d, c), whole |-> FALSE]]
    /\ UNCHANGED <<run, disk, console, lost, applying, leaving, forcedOut, World>>

\* Mutant: the console is installed before the binary is swapped.
BugFetchConsole(d, c) ==
    /\ upgrade[d][c].at = "fetching"
    /\ Served(d, c) = upgrade[d][c].promise
    /\ At(d, c, "staging")
    /\ staging' = [staging EXCEPT ![d] = [build |-> upgrade[d][c].promise, whole |-> FALSE]]
    /\ console' = IF d = Primary /\ upgrade[d][c].from = "github" THEN upgrade[d][c].build ELSE console
    /\ UNCHANGED <<run, disk, lost, applying, leaving, forcedOut, World>>

(* The download, checked against what was promised; then Bun.write, which   *)
(* truncates the staging file first.                                        *)
Fetch(d, c) ==
    /\ upgrade[d][c].at = "fetching"
    /\ IF Served(d, c) = upgrade[d][c].promise
       THEN /\ At(d, c, "staging")
            /\ staging' = [staging EXCEPT ![d] = [build |-> upgrade[d][c].promise, whole |-> FALSE]]
            /\ UNCHANGED <<run, disk, console, lost, applying, leaving, forcedOut, World>>
       ELSE Abandon(d, c)

WriteEnds(d, c) ==
    /\ upgrade[d][c].at = "staging"
    /\ staging' = [staging EXCEPT ![d] = [build |-> upgrade[d][c].promise, whole |-> TRUE]]
    /\ At(d, c, "staged")
    /\ UNCHANGED <<run, disk, console, lost, applying, leaving, forcedOut, World>>

(* The rename over the binary; the console comes from a release only. *)
Swap(d, c) ==
    /\ upgrade[d][c].at = "staged"
    /\ IF staging[d] = NoFile
       THEN Abandon(d, c)
       ELSE /\ disk' = [disk EXCEPT ![d] = staging[d]]
            /\ staging' = [staging EXCEPT ![d] = NoFile]
            /\ At(d, c, IF d = Primary /\ upgrade[d][c].from = "github" THEN "console" ELSE "swapped")
            /\ UNCHANGED <<run, console, lost, applying, leaving, forcedOut, World>>

(* installConsole: the old bundle is moved aside, the new one takes its     *)
(* place; a bundle that cannot be had, or moved aside, leaves the old one.  *)
MoveAside(d, c) ==
    /\ upgrade[d][c].at = "console"
    /\ \/ console' = None /\ At(d, c, "moving") /\ UNCHANGED faults
       \/ /\ faults < MaxFaults /\ faults' = faults + 1
          /\ At(d, c, "swapped") /\ UNCHANGED console
    /\ UNCHANGED <<run, disk, staging, lost, applying, leaving, forcedOut, links,
                   release, jobs, asked, started, policy, reach, overlaps>>

(* The second rename may fail too: that is caught, the upgrade goes on, and *)
(* nobody moves the old bundle back.                                        *)
MoveIn(d, c) ==
    /\ upgrade[d][c].at = "moving"
    /\ \/ console' = upgrade[d][c].build /\ lost' = FALSE /\ UNCHANGED faults
       \/ /\ faults < MaxFaults /\ faults' = faults + 1
          /\ lost' = TRUE /\ UNCHANGED console
    /\ At(d, c, "swapped")
    /\ UNCHANGED <<run, disk, staging, applying, leaving, forcedOut, links,
                   release, jobs, asked, started, policy, reach, overlaps>>

(* The caller is answered, the next one would no longer join, and the exit  *)
(* is set.                                                                  *)
Done(d, c) ==
    /\ upgrade[d][c].at = "swapped"
    /\ leaving' = [leaving EXCEPT ![d] = TRUE]
    /\ forcedOut' = [forcedOut EXCEPT ![d] = @ \/ upgrade[d][c].forced]
    /\ applying' = [applying EXCEPT ![d] = None]
    /\ upgrade' = [upgrade EXCEPT ![d][c] = Idle]
    /\ UNCHANGED <<run, Files, World>>

(* A step may fail: the network, the disk. *)
Fails(d, c) ==
    /\ faults < MaxFaults /\ faults' = faults + 1
    /\ upgrade[d][c].at \in {"resolving", "fetching", "staging", "staged"}
    /\ upgrade' = [upgrade EXCEPT ![d][c] = Idle]
    /\ applying' = [applying EXCEPT ![d] = None]
    /\ staging' = [staging EXCEPT ![d] = IF upgrade[d][c].at \in {"staging", "staged"} THEN NoFile ELSE @]
    /\ UNCHANGED <<run, disk, console, lost, leaving, forcedOut, links,
                   release, jobs, asked, started, policy, reach, overlaps>>

-----------------------------------------------------------------------------
(* Who asks *)

(* selfUpgradesAutomatically *)
Automatic(d) == policy[d] = "all" \/ (policy[d] = "followers" /\ d # Primary)

(* A tick of the watcher, never forced. *)
Watch(d) == Automatic(d) /\ Begin(d, "watch", FALSE) /\ UNCHANGED World

(* What makes the primary quarantine a follower. *)
Refused(f) == run[f] # None /\ run[Primary] # None /\ Protocol[run[f]] # Protocol[run[Primary]]
Behind(f) == Refused(f) /\ Protocol[run[f]] < Protocol[run[Primary]]

(* What a registration makes the two ends do about a build that is refused: *)
(* the primary pushes at a follower that is behind, the follower that may   *)
(* upgrade itself tries to. Each stamps a cooldown first, so that a         *)
(* registration after the first may find it running.                        *)
Pushes(f) == Behind(f) /\ policy[Primary] # "off"

\* Mutant: the push goes to the followers that are ahead.
BugRegister(f) ==
    LET pushes == Refused(f) /\ ~Behind(f) /\ policy[Primary] # "off" IN
    /\ link[f] = "down" /\ run[f] # None /\ run[Primary] # None
    /\ \E tries \in BOOLEAN :
        /\ tries => pushes \/ (Refused(f) /\ Automatic(f))
        /\ pushes /\ ~pushed[f] => tries
        /\ link' = [link EXCEPT ![f] = IF tries THEN "refused" ELSE "up"]
        /\ pushed' = [pushed EXCEPT ![f] = @ \/ (tries /\ pushes)]
    /\ UNCHANGED <<run, upgrade, applying, leaving, forcedOut, Files,
                   release, jobs, asked, started, faults, policy, reach, overlaps>>

Register(f) ==
    /\ link[f] = "down" /\ run[f] # None /\ run[Primary] # None
    /\ \E tries \in BOOLEAN :
        /\ tries => Pushes(f) \/ (Refused(f) /\ Automatic(f))
        /\ Pushes(f) /\ ~pushed[f] => tries
        /\ link' = [link EXCEPT ![f] = IF tries THEN "refused" ELSE "up"]
        /\ pushed' = [pushed EXCEPT ![f] = @ \/ (tries /\ Pushes(f))]
    /\ UNCHANGED <<run, upgrade, applying, leaving, forcedOut, Files,
                   release, jobs, asked, started, faults, policy, reach, overlaps>>

(* The one try of a registration, at the follower. Where an upgrade is      *)
(* being applied it joins it, where a job runs it is refused; it does not   *)
(* come again while the link stands.                                        *)
Rescue(f) ==
    /\ link[f] = "refused"
    /\ link' = [link EXCEPT ![f] = "up"]
    /\ \/ Begin(f, "rescue", FALSE)
       \/ /\ applying[f] # None \/ jobs[f] > 0
          /\ UNCHANGED <<run, upgrade, applying, leaving, forcedOut, Files>>
    /\ UNCHANGED <<pushed, release, jobs, asked, started, faults, policy, reach, overlaps>>

(* The link breaks, with a push that is on its way. *)
LinkBreaks(f) ==
    /\ link[f] # "down"
    /\ faults < MaxFaults /\ faults' = faults + 1
    /\ link' = [link EXCEPT ![f] = "down"]
    /\ UNCHANGED <<run, upgrade, applying, leaving, forcedOut, Files, pushed,
                   release, jobs, asked, started, policy, reach, overlaps>>

Operator(d) ==
    /\ asked < MaxAsks /\ asked' = asked + 1
    /\ \E force \in BOOLEAN : Begin(d, "operator", force)
    /\ UNCHANGED <<links, release, jobs, started, faults, policy, reach, overlaps>>

-----------------------------------------------------------------------------
(* The process, its jobs and the releases *)

Ends(d) ==
    /\ run' = [run EXCEPT ![d] = None]
    /\ jobs' = [jobs EXCEPT ![d] = 0]
    /\ upgrade' = [upgrade EXCEPT ![d] = [c \in Callers |-> Idle]]
    /\ applying' = [applying EXCEPT ![d] = None]
    /\ leaving' = [leaving EXCEPT ![d] = FALSE]
    /\ forcedOut' = [forcedOut EXCEPT ![d] = FALSE]
    /\ link' = [f \in Followers |-> IF d \in {f, Primary} THEN "down" ELSE link[f]]
    /\ pushed' = [f \in Followers |-> d # Primary /\ pushed[f]]
    /\ UNCHANGED <<disk, staging, console, release, asked, started, policy, reach, overlaps>>

Exit(d) == leaving[d] /\ Ends(d) /\ UNCHANGED <<lost, faults>>

Killed(d) ==
    /\ run[d] # None
    /\ faults < MaxFaults /\ faults' = faults + 1
    /\ lost' = (lost \/ \E c \in Callers : upgrade[d][c].at = "moving")
    /\ Ends(d)

(* The service manager starts what is on the disk. *)
ServiceStarts(d) ==
    /\ run[d] = None /\ disk[d].whole
    /\ run' = [run EXCEPT ![d] = disk[d].build]
    /\ UNCHANGED <<upgrade, applying, leaving, forcedOut, Files, World>>

JobStarts(d) ==
    /\ run[d] # None /\ started < MaxJobs /\ started' = started + 1
    /\ "jobs" \in overlaps \/ (applying[d] = None /\ ~leaving[d])
    /\ jobs' = [jobs EXCEPT ![d] = @ + 1]
    /\ UNCHANGED <<run, upgrade, applying, leaving, forcedOut, Files, links,
                   release, asked, faults, policy, reach, overlaps>>

JobSettles(d) ==
    /\ jobs[d] > 0
    /\ jobs' = [jobs EXCEPT ![d] = @ - 1]
    /\ UNCHANGED <<run, upgrade, applying, leaving, forcedOut, Files, links,
                   release, asked, started, faults, policy, reach, overlaps>>

Publish ==
    /\ release + 1 \in Builds
    /\ release' = release + 1
    /\ UNCHANGED <<run, upgrade, applying, leaving, forcedOut, Files, links,
                   jobs, asked, started, faults, policy, reach, overlaps>>

-----------------------------------------------------------------------------
Pipeline(d, c) ==
    \/ Resolve(d, c) \/ Fetch(d, c) \/ WriteEnds(d, c)
    \/ Swap(d, c) \/ MoveAside(d, c) \/ MoveIn(d, c) \/ Done(d, c)

Next ==
    \/ \E d \in Daemons, c \in Callers : Pipeline(d, c) \/ Fails(d, c)
    \/ \E d \in Daemons : \/ Watch(d) \/ Operator(d) \/ Exit(d) \/ Killed(d)
                          \/ ServiceStarts(d) \/ JobStarts(d) \/ JobSettles(d)
    \/ \E f \in Followers : Register(f) \/ Rescue(f) \/ LinkBreaks(f)
    \/ Publish

(* Timers fire, calls return, jobs end, the service manager restarts a      *)
(* daemon and a follower dials until it is registered; nobody has to ask,   *)
(* publish, start a job or fail. Only the watcher's timer comes round       *)
(* again, however often a job or another upgrade was in its way.            *)
Fairness ==
    /\ \A d \in Daemons :
        /\ WF_vars(ServiceStarts(d) \/ \E c \in Callers : Pipeline(d, c))
        /\ WF_vars(Exit(d)) /\ WF_vars(JobSettles(d))
        /\ SF_vars(Watch(d))
    /\ \A f \in Followers : WF_vars(Register(f) \/ Rescue(f))

Spec == Init /\ [][Next]_vars
FairSpec == Spec /\ Fairness

-----------------------------------------------------------------------------
(* Properties *)

Upgrades ==
    [at : {"idle", "resolving", "fetching", "staging", "staged", "console", "moving", "swapped"}, forced : BOOLEAN,
     from : {None, "primary", "github"}, build : Builds \cup {None}, promise : Builds \cup {None}]

TypeOK ==
    /\ release \in Builds
    /\ run \in [Daemons -> Builds \cup {None}]
    /\ {disk, staging} \subseteq [Daemons -> [build : Builds \cup {None}, whole : BOOLEAN]]
    /\ upgrade \in [Daemons -> [Callers -> Upgrades]]
    /\ applying \in [Daemons -> Callers \cup {None}]
    /\ leaving \in [Daemons -> BOOLEAN] /\ forcedOut \in [Daemons -> BOOLEAN]
    /\ console \in Builds \cup {None} /\ lost \in BOOLEAN
    /\ link \in [Followers -> {"down", "refused", "up"}] /\ pushed \in [Followers -> BOOLEAN] /\ overlaps \in Disciplines
    /\ jobs \in [Daemons -> Nat] /\ faults \in Nat

(* "the swap cannot leave a half-written executable behind for the service  *)
(* manager to start" (selfUpgrade): whoever asks, whatever fails and        *)
(* whenever the process dies, the binary is one whole build.                *)
BinaryWhole == \A d \in Daemons : disk[d].whole

(* What an upgrade puts in place is the build it announced (UpgradeResult.to), *)
(* also when the primary is upgraded between the offer and the download -  *)
(* unless the primary was asked between its own swap and its exit, when its *)
(* process is one build and its file another (localBinaryMeta).             *)
Announced ==
    [][\A d \in Daemons, c \in Callers :
        ("swapped" \notin overlaps /\ upgrade[d][c].at = "staged" /\ upgrade'[d][c].at \in {"console", "swapped"})
            => disk'[d].build = upgrade[d][c].build]_vars

(* An upgrade nobody forced ends no job ("what an upgrade waits for",       *)
(* runningJobs), as long as none is started after the check.                *)
JobsSpared ==
    "jobs" \notin overlaps => \A d \in Daemons : leaving[d] /\ ~forcedOut[d] => jobs[d] = 0

(* The console is never newer than the binary ("after the binary, never     *)
(* before", runUpgrade), and gone only between the two renames, or since an *)
(* installation that failed at the second or died before it.                *)
ConsoleServed ==
    /\ console # None => console <= disk[Primary].build
    /\ "gap" \notin overlaps /\ console = None =>
        lost \/ \E c \in Callers : upgrade[Primary][c].at = "moving"

(* "the console keeps serving what it has" when its installation fails      *)
(* (installConsoleFrom), so that it is gone only between the two renames -  *)
(* or if the process dies there.  It does not hold: the second may fail.    *)
KeepsServing ==
    [][lost' /\ ~lost => run'[Primary] = None]_vars

(* An automatic upgrade is no loop ("a machine with nothing newer available *)
(* simply stays where it is", applyAutomatic).                              *)
StaysWhereItIs == <>[](\A d \in Daemons : ~leaving[d])

(* It holds where every follower that upgrades itself from GitHub has a     *)
(* primary that does so too.                                                *)
Coherent == (\E f \in Followers \cap reach : Automatic(f)) => Automatic(Primary) /\ Primary \in reach
Settles == Coherent => StaysWhereItIs

(* A follower that the primary refuses because it is behind gets a build    *)
(* the primary talks to, with nobody at either machine: where it upgrades   *)
(* itself, for its watcher comes round until it has one; where it does not, *)
(* by the primary's push (pushRecoveryUpgrade) - unless the primary has     *)
(* pushed, and the push was refused, met another upgrade or failed: no      *)
(* other comes while the link stands, nor within half an hour.              *)
Tried(f) == link[f] = "up" /\ pushed[f] /\ upgrade[f]["rescue"] = Idle /\ ~leaving[f]
Rescued ==
    \A f \in Followers :
        /\ Automatic(f) => (Behind(f) ~> ~Behind(f))
        /\ policy[Primary] # "off" => (Behind(f) ~> ~Behind(f) \/ Tried(f))
=============================================================================
