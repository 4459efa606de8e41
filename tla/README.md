# Verification of the luna console

TLA+ models of the luna console (a daemon, a command line and a web console that run a cluster of Minecraft
servers), checked with TLC on small instances and, for the core of it, proved with TLAPS for every instance.
Paths below are relative to the repository (`src/` here is the repository's root, so the daemon's code is
`src/src/daemon`, the shared library `src/src/core` and the web console `src/web`).

## 1. The system

One machine runs the **primary** daemon; every other machine of the cluster runs a **follower** that holds a
WebSocket to it. Each daemon owns the game servers ("instances") on its machine, each in a `screen` session that
outlives the daemon. The command line and the web console talk to the local daemon over a unix socket by RPC; an
operation about an instance on another machine is forwarded over the link.

| part | code | state it keeps | operations | talks to |
|---|---|---|---|---|
| world swap | `core/worldops.ts` | journal file (also the lock), staging and old directory per instance | replace, restore, reset, recover | start path, recovery pass, jobs |
| backups | `core/backups.ts` | `backups.json`, archives, the freeze of a running server | create, verify, restore, update, delete, prune | world swap, console |
| lifecycle | `core/instances.ts`, `core/lifecycle.ts`, `core/screen.ts`, generated `run.sh` | session, `.luna-norestart` sentinel, tracked transition | start, stop, restart, tracked variants | sampler, boot session |
| cluster link | `daemon/hub.ts`, `daemon/follower.ts` | follower links, pending requests, heartbeat counters; socket, watchdog, backoff | register, ping, forward an operation, result, drop, reconnect, quarantine | RPC, state sync |
| state sync | `daemon/hub.ts`, `daemon/follower.ts`, `core/config.ts` | mirrored state files, debounced broadcast | sync, broadcast, save up | cluster link |
| console tunnel | `daemon/hub.ts`, `daemon/follower.ts`, `daemon/tail.ts` | open streams at both ends | open, lines, close, end | cluster link |
| scheduler | `daemon/scheduler.ts`, `core/schedule.ts` | `schedules.json`, the running flag | tick, run due, edit by RPC | lifecycle, backups |
| jobs | `daemon/jobs.ts`, `core/progress.ts` | jobs, subscribers | start, settle, watch, prune | upgrade |
| upgrade | `daemon/upgrade.ts`, `daemon/console.ts` | the binary on disk, upgrade in progress | check, stage, swap, restart | jobs, cluster link |
| accounts, authorization | `core/accounts.ts`, `core/iam.ts`, `shared/iam` | accounts, identities, sessions, policies | sign in and out, attach, evaluate | web console |
| ports, environment, config files | `core/ports.ts`, `core/environment.ts`, `core/configfiles.ts` | port ledger, variables, templates | allocate, release, resolve, render | start path |
| addons, packs, runtimes | `core/plugins.ts`, `core/pluginstate.ts`, `core/modpack.ts`, `core/respacks.ts`, `core/datapacks.ts`, `core/runtimes.ts` | lockfile, pooled files | install, update, remove, deploy | providers |
| samplers, uptime, boot session | `daemon/sampler.ts`, `daemon/health.ts`, `core/uptime.ts`, `core/instsession.ts` | histories, transitions, buckets | sample, accrue, tail | lifecycle |
| chat agent | `web/src/lib/server/agent` | runs, approvals, background tasks, triggers, bearers | send, approve, stop, deliver | MCP endpoint |
| domains | `core/domains.ts` | hosted DNS zone, forced hosts | create, remove, restore on a mismatch | DNS provider |
| client and web console | `client/*.ts`, `web/src` | browser state, caches | requests, streams | daemon RPC |

What is hard in it: everything runs on one event loop per daemon, so every `await` is a point where another handler
may run; state files are read, changed and written back as a whole across such points; daemons are killed by
upgrades and by the service manager in the middle of multi-step file operations; the link to a follower drops,
reconnects under a new socket and may deliver frames of the old one late. The list of the places where this bites
is the `hazards` list of `PROJECT.json`.

What makes each part correct, in a line each; all but the last two are properties of the modules below.

* World swap: the world changes in one step or not at all, only under the lock and with the server down, and whatever
  ends the operation leaves no residue and no lock for ever.
* Backups: index and directory agree; retention never removes a backup it must keep; an archive that caught the server
  writing says so, unless somebody else let it write; every path through the `try` thaws the server.
* Cluster link: the follower always has exactly one way back; a late frame of an old socket harms nothing; every
  forwarded operation is settled, and with its own answer.
* Scheduler: run limits hold, every run is counted, nothing stays due.
* State sync: a follower ends with the primary's last state and never steps back on the way; a follower's save arrives.
* Console tunnel: the end of a stream is told once; a tail does not outlive its stream; nobody is shown another's
  console.
* Lifecycle: a requested stop ends stopped, whatever the relaunching wrapper was doing; a server is asked before it is
  signalled; no two servers share a directory; a restart is shown until it is over, or for the three minutes a mark is
  given.
* Jobs and upgrade: the binary is always one whole build, and the one announced; an upgrade does not end a job it
  promised to wait for; automatic upgrades come to rest, and a follower left behind by a protocol is sent what it
  needs when it registers.
* Ports: one number on one machine is never held twice, in the ledger or in the servers' own files.
* Chat agent: every message starts or joins one run or goes back to its sender; words and calls are made on the
  authority of whoever stands behind them.
* Accounts: a session that was ended stays ended; policy evaluation agrees with its reference.
* Uptime: the time credited never exceeds the time observed.

## 2. Modules and plan

| module | models | state and actions |
|---|---|---|
| `WorldStore` | the promise of a world exchange | the world, what was asked for, the server; `Ask`, `Replace`, `Launch`, `Halt`, `Grow` |
| `WorldSwap` | `core/worldops.ts` with the start path of `core/instances.ts` and the recovery pass of `daemon/index.ts` | `journal`, `stage`, `old`, `live` are the files of an instance directory; `pc`, `mem`, `todo` the position, the journal object and the loop of each handler. One action is one awaited file-system call of `swapWorld` (`Arm`, `Clean`, `Fill`, `AdvanceRetire`, `RetireDir`, ... `Clear`), `Fail` its catch, `ArmFails` a throw before it; a journal write (`Writing`) that throws or is killed may leave the file torn, which reads as no journal. `Restore`, `HealStage`, `HealOld`, `HealClear` the recovery, `StartCheck` and `StartLaunch` the two ends of a start |
| `ClusterLink` | `daemon/hub.ts`, `daemon/follower.ts` | `link`, `waiting`, `counter` are `followers`, `pending`, `requestCounter`; `sock`, `retry`, `watch` the follower's `ws`, its reconnect timer and watchdog; `up` and `down` the frames of each socket. One action is one handler or timer |
| `Backups` | `core/backups.ts` | `store` is `backups.json`, `files` the directory, `snap` the copy of the index a job holds between load and save; `saving` is the server's save-on. Each job walks through its function, one action per await that matters; `PrepareFails`, `ArchiveFails`, `EntryFails`, `PruneFails` and `UpdateFails` are what throws before, in and after the `try`, and what it leaves behind |
| `Scheduler` | `daemon/scheduler.ts`, `core/schedule.ts`, the routes of `web/src/routes/api/schedules` | `store` is `schedules.json`, `copy` and `now` the locals of a tick, `draft` the store an edit holds. `Tick`, `RunStep`, `EndExecute`, `SavePass` are the pass; `LoadEdit` and `SaveEdit` the two ends of an edit |
| `StateSync` | the sync half of `daemon/hub.ts` and `daemon/follower.ts`, the save hook of `core/config.ts` | `disk` and `mirror` are the state files at the two ends, a file being the set of edits it contains; `dirty` the debounce timer, `reading` the payloads being read file by file, `applying` the frames being written file by file. `Load` and `SavePrimary`, `SaveFollower`, `OnSave` are an operation's load and save, `LoadStamp` and `SaveStamp` `persistRegistration` and `persistLastSeen`, `Broadcast`, `RegisterSync`, `ReadNext`, `Send` the sender, `Receive`, `ApplyNext` the receiver |
| `ConsoleTunnel` | the streams of `daemon/hub.ts`, the tails of `daemon/follower.ts` and `daemon/tail.ts` | `sid`, `state`, `ends` are a viewer's stream and how often its `onEnd` ran; `opening`, `running`, `tails` the opens inside their await, the tail processes and the map of them; `hubLink` and `folLink` what each end believes of the link |
| `Lifecycle` | `core/instances.ts` (start, stop, status), the generated `run.sh`, `core/lifecycle.ts`, the state route, `settleTransition` of `daemon/sampler.ts` | `session`, `crashes` are the wrappers in their screen sessions, `server`, `home` the processes and where they were launched, `norestart` the sentinel file, `mark` and `sawDown` the transition. `Header` ... `Relaunch` are the script, `Stop` ... `Respawned` one `stopInstance`, `Probe` and `Settle` the two ends of a sampler pass, `Ages` the 180 s after which a pass drops a mark whatever it reads |
| `AgentRuns` | `web/src/lib/server/agent/runner.ts` | `run` are the runs of one conversation with their queue, held messages, actor and the bearer of the session, `current` the map's entry, `waiting` those who wait for a run to end. `Send` ... `Push` are one message's handler from await to await, `Take`, `TurnDone`, `Deliver`, `Stop`, `End`, `Save` the run's own loop, `Ask`, `Decide`, `Make` a tool call, `ChangeMode` and `ApplyMode` a settings change. Joining (`Push`, `Deliver`), preparing (`Drive`) and saving (`Save`) may throw: a held message is then lost, a run abandoned with nobody driving it |
| `Upgrade` | `daemon/upgrade.ts`, `daemon/console.ts`, `daemon/jobs.ts`, the rescue of a refused follower in `daemon/hub.ts` and `daemon/follower.ts` | `run` and `disk` are the process and the binary of each daemon, `staging` its `.new` file, `upgrade` the upgrade of each caller and `applying` the one that others join. `Begin`, `Resolve`, `Fetch`, `WriteEnds`, `Swap`, `MoveAside`, `MoveIn`, `Done`, `Exit` are one upgrade; `Watch`, `Rescue`, `Operator` who asks; `Register` a follower's registration, which is given one rescue, `LinkBreaks` its end. `MoveIn` may throw with the console already moved aside (`lost`) |
| `Ports` | `core/ports.ts`, the callers in `core/admin.ts` | `registry` is `cluster.json`, `reservations` the in-memory holds, `copy` what an operation has loaded, `bound` what the instances' own files say. `Load`, `Acquire`, `Reserve`, `CheckMove`, `Built`, `Moved`, `Dropped`, `Fails`, `Save` are the steps of a provision, a move and a delete; `Expires` and `Restart` the ends of a reservation |
| `WorldSwapProofs`, `ClusterProofs`, `BackupsProofs`, `DaemonProofs`, `ConsoleTunnelProofs`, `LifecycleProofs`, `PortsProofs`, `AgentRunsProofs` | theorems about these; `ClusterProofs` has those of `ClusterLink` and `StateSync`, `DaemonProofs` those of `Upgrade` and `Scheduler` | |
| `MC...` | values and symmetry for TLC | |

How they fit together: `WorldSwap` implements `WorldStore` under the refinement `world <- Committed`, the world the
directories stand for, read by the phase of the journal. A restore of a backup ends in a world swap: `Backups` models it
up to the unpacking of the archive, `WorldSwap` from there; the start that `WorldSwap` interleaves with a swap is the
`Start` of `Lifecycle`. `StateSync`, `ConsoleTunnel` and the rescue in `Upgrade` run over the link of `ClusterLink`,
each with its own losses and registrations, in the order `ClusterLink` allows: frames of one socket arrive in order or
are lost with it, and each end notices a loss by itself.

Two devices recur:

* `Disciplines` and `overlaps`. Much of this code is correct only as long as certain things do not happen at once, and
  nothing in the code keeps them apart. A module names these overlaps; a behaviour draws the set it may contain from
  the constant `Disciplines`, and every property says which overlaps it holds under. One run thus checks several
  combinations, and adding a set to `Disciplines` and dropping the condition from a property shows what the overlap
  breaks.
* Stale copies. Wherever the code loads a file, awaits and writes it back, the copy is a variable of its own and the two
  ends are actions of their own.

Some modules are extended together, by a proof module or a module of TLC's values, so their names differ: where the
others say `Init`, `Next`, `Spec`, `TypeOK` and `ConstantsAssumption`, `Scheduler` has `SchedulerInit`, ...,
`SchedulerConstants`, and so have `StateSync` (`SyncInit`), `Backups` (`BackupsInit`) and `Ports` (`PortsInit`).

`MCInstances` checks `Lifecycle`, `Backups` and `Ports` in one run, `MCTunnelScheduler` `ConsoleTunnel` and `Scheduler`.
They share no variable and nothing is composed: a variable `part` says which component a behaviour is of, and the
others rest in one of their initial states. The state space is the sum of the components', not their product. In
`MCTunnelScheduler` both specifications state fairness, so neither may ask anything of the other's behaviours: a
behaviour of the scheduler has no viewer at all, and one of the tunnel begins when the time of a machine without
schedules has passed, so that no tick is due any more.

Order of the plan, most important first:

1. Done: `WorldSwap`, `ClusterLink`, `Backups`, `Scheduler`.
2. Done: `StateSync`, `ConsoleTunnel`.
3. Done: `Lifecycle`.
4. Done: `Upgrade` with the jobs it waits for.
5. Done: `Ports`, `AgentRuns`.
6. Done, proofs: every safety property that a passing run checks, in all ten modules; the prover cannot take on the rest.
7. Left, models: sessions and uptime; as pure functions checked against a reference, the five-field cron, version
   comparison, environment layering and policy evaluation.

## 3. What the runs show

| run | shows | under which condition |
|---|---|---|
| `worldswap_safety` | two successive swaps of a two-directory world, two faults (throws, kills, recovery that fails): the exchange implements `WorldStore`, the running server sees a whole world, the lock's phase on disk is the one in memory, nothing is left aside, and the next start of the daemon frees the instance | callers apart (`Overlaps = {}`), no fault between the install journal and the last rename, no journal write cut short but the first |
| `worldswap_bug_install` | a fault while staged directories wait to be installed loses both worlds | (violation) |
| `worldswap_bug_torn` | a journal write cut short while the old world stands aside reads as no journal, and the instance starts without a world | (violation) |
| `clusterlink` | two sockets, two operations, two faults, one restart of either end: one way back, one's own answer, a late close that harms nothing, every call settled, and the two ends agree on one open socket for good | one's own answer only within one life of the primary |
| `instances`: lifecycle | two operations of any kind, a wrapper with its relaunches, three crashes, two sampler passes, a mark that may outlive its 180 s, five sets of overlaps: a stop is final, a server is told first, one server at a time, an honest mark | stop final: operations do not overlap; told first: nor does a stop meet a wrapper whose server is not up; one server: nor does a server outlive SIGTERM by 3 s; mark: only the last may happen, and within the 180 s |
| `instances`: backups | two jobs, three archives, anything that throws at any step or a kill, a server that starts, stops and writes: index and directory agree but for what the interrupted operation handled, an archive that is torn warns, a server is left frozen by nothing but a kill or a throw between freeze and `try`, retention removes only what it may | no index update inside another (`IndexRaces`); the warning: nobody else let the server write under the archive |
| `instances`: ports | seven operations on three instances and a pool of three numbers, failures, expiries, a restart: provisions hold different numbers, and no two servers have one number in their files | `portOverlaps = {}`: none of the four below |
| `backups_bug_thaw` | what throws between the freeze and the `try` that thaws leaves a server that does not save | (violation) |
| `backups_bug_torn` | an archive torn by another's thaw, or by a server started meanwhile, says nothing | (violation) |
| `statesync` | two files, an edit at either end, two registrations and the losses between, quarantine: edits stay, the mirror does not step back, saves arrive, the follower converges | payloads and their application in order; the first two also need edits apart; `SavesArrive` and `Converges` hold with edits that race |
| `tunnel_scheduler`: schedules | three schedules (a limited rate, a one-time, a cron), three units of time, one kill, edits at any time between passes: limits hold up to one firing per kill, every run is counted, nothing stays due | no edit during a pass (`Overlap`), no instance deleted from under an enabled schedule (`Careless`) |
| `tunnel_scheduler`: tunnel | two viewers, two links, a restart of the primary, a follower of an older build, all four sets of overlaps: the end is told once in each; no stranger's lines without `opening`; no tail left behind without either | as said |
| `agentruns` | three messages of two participants (said, held, background reports) in three mixes, three runs, four sets of overlaps: one owner of the session, words and calls on their own authority, no message forgotten | owner: no message handled while a run is saved; words: nor two messages in their handlers at once; calls: nor a hand-over between the yes and the call; nothing forgotten: under every overlap, with three exceptions: the first message of a run stopped while it is prepared, a held message whose joining throws, and what waits for a run whose preparation threw |
| `upgrade` | a primary and a follower, two builds of two protocols, three policies, a job, an operator, a fault or kill: whole binary, the announced build, jobs spared, a console that fits, rest, rescue | the announced build: the primary is not asked between its swap and its exit; jobs: none starts after the check; console: gone only between its renames, or since one that failed at the second or was cut before it, and no second upgrade before the exit; rest: policies that agree (`Coherent`); rescue: a follower that does not upgrade itself gets one push, which a job, another upgrade or a failure may use up |
| `upgrade_bug_loop` | under the default policy a follower goes back and forth between two builds for ever | (violation) |

### The overlaps that break a property

These are not excluded because they cannot happen; each happens in the code, and each is reproduced by giving the
constant the other value and taking the condition out of the property.

* `WorldSwap`: two swaps, a start inside a swap, a recovery of a live swap or a swap of a running server
  (`Overlaps = {"swap"}`, `{"launch"}`, `{"recovery"}`, `{"running"}`): the lock is read, then written, an await later.
  A journal torn at any write but the first (`TornWrites`) is a run of its own, `worldswap_bug_torn`.
* `Backups`: a verification that loads the index, hashes for minutes and writes it back (`IndexRaces = TRUE`). What
  else its properties excuse is shown by the runs `backups_bug_thaw` and `backups_bug_torn`. The safety copy that a
  restore takes counts towards retention, so restoring the oldest archive may delete it first (`backups.ts:564`):
  `RetentionSpares` allows it, since it is within the keep count.
* `ClusterLink`: request ids start over with the primary's process (`hub.ts:772`), so after a restart a call may be
  settled by the answer to another: `OwnAnswer`, the property without its condition, fails.
* `Scheduler`: a pass writes back the store it loaded before its actions ran (`Overlap = TRUE`); a schedule that names a
  deleted instance throws out of the pass and leaves what it fired unwritten (`Careless = TRUE`).
* `StateSync`: `edits` breaks `EditsStay` and `NeverBackwards` (a load, an await, a save of the whole file); `payloads`
  (a broadcast and a registration read side by side) and `applies` (two frames written side by side) break
  `NeverBackwards` and `Converges`: the older frame is sent, or written, last.
* `ConsoleTunnel`: `opening`, a close or a loss in the await of an open, finds no tail to stop; the tail is started
  afterwards, for nobody, and after a restart of the primary under a number that may be another viewer's. `timeout`, a
  late ready frame: the primary forgets the stream without a `stream-close`.
* `Lifecycle`: `launching`, a stop that finds the wrapper before its server: it asks nothing over the console and
  later terminates a server that came up meanwhile. `slow`, a server that outlives SIGTERM by three seconds: the wait
  is not repeated, and a restart starts a second server beside it. `probing`: any reading but "running" counts as
  down, also a failed ping or one taken before the mark was made, so a restart may be settled by the state it started
  from. `ops`: two operations on one instance.
* `AgentRuns`: `saving`, a message handled between `run.running = false` (`runner.ts:1774`) and the end of the save,
  begins a run that resumes the session before the last. `joins` and `calls`: hand-overs within another's awaits.
* `Upgrade`: `swapped`, the primary asked between its swap and its exit names its old build and measures its new file
  (`upgrade.ts:130`); `jobs`, a job started during the download; `gap`, an upgrade that begins in the 500 ms before an
  exit and is cut between the console's two renames. A kill or a throw there leaves the same: nothing moves `build.old`
  back.
* `Ports`: `late`, a load acted on after another operation; `slow`, a provision that outlasts its reservation or the
  daemon's restart; `moves`, a number chosen while a move to it is not saved; `copies`, two saves of whole registries
  that undo each other, or two operations on one instance. Each alone gives one number to two servers.

### Bounds and why they are enough

* World swap: two directories make every loop have a first, a last and an in-between step; two swaps let one start from
  what the other, or its recovery, left; two faults let a recovery itself fail. A third directory repeats the second.
* Cluster link: a follower holds one socket; the second is the one it dials next, while the older one still has frames
  on their way. Sockets are dialled again once both ends have finished with them. Two operations are needed to mistake
  one for the other.
* Backups: three archives with keep counts of one and two give retention something to keep and something to drop, and a
  new one on top; two jobs give every pair of operations.
* Scheduler: periods of one and two units and a late limit of one make every firing early, on time, at the limit and
  past it; the limited schedule has two runs.
* State sync: two files make a payload that mixes two states; one edit at each end can race with the other and with both
  stamps; the second registration follows a loss.
* Console tunnel: two viewers mistake each other's numbers only across a restart of the primary, of which there is one,
  and tails outlive a link only if there is a second.
* Lifecycle: a restart and any other operation; two sessions are what a start after a stop needs; four processes are a
  relaunch, a respawn and one more; three crashes reach the crash-loop limit of three.
* Chat agent: three messages let one start a run, one join or wait and one take over; each may start a run, hence three.
* Lifecycle overlaps: `ops` is left out, for every property of it is conditioned on its absence; `slow` and `probing`
  meet no property together.
* Upgrade: two builds are a newer and an older one, of different protocols; one follower suffices because followers meet
  only at the primary. One fault - a failed step, a kill or a broken link - can hit any step. A primary that upgrades
  itself takes GitHub's release with a follower that does so too under `swapped` only, and with one that does not under
  the others: each policy and each overlap is checked, not each pair.
* Ports: two free numbers and three instances make the pool run out; a held-back number is never handed out; the seven
  operations contain every pair of kinds, one name created twice.

### Fairness

* `WorldSwap`: the awaits of a running handler resolve, the service manager restarts a daemon that died and its start
  runs the recovery pass; nobody owes a swap, a start or a manual recovery.
* `ClusterLink`: timers fire, frames on sockets that still carry anything arrive and handlers end; faults are owed by
  nobody, so the watchdog and the ping timeout are fair only where they answer a real silence.
* `Scheduler`: time passes, executions end (`stopInstance` and the link both have their own timeouts) and the interval
  fires; the tick is strongly fair because an edit takes moments and the interval comes round every 20 s, so edits
  cannot starve it for ever.
* `StateSync`: handlers end and frames arrive. Only the broadcast and the sync of a registration are strongly fair:
  one timer and one handler that wait for each other's payload only because the run keeps payloads apart, and each
  payload ends.
* `ConsoleTunnel`: frames arrive, opens and ready timeouts end, and the follower notices that the primary dropped it;
  no viewer has to go.
* `AgentRuns`: awaits come back, the session reads its queue and ends its turns, a call is decided or times out, a
  closed query ends. Nobody has to write, stop or change a mode.
* `Upgrade`: an upgrade's steps end, an exit that is set happens, the service manager starts what is on the disk, jobs
  end, a follower without a link registers. Only the watcher's tick is strongly fair: it is a timer, which jobs and
  other upgrades refuse now and then. The rescue is not: a registration gives a follower one, which takes place but
  may be refused, and the half hour between two pushes does not pass in a behaviour. Nobody has to publish a release,
  fail or be killed.
* `Backups`, `Lifecycle` and `Ports` state no liveness.

`CHECK_DEADLOCK FALSE` is set where the system comes to rest once its bounds are used up: calls, registrations,
viewers, messages, operations, archives, upgrades or time. The types of the variables are stated in every module
(`TypeOK`, `SyncTypeOK`, `SchedulerTypeOK`) and proved for each; the runs leave them out.

### Disagreements with the code's own words

Five runs each show a place where the code does not do what its comments say; `PROJECT.json`, `findings`, quotes the
words.

* `worldswap_bug_install`: the install phase is journalled before it is true, so that a fault before the last rename
  makes the recovery delete the old world and what is left of the new one.
* `worldswap_bug_torn`: `readJournal` says that an unparseable journal must hold the instance (`worldops.ts:110`), and
  returns what it returns for none. A journal cut short while the old world stands aside lets the server start without
  a world.
* `backups_bug_thaw`: "thawed afterwards whatever happens" (`backups.ts:244`), yet the directory is made and the old
  `.part` removed between the freeze and the `try`: what throws there leaves a server that does not save.
* `backups_bug_torn`: "a torn hot backup says so here" (`backups.ts:83`), yet the thaw of one archive lets the server
  write under another, and so does a start of the server; only an unconfirmed freeze warns.
* `upgrade_bug_loop`: the primary offers any build that differs, GitHub any that is newer; a follower that reaches both
  while its primary stays behind installs one after the other, for ever. `Settles` shows
  that upgrades come to rest under the policies of the run `upgrade`, which are all `Coherent`.

Two more were met and have no run; the properties that hold name them as exceptions.

* `KeepsServing` of `Upgrade`, which nothing checks and which TLC refutes in nine steps: when the second rename of the
  console's installation throws (`console.ts:141`), the daemon catches it and says that the console keeps serving what
  it has (`upgrade.ts:554`), but the old bundle has been moved aside and nothing moves it back.
* `deliverHeld` of the chat agent: a run "still owes its held messages a turn" (`runner.ts:1807`), but one that
  it has taken up is lost when `joinRun` throws. A run whose preparation throws stays in the map, running, with nobody
  to drive it. `NothingForgotten` counts both among its exceptions.

## 4. What is proved

The eight proof modules prove for every value of the constants allowed by the assumption of the component's module
(`ConstantsAssumption`, `SyncConstants`, `SchedulerConstants`, `BackupsConstants`, `PortsConstants`): any number of
directories, swaps, sockets, calls, state files, edits, archives, jobs, schedules, viewers, processes, followers,
builds, instances, operations, messages and participants, and any number of faults. A condition of a property in
section 3 is a condition of its theorem too.

* `WorldSwapProofs`: `TypeCorrect` without conditions. With `Disciplined` (no overlapping callers, no install fault, no
  torn write but the first - the conditions of `worldswap_safety`): `LockProtectsServer`, `KillHealsLikeThrow`,
  `ReleaseLeavesNothing` and `SwapIsAtomic`, that `WorldSwap` implements `WorldStore`. The properties are not inductive
  by themselves. The invariant `IInv` adds that at most one process holds the instance (`OneArmed`), that nobody begins
  while a server runs (`BeginAlone`, `ServerAlone`), which journal phase goes with which program point (`PhaseOfPC`),
  and, phase by phase, which directories may be where (`Layout`, `SwapProgress`, `HealProgress`). The refinement is by
  cases on the action: `Committed` changes only in the step that journals the install, or when a running server grows
  its world.
* `ClusterProofs`, the link: `TypeCorrect`, `LinksCorrect` and its parts `AlwaysOneWayBack`, `OpenSocketsWatched`,
  `RoutedToOpenLink`, `NoCallWaitsWithoutLink` (the last three are proved only, no run repeats them), and
  `LateCloseIsHarmless`, under any number of restarts of either end. The strengthening `Held` says that only the held
  socket is dialling or open. `CallsGetTheirOwnAnswer` proves
  `OwnAnswerInOneLife`, up to the first restart of the primary; its invariant says every frame and every executing
  operation carries the number its call was issued under (`Carried`), and no two calls share a number (`Numbered`).
* `ClusterProofs`, the state files: `SyncTypeCorrect`, `NoEditIsLost` (`EditsStay`) and `MirrorNeverBackwards`
  (`NeverBackwards`). Neither is inductive. For the first, `Alone` says that one edit or stamp at a time is between
  its load and its write, that what it holds is what the file contains, and that a save frame on its way is that
  edit's. One exception had to be named (`Stranded`): a follower may still edit its copy after the link was lost,
  while the loss is being stamped; its save then has no link to take. For the second, `InOrder` puts every copy of a
  file in a line - the mirror, what is being applied, the frames on their way, what has been read, the disk - none of
  which holds an edit of the primary that the next one lacks; `OneAtATime` is the order of payloads the overlaps would
  break, and `EditsLatest` says that a follower about to save has seen all of the primary's edits.
* `BackupsProofs`: `TypeCorrect`, and the four safety properties of `Backups`. `TornArchivesTold` holds under every
  overlap: a job that is about to copy, or copies, while a running server saves has noted why (`NotedInv`).
  `FreezesEnd` holds without conditions: a server that does not save has a job before it that will thaw it, or was
  left by a kill or by a throw between a freeze and the `try`, which the model records (`stranded`, `FrozenInv`).
  `IndexStaysTrue` and `RetentionIsSparing` hold where no index update begins inside another, whatever throws, and
  share `IndexInv`: one job at a time is between its load and its save (`OneSection`), so that its copy is the index
  (`CopyIsIndex`); an archive being taken is listed nowhere and nobody else's (`Numbered`); what a job adds or drops
  is there, listed or already removed as its step says (`OwnFiles`); and index and directory disagree only about what
  some job is handling, or one that threw or was killed had in hand (`BetweenTheTwo`).
* `DaemonProofs`, schedules: `SchedulerTypeCorrect` without conditions. Where edits and passes keep apart (`~Overlap
  /\ ~Careless`), `LimitsHold` and `EveryRunCounts`. A pass counts in its copy and saves at its end, so the store lags
  behind what fired; the invariant `PassKept` says by how much: beyond its cursor the copy is the store, before it a
  row is at most one run ahead (`PassCounts`); what fired or was missed is what is counted, but for one run per kill
  (`CountsHold`); and no row, in the store or the copy, is past its limit, or due once it has reached it
  (`WithinLimit`).
* `ConsoleTunnelProofs`: `TypeCorrect`. `EndIsToldOnce` proves `EndsOnce` under every overlap, from the invariant that
  the count of a viewer's `onEnd` is one exactly when its stream has ended (`EndsCounted`): every path to the end
  first checks that the stream is still in the map. `LinesAreOwn` proves `OwnLines` where no close and no loss falls
  into an open's await. Ids begin anew with each life of the primary, so the invariant `IdInv` is about one socket:
  live streams have a link (`LiveLinked`) and ids of their own (`OwnIds`), a socket opens an id once (`OpenOnce`),
  every tail that runs is in the map (`Mapped`), a lost socket leaves nothing behind that would speak on the next
  (`CutClean`), and what is on its way belongs to the stream that has its id (`Owned`).
* `LifecycleProofs`: `TypeCorrect`, and the four safety properties of `Lifecycle`, each under the overlaps its
  statement excludes. `StopsAreFinal` needs that one operation at a time is at work, one wrapper at a time lives, and
  what outlived its session has been signalled (`AloneInv`); `ServersToldFirst`, that a stop has a running server
  before it until it has asked, and that the wrapper launches nothing once it has (`AskedInv`); `OneServerAtATime`,
  that a stop waits for the only server there is and leaves none (`SeenInv`); `MarksAreHonest`, that once a sampler
  has read anything but "running" the processes a restart began with are going or gone (`MarkedDown`), and that a pass
  drops a mark for no other reason before its time is over.
* `DaemonProofs`, upgrades: `TypeCorrect`, and the four safety properties of the run `upgrade`. `BinaryNeverHalf`,
  `JobsAreSpared` and `AnnouncedIsInstalled` share one invariant about each caller of each daemon (`Fine`): whoever is
  past `Begin` is the one upgrade that others join, so nobody else writes the staging file, which is therefore whole
  once staged and of the build that was announced. `ConsoleAlwaysServed` needs a second one (`CInv`): what the primary
  is about to put in place lies between what is there and the release, so that the console never overtakes its binary,
  and a console that is gone is between the two renames of somebody, or of one who failed or died there (`lost`).
* `PortsProofs`: `TypeCorrect`, `ProvisionsApart` (`HandedApart`) and `NoPortTwice` (`ServersApart`). Neither property
  is inductive: whether two files share a number depends on what copies of the registry are about to be saved. The
  invariant `Kept` says that the one operation that has loaded and not yet chosen has the registry as it is
  (`DecidesOnCurrent`), that a copy differs from the registry in the operation's own entry only (`ChangesItsOwn`),
  that a number being taken is in no other entry and no other hands (`TakenApart`), and that a number in a file is
  registered or about to be (`FilesKnown`).
* `AgentRunsProofs`: `TypeCorrect`, and the three safety properties of `AgentRuns`. The types already need that a
  message is in one place and there once (`Placed`), that one which starts, joins or is held by a run has one
  (`Homed`), and that what was saved is counted (`Counted`). `OneOwner` (`SessionIsOwned`) holds where no message is
  handled during a save: `OwnInv` says that only the run in the map is unsaved, that a message starts or joins one
  that still runs, and that who has read the saved session, and may start from it, read it after the last save.
  `ActsAsSender` (`OwnAuthority`) needs also that messages are handled one by one: with `MoverInv`, every queue is
  empty while a message is in its handler, and otherwise what is queued has been sent by the account the run holds the
  bearer of. `YesIsTheActors` (`OwnYes`) holds where nothing overlaps: bearer, mode and an allowed call of a run are
  all its actor's, and no change of mode is on its way (`YesInv`).

Model-checked only: every liveness property (`CrashUnlocks`, `CallsSettle`, `LinkStabilizes`, `DueIsSettled`,
`SavesArrive`, `Converges`, `TailsStop`, `NothingForgotten`, `Settles`, `Rescued`), because fairness and ENABLED are
beyond the prover. Functions defined by recursion over data could be checked but not proved for every input, since that
takes an induction principle over operators; no module uses one.

## 5. What is not modelled

Within the modules:

* `WorldSwap`: a journal write that throws leaves the old journal or a torn one, never the whole new one. A recursive
  removal and a rename are single steps that happen or not; the contents of a world are a lineage. What fills the
  staging directory (an upload, an archive, a copy) is one step.
* `ClusterLink`: progress and event frames; heartbeat numbers are abstracted to whether a ping is answered. A follower
  of another protocol is in `StateSync` (what it is not sent) and `Upgrade` (how it is rescued).
* `Backups`: `backups.json` is written whole or not at all, and the thaw's command reaches a server that runs; archive
  contents, sizes and checksums; a verification only reads and marks. The kill of the game server is
  `ServerStop`.
* `Scheduler`: the fields of a cron expression, the event log, and the creation of a schedule is one step, although the
  code loads and writes the store around it like every other edit.
* `StateSync`: what is in a file; the list of files is their order.
* `ConsoleTunnel`: what a line says beyond whose console it is from.
* `Lifecycle`: what a start prepares (runtime, environment, managed files), the world lock it checks (`WorldSwap`), a
  start refused with 409, whose mark stays until the 180 s limit, and the progress tree.
* `AgentRuns`: questions to the user, attachments, compaction, messages taken back while they wait, panels that ask on
  their own, background tasks themselves and the time a run lingers. Their reports are messages.
* `Upgrade`: platforms, sizes, the console's stamp, the progress shown; a from-source run refuses to upgrade. A job is a
  number: its tree, watchers and pruning are left out.
* `Ports`: edits of the catalogue of pools, the ports of plugins and the audit of ports found in use.

Components left out, and why:

* Accounts, environment, addons, domains: their state is one more file that is loaded, changed and saved whole, the
  shape `Scheduler`, `Backups`, `Ports` and `StateSync` show, around text, downloads or a provider's zone. Policy
  evaluation is a pure function with table tests of its own. Two hazards of `PROJECT.json` have no property for this
  reason: a sign-out undone by a session being resolved (`accounts.ts:1165`), and the day an interval is credited to
  (`uptime.ts:154`).
* Player data, lists, events and the journal: files another program owns, parsed and formatted, and logs whose order
  nothing depends on.
* RPC, the local server, the command line and the web console: tables of operations, arguments and pages. What an
  operation does is in its component's module; the routes that hold state across awaits (schedules, state) are modelled
  with it.

Most of the repository's lines are these pages, texts, providers and parsers. The share of it the models cover is small,
and is the part whose correctness depends on order, failure and time.
