# A TLA+ development for locai-link

locai-link is an edge agent: a Python runtime that runs AI pipelines on a
device under the direction of a control plane ("Control"), and a Rust desktop
program whose supervisor launches the runtime, restarts it and rolls back a bad
update. This directory holds TLA+ modules translated from that code, TLC
configurations that check them on small instances and proofs that TLAPS checks.
Paths below are relative to the repository.

## The system and its hard parts

| Part | State | Operations | What is hard |
|---|---|---|---|
| Bundle updater (`src/link/app/updater.py`) | `versions/<v>`, `current`, `previous`, `.update-pending`, `staging/` | `swap_bundle`: resolve, download, verify, unpack, self-check, flip, stamp, swap UI apps, collect | a kill between any two file operations; a resumed download; garbage collection against rollback |
| Supervisor and bootstrap (`crates/link/src-tauri/src/supervisor/`) | `ControlState`, the child, back-off | spawn, poll, interrupt, exit codes 42/0/other, `try_rollback`, bootstrap | shares only the disk with the updater; a kill hides the exit code |
| Process entry (`src/link/main.py`), onboarding (`app/onboarding.py`) | session files, fleet marker | register, run, redeem a key, exit codes | retries of a request that rotates the key; kills; two runs at once |
| Agent runtime: deploys (`app/runtime.py`) | `_agent_workers`, `pipeline_configs`, `models/`, download locks | DEPLOY_MODEL on a worker thread, CANCEL_DEPLOY, UNINSTALL_MODEL, shutdown | threads, two locks, a lock per file, cancels at any moment |
| Agent runtime: pipelines, `reconfigure.py`, `state.py` | `pipelines`, configs, session file | start, stop, update, serve, apply a config and revert it | slow work outside the lock, revert after partial failure |
| Health server (`infra/health_server.py`) | deployment rows, serving, transport | snapshot, progress, queue a row, dispatch | read by other processes while workers write |
| Command intake (`components/command.py`, `http.py`, `zenoh.py`) | window of seen ids | deliver once what arrives by HTTP and by Zenoh | duplicates, order, handlers that raise |
| Uninstall reports (`runtime.py`) | queue file | queue, flush | late delivery after a new deploy |
| Logger (`utils/logger.py`) | handlers, queues, workers | report, send with retries, rebuild | a rebuild while threads report |
| llama-swap manager and engines (`plugins/language_model/`, `plugins/audio_transcriber/`) | models, process, pid file; engine, watcher, heartbeat | add, remove, reload, reclaim; start, stop, transcribe | two locks taken in both orders; flags without a lock |
| Serving proxy (`infra/serving_proxy.py`) | server, in-flight requests, telemetry | start, stop, forward, count | stopped under a lock its handlers wait for; clients that hang up |
| Artifact store (`infra/artifact_store.py`, `engines.py`), plugin installers | engine directories, marker, tag files | fetch, verify, extract, swap in; clone and build | two processes at once, kills, a refused lock |
| Zenoh transport (`infra/zenoh.py`, `provision.py`) | router files, service, session | provision, boot, connect | kills during provisioning |

The components interact through calls inside one process (runtime, health
server, plugins), through the disk and an exit code (runtime and supervisor),
through a loopback HTTP port (UI and runtime, clients and proxy) and through
Control. What makes each correct: the updater and supervisor always leave a
version that can run, and answer every exit; a deploy publishes only a whole file,
is answered once and can be cancelled; an uninstall takes away only what nobody
uses; a reconfiguration is published only when it is applied wholly; the session
says what runs; a command is done, in order; a report of a removal is not
forgotten; an adapter that is on is served and one that is off leaves nothing
behind; a stream is counted once and rightly; what is taken for installed is
whole; the saved api key is the one Control accepts. The hazards behind these,
each at its line, are in `PROJECT.json`.

## Modules

| Module | Models | Composes / extends |
|---|---|---|
| `VersionSlots` | the promise of the update machinery: usable versions, one of them live, moved in single steps | – |
| `Ota` | `swap_bundle`, `gc_old_versions`, the supervisor loop, `try_rollback`, bootstrap | instance of `VersionSlots` with a refinement mapping |
| `Download` | `download` and `verify` over many runs and releases | – |
| `Deploy` | DEPLOY_MODEL, CANCEL_DEPLOY, UNINSTALL_MODEL, the deployment rows | – |
| `Pipelines` | pipeline lifecycle, reconfiguration, session file | – |
| `SwapManager` | llama-swap manager with the adapters that share it | – |
| `EngineServer` | the engine a plugin serves itself, and its three threads | – |
| `ServingProxy` | the reverse proxy's lifecycle and handlers | – |
| `ChatTelemetry` | the parser that counts a chat completion | – |
| `CommandDelivery` | command sources and the deduplicating sink | – |
| `UninstallReports` | the reports of local removals and their queue | – |
| `Reporter` | log and report handlers, their workers, the rebuild | – |
| `ArtifactStore` | engines fetched on demand | – |
| `PluginInstall` | the installers of llama-server, llama-swap, whisper-server | – |
| `Onboarding` | register, run's identity ladder, session files | – |
| `ZenohTransport` | provisioning and connecting to a Zenoh router | – |
| `SwapEngine`, `Engines` | the engines as parts of the runs below | instance of `SwapManager`; two of `EngineServer` |
| `DeployProofs`, `PipelinesProofs` | theorems | extend the module they are named after |
| `OtaProofs`, `ProvisionProofs`, `ReportingProofs`, `OnboardingProofs`, `ServingProofs` | theorems about a component and its instances | extend the MC module of that name |
| `ReconfigProofs` | the theorem on reconfigurations, for the two devices of `MCPipelines` | extends `MCPipelines`, two instances of `PipelinesProofs` |
| `MCOta`, `MCDeploy`, `MCPipelines`, `MCServing`, `MCReporting`, `MCProvision`, `MCOnboarding`, `MCSwapManager` | the small instances for TLC | see below |

An MC module that covers several parts extends one component and has an instance
of each other one (or of the same one with other constants), its variables
renamed. The variable `part` is chosen at the start; a step is a step of that part,
and the other parts stay in one of their first states. The state spaces of the
parts add up and are not multiplied, and a property is the conjunction of what the
parts promise. Where theorems are about an instance, its constants are constants of the
MC module (`YankVersions`, `StoreFaults`, ...), which only the `.cfg` gives values: what
is proved is the very property that the run checks. Parts that only wait in such a run are not composed with each other:
what one component does to another is inside the component's own module (`Deploy`
has the pipelines an uninstall can see, `Pipelines` the commit of a deploy,
`SwapManager` the proxy it starts and stops, `ServingProxy` the manager's lock).

Definitions named "Mutant" in a comment are wrong versions of the definition
that follows them. They are used nowhere in the specifications; substituting one
shows that the property named in `PROJECT.json` would notice that mistake.

### Ota

`dir[v]` says what is under `versions/<v>`: nothing, part of a tree, a complete
tree, or one that passed `self-check` (or came whole from the installer or the
bootstrap). `current`, `previous` and `stamp` are the three files the updater and
the supervisor share; `fresh` says whether the stamp is inside the health window.
`pc` is where the child is in `swap_bundle`, `sup` where the supervisor is. Each
action is one file operation that is atomic by itself; removing or unpacking a
tree takes two actions with a partial tree between. `Interrupt` (Stop, Restart, a
changed identity) and `GoesDown` (power loss, the unit restarted, the UI swap
taking the process down) may come between any two. `SwapFails` is every exception
out of `swap_bundle`. `identity` says whether
`read_identity` finds a registered session: without one the supervisor launches nothing
(`MayLaunch`) and idles until `locai register`; `SessionChanges` registers, wipes or tears
the session at any time. The release server may publish newer versions at any time;
with `AllowYank` it may also go back.

Abstracted: the two shapes of a pointer (symlink, file) are one atomic pointer;
modification times in `gc_old_versions` are a free choice among the unpinned;
time is the single event `WindowCloses`; versions are numbers; the supervisor's
back-off and the one-shot restart flag are free choices; checksums and signature
checks either pass or end in `SwapFails`. A freshly published asset that is not
there yet (exit 42) is the first disjunct of `Resolve`.

### Download

A byte is a pair of its release and its position, so a file mixed from two
releases is visible. The partial outlives failures, kills and releases, because
releases publish stable asset names and only a successful update clears
`staging/`. The server honours ranges or does not, fixed at the start; a range
that begins at or after the end is answered with 416. `MaxFaults` bounds refusals,
cut streams, short reads and kills together, so that liveness asks what happens
once the faults are over.

### Deploy

A critical section under `self.lock` is one action, and what runs outside it is cut
where other threads can look. `phase[c]` is where the worker of deploy `c` is,
`dlock` the per-file download lock, `starting` the holder of `_pipeline_ops_lock`
while a pipeline is built. The contents of a file are "none", "short" or "whole".
An exception, a refused request and a cancelled stream end a worker in the same
`EndsFailed`, which reports, drops the row and leaves the lock; these calls touch
different objects and are one step. A cleanup or a save that fails is only logged,
so both outcomes are allowed. `ProcessRestarts` loses memory and keeps files.
Pipelines start and stop only as far as deploys and uninstalls can see it; but every
other writer of `pipeline_configs` is there: START_MODEL with a config and UPDATE_PIPELINE
(`Pushed` says for which pipelines), and a reconfiguration with its revert (`Targets`).
`exposed` is a history variable: the pipelines whose config was written while their file
was missing or about to be unlinked.

### Pipelines

`base` is `agent_config`, `mem` is `pipeline_configs` and `cache` the session; `shared`
records which objects the first two have in common, because START_SERVING changes
one in place. `pipe` is the tracked instance of each pipeline, `live` counts its
threads: a stop that times out leaves one behind. A thread takes a command
(`Receive`), and `pc` follows it through the unlocked and the locked parts of the
handler; `ops` is `_pipeline_ops_lock`. A start or a stop may fail at the points where
the code catches an exception. Reconfiguration takes its snapshot, diffs, swaps one
pipeline at a time, publishes, saves, and on failure reverts the same way;
`RestartsForConfig` is the restart it asks for when the revert fails too. A config is a version, the serve flag
and the active flag. `told` has the tracked instances that were told to stop and did not
in time.

`StateManager` has no lock of its own: its callers hold `_pipeline_ops_lock`, `self.lock`,
both or none (`UnderOps`, `UnderLock`). A save is one step (`Saves`); when another
thread may be in a save that is not excluded by a common lock (`Overlapping`), the step
has every outcome the interleaving of the two can have: the later one puts back the
entry or list it had read before (`Undone`), the file gets what either dumped, or a mixture
that does not parse. `file` is what a start would read. `SaveFaults` says whether a flush
may fail or be cut short (`fail`) and whether saves overlap (`race`); `saved` remembers
whether the last flush was clean and whether any two saves raced.

### SwapManager and EngineServer

In `SwapManager` an adapter is constructed (get the manager, register its callback,
add the model, reclaim, spawn, record the pid, settle) and torn down (unregister,
remove, stop the engine, pop the registry); `lock` and `glock` are the manager's and
the registry's lock. `procs` is what runs under each pid, so that a pid reused by
another program is visible; it may be one whose command line has the name and the
address that `_looks_like_our_llama_swap` looks for (`alike`). `Faults` names what may go wrong: a teardown that outlives
the runtime's wait (`overlap`), an engine that exits at once (`dud`), signals that are
refused (`denied`), kills of the agent (`crash`). `EngineServer` has the flags of
`ModelServer` or `WhisperServer` (`running`, `ready`, `stopEvent`) and the steps of the
pipeline's thread, the health watcher and the adapter's thread; no lock orders them, so
each read and each write that another thread can see is a step of its own. A transcriber without
its audio file stops its engine and raises in the constructor. Hosts are
POSIX; the Windows reload, which restarts the engine, is left out.

### ServingProxy and ChatTelemetry

`ServingProxy` has one handler per request: route, ask upstream, write headers, copy,
close, fire the record. `call` is where the manager is in `start` or `stop`, under its
lock, and `Fire` needs that lock. The status of the upstream's answer is not looked at:
an error is written, copied and counted like a completion, but takes no slot (`inferred`
has the requests that did). Clients may leave at any moment, another program may
take the port between the check and the bind. Only Windows' reuse of a bound port, the
forwarding of headers and the sanitising of origins are left out. In `ChatTelemetry` a
body is a sequence over five symbols (the text `data:`, an object with content, one
with a usage block, line feed, carriage return), cut into chunks in every way;
`Expected` is the reference definition, over the whole body at once.

### CommandDelivery, UninstallReports and Reporter

`CommandDelivery`: Control's backlog, live samples, the batch of each source, the
window of each sink, handlers that raise, lost status reports, a restart. A command
stays in the backlog until its report arrives; that half is Control's and modelled from
how `HttpPoller` uses it. `ran` counts the returns of a command's handler and
`answered` the final reports: a DEPLOY_MODEL returns at once and is answered by its
worker (`Deploys`, `work`; module `Deploy` has the worker's steps), so `InOrder` is about
the handlers and `EveryCommandAnswered` about the answers. `UninstallReports`: a worker
that posts and then queues, the main loop that flushes under the lock; `Faults` adds
kills, failing writes and failing reads of the queue file. A read that fails is taken for
an empty queue, and the next report overwrites what was there; the history variable
`unread` has the reports that were lost in this way. `Reporter`: threads put records into
the bounded queue of the attached handler, its worker sends with retries,
`rebuild_handlers` closes, joins with a timeout and attaches. A request that is given up
may arrive at any later time (`late`, `LateArrives`), after its retry and after later
records; `timely` marks the arrivals for which the worker still waited.

### ArtifactStore and PluginInstall

A directory in `ArtifactStore` is the set of archives its files come from, whether it is
whole, and its marker, so that a mixture of two versions is visible. Each process
resolves a variant, checks, locks, downloads, verifies, extracts into staging, marks,
renames twice and looks for its binary. `LockFails` lets the lock be refused, as on
Windows after 120 s; `DeletionFails` lets the removal of old staging do nothing, which
`rmtree(ignore_errors=True)` hides. `PluginInstall` has one installer at a time over many runs and
pinned releases, with the choice of a prebuilt archive from the device's tools as an
operator; each run may fail or be killed at every step.

### Onboarding and ZenohTransport

`Onboarding`: requests in flight to Control, which rotates the api key with each
redemption; session files named by local time; the fleet marker. `Late` lets a request
that timed out arrive later, `ClockBack` the local time go back, `Faults` has kills,
wiped sessions and failing writes. `run --config` resumes a session file it names or
bootstraps a raw configuration, without a look at the marker or at other sessions
(`Given`); `from` in a session says what it was made from.

`ZenohTransport`: two archives that are downloaded, unpacked and removed, each a step of
its own, as is the `chmod` of zenohd; the router's service (`none`, `stopped`, `loaded`),
attempts to connect, and the supervisor's restart of an agent that ended and has an
identity. `IsRunning` has the answers `is_running` may give: on macOS a label that is
loaded counts, whatever became of its process, so a start may go on without a router.
`Stall` is a download or a service command that never returns, for none has a timeout;
`Unregister` loses the identity, and nobody promises `Register`. A kill may come between
any two of these steps.

## Runs

| Run | Checks | Bounds | States |
|---|---|---|---|
| `ota` | live version and rollback target usable, running version kept, refinement of `VersionSlots`, every exit answered; with releases that may be taken back: live version present, running files whole | 4 versions, one fails its self-check, only the first never crashes, 2 power losses; 3 versions and 1 loss when yanked | 737 976 |
| `deploy` | no shared partial, no short file, no orphaned worker, no stuck row, one answer, cancel wins | 3 deploys, 2 pipelines, 1 file, 1 restart | 2 279 741 |
| `deploy_uninstall` | an uninstall unlinks only what nobody it could see uses | 2 deploys, 1 forced uninstall, 1 restart | 1 163 634 |
| `deploy_live` | every accepted deploy is answered | 2 deploys of one file, 1 restart | 150 075 |
| `pipelines` | no pipeline runs twice, session faithful, a config published only when what it says is tracked and what it drops has ended, the shared engine serves whoever is on, no foreign process killed | 2 threads, 1 pipeline, 1 kill, saves that fail or overlap; 2 threads that reconfigure; 2 pipelines; 2 adapters, 3 pids, 1 crash | 2 230 294 |
| `serving` | open responses are those somebody closes and fit the slots, a started proxy listens, one right record per answer that began, no engine left behind; stops return, polls are answered, slots are freed, threads end | 2 requests, 2 starts, 1 slot; bodies of up to 5 pieces; both plugins; 2 adapters without faults | 169 124 |
| `reporting` | no report forgotten, the queue survives faults except a file that cannot be read, commands and reports in order; commands are answered, reports are settled | 2 models, 2 deploys, 3 or 4 faults; 3 commands over one transport with 3 faults, 2 over both with 1, one of them a deploy; 2 threads, 2 records, 2 retries and 1 late request for each record, or 1 rebuild | 104 983 |
| `provision` | the partial is byte-exact and completes unless oversized; an engine's directory is whole and installed once, every call ends; what counts as installed starts | 3 releases of size 2, 2, 3, 4 faults; 2 processes, 2 versions, 3 devices, 2 faults; 3 engines, 7 devices, 3 tags, 2 faults | 248 949 |
| `onboarding` | the saved key is Control's, an enrolled device stays one, the zenohd that is found is whole and executable; the agent comes online | 4 starts of every kind, `--config` too, 2 attempts, 2 faults; 2 processes with late requests; 5 attempts to connect, 7 transport faults | 369 729 |

Four versions are what a swap, a rollback target, garbage and a version to come
need at once. Two deploys for one pipeline and one for another of the same file are
the smallest instance in which a worker can be replaced in the registry and two
workers meet at a lock. Two threads are what a lock needs, two pipelines what a
partial failure needs (the second start fails after the first succeeded). Five pieces
hold a whole event, a delimiter of either kind and a cut inside each. The device sets
have one member for each way the choice of a variant can go. Deadlock is checked in
`ota` and in `pipelines`; in the others commands, requests and starts are finite sets
that may be used up.

## Fairness

| Module | Assumed | Because |
|---|---|---|
| `Ota` | WF of the supervisor's steps and of a started `swap_bundle`; nobody promises to register the device | its thread loops for ever; every network call and the self-check have timeouts |
| `Deploy` | WF of each worker and of a start in progress, SF of `CommitDeploy` | both HTTP timeouts are set; the lock that starts take again and again is in the end granted |
| `Download` | WF of a started update and of asking again | Control and the companion app ask while the device is behind |
| `Pipelines` | SF of each thread | threads run, and a lock that is free again and again is in the end granted |
| `SwapManager` | WF of each call | its subprocess calls have timeouts; the liveness run is without overlap, so a call waits for the ops lock and then for no other |
| `EngineServer` | WF of the watcher, the adapter's thread and a `stop()` that began | each polls with a timeout |
| `ServingProxy` | WF of `start` and `stop`, of accepting, handling and firing; a stream's end promises nothing | a thread per request |
| `CommandDelivery` | WF of polling, taking, dispatching, of a handler's end and of a deploy's worker | sources loop, handlers return or raise, a worker answers (`DeployAnswered`) |
| `UninstallReports` | WF of requests and of the flush, SF of queueing | requests have timeouts, the lock is shared with the main loop |
| `Reporter` | WF of each worker's step, a put, the join and the attach; a late request promises nothing | the join and each send have timeouts |
| `ArtifactStore` | WF of each step of a call, SF of taking the lock | downloads time out, the lock dies with its holder |
| `Onboarding` | WF of a process's step | no request waits longer than its timeout |
| `ZenohTransport` | WF of the agent's steps and of finding a router that runs | the supervisor starts an agent that ended and has an identity; a call without a timeout may stall for ever, and nobody promises to register |

Users, clients, releases, crashes, kills and the clock promise nothing.

## Deviations

Where a docstring, a comment, a test or a README line of the repository says
something that the code does not do, the statement is a definition of the module and
TLC refutes it. Three of these have a run of their own, quoted in `PROJECT.json`
"findings":

- `deploy_unlink_race` (`ConfiguredHasFile`): an uninstall past its check unlinks the
  file of a pipeline deployed meanwhile from the cached file (`runtime.py` 1035).
  A start, an update or a reconfiguration that brings a config for the file in the
  same window loses it too. `UnlinkSparesConfigured` shows that a pipeline configured
  when the uninstall looked is safe, whoever else writes configs.
- `pipelines_revert` (`RevertKeepsDeployed`): a failed reconfiguration reverts to
  `agent_config`, which does not have the models deployed since (`reconfigure.py` 87).
- `swap_cycle` (`NoLockCycle`): `remove_model` and `get_swap_manager` take the two locks
  in opposite orders; a teardown that outlives the runtime's wait and a construction
  block each other (`swap_manager.py` 198 and 59-67).

The others stay in the modules as refuted statements; each line names the constants
under which TLC finds the counterexample at once.

| Statement | Module, with | What the code does |
|---|---|---|
| `FailedUpdateIsNoRollback` | `Ota` | a failed update exits 1 "gracefully" (`main.py` 435); inside the health window of the previous update the supervisor rolls the healthy version back (`mod.rs` 344) |
| `NewVersionRevertible` | `Ota` | `current` is flipped before the stamp is written (`updater.py` 1537): a kill between leaves a version that cannot be rolled back |
| `CancelledNotPublished` | `Deploy` | a cancel between the last check and the rename still publishes the file (`runtime.py` 788); its config is not committed (`CancelWins`) |
| `RunningNotRemoved` | `Deploy` | a pipeline started after the unlocked check (`runtime.py` 974) is uninstalled while it runs |
| `ResumedDownloadCompletes` | `Download` | a partial as long as the asset gets 416 for ever (`updater.py` 344); `CompletesUnlessOversized` shows it is the only way to get stuck |
| `CommitPersisted` | `Pipelines`, deploys and reconfigurations | the session is replaced after the lock is left (`reconfigure.py` 96): a deploy in between is wiped from it |
| `RunningConfigured` | `Pipelines`, starts and reconfigurations | a pipeline in neither config is not stopped and loses its config (`runtime.py` 453) |
| `InferenceMode` | `Pipelines`, kinds serve and infer | START_SERVING leaves `mode=serve` in the stored config (`runtime.py` 245) |
| `RemovedStaysRemoved` | `Pipelines`, kinds start and uninstall | a start that holds a copy saves it again after the uninstall (`runtime.py` 540) |
| `SessionSurvives` | `Pipelines`, `SaveFaults` with fail | the session is truncated and rewritten in place (`state.py` 228) |
| `RunningMarked` | `Pipelines`, `SaveFaults` with race, kinds start and serve | START_SERVING's save under `self.lock` (`runtime.py` 253) overlaps `set_pipeline_status` under the ops lock (544): it puts back the entry it read, and a running pipeline stays inactive in the session |
| `PublishedRuns` | `Pipelines`, stops and reconfigurations | a stop that timed out leaves the instance tracked with its stop event set (`runtime.py` 572); a later apply or revert to the identical config skips the restart (495) and publishes it while it ends |
| `OneManager` | `SwapManager`, fault overlap | the last model is removed between `get_swap_manager` and `add_model` (`swap_manager.py` 68) |
| `OthersSpared` | `SwapManager` | the name and the listen address are looked for anywhere in the command line (`swap_manager.py` 418-423): a program of someone else that got the pid and has both, such as a longer port that begins alike, is terminated |
| `OrphanReclaimed` | `SwapManager`, fault crash | the pid is written after the spawn (`swap_manager.py` 287) |
| `NothingLeft` | `SwapManager`, fault dud | a model registered before its engine failed to start stays (`swap_manager.py` 174) |
| `ReadyIsRunning` | `EngineServer` | the watcher sets `ready` after a `stop()` (`server.py` 196) |
| `StartServes` | `EngineServer`, `CanFail` | a port in use is logged and `start()` returns (`server.py` 115) |
| `DeathNoticed` | `EngineServer` | the heartbeat looks at a flag that only `stop()` clears (`audio_transcriber/adapter.py` 142) |
| `ResultYielded` | `EngineServer`, transcribing | the thread queues its result and ends between the look at the queue and the look at the thread (`adapter.py` 83) |
| `InstalledIsWhole` | `PluginInstall`, `Downgrades` | a killed extraction leaves the old tag file (`install.py` 384): with the pin moved back it vouches for what is there |
| `NoDoubleWork`, `EngineIntact` | `ArtifactStore`, `LockFails` or `DeletionFails` | installers without the lock share staging, sidecar and archive (`artifact_store.py` 392); old staging that cannot be deleted is extracted over (466) |
| `BinaryThere` | `ArtifactStore` | the lookup runs without the lock while another process swaps (`engines.py` 77) |
| `EngineKept` | `ArtifactStore` | a kill between the two renames leaves no engine (`artifact_store.py` 424) |
| `AtMostOnce` | `CommandDelivery`, both sources | each pipeline has a sink and a window of its own, and an id is recorded when its handler is done (`command.py` 48) |
| `NoForgottenReport` | `UninstallReports`, `Faults` with kill | a report is in memory until its first delivery failed (`runtime.py` 1070) |
| `NothingUnread` | `UninstallReports`, `Faults` with read | a queue file that cannot be read or parsed counts as empty (`runtime.py` 1107), and the next report overwrites it (1128); `ReadsLoseReports` proves that it is the only way |
| `ArrivesInOrder` | `Reporter`, `MaxLate` 1 | a request that timed out and was given up is still under way (`logger.py` 306) and may arrive after the next record: "started" after "completed" |
| `DeployedIsShown` | `UninstallReports` | a deploy does not take its model out of the queue (`runtime.py` 1142) |
| `NoRecordLost`, `OldWorkerStopped` | `Reporter`, two handlers | records put after the worker ended are lost; the join times out while the worker retries (`logger.py` 166, 244) |
| `OneRecordPerInference` | `ServingProxy` | the headers are written before the `try` whose `finally` counts (`serving_proxy.py` 418) |
| `RecordsAreInferences` | `ServingProxy` | an error of the upstream is counted like a completion (`serving_proxy.py` 405-454) |
| `EveryResponseVaries` | `ServingProxy` | 404 and 502 go out through `send_error` (`serving_proxy.py` 359) |
| `SavedKeyWorks` | `Onboarding`, `Late`, or two processes | a request given up is redeemed after its retry (`onboarding.py` 199); two runs overlap (`main.py` 183) |
| `RegisterRegisters` | `Onboarding` | any session counts as a registration (`main.py` 183); a write that fails is only logged (`state.py` 235) |
| `SessionFound` | `Onboarding`, `ClockBack` | sessions are named by local time and the last name wins (`state.py` 85) |
| `ConnectsAtLast` | `ZenohTransport`, fault kill or unpack | an archive that exists, a cut one too, is never unpacked again (`provision.py` 81); a cut zenohd counts as installed, and one whose `chmod` did not come is never made executable (58-63). `ConnectsUnlessDamaged` shows that these are the only ways |
| `<>[]Online` | `ZenohTransport`, fault stall | neither the download (`provision.py` 88) nor a service command (`service.py` 346, 355) has a timeout: the first disjunct of `ConnectsAtLast` fails alone |
| `BackendThere` | `ZenohTransport`, fault backend_dl | provisioning asks only for zenohd (`zenoh.py` 156) |

A statement that the model makes weaker than one may expect: `run --config` with a raw
configuration makes an enrolled fleet device another agent without a look at the marker
(`main.py` 70-79). The fail-loud comment (`main.py` 108) is about starts without a
configuration, so `FleetFailsLoud` allows it.

## Proofs

A theorem holds for every value of the constants that its hypotheses allow. The
hypotheses are of two kinds: the types of the constants (`ASSUME`s of the component's
module, or a predicate such as `SwapConstants` where the component is an instance),
and the absence of a fault under which TLC refutes the property (the table under
Deviations names it). Each inductive invariant below was checked by TLC on a small
instance before it was proved; so was the need for each hypothesis.

| Theorem | States | For any | Hypotheses |
|---|---|---|---|
| `OtaProofs.LiveVersionSafe`, `RollbackTargetSafe`, `RunningVersionSafe`, `OtaImplementsSlots` | `LiveVersionUsable`, `RollbackTargetUsable`, `RunningVersionKept`, `ImplementsSlots` | versions, self-checks, crashes, power losses | `~AllowYank` |
| `OtaProofs.YankTypeCorrect`, `YankedVersionsSafe` | `TypeOK`, `YankedVersionsThere` | the same | none |
| `ProvisionProofs.ResumeIsExact`, `DownloadTypeSafe` | `ResumeExact`, `TypeOK` | releases, sizes, faults | none |
| `ProvisionProofs.InstalledSafe` | `InstalledIsWhole` | engines, devices, tags, faults | pins do not go back |
| `DeployProofs.WorkersReachableSafe`, `RenameFindsPartialSafe`, `PublishedWholeSafe`, `AnsweredOnceSafe`, `NoStuckRowSafe`, `UnlinkSparesSafe`, `CancelWinsSafe` | the properties of these names | pipelines, files, deploys, uninstalls, process deaths | none |
| `ReportingProofs.TypeCorrect`, `FaultyTypeCorrect`, `QueueKeepsReports` | `TypeOK` of `UninstallReports`, `QueueSurvivesFaults` | models, deploys, faults | none |
| `ReportingProofs.ReadsLoseReports` | `NothingUnread` | models, deploys, kills, failing writes | the queue file can be read |
| `ReportingProofs.NothingForgotten` | `NoForgottenReport` | models, deploys | no kill, no failing write, no failing read |
| `ReportingProofs.CommandsInOrder` | `AtMostOnce`, `InOrder` of `CommandDelivery` | commands, faults | one polled pipeline that is not rebuilt, a window for every command |
| `ReportingProofs.RecordsInOrder` | `ReportsInOrder` of `Reporter` | threads, records, queue bounds, retries, late requests, transports | a handler that is not rebuilt |
| `ReportingProofs.InOrderSafe` | `InOrder` | the two above together | those of both |
| `PipelinesProofs.TypeCorrect`, `OneInstanceSafe` | `TypeOK`, `OneInstance` | pipelines, threads, commands, faults | none |
| `PipelinesProofs.SessionSafe` | `SessionFaithful` | the same | no uninstall, no reconfiguration |
| `PipelinesProofs.AppliedWholeSafe` | `AppliedWhole`, and `OneInstance` with it | the same | no deploy |
| `ReconfigProofs.ReconfigWhole` | `ReconfigAppliedWhole` | whatever moves besides | the two devices of `MCPipelines` |
| `ServingProofs.SwapTypeCorrect`, `ForeignSparedSafe` | `TypeOK`, `ProxyHasEngine`, `ForeignSpared` | adapters, models, managers, pids, faults | none |
| `ServingProofs.EngineServesSafe` | `EngineServes` | the same | no overlapping teardown, a model per adapter |
| `ServingProofs.NothingLeftSafe` | `NothingLeft` | adapters, models, managers, pids | no fault, a model per adapter |
| `ServingProofs.LlamaStoppedSafe`, `WhisperStoppedSafe` | `TypeOK`, `EngineStopped` of `EngineServer` | modes, starts that fail | none |
| `ServingProofs.NoEngineLeftSafe` | `NoEngineLeft` | the three above together | those of `NothingLeftSafe` |
| `ServingProofs.TypeCorrect`, `StartedProxyListens`, `StreamFiresOnce` | `TypeOK`, `StartedListens`, `OneRecordPerStream` | requests, slots, starts | none |
| `ServingProofs.RecordCounts`, `ChatTypeCorrect` | `RecordIsRight`, `ChatTyped` | bodies, cuts into chunks, content types, clients that leave | none |
| `ProvisionProofs.StoreTypeCorrect` | `TypeOK` | processes, devices, versions, faults | none |
| `ProvisionProofs.EngineIntactSafe`, `NoDoubleWorkSafe` | `EngineIntact`, `NoDoubleWork` | the same | the lock is granted, staging can be deleted |
| `OnboardingProofs.TypeCorrect` | `TypeOK` | processes, starts, attempts, faults | none |
| `OnboardingProofs.SavedKeySafe`, `EnrolledSafe` | `SavedKeyWorks`, `EnrolledStays` | starts, attempts, faults | one process at a time, no late request, the clock does not go back |
| `OnboardingProofs.RouterWholeSafe` | `RouterWhole` | attempts, failing downloads, boots and connections, stalls, lost identities | no kill, no failing unpacking |

**Ota.** None of the properties is inductive. `IndInv` adds the order of versions
(`Ordered`: what is installed is newer than `current`, which is at least as new as the
stamp, so clearing the target of a swap never touches either), what the disk holds at
each step of the swap (`SwapInv`: before garbage collection starts, `previous` and the
stamp are the version just replaced, so both are pinned) and what the supervisor left
half-done (`SupervisorInv`). The refinement maps `live` to `current` and `usable` to the
accepted directories, and every step is an `Offer`, a `Withdraw`, a `Switch` or a
stutter. With releases that are taken back there is no order; `YankInv` says instead
that a swap never works on the version that is live or running (`NotLive`), which is
all that keeps the live one present and the running one whole.

**Download and PluginInstall.** While a response is streamed the server's position is
the end of the file. For the installers `Stamped` says that the tag file names the pin
only while no installer is under way, and then the engine is whole; `Progress` what is
on disk at each step, so that the stamp is written over a whole engine only; `Outcome`
that a run which ended well left its stamp. `Stamped` needs tags that only grow: an
extraction that was killed leaves the tag file of an older release.

**Deploy.** `Exclusion`: a worker between the lock and the rename holds its file's
download lock, so the partial it wrote is there, and past the guards it is whole.
`Answers`: a live worker is the registered one of its pipeline (and the registry holds
only a pipeline's own deploys), so its row is nobody else's, and it has not answered
yet. The lemma `WorkerEffect` reduces the ten steps of a worker to three effects (it
goes on, it ends with one answer, it deregisters); `Answers` is proved on those.
`UnlinkSparesConfigured` says that an uninstall past its check may take the file only of a
pipeline whose config somebody wrote after that check, or when the file was already
gone: `WrittenSince` is what is left of the check under `self.lock` when the unlink comes.

**UninstallReports.** `SentIsSettled`: during a flush, what is in the queue file and no
longer on the flush's lists has reached Control, or its model is back or has a new
worker; so replacing the file by what failed forgets nothing. It holds because the
queue changes only under the lock. What leaves the file in any other way is in `unread`,
and only a read that fails puts something there.

**CommandDelivery and Reporter.** The commands that were handled are always the first ones
(`DoneFirst`): whatever was issued after them is in the backlog, and a batch that holds a
command holds every undone one before it, so the callback runs the next in line
(`NextInLine`). A handler that raises ends its batch, and its id is not recorded; were
the batch to go on, a later command would be done first. The window matters: once it
forgets, the HTTP backlog brings back a command whose report was lost. For reports,
`InLine` and `HeldLast` say that what is being sent (and may be sent again after a
time-out), what is queued and what a thread is putting are in the order they were made;
`GoneIsPast` that nothing of it is older than what arrived or was given up and may still
arrive. So a late request can come after later records, which is all `ReportsInOrder`
allows, but never makes the worker's own arrival come too early. A rebuilt handler breaks it: a worker that `close` no longer waits for
is overtaken by its successor.

**Pipelines.** The invariant of every command has `LockHeld` (from the choice of what to
start to the save of what was started, and throughout a swap, the thread holds
`_pipeline_ops_lock`), `Fresh` (a pipeline is built only where none is tracked) and
`Counted` (a thread that runs is the tracked instance's); `OneInstance` follows.
`SessionFaithful` holds between commands only, so `SavedLater` says what holds within
one: memory and session agree on every pipeline but those a thread at its save is about
to put right; that needs `CopiesFit`, the copy which a start took is what memory still
has. Saves that race may undo each other (`UndoneBy`), but only by a thread that still
has its own save of that pipeline to make, so versions agree when all are done; the active
mark has no such second save, and `MarkedLater` holds only where no two saves raced.
Uninstalls and reconfigurations break `CopiesFit`. For `AppliedWhole`,
`SwapFits` says that every pipeline the swap is through with is as the new config says,
and the one at hand is on its way; nobody undoes it because whoever changes a pipeline
needs the lock, and because what runs has the version that memory has (`Tracks`), which
the commit of a deploy breaks. `ReconfigProofs` applies this to the two devices that
`MCPipelines` reconfigures: their constants meet the assumptions, and a step of the
composition is a step or a stutter of each.

**SwapManager and EngineServer.** `LocksHeld` and `ProxyInv` hold with every fault: both
locks are with the adapter at a step made under them, and the proxy is down before the
engine is stopped. Without overlap, `Alone` (one constructor or teardown at a time)
gives `Shared` (all adapters have the registered manager, it has their models, and is
given up only when it has none) and `Fresh` (one engine; its config file lists the
models, and it has read the file or has a SIGHUP on its way): so the engine serves
whoever is on. Without faults `Exact`, `Owned` and `Callbacks` say that models, engine
and callbacks are those of adapters that are still there. Two adapters with one model
would share its entry, and the first teardown would remove it: hence `OwnModels`. In
`LlamaInv` and `WhisperInv`, a caller of `stop()` that is past the termination left the engine dead, and
a server whose flag is down, at which a second caller turns back, has no engine.

**ServingProxy.** `PortInv`: while `bind` is pending no server is kept, so the port can
be taken only while none of ours is bound. `RecordInv`: at each step of a handler,
before the upstream answered there is no inference, before the headers no answer, before
the last step no record. `SlotInv`: the open responses are those of the handlers between
headers and close, and the completions among them a finite set within the slots.

**ChatTelemetry.** What the client was sent falls into complete events, which follow
each other, and an open rest; the reference `Expected` reads them off the whole body
with a recursive function, while the parser only ever sees its buffer. `Inv` says that
the buffer begins where an event begins and runs to the last byte sent, and that
`chunks` and `usage` are what the events before it say (`Parsed`); between two chunks
the buffer holds no delimiter. `Kept` is the same of a JSON body, which is kept whole.
Three facts carry the step that consumes an event. Of the two kinds of delimiter,
`EventEnd` finds the one that is complete first (`EventEndFirst`), and until then the
event stays open (`OpenSinceStays`). Where an event begins does not depend on the bytes
that follow (`OpenSincePrefix`), so events that were complete stay what they were. And
the new event lies behind the old ones, so its data lines are new in the count: the
cardinality of a disjoint union. What `OpenSince` is for every length needs an
induction, which is made over sets: a set of naturals that has 0 and the successor of
each member has all of them (`NatInd`, from the theorems on finite sets), and the
recursive function is first shown to exist and to meet its equation
(`OpenSinceExists`). Bodies are any of `Seq(Bytes)`.

**ArtifactStore.** The types include that the lock is with the process that works on the
directories. Where it is granted, `WorkFits` says what that process knows at each step:
a verified archive is the one it wants, staging is empty before the extraction and whole
after it (hence the hypothesis that old staging can be deleted), its marker is right before the renames, and what it replaces is another
engine, because the marker was looked at again under the lock.

**Onboarding and ZenohTransport.** `FilesInv`: sessions are named in order, a process
onboards only where none can be loaded, unless it was given a configuration, and writes the
newest. `KeysInv`: a request
under way is one whose answer is waited for, so the answer and every session that can be
loaded have the key Control knows. `FleetInv`: an enrolled device has its marker, and
whoever takes the default configuration saw none. For the router, `RouterInv`: only the
part that is worked on has an archive, zenohd is cut only while it is unpacked, and it
lacks execution only until the `chmod` that follows. A kill at either place breaks it.

Only model-checked:
- liveness under fairness and everything else with `ENABLED`, which is out of the
  prover's reach: `ExitIsAnswered`, `DeployAnswered`, `RequestsServed`, `ThreadsEnd`,
  `CommandsEnd`, `ReportsSettled`, `CompletesUnlessOversized`, `OnlineAtLast`, and the
  half of `OneInstallThatEnds` that says that every call ends;
- the deviations, which TLC refutes.

## Plan

Done: the modules above; every invariant and every action property that a passing run
checks is proved, `NoDoubleWork` of `OneInstallThatEnds` included. Worth doing next:

1. `SupervisorControl`: the restart flag, the exit-0 latch, the epoch the
   tray's update lock waits for.
2. The serving and transport fields of the health server and its update poll.
3. An abstract specification of `Pipelines` (a session, what runs, a reconfiguration
   as one step) and its refinement outside the deviations.

## Not modelled

`heal_legacy_layout` (a one-off migration that runs an installer), the choice of
release assets by name, archive extraction safety; configuration models and templating
(validation without state); the HTTP adapter, the service units and the utilities
(wrappers around the OS); the component registry and the basic sources and sinks
(stateless); the classifier plugins (external inference libraries); the desktop UI;
bundling and packaging scripts; the status, update and self-check subcommands; Windows'
reload of llama-swap and its reuse of bound ports; formatting of logs and headers.
`PROJECT.json` "components" lists each with its reason.
