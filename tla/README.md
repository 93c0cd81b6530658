# AioLM: a verification project for the core of the desktop application

AioLM is a Tauri application: a Rust core (`src-tauri/src`) that starts local model
servers, keeps several of them loaded as sessions, offers them to a chat window and to an
external HTTP API, installs the runtimes the servers need, downloads and updates models,
measures and publishes benchmarks, and has to close all of it cleanly.  The project models
the part of that core where two commands, a background task, another instance of the
application, a dying process or the exit can meet in an order nobody planned, and where
files are left between two of their steps.  Paths below are relative to `src-tauri/src` unless
they begin with `src/`, `docs/` or `packages/`.

## Inventory

| Part | State | Operations | Meets others through |
|---|---|---|---|
| Model sessions: `server.rs`, `session.rs`, `commands/server.rs`, `commands/sessions.rs` | one `ServerState` per session behind a mutex (lifecycle, 64-bit launch generation, tracked child, private key, active requests, retired), the registry of entries, the cancel token of every pending start | start, stop, unload, unload idle, replace all, reap a dead process, count activity | `AppState.operation` (a fair async mutex), the session locks, `exiting`, `runtime_busy` |
| API router and leases: `gateway/routing.rs` | none of its own; a `Lease` per request | snapshot, acquire, `Lease::begin`, `Lease::drop` | session locks |
| Shared-resource jobs: `commands/runtimes.rs`, `providers.rs`, `benchmark.rs`, `discover.rs`, `launch.rs` | `runtime_busy`, cancel flags | install, register, benchmark, download, verify, cancel | `operation`, the lifecycles of every session, `exiting` |
| Closing: `lib.rs`, `state.rs`, `commands/app_update.rs` | `exiting`, `normal_exit` | quit, install an update, hand the update's gate back | every cancel flag, the process owner, the session locks |
| Process owner: `procutil.rs` | the set of owned process trees, `closed` | register, terminate all, resume | sessions (spawn), closing |
| API listener: `gateway.rs`, `commands/gateway.rs` | the running listener, `api_control` | start, publish, stop, abort | closing |
| Cancellable jobs: `launch_jobs.rs`, `media/jobs.rs`, `models/scan_jobs.rs` | running ids, tombstones of cancelled ids | begin, cancel, cancel all, drop | commands issued by the window |
| Benchmark history: `benchmark/store.rs`, `benchmark/store/*` | a journal per run, tombstones, receipts, cache markers, activity markers, run locks | begin, checkpoint, finish, import, list, delete, acknowledge, prune | the file system, other instances |
| Benchmark sharing: `commands/benchmark_sharing.rs`, `benchmark/sharing/*` | epoch, generations, permits and requests in memory; vault, ownership records, intents and backups on disk | prepare, verify, poll, submit, manage, copy, export, import, cancel | `operation` (as a gate), measurements, other instances |
| Runtime installation: `runtime.rs`, `runtime_archive.rs`, `commands/runtimes.rs` | runtime directories, staging and backup directories, downloads | install a release, a prebuilt or a source build, import, export, remove, sweep | `runtime_busy`, the file system |
| Model downloads and updates: `discover/*`, `commands/models.rs`, `providers/artifacts.rs` | a snapshot folder with its manifest, staged parts, the journal of a commit | download, resume, update, delete | `operation`, the user's other programs |
| Settings, conversations, MCP approvals, attachments, home migration, command-line companion | files and small in-memory maps | see `PROJECT.json` | mostly the file system |
| Frontend: `src/src` | React state | chat send loop, benchmark view | the commands above |

`PROJECT.json` lists every part, the parts without a model too, each with the reason.

### What is hard here

* A start is a chain of six critical sections with awaits between them; a stop or unload
  does not take the operation lock and may run between any two.
* The start's future can be dropped at any of its awaits.
* The process is spawned before any session tracks it.
* An unload removes a session entry from the registry and retires it under another lock;
  a start may hold its Arc before, between and after.
* A request is routed by a snapshot and counted later, under another lock.
* An installation works for minutes without the lock under which it was admitted.
* A quit, an update's cleanup and the update's failure path all write the same flags.
* A cancellation can overtake the command it is meant for.
* A listener can finish binding while the cleanup takes the published one.
* A request that publishes a benchmark must not run beside a measurement, and nobody may
  wait for it: it is aborted, wherever it is.
* A key, its record and its intent are three writes in two stores that two instances share.
* A rename is visible before it is durable; a journal may only go when what replaces it is.
* A runtime directory is replaced by two renames, a model by one rename and one link for
  every file; both can stop anywhere, and the user may be editing.

For each part the properties that make it correct are: no process leaks, no session is
stuck in loading, a ready session is one launch, stops and replacements are final, a count
of requests is right, a response keeps its process, resource jobs are exclusive, the exit
leaves nothing and is never taken back, a cancellation is honoured wherever it meets its
command, at most one API listener serves and a stop or the cleanup can always find it, and
every command returns; no persisted measurement is lost and no deleted run returns, what is
published stays under one key, a measurement is undisturbed, whatever runtime serves was
approved and checked, a model that is called complete has the published bytes, and an edit
of the user is not destroyed.

## Modules

| Module | Models |
|---|---|
| `ServerState` | the record behind a session's mutex and what each critical section does to it |
| `ModelSessions` | the sessions, their registry, starts, stops, replacement, idle unload, crashes, API leases and chat turns |
| `AppLifecycle` | the sessions inside the application: resource jobs, the quit and the update (extends `ModelSessions`) |
| `ResourceUse` | the abstract promise of the operation lock, `runtime_busy` and the lifecycle checks together |
| `CancellableJobs` | a registry of operations cancelled by identifier, any of launch preflights, media preparations and model scans, beside the quit and the update |
| `ApiListener` | the API listener: its commands under `api_control`, its task and connections, the cleanup that takes it without that lock |
| `RunStore` | the benchmark history on disk: plans of file operations, run locks, power losses |
| `SharingPermits` | the commands that publish a benchmark against measurements and cancels |
| `OwnerKeys` | the vault, the ownership records, intents and backups, shared by instances |
| `RuntimeInstall` | one runtime directory: installs, imports, exports, removals, the startup sweep |
| `ModelSnapshots` | one snapshot folder: download, update with rollback, deletion, the user's edits |
| `MC*` | the modules TLC is given: symmetry sets, constants, and compositions of parts that share no state |
| `Retain` | what `Vec::retain` does to a vector, written as a recursive function |
| `SequenceLemmas` | lemmas about `Retain`, duplicates and lists written out, with the induction they need |
| `*Proofs` | theorems; `SharingProofs` has those of `SharingPermits` and of `OwnerKeys`, `StorageProofs` those of `RunStore` and of `ModelSnapshots` |

An action is one critical section of the code, or the stretch between two awaits.  Some
operators have no use: each is a plausible fault of the operator that follows it (a dropped
guard, a missing reset, a cancel that skips a case), and with it in place the property that
`PROJECT.json` pairs with it under "mutants" fails.

### How the state corresponds to the code

* `sess[e]` is the `ServerState` of one `SessionEntry`.  An entry is identified by the
  start that created it, because an entry forgotten and created again is another `Arc`;
  `registry` maps ids to entries.
* A start launches at most once, so its identity stands for the launch generation, the
  process, the private key and the launch settings.  `launch = None` after `cancel_launch`
  says that no earlier generation is current.
* `pc[o]` is the point between two awaits or two locks of a start:
  `queued` (token registered, waiting for `operation`), `validating` (`prepare_launch`),
  `replacing`, `placing`, `tracked` (target chosen), `launching` (generation begun),
  `probing` (engine probe and spawn), `spawned` (process runs, untracked), `loading`
  (`wait_ready`), `confirmed` (answered the probe), `unwinding` (guards being dropped).
* `stop[w]` is a stop or unload between cancelling the pending starts, tearing down and
  the three critical sections of `SessionManager::forget`: removed from the registry
  (`retire`, its entry in `of`), retired and killed (`forgotten`), pending starts cancelled.
  `InHand` are the entries that were removed and not retired yet.  `lease[r]` is a request between snapshot, begin and drop.  `chat[c]` is a
  turn between `server_activity("start")` and `("end")`.
* `overtaken` and `superseded` are history variables; nothing reads them but properties.
* `busy` is `runtime_busy`, `closed` the process owner's refusal to keep new trees alive.
* `exit[x]` is one run of `shutdown_managed_processes`, in its four stages, by the quit or
  by the update.

* In `CancellableJobs`, `active`, `tombstones`, `order` and `flag` are the fields of `Jobs`;
  the window draws a fresh UUID per operation, so an operation is its identifier.  `pc[c]` is
  the command: `cleared` (a media command has read `exiting`), `admitted` (slot taken),
  `working`, `finished` (result in hand, last look to come), `detached` (an extraction whose
  command was dropped), `ok` or `err`.  `heard` and `swept` are history variables.
* In `ApiListener`, `slot` is `AppState.gateway`, `control` is `api_control`, and a listener
  is named by the start that bound it.  `task[l]` is its task: `running`, `notified` (told
  to stop), `draining` (socket closed, connections aborted), `aborted` (handle dropped, the
  runtime has yet to drop the task) or `closed`.  `conns[l]` are its connections.

* In `RunStore`, `file[r]` is what processes see of the files of run `r` and `disk[r]` what a
  power loss leaves of it; a store operation is a plan (`op.todo`) of `put` and `sync` steps
  computed under the store lock and carried out by `Carry`.  Pruning decides once which
  markers it works on (`op.left`) and then plans one marker after another (`PruneNext`), as
  the two loops of the code do.  `active[p]` is the run process
  `p` measures, with its run lock; `marker` are the files of `active-runs`.
* In `SharingPermits`, `cmd[c]` walks through the `Script` of its kind, one entry per check,
  gate, request or dialog of the command; `operation` is `AppState.operation`, `tracked`,
  `arrivals` and `permit` are fields of `Ephemeral`, `aborted` the abort handles used.
* In `OwnerKeys`, `record`, `pending` and `legacy` are the files of one submission, `key` the
  vault's secret, `at[p]` the command of instance `p`.  The migration of `registry.json`
  writes the record or fails to, and renames the file aside or does not get that far;
  `unmoved` remembers that the file went without a record having been written.
* In `RuntimeInstall`, `place` has the runtime directory and the exported archive, `backup[j]`
  and `staging[j]` the directories of job `j`; a tree carries what it contains, what the user
  wanted, whether it passed its preflight and whether it is whole.  `InstallPlan` lists the
  stages before activation.
* In `ModelSnapshots`, `tree` has the files of the folder and its manifest, `parts` the
  partial files of killed downloads, `journal` the `CommitEntry` list of an update.
  `doubtful`, `late`, `original` and `finished` are history variables.

### Abstractions to know about

* `wait_ready`'s kill and the error branch after it in `start_on_target` are one action,
  `LoadFails`: the operation lock is held throughout, so no other launch can come between.
* `UpdateFails` merges `resume_transient` with the clearing of `exiting`; both happen under
  the lock of `normal_exit`.
* `start_server` reads the policy again from the saved settings after validation, so the
  policy of a start of the default session may change at `Validated`.
* Export and import of runtimes behave like `install`; `rt_uninstall` does too, except that
  it does not reset the cancel flag.  The benchmark clears its flag once more at its end.
* `CancellableJobs` and `ApiListener` have an exit of their own, cut down to the steps that
  touch them.  Identifier validation, scans without an identifier and the blocking read of
  the audio file are left out; a transcription's `select!` may take either the answer or the
  cancellation, and an extraction has its last look before its last frame is stored, which
  is why media work promises less than preflights and scans do.
* `RunStore`: an id is a run; which accepted runs are the most recent is any choice; a
  removal or a rename reaches the disk at any time up to the sync of its directory.  That
  sync is taken to be enough: the store's directories are assumed to exist and to be durable
  themselves, which is not so of a `runs` directory that `begin` has just created (nobody
  syncs its parent), and the file system is assumed to order renames where `sync_parent`
  does nothing, which is everywhere but on Unix.
* `SharingPermits`: epoch and generation are compared in one step, because both only grow;
  the peek of `measurement_active` at the operation lock takes no time, so the refusal of a
  benchmark that meets the peek itself is left out; a service may never answer.
* `RuntimeInstall`: a download is some content, complete or not, runnable or not; verification
  compares it with what the release, the manifest or the confirmed commit says.  A job that
  was dropped may still have a blocking task at work on its renames or its removal, and an
  export goes on from any of its stages, without `runtime_busy`; the properties about
  failures speak of jobs that were not dropped.
* `ModelSnapshots`: in `commit_file` and in `rollback` a look at a path and the rename or link
  after it are one action.  A deletion removes the partial files of what the current manifest
  lists and leaves any other.
* Not modelled: the "cannot inspect the process" branch of `reap_if_exited`, the
  `apply_request_settings` path, the retry bound of the router (a refused lease changes
  nothing), texts, ports, URLs and activity times (idle unload may happen at any moment).

## Runs

| Run | Instance | States | Shows |
|---|---|---|---|
| `Sessions` | 2 starts, 2 ids, 1 stopper, 1 chat turn, fair | 545 k | types, no leaked process, no unowned loading, one launch per ready session, stops final, every start returns |
| `Leases` | 2 starts, 2 ids, 2 requests, 1 stopper | 1.7 M | requests are counted on exactly their launch; a response keeps its process |
| `App` | 2 starts, 2 ids, and 2 jobs of all kinds, or 1 job and 1 unload, or the quit and the update | 1.4 M | exclusion of jobs and models, refinement of `ResourceUse`; the cleanup leaves nothing, an exit is final |
| `Registries` | 2 operations of any registry, 1 slot, 1 remembered cancellation, quit and update; or 2 sharing commands of 4 kinds, 1 measurement, 1 cancel, 1 tracked request; fair | 465 k | early cancellations are remembered consistently; cancellations and cleanups before the last look are honoured; no unowned, unflagged work; requests in flight are live and findable, measurements undisturbed; cancelled operations and overtaken commands end |
| `ApiControl` | 2 starts, 1 stop, 2 ports, 1 connection, quit and update, fair | 69 k | one listener, always findable; stop and cleanup close it; commands return, connections end |
| `Storage` | 2 runs, 2 processes, 1 fault; or 2 jobs of 4 kinds, 2 commits; or 3 files, 2 revisions, 2 edits, 1 kill; or 2 instances, 2 bodies, 2 services, 2 keys | 1.0 M | the history, the runtime directory, the model folder, the owner keys and their records keep what they promise through failures |
| `ChatCount`, `QueuedStart`, `CancelAtExit`, `PartialDownload`, `StartupSweep`, `LostEntry` | small | - | disagreements of the code with its comments, below |

The bounds are enough for the hazards listed in `PROJECT.json`: each of them is a meeting of
a start with one other actor, or of two starts through the operation lock; two ids separate
the default session (never forgotten) from a named one (created, forgotten, created again);
two leases tell the count of one launch from that of the next.  Jobs, unloads and exits are
three scenes of one run because the product of jobs and exits alone has 8.7 million states
and no property relates the kinds; the theorems cover the product.  `Sessions` numbers its symmetric starts by the order
in which they are issued.  The only numbers are the request counts, bounded by the number
of requests and chat turns.
In `Registries` two operations fill the one slot and push a cancellation out of the
memory of one (the code has 64 or 8 slots and remembers 256 or 128); the theorems hold for
every number.  In `ApiControl` the second start meets a published, a closing, a dead or a
refused listener of the first, on its own port or another.

`Registries` and `Storage` check parts that share no state: a behaviour works on one part,
chosen in its initial state (`half`, `store`).  A table of one request makes
the second sharing command push out the first; the code has room for 8 of each of 128 submissions.
In `Storage` a cache of one makes the second accepted run evict the first (the code keeps
100), and one fault (a failed operation, a kill or a power loss) can fall between any two
file operations; the second revision of the model changes one file, retires one and adds
one, and the user can edit before and after the last look of an update.
A prebuilt artifact of a pull request is left to the theorems: it is a source build without
the build, and a bundle without its confirmation, and both are in the run.

Deadlock is checked in the runs of sessions and jobs: crashes, stops and returns keep some
step enabled until all is done, and stop commands can always be issued again.  It is not
checked in the others, whose commands are issued once or whose ids run out: there
everything may come to rest.

### Fairness

`StartsReturn` assumes weak fairness of each start's own next step: every await of a start
has a deadline (the engine probe, the readiness poll) or is a blocking task that ends, and
tokio's mutex is a fair queue, hence strong fairness of `Admit`.  Nothing is assumed of
stops, crashes, requests or users.

`CancelEnds` assumes weak fairness of a command's next step and of the poll of its flag (the
scan looks at every directory), never that the work completes.  `CommandsReturn` and
`ConnectionsEnd` assume that runnable commands and tasks are polled, and that an aborted
connection is dropped at its next await; each command runs once, so weak fairness of taking
`api_control` is enough.  Connections need not end by themselves.

`StaleCommandsEnd` assumes weak fairness of a sharing command's own steps, not of an answer
of the service and not of the user closing a file dialog: a command whose request was
aborted, refused or pushed out must end without either.  It does assume that a blocking
closure returns; one that waits in the vault's own prompt returns when the user answers it.

Liveness is only model-checked.

### Where the code and its comments disagree

* `ChatCount`: the end of a chat turn names a session, not a launch, and is subtracted from
  a lease on a newer launch (`commands/server.rs:456-475` against
  `gateway/routing.rs:297-300, 362-364`).
* `QueuedStart`: a replacement does not cancel a start queued for a session id that has no
  entry yet (`commands/server.rs:158-163` against 409-410).
* `CancelAtExit`: a job clears its cancel flag after its exit check and can erase the
  cancellation the cleanup raised in between (`commands/launch.rs:109-118`); a runtime
  installation makes no such check at all (`commands/runtimes.rs:97-106`).  Both stand
  against `lib.rs:56` and 61-62, and `commands/app_update.rs:13-16`.
* `PartialDownload`: a killed download leaves a `.part` with a name of its own; the repeated
  download completes and is listed as incomplete (`providers/artifacts.rs:449-461`, `discover.rs:364-373` against
  `docs/reference/inference-runtimes.md:72` and `providers/artifacts.rs:178`).
* `StartupSweep`: after a kill between the two renames of `replace_runtime` the only copy of
  the runtime has a backup name, which the sweep removes once it is a week old
  (`runtime.rs:7037-7041`, 616-643 against 721-724).
* `LostEntry`: the migration of `registry.json` ignores a record it could not write and
  renames the file aside (`benchmark/sharing/registry.rs:306-318`), so that a key is left
  with nothing that names it, against 247-249, which promise that every valid entry is
  preserved.  `NoOrphanKey` excepts that key, `MigrationKeepsTrace` does not.

## Proofs

TLAPS proves, for any number of starts, ids, stops, requests, chat turns, jobs and ways of
closing, operations, cancellations remembered, commands, runs, instances, keys, commits,
revisions and files, from the assumptions named in the modules (`None` and `Default` are not
starts, a job is not a start, a command is neither `NoOne` nor the word for a measurement,
`NoFile` is neither the content of a file nor the name of an operation, the requests in
flight at one time are finitely many, nothing else is called `Nothing` or `Absent`, the
repository listing has no file twice and a revision no file outside it, no published content
is the user's):

* `ModelSessionsProofs`: `TypesKept`, `NoProcessLeaks`, `NoStartingLeftBehind`,
  `ReadyServesOneLaunch`, `StopsAreHonoured`; and for instances without chat turns
  `LeasesAreCounted` and `ResponsesSurvive`.
* `AppLifecycleProofs`: `AppTypesKept`, `ResourcesAreExclusive`, `AppLeaksNoProcess`,
  `AppImplementsResourceUse`.
* Of the exits, in the same module: `CleanupIsComplete`, `ExitsAreFinal`.  While a way of closing is past its gate
  the gate is shut (`GateShut`), once its sweep is over the process owner is closed
  (`OwnerClosed`), and its teardown has every loaded session on its list
  (`LoadedIsListed`).  Behind the gate no start loads anything (`NothingStarts`), since each
  of its critical sections looks at `exiting` first.
* `CancellableJobsProofs`: `TypesHold`, `QueuesStayInStep`, `CancellationsAreHonoured`,
  `SweepsAreFinal`, `UnownedWorkIsStopped`.  The invariant says where a cancellation is at each point of its
  command (`Owed`): in the queue until the command begins, then in its flag.
* `ApiListenerProofs`: `ListenerTypesKept`, `NoListenerStrays`, `OneListenerServes`,
  `CleanupClosesApi`, `StopsCloseApi`.  The invariant adds to `NoStrayListener` that a
  command at work holds `api_control`, that a start which binds found nothing serving
  (`BindsAlone`), and that a listener going down is awaited by someone (`GoingDown`).
* `SharingProofs`, of the keys: `KeysTypesKept`, `OneAuthorityAlways`, `NoOrphanKeyAlways`,
  `RecordsNeverDrift`.  The vault is read without the lock, so the argument is about what is
  on disk: until something is lost, whatever was published has its record and a record its
  key (`RecordsAreKept`; nothing was published of an entry the migration lost); whatever was lost, a key or a record is left of what was published
  (`OneKey`), and either one keeps a new key from being drawn.  `Relies` says what a command
  under its lock may take for granted at each of its steps.
* `SharingProofs`, of the permits: `PermitsAreTyped`, `RequestsInFlightAreLive`,
  `MeasurementsAreUndisturbed`.  The table and the arrivals name only commands that had
  their turn to send (`ListsAreSent`), so a command that registers is nowhere yet and what is
  pushed out to make room was on its way; the gate is held by the closure at work or by the
  measurement (`GateIsHeld`); and while an epoch is measured, nobody with a snapshot of it is
  past its first work (`Behind`).
* `StorageProofs`, of the benchmark history: `StoreInvHolds`, `StoreIsTyped`, `MeasuredRunsAreSafe`,
  `MeasurementsAreKept`, `AcceptancesAreKept`, `EvictionsAreFinal`, `DeletionsAreFinal`.
  The properties speak of what processes see and of what a power loss leaves, and neither
  determines the other: a file operation reaches the disk at any time before its `sync`.
  The invariant therefore says of the plan at work that each of its remaining steps still
  fits the files it meets (`PlansFit`: a tombstone is written before what it replaces is
  removed, a marker is removed last), and of the disk that whatever is gone there left a
  later file behind it (`ReceiptsLast`, `EvictionsLast`, `MeasurementsLast`,
  `TombstonesLast`).  Each plan is a list written out, so a step of it is a case.
* `StorageProofs`, of the model folder: `SnapTypesKept`, `InstalledIsVerified`,
  `FailedUpdatesKeepModels`, `EditsAreKept`.  The invariant reads the list an operation still
  has before it: a download has every file it is past (`DownloadInv`), the last look of an
  update leaves in doubt only what it is still to look at and what was edited since
  (`PlanInv`), a commit has the files of the new revision but those it still owes
  (`InstalledInv`), a rollback that has not failed owes just what the journal has
  (`UndoneInv`).  `JournalInv` says that a file outside the journal is as the commit found
  it and that an entry has what was found as its backup, but for edits since the last look;
  `OriginalInv` that what the commit found was the old revision, so that none of what it
  moves was the user's.
* `RuntimeInstallProofs`: `InstallTypesKept`, `ServesWhatWasApproved`, `FailureRestores`,
  `LastCopyIsKept`.
  `StagedAs` says what each stage of a plan has established of the staging directory, and
  `ApprovedInv` that the runtime and every backup that may be rolled back were approved.  A
  tree may be half removed once a job was dropped or an uninstall began (`Disturbed`), which
  stays so.  `FoundInv` follows what an installation found from its place into the backup
  and back, which needs that `runtime_busy` is held until the clean-up is over (`Holds`).
  `CopiesInv` says where whole copies are: a job has nothing aside before it activates, an
  archive is whole wherever it is, and while no job was dropped what was verified stays
  whole until it lands, and after it landed until the backup goes, since whoever could move
  it would have to hold `runtime_busy` too.

The invariant of the sessions is `SessionsInv`.  None of the properties is inductive alone:

* `StartsHoldLock` makes every argument about launches an argument about one start.
* `CurrentLaunchStarts` says what a launch may rely on while its generation is current:
  that the session is starting, and which process it tracks.  Without it, attaching or
  publishing could lose a process that was tracked before.
* `StartingIsLaunched` ties a loading session to a start that has not returned.
* `RetiredStaysIdle` and `LoadedIsHeld` carry the registry through unloads: a start that
  finds its entry not retired finds it tracked or in the hands of an unload (`Held`), so what
  it loads can be found and stopped, or is about to be retired.  `UnloadsHold` says that an
  unload has an entry in hand only while that entry's retirement is its next step.  The
  exclusion, the finality of stops and the cleanup except exactly those entries (`InHand`).

That a stop is final needs more than `SessionsInv` (`FinalInv`): what a stop has seen is
cancelled (`CancelledIsSeen`), so none of it can begin; what had begun before is on the entry
the stop takes down, because ids resolve to entries created for them and a start chooses an
entry of its own id, once (`NamedById`, `LoadedByChoice`).

That requests are counted needs `LeaseInv`: a launch is current only on the entry its start
chose (`LaunchIsBegun`, `LaunchIsMine`), a tracked process is that of the current launch
(`ChildIsLoaded`), and a lease names a launch whose start is over (`LeasesAreServed`), so
that a launch which becomes ready has no lease yet and its count starts right.  A session
that answers is then ready and responding, and every step but forgetting it either looks at
`Responding` or belongs to a start at work elsewhere (`ServingIsReady`).  The hypothesis
`Chats = {}` is needed: beside a chat turn the property fails (run `ChatCount`).

Steps fall into kinds, and each kind has one lemma: steps that only take sessions down
(`OnlyTakesDown`: stops, unloads, crashes, leases, replacement, exits), steps of the one
start that launches (`LaunchMove`), waits (`WaitingKeepsFacts`), and the choice and the
return of a start.  The transitions of a session's record are used through the lemmas at the
head of `ModelSessionsProofs` only.  `AppInv` adds what jobs hold (`JobsHoldGuards`) and that an
admitted job is alone (`AdmittedAlone`), from which the refinement of `ResourceUse` follows:
a session can begin to block only by a step of a start past its admission, and then no job
is admitted.  All invariants were checked by TLC on the instances above, and so were those of
`SharingProofs`, `StorageProofs` (the history also with two faults, the folder with three
edits) and `RuntimeInstallProofs`.

`SequenceLemmas` rests on one induction, over the finite sets of numbers ordered by `<`
(`SetInduction`, from `NatLessThanWellFounded`).  A set is a value, so it can be given to a
library theorem where an operator cannot; with it the module shows what a kept vector has
for elements, that it has no duplicates if the vector had none, and that keeping the same
elements of two vectors with the same elements keeps them the same.  `SelectSeq` of the
standard modules cannot be unfolded by the provers, hence `Retain`.

Every invariant and action property of a passing run is stated by a theorem (two of them for
instances without chat turns).  The liveness properties, which are out of the prover's
reach, are only model-checked.

## Not modelled, and what could come next

1. One exit for all: `ApiListener` and `CancellableJobs` composed with `AppLifecycle`, so
   that a cleanup is one sequence over sessions, jobs, operations and the listener.
2. The settings file and its serialised read-modify-write, conversation revisions, the MCP
   approval queue, the drop tickets of attachments, the installer of an application update,
   the migration of the home directory.
3. Single-file GGUF downloads with their companions; two runtime directories at once.
4. Pure parts against reference definitions: selection of a session by model name, launch
   profile merging.

Not planned, because there is no protocol to check or it is out of TLC's reach: hardware
and GGUF arithmetic (`resource_estimate.rs`, `gguf.rs`), the parsing of command-line help
and the building of argument vectors, which make up most of `providers/`, byte-level HTTP
parsing, the React views, release scripts.  Those are data transformations over large
domains; they are also most of the repository's lines.
