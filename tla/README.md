# EnvMason: specifications, model checking and proofs

EnvMason is a command line program that inspects a development machine, writes
an immutable *Plan* of changes, has the user confirm that Plan by its ID, and
then executes it action by action while keeping an *Operation Record* on disk.
It has no server and no network protocol. What makes it hard is everything that
happens between two of its steps: another program changes the machine, the user
cancels, a save fails, a process outlives its parent, the executor is killed,
and a later command has to judge from the record alone what was done.

This directory holds TLA+ specifications of those parts, TLC configurations
that check them on small instances, and proofs checked by TLAPS.

## 1. Inventory

Paths are relative to `src/internal/`. "Record" is the Operation Record.

| component | state it keeps | operations | hard behaviour | correct when |
|---|---|---|---|---|
| `execution` executor | Record in memory and on disk, current step, context | `Execute`, `RecoverInterrupted`, record validation, classification of recovery evidence | crash between save and write, failing save, cancellation, timeout, best-effort snapshots, changes by other programs | every write is announced on disk before it starts and accounted for after; the Record is always valid; it ends |
| `execution` store | `<op>.json`, `.bak`, temporary file | `FileStore.Save`, `Load`, `replaceFile` | rename that cannot replace, kill between renames, concurrent reader | a save is an atomic replacement |
| `execution` order | none | `orderedActions`, `plan.hasCycle` | cycles, unknown dependencies, map iteration | topological order, stable for ordered Plans |
| `execution` continuation | chain of Records | `AssessContinuation`, `BuildContinuationPlan`, `RevalidateRecovery` | facts drift between two operations; chains of continuations | nothing is reused that was not reviewed; nothing completed is repeated |
| `plan` | none (content-addressed value) | builders, `Validate`, `hasCycle` | expiry, self-referential ID, several schemas | a valid Plan is closed, acyclic and of one risk class |
| `nodetools`, `apply`, `defaultversion` | prepared Plan and baseline | `Prepare`, `Execute`, `PrepareContinuation`, `ExecuteContinuation`, `PrepareRestore` | rescan, rebuild, drift after confirmation | nothing runs on facts that were not reviewed |
| adapters | none (the machine) | `Preflight`, `Capture`, `Satisfied`, `Verify`, `RevalidateCheckpoint` | partial writes, provider changes | only the registered facts change |
| `workflow` | Workflow Record with three stages | `NewRecord`, `PrepareNext`, `ExecutePrepared`, `AttachOperation` | refused executions, retried executions, stale callers | stages run in order, each on a fresh Plan, each bound to its own operation |
| `recoverymanifest` | manifest derived from Records | `Build`, `PrepareRestore` | mixed evidence | only proven current facts are restored |
| `baseapply`, `baseinstall`, `homebrewinstall` | candidate Plan, Review, confirmation of the two | collecting the facts of a transaction, `Prepare`, `Execute`, `Finalize`, the adapter's callbacks | closure, catalog or configuration change between review and execution; partial installation; shared dependencies | an undisturbed operation completes, and the final Lock says only what is so |
| `profile`, `profileresolver`, `lockfile` | none (a Lock is a value) | `Normalize`, `Resolve`, `Validate`, `DeriveState` | several installations, policies that match nothing | resolving again agrees with what was derived |
| `version`, `versiondata`, `assessment` | a cache that is only read | comparison, `Collect` with one goroutine per source, `Evaluate`, `NodeUpdateCandidate` | expired and misdated caches, timeouts, unordered indexes, end dates, two walks over the same facts | an update is the newest of its channel and never a step back; an end of life is certain |
| `inventory`, `discovery`, `projectscan`, read-only adapters, `report`, `cli` | none | probing, formatting | external output | not modelled: input and output |

How they interact: `cli` calls one service (`apply`, `defaultversion`,
`nodetools`, `baseapply`), the service scans through `report` and its adapter, builds a Plan
with `plan`, and after confirmation rescans, rebuilds the Plan and compares its
ID before it hands the confirmed Plan and a registry of callbacks to the
executor. The executor calls the callbacks and a runner, and saves through the
store. `workflow` drives three such services in order; continuation and
`recoverymanifest` read what a finished or interrupted operation left on disk.
For Base, `profileresolver` makes a Lock of a Profile, a scan and the catalogs,
`plan` a candidate Plan of the Lock, `baseinstall` a Review of the Plan and
another scan, and after the operation `baseapply` a final Lock of the record and
a third scan. `assessment` joins the scan with what `versiondata` has read, and
`plan` makes a Plan of its candidate.
There is no shared memory between commands: they meet in the files of the store
and in the machine itself.

## 2. Modules

| module | models | state and actions |
|---|---|---|
| `OperationRecord` | `execution/model.go`, `codec.go`, and the pure functions of `executor.go` and `recovery.go` over a record | no variables; the record type, `ValidRecord`, the rewriting of failed, log-failed and interrupted records, recovery evidence |
| `Executor` | `executor.go` `Execute`, `runner.go`, `RecoverInterrupted` | `pc` is the statement that runs next; `memory` is the local `record`, `disk` what `Load` yields; one action per statement group between two saves |
| `OperationHistory` | what D-024 promises of the history of one operation | three variables, abstract |
| `MC_Executor` | instance for TLC and the refinement mapping | |
| `FileStore` | `store.go`, one action per file-system call | `destination`, `backup`, `temporary`; `at` is the call of `Save` that comes next |
| `AtomicRecord` | what a store of one record promises | abstract |
| `ActionOrder` | `orderedActions`, call by call, with an explicit stack | |
| `WorkflowRecord` | `workflow/model.go`, `record.go`, and the pure functions of `prepare.go` and `execute.go` over a Workflow Record | no variables; the record, its replaying validation, its transitions |
| `Workflow` | `PrepareNext`, `ExecutePrepared`, `AttachOperation` and the process that calls them | `record` and `prepared` are the caller's, `running` and `returned` the executor's, `disk` the store's; one action per call or outcome |
| `NodeTools` | `nodetools/service.go`, `continuation.go`, their adapter, `execution/checkpoint.go`, `continuation.go`, and the Node tools and continuation Plans of `plan` | the machine (`installed`, `provider`, `control`), the Plan under review, the records on disk, and the step the executor is at; one action per service call, step outcome, crash and recovery |
| `MC_NodeTools` | the versions asked for in the instance for TLC | |
| `NodeRuntime` | `apply/apply.go`, `defaultversion/defaultversion.go`, `adapter/nvm/adapter.go`, `execution/recovery.go`, `recoverymanifest`, and their Plans | the machine (`nodes`, `alias`, `script`), the Plan under review, the records on disk, what the executor does next, the reviews made so far; one action per service call, callback outcome, write outcome, crash and recovery |
| `Resolver` | `profile`, `profileresolver/resolver.go`, `lockfile/build.go`, `derive.go` | no variables; `Normalize`, `Resolve`, `ValidLock`, `DeriveState` |
| `BaseInstall` | `plan/base.go`, `base_review.go`, `baseinstall`, `adapter/homebrewinstall`, `baseapply` | the machine (`target`, `kegs`, `homebrew`, `published`), what the caller holds (`scan`, `lock`, `plan`, `prepared`, `confirmed`), the operation (`record`, `phase`) and its outcome (`final`); one action per call, callback, process outcome and foreign change |
| `MC_BaseInstall` | instance for TLC | |
| `Versions` | `version` | no variables; the two comparisons, and SemVer's order stated on keys |
| `Advice` | `versiondata/client.go`, `parse.go`, `assessment`, `plan/build.go` (what it installs) | `now`, `cache`, `reads` (one per goroutine), `advice`; one action per read of the cache, answer, failure, and for the join |
| `MC_Advice` | instance for TLC | |
| `Executor_proofs`, `FileStore_proofs`, `ActionOrder_proofs`, `Workflow_proofs`, `NodeTools_proofs`, `NodeRuntime_proofs`, `BaseInstall_proofs`, `Advice_proofs` | lemmas and theorems | |

Every definition named "Fault" in a comment is not part of a specification: it
is a plausible bug of the definition it precedes, against which the property
check is itself checked (`PROJECT.json`, "mutants").

### Executor

The snapshot of an action's facts is a value of `Facts`; two snapshots differ
exactly when their values do, as digests do. The callbacks that an action may
lack (`Preflight`, `Capture`, `Satisfied`) are the constant sets `Preflights`,
`Captures`, `Idempotent`. A registered write process may change the facts of
its own action any number of times while it runs (`ProcessWrites`), and goes on
doing so when its executor is killed (`orphaned`): `process_unix.go:17` puts it
in a process group of its own and the command line installs no signal handler.
Other programs change any facts at any time, at most `MaxDrift` times. A save
either replaces the disk or fails; `FileStore` shows that the store behaves so.
When `Verify` runs it sees the facts of that instant (`env[at] = Target`), or
fails for a reason of its own. The save of the completion is a statement of its
own (`SaveCompletion`): another program may change the facts between the two, and
the history variable `disturbed` keeps which facts it changed since they were
verified. A snapshot and the save that follows it are one action
(`CaptureBefore`, `CaptureAfter`): the value is in the record before the save
begins and the save does not look at the machine, so that what another program
does in between could as well happen after it. `RecoverInterrupted` has no caller in the
production code of this commit; the model lets it run on any active record
once no executor works on it.

Instants, identifiers, wording, redaction, sizes and JSON are left out, so
checks of `ValidateRecord` on them are too.

### FileStore

A version number stands for the content of a record. Every call of the file
system may fail. `Replace` is the rename that replaces; when it does not, the
backup path of `replaceFile` follows. `Load` is two reads, because a save may
come between them. The writer stops after a failed or killed save: `Execute`
returns at once, and no production code saves again what `RecoverInterrupted`
makes of a killed operation's record. Code that did would meet `store.go:127`,
which removes the backup that a kill between the two renames has made the
only copy.

### ActionOrder

The dependency lists are part of the state, so one run covers every relation of
its instance. Actions are visited in listing order, and each dependency list in
its own order, which `VisitListed` and `VisitDependency` keep.

### Workflow

`ValidRecord` replays the whole history of a Workflow Record as `ValidateRecord`
does: stages advance by the permitted transitions, at instants that never go
back, each binding is complete for its state, and the state of the workflow
follows from its stages. A digest of an Operation Record is the record itself,
so two digests are equal exactly when the records are.

The functions of the package are pure over the record the caller hands in; no
production code calls them at this commit. The caller of the model does what
their signatures suggest: it keeps the record it prepared from until an
operation is attached, drops a prepared stage once its operation is attached,
and after a restart loads both but not the native context (D-053 leaves its
persistence open), so that it can attach an operation that ran and prepare the
stage again, but not execute it. The services see the machine as one fact per
stage, *done or not*; `Scanned` is what a service compares when it scans again.
The clock does not go backwards (see the hazard at `codec.go:150`).

### NodeTools

A Plan is the content its ID covers, so two Plans have one ID exactly when they
are equal; the review-only draft (0.4.0) and the executable continuation (0.5.0)
made from it are one value. `Options` are the calls a user may make: each names an
exact version for each tool it selects (`service.go:24`), so a later call may ask for
another version of a tool that an earlier operation brought to its own, and the
targets are part of the Plan and of every continuation of it. A package has a
version and a build, because the adapter's control digest tells two installations of one version apart. A pnpm
that Corepack provides is seen through the Corepack package, so an update of
Corepack changes pnpm's facts: this is why the adapter's preflight makes an
exception for it (`adapter.go:218`) and why checkpoints compare only the facts of
their own action (`adapter.go:490`).

`CompletedWorkStaysReusable` has a proviso for this: a later operation which has begun to bring
a completed tool to another version (`Retargeted`) makes the checkpoint of the earlier
one stale with no other program involved, as `adapter.go:432` compares the recorded facts. It
counts from the check of its step on, even if that check then refuses it.

The executor is the one of `Executor` without its saves: a step is checked,
writes, is verified, and completes or fails, where verification and completion are
two actions as other programs may come between them; a crash leaves the record of
its last save.
Every write may leave what was there, half of another package, or the target.
`Execute` and `ExecuteContinuation` may be called again with a Plan that was
executed, as nothing in the code marks it as used.

`ReviewRecovery` and `continuationOutcome` of this service only report and change
no state; they are left out.

### NodeRuntime

Installing a Node.js, setting NVM's default alias and restoring it meet in one
directory, so one module has all three. Each Plan has a single action, hence a
record is one step of `OperationRecord`, with `phase` for what `Execute` does
next. The code has two readings of the directory, and the model keeps both:
`Present` counts directories (`installedVersions`), which resolve the alias and
are compared in snapshots; `Installed` counts executables, which the scan and
`verifyTargetInstalled` see. A failed `nvm install` leaves the two apart. The alias is a
version, or `Newest` for `node` and `stable`, whose meaning an installation
changes; the version of the running shell stays installed.

`prepared` holds the content of a Plan's ID and the scan it was made from. `Rebuilds`
is the second scan: `apply` builds with the digests of the first one, so that a
changed alias is left to its preflight, while `defaultversion` compares them
before it builds. A restore asks of its source only that its snapshots differ
(`recoverableSnapshots`), in whatever state it is; a review asks for a terminal
record. A manifest is computed from the reviews made so far, each of which may
be older than the machine; a Plan it prepares has no executor at this commit
(`prepared.by`), so `Execute` is that of the commands.

`disturbed` is a history variable: the operations another program interfered
with after the preflight's last comparison. `NodeTools` and `NodeRuntime` leave
failing saves, timeouts and cancellations to `Executor`. Verification and the save of a
completion are one action in `NodeRuntime` and `BaseInstall`: their properties compare snapshots
taken before it, or the machine as it is later, and no change of another program in between
differs for them from one just after.

### BaseInstall

The calls of this path take explicit snapshots, so the model has a variable for
each value the caller holds and one for the last scan. A scan is good for one
use: each call refuses one that is older than the value before it, which
`scan' = None` stands for. Resolving a Profile starts over; making another
Review drops the confirmation of the one before. `Confirm` is the user
confirming Review and final Plan, both of whose IDs cover the content of
`prepared`. Expiry is left out: it is the user who does not go on.

Homebrew is its kegs (formula to versions), the configuration in effect after
its four layers, and the identity of the installation. `published` counts the
catalogs that exist; `brew install` resolves against its own index, which may be
any of them (`Installable`), not only the one that was locked. It installs what
is missing of a closure, dependencies first, and may stop anywhere with an
error. Versions are numbers, so a leading "v" and its absence are one version
(hazard at `lockfile/build.go:150`); bottles and their sizes, the paths and the digest of the
brew executable are part of the identity.

The two readings of the kegs differ in the code and in the model:
`formulaInventoryStatus` (`InventoryStatus`) is content with one right version, the
adapter (`Status`) demands exactly one. `blame` is a history variable: who
interfered with the operation, among them `"kegs"`, which stands for a Review over two
versions. `BeforeIsReviewed` is what `Finalize` demands of a before snapshot,
which may be further than the Review when an earlier action installed a shared
dependency.

### Advice

What each source publishes at each instant is a constant, `Published`; time is
coarse. An entry of the cache holds what was published at one instant and the
instant its writer claims, which may lie in the future, as the code checks for
it. The cache is only read: production `Collect` passes none and the client
takes one as a parameter. Each goroutine reads the cache, then the network
(whose answer was published at any instant since it asked) or, when that fails
or times out, falls back to the entry as stale. The join computes findings and
candidate from the same documents with the clock of that moment, as the two
walks of `Evaluate` and `NodeUpdateCandidate` do.

Findings on projects and build tools, versions retained by projects, texts and
issues are left out, as are documents that do not parse (a failed read).

## 3. Runs

| run | shows | bounds |
|---|---|---|
| `executor` | one operation under failing saves, crashes, cancellation, timeouts, best-effort snapshots, orphaned processes and a foreign change: the record is always valid, is written ahead of every write, accounts for each, is a prefix, agrees with what is returned, refines `OperationHistory`, and ends | 3 actions, 3 values of a fact, 1 foreign change |
| `executor_pipes` | *violation*: a write that ran is classified as one that never started | 2 actions |
| `file_store` | `Save` with failures and kills at each call is one atomic replacement, a reader in another process finds a record no older than the last acknowledged one | 4 saves |
| `action_order` | the depth-first order agrees with the declarative definitions of topological order, stability and acyclicity, and the walk ends | every relation on 4 actions |
| `workflow` | no operation that ended is refused by the history; stages run in order on fresh Plans; completed stages are backed by the disk; the workflow is never stuck | 3 operations, 1 unit of time, 1 foreign change |
| `node_tools` | chains of continuations do each action once, in the order of the first Plan; a continuation stays true to its source; one confirmation covers one change; completed work stays reusable unless another program interferes or a later operation brings the tool to another version | all three tools to one version or npm alone to a newer one, 2 units of time, 1 crash or foreign change, an operation and two continuations or two operations |
| `node_runtime` | an operation replaces only the default its Plan showed, and a restore only the one its source had set; a completed restore has put back alias and version; a manifest stays true of its records; what a review calls current can be restored; without faults every change of the default can be undone | 3 versions of which one can be installed; 3 operations and faults together |
| `node_runtime_skipped` | *violation*: a completed operation that skipped its write is a recovery candidate | 2 operations and faults |
| `base_install` | the final Lock says what resolving its scan again would say; an operation fails only if a process, a probe or another program does; a completed one can be finalized; a new Lock, Plan and Review can go on from whatever a failed one left | 3 formulae, 3 catalogs, 3 operations and foreign changes together |
| `base_two_kegs` | *violation*: a Review is accepted over a formula that has another version as well | the same |
| `advice` | a candidate is the newest of its channel a short while ago and never a step back; a Plan installs what is published; an end of life is certain; findings and candidate agree | 4 sources, 5 instants of which 2 are the command's, one cached source, 5 machines, 5 policies |
| `java_feature_line` | *violation*: a patched Java of the selected line is called newer than the line | the same |

`ActionOrder`, `Workflow`, `NodeTools` and `NodeRuntime` state what their variables
hold as `TypeOK` without a run of its own; that of `ActionOrder` is proved.

*Why these bounds are enough.* The executor works on one action at a time and
looks back only at the steps before it and at the dependencies of the current
one, so three actions give a first, a middle and a last one, of which two
depend on the first and one has no callbacks; three values of a fact give
unchanged, partly changed and reached. Foreign changes are unbounded in the
proofs' invariant and one suffices to separate an observation from the
comparison that follows it. A save of the store sees only the destination, the
backup and the temporary file of the one before: four saves give one failed
save in the middle of two successes with a reader spanning all of them.
`ActionOrder` enumerates all relations, so its bound is the size of the Plans,
which in the code is at most five; four actions have diamonds, self-loops and
cycles of every length below five. A workflow has three stages; three
operations allow a complete run, and a lost log or a crash followed by a second
attempt; a longer history repeats those. `Outcomes` is `{"completed"}` because
no guard of the package tells apart the abnormal ends, which the run already
has as `failed` (lost log) and `interrupted` (recovery).

In `node_tools` an operation on all three tools has every dependency there is;
with two continuations an action can be completed two operations before the
last, which is the shortest history in which naming only the dependencies on
the direct source could go wrong. One crash or foreign change suffices to
break a checkpoint, a preflight or a rebuilt Plan, each of which is decided by
one comparison. `TTL` equals `MaxTime`, so that a Plan made at once can expire;
time passes only after an operation ends, as nothing else reads the clock. The versions are absent, the installed one, two
targets, and a newest one that only an update of Corepack brings with its pnpm;
the two calls of `MC_Options` overlap in npm, where they disagree.

In `node_runtime` three versions give the active one, one to switch to and one
that is not installed; with three events there is a set, an installation that
changes what the old alias means, and a restore, or two operations with a
crash or a foreign change at any point, or one operation with two. The machine
starts with a default that follows the newest version, and each fixed default
is one operation away. Every property relates at most a restore, its source and
the machine between them.

In `base_install` git and cmake share a dependency that git needs on one
architecture only, so that one action changes what the other's Review saw. One
catalog has a newer version of it, and one disables it and has a formula with a
missing dependency; the Homebrews are safe,
unsafe in the last layer, another installation, and none. Three events are an
operation that fails half-way or is disturbed, a change by another program or
of the catalog, and a second operation with a Lock, Plan and Review of its own.
Steps between events are not bounded.

In `advice` the command is called at 3 and the clock may reach 4 before, between
or after the reads; the caches go back to 0, beyond every time to live. At the
instants a release appears, becomes LTS and is followed by prereleases in
another order, a line's end is postponed, another ends exactly at 4, and a Java
feature line appears. The machines have one, several and no effective version,
unreadable, prerelease and newer ones; the policies each channel, pins that are
and are not published, and ignored updates.

`CHECK_DEADLOCK FALSE` is set where the system stops by itself: an operation
returns, a writer is dead, a workflow is over, the bounds on operations are reached.

### Fairness

`Executor!FairSpec` assumes `WF_vars(Work)`: a running `Execute` takes its next
statement. `Work` holds `ProcessSucceeds` and `ProcessFails` because each
registered command has a timeout (`runner.go:31`, `executor.go:136`) after
which its process group is killed and its pipes closed (`process_unix.go:17-45`).
It holds neither a crash, a cancellation, a recovery nor anything other
programs do, none of which must happen. A process that writes for ever does not
stop it: the timeout is one of its ends, always enabled. `ActionOrder` assumes
`WF_vars(Next)` of a sequential walk. Everything else is safety.

## 4. Findings

Each is at a line where the repository's decisions promise otherwise; they are
quoted in `PROJECT.json`, "findings".

- `runner.go:62` maps `exec.ErrWaitDelay` to `EXEC_START_FAILED`, and `recovery.go:197`
  does not count that code as a write that may have started: a write that ran
  is no recovery candidate (`executor_pipes`).
- `recovery.go:187` looks at the diff of a step before it looks at whether the
  write was skipped: what another program changed between the two snapshots of
  a skipped, completed step makes it a `changed` candidate, although D-041 calls
  it unchanged. For a set the manifest then offers a restore, which
  `recoverableSnapshots` refuses as the alias is the same; this is why
  `CurrentIsRestorable` asks for a changed alias (`node_runtime_skipped`).
- `baseinstall/collector.go:683` takes a formula for satisfied when one of its versions is
  right, although D-059 stops at any other version on the target architecture.
  The adapter refuses the confirmed operation in its preflight (`base_two_kegs`).
- `version/java.go:79` pads a feature line with zeros, so that every patched Java of
  the selected line is greater than it and `evaluate.go:168` calls its feature line newer
  than the channel's (`java_feature_line`).

## 5. Proofs

Every safety property that a passing run checks, and the two refinements. None of them is
inductive by itself; each module has one strengthening `IInv`, which TLC checked
on the module's instance first, a theorem `Inductive` that proves `Spec => []IInv` with one
step per action and below it one per conjunct, and theorems that follow from it.

### Executor

`Executor_proofs` begins with lemmas on the operators over a record; the
theorems of `Spec` follow, for every number of actions `N`, every
set of facts, every acyclic dependency relation that points backwards, and
every choice of callbacks; the assumptions are the named ASSUMEs of `OperationRecord`
and `Executor`. `MaxDrift` occurs in no argument.

`EveryRecordIsValid` needs the shape of the record at each statement;
`WriteAhead` needs that what is in memory at the launch is what was last saved; what `ReturnAgreesWithDisk` says
at the end has to be carried from each save. The strengthening is

    IInv == TypeOK /\ MemoryInv /\ DiskInv /\ LaunchInv /\ ReturnInv /\ EvidenceInv

`MemoryInv` says for each `pc` which shape the record in memory has and how the
disk may differ from it, `DiskInv` that the disk holds a valid record whose
steps form a prefix, `LaunchInv` that each launched process is announced there
with its dependencies completed, `ReturnInv` what has been returned, and
`EvidenceInv` that a launched, uncompleted step is either still in progress or
recovery evidence. `WritesAreAccountedFor`
assumes `~InheritedPipes`: with it the property is false, as `executor_pipes`
shows; on Windows or with descendants that keep the pipes the assumption does
not hold.

The last part of `Executor_proofs` shows that `Executor` implements `OperationHistory` under
the mapping of `MC_Executor` (`DiskIsAHistory`): `Status` is the state of the record
on disk, `InProgress` its one active step, `CompletedOnDisk` what it completed.
`IInv` leaves open which state the disk has at which statement, so the
strengthening is

    HInv == IInv /\ ProgressInv

with the disk `running` from the first save of a step to its end and `verifying`
while `Verify` runs. Each action then is one move of the history or a stutter
(`NextMoves`); a failed save is a stutter on disk, whatever it does in memory. 
`CompletionsAreVerified` does not follow from the verification alone, as other programs, the next
actions and surviving processes run between it, the save and the end. `FactsInv` adds to it
that a verification not saved yet is worth as much as a saved one, and that a process
which outlives its executor belongs to a step that is not completed (`UnderWay`), so
whatever it still writes takes nothing completed from its target (`FactsKept`).

### FileStore

For any number of saves, with and without a rename that replaces.

    IInv == TypeOK /\ ProgressInv /\ FilesInv /\ LoadInv

`ProgressInv` relates the version being saved to the acknowledged one at each
call of `Save`, `FilesInv` says which of destination and backup hold what there
(in particular that the backup holds the acknowledged version whenever there is
no destination), and `LoadInv` that a reader which has missed the destination
finds a backup that is not older than what was acknowledged when it began.
`StaysLoadable` and `LoadIsFresh` follow. `SavesAreAtomic` is the refinement of
`AtomicRecord`: the initial state maps to its initial state (`InitRefines`), and
every call of `Save` to its one commit, to an end, or to a stutter (`SaveRefines`).

### ActionOrder

For every list of distinct actions and every set of dependency lists, unknown
dependencies and cycles included; `GraphsAssumption` only says that each is a list.

    IInv == OrderType /\ StackInv /\ DutyInv /\ OrderedInv /\ ListingInv /\ RefusalInv

`StackInv` says that the frames are exactly the entered actions, each a
dependency of the one below it, which is why meeting an entered action is a
real cycle (`CycleIsReal`). `DutyInv` says of every frame that each of its
dependencies is ordered, still to be looked at, or the frame above; a frame
that is left has none of the last two, so `OrderedInv` is kept: the order is
without repetitions and dependencies come first. `ListingInv` has every action
that was never entered still in the listing. That a graph with an order is
acyclic uses the first position in it of a set of actions (`FirstPosition`).
`ListedOrdersAreKept` needs one more invariant, `KeptInv`: while a Plan listed
dependencies first is walked the stack has at most one frame, and order, stack
and the rest of the listing together are the listing.

### Workflow

For any number of stages (the code has three), operations and instants, and
whatever `Outcomes` the executor has. `UnsetInstantAssumption` and
`UnsetAssumption` say that an unset field is no instant, Plan or operation.

The larger half is about the Workflow Record alone. `Well(r, i)` says that the
workflow is at stage `i`: the stages before it completed, those after it
pending, the bindings complete, and the history *replays* to exactly these
states and instants. `ReplayOneMore`, `TimeOneMore` and `FirstStartOneMore` are what one more
transition does to the replay; from them each of `NewRecord`, `Bound`, `Started`
and `Finished` leads from a well-formed record to a well-formed one
(`CreateIsWell`, `BoundIsWell`, `StartedIsWell`, `FinishedIsWell`), and `WellIsValid` says that
`ValidateRecord` accepts it. No list is inducted over: the last transition of a
stage exists because a finite set of positions has a greatest element
(`Greatest`), which follows from the well-foundedness of `<`.

    IInv == TypeInv /\ DiskInv /\ RecordInv /\ PreparedInv /\ RunningInv /\ ReturnedInv

`RecordInv` has the caller's record well-formed and each stage's operation on
disk, bound to no other stage (`Backed`); `PreparedInv` the prepared stage as `Bound`
of that very record; `DiskInv` the instants of an operation in order and a
completed operation of every earlier stage before its Plan. `RunningInv` and `ReturnedInv`
say that what runs or was returned belongs to the prepared stage, and that a
completed operation that was returned is the one on disk. Two facts carry the
argument: a completed operation is never written again (`Grows`), and an operation
of the prepared stage is bound to no other one, since the disk knows its Plan's
stage; so nothing `AttachOperation` checks can fail (`AttachIsAccepted`).

### NodeTools

For every selection of tools and any number of operations, crashes and foreign
changes: `MaxOperations`, `MaxFaults` and `MaxTime` may be any numbers.
`OptionsAssumption` says that a request names at least one tool, each with a version between the
installed and the newest one.

    IInv == TypeInv /\ LogInv /\ PreparedInv /\ RunInv /\ MachineInv /\ CalmInv /\ StepInv

The first four hold whatever happens to the machine. `Log` says of each record
that its steps begin in order (`Advancing`), and that what its Plan says of its source
is still so (`Sourced`): the source is an *earlier* record that has ended, and an
ended record is never rewritten. From it `ContinuationsMatchTheirSource`. A
chain of continuations is a recursive function of the record; that one exists,
and that each of its values is a `Lineage` (no action completed twice, nothing left over
that the first Plan did not have, each dependency dropped on the way completed in
it), is shown by the least record for which it would not be so. From it
`ChainsRespectTheFirstPlan`.

The last three are about a machine that other programs leave alone. A
package manager either leaves a tool, leaves it half installed, or installs what was
asked for, and the executor runs it only below the target; so by `Rank` a tool
only ever moves forward (`InstallsMoves`), and what a Plan showed of a tool that has
changed never comes back (`Beyond`). A Plan confirmed twice therefore fails its
first comparison, unless it had changed nothing (`Single`): `OneConfirmationOneChange`.
For `CompletedWorkStaysReusable` the work of a completed step must still be there when
the steps and the operations after it have run, unless one of these was told to bring the
tool to another version (`Kept`, part of `CalmInv`): an operation that names the same version finds
the step satisfied and writes nothing, and one that does not name the tool leaves it
alone (`Careful`, `KeptWork`). pnpm is the reason for the case distinctions: the
digest that a scan shows of it is Corepack's, and an update of Corepack may bring
a newer pnpm; its version is what only moves forward.

### NodeRuntime

For every set of installable versions and any number of operations and faults.
`NoneAssumption` says that an unset snapshot is no snapshot.

    IInv == MachineInv /\ RecordInv /\ PhaseInv /\ PlanInv /\ AliasInv /\ VerifiedInv /\ ReviewInv /\ UndoInv

It follows a default from the scan that its Plan shows, over the executor's
comparisons, to the snapshots kept of it. `PlanInv` binds a restore to the two
snapshots of an *earlier* record, which is what makes the chain well-founded and
lets later records leave it alone; `AliasInv` carries the alias from Plan to baseline,
comparison and before snapshot, unless the operation is `disturbed`; `VerifiedInv`
says that what is verified is what was photographed. A review is kept as what it
was when it was made, so `ReviewInv` needs that a reviewed record is terminal and
terminal records do not change. `UndoInv` is the only part that assumes no fault:
every version a record was made from stays installed.

### BaseInstall

For every sequence of catalogs, every Profile, system and Homebrew and any number of
operations and foreign changes. `CatalogsAssumption` says that there is a catalog, that
all have the same formulae, and that git and cmake are among them; their versions,
dependencies and variations are arbitrary, cyclic and missing ones included.
`NoneAssumption` says that an unset snapshot is none.

    IInv == MachineInv /\ ScanInv /\ LockInv /\ PlanInv /\ PreparedInv /\ RecordInv
            /\ WorkInv /\ CleanInv /\ UndisturbedOperationCompletes /\ FinalLockIsTrue

The argument has three parts. The first is what the resolver says of a formula:
each catalog has exactly one entry for it (`OneCandidate`), so its item is decided by
whether the offered version is among its kegs (`FormulaResolves`, `MatchingFormula`). From it
`LockInv` and `PlanInv`: Lock and Plan come from *one* catalog, and each action of the Plan
is required at the version of that catalog. `PreparedInv` carries it on to the Review.

The second follows the operation. `WorkInv` holds while no other program interferes: what an
earlier action completed is still installed and its snapshots are as reviewed, the preflight
that passed still would, and the after snapshot shows what is there. It survives
`brew install` because that adds only what is absent (`ExactStays`). `CleanInv` needs that nothing at all goes
wrong: every formula of every Review is absent or at its version, so the
dependency that one action installed early is no conflict for the next (`CollectedIsReviewed`,
`BrewInstallsKeeps`); then no check can fail, which is `UndisturbedCompletes`.

The third reads the outcome. `DerivedLock` says which items `DeriveState` changes and how,
`ResolvedAgain` that resolving a scan with exactly the reviewed versions says the same:
`FinalLocksAreTrue`. `PlanIsDerivable` has the derived Lock valid and changed, which
with `WorkInv` gives `CompletionsCanBeFinalized`. `PartialInstallsCanGoOn` needs only the
types: on a machine where each formula is absent or at its published version the
Lock is plannable (`CleanIsPlannable`), its Plan reviewable, and each Review passes its preflight
(`CleanIsReviewable`).

The closure of a formula is the least set that holds it and its dependencies; this
definition, unlike a recursive one, the prover can use.

### Advice

For every history of the sources, every time to live, cache, machine and
policy, and indexes of every length and order. The assumptions are that lines are
positive and end (`LinesAssumption`), that a version is comparable or `None`
(`ReleasesAssumption`, `VersionsAssumption`: what `ParseSemVer` returns) and
that a cache was written by a clock that was right, behind, or so far ahead
that its entry lies in the future for the whole command (`CachesAssumption`): an
entry of the near future is taken for fresh longer than it should be.

The first part is about `Versions` alone. The comparison takes the first entry
that decides (`FirstDecides`), SemVer's order is stated on keys; `PrereleasesCompare` and
`VersionsCompare` show that the entry which decides is where the keys first
differ, and with the order being strict (`NoVersionPrecedesItself`,
`PrecedesIsTransitive`) the two are the same: `ComparisonIsSemVers`.

    IInv == ClockInv /\ ReadsInv /\ JoinInv

`ReadsInv` says that the document of a fresh read was published after the read
began minus the time to live, `JoinInv` that nothing is read after the report.
The properties then follow from the moment the report is made (`ReportIsMade`),
since it stays as it is (`ReportStays`).

`CandidatesAreTheNewest` needs the loop over the index. It is written as a
function of the position; that there is such a function (`BestExists`) and that what it
has at a position is the greatest so far (`BetterIsGreatest`, `LatestIsNewest`)
are both shown with the least position where they fail (`Least`), since the
induction theorems of the library cannot be used. `PlannedVersionsArePublished` follows
from it, or from `HasFreshRelease` for a pin. `EndsOfLifeAreCertain`
compares the report with the documents by what each lifecycle function says of
a line (`NodeEnd`, `JavaEnd`). `VerdictsAlwaysAgree` counts: of an assessment's codes
exactly one is a verdict (`OneVerdict`), and that of an update is the condition of a
candidate (`AvailableIsCandidate`).

### Only model-checked

`EveryOperationEnds` and `WalkEnds`: liveness under fairness is out of the
prover's reach.

## 6. Not modelled

*Input and output*: the discovery of tools, the parsing of their output, scans,
reports, formatting, argument handling, the schemas. *Data*: instants inside
an Operation Record, redaction, sizes and JSON; `codec.go`'s checks on them can
therefore not fail in the model. *Durability below the file system*: the
directory is not synced after a rename, and a power failure is not modelled.
*Two executors at once*: nothing in the code excludes them; each is one of the
"other programs" of the other. *Failing saves, timeouts and cancellation* are in
`Executor` and left out of the modules that use a shorter executor (`NodeTools`,
`NodeRuntime`, `BaseInstall`).

*BaseInstall*: versions with a leading "v"; bottles, their sizes and archives;
kegs of another architecture; the limit of 256
formulae to a closure; expiry.
*Advice*: findings on projects and build tools, versions projects keep in use,
wording, the parsing of text, reported issues, unreadable rows of a schedule.

The discovery of tools, the read-only adapters, the report, the command line and
the schemas are listed `not_modelled` in `PROJECT.json`: they keep no state and
have no order of their own that a later step relies on; what the other modules
use of them is their result, a scan.

## 7. Plan

Done, in this order: the executor and its record, the store, the order of
actions, the workflow, the update and continuation of Node tools, the
installation, default and recovery of Node.js, the installation of the Base
formulae with Profiles and Locks, the advice on updates; the proofs of the
executor with its refinement, the store, the order, the workflow, the Node
tools, the Node.js runtime, the Base formulae, the comparison of versions and
the advice. To come, the most important first:

1. `Plans`: validation of every kind of Plan as one predicate over small Plans,
   checked against the builders (everything a builder returns is valid, and
   nothing valid is executable that no builder returns).
2. `WorkflowManifest`: the comparison of a child Plan with the Manifest, under
   `Workflow`.
