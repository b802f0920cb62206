# RSScript in TLA+

RSScript is a small language with structured concurrency: a checker and compiler
that produce an *Artifact Bundle*, and a register VM that executes it inside a
host which supplies *providers* (files, HTTP, processes). This directory holds
TLA+ models of the parts of the repository whose correctness depends on the
order in which things happen, the TLC runs that check them on small instances,
and proofs, checked by TLAPS, of the properties that matter most.

Paths below are relative to the repository; `vm/` abbreviates
`crates/rsscript-vm/src/reg_vm/`.

## 1. The system and its parts

| Part | State | Operations | What is hard |
| --- | --- | --- | --- |
| **Task scheduler** `vm/scheduler.rs`, `vm/exec_ops.rs` | task table (slot, wait, result), FIFO ready queue, current task, id counter, counters | spawn, await, cancel, join a group, select, return, `?`, the loop with its wake-up scan | lost or doubled wakeups, a scan that is stale while it is processed, cancellation of queued and parked tasks, truthful deadlock reports |
| **Channels, streams, tokens** `vm/calls.rs`, `vm/intrinsics/mod.rs` | bounded queue, open senders, receiver taken/closed, cancelled flag | mint and close endpoints, send, recv, their cancellable forms, stream next and collect | several waiters for one place or message, end-of-stream, values lost with a parked task |
| **Resource scopes** `vm/resource_io.rs` | stack of open resources per task | acquire, drop, cleanup of one task and of all | exactly-once cleanup on every exit path, failing drop bodies |
| **Asynchronous provider calls** `vm/calls.rs` | a future per parked task | start, poll, resolve | completes at any time, errors abort the program |
| Limits and accounting `vm/exec.rs` | counters | charge | a limit may trip at any instruction |
| Native tier control `vm/model.rs`, `vm/tier.rs` | per-region state and counters | observe, compile, bail | give-up and retry at counter limits |
| Provider API `rsscript-provider-api` | generation-checked resource table, replay tape | register, cleanup, record, replay | reuse of slots, concurrent calls on a tape |
| Bundled providers `providers/{process,http,fs,...}` | permits, worker threads | call, cancel | late workers, bounded output |
| Isolated runner `rsscript-cli/src/cli/runner.rs`, `process-guard` | child, two pipe readers, deadline | spawn, write request, wait, terminate, decode | blocked pipes, timeout against exit, process trees |
| SDK `rsscript-sdk` | bundle, linked providers, report | verify, admit, link, execute | cleanup after an execution |
| Language server `crates/lsp` | open documents, generations, pending analyses, publication queue | did_open/change/save/close, analyse, publish | concurrent handlers, stale analyses, bounded queue |
| Compilation session `rsscript-semantics/src/database` | revisioned sources, query caches | edit, query | invalidation |
| Syntax, semantics, lowering, MIR, bytecode, artifact, review, CLI | none that outlives a call | pure functions | data, not order |

How they meet: the compiler's rules decide what the scheduler may assume (a task
handle is consumed exactly once on each path, `verify_task_lifetimes` in
`rsscript-mir/src/verify.rs`; a spawned call cannot take a mutable borrow; the
arms of a `select` are spawned in the order they are written). Instructions of
the running task change channels, scopes and the task table; between two
instructions that park, the scheduler alone decides who runs. A provider's
future completes in another thread and is only observed by the scheduler's
scan. At the end `run_program` drops every scope that is still open, and the
SDK cleans up the providers.

`PROJECT.json` lists the components with their status and every hazard at the
line where it bites.

## 2. Plan

Order of work, with the composition and the theorems each step aims at.

1. **Scheduler** (done): `Channels`, `Scheduler`, the abstract `TaskLedger`, and
   the proofs.
2. **Language server**: `LspServer` (done) for the document store, handlers,
   analyses and the publication queue. Left: `PackageInputs`, the package input
   cache whose texts an analysis reads from disk between two looks at a
   generation (property: no analysis that starts after an invalidation gets
   texts loaded before it), an abstract specification of the editor's view that
   `LspServer` refines, and the proof of `EditorAgrees` from the types of the
   store and the publisher.
3. **Runner**: parent, child, readers, bounded pipes, deadline. Safety: a report
   is returned only for a child that was reaped and a frame that was complete;
   liveness: the parent returns if pipes reach end-of-file.
4. **ProviderResources, ReplayTape, ProviderSlots**: generation-checked handles
   with a small generation width, cleanup that fails or panics; record and
   replay of concurrent calls; permits and abandoned workers. Theorem: a handle
   never closes another resource before the generation wraps.
5. **CompilationSession**: query caches against a reference that recomputes.
   Theorem: every cached answer equals the recomputed one.
6. **TierController** and **Limits**: the counters with their widths.
7. Further theorems about the scheduler: the accounting invariant, exactly-once
   drops, first-in-first-out delivery, and the refinement of `TaskLedger`.

## 3. Modules

| Module | What it is |
| --- | --- |
| `Channels` | `VmChannel` as a value: what send, recv, minting and closing do to one channel |
| `Scheduler` | the scheduler, the instructions of tasks, channels, scopes and provider calls; all properties |
| `TaskLedger` | what the scheduler promises about tasks and resources, with no queue and no waits |
| `MCScheduler` | the instruction sets of the checked instances |
| `LspServer`, `MCLsp` | the language server: document store, notification handlers, analyses, publisher |
| `SchedulerTypes` | proof of type correctness |
| `SchedulerSafety` | proofs: the ready queue is exact, stalls are real, the wake-up scan reaches its fixpoint, one life per task id |

### State of `Scheduler`

| Variable | Code |
| --- | --- |
| `phase`, `resume`, `woken` | where `run_scheduler` and `satisfy_waiters` stand: `top` of the loop, `wake` (about to scan), `resolve` (in the `for tid in ready` loop, `woken` is what is left of `ready`), `pop`, `run` (in `drive`), `exit` (left `run_scheduler`), `end` (left `run_program`); `resume` is where the scan returns to |
| `slot`, `wait` | `tasks: HashMap<TaskId, TaskSlot>`: `absent` (no entry), `runnable` (saved, no wait), `running` (swapped in), `parked` (has a wait), `done` |
| `ready_queue`, `current_task`, `next_task_id` | the fields of that name |
| `parent`, `held` | which task spawned which, and the task handles still in registers |
| `channels`, `tx`, `rx`, `token` | channel table (`present` says an id is in it); per task and channel the channel, sender and receiver handles it owns, was lent or has closed; the cancellation token |
| `scopes`, `next_resource` | `resource_scopes`; resources are numbered as they are acquired |
| `tasks_created` ... `tasks_live` | the counters of the execution report |
| `outcome` | what `run_program` will return |
| `budget` | bound: how many more budgeted instructions the task executes |
| `fate`, `published`, `taken`, `ended`, `drops`, `killed` | history the properties speak about: what became of each message, what each channel accepted and delivered, on which channels a receiver was told the stream ended, how often each resource was dropped, which tasks were cancelled |

A task is one activation of one function; calls inside it, registers, values and
wording are abstracted. A message is a number, a resource is a number. What a
task does next is nondeterministic: every instruction of the instance's `Ops`
that the compiler would accept for the handles the task holds. So an instance
stands for every program of the bounded size over its `Ops`, not for one
program.

Two restrictions. A spawned call gets each of its parent's endpoints, lent or
(with `move` in `Ops`, as the code generator accepts `take` arguments) taken from
the parent; a lent one can be used but not closed, since a spawn argument cannot
be borrowed mutably. A task does not hand endpoints back in its result. And
`JoinTasks` joins all children of the task, where the instruction names a list of
registers: the groups the compiler builds are such lists, and joining a child
that was awaited before is a no-op in both.

### Actions

The loop: `SatisfyBeforePop`, `PopFront`, `Idle`, `Stall`, `Exit`; the scan:
`Collect` (poll and collect `ready`), then one of `ResolveRecv`, `ResolveSend`,
`ResolveJoin`, `ResolveSelect`, `ResolveProvider` per task in id order, or
`ResolvePanic` where an `expect` fails. The instructions: `SpawnTask`,
`AwaitJoin`, `CancelTask`, `JoinTasks`, `SelectWait`, `Return`, `TryResult`,
`ResourceAcquire`, `ResourceDrop`, `CallExternal`, `ChannelBounded`,
`ChannelSender`, `ChannelReceiver`, `SenderClose`, `ReceiverClose`,
`ReceiverIntoStream`, `SenderSend`, `ReceiverRecv`, `StreamNext`,
`StreamCollectList`, `CancellationSourceCancel`; `Fault` is a limit, a deadline or
a run-time error, at any instruction. `HostCompletes` is the provider. Each
resolution and each instruction is atomic, as in the code: the VM is
single-threaded and only a provider's future completes concurrently. A drop body
may fail (`drop_fault`), which cuts `cancel_select_losers` and `?` short as in
the code.

### `LspServer`

| Variable | Code |
| --- | --- |
| `documents`, `next_revision`, `generations` | `DocumentStore` in `crates/lsp/src/documents.rs`; a text is its revision, a list of diagnostics the revision it was computed for |
| `pending_analysis` | the map of that name in `Backend`: the registered analysis of each package |
| `jobs` | the spawned tasks: `sleeping` (debounce, or waiting for a permit), `blocking` (the closure runs), `detached` (it runs on after its task was aborted), `computed`, `committing` (past the last look at the flag, waiting for the documents lock) |
| `handlers` | handlers in flight: the next step, and the jobs a handler made but has not spawned |
| `pending`, `wake`, `worker`, `batch` | the coalescing map of `publication.rs`, its capacity-one wake channel, the publisher task and what it took from the map |
| `waking` | an `enqueue` has inserted its publication, unlocked the map and not yet called `try_send` |
| `shown`, `evicted` | what the editor was told last; history of publications a full map dropped |

A step of a handler is the code between two `await`s; the documents mutex is
held only within a step, but for `enqueue`: it locks the map, inserts, unlocks
and then tries the wake channel (`TryWake`), so the publisher may drain the map
in between, while everything that needs the documents waits. The protocol library runs handlers concurrently; the
model lets any handler in flight take the next step, which includes every order
the library's executor and the fair mutexes can produce, and more. The editor
(open, edit with a good, full or inapplicable change, save with and without
text, close, watched files, shutdown) is the environment.

## 4. Runs

The runs of the scheduler use `MCScheduler`, `lsp` uses `MCLsp`; the cfg of a run
gives the bounds. Deadlock is checked in the passing runs of the scheduler (a
finished program stutters in `Ended`) and not in `lsp`: a server at rest waits
for the editor.

| Run | Instance | Properties | Shows |
| --- | --- | --- | --- |
| `tasks` | 4 tasks, 2 operations each; spawn, await, select, cancel, provider calls | `ReadyQueueExact`, `StallIsReal`, `TaskAccounting`, `HandlesNameTasks`, `OrphansWereCancelled`, `TaskLifecycle` | no wakeup is lost or doubled, the deadlock report is truthful, counters match the table, consumed handles are never waited for, only a cancelled parent leaves a child behind |
| `resources` | 3 tasks, 3 operations, 2 resources; every way out of a task, failing drops | `ResourceDroppedOnce`, `ImplementsLedger` | each resource is dropped exactly once, at the latest when the program returns; the scheduler implements `TaskLedger` |
| `channels` | 3 tasks, 4 operations of the root and 2 of the others, 3 messages, one channel of capacity 1 or 2; closing and cancelling too | `StallIsReal`, `WakeFixpoint`, `ChannelFifo`, `NoPartialTransfer` | two messages queued, a sender parked behind them, two receivers parked on one channel: the capacity holds, delivery is first-in-first-out, a message is in exactly one place, the scan ends in a fixpoint; and receivers waiting for a sender that nobody closed, where the stall is reported and is one |
| `streams` | 2 tasks, 3 operations, 3 messages, capacities -1, 0, 2; endpoints moved into the child | `TypeOK`, `ChannelFifo`, `NoPartialTransfer` | streams, cancellable operations and refused capacities |
| `termination` | 3 tasks, 2 operations, 2 messages, capacity 1, under `FairSpec` | `Terminates` | every bounded program ends (returns, or panics as `select_race` shows): the scheduler neither spins nor sleeps on runnable work |
| `lsp` | two documents of one package, 3 notifications, 2 handlers at a time, 1 permit, a publication map of 1 entry, under `FairSpec` | `ServerTypeOK`, `EditorAgrees`, `OnlyRegisteredRuns`, `NeverGoesBack`, `CommitIsCurrent`, `ComesToRest` | the editor ends up agreeing with the store and is never taken back; diagnostics are committed only while all texts they were computed from are current; superseded analyses do not run on; everything comes to rest |

Bounds. Three tasks are the least with which a task has both a waiter and a
competitor, four give a select with two arms whose arm has a child. Three
messages on a capacity of two give a full channel whose order matters and a
parked sender behind it; a capacity of one gives a sender and a receiver parked
on the same channel, where resolving the receiver frees the place the sender
waits for and one pass of the scan is not enough; two senders parked at once is
the run `parked_send`, on a capacity of one. In `tasks` the waits form a tree,
so the only stalls to rule out there are false ones; true ones need channels.
Two or three budgeted operations per task let a task park, be woken and park
again; instructions that consume what they work on (a
handle, an open scope) are not charged. Nothing in the code treats a fifth task
or a second channel differently from the ones in the instances; the theorems of
section 5 have no such bounds at all.

In `lsp` three notifications give two documents opened and one of them edited,
closed or touched on disk, or one document through open, loss of its text and
recovery. One permit and one map entry are the limits at which a detached
analysis holds up the next one and a publication is evicted; the code's limits
(2 and 4096) are the same code. The safety properties were also checked once
with four notifications (21 million states up to symmetry, 14 minutes), with
`enqueue` as one step.

Fairness. In `termination`: the VM thread keeps running (weak fairness
of its steps) and every provider future eventually completes (weak fairness of
`HostCompletes`). The first is the loop itself; the second is the providers'
obligation, and where it fails the code's `park_timeout` loop waits until the
deadline, which is `Fault`. In `lsp`: handlers, analyses and the publisher are
tasks of a multi-threaded runtime and the checker's blocking work returns; the
editor owes nothing.

### Disagreements found

Each has a run of its own that TLC must find violated.

| Run | What the repository says | What the code does |
| --- | --- | --- |
| `select_race` | removing a slot "stops the scheduler ... from ever resuming it" (`vm/scheduler.rs:272`) | a losing arm collected in the same pass as its select is resolved after its slot was removed, and `expect("task slot")` panics |
| `parked_send` | "park until a receiver frees space" (`vm/intrinsics/mod.rs:994`) | of two parked senders woken for one place the second gets an error on an open channel |
| `orphan_select` | "No child outlives its parent." (Semantics v0.7, 9.9) | children of a cancelled arm run on |
| `orphan_try` | the same | children of a task whose function is left through `?` run on |
| `select_winner` | "the slot must not linger" (`vm/exec_ops.rs:610`) | a select's winner stays in the task table |
| `none_is_final` | "`None` means the channel is closed" (Semantics v0.7) | `recv` answers `None` before the first sender is minted, and the channel delivers later |

## 5. Proofs

All theorems are about `Spec` for every value of the constants that satisfies
`SchedulerAssumption` (at least one task, natural bounds, integer capacities);
`Ops` and `ChannelIds` are arbitrary. They rest on nothing else.

- `TypeCorrect` (`SchedulerTypes`): `Spec => []TypeOK`. `TypeOK` is inductive
  by itself. It is split into five predicates over disjoint variables so that
  each action is proved against the parts it changes (`TypeStutter` covers the
  rest). Lemmas state the types of the shared pieces (cleanup, counting,
  `channel_send`...).
- `NoLostWakeup` (`SchedulerSafety`): `Spec => []ReadyQueueExact`. The property
  is not inductive: that the new id is not yet queued needs `SlotInv` (ids at or
  above `next_task_id` are absent and not queued), that a removal never hits the
  running task needs that no task is its own parent and that the running task is
  the current one, and that the loop has stopped when the outcome is known is
  `LoopInv`. `QueueInv` is the conjunction. One lemma per shape of step
  (`SuspendKeeps`, `WakeKeeps`, `RemoveKeeps`, `CompleteKeeps`, `AbortKeeps`)
  carries the actions.
- `StallsAreReal` and `WakesReachFixpoint` (`SchedulerSafety`):
  `Spec => []StallIsReal`, `Spec => []WakeFixpoint`. At the stall the queue is
  empty, so by `NoLostWakeup`'s invariant nothing is runnable; by the fixpoint
  nothing parked is resumable; and the root is parked because it is never
  removed (`RootInv`: it is nobody's child and no wait names it). That the
  report stays true until the program ends needs that no provider call is
  outstanding, the last conjunct of `StallInv`.
- `OneLifePerId` (`SchedulerSafety`): `Spec => TaskLifecycle`, an action property,
  from `QueueInv`.

Only model-checked: the accounting, resource, channel and lifetime invariants,
the refinement of `TaskLedger`, everything about the language server, and
liveness (`Terminates`, `ComesToRest`), which under fairness is outside the
prover's reach.

## 6. Not modelled

The pure stages of the compiler, codecs and digests (no state to order); native
code generation (equivalence of instruction sets over machine data); kernel
controls of the runner (the operating system's); what a drop body or a provider
does inside (a drop may fail, a provider answers a value or an error). Streams
over lists carry no shared state. Requests of the language server that only read
a snapshot (hover, definition, rename...) and the conversion of positions are
left out. What the server does *not* promise is visible in the model and listed
among the hazards: messages drained by a `collect_list` that then reports an
open sender are gone, a sender that leaves with its task stays counted, a full
publication map drops a document's publication, a save without text cancels a pending analysis and schedules
none, and of several documents one event touches only the last is analysed
again. The remaining parts of section 1 are in the
plan.
