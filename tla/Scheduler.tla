----------------------------- MODULE Scheduler -----------------------------
(***************************************************************************)
(* The cooperative task scheduler of the register VM: one thread runs one  *)
(* task at a time from a FIFO ready queue until the task completes or      *)
(* parks on a wait, then resolves every wait that became satisfiable.      *)
(*                                                                         *)
(* `phase` is the scheduler's program counter.  "top" and "pop" are the    *)
(* head of the loop of `run_scheduler` and its `pop_front`; "run" is       *)
(* `drive` executing `current_task`; "wake" is the scan at the head of the *)
(* loop of `satisfy_waiters` and "resolve" its inner loop, which returns   *)
(* to `resume`; "exit" is the cleanup of `run_program`, "end" its return.  *)
(*                                                                         *)
(* What tasks execute is left open: in phase "run" the current task takes  *)
(* any instruction in `Ops` that verified bytecode allows it, at most      *)
(* RootOps or MaxOps times.  Registers are reduced to the handles in them. *)
(***************************************************************************)
EXTENDS Channels, FiniteSets, Functions

CONSTANTS
  MaxTasks,      \* bound on tasks ever created, the root included
  RootOps,       \* bound on the budgeted instructions of the root task
  MaxOps,        \* bound on the budgeted instructions of any other task
  MaxMsgs,       \* bound on `send` instructions executed
  MaxResources,  \* bound on lexical resources acquired
  ChannelIds,    \* the channels a program may create
  Capacities,    \* arguments of `Channel.bounded`
  Ops            \* the instructions and faults this instance exercises

ASSUME SchedulerAssumption ==
  /\ MaxTasks \in Nat \ {0}
  /\ RootOps \in Nat /\ MaxOps \in Nat
  /\ MaxMsgs \in Nat
  /\ MaxResources \in Nat
  /\ Capacities \subseteq Int

TaskId == 0 .. MaxTasks - 1
Root == 0
NoTask == -1
MsgId == 1 .. MaxMsgs
ResourceId == 1 .. MaxResources

VARIABLES
  phase, resume,     \* the scheduler's program counter
  slot,              \* the task table: what a TaskSlot's fields amount to
  wait,              \* TaskSlot.wait
  ready_queue,
  woken,             \* the rest of `ready` in the pass being resolved
  next_task_id,
  current_task,
  parent, held,      \* task handles: who spawned, and which are unconsumed
  budget,            \* instructions each task may still execute
  channels,
  tx, rx,            \* channel, sender and receiver handles in each task's registers
  token,             \* the flag of the program's CancellationSource
  next_msg,          \* next message identifier
  fate,              \* history: what became of each message
  published, taken,  \* history: messages in and out of each channel
  ended,             \* history: channels that answered a receiver None
  scopes,            \* resource_scopes: open lexical resources per task
  next_resource,
  drops,             \* history: how often each resource was dropped
  killed,            \* history: tasks closed by cancellation
  tasks_created, tasks_completed, tasks_cancelled, tasks_live,
  outcome            \* what run_program returns

schedVars == <<phase, resume, ready_queue, woken, current_task>>
taskVars  == <<slot, wait, next_task_id, parent, held, budget>>
chanVars  == <<channels, tx, rx, token, next_msg, fate, published, taken, ended>>
scopeVars == <<scopes, next_resource, drops>>
countVars == <<tasks_created, tasks_completed, tasks_cancelled, tasks_live, killed>>
vars == <<schedVars, taskVars, chanVars, scopeVars, countVars, outcome>>

-----------------------------------------------------------------------------
(* Types.                                                                  *)

\* A slot's `saved`, `done` and `wait` fields take these combinations; a
\* reaped or not yet created task has no slot.
SlotState == {"absent", "runnable", "running", "parked", "done"}

NoWait == [kind |-> "None"]
WaitRecv(c) == [kind |-> "Recv", channel |-> c]
WaitSend(c, m) == [kind |-> "Send", channel |-> c, msg |-> m]
WaitJoin(t) == [kind |-> "Join", task |-> t]
WaitJoinAll(ts) == [kind |-> "JoinAll", tasks |-> ts]
WaitSelect(hs) == [kind |-> "Select", handles |-> hs]
WaitProvider(r) == [kind |-> "Provider", reply |-> r]

\* A provider future that completed but was not polled yet is "ok" or "err".
Reply == {"pending", "ok", "err"}
Wait ==
  {NoWait}
    \cup {WaitRecv(c) : c \in ChannelIds}
    \cup {WaitSend(c, m) : c \in ChannelIds, m \in MsgId}
    \cup {WaitJoin(t) : t \in TaskId}
    \cup {WaitJoinAll(ts) : ts \in SUBSET TaskId}
    \cup {WaitSelect(hs) : hs \in SUBSET TaskId}
    \cup {WaitProvider(r) : r \in Reply}

Fate == {"unsent", "parked", "sent", "refused", "abandoned", "lost"}
Outcome == {"running", "ok", "error", "stalled", "panic"}

\* A channel's handle, and sender registers: how many open senders the task
\* owns (it may close those), whether it was lent one, whether it has a closed
\* one.
TxHandles == [channel : {"none", "own", "lent"}, own : Nat, lent : BOOLEAN, closed : BOOLEAN]
RxHandle == {"none", "own", "lent", "closed", "stream"}
NoTx == [channel |-> "none", own |-> 0, lent |-> FALSE, closed |-> FALSE]

-----------------------------------------------------------------------------
(* Initial state: create_task for the entry function, then run_scheduler.  *)

Init ==
  /\ phase = "top" /\ resume = "top"
  /\ slot = [t \in TaskId |-> IF t = Root THEN "runnable" ELSE "absent"]
  /\ wait = [t \in TaskId |-> NoWait]
  /\ ready_queue = <<Root>>
  /\ woken = {}
  /\ next_task_id = 1
  /\ current_task = Root
  /\ parent = [t \in TaskId |-> NoTask]
  /\ held = {}
  /\ budget = [t \in TaskId |-> IF t = Root THEN RootOps ELSE MaxOps]
  /\ channels = [c \in ChannelIds |-> NoChannel]
  /\ tx = [t \in TaskId |-> [c \in ChannelIds |-> NoTx]]
  /\ rx = [t \in TaskId |-> [c \in ChannelIds |-> "none"]]
  /\ token = FALSE
  /\ next_msg = 1
  /\ fate = [m \in MsgId |-> "unsent"]
  /\ published = [c \in ChannelIds |-> <<>>]
  /\ taken = [c \in ChannelIds |-> <<>>]
  /\ ended = {}
  /\ scopes = [t \in TaskId |-> <<>>]
  /\ next_resource = 1
  /\ drops = [r \in ResourceId |-> 0]
  /\ killed = {}
  /\ tasks_created = 1 /\ tasks_completed = 0 /\ tasks_cancelled = 0 /\ tasks_live = 1
  /\ outcome = "running"

-----------------------------------------------------------------------------
(* Shared pieces of the actions.                                           *)

\* The current task executes a budgeted instruction of this instance.
Execute(op) ==
  /\ phase = "run"
  /\ op \in Ops
  /\ budget[current_task] > 0
  /\ budget' = [budget EXCEPT ![current_task] = @ - 1]

\* One that other limits bound, or that consumes what it works on.
ExecuteFree(op) == phase = "run" /\ op \in Ops /\ UNCHANGED budget

\* Outcome::Suspended: swap_out, then record the wait.
Suspend(w) ==
  /\ slot' = [slot EXCEPT ![current_task] = "parked"]
  /\ wait' = [wait EXCEPT ![current_task] = w]
  /\ phase' = "wake" /\ resume' = "top"
  /\ UNCHANGED <<ready_queue, woken, current_task>>

\* An EvalError leaves run_scheduler.
Abort(o) ==
  /\ outcome' = o
  /\ phase' = "exit"
  /\ UNCHANGED <<resume, woken, current_task>>

\* `tasks.remove` for every task of S.
Without(S) == [t \in TaskId |-> IF t \in S THEN "absent" ELSE slot[t]]

WaitsWithout(S) == [t \in TaskId |-> IF t \in S THEN NoWait ELSE wait[t]]

\* Removing a slot drops its wait, and a value parked in a `Send` with it.
Abandon(S) ==
  fate' = [m \in MsgId |->
             IF \E t \in S : wait[t].kind = "Send" /\ wait[t].msg = m
             THEN "abandoned" ELSE fate[m]]

\* cleanup_task_resource_scopes for every task of S: every open scope is
\* popped and its drop body run, even when one of the drops fails.
Cleanup(S) ==
  /\ scopes' = [t \in TaskId |-> IF t \in S THEN <<>> ELSE scopes[t]]
  /\ drops' = [r \in ResourceId |->
                 drops[r] + Cardinality({t \in S : r \in Range(scopes[t])})]
  /\ UNCHANGED next_resource

\* A drop body of one of these tasks' open scopes may return an error.
DropMayFail(S) == "drop_fault" \in Ops /\ \E t \in S : scopes[t] # <<>>

\* A task that is removed before it is done counts as cancelled.
CountCancelled(S) ==
  /\ killed' = killed \cup S
  /\ tasks_cancelled' = tasks_cancelled + Cardinality(S)
  /\ tasks_live' = tasks_live - Cardinality(S)
  /\ UNCHANGED <<tasks_created, tasks_completed>>

\* Mutant: a finished task that is removed counts as cancelled too.
NotDone_unchecked(S) == {t \in S : slot[t] # "absent"}

NotDone(S) == {t \in S : slot[t] \notin {"absent", "done"}}

\* First finished arm.  The compiler spawns the arms of a `select` in the
\* order they are written, so arm order is the order of task ids.
Finished(hs) == {h \in hs : slot[h] = "done"}
Winner(hs) == CHOOSE h \in Finished(hs) : \A g \in Finished(hs) : h <= g

\* The losers cancel_select_losers has removed once it stops after `last`.
Losers(hs, last) == {h \in hs \ {Winner(hs)} : h <= last /\ slot[h] # "absent"}

\* Mutant: a cancelled arm keeps its resource scopes.
CancelSelectLosers_leaking(hs, last) ==
  LET K == NotDone(Losers(hs, last)) IN
  /\ Abandon(K)
  /\ UNCHANGED scopeVars
  /\ CountCancelled(K)

\* cancel_select_losers, up to and including arm `last`.
CancelSelectLosers(hs, last) ==
  LET K == NotDone(Losers(hs, last)) IN
  /\ Abandon(K)
  /\ Cleanup(K)
  /\ CountCancelled(K)

\* The arm whose failing cleanup makes cancel_select_losers return early.
FailingArm(hs) == {h \in NotDone(hs) : DropMayFail({h})}

-----------------------------------------------------------------------------
(* run_scheduler: the head of the loop.                                    *)

SatisfyBeforePop ==
  /\ phase = "top" /\ ready_queue = <<>>
  /\ phase' = "wake" /\ resume' = "pop"
  /\ UNCHANGED <<ready_queue, woken, current_task, taskVars, chanVars, scopeVars,
                 countVars, outcome>>

\* Mutant: a stale queue entry is resumed.
PopFront_unchecked ==
  /\ phase = "pop" \/ phase = "top"
  /\ ready_queue # <<>>
  /\ ready_queue' = Tail(ready_queue)
  /\ slot' = [slot EXCEPT ![Head(ready_queue)] = "running"]
  /\ current_task' = Head(ready_queue)
  /\ phase' = "run"
  /\ UNCHANGED <<resume, woken, wait, next_task_id, parent, held, budget,
                 chanVars, scopeVars, countVars, outcome>>

\* pop_front; a queue entry whose slot is gone or not runnable is skipped.
PopFront ==
  /\ phase = "pop" \/ phase = "top"
  /\ ready_queue # <<>>
  /\ ready_queue' = Tail(ready_queue)
  /\ LET t == Head(ready_queue) IN
       IF slot[t] = "runnable"
       THEN /\ slot' = [slot EXCEPT ![t] = "running"]
            /\ current_task' = t
            /\ phase' = "run"
       ELSE /\ phase' = "top"
            /\ UNCHANGED <<slot, current_task>>
  /\ UNCHANGED <<resume, woken, wait, next_task_id, parent, held, budget,
                 chanVars, scopeVars, countVars, outcome>>

\* Mutants: the idle loop never waits for a provider, or always does.
no_pending_provider_future == FALSE
always_pending_provider_future == TRUE

has_pending_provider_future == \E t \in TaskId : wait[t].kind = "Provider"

\* park_timeout, then around the loop; or the run's deadline or cancellation.
Idle ==
  /\ phase = "pop" /\ ready_queue = <<>>
  /\ has_pending_provider_future
  /\ \/ phase' = "top" /\ UNCHANGED <<resume, woken, current_task, outcome>>
     \/ "fault" \in Ops /\ Abort("error")
  /\ UNCHANGED <<ready_queue, taskVars, chanVars, scopeVars, countVars>>

Stall ==
  /\ phase = "pop" /\ ready_queue = <<>>
  /\ ~has_pending_provider_future
  /\ Abort("stalled")
  /\ UNCHANGED <<ready_queue, taskVars, chanVars, scopeVars, countVars>>

\* A provider's future becomes ready, at any time, in another thread.
HostCompletes(t) ==
  /\ wait[t] = WaitProvider("pending")
  /\ phase # "end"
  /\ \E r \in {"ok", "err"} :
       /\ r = "err" => "provider_err" \in Ops
       /\ wait' = [wait EXCEPT ![t] = WaitProvider(r)]
  /\ UNCHANGED <<schedVars, slot, next_task_id, parent, held, budget,
                 chanVars, scopeVars, countVars, outcome>>

\* Mutant: an error returns past the cleanup.
Exit_on_error ==
  /\ phase = "exit"
  /\ phase' = "end"
  /\ IF outcome = "ok" THEN Cleanup(TaskId) ELSE UNCHANGED scopeVars
  /\ UNCHANGED <<outcome, resume, ready_queue, woken, current_task, taskVars, chanVars,
                 countVars>>

\* run_program: cleanup_all_resource_scopes; an earlier error wins.
Exit ==
  /\ phase = "exit"
  /\ phase' = "end"
  /\ Cleanup(TaskId)
  /\ \/ UNCHANGED outcome
     \/ outcome = "ok" /\ DropMayFail(TaskId) /\ outcome' = "error"
  /\ UNCHANGED <<resume, ready_queue, woken, current_task, taskVars, chanVars, countVars>>

\* The program has returned.
Ended == phase = "end" /\ UNCHANGED vars

-----------------------------------------------------------------------------
(* satisfy_waiters and resolve_wait.                                       *)

\* Mutant: a group join is satisfied by its first finished child.
Satisfiable_any(t) ==
  /\ slot[t] = "parked"
  /\ CASE wait[t].kind = "Recv" -> channel_ready(channels[wait[t].channel])
       [] wait[t].kind = "Send" -> channel_has_space(channels[wait[t].channel])
       [] wait[t].kind = "Join" -> slot[wait[t].task] = "done"
       [] wait[t].kind = "JoinAll" -> \E u \in wait[t].tasks : slot[u] \in {"absent", "done"}
       [] wait[t].kind = "Select" -> Finished(wait[t].handles) # {}
       [] wait[t].kind = "Provider" -> wait[t].reply # "pending"
       [] OTHER -> FALSE

Satisfiable(t) ==
  /\ slot[t] = "parked"
  /\ CASE wait[t].kind = "Recv" -> channel_ready(channels[wait[t].channel])
       [] wait[t].kind = "Send" -> channel_has_space(channels[wait[t].channel])
       [] wait[t].kind = "Join" -> slot[wait[t].task] = "done"
       [] wait[t].kind = "JoinAll" -> \A u \in wait[t].tasks : slot[u] \in {"absent", "done"}
       [] wait[t].kind = "Select" -> Finished(wait[t].handles) # {}
       [] wait[t].kind = "Provider" -> wait[t].reply # "pending"
       [] OTHER -> FALSE

\* Mutant: the scan forgets parked senders.
Collect_no_senders ==
  /\ phase = "wake"
  /\ woken' = {t \in TaskId : Satisfiable(t) /\ wait[t].kind # "Send"}
  /\ phase' = IF woken' = {} THEN resume ELSE "resolve"
  /\ UNCHANGED <<resume, ready_queue, current_task, taskVars, chanVars, scopeVars,
                 countVars, outcome>>

\* poll_provider_futures and the scan: `ready` is fixed for the whole pass.
Collect ==
  /\ phase = "wake"
  /\ woken' = {t \in TaskId : Satisfiable(t)}
  /\ phase' = IF woken' = {} THEN resume ELSE "resolve"
  /\ UNCHANGED <<resume, ready_queue, current_task, taskVars, chanVars, scopeVars,
                 countVars, outcome>>

\* resolve_wait is called for `t`, the smallest id left, with this wait.
Resolving(t, kind) ==
  /\ phase = "resolve"
  /\ t \in woken /\ \A u \in woken : t <= u
  /\ slot[t] = "parked" /\ wait[t].kind = kind

\* Mutant: one pass only, no second scan.
NextInPass_once(t) ==
  /\ woken' = woken \ {t}
  /\ phase' = IF woken' = {} THEN resume ELSE "resolve"
  /\ UNCHANGED <<resume, current_task, outcome>>

\* The pass goes on with the next id, or scans again.
NextInPass(t) ==
  /\ woken' = woken \ {t}
  /\ phase' = IF woken' = {} THEN "wake" ELSE "resolve"
  /\ UNCHANGED <<resume, current_task, outcome>>

\* Mutant: the woken task is not re-queued.
complete_wait_unqueued(t, S) ==
  /\ slot' = [Without(S) EXCEPT ![t] = "runnable"]
  /\ wait' = WaitsWithout(S \cup {t})
  /\ UNCHANGED ready_queue

\* The wait is taken, the tasks of S lose their slots, `t` is re-queued.
complete_wait(t, S) ==
  /\ slot' = [Without(S) EXCEPT ![t] = "runnable"]
  /\ wait' = WaitsWithout(S \cup {t})
  /\ ready_queue' = Append(ready_queue, t)

TakeMessage(c) ==
  /\ channels' = [channels EXCEPT ![c] = channel_recv(@)]
  /\ taken' = [taken EXCEPT ![c] =
       IF channels[c].queue = <<>> THEN @ ELSE Append(@, Head(channels[c].queue))]
  /\ ended' = IF channel_recv_result(channels[c]) = "end_of_stream"
              THEN ended \cup {c} ELSE ended
  /\ UNCHANGED <<tx, rx, token, published>>

PutMessage(c, m, closed) ==
  /\ channels' = [channels EXCEPT ![c] = channel_send(closed, @, m)]
  /\ published' = [published EXCEPT ![c] =
       IF channel_send_result(closed, channels[c]) = "sent" THEN Append(@, m) ELSE @]
  /\ fate' = [fate EXCEPT ![m] =
       IF channel_send_result(closed, channels[c]) = "sent" THEN "sent" ELSE "refused"]
  /\ UNCHANGED <<tx, rx, token, taken, ended>>

\* Of two receivers woken for one message the second finds the channel empty,
\* of two senders woken for one free place the second finds it full.
ResolveRecv(t) ==
  /\ Resolving(t, "Recv")
  /\ TakeMessage(wait[t].channel)
  /\ complete_wait(t, {})
  /\ NextInPass(t)
  /\ UNCHANGED <<fate, next_msg, next_task_id, parent, held, budget, scopeVars, countVars>>

ResolveSend(t) ==
  /\ Resolving(t, "Send")
  /\ PutMessage(wait[t].channel, wait[t].msg, FALSE)
  /\ complete_wait(t, {})
  /\ NextInPass(t)
  /\ UNCHANGED <<next_msg, next_task_id, parent, held, budget, scopeVars, countVars>>

\* The joined tasks are reaped; being done they have no scope left to clean.
ResolveJoin(t) ==
  /\ LET joined == IF wait[t].kind = "Join" THEN {wait[t].task} ELSE wait[t].tasks IN
       /\ Resolving(t, "Join") \/ Resolving(t, "JoinAll")
       /\ wait[t].kind = "Join" => slot[wait[t].task] = "done"
       /\ complete_wait(t, joined)
       /\ Cleanup(joined)
  /\ NextInPass(t)
  /\ UNCHANGED <<chanVars, next_task_id, parent, held, budget, countVars>>

ResolveSelect(t) ==
  /\ Resolving(t, "Select")
  /\ Finished(wait[t].handles) # {}
  /\ LET hs == wait[t].handles IN
       \/ /\ CancelSelectLosers(hs, MaxTasks)
          /\ complete_wait(t, Losers(hs, MaxTasks))
          /\ NextInPass(t)
       \/ \E f \in FailingArm(hs) :
            /\ CancelSelectLosers(hs, f)
            /\ slot' = [Without(Losers(hs, f)) EXCEPT ![t] = "runnable"]
            /\ wait' = WaitsWithout(Losers(hs, f) \cup {t})
            /\ Abort("error")
            /\ UNCHANGED ready_queue
  /\ UNCHANGED <<channels, tx, rx, token, next_msg, published, taken, ended,
                 next_task_id, parent, held, budget>>

\* A provider's error ends the program.
ResolveProvider(t) ==
  /\ Resolving(t, "Provider")
  /\ \/ wait[t].reply = "ok" /\ complete_wait(t, {}) /\ NextInPass(t)
     \/ /\ wait[t].reply = "err"
        /\ slot' = [slot EXCEPT ![t] = "runnable"]
        /\ wait' = WaitsWithout({t})
        /\ Abort("error")
        /\ UNCHANGED ready_queue
  /\ UNCHANGED <<chanVars, scopeVars, next_task_id, parent, held, budget, countVars>>

\* One of the `expect`s of resolve_wait fails: the slot is gone or no longer
\* parked, or what the wait was for is no longer there.
ResolvePanic(t) ==
  /\ phase = "resolve"
  /\ t \in woken /\ \A u \in woken : t <= u
  /\ \/ slot[t] # "parked"
     \/ wait[t].kind = "Join" /\ slot[wait[t].task] # "done"
     \/ wait[t].kind = "Select" /\ Finished(wait[t].handles) = {}
  /\ outcome' = "panic" /\ phase' = "end"
  /\ UNCHANGED <<resume, woken, current_task, ready_queue, taskVars, chanVars,
                 scopeVars, countVars>>

-----------------------------------------------------------------------------
(* drive: the instructions of the current task that concern other tasks.   *)

HeldBy(t) == {u \in held : parent[u] = t}

\* A spawn argument is taken from the parent, or it is a copy of the parent's
\* handle.  It cannot be borrowed mutably, so the child cannot close, or turn
\* into a stream, what it was lent; what was taken it owns.
Moves == IF "move" \in Ops THEN {"channel", "sender", "receiver"} ELSE {}
TakenSenders(h, moved) == IF "sender" \in moved /\ h.own > 0 THEN 1 ELSE 0
TakesChannel(h, moved) == "channel" \in moved /\ h.channel = "own"
TakesRx(h, moved) == "receiver" \in moved /\ h \in {"own", "stream"}

ChildTx(h, moved) ==
  [channel |-> IF h.channel = "own" /\ ~TakesChannel(h, moved) THEN "lent" ELSE h.channel,
   own     |-> TakenSenders(h, moved),
   lent    |-> h.own > TakenSenders(h, moved) \/ h.lent,
   closed  |-> h.closed]
ParentTx(h, moved) ==
  [channel |-> IF TakesChannel(h, moved) THEN "none" ELSE h.channel,
   own     |-> h.own - TakenSenders(h, moved),
   lent    |-> h.lent,
   closed  |-> h.closed]

ChildRx(h, moved) ==
  CASE TakesRx(h, moved) \/ h = "closed" -> h
    [] h \in {"own", "lent"} /\ ~TakesRx(h, moved) -> "lent"
    [] OTHER -> "none"
ParentRx(h, moved) == IF TakesRx(h, moved) THEN "none" ELSE h

create_task(n) ==
  /\ next_task_id' = n + 1
  /\ slot' = [slot EXCEPT ![n] = "runnable"]
  /\ ready_queue' = Append(ready_queue, n)
  /\ tasks_created' = tasks_created + 1
  /\ tasks_live' = tasks_live + 1
  /\ UNCHANGED <<tasks_completed, tasks_cancelled, killed, wait>>

SpawnTask ==
  /\ Execute("spawn")
  /\ next_task_id \in TaskId
  /\ create_task(next_task_id)
  /\ parent' = [parent EXCEPT ![next_task_id] = current_task]
  /\ held' = held \cup {next_task_id}
  /\ \E moved \in SUBSET Moves :
       /\ tx' = [tx EXCEPT
                   ![next_task_id] = [c \in ChannelIds |-> ChildTx(tx[current_task][c], moved)],
                   ![current_task] = [c \in ChannelIds |-> ParentTx(tx[current_task][c], moved)]]
       /\ rx' = [rx EXCEPT
                   ![next_task_id] = [c \in ChannelIds |-> ChildRx(rx[current_task][c], moved)],
                   ![current_task] = [c \in ChannelIds |-> ParentRx(rx[current_task][c], moved)]]
  /\ UNCHANGED <<phase, resume, woken, current_task, channels, token, next_msg, fate,
                 published, taken, ended, scopeVars, outcome>>

\* Mutant: `await` leaves the handle usable.
AwaitJoin_reusable(u) ==
  /\ phase = "run"
  /\ u \in HeldBy(current_task)
  /\ slot[u] = "done"
  /\ slot' = Without({u})
  /\ Cleanup({u})
  /\ UNCHANGED <<held, wait, schedVars, next_task_id, parent, budget, chanVars,
                 countVars, outcome>>

\* A handle is awaited once; a finished task is reaped on the spot.
AwaitJoin(u) ==
  /\ phase = "run"
  /\ u \in HeldBy(current_task)
  /\ held' = held \ {u}
  /\ \/ /\ slot[u] = "done"
        /\ slot' = Without({u})
        /\ Cleanup({u})
        /\ UNCHANGED <<wait, schedVars>>
     \/ /\ slot[u] # "done"
        /\ Suspend(WaitJoin(u))
        /\ UNCHANGED scopeVars
  /\ UNCHANGED <<next_task_id, parent, budget, chanVars, countVars, outcome>>

CancelTask(u) ==
  /\ ExecuteFree("cancel")
  /\ u \in HeldBy(current_task)
  /\ held' = held \ {u}
  /\ slot' = Without({u})
  /\ wait' = WaitsWithout({u})
  /\ Abandon({u})
  /\ Cleanup({u})
  /\ CountCancelled(NotDone({u}))
  /\ \/ slot[u] # "absent" /\ UNCHANGED <<phase, resume, woken, current_task, outcome>>
     \/ slot[u] = "absent" /\ Abort("error")
     \/ DropMayFail({u}) /\ Abort("error")
  /\ UNCHANGED <<ready_queue, next_task_id, parent, channels, tx, rx, token, next_msg,
                 published, taken, ended>>

\* The handle registers still name children that were awaited before.
JoinTasks ==
  /\ ExecuteFree("join_all")
  /\ HeldBy(current_task) # {}
  /\ held' = held \ HeldBy(current_task)
  /\ LET all == {u \in TaskId : parent[u] = current_task} IN
       IF \A u \in all : slot[u] \in {"absent", "done"}
       THEN /\ slot' = Without(all)
            /\ Cleanup(all)
            /\ UNCHANGED <<wait, schedVars>>
       ELSE /\ Suspend(WaitJoinAll(all))
            /\ UNCHANGED scopeVars
  /\ UNCHANGED <<next_task_id, parent, chanVars, countVars, outcome>>

SelectWait(hs) ==
  /\ ExecuteFree("select")
  /\ hs # {} /\ hs \subseteq HeldBy(current_task)
  /\ held' = held \ hs
  /\ \/ /\ Finished(hs) # {}
        /\ \E last \in {MaxTasks} \cup FailingArm(hs) :
             /\ CancelSelectLosers(hs, last)
             /\ slot' = Without(Losers(hs, last))
             /\ wait' = WaitsWithout(Losers(hs, last))
             /\ UNCHANGED ready_queue
             /\ IF last = MaxTasks
                THEN UNCHANGED <<phase, resume, woken, current_task, outcome>>
                ELSE Abort("error")
     \/ /\ Finished(hs) = {}
        /\ Suspend(WaitSelect(hs))
        /\ UNCHANGED <<fate, scopeVars, countVars, outcome>>
  /\ UNCHANGED <<next_task_id, parent, channels, tx, rx, token, next_msg,
                 published, taken, ended>>

\* Outcome::Completed.  The root's value also passes the live-memory check.
Complete ==
  /\ tasks_completed' = tasks_completed + 1
  /\ tasks_live' = tasks_live - 1
  /\ IF current_task = Root
     THEN /\ Abort("ok") \/ ("fault" \in Ops /\ Abort("error"))
          /\ UNCHANGED slot
     ELSE /\ slot' = [slot EXCEPT ![current_task] = "done"]
          /\ phase' = "wake" /\ resume' = "top"
          /\ UNCHANGED <<woken, current_task, outcome>>
  /\ UNCHANGED <<ready_queue, tasks_created, tasks_cancelled, killed>>

\* `return`: verified code has released its scopes and consumed its handles.
Return ==
  /\ phase = "run"
  /\ scopes[current_task] = <<>> /\ HeldBy(current_task) = {}
  /\ Complete
  /\ UNCHANGED <<wait, next_task_id, parent, held, budget, chanVars, scopeVars>>

\* release_resource_scope, innermost first, for the k innermost scopes.
Release(k) ==
  LET mine == scopes[current_task]
      n == Len(mine) - k IN
  /\ scopes' = [scopes EXCEPT ![current_task] = SubSeq(mine, 1, n)]
  /\ drops' = [r \in ResourceId |->
                 drops[r] + Cardinality({i \in n + 1 .. Len(mine) : mine[i] = r})]
  /\ UNCHANGED next_resource

\* `?` on a failure returns early: the open scopes are released, but handles
\* of spawned tasks are dropped as they are.  A failing drop stops the rest.
TryResult ==
  /\ ExecuteFree("try")
  /\ \/ Release(Len(scopes[current_task])) /\ Complete
     \/ \E k \in 1 .. Len(scopes[current_task]) :
          /\ "drop_fault" \in Ops
          /\ Release(k)
          /\ Abort("error")
          /\ UNCHANGED <<ready_queue, slot, countVars>>
  /\ UNCHANGED <<wait, next_task_id, parent, held, chanVars>>

Fault ==
  /\ phase = "run" /\ "fault" \in Ops
  /\ Abort("error")
  /\ UNCHANGED <<ready_queue, taskVars, chanVars, scopeVars, countVars>>

ResourceAcquire ==
  /\ Execute("resource")
  /\ next_resource \in ResourceId
  /\ scopes' = [scopes EXCEPT ![current_task] = Append(@, next_resource)]
  /\ next_resource' = next_resource + 1
  /\ UNCHANGED <<drops, schedVars, slot, wait, next_task_id, parent, held, chanVars,
                 countVars, outcome>>

ResourceDrop ==
  /\ ExecuteFree("resource")
  /\ scopes[current_task] # <<>>
  /\ Release(1)
  /\ \/ UNCHANGED <<phase, resume, woken, current_task, outcome>>
     \/ "drop_fault" \in Ops /\ Abort("error")
  /\ UNCHANGED <<ready_queue, slot, wait, next_task_id, parent, held, chanVars, countVars>>

CallExternal ==
  /\ Execute("provider")
  /\ Suspend(WaitProvider("pending"))
  /\ UNCHANGED <<next_task_id, parent, held, chanVars, scopeVars, countVars, outcome>>

-----------------------------------------------------------------------------
(* drive: channel, stream and cancellation intrinsics of the current task. *)

\* What an intrinsic that does not park leaves alone.
StaysRunning == UNCHANGED <<schedVars, slot, wait>>
NoTaskChange == UNCHANGED <<next_task_id, parent, held, scopeVars, countVars, outcome>>

\* Mutant: the capacity is not checked.
ChannelBounded_unchecked(c, capacity) ==
  /\ ExecuteFree("channel")
  /\ ~channels[c].present
  /\ channels' = [channels EXCEPT ![c] = VmChannelNew(capacity)]
  /\ tx' = [tx EXCEPT ![current_task][c].channel = "own"]
  /\ UNCHANGED <<rx, token, next_msg, fate, published, taken, ended>>
  /\ StaysRunning /\ NoTaskChange

\* Ids count up.
ChannelBounded(c, capacity) ==
  /\ ExecuteFree("channel")
  /\ ~channels[c].present /\ \A d \in ChannelIds : d < c => channels[d].present
  /\ IF capacity <= 0 THEN UNCHANGED <<channels, tx>>
     ELSE /\ channels' = [channels EXCEPT ![c] = VmChannelNew(capacity)]
          /\ tx' = [tx EXCEPT ![current_task][c].channel = "own"]
  /\ UNCHANGED <<rx, token, next_msg, fate, published, taken, ended>>
  /\ StaysRunning /\ NoTaskChange

\* `Channel.sender` only reads the channel: a lent one will do.
ChannelSender(c) ==
  /\ Execute("channel")
  /\ tx[current_task][c].channel # "none"
  /\ channels' = [channels EXCEPT ![c] = add_sender(@)]
  /\ tx' = [tx EXCEPT ![current_task][c].own = @ + 1]
  /\ UNCHANGED <<rx, token, next_msg, fate, published, taken, ended>>
  /\ StaysRunning /\ NoTaskChange

\* `Channel.receiver` borrows the channel mutably, and answers once.
ChannelReceiver(c) ==
  /\ ExecuteFree("channel")
  /\ tx[current_task][c].channel = "own"
  /\ IF channels[c].receiver_taken THEN UNCHANGED <<channels, rx>>
     ELSE /\ channels' = [channels EXCEPT ![c].receiver_taken = TRUE]
          /\ rx' = [rx EXCEPT ![current_task][c] = "own"]
  /\ UNCHANGED <<tx, token, next_msg, fate, published, taken, ended>>
  /\ StaysRunning /\ NoTaskChange

SenderClose(c) ==
  /\ ExecuteFree("close")
  /\ tx[current_task][c].own > 0
  /\ channels' = [channels EXCEPT ![c] = drop_sender(@)]
  /\ tx' = [tx EXCEPT ![current_task][c] =
              [channel |-> @.channel, own |-> @.own - 1, lent |-> @.lent, closed |-> TRUE]]
  /\ UNCHANGED <<rx, token, next_msg, fate, published, taken, ended>>
  /\ StaysRunning /\ NoTaskChange

ReceiverClose(c) ==
  /\ ExecuteFree("close")
  /\ rx[current_task][c] = "own"
  /\ channels' = [channels EXCEPT ![c].receiver_closed = TRUE]
  /\ rx' = [rx EXCEPT ![current_task][c] = "closed"]
  /\ UNCHANGED <<tx, token, next_msg, fate, published, taken, ended>>
  /\ StaysRunning /\ NoTaskChange

\* A closed receiver makes a stream that only answers errors.
ReceiverIntoStream(c) ==
  /\ ExecuteFree("stream")
  /\ rx[current_task][c] \in {"own", "closed"}
  /\ rx' = [rx EXCEPT ![current_task][c] = IF @ = "own" THEN "stream" ELSE "none"]
  /\ UNCHANGED <<channels, tx, token, next_msg, fate, published, taken, ended>>
  /\ StaysRunning /\ NoTaskChange

CancellationSourceCancel ==
  /\ ExecuteFree("cancellable")
  /\ token' = TRUE
  /\ UNCHANGED <<channels, tx, rx, next_msg, fate, published, taken, ended>>
  /\ StaysRunning /\ NoTaskChange

\* `send`, and `send_cancellable` when `k`, through an open or closed handle.
\* The token is looked at before the channel, and never again once parked.
SenderSend(c, closed, k) ==
  /\ Execute("send")
  /\ k => "cancellable" \in Ops
  /\ next_msg \in MsgId
  /\ IF closed THEN tx[current_task][c].closed
     ELSE tx[current_task][c].own > 0 \/ tx[current_task][c].lent
  /\ next_msg' = next_msg + 1
  /\ \/ /\ k /\ token
        /\ fate' = [fate EXCEPT ![next_msg] = "refused"]
        /\ StaysRunning
        /\ UNCHANGED <<channels, tx, rx, token, published, taken, ended>>
     \/ /\ ~(k /\ token) /\ channel_send_would_block(closed, channels[c])
        /\ fate' = [fate EXCEPT ![next_msg] = "parked"]
        /\ Suspend(WaitSend(c, next_msg))
        /\ UNCHANGED <<channels, tx, rx, token, published, taken, ended>>
     \/ /\ ~(k /\ token) /\ ~channel_send_would_block(closed, channels[c])
        /\ PutMessage(c, next_msg, closed)
        /\ StaysRunning
  /\ NoTaskChange

ReceiverRecv(c, k) ==
  /\ Execute("recv")
  /\ k => "cancellable" \in Ops
  /\ rx[current_task][c] \in {"own", "lent", "closed"}
  /\ \/ /\ rx[current_task][c] = "closed" \/ (k /\ token)
        /\ StaysRunning
        /\ UNCHANGED <<channels, tx, rx, token, published, taken, ended>>
     \/ /\ rx[current_task][c] # "closed" /\ ~(k /\ token)
        /\ ~channel_ready(channels[c])
        /\ Suspend(WaitRecv(c))
        /\ UNCHANGED <<channels, tx, rx, token, published, taken, ended>>
     \/ /\ rx[current_task][c] # "closed" /\ ~(k /\ token)
        /\ channel_ready(channels[c])
        /\ TakeMessage(c)
        /\ StaysRunning
  /\ UNCHANGED <<next_msg, fate>>
  /\ NoTaskChange

\* `Stream.next` on a channel stream never parks.
StreamNext(c) ==
  /\ Execute("stream")
  /\ rx[current_task][c] = "stream"
  /\ TakeMessage(c)
  /\ UNCHANGED <<next_msg, fate>>
  /\ StaysRunning /\ NoTaskChange

\* Without a closed sender side the answer is an error, and the drained
\* messages are gone.
StreamCollectList(c) ==
  /\ Execute("stream")
  /\ rx[current_task][c] = "stream"
  /\ channels' = [channels EXCEPT ![c] = channel_drain(@)]
  /\ taken' = [taken EXCEPT ![c] = @ \o channels[c].queue]
  /\ IF channels[c].senders = 0
     THEN ended' = ended \cup {c} /\ UNCHANGED fate
     ELSE /\ fate' = [m \in MsgId |->
                        IF m \in Range(channels[c].queue) THEN "lost" ELSE fate[m]]
          /\ UNCHANGED ended
  /\ UNCHANGED <<tx, rx, token, next_msg, published>>
  /\ StaysRunning /\ NoTaskChange

-----------------------------------------------------------------------------
(* The specification.                                                      *)

TaskInstruction ==
  \/ SpawnTask
  \/ \E u \in TaskId : AwaitJoin(u) \/ CancelTask(u)
  \/ JoinTasks
  \/ \E hs \in SUBSET held : SelectWait(hs)
  \/ Return
  \/ TryResult
  \/ Fault
  \/ ResourceAcquire
  \/ ResourceDrop
  \/ CallExternal

ChannelInstruction ==
  \/ CancellationSourceCancel
  \/ \E c \in ChannelIds :
       \/ \E n \in Capacities : ChannelBounded(c, n)
       \/ ChannelSender(c) \/ ChannelReceiver(c)
       \/ SenderClose(c) \/ ReceiverClose(c) \/ ReceiverIntoStream(c)
       \/ \E closed, k \in BOOLEAN : SenderSend(c, closed, k)
       \/ \E k \in BOOLEAN : ReceiverRecv(c, k)
       \/ StreamNext(c) \/ StreamCollectList(c)

SchedulerStep ==
  \/ SatisfyBeforePop \/ PopFront \/ Idle \/ Stall \/ Collect \/ Exit
  \/ \E t \in TaskId :
       \/ ResolveRecv(t) \/ ResolveSend(t) \/ ResolveJoin(t) \/ ResolveSelect(t)
       \/ ResolveProvider(t) \/ ResolvePanic(t)

Next ==
  \/ TaskInstruction
  \/ ChannelInstruction
  \/ SchedulerStep
  \/ \E t \in TaskId : HostCompletes(t)
  \/ Ended

Spec == Init /\ [][Next]_vars

\* The VM thread keeps running, and every provider future completes.
FairSpec ==
  /\ Spec
  /\ WF_vars(TaskInstruction \/ ChannelInstruction \/ SchedulerStep)
  /\ \A t \in TaskId : WF_vars(HostCompletes(t))

-----------------------------------------------------------------------------
(* Properties.                                                             *)

Present(t) == slot[t] # "absent"
Live(t) == slot[t] \in {"runnable", "running", "parked"}

SchedTypeOK ==
  /\ phase \in {"top", "pop", "run", "wake", "resolve", "exit", "end"}
  /\ resume \in {"top", "pop"}
  /\ ready_queue \in Seq(TaskId)
  /\ woken \in SUBSET TaskId
  /\ current_task \in TaskId
  /\ outcome \in Outcome

TaskTypeOK ==
  /\ slot \in [TaskId -> SlotState]
  /\ wait \in [TaskId -> Wait]
  /\ next_task_id \in 1 .. MaxTasks
  /\ parent \in [TaskId -> TaskId \cup {NoTask}]
  /\ held \in SUBSET TaskId
  /\ budget \in [TaskId -> Nat]

ChanTypeOK ==
  /\ channels \in [ChannelIds -> VmChannel(MsgId)]
  /\ tx \in [TaskId -> [ChannelIds -> TxHandles]]
  /\ rx \in [TaskId -> [ChannelIds -> RxHandle]]
  /\ token \in BOOLEAN
  /\ next_msg \in 1 .. MaxMsgs + 1
  /\ fate \in [MsgId -> Fate]
  /\ published \in [ChannelIds -> Seq(MsgId)]
  /\ taken \in [ChannelIds -> Seq(MsgId)]
  /\ ended \in SUBSET ChannelIds

ScopeTypeOK ==
  /\ scopes \in [TaskId -> Seq(ResourceId)]
  /\ next_resource \in 1 .. MaxResources + 1
  /\ drops \in [ResourceId -> Nat]

CountTypeOK ==
  /\ killed \in SUBSET TaskId
  /\ tasks_created \in Nat /\ tasks_completed \in Nat /\ tasks_cancelled \in Nat
  /\ tasks_live \in Int

\* Every variable has the shape of the field of `RegVm` it stands for.
TypeOK == SchedTypeOK /\ TaskTypeOK /\ ChanTypeOK /\ ScopeTypeOK /\ CountTypeOK

Queued == Range(ready_queue)

\* No wakeup is lost and none is doubled: while the program runs, no task is
\* queued twice, every task that can make progress is queued, and none that is
\* running, parked or done is.
ReadyQueueExact ==
  outcome = "running" =>
    /\ \A i, j \in DOMAIN ready_queue : ready_queue[i] = ready_queue[j] => i = j
    /\ \A t \in TaskId : slot[t] = "runnable" => t \in Queued
    /\ \A t \in TaskId : slot[t] \in {"running", "parked", "done"} => t \notin Queued

\* The "stalled: every task is blocked (deadlock)" error is truthful: no task
\* is runnable, no parked task could be resumed, and the root is parked.
StallIsReal ==
  outcome = "stalled" =>
    /\ slot[Root] = "parked"
    /\ \A t \in TaskId : slot[t] \in {"absent", "parked", "done"} /\ ~Satisfiable(t)

\* satisfy_waiters reaches its fixpoint: when the loop picks the next task no
\* parked task is resumable, but for futures that completed since the scan.
WakeFixpoint ==
  phase \in {"top", "pop"} =>
    \A t \in TaskId : Satisfiable(t) => wait[t].kind = "Provider"

\* The scheduler's accounting: every created task is completed, cancelled or
\* live, the cancelled ones are those whose slot was removed early, and the
\* live ones are those that still hold a frame.
TaskAccounting ==
  /\ tasks_created = next_task_id
  /\ tasks_created = tasks_completed + tasks_cancelled + tasks_live
  /\ tasks_cancelled = Cardinality(killed)
  /\ outcome = "running" => tasks_live = Cardinality({t \in TaskId : Live(t)})

\* Every acquired lexical resource is open in exactly one place or was dropped
\* exactly once; a finished or removed task has none open; and when
\* run_program returns every one was dropped.
ResourceDroppedOnce ==
  /\ \A r \in ResourceId :
       drops[r] + Cardinality({t \in TaskId : r \in Range(scopes[t])})
         = IF r < next_resource THEN 1 ELSE 0
  /\ \A t \in TaskId : slot[t] \in {"absent", "done"} => scopes[t] = <<>>
  /\ phase = "end" /\ outcome # "panic" => \A t \in TaskId : scopes[t] = <<>>

\* A channel delivers what was sent, in order and once, and never buffers more
\* than its capacity.
ChannelFifo ==
  \A c \in ChannelIds :
    /\ published[c] = taken[c] \o channels[c].queue
    /\ Len(channels[c].queue) <= channels[c].capacity

\* No partial transfer: a message is in a channel or came out of one exactly
\* if its send reported success, and a parked one is owned by one waiter.
NoPartialTransfer ==
  \A m \in MsgId :
    /\ (fate[m] \in {"sent", "lost"}) <=> (\E c \in ChannelIds : m \in Range(taken[c]) \cup Range(channels[c].queue))
    /\ (fate[m] = "parked") <=>
         (\E t \in TaskId : wait[t].kind = "Send" /\ wait[t].msg = m)
    /\ \A t, u \in TaskId :
         wait[t].kind = "Send" /\ wait[u].kind = "Send" /\ wait[t].msg = wait[u].msg => t = u

\* The tasks whose handles the wait of `t` consumed.
Targets(t) ==
  CASE wait[t].kind = "Join" -> {wait[t].task}
    [] wait[t].kind = "Select" -> wait[t].handles
    [] OTHER -> {}

\* A task handle that is still to be consumed names a task in the table, and
\* no task is awaited twice: `cancel` never meets a reaped task and `await`
\* never parks on one.
HandlesNameTasks ==
  /\ \A u \in held : Present(u)
  /\ \A t \in TaskId : \A u \in Targets(t) : Present(u) /\ u \notin held
  /\ \A t, v \in TaskId : t # v => Targets(t) \cap Targets(v) = {}

\* A task goes through its life once: a finished one is never resumed, and an
\* id whose slot was removed is never used again.
TaskLifecycle ==
  [][\A t \in TaskId :
       /\ slot[t] = "done" => slot'[t] \in {"done", "absent"}
       /\ slot[t] = "absent" /\ t < next_task_id => slot'[t] = "absent"]_vars

\* "No child outlives its parent": a task that can still run has a parent that
\* is neither finished nor removed.
StructuredLifetime ==
  outcome = "running" =>
    \A t \in TaskId \ {Root} : Live(t) => Live(parent[t])

\* Cancellation is the only way (besides `?`) a child is left behind: a task
\* whose parent has ended had its parent cancelled.
OrphansWereCancelled ==
  outcome = "running" =>
    \A t \in TaskId \ {Root} : Live(t) => Live(parent[t]) \/ parent[t] \in killed

\* "The slot must not linger": a finished task stays in the table only while
\* a handle or a wait still refers to it.
FinishedIsReferenced ==
  \A u \in TaskId :
    slot[u] = "done" =>
      \/ u \in held
      \/ \E t \in TaskId : u \in Targets(t)
      \/ \E t \in TaskId : wait[t].kind = "JoinAll" /\ u \in wait[t].tasks

\* Removing a slot is enough to stop a cancelled task: the scheduler never
\* meets a task it removed in the middle of a pass.
NoSchedulerPanic == outcome # "panic"

\* "Park until a receiver frees space": a parked `send` that is resumed was
\* published, or its channel had been closed.
ParkedSendPublishes ==
  [][\A t \in TaskId :
       slot[t] = "parked" /\ wait[t].kind = "Send" /\ slot'[t] = "runnable" =>
         \/ fate'[wait[t].msg] = "sent"
         \/ channels[wait[t].channel].receiver_closed]_vars

\* "None means the channel is closed": once a receiver was answered None no
\* message is published on the channel any more.
NoneIsFinal == [][\A c \in ended : published'[c] = published[c]]_vars

\* The program ends: with a value, an error or the stall report, or in a panic
\* of the scheduler.
Terminates == <>(phase = "end")

\* What the ledger of tasks and resources calls a task's life, the resources
\* it has open, and the end of the program.
Lives == [t \in TaskId |->
            CASE slot[t] = "absent" /\ t >= next_task_id -> "unborn"
              [] slot[t] = "absent" /\ t < next_task_id -> "gone"
              [] slot[t] = "done" -> "finished"
              [] OTHER -> "live"]
Opened == [t \in TaskId |-> Range(scopes[t])]
Over == phase = "end" /\ outcome # "panic"

Ledger == INSTANCE TaskLedger WITH
  Task <- TaskId, Main <- Root, Res <- ResourceId,
  life <- Lives, open <- Opened, drops <- drops, over <- Over

\* The scheduler implements the ledger of tasks and resources: whatever path
\* ends a task, its resources are dropped once and in time.  A panic unwinds
\* past run_program's cleanup, so the ledger is then never closed.
ImplementsLedger == Ledger!LedgerSpec
=============================================================================
