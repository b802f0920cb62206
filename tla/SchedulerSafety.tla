-------------------------- MODULE SchedulerSafety --------------------------
(***************************************************************************)
(* The scheduler loses no wakeup, reports a stall only when there is one,  *)
(* and uses a task id for one life: for every number of tasks and channels *)
(* and whatever the tasks execute.                                         *)
(***************************************************************************)
EXTENDS SchedulerTypes

-----------------------------------------------------------------------------
(* The inductive invariant.                                                *)

\* The loop of run_scheduler is left exactly when an outcome is known.
LoopInv == phase \notin {"exit", "end"} <=> outcome = "running"

\* Ids that were not handed out are unknown; no task is its own parent; the
\* running task is the current one.
SlotInv ==
  /\ \A t \in TaskId : t >= next_task_id => slot[t] = "absent" /\ t \notin Queued
  /\ \A t \in TaskId : parent[t] # t
  /\ phase = "run" => slot[current_task] = "running"
  /\ \A t \in TaskId : slot[t] = "running" => t = current_task /\ phase \in {"run", "exit", "end"}

QueueInv == LoopInv /\ SlotInv /\ ReadyQueueExact

-----------------------------------------------------------------------------
(* The ready queue.                                                        *)

\* push_back adds one task to the queued ones.
LEMMA AppendRange ==
  ASSUME NEW q \in Seq(TaskId), NEW t \in TaskId
  PROVE  Range(Append(q, t)) = Range(q) \cup {t}
<1>1. /\ DOMAIN Append(q, t) = 1 .. Len(q) + 1
      /\ Append(q, t)[Len(q) + 1] = t
      /\ \A i \in 1 .. Len(q) : Append(q, t)[i] = q[i]
      /\ DOMAIN q = 1 .. Len(q)
      /\ Len(q) \in Nat
  OBVIOUS
<1>2. \A x : x \in Range(Append(q, t)) => x \in Range(q) \cup {t}
  BY <1>1 DEF Range
<1>3. \A x : x \in Range(q) \cup {t} => x \in Range(Append(q, t))
  <2>1. t \in Range(Append(q, t))
    BY <1>1 DEF Range
  <2>2. ASSUME NEW i \in 1 .. Len(q) PROVE q[i] \in Range(Append(q, t))
    <3>1. i \in DOMAIN Append(q, t) /\ Append(q, t)[i] = q[i]
      BY <1>1
    <3> QED
      BY <3>1, Zenon DEF Range
  <2>3. ASSUME NEW x \in Range(q) PROVE x \in Range(Append(q, t))
    BY <1>1, <2>2, Zenon DEF Range
  <2> QED
    BY <2>1, <2>3, Zenon
<1> QED
  BY <1>2, <1>3

\* push_back of a task that is not queued queues no task twice.
LEMMA AppendInjective ==
  ASSUME NEW q \in Seq(TaskId), NEW t \in TaskId, t \notin Range(q),
         \A i, j \in DOMAIN q : q[i] = q[j] => i = j
  PROVE  \A i, j \in DOMAIN Append(q, t) : Append(q, t)[i] = Append(q, t)[j] => i = j
<1>1. /\ DOMAIN Append(q, t) = 1 .. Len(q) + 1
      /\ Append(q, t)[Len(q) + 1] = t
      /\ \A i \in 1 .. Len(q) : Append(q, t)[i] = q[i]
      /\ DOMAIN q = 1 .. Len(q)
      /\ Len(q) \in Nat
  OBVIOUS
<1>2. \A i \in 1 .. Len(q) : q[i] # t
  BY <1>1 DEF Range
<1> QED
  BY <1>1, <1>2

\* pop_front takes out one task and leaves every other one queued once.
LEMMA TailFacts ==
  ASSUME NEW q \in Seq(TaskId), q # <<>>,
         \A i, j \in DOMAIN q : q[i] = q[j] => i = j
  PROVE  /\ \A i, j \in DOMAIN Tail(q) : Tail(q)[i] = Tail(q)[j] => i = j
         /\ Range(Tail(q)) = Range(q) \ {Head(q)}
         /\ Head(q) \in Range(q)
<1>1. /\ DOMAIN Tail(q) = 1 .. Len(q) - 1
      /\ \A i \in 1 .. Len(q) - 1 : Tail(q)[i] = q[i + 1]
      /\ DOMAIN q = 1 .. Len(q)
      /\ Len(q) \in Nat /\ Len(q) > 0
      /\ Head(q) = q[1]
  OBVIOUS
<1>2. \A x : x \in Range(Tail(q)) => x \in Range(q) \ {Head(q)}
  BY <1>1 DEF Range
<1>3. \A x : x \in Range(q) \ {Head(q)} => x \in Range(Tail(q))
  <2> SUFFICES ASSUME NEW x, x \in Range(q), x # Head(q) PROVE x \in Range(Tail(q))
    OBVIOUS
  <2>1. PICK i \in 1 .. Len(q) : q[i] = x
    BY <1>1 DEF Range
  <2>2. i - 1 \in 1 .. Len(q) - 1 /\ Tail(q)[i - 1] = x
    BY <1>1, <2>1
  <2> QED
    BY <1>1, <2>2, ZenonT(60) DEF Range
<1>4. Head(q) \in Range(q)
  BY <1>1 DEF Range
<1>5. \A i, j \in DOMAIN Tail(q) : Tail(q)[i] = Tail(q)[j] => i = j
  BY <1>1
<1> QED
  BY <1>2, <1>3, <1>4, <1>5

\* A step that leaves the queue alone, makes no task runnable and brings no
\* task to life keeps the queue exact.
LEMMA SameQueue ==
  ASSUME ReadyQueueExact, UNCHANGED ready_queue, outcome' = "running" => outcome = "running",
         \A t \in TaskId :
           /\ slot'[t] = "runnable" => slot[t] = "runnable"
           /\ slot'[t] \in {"running", "parked", "done"} =>
                slot[t] \in {"running", "parked", "done"}
  PROVE  ReadyQueueExact'
BY ZenonT(60) DEF ReadyQueueExact, Queued

\* Completing a wait appends a task that was parked.
LEMMA WakeQueue ==
  ASSUME TypeOK, ReadyQueueExact, outcome = "running",
         NEW t \in TaskId, NEW S \in SUBSET TaskId, slot[t] = "parked",
         complete_wait(t, S)
  PROVE  ReadyQueueExact' /\ Queued' = Queued \cup {t}
<1>1. ready_queue \in Seq(TaskId) /\ slot \in [TaskId -> SlotState]
  BY DEF TypeOK, SchedTypeOK, TaskTypeOK
<1>2. t \notin Queued
  BY DEF ReadyQueueExact
<1>3. Queued' = Queued \cup {t}
  BY <1>1, AppendRange, ZenonT(60) DEF Queued, complete_wait
<1>4. \A i, j \in DOMAIN ready_queue' : ready_queue'[i] = ready_queue'[j] => i = j
  BY <1>1, <1>2, AppendInjective DEF ReadyQueueExact, Queued, complete_wait
<1>5. \A u \in TaskId : slot'[u] = IF u = t THEN "runnable"
                                   ELSE IF u \in S THEN "absent" ELSE slot[u]
  BY <1>1, ZenonT(60) DEF complete_wait, Without
<1> QED
  BY <1>2, <1>3, <1>4, <1>5, ZenonT(60) DEF ReadyQueueExact

-----------------------------------------------------------------------------
(* How the shapes of step preserve the invariant.                          *)

\* Nothing the invariant is about changes.
LEMMA QuietKeeps ==
  ASSUME QueueInv,
         UNCHANGED <<phase, ready_queue, current_task, outcome, slot, next_task_id, parent>>
  PROVE  QueueInv'
BY DEF QueueInv, LoopInv, SlotInv, ReadyQueueExact, Queued

\* The running task parks.
LEMMA SuspendKeeps ==
  ASSUME TypeOK, QueueInv, phase = "run", NEW w, Suspend(w),
         UNCHANGED <<outcome, next_task_id, parent>>
  PROVE  QueueInv'
<1>1. slot \in [TaskId -> SlotState] /\ current_task \in TaskId
  BY DEF TypeOK, TaskTypeOK, SchedTypeOK
<1>2. slot' = [slot EXCEPT ![current_task] = "parked"] /\ slot[current_task] = "running"
  BY DEF Suspend, QueueInv, SlotInv
<1>3. ReadyQueueExact'
  BY <1>1, <1>2, SameQueue DEF QueueInv, Suspend
<1>4. SlotInv'
  BY <1>1, <1>2 DEF QueueInv, SlotInv, Suspend, Queued
<1>5. LoopInv'
  BY DEF QueueInv, LoopInv, Suspend
<1> QED
  BY <1>3, <1>4, <1>5 DEF QueueInv

\* The program stops with an error, at an instruction or in a pass; the slots
\* of some tasks may be gone.
LEMMA AbortKeeps ==
  ASSUME TypeOK, QueueInv, NEW o \in Outcome \ {"running"}, Abort(o),
         UNCHANGED <<ready_queue, next_task_id, parent>>,
         \A t \in TaskId : slot'[t] \in {"absent", "runnable", slot[t]},
         \A t \in TaskId : slot'[t] = "runnable" => t < next_task_id
  PROVE  QueueInv'
<1>1. \A t \in TaskId : t >= next_task_id => ~(t < next_task_id)
  BY DEF TypeOK, TaskTypeOK, TaskId
<1>2. SlotInv'
  BY <1>1 DEF QueueInv, SlotInv, Abort, Queued
<1>3. LoopInv' /\ ReadyQueueExact'
  BY DEF LoopInv, ReadyQueueExact, Abort
<1> QED
  BY <1>2, <1>3 DEF QueueInv

\* Other tasks than the running one are removed.
LEMMA RemoveKeeps ==
  ASSUME TypeOK, QueueInv, phase = "run", NEW S \in SUBSET TaskId, current_task \notin S,
         slot' = Without(S),
         UNCHANGED <<phase, ready_queue, current_task, outcome, next_task_id, parent>>
  PROVE  QueueInv'
<1>1. \A t \in TaskId : slot'[t] = IF t \in S THEN "absent" ELSE slot[t]
  BY DEF Without
<1>2. current_task \in TaskId
  BY DEF TypeOK, SchedTypeOK
<1>3. ReadyQueueExact'
  BY <1>1, SameQueue DEF QueueInv
<1>4. SlotInv'
  BY <1>1, <1>2 DEF QueueInv, SlotInv, Queued
<1> QED
  BY <1>3, <1>4 DEF QueueInv, LoopInv

\* A parked task is resumed, others are removed.
LEMMA WakeKeeps ==
  ASSUME TypeOK, QueueInv, NEW t \in TaskId, NEW S \in SUBSET TaskId,
         phase = "resolve", slot[t] = "parked", complete_wait(t, S), NextInPass(t),
         UNCHANGED <<next_task_id, parent>>
  PROVE  QueueInv'
<1>1. outcome = "running"
  BY DEF QueueInv, LoopInv
<1>2. ReadyQueueExact' /\ Queued' = Queued \cup {t}
  BY <1>1, WakeQueue DEF QueueInv
<1>3. \A u \in TaskId : slot'[u] = IF u = t THEN "runnable"
                                   ELSE IF u \in S THEN "absent" ELSE slot[u]
  BY DEF complete_wait, Without
<1>4. SlotInv'
  BY <1>2, <1>3 DEF QueueInv, SlotInv, NextInPass
<1>5. LoopInv'
  BY <1>1 DEF LoopInv, NextInPass
<1> QED
  BY <1>2, <1>4, <1>5 DEF QueueInv

\* The running task completes; the root's completion ends the program.
LEMMA CompleteKeeps ==
  ASSUME TypeOK, QueueInv, phase = "run", Complete, UNCHANGED <<next_task_id, parent>>
  PROVE  QueueInv'
<1>1. slot \in [TaskId -> SlotState] /\ current_task \in TaskId /\ slot[current_task] = "running"
  BY ZenonT(60) DEF TypeOK, TaskTypeOK, SchedTypeOK, QueueInv, SlotInv
<1>2. CASE current_task = Root
  BY <1>2 DEF Complete, Abort, QueueInv, LoopInv, SlotInv, ReadyQueueExact, Queued
<1>3. CASE current_task # Root
  <2>1. slot' = [slot EXCEPT ![current_task] = "done"] /\ phase' = "wake"
        /\ UNCHANGED <<ready_queue, current_task, outcome>>
    BY <1>3 DEF Complete
  <2>2. ReadyQueueExact'
    BY <1>1, <2>1, SameQueue, ZenonT(60) DEF QueueInv
  <2>3. SlotInv'
    BY <1>1, <2>1 DEF QueueInv, SlotInv, Queued
  <2> QED
    BY <2>1, <2>2, <2>3 DEF QueueInv, LoopInv
<1> QED
  BY <1>2, <1>3

\* A task that is present has been created.
LEMMA PresentCreated ==
  ASSUME TypeOK, QueueInv, NEW t \in TaskId, slot[t] # "absent"
  PROVE  t < next_task_id
BY DEF TypeOK, TaskTypeOK, TaskId, QueueInv, SlotInv

\* The root is queued when run_program starts.
LEMMA QueueInit == Init => QueueInv
<1> SUFFICES ASSUME Init PROVE QueueInv
  OBVIOUS
<1>1. Queued = {Root} /\ ready_queue = <<Root>>
  BY DEF Init, Queued, Range
<1>2. \A t \in TaskId : t >= 1 => t # Root
  BY DEF TaskId, Root
<1>3. SlotInv
  BY <1>1, <1>2 DEF Init, SlotInv, TaskId, NoTask
<1>4. ReadyQueueExact
  BY <1>1 DEF Init, ReadyQueueExact
<1> QED
  BY <1>3, <1>4 DEF QueueInv, LoopInv, Init

\* The steps of run_scheduler keep the queue exact.
LEMMA SchedulerStepKeeps == TypeOK /\ QueueInv /\ SchedulerStep => QueueInv'
<1> SUFFICES ASSUME TypeOK, QueueInv, SchedulerStep PROVE QueueInv'
  BY ZenonT(60)
<1>1. CASE SatisfyBeforePop
  BY <1>1 DEF SatisfyBeforePop, taskVars, QueueInv, LoopInv, SlotInv, ReadyQueueExact, Queued
<1>2. CASE PopFront
  <2> DEFINE t == Head(ready_queue)
  <2>1. /\ ready_queue \in Seq(TaskId) /\ ready_queue # <<>> /\ ready_queue' = Tail(ready_queue)
        /\ slot \in [TaskId -> SlotState] /\ t \in TaskId
    BY <1>2 DEF PopFront, TypeOK, SchedTypeOK, TaskTypeOK
  <2>2. outcome = "running" /\ outcome' = outcome
    BY <1>2, ZenonT(60) DEF PopFront, QueueInv, LoopInv
  <2>3. /\ \A i, j \in DOMAIN ready_queue' : ready_queue'[i] = ready_queue'[j] => i = j
        /\ Queued' = Queued \ {t}
        /\ t \in Queued
    BY <2>1, <2>2, TailFacts DEF QueueInv, ReadyQueueExact, Queued
  <2>4. \A u \in TaskId : slot[u] # "running"
    BY <1>2 DEF PopFront, QueueInv, SlotInv
  <2>5. CASE slot[t] = "runnable"
    <3>1. slot' = [slot EXCEPT ![t] = "running"] /\ current_task' = t /\ phase' = "run"
      BY <1>2, <2>5 DEF PopFront
    <3>2. ReadyQueueExact'
      BY <2>1, <2>2, <2>3, <3>1, ZenonT(60) DEF QueueInv, ReadyQueueExact
    <3>3. SlotInv'
      BY <1>2, <2>1, <2>3, <2>4, <2>5, <3>1, ZenonT(60) DEF PopFront, QueueInv, SlotInv
    <3> QED
      BY <2>2, <3>1, <3>2, <3>3 DEF QueueInv, LoopInv
  <2>6. CASE slot[t] # "runnable"
    <3>1. slot' = slot /\ current_task' = current_task /\ phase' = "top"
      BY <1>2, <2>6 DEF PopFront
    <3>2. ReadyQueueExact'
      BY <2>2, <2>3, <2>6, <3>1, ZenonT(60) DEF QueueInv, ReadyQueueExact
    <3>3. SlotInv'
      BY <1>2, <2>3, <2>4, <3>1, ZenonT(60) DEF PopFront, QueueInv, SlotInv
    <3> QED
      BY <2>2, <3>1, <3>2, <3>3 DEF QueueInv, LoopInv
  <2> QED
    BY <2>5, <2>6, ZenonT(60)
<1>3. CASE Idle
  BY <1>3, ZenonT(60) DEF Idle, Abort, taskVars, QueueInv, LoopInv, SlotInv, ReadyQueueExact, Queued
<1>4. CASE Stall
  BY <1>4, ZenonT(60) DEF Stall, Abort, taskVars, QueueInv, LoopInv, SlotInv, ReadyQueueExact, Queued
<1>5. CASE Collect
  <2>1. resume \in {"top", "pop"}
    BY DEF TypeOK, SchedTypeOK
  <2> QED
    BY <1>5, <2>1 DEF Collect, taskVars, QueueInv, LoopInv, SlotInv, ReadyQueueExact, Queued
<1>6. CASE Exit
  BY <1>6, ZenonT(60) DEF Exit, taskVars, QueueInv, LoopInv, SlotInv, ReadyQueueExact, Queued
<1>7. ASSUME NEW t \in TaskId, ResolveRecv(t) PROVE QueueInv'
  BY <1>7, WakeKeeps DEF ResolveRecv, Resolving
<1>8. ASSUME NEW t \in TaskId, ResolveSend(t) PROVE QueueInv'
  BY <1>8, WakeKeeps, ZenonT(60) DEF ResolveSend, Resolving
<1>9. ASSUME NEW t \in TaskId, ResolveJoin(t) PROVE QueueInv'
  <2> DEFINE joined == IF wait[t].kind = "Join" THEN {wait[t].task} ELSE wait[t].tasks
  <2>1. joined \in SUBSET TaskId
    BY <1>9, WaitFields, ZenonT(60) DEF ResolveJoin, Resolving, TypeOK, TaskTypeOK
  <2>2. complete_wait(t, joined)
    BY <1>9, ZenonT(60) DEF ResolveJoin
  <2> QED
    BY <1>9, <2>1, <2>2, WakeKeeps, ZenonT(60) DEF ResolveJoin, Resolving
<1>10. ASSUME NEW t \in TaskId, ResolveSelect(t) PROVE QueueInv'
  <2> DEFINE hs == wait[t].handles
  <2>1. hs \in SUBSET TaskId /\ slot[t] = "parked" /\ phase = "resolve"
    BY <1>10, WaitFields, ZenonT(60) DEF ResolveSelect, Resolving, TypeOK, TaskTypeOK
  <2>2. \A last : Losers(hs, last) \in SUBSET TaskId
    BY <2>1 DEF Losers
  <2>3. UNCHANGED <<next_task_id, parent>>
    BY <1>10, ZenonT(60) DEF ResolveSelect
  <2>4. CASE complete_wait(t, Losers(hs, MaxTasks)) /\ NextInPass(t)
    BY <2>1, <2>2, <2>3, <2>4, WakeKeeps, ZenonT(60)
  <2>5. ASSUME NEW f \in FailingArm(hs),
               slot' = [Without(Losers(hs, f)) EXCEPT ![t] = "runnable"],
               Abort("error"), UNCHANGED ready_queue
        PROVE  QueueInv'
    <3>1. \A u \in TaskId : slot'[u] = IF u = t THEN "runnable"
                                       ELSE IF u \in Losers(hs, f) THEN "absent" ELSE slot[u]
      BY <2>5 DEF Without
    <3>2. \A u \in TaskId : slot'[u] = "runnable" => u < next_task_id
      BY <2>1, <3>1, PresentCreated, ZenonT(60)
    <3> QED
      BY <2>3, <2>5, <3>1, <3>2, AbortKeeps, ZenonT(60) DEF Outcome
  <2> QED
    BY <1>10, <2>4, <2>5, ZenonT(60) DEF ResolveSelect
<1>11. ASSUME NEW t \in TaskId, ResolveProvider(t) PROVE QueueInv'
  <2>1. slot[t] = "parked" /\ phase = "resolve" /\ UNCHANGED <<next_task_id, parent>>
    BY <1>11 DEF ResolveProvider, Resolving
  <2>2. CASE complete_wait(t, {}) /\ NextInPass(t)
    BY <2>1, <2>2, WakeKeeps, ZenonT(60)
  <2>3. CASE slot' = [slot EXCEPT ![t] = "runnable"] /\ Abort("error") /\ UNCHANGED ready_queue
    <3>1. \A u \in TaskId : slot'[u] = IF u = t THEN "runnable" ELSE slot[u]
      BY <2>3 DEF TypeOK, TaskTypeOK
    <3>2. \A u \in TaskId : slot'[u] = "runnable" => u < next_task_id
      BY <2>1, <3>1, PresentCreated, ZenonT(60)
    <3> QED
      BY <2>1, <2>3, <3>1, <3>2, AbortKeeps, ZenonT(60) DEF Outcome
  <2> QED
    BY <1>11, <2>2, <2>3, ZenonT(60) DEF ResolveProvider
<1>12. ASSUME NEW t \in TaskId, ResolvePanic(t) PROVE QueueInv'
  BY <1>12 DEF ResolvePanic, taskVars, QueueInv, LoopInv, SlotInv, ReadyQueueExact, Queued
<1> QED
  BY <1>1, <1>2, <1>3, <1>4, <1>5, <1>6, <1>7, <1>8, <1>9, <1>10, <1>11, <1>12, ZenonT(60)
  DEF SchedulerStep

\* create_task queues a task that was never queued before.
LEMMA SpawnKeeps == TypeOK /\ QueueInv /\ SpawnTask => QueueInv'
<1> SUFFICES ASSUME TypeOK, QueueInv, SpawnTask PROVE QueueInv'
  OBVIOUS
<1> DEFINE n == next_task_id
<1>1. /\ n \in TaskId /\ n \in Int /\ slot \in [TaskId -> SlotState] /\ current_task \in TaskId
      /\ ready_queue \in Seq(TaskId) /\ parent \in [TaskId -> TaskId \cup {NoTask}]
  <2>1. /\ n \in TaskId /\ slot \in [TaskId -> SlotState] /\ current_task \in TaskId
        /\ ready_queue \in Seq(TaskId) /\ parent \in [TaskId -> TaskId \cup {NoTask}]
    BY Zenon DEF TypeOK, TaskTypeOK, SchedTypeOK, SpawnTask
  <2>2. TaskId \subseteq Int
    BY DEF TaskId
  <2> QED
    BY <2>1, <2>2, Zenon
<1>2. /\ slot' = [slot EXCEPT ![n] = "runnable"] /\ ready_queue' = Append(ready_queue, n)
      /\ parent' = [parent EXCEPT ![n] = current_task] /\ next_task_id' = n + 1
      /\ UNCHANGED <<phase, current_task, outcome>> /\ phase = "run"
  BY DEF SpawnTask, create_task, Execute
<1>3. outcome = "running" /\ slot[current_task] = "running" /\ slot[n] = "absent" /\ n \notin Queued
  BY <1>1, <1>2 DEF QueueInv, LoopInv, SlotInv
<1>4. Queued' = Queued \cup {n}
  BY <1>1, <1>2, AppendRange, ZenonT(60) DEF Queued
<1>5. \A i, j \in DOMAIN ready_queue' : ready_queue'[i] = ready_queue'[j] => i = j
  BY <1>1, <1>2, <1>3, AppendInjective, ZenonT(60) DEF QueueInv, ReadyQueueExact, Queued
<1>6. ReadyQueueExact'
  BY <1>1, <1>2, <1>3, <1>4, <1>5, ZenonT(60) DEF QueueInv, ReadyQueueExact
<1>7. \A t \in TaskId : t >= n + 1 => t >= n /\ t # n
  BY <1>1 DEF TaskId
<1>8. SlotInv'
  <2>1. \A t \in TaskId : t >= next_task_id' => slot'[t] = "absent" /\ t \notin Queued'
    BY <1>1, <1>2, <1>4, <1>7, ZenonT(60) DEF QueueInv, SlotInv
  <2>2. \A t \in TaskId : parent'[t] # t
    BY <1>1, <1>2, <1>3, ZenonT(60) DEF QueueInv, SlotInv
  <2> QED
    BY <1>1, <1>2, <1>3, <2>1, <2>2, ZenonT(60) DEF QueueInv, SlotInv
<1> QED
  BY <1>2, <1>6, <1>8 DEF QueueInv, LoopInv

\* The task instructions keep the queue exact: they never remove the running
\* task, and what they remove becomes a stale entry that is skipped.
LEMMA TaskInstructionKeeps == TypeOK /\ QueueInv /\ TaskInstruction => QueueInv'
<1> SUFFICES ASSUME TypeOK, QueueInv, TaskInstruction PROVE QueueInv'
  OBVIOUS
<1>a. /\ current_task \in TaskId /\ held \in SUBSET TaskId
      /\ phase = "run" => slot[current_task] = "running"
      /\ \A u \in HeldBy(current_task) : u # current_task
  BY DEF TypeOK, SchedTypeOK, TaskTypeOK, QueueInv, SlotInv, HeldBy
<1>1. CASE SpawnTask
  BY <1>1, SpawnKeeps, ZenonT(60)
<1>2. ASSUME NEW u \in TaskId, AwaitJoin(u) PROVE QueueInv'
  <2>1. CASE slot' = Without({u}) /\ UNCHANGED schedVars
    BY <1>a, <1>2, <2>1, RemoveKeeps, ZenonT(60) DEF AwaitJoin, schedVars
  <2>2. CASE Suspend(WaitJoin(u))
    BY <1>2, <2>2, SuspendKeeps, ZenonT(60) DEF AwaitJoin
  <2> QED
    BY <1>2, <2>1, <2>2, ZenonT(60) DEF AwaitJoin
<1>3. ASSUME NEW u \in TaskId, CancelTask(u) PROVE QueueInv'
  <2>1. slot' = Without({u}) /\ phase = "run" /\ u # current_task
        /\ UNCHANGED <<ready_queue, next_task_id, parent>>
    BY <1>a, <1>3, ZenonT(60) DEF CancelTask, ExecuteFree
  <2>2. CASE UNCHANGED <<phase, resume, woken, current_task, outcome>>
    BY <2>1, <2>2, RemoveKeeps, ZenonT(60)
  <2>3. CASE Abort("error")
    <3>1. \A t \in TaskId : slot'[t] = IF t = u THEN "absent" ELSE slot[t]
      BY <2>1 DEF Without
    <3>2. \A t \in TaskId : slot'[t] = "runnable" => t < next_task_id
      BY <3>1, PresentCreated, ZenonT(60)
    <3> QED
      BY <2>1, <2>3, <3>1, <3>2, AbortKeeps, ZenonT(60) DEF Outcome
  <2> QED
    BY <1>3, <2>2, <2>3, ZenonT(60) DEF CancelTask
<1>4. CASE JoinTasks
  <2> DEFINE all == {u \in TaskId : parent[u] = current_task}
  <2>1. phase = "run" /\ UNCHANGED <<next_task_id, parent, outcome>>
    BY <1>4, ZenonT(60) DEF JoinTasks, ExecuteFree
  <2>2. current_task \notin all /\ all \in SUBSET TaskId
    BY <1>a, ZenonT(60) DEF QueueInv, SlotInv
  <2>3. CASE slot' = Without(all) /\ UNCHANGED schedVars
    BY <2>1, <2>2, <2>3, RemoveKeeps DEF schedVars
  <2>4. CASE Suspend(WaitJoinAll(all))
    BY <2>1, <2>4, SuspendKeeps, ZenonT(60)
  <2> QED
    BY <1>4, <2>3, <2>4, ZenonT(60) DEF JoinTasks
<1>5. ASSUME NEW hs \in SUBSET held, SelectWait(hs) PROVE QueueInv'
  <2>1. phase = "run" /\ hs \subseteq HeldBy(current_task) /\ UNCHANGED <<next_task_id, parent>>
    BY <1>5 DEF SelectWait, ExecuteFree
  <2>2. \A last : Losers(hs, last) \in SUBSET TaskId /\ current_task \notin Losers(hs, last)
    BY <1>a, <2>1 DEF Losers
  <2>3. ASSUME NEW last,
               slot' = Without(Losers(hs, last)),
               UNCHANGED ready_queue,
               IF last = MaxTasks
               THEN UNCHANGED <<phase, resume, woken, current_task, outcome>>
               ELSE Abort("error")
        PROVE  QueueInv'
    <3>1. \A t \in TaskId : slot'[t] = IF t \in Losers(hs, last) THEN "absent" ELSE slot[t]
      BY <2>3 DEF Without
    <3>2. \A t \in TaskId : slot'[t] = "runnable" => t < next_task_id
      BY <3>1, PresentCreated
    <3>3. CASE last = MaxTasks
      BY <2>1, <2>2, <2>3, <3>3, RemoveKeeps, ZenonT(60)
    <3>4. CASE last # MaxTasks
      BY <2>1, <2>3, <3>1, <3>2, <3>4, AbortKeeps, ZenonT(60) DEF Outcome
    <3> QED
      BY <3>3, <3>4
  <2>4. CASE Suspend(WaitSelect(hs)) /\ UNCHANGED outcome
    BY <2>1, <2>4, SuspendKeeps, ZenonT(60)
  <2> QED
    BY <1>5, <2>3, <2>4, ZenonT(60) DEF SelectWait
<1>6. CASE Return
  BY <1>6, CompleteKeeps DEF Return
<1>b. ASSUME Abort("error"), UNCHANGED <<ready_queue, next_task_id, parent, slot>>
      PROVE  QueueInv'
  BY <1>b, AbortKeeps, PresentCreated DEF Outcome
<1>7. CASE TryResult
  BY <1>b, <1>7, CompleteKeeps DEF TryResult, ExecuteFree
<1>8. CASE Fault
  BY <1>b, <1>8 DEF Fault, taskVars
<1>9. CASE ResourceAcquire
  BY <1>9, QuietKeeps, ZenonT(60) DEF ResourceAcquire, schedVars
<1>10. CASE ResourceDrop
  BY <1>b, <1>10, QuietKeeps DEF ResourceDrop
<1>11. CASE CallExternal
  BY <1>11, SuspendKeeps, ZenonT(60) DEF CallExternal, Execute
<1> QED
  BY <1>1, <1>2, <1>3, <1>4, <1>5, <1>6, <1>7, <1>8, <1>9, <1>10, <1>11, ZenonT(60)
  DEF TaskInstruction

\* A channel intrinsic parks the running task or leaves the scheduler alone.
LEMMA ChannelInstructionShape ==
  ASSUME ChannelInstruction
  PROVE  /\ phase = "run" /\ NoTaskChange
         /\ \/ StaysRunning
            \/ \E c \in ChannelIds : Suspend(WaitRecv(c)) \/ Suspend(WaitSend(c, next_msg))
<1> USE DEF Execute, ExecuteFree
<1>1. CASE CancellationSourceCancel
  BY <1>1 DEF CancellationSourceCancel
<1>2. ASSUME NEW c \in ChannelIds, NEW n \in Capacities, ChannelBounded(c, n)
      PROVE  phase = "run" /\ NoTaskChange /\ StaysRunning
  BY <1>2 DEF ChannelBounded
<1>3. ASSUME NEW c \in ChannelIds,
             \/ ChannelSender(c) \/ ChannelReceiver(c) \/ SenderClose(c) \/ ReceiverClose(c)
             \/ ReceiverIntoStream(c) \/ StreamNext(c) \/ StreamCollectList(c)
      PROVE  phase = "run" /\ NoTaskChange /\ StaysRunning
  BY <1>3, ZenonT(60) DEF ChannelSender, ChannelReceiver, SenderClose, ReceiverClose, ReceiverIntoStream,
              StreamNext, StreamCollectList
<1>4. ASSUME NEW c \in ChannelIds, NEW closed \in BOOLEAN, NEW k \in BOOLEAN,
             SenderSend(c, closed, k)
      PROVE  phase = "run" /\ NoTaskChange /\ (StaysRunning \/ Suspend(WaitSend(c, next_msg)))
  BY <1>4, ZenonT(60) DEF SenderSend
<1>5. ASSUME NEW c \in ChannelIds, NEW k \in BOOLEAN, ReceiverRecv(c, k)
      PROVE  phase = "run" /\ NoTaskChange /\ (StaysRunning \/ Suspend(WaitRecv(c)))
  BY <1>5 DEF ReceiverRecv
<1> QED
  BY <1>1, <1>2, <1>3, <1>4, <1>5 DEF ChannelInstruction

\* Every step keeps the queue exact.
LEMMA QueueStep == TypeOK /\ QueueInv /\ [Next]_vars => QueueInv'
<1> SUFFICES ASSUME TypeOK, QueueInv, [Next]_vars PROVE QueueInv'
  OBVIOUS
<1>1. CASE ChannelInstruction
  BY <1>1, ChannelInstructionShape, QuietKeeps, SuspendKeeps, ZenonT(60)
  DEF NoTaskChange, StaysRunning, schedVars
<1>2. CASE (\E t \in TaskId : HostCompletes(t)) \/ Ended \/ UNCHANGED vars
  BY <1>2, QuietKeeps DEF HostCompletes, Ended, vars, schedVars, taskVars
<1> QED
  BY <1>1, <1>2, SchedulerStepKeeps, TaskInstructionKeeps DEF Next

\* No wakeup is lost or doubled, in every reachable state of every program.
THEOREM NoLostWakeup == Spec => []ReadyQueueExact
<1>1. QueueInv => ReadyQueueExact
  BY ZenonT(60) DEF QueueInv
<1> QED
  BY <1>1, QueueInit, QueueStep, TypeCorrect, PTL DEF Spec

-----------------------------------------------------------------------------
(* The inductive invariant behind the stall report.                        *)

\* A wait that names tasks does not name the root.
RootFree(w) ==
  /\ w.kind = "Join" => w.task # Root
  /\ w.kind = "JoinAll" => Root \notin w.tasks
  /\ w.kind = "Select" => Root \notin w.handles

\* The root is nobody's child and cannot be awaited, so it is never removed.
RootInv ==
  /\ slot[Root] \in {"runnable", "running", "parked"}
  /\ parent[Root] = NoTask
  /\ Root \notin held
  /\ \A t \in TaskId : RootFree(wait[t])

\* After a stall no provider call is outstanding, so nothing moves any more.
StallInv ==
  /\ WakeFixpoint
  /\ StallIsReal
  /\ outcome = "stalled" => ~has_pending_provider_future

-----------------------------------------------------------------------------
(* The root stays.                                                         *)

\* A step keeps the root when it neither removes it nor lets a wait name it.
LEMMA RootKeeps ==
  ASSUME RootInv, NEW w, RootFree(w),
         slot'[Root] \in {"runnable", "running", "parked", slot[Root]},
         parent'[Root] = NoTask, Root \notin held',
         \A t \in TaskId : wait'[t] \in {wait[t], NoWait, w}
  PROVE  RootInv'
<1>1. RootFree(NoWait)
  BY ZenonT(60) DEF RootFree, NoWait
<1>2. \A t \in TaskId : RootFree(wait'[t])
  BY <1>1, ZenonT(60) DEF RootInv
<1> QED
  BY <1>2, ZenonT(60) DEF RootInv

\* The waits that name no task.
LEMMA PlainWaits ==
  /\ RootFree(NoWait)
  /\ \A c : RootFree(WaitRecv(c))
  /\ \A c, m : RootFree(WaitSend(c, m))
  /\ \A r : RootFree(WaitProvider(r))
BY ZenonT(60) DEF RootFree, NoWait, WaitRecv, WaitSend, WaitProvider

\* The root starts runnable, without a parent.
LEMMA RootInit == Init => RootInv
<1> SUFFICES ASSUME Init PROVE RootInv
  OBVIOUS
<1>1. Root \in TaskId
  BY RootIsTask, Zenon
<1> QED
  BY <1>1, PlainWaits DEF Init, RootInv

\* A woken task goes on and the tasks it waited for, not the root, are removed.
LEMMA RootWake ==
  ASSUME TypeOK, RootInv, NEW t \in TaskId, NEW S \in SUBSET TaskId, Root \notin S,
         slot' = [Without(S) EXCEPT ![t] = "runnable"], wait' = WaitsWithout(S \cup {t}),
         UNCHANGED <<parent, held>>
  PROVE  RootInv'
<1>1. Root \in TaskId
  BY RootIsTask, Zenon
<1>2. slot'[Root] \in {"runnable", slot[Root]}
  BY <1>1 DEF Without
<1>3. \A u \in TaskId : wait'[u] \in {wait[u], NoWait, NoWait}
  BY DEF WaitsWithout
<1> QED
  BY <1>2, <1>3, PlainWaits, RootKeeps, ZenonT(60) DEF RootInv

\* The scheduler's own steps resume the root or leave it.
LEMMA RootSchedulerStep == TypeOK /\ RootInv /\ SchedulerStep => RootInv'
<1> SUFFICES ASSUME TypeOK, RootInv, SchedulerStep PROVE RootInv'
  OBVIOUS
<1>a. Root \in TaskId /\ slot \in [TaskId -> SlotState] /\ wait \in [TaskId -> Wait]
  BY SchedulerAssumption DEF TaskId, Root, TypeOK, TaskTypeOK
<1>b. ASSUME UNCHANGED <<slot, parent, held, wait>> PROVE RootInv'
  BY <1>b, ZenonT(60) DEF RootInv
<1>1. CASE SatisfyBeforePop \/ Idle \/ Stall \/ Collect \/ Exit
  BY <1>1, <1>b DEF SatisfyBeforePop, Idle, Stall, Collect, Exit, taskVars
<1>2. CASE PopFront
  <2>1. slot'[Root] \in {"running", slot[Root]}
    BY <1>a, <1>2 DEF PopFront
  <2> QED
    BY <1>2, <2>1, ZenonT(60) DEF PopFront, RootInv
<1>3. ASSUME NEW t \in TaskId,
             ResolveRecv(t) \/ ResolveSend(t) \/ ResolvePanic(t) PROVE RootInv'
  <2>1. CASE ResolvePanic(t)
    BY <1>b, <2>1 DEF ResolvePanic, taskVars
  <2>2. CASE ResolveRecv(t) \/ ResolveSend(t)
    <3>1. complete_wait(t, {}) /\ UNCHANGED <<parent, held>>
      BY <2>2, ZenonT(60) DEF ResolveRecv, ResolveSend
    <3> QED
      BY <3>1, RootWake DEF complete_wait
  <2> QED
    BY <1>3, <2>1, <2>2, ZenonT(60)
<1>4. ASSUME NEW t \in TaskId, ResolveJoin(t) PROVE RootInv'
  <2> DEFINE joined == IF wait[t].kind = "Join" THEN {wait[t].task} ELSE wait[t].tasks
  <2>1. joined \in SUBSET TaskId /\ Root \notin joined
    BY <1>a, <1>4, WaitFields, ZenonT(60) DEF ResolveJoin, Resolving, RootInv, RootFree
  <2>2. complete_wait(t, joined) /\ UNCHANGED <<parent, held>>
    BY <1>4 DEF ResolveJoin
  <2> QED
    BY <2>1, <2>2, RootWake, ZenonT(60) DEF complete_wait
<1>5. ASSUME NEW t \in TaskId, ResolveSelect(t) PROVE RootInv'
  <2> DEFINE hs == wait[t].handles
  <2>1. \A last : Losers(hs, last) \in SUBSET TaskId /\ Root \notin Losers(hs, last)
    BY <1>a, <1>5, WaitFields, ZenonT(60) DEF ResolveSelect, Resolving, RootInv, RootFree, Losers
  <2>2. PICK last : /\ slot' = [Without(Losers(hs, last)) EXCEPT ![t] = "runnable"]
                    /\ wait' = WaitsWithout(Losers(hs, last) \cup {t})
    BY <1>5, ZenonT(60) DEF ResolveSelect, complete_wait
  <2> QED
    BY <1>5, <2>1, <2>2, RootWake, ZenonT(60) DEF ResolveSelect
<1>6. ASSUME NEW t \in TaskId, ResolveProvider(t) PROVE RootInv'
  <2>1. slot' = [Without({}) EXCEPT ![t] = "runnable"] /\ wait' = WaitsWithout({} \cup {t})
    <3>1. slot = Without({}) /\ {t} = {} \cup {t}
      BY <1>a DEF Without
    <3> QED
      BY <1>6, <3>1, Zenon DEF ResolveProvider, complete_wait
  <2>2. UNCHANGED <<parent, held>>
    BY <1>6, Zenon DEF ResolveProvider
  <2>3. {} \in SUBSET TaskId /\ Root \notin {}
    BY Zenon
  <2> QED
    BY <2>1, <2>2, <2>3, RootWake, ZenonT(60)
<1> QED
  BY <1>1, <1>2, <1>3, <1>4, <1>5, <1>6 DEF SchedulerStep

\* No instruction removes the root: only children are held, and the root is
\* nobody's child.
LEMMA RootTaskInstruction == TypeOK /\ QueueInv /\ RootInv /\ TaskInstruction => RootInv'
<1> SUFFICES ASSUME TypeOK, QueueInv, RootInv, TaskInstruction PROVE RootInv'
  BY ZenonT(60)
<1>a. /\ Root \in TaskId /\ slot \in [TaskId -> SlotState] /\ wait \in [TaskId -> Wait]
      /\ current_task \in TaskId /\ current_task # NoTask /\ held \in SUBSET TaskId
      /\ parent \in [TaskId -> TaskId \cup {NoTask}]
  BY SchedulerAssumption DEF TaskId, Root, TypeOK, TaskTypeOK, SchedTypeOK, NoTask
<1>b. Root \notin HeldBy(current_task) /\ Root \notin {u \in TaskId : parent[u] = current_task}
  BY <1>a, ZenonT(60) DEF HeldBy, RootInv
<1>c. ASSUME NEW S, Root \notin S, slot' = Without(S), wait' = WaitsWithout(S) \/ wait' = wait,
             held' \subseteq held, UNCHANGED parent
      PROVE  RootInv'
  <2>1. slot'[Root] = slot[Root]
    BY <1>a, <1>c DEF Without
  <2>2. \A t \in TaskId : wait'[t] \in {wait[t], NoWait, NoWait}
    BY <1>c, ZenonT(60) DEF WaitsWithout
  <2> QED
    BY <1>c, <2>1, <2>2, PlainWaits, RootKeeps, ZenonT(60) DEF RootInv
<1>d. ASSUME NEW w, RootFree(w), Suspend(w), held' \subseteq held, UNCHANGED parent
      PROVE  RootInv'
  <2>1. slot'[Root] \in {"parked", slot[Root]}
    BY <1>a, <1>d, ZenonT(60) DEF Suspend
  <2>2. \A t \in TaskId : wait'[t] \in {wait[t], NoWait, w}
    BY <1>a, <1>d, ZenonT(60) DEF Suspend
  <2> QED
    BY <1>d, <2>1, <2>2, RootKeeps DEF RootInv
<1>e. ASSUME slot'[Root] = slot[Root], UNCHANGED <<parent, held, wait>> PROVE RootInv'
  BY <1>e DEF RootInv
<1>1. CASE SpawnTask
  <2> DEFINE n == next_task_id
  <2>1. n \in TaskId /\ n \in Int /\ slot[n] = "absent"
    BY <1>1 DEF SpawnTask, QueueInv, SlotInv, TaskId
  <2>2. n # Root
    BY <2>1, ZenonT(60) DEF RootInv
  <2>3. slot' = [slot EXCEPT ![n] = "runnable"] /\ parent' = [parent EXCEPT ![n] = current_task]
        /\ held' = held \cup {n} /\ wait' = wait
    BY <1>1 DEF SpawnTask, create_task
  <2> QED
    BY <1>a, <2>1, <2>2, <2>3, ZenonT(60) DEF RootInv
<1>2. ASSUME NEW u \in TaskId, AwaitJoin(u) PROVE RootInv'
  <2>1. u # Root /\ held' \subseteq held /\ UNCHANGED parent
    BY <1>2, <1>b, ZenonT(60) DEF AwaitJoin
  <2>2. RootFree(WaitJoin(u))
    BY <2>1 DEF RootFree, WaitJoin
  <2>3. CASE slot' = Without({u}) /\ UNCHANGED <<wait, schedVars>>
    BY <1>c, <2>1, <2>3
  <2>4. CASE Suspend(WaitJoin(u))
    BY <1>d, <2>1, <2>2, <2>4
  <2> QED
    BY <1>2, <2>3, <2>4, ZenonT(60) DEF AwaitJoin
<1>3. ASSUME NEW u \in TaskId, CancelTask(u) PROVE RootInv'
  <2>1. u # Root /\ held' \subseteq held /\ UNCHANGED parent
    BY <1>3, <1>b, ZenonT(60) DEF CancelTask
  <2>2. slot' = Without({u}) /\ wait' = WaitsWithout({u})
    BY <1>3 DEF CancelTask
  <2> QED
    BY <1>c, <2>1, <2>2, ZenonT(60)
<1>4. CASE JoinTasks
  <2> DEFINE all == {u \in TaskId : parent[u] = current_task}
  <2>1. held' \subseteq held /\ UNCHANGED parent /\ Root \notin all
    BY <1>4, <1>b, ZenonT(60) DEF JoinTasks
  <2>2. RootFree(WaitJoinAll(all))
    BY <2>1 DEF RootFree, WaitJoinAll
  <2>3. CASE slot' = Without(all) /\ UNCHANGED <<wait, schedVars>>
    BY <1>c, <2>1, <2>3
  <2>4. CASE Suspend(WaitJoinAll(all))
    BY <1>d, <2>1, <2>2, <2>4, ZenonT(60)
  <2> QED
    BY <1>4, <2>3, <2>4, ZenonT(60) DEF JoinTasks
<1>5. ASSUME NEW hs \in SUBSET held, SelectWait(hs) PROVE RootInv'
  <2>1. held' \subseteq held /\ UNCHANGED parent /\ Root \notin hs
    BY <1>5, <1>b, ZenonT(60) DEF SelectWait
  <2>2. RootFree(WaitSelect(hs)) /\ \A last : Root \notin Losers(hs, last)
    BY <2>1 DEF RootFree, WaitSelect, Losers
  <2>3. ASSUME NEW last, slot' = Without(Losers(hs, last)), wait' = WaitsWithout(Losers(hs, last))
        PROVE  RootInv'
    BY <1>c, <2>1, <2>2, <2>3, ZenonT(60)
  <2>4. CASE Suspend(WaitSelect(hs))
    BY <1>d, <2>1, <2>2, <2>4, ZenonT(60)
  <2> QED
    BY <1>5, <2>3, <2>4, ZenonT(60) DEF SelectWait
<1>6. ASSUME Complete, UNCHANGED <<parent, held, wait>> PROVE RootInv'
  BY <1>a, <1>e, <1>6, ZenonT(60) DEF Complete
<1>7. CASE Return \/ TryResult \/ Fault \/ ResourceAcquire \/ ResourceDrop
  BY <1>7, <1>6, <1>e, ZenonT(60) DEF Return, TryResult, Fault, ResourceAcquire, ResourceDrop, taskVars
<1>8. CASE CallExternal
  BY <1>d, <1>8, PlainWaits DEF CallExternal
<1> QED
  BY <1>1, <1>2, <1>3, <1>4, <1>5, <1>7, <1>8, ZenonT(60) DEF TaskInstruction

\* No step removes the root.
LEMMA RootStep == TypeOK /\ QueueInv /\ RootInv /\ [Next]_vars => RootInv'
<1> SUFFICES ASSUME TypeOK, QueueInv, RootInv, [Next]_vars PROVE RootInv'
  BY ZenonT(60)
<1>a. /\ Root \in TaskId /\ slot \in [TaskId -> SlotState] /\ wait \in [TaskId -> Wait]
      /\ current_task \in TaskId
  BY SchedulerAssumption DEF TaskId, Root, TypeOK, TaskTypeOK, SchedTypeOK
<1>1. CASE ChannelInstruction
  <2>1. NoTaskChange /\ (StaysRunning \/ \E w : RootFree(w) /\ Suspend(w))
    BY <1>1, ChannelInstructionShape, PlainWaits, ZenonT(60)
  <2>2. CASE StaysRunning
    BY <2>1, <2>2, ZenonT(60) DEF NoTaskChange, StaysRunning, RootInv
  <2>3. ASSUME NEW w, RootFree(w), Suspend(w) PROVE RootInv'
    <3>1. slot'[Root] \in {"parked", slot[Root]} /\ \A t \in TaskId : wait'[t] \in {wait[t], NoWait, w}
      BY <1>a, <2>3, ZenonT(60) DEF Suspend
    <3>2. parent'[Root] = NoTask /\ Root \notin held'
      BY <2>1, ZenonT(60) DEF NoTaskChange, RootInv
    <3>3. slot'[Root] \in {"runnable", "running", "parked", slot[Root]}
      BY <3>1, ZenonT(60)
    <3> QED
      BY <2>3, <3>1, <3>2, <3>3, RootKeeps, ZenonT(60)
  <2> QED
    BY <2>1, <2>2, <2>3
<1>2. ASSUME NEW t \in TaskId, HostCompletes(t) PROVE RootInv'
  <2>1. PICK r : wait' = [wait EXCEPT ![t] = WaitProvider(r)]
    BY <1>2, ZenonT(60) DEF HostCompletes
  <2>2. \A u \in TaskId : wait'[u] \in {wait[u], NoWait, WaitProvider(r)}
    BY <1>a, <2>1, ZenonT(60)
  <2> QED
    BY <1>2, <2>2, PlainWaits, RootKeeps, ZenonT(60) DEF HostCompletes, RootInv
<1>3. CASE Ended \/ UNCHANGED vars
  BY <1>3, ZenonT(60) DEF Ended, vars, taskVars, RootInv
<1> QED
  BY <1>1, <1>2, <1>3, RootSchedulerStep, RootTaskInstruction DEF Next

-----------------------------------------------------------------------------
(* A stall is real.                                                        *)

\* A future that completes makes no other wait resolvable.
LEMMA HostCompletesOne ==
  ASSUME TypeOK, NEW t \in TaskId, HostCompletes(t), NEW u \in TaskId, u # t
  PROVE  Satisfiable(u)' <=> Satisfiable(u)
<1>1. wait'[u] = wait[u] /\ UNCHANGED <<slot, channels>>
  BY DEF HostCompletes, TypeOK, TaskTypeOK, schedVars, chanVars
<1> QED
  BY <1>1, ZenonT(60) DEF Satisfiable, Finished

\* Nothing is parked when run_program starts.
LEMMA StallInit == Init => StallInv
<1> SUFFICES ASSUME Init PROVE StallInv
  BY ZenonT(60)
<1>1. \A t \in TaskId : slot[t] # "parked"
  BY DEF Init
<1> QED
  BY <1>1 DEF Init, StallInv, WakeFixpoint, StallIsReal, Satisfiable

\* The loop's head is reached by the steps that follow; every other step ends
\* in another phase, or is one of the program's last.
LEMMA StallStep == TypeOK /\ QueueInv /\ RootInv /\ StallInv /\ [Next]_vars => StallInv'
<1> SUFFICES ASSUME TypeOK, QueueInv, RootInv, StallInv, [Next]_vars PROVE StallInv'
  BY ZenonT(60)
<1> DEFINE head == {"top", "pop"}
<1>a. ASSUME phase' \notin head, outcome' # "stalled" PROVE StallInv'
  BY <1>a, ZenonT(60) DEF StallInv, WakeFixpoint, StallIsReal
<1>b. ASSUME UNCHANGED <<slot, wait, channels, outcome>>, phase' \in head => phase \in head
      PROVE  StallInv'
  <2>1. \A t \in TaskId : Satisfiable(t)' <=> Satisfiable(t)
    BY <1>b DEF Satisfiable, Finished
  <2>2. has_pending_provider_future' = has_pending_provider_future
    BY <1>b DEF has_pending_provider_future
  <2> QED
    BY <1>b, <2>1, <2>2 DEF StallInv, WakeFixpoint, StallIsReal
<1>c. phase \notin {"exit", "end"} => outcome = "running"
  BY DEF QueueInv, LoopInv
<1>1. CASE SatisfyBeforePop
  BY <1>1, <1>a, <1>c DEF SatisfyBeforePop
<1>2. CASE PopFront
  <2>1. CASE slot[Head(ready_queue)] = "runnable"
    BY <1>2, <1>a, <1>c, <2>1, ZenonT(60) DEF PopFront
  <2>2. CASE slot[Head(ready_queue)] # "runnable"
    BY <1>2, <1>b, <2>2, ZenonT(60) DEF PopFront, chanVars
  <2> QED
    BY <2>1, <2>2
<1>3. CASE Idle
  <2>1. CASE Abort("error")
    BY <1>a, <2>1 DEF Abort
  <2>2. CASE phase' = "top" /\ UNCHANGED outcome
    BY <1>3, <1>b, <2>2, ZenonT(60) DEF Idle, taskVars, chanVars
  <2> QED
    BY <1>3, <2>1, <2>2 DEF Idle
<1>4. CASE Stall
  <2>1. /\ phase = "pop" /\ phase' = "exit" /\ ready_queue = <<>> /\ outcome = "running"
        /\ UNCHANGED <<slot, wait, channels>> /\ ~has_pending_provider_future
    BY <1>4, <1>c, ZenonT(60) DEF Stall, Abort, taskVars, chanVars
  <2>2. \A t \in TaskId : ~Satisfiable(t)
    BY <2>1, ZenonT(60) DEF StallInv, WakeFixpoint, has_pending_provider_future
  <2>3. \A t \in TaskId : slot[t] \in {"absent", "parked", "done"}
    <3>1. \A t \in TaskId : slot[t] # "running"
      BY <2>1 DEF QueueInv, SlotInv
    <3>2. Queued = {}
      BY <2>1 DEF Queued, Range
    <3>3. \A t \in TaskId : slot[t] # "runnable"
      BY <2>1, <3>2 DEF QueueInv, ReadyQueueExact
    <3> QED
      BY <3>1, <3>3, ZenonT(60) DEF TypeOK, TaskTypeOK, SlotState
  <2>4. Root \in TaskId
    BY RootIsTask, Zenon
  <2>5. slot[Root] = "parked"
    BY <2>3, <2>4, ZenonT(60) DEF RootInv
  <2>6. \A t \in TaskId : ~Satisfiable(t)'
    BY <2>1, <2>2 DEF Satisfiable, Finished
  <2> QED
    BY <2>1, <2>3, <2>5, <2>6, ZenonT(60)
    DEF StallInv, WakeFixpoint, StallIsReal, has_pending_provider_future
<1>5. CASE Collect
  <2>1. outcome' = "running" /\ UNCHANGED <<slot, wait, channels>>
    BY <1>5, <1>c DEF Collect, taskVars, chanVars
  <2>2. CASE woken' # {}
    BY <1>5, <1>a, <2>1, <2>2, ZenonT(60) DEF Collect
  <2>3. CASE woken' = {}
    <3>1. \A t \in TaskId : ~Satisfiable(t)
      BY <1>5, <2>3 DEF Collect
    <3>2. \A t \in TaskId : ~Satisfiable(t)'
      BY <2>1, <3>1 DEF Satisfiable, Finished
    <3> QED
      BY <2>1, <3>2 DEF StallInv, WakeFixpoint, StallIsReal
  <2> QED
    BY <2>2, <2>3, ZenonT(60)
<1>6. CASE Exit
  <2>1. phase' \notin head /\ outcome' \in {outcome, "error"}
    BY <1>6 DEF Exit
  <2>2. CASE outcome' = outcome
    BY <1>6, <1>b, <2>1, <2>2 DEF Exit, taskVars, chanVars
  <2> QED
    BY <1>a, <2>1, <2>2
<1>7. ASSUME NEW t \in TaskId,
             ResolveRecv(t) \/ ResolveSend(t) \/ ResolveJoin(t) \/ ResolveSelect(t)
             \/ ResolveProvider(t) \/ ResolvePanic(t)
      PROVE  StallInv'
  <2>1. /\ phase = "resolve"
        /\ NextInPass(t) \/ Abort("error") \/ (outcome' = "panic" /\ phase' = "end")
    BY <1>7, ZenonT(60) DEF ResolveRecv, ResolveSend, ResolveJoin, ResolveSelect, ResolveProvider,
                ResolvePanic, Resolving
  <2>2. phase' \in {"wake", "resolve", "exit", "end"} /\ outcome' \in {outcome, "error", "panic"}
    BY <2>1, Zenon DEF NextInPass, Abort
  <2>3. outcome = "running"
    BY <1>c, <2>1, Zenon
  <2>4. phase' \notin head
    BY <2>2, Zenon
  <2>5. outcome' # "stalled"
    BY <2>2, <2>3, ZenonT(60)
  <2> QED
    BY <1>a, <2>4, <2>5, Zenon
<1>8. CASE TaskInstruction \/ ChannelInstruction
  <2>1. phase = "run" /\ outcome = "running"
    BY <1>8, <1>c, ChannelInstructionShape, ZenonT(60)
    DEF TaskInstruction, SpawnTask, AwaitJoin, CancelTask, JoinTasks, SelectWait, Return,
        TryResult, Fault, ResourceAcquire, ResourceDrop, CallExternal, Execute, ExecuteFree
  <2>2. CASE ChannelInstruction
    <3>1. phase' \in {"run", "wake"} /\ outcome' = outcome
      BY <2>1, <2>2, ChannelInstructionShape DEF NoTaskChange, StaysRunning, Suspend, schedVars
    <3> QED
      BY <1>a, <2>1, <3>1, ZenonT(60)
  <2>3. CASE TaskInstruction
    <3>1. phase' \in {"run", "wake", "exit"} /\ outcome' \in {"running", "ok", "error"}
      BY <2>1, <2>3, ZenonT(60)
      DEF TaskInstruction, SpawnTask, AwaitJoin, CancelTask, JoinTasks, SelectWait, Return,
          TryResult, Fault, ResourceAcquire, ResourceDrop, CallExternal, Complete, Suspend,
          Abort, schedVars
    <3> QED
      BY <1>a, <3>1
  <2> QED
    BY <1>8, <2>2, <2>3
<1>9. ASSUME NEW t \in TaskId, HostCompletes(t) PROVE StallInv'
  <2>1. wait[t].kind = "Provider" /\ UNCHANGED <<phase, outcome, slot>>
    BY <1>9 DEF HostCompletes, WaitProvider, schedVars
  <2>2. outcome # "stalled"
    BY <2>1, ZenonT(60) DEF StallInv, has_pending_provider_future
  <2>3. wait'[t].kind = "Provider" /\ \A u \in TaskId : u # t => wait'[u] = wait[u]
    <3>1. wait \in [TaskId -> Wait]
      BY Zenon DEF TypeOK, TaskTypeOK
    <3>2. PICK r \in {"ok", "err"} : wait' = [wait EXCEPT ![t] = WaitProvider(r)]
      BY <1>9, Zenon DEF HostCompletes
    <3>3. wait'[t] = WaitProvider(r) /\ \A u \in TaskId : u # t => wait'[u] = wait[u]
      BY <3>1, <3>2, Zenon
    <3> QED
      BY <3>3 DEF WaitProvider
  <2>4. WakeFixpoint'
    BY <1>9, <2>1, <2>3, HostCompletesOne, ZenonT(60) DEF StallInv, WakeFixpoint
  <2> QED
    BY <2>1, <2>2, <2>4, ZenonT(60) DEF StallInv, StallIsReal
<1>10. CASE Ended \/ UNCHANGED vars
  BY <1>10, <1>b DEF Ended, vars, schedVars, taskVars, chanVars
<1> QED
  BY <1>1, <1>2, <1>3, <1>4, <1>5, <1>6, <1>7, <1>8, <1>9, <1>10, ZenonT(60) DEF Next, SchedulerStep

\* The inductive invariant holds in every reachable state.
LEMMA StallInvariant == Spec => [](TypeOK /\ QueueInv /\ RootInv /\ StallInv)
BY TypeCorrect, QueueInit, QueueStep, RootInit, RootStep, StallInit, StallStep, PTL DEF Spec

\* run_scheduler reports a stall only when no task is runnable, no parked task
\* could be resumed and the root itself is parked.
THEOREM StallsAreReal == Spec => []StallIsReal
<1>1. StallInv => StallIsReal
  BY DEF StallInv
<1> QED
  BY <1>1, StallInvariant, PTL

\* satisfy_waiters always reaches its fixpoint before a task is picked.
THEOREM WakesReachFixpoint == Spec => []WakeFixpoint
<1>1. StallInv => WakeFixpoint
  BY ZenonT(60) DEF StallInv
<1> QED
  BY <1>1, StallInvariant, PTL

-----------------------------------------------------------------------------
(* One life per task id.                                                   *)

\* What a step may do to a task's slot.
OneLife(t) ==
  /\ slot[t] = "done" => slot'[t] \in {"done", "absent"}
  /\ slot[t] = "absent" /\ t < next_task_id => slot'[t] = "absent"

\* The shapes of step: the slot is kept, removed, or that of a live task.
LEMMA LifeShape ==
  ASSUME TypeOK, QueueInv, [Next]_vars, NEW t \in TaskId
  PROVE  \/ slot'[t] \in {slot[t], "absent"}
         \/ slot[t] \in {"runnable", "running", "parked"}
         \/ t = next_task_id
<1> DEFINE Ok == \/ slot'[t] \in {slot[t], "absent"}
                 \/ slot[t] \in {"runnable", "running", "parked"}
                 \/ t = next_task_id
<1>a. slot \in [TaskId -> SlotState] /\ current_task \in TaskId
  BY DEF TypeOK, TaskTypeOK, SchedTypeOK
<1>b. phase = "run" => slot[current_task] = "running"
  BY DEF QueueInv, SlotInv
<1>1. CASE SchedulerStep
  <2>1. CASE SatisfyBeforePop \/ Idle \/ Stall \/ Collect \/ Exit
    BY <2>1 DEF SatisfyBeforePop, Idle, Stall, Collect, Exit, taskVars
  <2>2. CASE PopFront
    BY <1>a, <2>2 DEF PopFront
  <2>3. ASSUME NEW u \in TaskId, NEW S, slot[u] = "parked",
               slot' = [Without(S) EXCEPT ![u] = "runnable"] PROVE Ok
    BY <2>3 DEF Without
  <2>4. ASSUME NEW u \in TaskId,
               ResolveRecv(u) \/ ResolveSend(u) \/ ResolveJoin(u) \/ ResolveSelect(u)
        PROVE  Ok
    BY <2>3, <2>4, ZenonT(60) DEF ResolveRecv, ResolveSend, ResolveJoin, ResolveSelect, Resolving,
                      complete_wait
  <2>5. ASSUME NEW u \in TaskId, ResolveProvider(u) PROVE Ok
    <3>1. CASE complete_wait(u, {})
      BY <2>3, <2>5, <3>1, ZenonT(60) DEF ResolveProvider, Resolving, complete_wait
    <3>2. CASE slot' = [slot EXCEPT ![u] = "runnable"]
      BY <1>a, <2>5, <3>2, ZenonT(60) DEF ResolveProvider, Resolving
    <3> QED
      BY <2>5, <3>1, <3>2, ZenonT(60) DEF ResolveProvider
  <2>6. ASSUME NEW u \in TaskId, ResolvePanic(u) PROVE Ok
    BY <2>6, ZenonT(60) DEF ResolvePanic, taskVars
  <2> QED
    BY <1>1, <2>1, <2>2, <2>4, <2>5, <2>6, ZenonT(60) DEF SchedulerStep
<1>c. ASSUME NEW w, phase = "run", Suspend(w) PROVE Ok
  BY <1>a, <1>b, <1>c DEF Suspend
<1>d. ASSUME NEW S, slot' = Without(S) PROVE Ok
  BY <1>d DEF Without
<1>2. CASE ChannelInstruction
  BY <1>2, <1>c, ChannelInstructionShape, ZenonT(60) DEF StaysRunning
<1>3. CASE TaskInstruction
  <2>1. CASE SpawnTask
    BY <1>a, <2>1 DEF SpawnTask, create_task
  <2>2. ASSUME NEW u \in TaskId, AwaitJoin(u) \/ CancelTask(u) PROVE Ok
    BY <1>c, <1>d, <2>2, ZenonT(60) DEF AwaitJoin, CancelTask
  <2>3. CASE JoinTasks
    BY <1>c, <1>d, <2>3, ZenonT(60) DEF JoinTasks, ExecuteFree
  <2>4. ASSUME NEW hs \in SUBSET held, SelectWait(hs) PROVE Ok
    BY <1>c, <1>d, <2>4, ZenonT(60) DEF SelectWait, ExecuteFree
  <2>5. CASE Return \/ TryResult
    <3>1. phase = "run"
      BY <2>5, ZenonT(60) DEF Return, TryResult, ExecuteFree
    <3>2. Complete \/ UNCHANGED slot
      BY <2>5, ZenonT(60) DEF Return, TryResult
    <3>3. CASE Complete
      <4>1. slot' = slot \/ slot' = [slot EXCEPT ![current_task] = "done"]
        BY <3>3, ZenonT(60) DEF Complete
      <4> QED
        BY <1>a, <1>b, <3>1, <4>1, ZenonT(60)
    <3> QED
      BY <3>2, <3>3, ZenonT(60)
  <2>6. CASE Fault \/ ResourceAcquire \/ ResourceDrop
    <3>1. slot' = slot
      BY <2>6, ZenonT(60) DEF Fault, ResourceAcquire, ResourceDrop, taskVars
    <3> QED
      BY <3>1, ZenonT(60)
  <2>7. CASE CallExternal
    BY <1>c, <2>7, ZenonT(60) DEF CallExternal, Execute
  <2> QED
    BY <1>3, <2>1, <2>2, <2>3, <2>4, <2>5, <2>6, <2>7, ZenonT(60) DEF TaskInstruction
<1>4. CASE (\E u \in TaskId : HostCompletes(u)) \/ Ended \/ UNCHANGED vars
  <2>1. slot' = slot
    BY <1>4, ZenonT(60) DEF HostCompletes, Ended, vars, taskVars
  <2> QED
    BY <2>1, ZenonT(60)
<1>5. \/ SchedulerStep \/ ChannelInstruction \/ TaskInstruction
      \/ (\E u \in TaskId : HostCompletes(u)) \/ Ended \/ UNCHANGED vars
  BY Zenon DEF Next
<1> QED
  BY <1>1, <1>2, <1>3, <1>4, <1>5, ZenonT(60)

\* A step never resumes a finished task nor revives a removed id.
LEMMA LifeStep ==
  ASSUME TypeOK, QueueInv, [Next]_vars PROVE \A t \in TaskId : OneLife(t)
<1> SUFFICES ASSUME NEW t \in TaskId PROVE OneLife(t)
  OBVIOUS
<1>1. next_task_id \in Nat
  BY DEF TypeOK, TaskTypeOK
<1>2. t = next_task_id => slot[t] = "absent" /\ ~(t < next_task_id)
  BY <1>1 DEF QueueInv, SlotInv, TaskId
<1> QED
  BY <1>2, LifeShape DEF OneLife

\* A task goes through its life once: a finished one is never resumed, and an
\* id whose slot was removed is never used again.
THEOREM OneLifePerId == Spec => TaskLifecycle
<1>1. TypeOK /\ QueueInv /\ [Next]_vars =>
        [\A t \in TaskId :
           /\ slot[t] = "done" => slot'[t] \in {"done", "absent"}
           /\ slot[t] = "absent" /\ t < next_task_id => slot'[t] = "absent"]_vars
  BY LifeStep DEF OneLife
<1> QED
  BY <1>1, StallInvariant, PTL DEF Spec, TaskLifecycle
=============================================================================
