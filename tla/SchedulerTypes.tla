--------------------------- MODULE SchedulerTypes ---------------------------
(***************************************************************************)
(* The scheduler's state keeps its types: for every number of tasks and    *)
(* channels and whatever the tasks execute.                                *)
(***************************************************************************)
EXTENDS Scheduler, FiniteSetTheorems, TLAPS

-----------------------------------------------------------------------------
(* Types and counters.                                                     *)

\* The root task is one of the tasks.
LEMMA RootIsTask == Root \in TaskId
BY SchedulerAssumption DEF TaskId, Root

\* Sets of tasks are finite, so counting them gives a natural number.
LEMMA CountTasks ==
  ASSUME NEW S \in SUBSET TaskId
  PROVE  Cardinality(S) \in Nat
<1>1. MaxTasks \in Int
  BY SchedulerAssumption
<1>2. IsFiniteSet(TaskId)
  BY <1>1, FS_Interval DEF TaskId
<1>3. IsFiniteSet(S)
  BY <1>2, FS_Subset
<1> QED
  BY <1>3, FS_CardinalityType

\* So are the places of a finite sequence.
LEMMA CountPlaces ==
  ASSUME NEW a \in Int, NEW b \in Int, NEW S \in SUBSET (a .. b)
  PROVE  Cardinality(S) \in Nat
<1>1. IsFiniteSet(S)
  BY FS_Interval, FS_Subset, ZenonT(60)
<1> QED
  BY <1>1, FS_CardinalityType

\* The initial state gives every variable its type.
LEMMA TypeInit == Init => TypeOK
<1> SUFFICES ASSUME Init PROVE TypeOK
  OBVIOUS
<1> USE SchedulerAssumption
<1>1. 0 \in TaskId
  BY DEF TaskId
<1>2. SchedTypeOK
  BY <1>1 DEF Init, SchedTypeOK, Root, Outcome
<1>3. wait \in [TaskId -> Wait]
  BY DEF Init, Wait
<1>4. slot \in [TaskId -> SlotState]
  BY DEF Init, SlotState
<1>5. next_task_id \in 1 .. MaxTasks /\ budget \in [TaskId -> Nat]
  BY DEF Init
<1>6. TaskTypeOK
  BY <1>3, <1>4, <1>5 DEF Init, TaskTypeOK
<1>7. channels \in [ChannelIds -> VmChannel(MsgId)]
  <2>1. NoChannel \in VmChannel(MsgId)
    BY DEF NoChannel, VmChannel
  <2> QED
    BY <2>1 DEF Init
<1>8. tx \in [TaskId -> [ChannelIds -> TxHandles]]
  BY DEF Init, TxHandles, NoTx
<1>9. rx \in [TaskId -> [ChannelIds -> RxHandle]]
  BY DEF Init, RxHandle
<1>10. next_msg \in 1 .. MaxMsgs + 1 /\ ended \in SUBSET ChannelIds
  BY DEF Init
<1>a. token \in BOOLEAN
  BY Zenon DEF Init
<1>11. fate \in [MsgId -> Fate]
  BY DEF Init, Fate
<1>12. ChanTypeOK
  BY <1>7, <1>8, <1>9, <1>10, <1>a, <1>11 DEF Init, ChanTypeOK
<1>13. ScopeTypeOK
  BY DEF Init, ScopeTypeOK
<1>14. CountTypeOK
  BY DEF Init, CountTypeOK
<1> QED
  BY <1>2, <1>6, <1>12, <1>13, <1>14 DEF TypeOK

\* A group of variables that a step leaves alone keeps its types.
LEMMA TypeStutter ==
  /\ SchedTypeOK /\ UNCHANGED <<schedVars, outcome>> => SchedTypeOK'
  /\ TaskTypeOK /\ UNCHANGED taskVars => TaskTypeOK'
  /\ ChanTypeOK /\ UNCHANGED chanVars => ChanTypeOK'
  /\ ScopeTypeOK /\ UNCHANGED scopeVars => ScopeTypeOK'
  /\ CountTypeOK /\ UNCHANGED countVars => CountTypeOK'
<1>1. SchedTypeOK /\ UNCHANGED <<schedVars, outcome>> => SchedTypeOK'
  BY DEF SchedTypeOK, schedVars
<1>2. TaskTypeOK /\ UNCHANGED taskVars => TaskTypeOK'
  BY DEF TaskTypeOK, taskVars
<1>3. ChanTypeOK /\ UNCHANGED chanVars => ChanTypeOK'
  BY DEF ChanTypeOK, chanVars
<1>4. ScopeTypeOK /\ UNCHANGED scopeVars => ScopeTypeOK'
  BY DEF ScopeTypeOK, scopeVars
<1>5. CountTypeOK /\ UNCHANGED countVars => CountTypeOK'
  BY DEF CountTypeOK, countVars
<1> QED
  BY <1>1, <1>2, <1>3, <1>4, <1>5

-----------------------------------------------------------------------------
(* Types of the pieces that several actions share.                         *)

\* A task that is not parked has the empty wait.
LEMMA NoWaitType == NoWait \in Wait
BY DEF Wait

\* `tasks.remove` leaves a task table and a wait for every id.
LEMMA RemovedTypes ==
  ASSUME TaskTypeOK, NEW S \in SUBSET TaskId
  PROVE  /\ Without(S) \in [TaskId -> SlotState]
         /\ WaitsWithout(S) \in [TaskId -> Wait]
BY NoWaitType DEF TaskTypeOK, Without, WaitsWithout, SlotState

\* A value dropped with its parked send has a fate.
LEMMA AbandonTypes ==
  ASSUME ChanTypeOK, NEW S \in SUBSET TaskId, Abandon(S)
  PROVE  fate' \in [MsgId -> Fate]
<1>1. "abandoned" \in Fate
  BY DEF Fate
<1> QED
  BY <1>1 DEF ChanTypeOK, Abandon

\* cleanup_task_resource_scopes keeps the scope state well typed.
LEMMA CleanupTypes ==
  ASSUME ScopeTypeOK, NEW S \in SUBSET TaskId, Cleanup(S)
  PROVE  ScopeTypeOK'
<1>1. \A r \in ResourceId : Cardinality({t \in S : r \in Range(scopes[t])}) \in Nat
  BY CountTasks
<1>2. drops' \in [ResourceId -> Nat]
  BY <1>1 DEF ScopeTypeOK, Cleanup
<1>3. scopes' \in [TaskId -> Seq(ResourceId)] /\ next_resource' = next_resource
  BY DEF ScopeTypeOK, Cleanup
<1> QED
  BY <1>2, <1>3 DEF ScopeTypeOK

\* Counting cancelled tasks keeps the counters integers.
LEMMA CountCancelledTypes ==
  ASSUME CountTypeOK, NEW S \in SUBSET TaskId, CountCancelled(S)
  PROVE  CountTypeOK'
<1>1. Cardinality(S) \in Nat
  BY CountTasks
<1> QED
  BY <1>1 DEF CountTypeOK, CountCancelled

\* release_resource_scope, for the k innermost scopes, keeps the scope state
\* well typed.
LEMMA ReleaseTypes ==
  ASSUME ScopeTypeOK, current_task \in TaskId,
         NEW k \in 0 .. Len(scopes[current_task]), Release(k)
  PROVE  ScopeTypeOK'
<1> DEFINE mine == scopes[current_task]
           n == Len(mine) - k
<1>1. mine \in Seq(ResourceId) /\ Len(mine) \in Nat /\ n \in Int /\ n \in 0 .. Len(mine)
  BY DEF ScopeTypeOK
<1>2. \A r \in ResourceId : Cardinality({i \in n + 1 .. Len(mine) : mine[i] = r}) \in Nat
  <2> TAKE r \in ResourceId
  <2>1. n + 1 \in Int /\ Len(mine) \in Int
    BY <1>1
  <2>2. {i \in n + 1 .. Len(mine) : mine[i] = r} \in SUBSET (n + 1 .. Len(mine))
    OBVIOUS
  <2> HIDE DEF n, mine
  <2> QED
    BY <2>1, <2>2, CountPlaces, ZenonT(60)
<1>a. drops' = [r \in ResourceId |->
                  drops[r] + Cardinality({i \in n + 1 .. Len(mine) : mine[i] = r})]
  BY DEF Release
<1>3. drops' \in [ResourceId -> Nat]
  <2> HIDE DEF n, mine
  <2> QED
    BY <1>2, <1>a DEF ScopeTypeOK
<1>4. SubSeq(mine, 1, n) \in Seq(ResourceId)
  BY <1>1
<1>5. scopes' \in [TaskId -> Seq(ResourceId)] /\ next_resource' = next_resource
  BY <1>4 DEF ScopeTypeOK, Release
<1> QED
  BY <1>3, <1>5 DEF ScopeTypeOK

\* A channel whose queue is replaced by another queue is a channel.
LEMMA QueueTypes ==
  ASSUME NEW ch \in VmChannel(MsgId), NEW q \in Seq(MsgId)
  PROVE  [ch EXCEPT !.queue = q] \in VmChannel(MsgId)
BY DEF VmChannel

\* Minting or closing an endpoint leaves a channel.
LEMMA EndpointTypes ==
  ASSUME NEW ch \in VmChannel(MsgId)
  PROVE  /\ add_sender(ch) \in VmChannel(MsgId)
         /\ drop_sender(ch) \in VmChannel(MsgId)
         /\ [ch EXCEPT !.receiver_taken = TRUE] \in VmChannel(MsgId)
<1>1. ASSUME NEW n \in Int PROVE [ch EXCEPT !.senders = n] \in VmChannel(MsgId)
  BY DEF VmChannel
<1>2. ch.senders + 1 \in Int /\ ch.senders - 1 \in Int
  BY DEF VmChannel
<1>3. add_sender(ch) \in VmChannel(MsgId) /\ drop_sender(ch) \in VmChannel(MsgId)
  BY <1>1, <1>2 DEF add_sender, drop_sender
<1>4. [ch EXCEPT !.receiver_taken = TRUE] \in VmChannel(MsgId)
  BY ZenonT(60) DEF VmChannel
<1> QED
  BY <1>3, <1>4

\* channel_send leaves a channel, whether or not it stores the value.
LEMMA SendTypes ==
  ASSUME NEW ch \in VmChannel(MsgId), NEW m \in MsgId, NEW closed \in BOOLEAN
  PROVE  channel_send(closed, ch, m) \in VmChannel(MsgId)
<1>1. Append(ch.queue, m) \in Seq(MsgId)
  BY DEF VmChannel
<1> QED
  BY <1>1, QueueTypes, ZenonT(60) DEF channel_send

\* channel_recv keeps the channel state well typed.
LEMMA TakeMessageTypes ==
  ASSUME ChanTypeOK, NEW c \in ChannelIds, TakeMessage(c), UNCHANGED <<next_msg, fate>>
  PROVE  ChanTypeOK'
<1>1. channels[c] \in VmChannel(MsgId) /\ channels[c].queue \in Seq(MsgId)
  BY DEF ChanTypeOK, VmChannel
<1>2. channel_recv(channels[c]) \in VmChannel(MsgId)
  <2>1. channels[c].queue # <<>> => Tail(channels[c].queue) \in Seq(MsgId)
    BY <1>1
  <2> QED
    BY <1>1, <2>1, QueueTypes, ZenonT(60) DEF channel_recv
<1>3. channels' \in [ChannelIds -> VmChannel(MsgId)]
  BY <1>2 DEF ChanTypeOK, TakeMessage
<1>4. taken' \in [ChannelIds -> Seq(MsgId)]
  BY <1>1 DEF ChanTypeOK, TakeMessage
<1>5. ended' \in SUBSET ChannelIds
  BY DEF ChanTypeOK, TakeMessage
<1> QED
  BY <1>3, <1>4, <1>5 DEF ChanTypeOK, TakeMessage

\* channel_send with its bookkeeping keeps the channel state well typed.
LEMMA PutMessageTypes ==
  ASSUME ChanTypeOK, NEW c \in ChannelIds, NEW m \in MsgId, NEW closed \in BOOLEAN,
         PutMessage(c, m, closed), next_msg' \in 1 .. MaxMsgs + 1
  PROVE  ChanTypeOK'
<1>1. channels[c] \in VmChannel(MsgId)
  BY DEF ChanTypeOK
<1>2. channel_send(closed, channels[c], m) \in VmChannel(MsgId)
  BY <1>1, SendTypes
<1>3. channels' \in [ChannelIds -> VmChannel(MsgId)]
  BY <1>2 DEF ChanTypeOK, PutMessage
<1>4. published' \in [ChannelIds -> Seq(MsgId)]
  BY DEF ChanTypeOK, PutMessage
<1>5. fate' \in [MsgId -> Fate]
  BY DEF ChanTypeOK, PutMessage, Fate
<1> QED
  BY <1>3, <1>4, <1>5 DEF ChanTypeOK, PutMessage

\* The fields of a wait of each kind.
LEMMA WaitFields ==
  ASSUME NEW w \in Wait
  PROVE  /\ w.kind \in {"Recv", "Send"} => w.channel \in ChannelIds
         /\ w.kind = "Send" => w.msg \in MsgId
         /\ w.kind = "Join" => w.task \in TaskId
         /\ w.kind = "JoinAll" => w.tasks \in SUBSET TaskId
         /\ w.kind = "Select" => w.handles \in SUBSET TaskId
BY DEF Wait, NoWait, WaitRecv, WaitSend, WaitJoin, WaitJoinAll, WaitSelect, WaitProvider

\* Every wait the instructions record is one.
LEMMA WaitTypes ==
  /\ \A c \in ChannelIds : WaitRecv(c) \in Wait
  /\ \A c \in ChannelIds, m \in MsgId : WaitSend(c, m) \in Wait
  /\ \A t \in TaskId : WaitJoin(t) \in Wait
  /\ \A S \in SUBSET TaskId : WaitJoinAll(S) \in Wait /\ WaitSelect(S) \in Wait
  /\ \A r \in Reply : WaitProvider(r) \in Wait
BY DEF Wait

\* Parking the running task keeps the scheduler and task state well typed.
LEMMA SuspendTypes ==
  ASSUME SchedTypeOK, TaskTypeOK, NEW w \in Wait, Suspend(w), UNCHANGED outcome
  PROVE  /\ SchedTypeOK'
         /\ slot' \in [TaskId -> SlotState]
         /\ wait' \in [TaskId -> Wait]
BY DEF SchedTypeOK, TaskTypeOK, Suspend, SlotState

\* Leaving run_scheduler with an outcome keeps its state well typed.
LEMMA AbortTypes ==
  ASSUME SchedTypeOK, NEW o \in Outcome, Abort(o), UNCHANGED ready_queue
  PROVE  SchedTypeOK'
BY DEF SchedTypeOK, Abort

\* complete_wait keeps the task table and the ready queue well typed.
LEMMA CompleteWaitTypes ==
  ASSUME SchedTypeOK, TaskTypeOK, NEW t \in TaskId, NEW S \in SUBSET TaskId,
         complete_wait(t, S), NextInPass(t),
         UNCHANGED <<next_task_id, parent, held, budget>>
  PROVE  SchedTypeOK' /\ TaskTypeOK'
<1>1. /\ Without(S) \in [TaskId -> SlotState]
      /\ WaitsWithout(S \cup {t}) \in [TaskId -> Wait]
  BY RemovedTypes
<1>2. TaskTypeOK'
  BY <1>1, ZenonT(60) DEF TaskTypeOK, complete_wait, SlotState
<1>3. SchedTypeOK'
  BY DEF SchedTypeOK, complete_wait, NextInPass
<1> QED
  BY <1>2, <1>3

\* cancel_select_losers keeps scopes, counters and fates well typed.
LEMMA LosersTypes ==
  ASSUME TaskTypeOK, ChanTypeOK, ScopeTypeOK, CountTypeOK,
         NEW hs \in SUBSET TaskId, NEW last, CancelSelectLosers(hs, last),
         UNCHANGED <<channels, tx, rx, token, next_msg, published, taken, ended>>
  PROVE  /\ Losers(hs, last) \in SUBSET TaskId
         /\ ChanTypeOK' /\ ScopeTypeOK' /\ CountTypeOK'
<1>1. Losers(hs, last) \in SUBSET TaskId
  BY DEF Losers
<1>2. NotDone(Losers(hs, last)) \in SUBSET TaskId
  BY <1>1 DEF NotDone
<1>3. fate' \in [MsgId -> Fate]
  BY <1>2, AbandonTypes DEF CancelSelectLosers
<1>4. ChanTypeOK'
  BY <1>3 DEF ChanTypeOK
<1>5. ScopeTypeOK'
  BY <1>2, CleanupTypes DEF CancelSelectLosers
<1>6. CountTypeOK'
  BY <1>2, CountCancelledTypes DEF CancelSelectLosers
<1> QED
  BY <1>1, <1>4, <1>5, <1>6

-----------------------------------------------------------------------------
(* Every step of the scheduler proper keeps the types.                     *)

\* Every step of run_scheduler itself preserves the type invariant.
LEMMA SchedulerStepTypes == TypeOK /\ SchedulerStep => TypeOK'
<1> SUFFICES ASSUME TypeOK, SchedulerStep PROVE TypeOK'
  OBVIOUS
<1> USE DEF TypeOK
<1>1. CASE SatisfyBeforePop
  BY <1>1, TypeStutter DEF SatisfyBeforePop, SchedTypeOK
<1>2. CASE PopFront
  <2>1. TaskTypeOK'
    BY <1>2, ZenonT(60) DEF PopFront, TaskTypeOK, SchedTypeOK, SlotState
  <2>2. SchedTypeOK'
    BY <1>2 DEF PopFront, SchedTypeOK
  <2> QED
    BY <1>2, <2>1, <2>2, TypeStutter DEF PopFront
<1>3. CASE Idle
  BY <1>3, TypeStutter, AbortTypes DEF Idle, SchedTypeOK, Outcome
<1>4. CASE Stall
  BY <1>4, TypeStutter, AbortTypes DEF Stall, Outcome
<1>5. CASE Collect
  BY <1>5, TypeStutter DEF Collect, SchedTypeOK
<1>6. CASE Exit
  <2>1. ScopeTypeOK'
    BY <1>6, CleanupTypes DEF Exit
  <2>2. SchedTypeOK'
    BY <1>6 DEF Exit, SchedTypeOK, Outcome
  <2> QED
    BY <1>6, <2>1, <2>2, TypeStutter DEF Exit
<1>7. ASSUME NEW t \in TaskId, ResolveRecv(t) PROVE TypeOK'
  <2>1. wait[t].channel \in ChannelIds
    BY <1>7, WaitFields DEF ResolveRecv, Resolving, TaskTypeOK
  <2>2. ChanTypeOK'
    BY <1>7, <2>1, TakeMessageTypes DEF ResolveRecv
  <2>3. SchedTypeOK' /\ TaskTypeOK'
    BY <1>7, CompleteWaitTypes DEF ResolveRecv
  <2> QED
    BY <1>7, <2>2, <2>3, TypeStutter DEF ResolveRecv
<1>8. ASSUME NEW t \in TaskId, ResolveSend(t) PROVE TypeOK'
  <2>1. wait[t].channel \in ChannelIds /\ wait[t].msg \in MsgId
    BY <1>8, WaitFields DEF ResolveSend, Resolving, TaskTypeOK
  <2>2. next_msg' \in 1 .. MaxMsgs + 1
    BY <1>8 DEF ResolveSend, ChanTypeOK
  <2>3. ChanTypeOK'
    BY <1>8, <2>1, <2>2, PutMessageTypes, ZenonT(60) DEF ResolveSend
  <2>4. SchedTypeOK' /\ TaskTypeOK'
    BY <1>8, CompleteWaitTypes DEF ResolveSend
  <2> QED
    BY <1>8, <2>3, <2>4, TypeStutter DEF ResolveSend
<1>9. ASSUME NEW t \in TaskId, ResolveJoin(t) PROVE TypeOK'
  <2> DEFINE joined == IF wait[t].kind = "Join" THEN {wait[t].task} ELSE wait[t].tasks
  <2>1. joined \in SUBSET TaskId
    BY <1>9, WaitFields, ZenonT(60) DEF ResolveJoin, Resolving, TaskTypeOK
  <2>2. complete_wait(t, joined) /\ Cleanup(joined)
    BY <1>9 DEF ResolveJoin
  <2>3. SchedTypeOK' /\ TaskTypeOK'
    BY <1>9, <2>1, <2>2, CompleteWaitTypes, ZenonT(60) DEF ResolveJoin
  <2>4. ScopeTypeOK'
    BY <2>1, <2>2, CleanupTypes
  <2> QED
    BY <1>9, <2>3, <2>4, TypeStutter, ZenonT(60) DEF ResolveJoin
<1>10. ASSUME NEW t \in TaskId, ResolveSelect(t) PROVE TypeOK'
  <2> DEFINE hs == wait[t].handles
  <2>1. hs \in SUBSET TaskId
    BY <1>10, WaitFields DEF ResolveSelect, Resolving, TaskTypeOK
  <2>2. UNCHANGED <<channels, tx, rx, token, next_msg, published, taken, ended,
                    next_task_id, parent, held, budget>>
    BY <1>10 DEF ResolveSelect
  <2>3. CASE /\ CancelSelectLosers(hs, MaxTasks)
             /\ complete_wait(t, Losers(hs, MaxTasks))
             /\ NextInPass(t)
    <3>1. Losers(hs, MaxTasks) \in SUBSET TaskId /\ ChanTypeOK' /\ ScopeTypeOK' /\ CountTypeOK'
      BY <2>1, <2>2, <2>3, LosersTypes, ZenonT(60)
    <3>2. SchedTypeOK' /\ TaskTypeOK'
      BY <2>2, <2>3, <3>1, CompleteWaitTypes
    <3> QED
      BY <3>1, <3>2
  <2>4. ASSUME NEW f \in FailingArm(hs),
               CancelSelectLosers(hs, f),
               slot' = [Without(Losers(hs, f)) EXCEPT ![t] = "runnable"],
               wait' = WaitsWithout(Losers(hs, f) \cup {t}),
               Abort("error"), UNCHANGED ready_queue
        PROVE  TypeOK'
    <3>1. Losers(hs, f) \in SUBSET TaskId /\ ChanTypeOK' /\ ScopeTypeOK' /\ CountTypeOK'
      BY <2>1, <2>2, <2>4, LosersTypes
    <3>2. /\ Without(Losers(hs, f)) \in [TaskId -> SlotState]
          /\ WaitsWithout(Losers(hs, f) \cup {t}) \in [TaskId -> Wait]
      BY <3>1, RemovedTypes
    <3>3. TaskTypeOK'
      BY <2>2, <2>4, <3>2, ZenonT(60) DEF TaskTypeOK, SlotState
    <3>4. SchedTypeOK'
      BY <2>4, AbortTypes DEF Outcome
    <3> QED
      BY <3>1, <3>3, <3>4, ZenonT(60)
  <2> QED
    BY <1>10, <2>3, <2>4, ZenonT(60) DEF ResolveSelect
<1>11. ASSUME NEW t \in TaskId, ResolveProvider(t) PROVE TypeOK'
  <2>1. CASE complete_wait(t, {}) /\ NextInPass(t)
    <3>1. SchedTypeOK' /\ TaskTypeOK'
      BY <1>11, <2>1, CompleteWaitTypes DEF ResolveProvider
    <3> QED
      BY <1>11, <3>1, TypeStutter, ZenonT(60) DEF ResolveProvider
  <2>2. CASE /\ slot' = [slot EXCEPT ![t] = "runnable"]
             /\ wait' = WaitsWithout({t})
             /\ Abort("error") /\ UNCHANGED ready_queue
    <3>1. WaitsWithout({t}) \in [TaskId -> Wait]
      BY RemovedTypes
    <3>2. TaskTypeOK'
      BY <1>11, <2>2, <3>1 DEF ResolveProvider, TaskTypeOK, SlotState
    <3>3. SchedTypeOK'
      BY <2>2, AbortTypes DEF Outcome
    <3> QED
      BY <1>11, <3>2, <3>3, TypeStutter DEF ResolveProvider
  <2> QED
    BY <1>11, <2>1, <2>2, ZenonT(60) DEF ResolveProvider
<1>12. ASSUME NEW t \in TaskId, ResolvePanic(t) PROVE TypeOK'
  BY <1>12, TypeStutter DEF ResolvePanic, SchedTypeOK, Outcome
<1> QED
  BY <1>1, <1>2, <1>3, <1>4, <1>5, <1>6, <1>7, <1>8, <1>9, <1>10, <1>11, <1>12, ZenonT(60)
  DEF SchedulerStep

-----------------------------------------------------------------------------
(* Every instruction of the running task keeps the types.                  *)

\* Charging an instruction keeps the budgets natural numbers.
LEMMA BudgetTypes ==
  ASSUME SchedTypeOK, TaskTypeOK, NEW op, Execute(op) \/ ExecuteFree(op)
  PROVE  budget' \in [TaskId -> Nat]
<1>1. CASE Execute(op)
  <2>1. budget[current_task] \in Nat /\ budget[current_task] > 0
    BY <1>1 DEF SchedTypeOK, TaskTypeOK, Execute
  <2>2. budget[current_task] - 1 \in Nat
    BY <2>1, SchedulerAssumption
  <2> QED
    BY <1>1, <2>2, ZenonT(60) DEF TaskTypeOK, Execute
<1>2. CASE ExecuteFree(op)
  BY <1>2 DEF TaskTypeOK, ExecuteFree
<1> QED
  BY <1>1, <1>2

\* A task's completion keeps counters, slots and loop state well typed.
LEMMA CompleteTypes ==
  ASSUME SchedTypeOK, TaskTypeOK, CountTypeOK, Complete,
         budget' \in [TaskId -> Nat],
         UNCHANGED <<wait, next_task_id, parent, held>>
  PROVE  SchedTypeOK' /\ TaskTypeOK' /\ CountTypeOK'
<1>1. TaskTypeOK'
  BY ZenonT(60) DEF TaskTypeOK, SchedTypeOK, Complete, SlotState
<1>2. SchedTypeOK'
  BY AbortTypes DEF SchedTypeOK, Complete, Outcome, Abort
<1>3. CountTypeOK'
  BY DEF CountTypeOK, Complete
<1> QED
  BY <1>1, <1>2, <1>3

\* A table of handles keeps its type when the rows of two tasks are replaced.
LEMMA TwoTasks ==
  \A H : \A f \in [TaskId -> [ChannelIds -> H]] : \A t, u : \A a, b \in [ChannelIds -> H] :
    [f EXCEPT ![t] = a, ![u] = b] \in [TaskId -> [ChannelIds -> H]]
BY ZenonT(60)

\* What a child gets of a handle, and what its parent keeps, are handles.
LEMMA HandleTypes ==
  ASSUME NEW moved
  PROVE  /\ \A h \in TxHandles : ChildTx(h, moved) \in TxHandles /\ ParentTx(h, moved) \in TxHandles
         /\ \A h \in RxHandle : ChildRx(h, moved) \in RxHandle /\ ParentRx(h, moved) \in RxHandle
<1>1. ASSUME NEW h \in TxHandles PROVE ChildTx(h, moved) \in TxHandles
  <2>1. TakenSenders(h, moved) \in Nat
    BY DEF TakenSenders
  <2>2. (h.own > TakenSenders(h, moved) \/ h.lent) \in BOOLEAN
    BY Zenon
  <2> QED
    BY <2>1, <2>2 DEF ChildTx, TxHandles
<1>2. ASSUME NEW h \in TxHandles PROVE ParentTx(h, moved) \in TxHandles
  <2>1. h.own - TakenSenders(h, moved) \in Nat
    BY DEF TakenSenders, TxHandles
  <2> QED
    BY <2>1 DEF ParentTx, TxHandles
<1>3. ASSUME NEW h \in RxHandle
      PROVE  ChildRx(h, moved) \in RxHandle /\ ParentRx(h, moved) \in RxHandle
  BY DEF ChildRx, ParentRx, RxHandle
<1> QED
  BY <1>1, <1>2, <1>3, Zenon

\* SpawnTask preserves the type invariant: the new id is in the table.
LEMMA SpawnTypes == TypeOK /\ SpawnTask => TypeOK'
<1> SUFFICES ASSUME TypeOK, SpawnTask PROVE TypeOK'
  OBVIOUS
<1> USE DEF TypeOK
<1>1. budget' \in [TaskId -> Nat]
  BY BudgetTypes DEF SpawnTask
<1>2. next_task_id + 1 \in 1 .. MaxTasks
  BY SchedulerAssumption DEF SpawnTask, TaskId, TaskTypeOK
<1>3. TaskTypeOK'
  BY <1>1, <1>2, ZenonT(60) DEF TaskTypeOK, SchedTypeOK, SpawnTask, create_task, SlotState
<1>4. SchedTypeOK'
  BY DEF SchedTypeOK, SpawnTask, create_task
<1>a. PICK moved \in SUBSET Moves :
        /\ tx' = [tx EXCEPT
                    ![next_task_id] = [c \in ChannelIds |-> ChildTx(tx[current_task][c], moved)],
                    ![current_task] = [c \in ChannelIds |-> ParentTx(tx[current_task][c], moved)]]
        /\ rx' = [rx EXCEPT
                    ![next_task_id] = [c \in ChannelIds |-> ChildRx(rx[current_task][c], moved)],
                    ![current_task] = [c \in ChannelIds |-> ParentRx(rx[current_task][c], moved)]]
  BY ZenonT(60) DEF SpawnTask
<1>b. current_task \in TaskId
  BY ZenonT(60) DEF SchedTypeOK
<1>5. \A c \in ChannelIds : /\ ChildTx(tx[current_task][c], moved) \in TxHandles
                            /\ ParentTx(tx[current_task][c], moved) \in TxHandles
  BY <1>b, HandleTypes, ZenonT(60) DEF ChanTypeOK
<1>6. tx' \in [TaskId -> [ChannelIds -> TxHandles]]
  BY <1>a, <1>5, TwoTasks, ZenonT(60) DEF ChanTypeOK
<1>7. \A c \in ChannelIds : /\ ChildRx(rx[current_task][c], moved) \in RxHandle
                            /\ ParentRx(rx[current_task][c], moved) \in RxHandle
  BY <1>b, HandleTypes, ZenonT(60) DEF ChanTypeOK
<1>8. rx' \in [TaskId -> [ChannelIds -> RxHandle]]
  BY <1>a, <1>7, TwoTasks, ZenonT(60) DEF ChanTypeOK
<1>9. ChanTypeOK'
  BY <1>6, <1>8, ZenonT(60) DEF ChanTypeOK, SpawnTask
<1>10. CountTypeOK'
  BY DEF CountTypeOK, SpawnTask, create_task
<1> QED
  BY <1>3, <1>4, <1>9, <1>10, TypeStutter DEF SpawnTask

\* Every task instruction preserves the type invariant.
LEMMA TaskInstructionTypes == TypeOK /\ TaskInstruction => TypeOK'
<1> SUFFICES ASSUME TypeOK, TaskInstruction PROVE TypeOK'
  OBVIOUS
<1> USE DEF TypeOK
<1>1. CASE SpawnTask
  BY <1>1, SpawnTypes
<1>2. ASSUME NEW u \in TaskId, AwaitJoin(u) PROVE TypeOK'
  <2>1. CASE slot[u] = "done" /\ slot' = Without({u}) /\ Cleanup({u}) /\ UNCHANGED <<wait, schedVars>>
    <3>1. TaskTypeOK'
      BY <1>2, <2>1, RemovedTypes DEF AwaitJoin, TaskTypeOK
    <3> QED
      BY <1>2, <2>1, <3>1, CleanupTypes, TypeStutter, ZenonT(60) DEF AwaitJoin
  <2>2. CASE Suspend(WaitJoin(u)) /\ UNCHANGED scopeVars
    <3>1. /\ SchedTypeOK'
          /\ slot' \in [TaskId -> SlotState]
          /\ wait' \in [TaskId -> Wait]
      BY <1>2, <2>2, WaitTypes, SuspendTypes DEF AwaitJoin
    <3>2. TaskTypeOK'
      BY <1>2, <3>1 DEF AwaitJoin, TaskTypeOK
    <3> QED
      BY <1>2, <2>2, <3>1, <3>2, TypeStutter, ZenonT(60) DEF AwaitJoin
  <2> QED
    BY <1>2, <2>1, <2>2 DEF AwaitJoin
<1>3. ASSUME NEW u \in TaskId, CancelTask(u) PROVE TypeOK'
  <2>1. budget' \in [TaskId -> Nat]
    BY <1>3, BudgetTypes, ZenonT(60) DEF CancelTask
  <2>2. TaskTypeOK'
    BY <1>3, <2>1, RemovedTypes, ZenonT(60) DEF CancelTask, TaskTypeOK
  <2>3. SchedTypeOK'
    BY <1>3, AbortTypes DEF CancelTask, SchedTypeOK, Outcome
  <2>4. fate' \in [MsgId -> Fate]
    BY <1>3, AbandonTypes, ZenonT(60) DEF CancelTask
  <2>5. ChanTypeOK'
    BY <1>3, <2>4 DEF CancelTask, ChanTypeOK
  <2>6. NotDone({u}) \in SUBSET TaskId
    BY DEF NotDone
  <2> QED
    BY <1>3, <2>2, <2>3, <2>5, <2>6, CleanupTypes, CountCancelledTypes, ZenonT(60) DEF CancelTask
<1>4. CASE JoinTasks
  <2> DEFINE all == {u \in TaskId : parent[u] = current_task}
  <2>0. /\ UNCHANGED <<next_task_id, parent, chanVars, countVars, outcome>>
        /\ held' = held \ HeldBy(current_task)
    BY <1>4, ZenonT(60) DEF JoinTasks
  <2>h. held' \in SUBSET TaskId
    BY <2>0 DEF TaskTypeOK
  <2>a. all \in SUBSET TaskId
    OBVIOUS
  <2> HIDE DEF all
  <2>1. budget' \in [TaskId -> Nat]
    BY <1>4, BudgetTypes, ZenonT(60) DEF JoinTasks
  <2>2. CASE slot' = Without(all) /\ Cleanup(all) /\ UNCHANGED <<wait, schedVars>>
    <3>1. TaskTypeOK'
      BY <2>0, <2>h, <2>a, <2>1, <2>2, RemovedTypes DEF TaskTypeOK
    <3>2. ScopeTypeOK'
      BY <2>a, <2>2, CleanupTypes, ZenonT(60)
    <3>3. SchedTypeOK' /\ ChanTypeOK' /\ CountTypeOK'
      BY <2>0, <2>2, TypeStutter
    <3> QED
      BY <3>1, <3>2, <3>3, ZenonT(60)
  <2>3. CASE Suspend(WaitJoinAll(all)) /\ UNCHANGED scopeVars
    <3>1. WaitJoinAll(all) \in Wait
      BY <2>a, WaitTypes
    <3>o. outcome' = outcome
      BY <2>0
    <3>2. /\ SchedTypeOK'
          /\ slot' \in [TaskId -> SlotState]
          /\ wait' \in [TaskId -> Wait]
      BY <2>3, <3>o, <3>1, SuspendTypes, ZenonT(60)
    <3>3. TaskTypeOK'
      BY <2>0, <2>h, <2>1, <3>2 DEF TaskTypeOK
    <3>4. ChanTypeOK' /\ CountTypeOK' /\ ScopeTypeOK'
      BY <2>0, <2>3, TypeStutter, ZenonT(60)
    <3> QED
      BY <3>2, <3>3, <3>4, ZenonT(60)
  <2> QED
    BY <1>4, <2>2, <2>3, ZenonT(60) DEF JoinTasks, all
<1>5. ASSUME NEW hs \in SUBSET held, SelectWait(hs) PROVE TypeOK'
  <2>1. hs \in SUBSET TaskId
    BY DEF TaskTypeOK
  <2>2. budget' \in [TaskId -> Nat]
    BY <1>5, BudgetTypes DEF SelectWait
  <2>3. ASSUME NEW last,
               CancelSelectLosers(hs, last),
               slot' = Without(Losers(hs, last)),
               wait' = WaitsWithout(Losers(hs, last)),
               UNCHANGED ready_queue,
               IF last = MaxTasks
               THEN UNCHANGED <<phase, resume, woken, current_task, outcome>>
               ELSE Abort("error")
        PROVE  TypeOK'
    <3>1. Losers(hs, last) \in SUBSET TaskId /\ ChanTypeOK' /\ ScopeTypeOK' /\ CountTypeOK'
      BY <1>5, <2>1, <2>3, LosersTypes, ZenonT(60) DEF SelectWait
    <3>2. TaskTypeOK'
      BY <1>5, <2>2, <2>3, <3>1, RemovedTypes, ZenonT(60) DEF SelectWait, TaskTypeOK
    <3>3. SchedTypeOK'
      BY <2>3, AbortTypes DEF SchedTypeOK, Outcome
    <3> QED
      BY <3>1, <3>2, <3>3, ZenonT(60)
  <2>4. CASE Suspend(WaitSelect(hs)) /\ UNCHANGED <<fate, scopeVars, countVars, outcome>>
    <3>1. /\ SchedTypeOK'
          /\ slot' \in [TaskId -> SlotState]
          /\ wait' \in [TaskId -> Wait]
      BY <2>1, <2>4, WaitTypes, SuspendTypes, ZenonT(60)
    <3>2. TaskTypeOK'
      BY <1>5, <2>2, <3>1, ZenonT(60) DEF SelectWait, TaskTypeOK
    <3>3. ChanTypeOK'
      BY <1>5, <2>4 DEF SelectWait, ChanTypeOK
    <3> QED
      BY <2>4, <3>1, <3>2, <3>3, TypeStutter
  <2> QED
    BY <1>5, <2>3, <2>4 DEF SelectWait
<1>6. CASE Return
  <2>1. budget' \in [TaskId -> Nat]
    <3>1. budget \in [TaskId -> Nat]
      BY Zenon DEF TaskTypeOK
    <3>2. UNCHANGED budget
      BY <1>6, Zenon DEF Return
    <3> QED
      BY <3>1, <3>2, Zenon
  <2> QED
    BY <1>6, <2>1, CompleteTypes, TypeStutter, ZenonT(60) DEF Return
<1>7. CASE TryResult
  <2>1. budget' \in [TaskId -> Nat]
    BY <1>7, BudgetTypes DEF TryResult
  <2>2. Len(scopes[current_task]) \in Nat /\ current_task \in TaskId
    BY DEF ScopeTypeOK, SchedTypeOK
  <2>3. CASE Release(Len(scopes[current_task])) /\ Complete
    <3>1. ScopeTypeOK'
      BY <2>2, <2>3, ReleaseTypes
    <3> QED
      BY <1>7, <2>1, <2>3, <3>1, CompleteTypes, TypeStutter DEF TryResult
  <2>4. ASSUME NEW k \in 1 .. Len(scopes[current_task]), Release(k), Abort("error"),
               UNCHANGED <<ready_queue, slot, countVars>>
        PROVE  TypeOK'
    <3>1. ScopeTypeOK'
      BY <2>2, <2>4, ReleaseTypes
    <3>2. SchedTypeOK'
      BY <2>4, AbortTypes DEF Outcome
    <3>3. TaskTypeOK'
      BY <1>7, <2>1, <2>4 DEF TryResult, TaskTypeOK
    <3> QED
      BY <1>7, <2>4, <3>1, <3>2, <3>3, TypeStutter DEF TryResult
  <2> QED
    BY <1>7, <2>3, <2>4 DEF TryResult
<1>8. CASE Fault
  BY <1>8, AbortTypes, TypeStutter DEF Fault, Outcome
<1>9. CASE ResourceAcquire
  <2>1. budget' \in [TaskId -> Nat]
    BY <1>9, BudgetTypes DEF ResourceAcquire
  <2>2. TaskTypeOK'
    BY <1>9, <2>1 DEF ResourceAcquire, TaskTypeOK
  <2>3. next_resource' \in 1 .. MaxResources + 1
    BY <1>9, SchedulerAssumption DEF ResourceAcquire, ResourceId
  <2>4. ScopeTypeOK'
    BY <1>9, <2>3 DEF ResourceAcquire, ScopeTypeOK, SchedTypeOK
  <2> QED
    BY <1>9, <2>2, <2>4, TypeStutter DEF ResourceAcquire
<1>10. CASE ResourceDrop
  <2>1. budget' \in [TaskId -> Nat]
    BY <1>10, BudgetTypes, ZenonT(60) DEF ResourceDrop
  <2>2. TaskTypeOK'
    BY <1>10, <2>1 DEF ResourceDrop, TaskTypeOK
  <2>3. current_task \in TaskId /\ 1 \in 0 .. Len(scopes[current_task])
    BY <1>10 DEF ResourceDrop, ScopeTypeOK, SchedTypeOK
  <2>4. ScopeTypeOK'
    BY <1>10, <2>3, ReleaseTypes, ZenonT(60) DEF ResourceDrop
  <2>5. SchedTypeOK'
    BY <1>10, AbortTypes DEF ResourceDrop, SchedTypeOK, Outcome
  <2> QED
    BY <1>10, <2>2, <2>4, <2>5, TypeStutter, ZenonT(60) DEF ResourceDrop
<1>11. CASE CallExternal
  <2>1. budget' \in [TaskId -> Nat]
    BY <1>11, BudgetTypes DEF CallExternal
  <2>2. WaitProvider("pending") \in Wait
    BY WaitTypes DEF Reply
  <2>3. /\ SchedTypeOK'
        /\ slot' \in [TaskId -> SlotState]
        /\ wait' \in [TaskId -> Wait]
    BY <1>11, <2>2, SuspendTypes DEF CallExternal
  <2>4. TaskTypeOK'
    BY <1>11, <2>1, <2>3 DEF CallExternal, TaskTypeOK
  <2> QED
    BY <1>11, <2>3, <2>4, TypeStutter DEF CallExternal
<1> QED
  BY <1>1, <1>2, <1>3, <1>4, <1>5, <1>6, <1>7, <1>8, <1>9, <1>10, <1>11, ZenonT(60)
  DEF TaskInstruction

\* An intrinsic that does not park changes only channel state.
LEMMA RunningTypes ==
  ASSUME TypeOK, NEW op, Execute(op) \/ ExecuteFree(op),
         StaysRunning, NoTaskChange, ChanTypeOK'
  PROVE  TypeOK'
<1>1. budget' \in [TaskId -> Nat]
  BY BudgetTypes DEF TypeOK
<1>2. TaskTypeOK'
  BY <1>1 DEF TypeOK, TaskTypeOK, StaysRunning, NoTaskChange
<1> QED
  BY <1>2, TypeStutter DEF TypeOK, StaysRunning, NoTaskChange

\* One that parks records a wait.
LEMMA ParkedTypes ==
  ASSUME TypeOK, NEW op, Execute(op), NEW w \in Wait, Suspend(w), NoTaskChange, ChanTypeOK'
  PROVE  TypeOK'
<1>1. budget' \in [TaskId -> Nat]
  BY BudgetTypes DEF TypeOK
<1>2. /\ SchedTypeOK'
      /\ slot' \in [TaskId -> SlotState]
      /\ wait' \in [TaskId -> Wait]
  BY SuspendTypes DEF TypeOK, NoTaskChange
<1>3. TaskTypeOK'
  BY <1>1, <1>2 DEF TypeOK, TaskTypeOK, NoTaskChange
<1> QED
  BY <1>2, <1>3, TypeStutter DEF TypeOK, NoTaskChange

\* `send` and `send_cancellable` preserve the type invariant.
LEMMA SenderSendTypes ==
  ASSUME TypeOK, NEW c \in ChannelIds, NEW closed \in BOOLEAN, NEW k \in BOOLEAN,
         SenderSend(c, closed, k)
  PROVE  TypeOK'
<1>0. /\ Execute("send") /\ NoTaskChange /\ next_msg \in MsgId
      /\ next_msg' = next_msg + 1
  BY ZenonT(60) DEF SenderSend
<1>i. next_msg' \in 1 .. MaxMsgs + 1
  BY <1>0, SchedulerAssumption DEF MsgId
<1>1. /\ Execute("send") /\ NoTaskChange /\ next_msg \in MsgId
      /\ next_msg' \in 1 .. MaxMsgs + 1
  BY <1>0, <1>i, ZenonT(60)
<1>2. CASE /\ fate' = [fate EXCEPT ![next_msg] = "refused"]
           /\ StaysRunning
           /\ UNCHANGED <<channels, tx, rx, token, published, taken, ended>>
  <2>1. ChanTypeOK'
    BY <1>1, <1>2, ZenonT(60) DEF TypeOK, ChanTypeOK, Fate
  <2> QED
    BY <1>1, <1>2, <2>1, RunningTypes, ZenonT(60)
<1>3. CASE /\ fate' = [fate EXCEPT ![next_msg] = "parked"]
           /\ Suspend(WaitSend(c, next_msg))
           /\ UNCHANGED <<channels, tx, rx, token, published, taken, ended>>
  <2>1. ChanTypeOK'
    BY <1>1, <1>3 DEF TypeOK, ChanTypeOK, Fate
  <2> QED
    BY <1>1, <1>3, <2>1, WaitTypes, ParkedTypes, ZenonT(60)
<1>4. CASE PutMessage(c, next_msg, closed) /\ StaysRunning
  <2>1. ChanTypeOK'
    BY <1>1, <1>4, PutMessageTypes DEF TypeOK
  <2> QED
    BY <1>1, <1>4, <2>1, RunningTypes
<1> QED
  BY <1>2, <1>3, <1>4, ZenonT(60) DEF SenderSend

\* `recv` and `recv_cancellable` preserve the type invariant.
LEMMA ReceiverRecvTypes ==
  ASSUME TypeOK, NEW c \in ChannelIds, NEW k \in BOOLEAN, ReceiverRecv(c, k)
  PROVE  TypeOK'
<1>1. Execute("recv") /\ NoTaskChange /\ UNCHANGED <<next_msg, fate>>
  BY ZenonT(60) DEF ReceiverRecv
<1>2. CASE StaysRunning /\ UNCHANGED <<channels, tx, rx, token, published, taken, ended>>
  <2>1. ChanTypeOK'
    BY <1>1, <1>2, ZenonT(60) DEF TypeOK, ChanTypeOK
  <2> QED
    BY <1>1, <1>2, <2>1, RunningTypes, ZenonT(60)
<1>3. CASE Suspend(WaitRecv(c)) /\ UNCHANGED <<channels, tx, rx, token, published, taken, ended>>
  <2>1. ChanTypeOK'
    BY <1>1, <1>3 DEF TypeOK, ChanTypeOK
  <2> QED
    BY <1>1, <1>3, <2>1, WaitTypes, ParkedTypes, ZenonT(60)
<1>4. CASE TakeMessage(c) /\ StaysRunning
  <2>1. ChanTypeOK'
    BY <1>1, <1>4, TakeMessageTypes, ZenonT(60) DEF TypeOK
  <2> QED
    BY <1>1, <1>4, <2>1, RunningTypes
<1> QED
  BY <1>2, <1>3, <1>4, ZenonT(60) DEF ReceiverRecv

\* Every channel, stream and token intrinsic preserves the type invariant.
LEMMA ChannelInstructionTypes == TypeOK /\ ChannelInstruction => TypeOK'
<1> SUFFICES ASSUME TypeOK, ChannelInstruction PROVE TypeOK'
  OBVIOUS
<1>a. current_task \in TaskId /\ ChanTypeOK
  BY DEF TypeOK, SchedTypeOK
<1>1. CASE CancellationSourceCancel
  <2>1. token' \in BOOLEAN
    BY <1>1, Zenon DEF CancellationSourceCancel
  <2>2. ChanTypeOK'
    BY <1>a, <1>1, <2>1, ZenonT(60) DEF CancellationSourceCancel, ChanTypeOK
  <2> QED
    BY <1>1, <2>2, RunningTypes DEF CancellationSourceCancel
<1>2. ASSUME NEW c \in ChannelIds, NEW n \in Capacities, ChannelBounded(c, n) PROVE TypeOK'
  <2>1. n > 0 => VmChannelNew(n) \in VmChannel(MsgId)
    BY SchedulerAssumption DEF VmChannelNew, VmChannel
  <2>2. ~(n <= 0) => n > 0
    BY SchedulerAssumption
  <2>3. channels' \in [ChannelIds -> VmChannel(MsgId)]
    BY <1>a, <1>2, <2>1, <2>2, ZenonT(60) DEF ChannelBounded, ChanTypeOK
  <2>4. [tx[current_task][c] EXCEPT !.channel = "own"] \in TxHandles
    <3>1. tx[current_task][c] \in TxHandles
      BY <1>a DEF ChanTypeOK
    <3> QED
      BY <3>1 DEF TxHandles
  <2>5. tx' \in [TaskId -> [ChannelIds -> TxHandles]]
    <3>1. CASE n <= 0
      BY <1>a, <1>2, <3>1, ZenonT(60) DEF ChannelBounded, ChanTypeOK
    <3>2. CASE ~(n <= 0)
      <4>1. tx' = [tx EXCEPT ![current_task] = [tx[current_task] EXCEPT ![c] =
                     [tx[current_task][c] EXCEPT !.channel = "own"]]]
        BY <1>2, <3>2 DEF ChannelBounded
      <4> QED
        BY <1>a, <2>4, <4>1 DEF ChanTypeOK
    <3> QED
      BY <3>1, <3>2
  <2>6. ChanTypeOK'
    BY <1>a, <1>2, <2>3, <2>5, ZenonT(60) DEF ChannelBounded, ChanTypeOK
  <2> QED
    BY <1>2, <2>6, RunningTypes, ZenonT(60) DEF ChannelBounded
<1>3. ASSUME NEW c \in ChannelIds, ChannelSender(c) PROVE TypeOK'
  <2>1. channels' \in [ChannelIds -> VmChannel(MsgId)]
    BY <1>a, <1>3, EndpointTypes, ZenonT(60) DEF ChannelSender, ChanTypeOK
  <2>2. tx' \in [TaskId -> [ChannelIds -> TxHandles]]
    <3>1. tx[current_task][c] \in TxHandles
      BY <1>a DEF ChanTypeOK
    <3>2. [tx[current_task][c] EXCEPT !.own = @ + 1] \in TxHandles
      BY <3>1 DEF TxHandles
    <3> QED
      BY <1>a, <1>3, <3>2 DEF ChannelSender, ChanTypeOK
  <2>3. ChanTypeOK'
    BY <1>a, <1>3, <2>1, <2>2 DEF ChannelSender, ChanTypeOK
  <2> QED
    BY <1>3, <2>3, RunningTypes DEF ChannelSender
<1>4. ASSUME NEW c \in ChannelIds, ChannelReceiver(c) PROVE TypeOK'
  <2>1. CASE channels[c].receiver_taken
    <3>1. ChanTypeOK'
      BY <1>a, <1>4, <2>1 DEF ChannelReceiver, ChanTypeOK
    <3> QED
      BY <1>4, <3>1, RunningTypes DEF ChannelReceiver
  <2>2. CASE ~channels[c].receiver_taken
    <3>1. /\ channels' = [channels EXCEPT ![c] = [channels[c] EXCEPT !.receiver_taken = TRUE]]
          /\ rx' = [rx EXCEPT ![current_task] = [rx[current_task] EXCEPT ![c] = "own"]]
      BY <1>a, <1>4, <2>2 DEF ChannelReceiver
    <3>2. channels' \in [ChannelIds -> VmChannel(MsgId)]
      BY <1>a, <3>1, EndpointTypes DEF ChanTypeOK
    <3>3. rx' \in [TaskId -> [ChannelIds -> RxHandle]]
      BY <1>a, <3>1 DEF ChanTypeOK, RxHandle
    <3>4. ChanTypeOK'
      BY <1>a, <1>4, <3>2, <3>3, ZenonT(60) DEF ChannelReceiver, ChanTypeOK
    <3> QED
      BY <1>4, <3>4, RunningTypes DEF ChannelReceiver
  <2> QED
    BY <2>1, <2>2
<1>5. ASSUME NEW c \in ChannelIds, SenderClose(c) PROVE TypeOK'
  <2>1. channels' \in [ChannelIds -> VmChannel(MsgId)]
    BY <1>a, <1>5, EndpointTypes, ZenonT(60) DEF SenderClose, ChanTypeOK
  <2>2. tx' \in [TaskId -> [ChannelIds -> TxHandles]]
    <3> DEFINE h == tx[current_task][c]
               less == [channel |-> h.channel, own |-> h.own - 1, lent |-> h.lent, closed |-> TRUE]
    <3>1. h \in TxHandles /\ h.own > 0
      BY <1>a, <1>5, ZenonT(60) DEF SenderClose, ChanTypeOK
    <3>2. less \in TxHandles
      BY <3>1 DEF TxHandles
    <3>3. tx' = [tx EXCEPT ![current_task][c] = less]
      BY <1>a, <1>5 DEF SenderClose, ChanTypeOK
    <3> HIDE DEF less
    <3> QED
      BY <1>a, <3>2, <3>3 DEF ChanTypeOK
  <2>3. ChanTypeOK'
    BY <1>a, <1>5, <2>1, <2>2, ZenonT(60) DEF SenderClose, ChanTypeOK
  <2> QED
    BY <1>5, <2>3, RunningTypes DEF SenderClose
<1>6. ASSUME NEW c \in ChannelIds, ReceiverClose(c) PROVE TypeOK'
  <2>1. channels' \in [ChannelIds -> VmChannel(MsgId)]
    BY <1>a, <1>6, ZenonT(60) DEF ReceiverClose, ChanTypeOK, VmChannel
  <2>2. rx' \in [TaskId -> [ChannelIds -> RxHandle]]
    BY <1>a, <1>6 DEF ReceiverClose, ChanTypeOK, RxHandle
  <2>3. ChanTypeOK'
    BY <1>a, <1>6, <2>1, <2>2, ZenonT(60) DEF ReceiverClose, ChanTypeOK
  <2> QED
    BY <1>6, <2>3, RunningTypes DEF ReceiverClose
<1>7. ASSUME NEW c \in ChannelIds, ReceiverIntoStream(c) PROVE TypeOK'
  <2>1. rx' \in [TaskId -> [ChannelIds -> RxHandle]]
    BY <1>a, <1>7 DEF ReceiverIntoStream, ChanTypeOK, RxHandle
  <2>2. ChanTypeOK'
    BY <1>a, <1>7, <2>1, ZenonT(60) DEF ReceiverIntoStream, ChanTypeOK
  <2> QED
    BY <1>7, <2>2, RunningTypes, ZenonT(60) DEF ReceiverIntoStream
<1>8. ASSUME NEW c \in ChannelIds, StreamNext(c) PROVE TypeOK'
  <2>1. ChanTypeOK'
    BY <1>a, <1>8, TakeMessageTypes DEF StreamNext
  <2> QED
    BY <1>8, <2>1, RunningTypes, ZenonT(60) DEF StreamNext
<1>9. ASSUME NEW c \in ChannelIds, StreamCollectList(c) PROVE TypeOK'
  <2>1. channels[c] \in VmChannel(MsgId) /\ channels[c].queue \in Seq(MsgId)
    BY <1>a, ZenonT(60) DEF ChanTypeOK, VmChannel
  <2>2. channel_drain(channels[c]) \in VmChannel(MsgId)
    <3>1. <<>> \in Seq(MsgId)
      OBVIOUS
    <3> QED
      BY <2>1, <3>1, QueueTypes, ZenonT(60) DEF channel_drain
  <2>3. channels' \in [ChannelIds -> VmChannel(MsgId)]
    BY <1>a, <1>9, <2>2, ZenonT(60) DEF StreamCollectList, ChanTypeOK
  <2>4. taken' \in [ChannelIds -> Seq(MsgId)]
    BY <1>a, <1>9, <2>1 DEF StreamCollectList, ChanTypeOK
  <2>5. ended' \in SUBSET ChannelIds
    BY <1>a, <1>9, ZenonT(60) DEF StreamCollectList, ChanTypeOK
  <2>6. fate' \in [MsgId -> Fate]
    BY <1>a, <1>9, ZenonT(60) DEF StreamCollectList, ChanTypeOK, Fate
  <2>7. ChanTypeOK'
    BY <1>a, <1>9, <2>3, <2>4, <2>5, <2>6 DEF StreamCollectList, ChanTypeOK
  <2> QED
    BY <1>9, <2>7, RunningTypes, ZenonT(60) DEF StreamCollectList
<1> QED
  BY <1>1, <1>2, <1>3, <1>4, <1>5, <1>6, <1>7, <1>8, <1>9, SenderSendTypes, ReceiverRecvTypes, ZenonT(60)
  DEF ChannelInstruction

\* The types hold in every reachable state.
THEOREM TypeCorrect == Spec => []TypeOK
<1>1. TypeOK /\ [Next]_vars => TypeOK'
  <2> SUFFICES ASSUME TypeOK, [Next]_vars PROVE TypeOK'
    OBVIOUS
  <2>1. CASE UNCHANGED vars
    BY <2>1, TypeStutter DEF TypeOK, vars
  <2>2. ASSUME NEW t \in TaskId, HostCompletes(t) PROVE TypeOK'
    <3>1. \A r \in {"ok", "err"} : WaitProvider(r) \in Wait
      BY WaitTypes, ZenonT(60) DEF Reply
    <3>2. TaskTypeOK'
      BY <2>2, <3>1 DEF HostCompletes, TypeOK, TaskTypeOK
    <3> QED
      BY <2>2, <3>2, TypeStutter DEF HostCompletes, TypeOK
  <2>3. CASE Ended
    BY <2>1, <2>3 DEF Ended
  <2> QED
    BY <2>1, <2>2, <2>3, SchedulerStepTypes, TaskInstructionTypes, ChannelInstructionTypes
    DEF Next
<1> QED
  BY <1>1, TypeInit, PTL DEF Spec
=============================================================================
