----------------------------- MODULE TaskLedger -----------------------------
(***************************************************************************)
(* What the VM promises about tasks and the lexical resources they open,   *)
(* with no scheduler in it: a task id lives once, a resource is dropped    *)
(* once, a task gives up its resources no later than it finishes or is     *)
(* removed from the task table, and none is open when the program returns. *)
(***************************************************************************)
EXTENDS Integers

CONSTANTS Task, Main, Res

VARIABLES
  life,    \* of each task
  open,    \* the resources each task has open
  drops,   \* how often each resource was dropped
  over     \* the program has returned

ledger == <<life, open, drops, over>>

LedgerInit ==
  /\ life = [t \in Task |-> IF t = Main THEN "live" ELSE "unborn"]
  /\ open = [t \in Task |-> {}]
  /\ drops = [r \in Res |-> 0]
  /\ over = FALSE

OpenIn(S) == UNION {open[t] : t \in S}

\* The resources of R are dropped, wherever they are open.
DropEach(R) ==
  /\ open' = [t \in Task |-> open[t] \ R]
  /\ drops' = [r \in Res |-> IF r \in R THEN drops[r] + 1 ELSE drops[r]]

Start(t) ==
  /\ life[t] = "unborn"
  /\ life' = [life EXCEPT ![t] = "live"]
  /\ UNCHANGED <<open, drops, over>>

Acquire(t, r) ==
  /\ life[t] = "live"
  /\ drops[r] = 0 /\ r \notin OpenIn(Task)
  /\ open' = [open EXCEPT ![t] = @ \cup {r}]
  /\ UNCHANGED <<life, drops, over>>

Release(t, R) ==
  /\ life[t] = "live" /\ R \subseteq open[t]
  /\ DropEach(R)
  /\ UNCHANGED <<life, over>>

Finish(t) ==
  /\ life[t] = "live"
  /\ life' = [life EXCEPT ![t] = "finished"]
  /\ DropEach(open[t])
  /\ UNCHANGED over

\* Tasks leave the table, finished or cancelled.
Remove(S) ==
  /\ \A t \in S : life[t] \in {"live", "finished"}
  /\ life' = [t \in Task |-> IF t \in S THEN "gone" ELSE life[t]]
  /\ DropEach(OpenIn(S))
  /\ UNCHANGED over

ReturnFromProgram ==
  /\ ~over
  /\ over' = TRUE
  /\ DropEach(OpenIn(Task))
  /\ UNCHANGED life

LedgerNext ==
  /\ ~over
  /\ \/ \E t \in Task :
          \/ Start(t) \/ Finish(t)
          \/ \E r \in Res : Acquire(t, r)
          \/ \E R \in SUBSET open[t] : Release(t, R)
     \/ \E S \in SUBSET Task : Remove(S)
     \/ ReturnFromProgram

LedgerSpec == LedgerInit /\ [][LedgerNext]_ledger
=============================================================================
