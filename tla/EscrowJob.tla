----------------------------- MODULE EscrowJob -----------------------------
(***************************************************************************)
(* What an escrowed job promises to its three parties, without saying how  *)
(* approvals are recorded or checked.  The budget is the client's until it *)
(* is put in escrow; it leaves escrow once, for the provider or back to    *)
(* the client, and then stays.  Each of these is done on a grant of the    *)
(* party whose decision it is, made for this job and for the work as it    *)
(* then is, and no grant is used twice.                                    *)
(***************************************************************************)
EXTENDS Integers

CONSTANTS
  Jobs,         \* job ids
  Budget,       \* what each job pays
  Client,       \* of each job
  Provider,     \* of each job
  Evaluator,    \* of each job
  Grants,       \* [id, step, by, job, amount, work] that may be given
  None          \* no work yet

VARIABLES
  held,         \* who has the budget of each job
  work,         \* what its provider delivered
  closed,       \* whether the job is over
  used          \* grants used so far

escrowVars == <<held, work, closed, used>>

EscrowInit ==
  /\ held = [j \in Jobs |-> "client"]
  /\ work = [j \in Jobs |-> None]
  /\ closed = [j \in Jobs |-> FALSE]
  /\ used = {}

Use(j, step, by, w) ==
  \E g \in Grants \ used :
    /\ g.step = step
    /\ g.by = by
    /\ g.job = j
    /\ g.amount = Budget[j]
    /\ g.work = w
    /\ used' = used \cup {g}

Open(j, holder) == ~closed[j] /\ held[j] = holder

Escrow(j) ==
  /\ Open(j, "client")
  /\ Use(j, "JOB_FUND", Client[j], None)
  /\ held' = [held EXCEPT ![j] = "escrow"]
  /\ UNCHANGED <<work, closed>>

DeliverWork(j) ==
  /\ Open(j, "escrow")
  /\ work[j] = None
  /\ \E w \in {g.work : g \in Grants} \ {None} :
       /\ Use(j, "JOB_SUBMIT", Provider[j], w)
       /\ work' = [work EXCEPT ![j] = w]
  /\ UNCHANGED <<held, closed>>

Close(j, holder) ==
  /\ held' = [held EXCEPT ![j] = holder]
  /\ closed' = [closed EXCEPT ![j] = TRUE]
  /\ UNCHANGED work

(* Paid for the work that was delivered and found good.                    *)
Pay(j) ==
  /\ Open(j, "escrow")
  /\ work[j] # None
  /\ Use(j, "JOB_EVALUATE", Evaluator[j], work[j])
  /\ Close(j, "provider")

(* Refused by the evaluator, or claimed back by the client.                *)
Return(j) ==
  /\ Open(j, "escrow")
  /\ \/ Use(j, "JOB_REJECT", Evaluator[j], work[j])
     \/ Use(j, "REFUND", Client[j], work[j])
  /\ Close(j, "client")

(* The client calls off a job it has not funded.                           *)
Cancel(j) ==
  /\ Open(j, "client")
  /\ Use(j, "JOB_REJECT", Client[j], None)
  /\ Close(j, "client")

EscrowNext ==
  \E j \in Jobs : Escrow(j) \/ DeliverWork(j) \/ Pay(j) \/ Return(j) \/ Cancel(j)

EscrowSpec == EscrowInit /\ [][EscrowNext]_escrowVars
=============================================================================
