---------------------------- MODULE JobLifecycle ----------------------------
(***************************************************************************)
(* The lifecycle of ERC-8183 jobs (transitionAgenticJob), as the adapter   *)
(* that keeps a job runs it: what it is given as the job's next evidence   *)
(* becomes the job once the transition is accepted.                        *)
(*                                                                         *)
(* A transition records a write that is confirmed on chain.  Its caller    *)
(* chooses what to present: an approval, a binding, the record of the      *)
(* submission and the evidence, any of which may belong to another write,  *)
(* and the time at which it says this occurred.  The evaluation evidence   *)
(* repeats the approval and the transaction, and the ids a caller expects  *)
(* are those of what it presents; both are left out, as is the adapter's   *)
(* own identity.                                                           *)
(***************************************************************************)
EXTENDS ExecutionAuthorization

CONSTANTS
  Budget,         \* of each job
  Client,         \* of each job: who pays
  Provider,       \* of each job: who delivers
  Evaluator,      \* of each job: who judges
  ExpiresAt       \* of each job

ASSUME JobsAssumption ==
  /\ Budget \in [Jobs -> Nat]
  /\ Client \in [Jobs -> Actors]
  /\ Provider \in [Jobs -> Actors]
  /\ Evaluator \in [Jobs -> Actors]
  /\ ExpiresAt \in [Jobs -> Nat]

VARIABLES
  job,        \* the evidence of each job
  accepted    \* ghost: the transitions made, with what was presented

jobVars == <<job, accepted>>

JobStatuses == {"OPEN", "FUNDED", "SUBMITTED", "COMPLETED", "REJECTED", "EXPIRED"}

JobEvidence ==
  [status : JobStatuses, transaction : Transaction \cup {None},
   escrow : Transaction \cup {None}, deliverable : Reference, reason : Reference]

Acceptance ==
  [job : Jobs, to : JobStatuses, approval : Approvals, binding : Bindings,
   submission : Submissions]

JobTypeOK ==
  /\ job \in [Jobs -> JobEvidence]
  /\ accepted \subseteq Acceptance
  /\ ConsumptionTypeOK

(* What the schema of the evidence asks for in each status.                *)
EscrowConfirmed(e) ==
  \/ Confirmed(e.escrow, "JOB_FUND") /\ e.deliverable = None
  \/ Confirmed(e.escrow, "JOB_SUBMIT") /\ e.deliverable # None

EscrowEvidence(e) ==
  IF e.status = "REJECTED"
  THEN (e.escrow = None /\ e.deliverable = None) \/ EscrowConfirmed(e)
  ELSE IF e.status = "EXPIRED" THEN EscrowConfirmed(e)
  ELSE e.escrow = None

StatusEvidence(e) ==
  \/ /\ e.status = "OPEN"
     /\ e.deliverable = None /\ e.reason = None /\ e.transaction = None
  \/ /\ e.status = "FUNDED"
     /\ e.deliverable = None /\ e.reason = None
     /\ Confirmed(e.transaction, "JOB_FUND")
  \/ /\ e.status = "SUBMITTED"
     /\ e.deliverable # None /\ e.reason = None
     /\ Confirmed(e.transaction, "JOB_SUBMIT")
  \/ /\ e.status = "COMPLETED"
     /\ e.deliverable # None
     /\ Confirmed(e.transaction, "JOB_EVALUATE")
  \/ e.status = "REJECTED" /\ Confirmed(e.transaction, "JOB_REJECT")
  \/ /\ e.status = "EXPIRED"
     /\ e.reason = None
     /\ Confirmed(e.transaction, "REFUND")

PositiveBudget(j, e) ==
  \/ e.status = "OPEN"
  \/ e.status = "REJECTED" /\ e.escrow = None /\ e.deliverable = None
  \/ Budget[j] > 0

WellFormed(j, e) == EscrowEvidence(e) /\ StatusEvidence(e) /\ PositiveBudget(j, e)

-----------------------------------------------------------------------------
(* What authorizes a transition                                            *)

ApprovedBy(a, j, op, role, actor) ==
  /\ a.kind = KindFor[op]
  /\ a.role = role
  /\ a.actor = actor
  /\ a.subject = j
  /\ a.decision = "APPROVED"

Decides(op) == op \in {"JOB_EVALUATE", "JOB_REJECT"}

(* Faulty variant: the deliverable is not among the parameters.            *)
CommitsToJobOnly(i, j, op, e) ==
  /\ i.op = op
  /\ i.job = j /\ i.subject = j
  /\ i.amount = Budget[j]
  /\ i.reason = IF Decides(op) THEN e.reason ELSE None

(* The intent is of this operation on this job, with the parameters that   *)
(* the evidence shows.                                                     *)
CommitsTo(i, j, op, e) ==
  /\ i.op = op
  /\ i.job = j /\ i.subject = j
  /\ i.amount = Budget[j]
  /\ i.deliverable = IF op = "JOB_FUND" THEN None ELSE e.deliverable
  /\ i.reason = IF Decides(op) THEN e.reason ELSE None

(* What is presented for a transition and accepted, the evidence aside.    *)
Presented(j, op, role, actor, at) ==
  {p \in [approval   : {a \in Approvals : ApprovedBy(a, j, op, role, actor)},
          binding    : {b \in Bindings : consumed[b] # None},
          submission : {s \in Submissions : Confirmed(s.transaction, op)}] :
     /\ BoundTo(p.binding, p.approval)
     /\ p.submission.record = p.binding.record
     /\ p.submission.job = IF op = "REFUND" THEN j ELSE None
     /\ InOrder(p.approval, p.binding, p.submission.at, at)}

Evidence(status, p, escrow, deliverable, reason) ==
  [status |-> status, transaction |-> p.submission.transaction,
   escrow |-> escrow, deliverable |-> deliverable, reason |-> reason]

Accept(j, op, p, e) ==
  /\ WellFormed(j, e)
  /\ CommitsTo(p.binding.intent, j, op, e)
  /\ job' = [job EXCEPT ![j] = e]
  /\ accepted' = accepted \cup
       {[job |-> j, to |-> e.status, approval |-> p.approval,
         binding |-> p.binding, submission |-> p.submission]}
  /\ UNCHANGED consumed

-----------------------------------------------------------------------------
(* The transitions                                                         *)

Fund(j, at) ==
  /\ job[j].status = "OPEN"
  /\ at < ExpiresAt[j]
  /\ \E p \in Presented(j, "JOB_FUND", "FOUNDER", Client[j], at) :
       Accept(j, "JOB_FUND", p, Evidence("FUNDED", p, None, None, None))

Deliver(j, at) ==
  /\ job[j].status = "FUNDED"
  /\ at < ExpiresAt[j]
  /\ \E p \in Presented(j, "JOB_SUBMIT", "PROVIDER", Provider[j], at) :
       \E d \in References :
         Accept(j, "JOB_SUBMIT", p, Evidence("SUBMITTED", p, None, d, None))

Complete(j, at) ==
  /\ job[j].status = "SUBMITTED"
  /\ at < ExpiresAt[j]
  /\ \E p \in Presented(j, "JOB_EVALUATE", "EVALUATOR", Evaluator[j], at) :
       \E r \in Reference :
         Accept(j, "JOB_EVALUATE", p,
                Evidence("COMPLETED", p, None, job[j].deliverable, r))

(* Faulty variant: a funded job may still be called off by its client.     *)
MayRejectUntilDelivery(j) ==
  IF job[j].status \in {"OPEN", "FUNDED"}
  THEN <<"FOUNDER", Client[j]>> ELSE <<"EVALUATOR", Evaluator[j]>>

(* Who may reject: the client while nothing is in escrow, else the         *)
(* evaluator.                                                              *)
MayReject(j) ==
  IF job[j].status = "OPEN"
  THEN <<"FOUNDER", Client[j]>> ELSE <<"EVALUATOR", Evaluator[j]>>

Reject(j, at) ==
  /\ job[j].status \in {"OPEN", "FUNDED", "SUBMITTED"}
  /\ job[j].status = "OPEN" \/ at < ExpiresAt[j]
  /\ \E p \in Presented(j, "JOB_REJECT", MayReject(j)[1], MayReject(j)[2], at) :
       \E r \in Reference :
         Accept(j, "JOB_REJECT", p,
                Evidence("REJECTED", p, job[j].transaction, job[j].deliverable, r))

Expire(j, at) ==
  /\ job[j].status \in {"FUNDED", "SUBMITTED"}
  /\ ExpiresAt[j] <= at
  /\ \E p \in Presented(j, "REFUND", "FOUNDER", Client[j], at) :
       /\ ExpiresAt[j] <= p.submission.at
       /\ Accept(j, "REFUND", p,
                 Evidence("EXPIRED", p, job[j].transaction, job[j].deliverable, None))

JobStep(j, at) ==
  Fund(j, at) \/ Deliver(j, at) \/ Complete(j, at) \/ Reject(j, at) \/ Expire(j, at)

JobStart ==
  /\ job = [j \in Jobs |-> [status |-> "OPEN", transaction |-> None,
                            escrow |-> None, deliverable |-> None, reason |-> None]]
  /\ accepted = {}

JobInit == JobStart /\ AuthorizationInit

JobNext ==
  \/ \E j \in Jobs, at \in Times : JobStep(j, at)
  \/ /\ \E b \in Bindings, w \in Records, at \in Times : Consume(b, w, at)
     /\ UNCHANGED jobVars

JobSpec == JobInit /\ [][JobNext]_<<jobVars, consumed>>

-----------------------------------------------------------------------------
(* An approval or a binding that one transition was accepted with is never *)
(* accepted for another one, of any job: the authorization of one write    *)
(* never authorizes another.                                               *)
OwnAuthorization ==
  \A x, y \in accepted :
    x.approval = y.approval \/ x.binding = y.binding => x = y

(* The accepted decisions of a party on a step of a job and its work.      *)
Decided(j, op, role, actor, work) ==
  {x \in accepted :
     /\ x.job = j
     /\ x.approval.role = role /\ x.approval.actor = actor
     /\ x.approval.intent.op = op
     /\ x.approval.intent.amount = Budget[j]
     /\ x.approval.intent.deliverable = work}

Funded(j) == Decided(j, "JOB_FUND", "FOUNDER", Client[j], None)

Delivered(j) == Decided(j, "JOB_SUBMIT", "PROVIDER", Provider[j], job[j].deliverable)

(* Whatever ended a job, each party decided its own part on the same       *)
(* facts: a completed job was funded by its client, and its evaluator      *)
(* approved the very deliverable that its provider had approved for        *)
(* submission; one that was rejected or has expired with a budget in       *)
(* escrow names the confirmed write, by its client or its provider, that   *)
(* had put it in the state from which the budget went back.                *)
OutcomeTraced ==
  \A j \in Jobs :
    /\ job[j].status = "COMPLETED" =>
         /\ Funded(j) # {}
         /\ Delivered(j) # {}
         /\ Decided(j, "JOB_EVALUATE", "EVALUATOR", Evaluator[j],
                    job[j].deliverable) # {}
    /\ job[j].status \in {"REJECTED", "EXPIRED"} /\ job[j].escrow # None =>
         /\ Funded(j) # {}
         /\ \E x \in IF job[j].deliverable = None THEN Funded(j) ELSE Delivered(j) :
              x.submission.transaction = job[j].escrow

(* The job implements an escrow between its three parties.                 *)
GrantOf(a) ==
  [id |-> a.id, step |-> a.intent.op, by |-> <<a.role, a.actor>>,
   job |-> a.intent.job, amount |-> a.intent.amount, work |-> a.intent.deliverable]

Holder(e) ==
  IF e.status = "COMPLETED" THEN "provider"
  ELSE IF e.status \in {"FUNDED", "SUBMITTED"} THEN "escrow"
  ELSE "client"

Escrow ==
  INSTANCE EscrowJob WITH
    Client    <- [j \in Jobs |-> <<"FOUNDER", Client[j]>>],
    Provider  <- [j \in Jobs |-> <<"PROVIDER", Provider[j]>>],
    Evaluator <- [j \in Jobs |-> <<"EVALUATOR", Evaluator[j]>>],
    Grants    <- {GrantOf(a) : a \in Approvals},
    held      <- [j \in Jobs |-> Holder(job[j])],
    work      <- [j \in Jobs |-> job[j].deliverable],
    closed    <- [j \in Jobs |-> job[j].status \in {"COMPLETED", "REJECTED", "EXPIRED"}],
    used      <- {GrantOf(x.approval) : x \in accepted}

(* Every job keeps the promise of an escrow: its budget moves only on a    *)
(* fresh decision of the party concerned, about the work as delivered, and *)
(* leaves escrow once.                                                     *)
EscrowKept == Escrow!EscrowSpec
=============================================================================
