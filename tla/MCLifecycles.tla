---------------------------- MODULE MCLifecycles ----------------------------
(***************************************************************************)
(* Two jobs and a release that can be paid to a destination or through one *)
(* of the jobs, with a set of approvals, bindings and submissions of which *)
(* some fit together and some do not.                                      *)
(*                                                                         *)
(* A consumption only makes the steps that need it possible, so the        *)
(* bindings of the jobs but one are consumed to begin with (at time 1).    *)
(***************************************************************************)
EXTENDS ReleaseLifecycle, TLC

CONSTANTS j1, j2, r1, client, provider, evaluator, d1, d2

PaidBy   == [j \in Jobs |-> client]
DoneBy   == [j \in Jobs |-> provider]
JudgedBy == [j \in Jobs |-> evaluator]
Budgets  == [j \in Jobs |-> 1]
Amounts  == [r \in Releases |-> 1]
Deadline == [j \in Jobs |-> 3]

JobIntent(op, j, w, d) ==
  [op |-> op, job |-> j, subject |-> j, record |-> w, amount |-> 1,
   deliverable |-> d, reason |-> None]

(* For the release: of an amount, through j1 or to a destination.          *)
ReleaseIntent(op, w, amount) ==
  [op |-> op, job |-> IF op \in ThroughJob THEN j1 ELSE None, subject |-> r1,
   record |-> w, amount |-> amount,
   deliverable |-> IF op \in ThroughJob THEN d1 ELSE None, reason |-> None]

RoleOf(actor) ==
  IF actor = client THEN "FOUNDER"
  ELSE IF actor = provider THEN "PROVIDER" ELSE "EVALUATOR"

(* Decided at 1.                                                           *)
Given(n, actor, i, expiresAt) ==
  [id |-> n, kind |-> KindFor[i.op], role |-> RoleOf(actor), actor |-> actor,
   subject |-> IF i.job = None THEN i.subject ELSE i.job, intent |-> i,
   decision |-> "APPROVED", decidedAt |-> 1, expiresAt |-> expiresAt]

ApprovalOf ==
  << Given(1, client, JobIntent("JOB_FUND", j1, 1, None), 9),
     Given(2, provider, JobIntent("JOB_SUBMIT", j1, 2, d1), 9),
     Given(3, provider, JobIntent("JOB_SUBMIT", j1, 3, d2), 9),
     Given(4, evaluator, JobIntent("JOB_EVALUATE", j1, 4, d1), 9),
     Given(5, evaluator, [JobIntent("JOB_REJECT", j1, 5, d1) EXCEPT !.reason = d2], 9),
     Given(6, client, JobIntent("JOB_REJECT", j1, 6, None), 9),
     Given(7, evaluator, JobIntent("JOB_REJECT", j1, 7, None), 9),
     Given(8, client, JobIntent("REFUND", j1, 8, d1), 9),
     Given(9, client, JobIntent("REFUND", j1, 9, None), 9),
     Given(10, client, JobIntent("JOB_FUND", j2, 10, None), 9),
     [Given(11, client, JobIntent("JOB_EVALUATE", j1, 11, d1), 9)
        EXCEPT !.role = "EVALUATOR"],
     Given(12, client, ReleaseIntent("SETTLEMENT", 12, 1), 3),
     Given(13, evaluator, ReleaseIntent("JOB_EVALUATE", 13, 1), 9),
     Given(14, client, ReleaseIntent("REFUND", 12, 2), 9),
     [Given(15, client, ReleaseIntent("SETTLEMENT", 12, 1), 9)
        EXCEPT !.decision = "REJECTED"],
     Given(16, evaluator, ReleaseIntent("JOB_EVALUATE", 14, 1), 2) >>

BindingOf(a) == [id |-> a.id, approval |-> a.id, intent |-> a.intent, record |-> a.intent.record]

Submitted(w, op, hash, status, at) ==
  [record |-> w, job |-> None, at |-> at,
   transaction |-> [op |-> op, hash |-> hash, status |-> status]]

(* The writes on the jobs are confirmed when they are recorded; refunds    *)
(* are claimed at the deadline.                                            *)
JobSubmission(a) ==
  [Submitted(a.intent.record, a.intent.op, a.id, "CONFIRMED",
             IF a.intent.op = "REFUND" THEN 3 ELSE 2)
     EXCEPT !.job = IF a.intent.op = "REFUND" THEN a.intent.job ELSE None]

AllApprovals == {ApprovalOf[n] : n \in DOMAIN ApprovalOf}
(* The last binds the client's approval of the funding to the refund.      *)
AllBindings ==
  {BindingOf(ApprovalOf[n]) : n \in (1..14) \cup {16}} \cup
  {[BindingOf(ApprovalOf[9]) EXCEPT !.id = 17, !.approval = 1]}
AllSubmissions ==
  {JobSubmission(ApprovalOf[n]) : n \in 1..11} \cup
  { Submitted(12, "SETTLEMENT", None, "SUBMITTED", 2),
    Submitted(12, "REFUND", 14, "SUBMITTED", 2),
    Submitted(13, "JOB_EVALUATE", 4, "SUBMITTED", 2),
    Submitted(13, "JOB_EVALUATE", 5, "SUBMITTED", 3),
    Submitted(14, "JOB_EVALUATE", 4, "SUBMITTED", 2) }

Early == {b \in Bindings : b.id \in {1, 2, 3, 5, 6, 7, 8, 9, 10, 11, 17}}

MCInit ==
  /\ JobStart /\ ReleaseInit
  /\ consumed = [b \in Bindings |-> IF b \in Early THEN 1 ELSE None]

(* How the release may be prepared: a record, what it references, and its  *)
(* operation.                                                              *)
Prepared(n, a, b, op) ==
  [record |-> n, approval |-> ApprovalOf[a], binding |-> BindingOf(ApprovalOf[b]), op |-> op]

Preparations ==
  { Prepared(12, 12, 12, "SETTLEMENT"), Prepared(12, 14, 14, "REFUND"),
    Prepared(12, 12, 14, "REFUND"), Prepared(13, 13, 13, "JOB_EVALUATE"),
    Prepared(13, 13, 13, "SETTLEMENT"), Prepared(14, 16, 16, "JOB_EVALUATE") }

Settlements ==
  { [op |-> "SETTLEMENT", hash |-> 12, job |-> None],
    [op |-> "SETTLEMENT", hash |-> 14, job |-> None],
    [op |-> "JOB_EVALUATE", hash |-> 4, job |-> j1] }

(* What can become of a release that is prepared.                          *)
Conclude(r, w) ==
  \/ \E a \in {x \in Approvals : x.id = tx[w].approval},
       b \in {x \in Bindings : x.id = tx[w].binding},
       s \in {x \in Submissions : x.record = w}, at \in Times :
       Submit(r, w, a, b, s, at)
  \/ FailPrepared(r, w)

MCReleaseStep(r) ==
  \/ \E to \in {t[2] : t \in Reviewed} : Review(r, to)
  \/ \E a \in Approvals, to \in Decisions, at \in Times : Decide(r, a, to, at)
  \/ \E p \in Preparations : Prepare(r, p.record, p.approval, p.binding, p.op)
  \/ \E w \in {v \in Records : tx[v] # None} :
       \/ Conclude(r, w)
       \/ Confirm(r, w)
       \/ FailSubmitted(r, w)
       \/ \E st \in Settlements : Reconcile(r, w, st)

ConsumeAny ==
  \E b \in Bindings, w \in {4, 12, 13, 14} :
    Consume(b, w, 1) /\ UNCHANGED <<jobVars, releaseVars>>

MCNext ==
  \/ \E j \in Jobs, at \in Times : JobStep(j, at) /\ UNCHANGED releaseVars
  \/ ConsumeAny
  \/ \E r \in Releases : MCReleaseStep(r)
  \/ \E w \in Records, h \in {12, 14} : LearnHash(w, h)

MCSpec == MCInit /\ [][MCNext]_<<jobVars, releaseVars, consumed>>

(* The adapter goes on with a release that is prepared as far as it can.   *)
Fairness ==
  /\ WF_<<jobVars, releaseVars, consumed>>(ConsumeAny)
  /\ WF_<<jobVars, releaseVars, consumed>>(
       \E r \in Releases, w \in {v \in Records : tx[v] # None} : Conclude(r, w))

MCFairSpec == MCSpec /\ Fairness
=============================================================================
