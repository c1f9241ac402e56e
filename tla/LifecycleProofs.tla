-------------------------- MODULE LifecycleProofs --------------------------
(***************************************************************************)
(* Proofs about jobs and releases, for every set of jobs, releases,        *)
(* approvals, bindings and submissions, and every time a caller may give.  *)
(***************************************************************************)
EXTENDS ReleaseLifecycle, TLAPS

(* The operation whose write brings a job into a status.                   *)
OpOf ==
  [to \in JobStatuses |->
     IF to = "FUNDED" THEN "JOB_FUND"
     ELSE IF to = "SUBMITTED" THEN "JOB_SUBMIT"
     ELSE IF to = "COMPLETED" THEN "JOB_EVALUATE"
     ELSE IF to = "REJECTED" THEN "JOB_REJECT" ELSE "REFUND"]

(* The statuses a job has been given so far, at most.                      *)
Passed ==
  [status \in JobStatuses |->
     IF status = "OPEN" THEN {}
     ELSE IF status = "FUNDED" THEN {"FUNDED"}
     ELSE {"FUNDED", "SUBMITTED", status}]

(* What was accepted was approved for the job and the step it was accepted *)
(* for, and no step of a job was accepted twice.                           *)
AcceptedOnce ==
  \A x \in accepted :
    /\ x.approval.intent.job = x.job
    /\ x.approval.intent.op = OpOf[x.to]
    /\ x.binding.intent = x.approval.intent
    /\ x.to \in Passed[job[x.job].status]
    /\ \A y \in accepted : x.job = y.job /\ x.to = y.to => x = y

(* What brought a job where it is.                                         *)
FundedAs(j, t) == \E x \in Funded(j) : x.submission.transaction = t

DeliveredAs(j, t) == \E x \in Delivered(j) : x.submission.transaction = t

StageTraced ==
  \A j \in Jobs :
    /\ WellFormed(j, job[j])
    /\ job[j].status = "FUNDED" => FundedAs(j, job[j].transaction)
    /\ job[j].status = "SUBMITTED" =>
         Funded(j) # {} /\ DeliveredAs(j, job[j].transaction)

JobInv == JobTypeOK /\ AcceptedOnce /\ StageTraced /\ OutcomeTraced

-----------------------------------------------------------------------------
(* One transition                                                          *)

(* What a transition of a job does, whichever it is.                       *)
Accepts(j, op, role, actor, from, e, p) ==
  /\ p.approval \in Approvals /\ p.binding \in Bindings /\ p.submission \in Submissions
  /\ ApprovedBy(p.approval, j, op, role, actor)
  /\ p.binding.intent = p.approval.intent
  /\ CommitsTo(p.approval.intent, j, op, e)
  /\ Confirmed(p.submission.transaction, op)
  /\ job[j].status = from
  /\ e \in JobEvidence
  /\ e.transaction = p.submission.transaction
  /\ WellFormed(j, e)
  /\ OpOf[e.status] = op
  /\ job' = [job EXCEPT ![j] = e]
  /\ accepted' = accepted \cup
       {[job |-> j, to |-> e.status, approval |-> p.approval,
         binding |-> p.binding, submission |-> p.submission]}
  /\ consumed' = consumed

LEMMA AcceptFacts ==
  ASSUME JobTypeOK, NEW j \in Jobs, NEW op, NEW role, NEW actor, NEW at,
         NEW p \in Presented(j, op, role, actor, at),
         NEW status \in JobStatuses, OpOf[status] = op,
         NEW escrow \in Transaction \cup {None},
         NEW deliverable \in Reference, NEW reason \in Reference,
         Accept(j, op, p, Evidence(status, p, escrow, deliverable, reason))
  PROVE  Accepts(j, op, role, actor, job[j].status,
                 Evidence(status, p, escrow, deliverable, reason), p)
  <1> DEFINE e == Evidence(status, p, escrow, deliverable, reason)
  <1>1. /\ p.approval \in Approvals /\ p.binding \in Bindings
        /\ p.submission \in Submissions
        /\ ApprovedBy(p.approval, j, op, role, actor)
        /\ Confirmed(p.submission.transaction, op)
        /\ p.binding.intent = p.approval.intent
    BY DEF Presented, BoundTo
  <1>2. p.submission.transaction \in Transaction
    BY <1>1, RecordsAssumption DEF Submission
  <1>3. e \in JobEvidence /\ e.status = status
        /\ e.transaction = p.submission.transaction
    BY <1>2 DEF Evidence, JobEvidence
  <1>4. /\ WellFormed(j, e)
        /\ CommitsTo(p.binding.intent, j, op, e)
        /\ job' = [job EXCEPT ![j] = e]
        /\ accepted' = accepted \cup
             {[job |-> j, to |-> e.status, approval |-> p.approval,
               binding |-> p.binding, submission |-> p.submission]}
        /\ consumed' = consumed
    BY DEF Accept
  <1> HIDE DEF e
  <1>5. Accepts(j, op, role, actor, job[j].status, e, p)
    BY <1>1, <1>3, <1>4 DEF Accepts
  <1>6. QED
    BY <1>5 DEF e

(* The transitions, with what each keeps.                                  *)
Moves(j, e, p) ==
  \/ /\ Accepts(j, "JOB_FUND", "FOUNDER", Client[j], "OPEN", e, p)
     /\ e.status = "FUNDED"
  \/ /\ Accepts(j, "JOB_SUBMIT", "PROVIDER", Provider[j], "FUNDED", e, p)
     /\ e.status = "SUBMITTED"
  \/ /\ Accepts(j, "JOB_EVALUATE", "EVALUATOR", Evaluator[j], "SUBMITTED", e, p)
     /\ e.status = "COMPLETED"
     /\ e.deliverable = job[j].deliverable
  \/ /\ Accepts(j, "JOB_REJECT", "FOUNDER", Client[j], "OPEN", e, p)
     /\ e.status = "REJECTED"
     /\ e.deliverable = job[j].deliverable /\ e.escrow = job[j].transaction
  \/ /\ \/ Accepts(j, "JOB_REJECT", "EVALUATOR", Evaluator[j], "FUNDED", e, p)
        \/ Accepts(j, "JOB_REJECT", "EVALUATOR", Evaluator[j], "SUBMITTED", e, p)
     /\ e.status = "REJECTED"
     /\ e.deliverable = job[j].deliverable /\ e.escrow = job[j].transaction
  \/ /\ \/ Accepts(j, "REFUND", "FOUNDER", Client[j], "FUNDED", e, p)
        \/ Accepts(j, "REFUND", "FOUNDER", Client[j], "SUBMITTED", e, p)
     /\ e.status = "EXPIRED"
     /\ e.deliverable = job[j].deliverable /\ e.escrow = job[j].transaction

LEMMA JobTransition ==
  ASSUME JobTypeOK, NEW j \in Jobs, NEW at \in Times, JobStep(j, at)
  PROVE  \E p, e : Moves(j, e, p)
  <1> USE DEF Moves
  <1>0. /\ job[j].deliverable \in Reference
        /\ job[j].transaction \in Transaction \cup {None}
        /\ None \in Reference /\ None \in Transaction \cup {None}
        /\ \A d \in References : d \in Reference
    BY DEF JobTypeOK, JobEvidence, Reference
  <1>e. ASSUME NEW status, NEW p, NEW escrow, NEW deliverable, NEW reason
        PROVE  LET e == Evidence(status, p, escrow, deliverable, reason)
               IN  /\ e.status = status
                   /\ e.deliverable = deliverable
                   /\ e.escrow = escrow
    BY DEF Evidence
  <1>o. /\ OpOf["FUNDED"] = "JOB_FUND" /\ OpOf["SUBMITTED"] = "JOB_SUBMIT"
        /\ OpOf["COMPLETED"] = "JOB_EVALUATE" /\ OpOf["REJECTED"] = "JOB_REJECT"
        /\ OpOf["EXPIRED"] = "REFUND"
    BY DEF OpOf, JobStatuses
  <1>s. {"FUNDED", "SUBMITTED", "COMPLETED", "REJECTED", "EXPIRED"} \subseteq JobStatuses
    BY DEF JobStatuses
  <1>1. CASE Fund(j, at)
    <2>1. PICK p \in Presented(j, "JOB_FUND", "FOUNDER", Client[j], at) :
            Accept(j, "JOB_FUND", p, Evidence("FUNDED", p, None, None, None))
      BY <1>1 DEF Fund
    <2>2. Accepts(j, "JOB_FUND", "FOUNDER", Client[j], job[j].status,
                  Evidence("FUNDED", p, None, None, None), p)
      BY <2>1, <1>0, <1>o, <1>s, AcceptFacts
    <2>3. job[j].status = "OPEN"
      BY <1>1 DEF Fund
    <2>4. QED
      BY <2>2, <2>3, <1>e
  <1>2. CASE Deliver(j, at)
    <2>1. PICK p \in Presented(j, "JOB_SUBMIT", "PROVIDER", Provider[j], at),
               d \in References :
            Accept(j, "JOB_SUBMIT", p, Evidence("SUBMITTED", p, None, d, None))
      BY <1>2 DEF Deliver
    <2>2. Accepts(j, "JOB_SUBMIT", "PROVIDER", Provider[j], job[j].status,
                  Evidence("SUBMITTED", p, None, d, None), p)
      BY <2>1, <1>0, <1>o, <1>s, AcceptFacts
    <2>3. job[j].status = "FUNDED"
      BY <1>2 DEF Deliver
    <2>4. QED
      BY <2>2, <2>3, <1>e
  <1>3. CASE Complete(j, at)
    <2>1. PICK p \in Presented(j, "JOB_EVALUATE", "EVALUATOR", Evaluator[j], at),
               r \in Reference :
            Accept(j, "JOB_EVALUATE", p,
                   Evidence("COMPLETED", p, None, job[j].deliverable, r))
      BY <1>3 DEF Complete
    <2>2. Accepts(j, "JOB_EVALUATE", "EVALUATOR", Evaluator[j], job[j].status,
                  Evidence("COMPLETED", p, None, job[j].deliverable, r), p)
      BY <2>1, <1>0, <1>o, <1>s, AcceptFacts
    <2>3. job[j].status = "SUBMITTED"
      BY <1>3 DEF Complete
    <2>4. QED
      BY <2>2, <2>3, <1>e
  <1>4. CASE Reject(j, at)
    <2> DEFINE role == MayReject(j)[1]
               actor == MayReject(j)[2]
    <2>1. PICK p \in Presented(j, "JOB_REJECT", role, actor, at), r \in Reference :
            Accept(j, "JOB_REJECT", p,
                   Evidence("REJECTED", p, job[j].transaction, job[j].deliverable, r))
      BY <1>4 DEF Reject
    <2> HIDE DEF role, actor
    <2>2. Accepts(j, "JOB_REJECT", role, actor, job[j].status,
                  Evidence("REJECTED", p, job[j].transaction, job[j].deliverable, r), p)
      BY <2>1, <1>0, <1>o, <1>s, AcceptFacts
    <2>3. CASE job[j].status = "OPEN"
      <3>1. role = "FOUNDER" /\ actor = Client[j]
        BY <2>3 DEF role, actor, MayReject
      <3>2. QED
        BY <2>2, <2>3, <3>1, <1>e
    <2>4. CASE job[j].status \in {"FUNDED", "SUBMITTED"}
      <3>1. role = "EVALUATOR" /\ actor = Evaluator[j]
        BY <2>4 DEF role, actor, MayReject
      <3>2. QED
        BY <2>2, <2>4, <3>1, <1>e
    <2>5. QED
      BY <1>4, <2>3, <2>4 DEF Reject
  <1>5. CASE Expire(j, at)
    <2>1. PICK p \in Presented(j, "REFUND", "FOUNDER", Client[j], at) :
            Accept(j, "REFUND", p,
                   Evidence("EXPIRED", p, job[j].transaction, job[j].deliverable, None))
      BY <1>5 DEF Expire
    <2>2. Accepts(j, "REFUND", "FOUNDER", Client[j], job[j].status,
                  Evidence("EXPIRED", p, job[j].transaction, job[j].deliverable, None), p)
      BY <2>1, <1>0, <1>o, <1>s, AcceptFacts
    <2>3. job[j].status \in {"FUNDED", "SUBMITTED"}
      BY <1>5 DEF Expire
    <2>4. QED
      BY <2>2, <2>3, <1>e
  <1>6. QED
    BY <1>1, <1>2, <1>3, <1>4, <1>5 DEF JobStep

(* Whichever it is, it is accepted, and goes to a status that the job was  *)
(* never given.                                                            *)
LEMMA MovesForward ==
  ASSUME NEW j, NEW e, NEW p, Moves(j, e, p)
  PROVE  /\ \E op, role, actor, from : Accepts(j, op, role, actor, from, e, p)
         /\ e.status \notin Passed[job[j].status]
         /\ Passed[job[j].status] \subseteq Passed[e.status]
         /\ e.status \in Passed[e.status]
  <1>1. \E op, role, actor, from : Accepts(j, op, role, actor, from, e, p)
    BY DEF Moves
  <1>2. \/ job[j].status = "OPEN" /\ e.status \in {"FUNDED", "REJECTED"}
        \/ job[j].status = "FUNDED" /\ e.status \in {"SUBMITTED", "REJECTED", "EXPIRED"}
        \/ job[j].status = "SUBMITTED" /\ e.status \in {"COMPLETED", "REJECTED", "EXPIRED"}
    BY DEF Moves, Accepts
  <1>3. QED
    BY <1>1, <1>2 DEF Passed, JobStatuses

(* The transition that is recorded.                                        *)
New(j, e, p) ==
  [job |-> j, to |-> e.status, approval |-> p.approval, binding |-> p.binding,
   submission |-> p.submission]

LEMMA AcceptsTyped ==
  ASSUME JobTypeOK, NEW j \in Jobs, NEW op, NEW role, NEW actor, NEW from, NEW e, NEW p,
         Accepts(j, op, role, actor, from, e, p)
  PROVE  /\ JobTypeOK'
         /\ New(j, e, p) \in Acceptance
         /\ job' = [job EXCEPT ![j] = e]
         /\ job'[j] = e
         /\ \A k \in Jobs : k # j => job'[k] = job[k]
         /\ accepted' = accepted \cup {New(j, e, p)}
  <1>1. /\ e \in JobEvidence /\ job \in [Jobs -> JobEvidence]
        /\ accepted \subseteq Acceptance
        /\ job' = [job EXCEPT ![j] = e]
        /\ accepted' = accepted \cup {New(j, e, p)}
        /\ consumed' = consumed
    BY DEF Accepts, JobTypeOK, New
  <1>2. New(j, e, p) \in Acceptance
    BY <1>1 DEF Accepts, New, Acceptance, JobEvidence
  <1>3. /\ job' \in [Jobs -> JobEvidence]
        /\ accepted' \subseteq Acceptance
    BY <1>1, <1>2
  <1>4. ConsumptionTypeOK'
    BY <1>1 DEF JobTypeOK, ConsumptionTypeOK
  <1>5. QED
    BY <1>1, <1>2, <1>3, <1>4 DEF JobTypeOK

LEMMA NewFacts ==
  ASSUME NEW j, NEW op, NEW role, NEW actor, NEW from, NEW e, NEW p,
         Accepts(j, op, role, actor, from, e, p)
  PROVE  LET x == New(j, e, p)
         IN  /\ x.job = j /\ x.to = e.status
             /\ x.submission.transaction = e.transaction
             /\ x.binding.intent = x.approval.intent
             /\ x.approval.role = role /\ x.approval.actor = actor
             /\ x.approval.intent.op = op /\ OpOf[x.to] = op
             /\ x.approval.intent.job = j
             /\ x.approval.intent.amount = Budget[j]
             /\ x.approval.intent.deliverable =
                  IF op = "JOB_FUND" THEN None ELSE e.deliverable
  BY DEF Accepts, New, ApprovedBy, CommitsTo

LEMMA AcceptedOncePreserved ==
  ASSUME JobTypeOK, AcceptedOnce, NEW j \in Jobs, NEW e, NEW p, Moves(j, e, p)
  PROVE  AcceptedOnce'
  <1> DEFINE n == New(j, e, p)
  <1>1. PICK op, role, actor, from : Accepts(j, op, role, actor, from, e, p)
    BY MovesForward
  <1>2. /\ accepted' = accepted \cup {n}
        /\ job'[j] = e
        /\ \A k \in Jobs : k # j => job'[k] = job[k]
        /\ \A x \in accepted : x.job \in Jobs
    BY <1>1, AcceptsTyped DEF JobTypeOK, Acceptance
  <1>3. /\ n.job = j /\ n.to = e.status
        /\ n.approval.intent.job = n.job
        /\ n.approval.intent.op = OpOf[n.to]
        /\ n.binding.intent = n.approval.intent
    BY <1>1, NewFacts
  <1>4. /\ e.status \notin Passed[job[j].status]
        /\ Passed[job[j].status] \subseteq Passed[e.status]
        /\ e.status \in Passed[e.status]
    BY MovesForward
  <1> HIDE DEF n
  <1>5. ASSUME NEW x \in accepted
        PROVE  /\ x.approval.intent.job = x.job
               /\ x.approval.intent.op = OpOf[x.to]
               /\ x.binding.intent = x.approval.intent
               /\ x.to \in Passed[job[x.job].status]
               /\ x.to \in Passed[job'[x.job].status]
               /\ \A y \in accepted : x.job = y.job /\ x.to = y.to => x = y
               /\ ~(x.job = j /\ x.to = e.status)
    <2>1. /\ x.approval.intent.job = x.job
          /\ x.approval.intent.op = OpOf[x.to]
          /\ x.binding.intent = x.approval.intent
          /\ x.to \in Passed[job[x.job].status]
          /\ \A y \in accepted : x.job = y.job /\ x.to = y.to => x = y
      BY DEF AcceptedOnce
    <2>2. x.to \in Passed[job'[x.job].status]
      BY <2>1, <1>2, <1>4
    <2>3. ~(x.job = j /\ x.to = e.status)
      BY <2>1, <1>4
    <2>4. QED
      BY <2>1, <2>2, <2>3
  <1>6. ASSUME NEW x \in accepted'
        PROVE  /\ x.approval.intent.job = x.job
               /\ x.approval.intent.op = OpOf[x.to]
               /\ x.binding.intent = x.approval.intent
               /\ x.to \in Passed[job'[x.job].status]
    BY <1>2, <1>3, <1>4, <1>5
  <1>7. ASSUME NEW x \in accepted', NEW y \in accepted', x.job = y.job, x.to = y.to
        PROVE  x = y
    BY <1>2, <1>3, <1>5, <1>7
  <1>8. QED
    BY <1>6, <1>7 DEF AcceptedOnce

(* What was decided stays decided.                                         *)
LEMMA DecidedKept ==
  ASSUME JobTypeOK, NEW j \in Jobs, NEW e, NEW p, Moves(j, e, p)
  PROVE  /\ \A k, op, role, actor, work :
              Decided(k, op, role, actor, work) \subseteq
              Decided(k, op, role, actor, work)'
         /\ \A k : Funded(k) \subseteq Funded(k)'
         /\ \A k \in Jobs : job'[k].deliverable = job[k].deliverable =>
              Delivered(k) \subseteq Delivered(k)'
  <1>1. accepted \subseteq accepted'
    BY MovesForward, AcceptsTyped
  <1>2. \A k, op, role, actor, work :
          Decided(k, op, role, actor, work) \subseteq Decided(k, op, role, actor, work)'
    BY <1>1 DEF Decided
  <1>3. QED
    BY <1>2 DEF Funded, Delivered

LEMMA NewDecided ==
  ASSUME JobTypeOK, NEW j \in Jobs, NEW op, NEW role, NEW actor, NEW from, NEW e, NEW p,
         Accepts(j, op, role, actor, from, e, p)
  PROVE  New(j, e, p) \in Decided(j, op, role, actor,
                                  IF op = "JOB_FUND" THEN None ELSE e.deliverable)'
  <1>1. New(j, e, p) \in accepted'
    BY AcceptsTyped
  <1> DEFINE n == New(j, e, p)
  <1>2. /\ n.job = j
        /\ n.approval.role = role /\ n.approval.actor = actor
        /\ n.approval.intent.op = op
        /\ n.approval.intent.amount = Budget[j]
        /\ n.approval.intent.deliverable = IF op = "JOB_FUND" THEN None ELSE e.deliverable
    BY NewFacts
  <1> HIDE DEF n
  <1>3. QED
    BY <1>1, <1>2 DEF Decided, n

LEMMA TracedPreserved ==
  ASSUME JobTypeOK, StageTraced, OutcomeTraced,
         NEW j \in Jobs, NEW e, NEW p, Moves(j, e, p)
  PROVE  StageTraced' /\ OutcomeTraced'
  <1> DEFINE n == New(j, e, p)
  <1>1. PICK op, role, actor, from : Accepts(j, op, role, actor, from, e, p)
    BY MovesForward
  <1>2. /\ job'[j] = e
        /\ \A k \in Jobs : k # j => job'[k] = job[k]
        /\ e \in JobEvidence /\ WellFormed(j, e)
        /\ n.submission.transaction = e.transaction
    <2>1. n.submission.transaction = e.transaction
      BY <1>1, NewFacts
    <2> HIDE DEF n
    <2>2. /\ job'[j] = e
          /\ \A k \in Jobs : k # j => job'[k] = job[k]
      BY <1>1, AcceptsTyped
    <2>3. e \in JobEvidence /\ WellFormed(j, e)
      BY <1>1 DEF Accepts
    <2>4. QED
      BY <2>1, <2>2, <2>3
  <1>3. ASSUME NEW k \in Jobs, k # j
        PROVE  /\ WellFormed(k, job[k])'
               /\ (job[k].status = "FUNDED" => FundedAs(k, job[k].transaction))'
               /\ (job[k].status = "SUBMITTED" =>
                     Funded(k) # {} /\ DeliveredAs(k, job[k].transaction))'
               /\ (job[k].status = "COMPLETED" =>
                     /\ Funded(k) # {}
                     /\ Delivered(k) # {}
                     /\ Decided(k, "JOB_EVALUATE", "EVALUATOR", Evaluator[k],
                                job[k].deliverable) # {})'
               /\ (job[k].status \in {"REJECTED", "EXPIRED"} /\ job[k].escrow # None =>
                     /\ Funded(k) # {}
                     /\ \E x \in IF job[k].deliverable = None
                                 THEN Funded(k) ELSE Delivered(k) :
                          x.submission.transaction = job[k].escrow)'
    <2>1. /\ job'[k] = job[k]
          /\ Funded(k) \subseteq Funded(k)'
          /\ Delivered(k) \subseteq Delivered(k)'
          /\ Decided(k, "JOB_EVALUATE", "EVALUATOR", Evaluator[k], job[k].deliverable)
             \subseteq
             Decided(k, "JOB_EVALUATE", "EVALUATOR", Evaluator[k], job[k].deliverable)'
      BY <1>2, <1>3, DecidedKept
    <2>2. WellFormed(k, job[k])'
      BY <2>1 DEF StageTraced, WellFormed, EscrowEvidence, EscrowConfirmed,
                  StatusEvidence, PositiveBudget, Confirmed
    <2>3. /\ (job[k].status = "FUNDED" => FundedAs(k, job[k].transaction))'
          /\ (job[k].status = "SUBMITTED" =>
                Funded(k) # {} /\ DeliveredAs(k, job[k].transaction))'
      BY <2>1 DEF StageTraced, FundedAs, DeliveredAs
    <2>4. (job[k].status = "COMPLETED" =>
             /\ Funded(k) # {}
             /\ Delivered(k) # {}
             /\ Decided(k, "JOB_EVALUATE", "EVALUATOR", Evaluator[k],
                        job[k].deliverable) # {})'
      BY <2>1 DEF OutcomeTraced
    <2>5. (job[k].status \in {"REJECTED", "EXPIRED"} /\ job[k].escrow # None =>
             /\ Funded(k) # {}
             /\ \E x \in IF job[k].deliverable = None THEN Funded(k) ELSE Delivered(k) :
                  x.submission.transaction = job[k].escrow)'
      BY <2>1 DEF OutcomeTraced
    <2>6. QED
      BY <2>2, <2>3, <2>4, <2>5
  <1>4. /\ WellFormed(j, job[j])'
        /\ (job[j].status = "FUNDED" => FundedAs(j, job[j].transaction))'
        /\ (job[j].status = "SUBMITTED" =>
              Funded(j) # {} /\ DeliveredAs(j, job[j].transaction))'
        /\ (job[j].status = "COMPLETED" =>
              /\ Funded(j) # {}
              /\ Delivered(j) # {}
              /\ Decided(j, "JOB_EVALUATE", "EVALUATOR", Evaluator[j],
                         job[j].deliverable) # {})'
        /\ (job[j].status \in {"REJECTED", "EXPIRED"} /\ job[j].escrow # None =>
              /\ Funded(j) # {}
              /\ \E x \in IF job[j].deliverable = None THEN Funded(j) ELSE Delivered(j) :
                   x.submission.transaction = job[j].escrow)'
    <2>w. WellFormed(j, job[j])'
      BY <1>2 DEF WellFormed, EscrowEvidence, EscrowConfirmed, StatusEvidence,
                  PositiveBudget, Confirmed
    <2>o. WellFormed(j, job[j])
      BY DEF StageTraced
    <2>f. Funded(j) \subseteq Funded(j)'
      BY DecidedKept
    <2>d. e.deliverable = job[j].deliverable => Delivered(j) \subseteq Delivered(j)'
      BY <1>2, DecidedKept
    <2>t. FundedAs(j, job[j].transaction) => Funded(j) # {}
      BY DEF FundedAs
    <2>u. DeliveredAs(j, job[j].transaction) => Delivered(j) # {}
      BY DEF DeliveredAs
    <2>1. CASE /\ Accepts(j, "JOB_FUND", "FOUNDER", Client[j], "OPEN", e, p)
               /\ e.status = "FUNDED"
      <3>1. n \in Funded(j)'
        BY <2>1, NewDecided DEF Funded
      <3>2. (FundedAs(j, job[j].transaction))'
        BY <3>1, <1>2 DEF FundedAs
      <3> HIDE DEF n
      <3>3. QED
        BY <3>2, <2>1, <2>w, <1>2
    <2>2. CASE /\ Accepts(j, "JOB_SUBMIT", "PROVIDER", Provider[j], "FUNDED", e, p)
               /\ e.status = "SUBMITTED"
      <3>1. n \in Delivered(j)'
        BY <2>2, <1>2, NewDecided DEF Delivered
      <3>2. (DeliveredAs(j, job[j].transaction))'
        BY <3>1, <1>2 DEF DeliveredAs
      <3>3. Funded(j) # {}
        BY <2>2, <2>t DEF StageTraced, Accepts
      <3> HIDE DEF n
      <3>4. QED
        BY <3>2, <3>3, <2>2, <2>w, <2>f, <1>2
    <2>3. CASE /\ Accepts(j, "JOB_EVALUATE", "EVALUATOR", Evaluator[j], "SUBMITTED", e, p)
               /\ e.status = "COMPLETED"
               /\ e.deliverable = job[j].deliverable
      <3>1. Decided(j, "JOB_EVALUATE", "EVALUATOR", Evaluator[j], e.deliverable)' # {}
        BY <2>3, NewDecided
      <3>2. Funded(j) # {} /\ Delivered(j) # {}
        BY <2>3, <2>u DEF StageTraced, Accepts
      <3>3. Funded(j)' # {} /\ Delivered(j)' # {}
        BY <3>2, <2>3, <2>f, <2>d
      <3>4. Decided(j, "JOB_EVALUATE", "EVALUATOR", Evaluator[j],
                    job[j].deliverable)' # {}
        BY <3>1, <1>2
      <3> HIDE DEF n
      <3>5. QED
        BY <3>3, <3>4, <2>3, <2>w, <1>2
    <2>4. CASE /\ job[j].status = "OPEN"
               /\ e.status = "REJECTED" /\ e.escrow = job[j].transaction
      <3>1. job[j].transaction = None
        BY <2>4, <2>o DEF WellFormed, StatusEvidence
      <3> HIDE DEF n
      <3>2. QED
        BY <3>1, <2>4, <2>w, <1>2
    <2>5. CASE /\ job[j].status = "FUNDED"
               /\ e.status \in {"REJECTED", "EXPIRED"}
               /\ e.deliverable = job[j].deliverable /\ e.escrow = job[j].transaction
      <3>1. FundedAs(j, e.escrow) /\ e.deliverable = None
        BY <2>5, <2>o DEF WellFormed, StatusEvidence, StageTraced
      <3>2. PICK x \in Funded(j)' : x.submission.transaction = e.escrow
        BY <3>1, <2>f DEF FundedAs
      <3> HIDE DEF n
      <3>3. QED
        BY <3>1, <3>2, <2>5, <2>w, <1>2
    <2>6. CASE /\ job[j].status = "SUBMITTED"
               /\ e.status \in {"REJECTED", "EXPIRED"}
               /\ e.deliverable = job[j].deliverable /\ e.escrow = job[j].transaction
      <3>1. DeliveredAs(j, e.escrow) /\ e.deliverable # None /\ Funded(j) # {}
        BY <2>6, <2>o DEF WellFormed, StatusEvidence, StageTraced
      <3>2. PICK x \in Delivered(j)' : x.submission.transaction = e.escrow
        BY <3>1, <2>d, <2>6 DEF DeliveredAs
      <3> HIDE DEF n
      <3>3. QED
        BY <3>1, <3>2, <2>6, <2>w, <2>f, <1>2
    <2>7. QED
      BY <2>1, <2>2, <2>3, <2>4, <2>5, <2>6 DEF Moves, Accepts
  <1> HIDE DEF n
  <1>5. StageTraced'
    <2>1. \A k \in Jobs :
            /\ WellFormed(k, job[k])'
            /\ (job[k].status = "FUNDED" => FundedAs(k, job[k].transaction))'
            /\ (job[k].status = "SUBMITTED" =>
                  Funded(k) # {} /\ DeliveredAs(k, job[k].transaction))'
      BY <1>3, <1>4
    <2>2. QED
      BY <2>1 DEF StageTraced
  <1>6. OutcomeTraced'
    <2>1. \A k \in Jobs :
            /\ (job[k].status = "COMPLETED" =>
                  /\ Funded(k) # {}
                  /\ Delivered(k) # {}
                  /\ Decided(k, "JOB_EVALUATE", "EVALUATOR", Evaluator[k],
                             job[k].deliverable) # {})'
            /\ (job[k].status \in {"REJECTED", "EXPIRED"} /\ job[k].escrow # None =>
                  /\ Funded(k) # {}
                  /\ \E x \in IF job[k].deliverable = None
                              THEN Funded(k) ELSE Delivered(k) :
                       x.submission.transaction = job[k].escrow)'
      BY <1>3, <1>4
    <2>2. QED
      BY <2>1 DEF OutcomeTraced
  <1>7. QED
    BY <1>5, <1>6

-----------------------------------------------------------------------------
(* The invariant of the jobs                                               *)

LEMMA JobInitInv == ASSUME JobInit PROVE JobInv
  <1>1. \A j \in Jobs :
          job[j] = [status |-> "OPEN", transaction |-> None,
                    escrow |-> None, deliverable |-> None, reason |-> None]
    BY DEF JobInit, JobStart
  <1>2. JobTypeOK
    <2>1. [status |-> "OPEN", transaction |-> None, escrow |-> None,
           deliverable |-> None, reason |-> None] \in JobEvidence
      BY DEF JobEvidence, JobStatuses, Reference
    <2>2. job \in [Jobs -> JobEvidence] /\ accepted \subseteq Acceptance
      BY <2>1 DEF JobInit, JobStart
    <2>3. ConsumptionTypeOK
      BY DEF JobInit, AuthorizationInit, ConsumptionTypeOK
    <2>4. QED
      BY <2>2, <2>3 DEF JobTypeOK
  <1>3. AcceptedOnce
    BY DEF JobInit, JobStart, AcceptedOnce
  <1>4. StageTraced
    BY <1>1 DEF StageTraced, WellFormed, EscrowEvidence, StatusEvidence, PositiveBudget
  <1>5. OutcomeTraced
    BY <1>1 DEF OutcomeTraced
  <1>6. QED
    BY <1>2, <1>3, <1>4, <1>5 DEF JobInv

LEMMA JobUnchanged ==
  ASSUME JobInv, UNCHANGED jobVars, ConsumptionTypeOK'
  PROVE  JobInv'
  <1>1. job' = job /\ accepted' = accepted
    BY DEF jobVars
  <1>2. JobTypeOK'
    BY <1>1 DEF JobInv, JobTypeOK
  <1>3. AcceptedOnce'
    BY <1>1 DEF JobInv, AcceptedOnce
  <1>4. StageTraced'
    BY <1>1 DEF JobInv, StageTraced, WellFormed, EscrowEvidence, EscrowConfirmed,
      StatusEvidence, PositiveBudget, Confirmed, FundedAs, DeliveredAs, Funded, Delivered, Decided
  <1>5. OutcomeTraced'
    BY <1>1 DEF JobInv, OutcomeTraced, Funded, Delivered, Decided
  <1>6. QED
    BY <1>2, <1>3, <1>4, <1>5 DEF JobInv

LEMMA ConsumeTyped ==
  ASSUME ConsumptionTypeOK, NEW b \in Bindings, NEW w, NEW at \in Times, Consume(b, w, at)
  PROVE  ConsumptionTypeOK'
  BY RecordsAssumption DEF Consume, ConsumptionTypeOK

LEMMA JobNextInv ==
  ASSUME JobInv, [JobNext]_<<jobVars, consumed>>
  PROVE  JobInv'
  <1>1. ASSUME NEW j \in Jobs, NEW at \in Times, JobStep(j, at)
        PROVE  JobInv'
    <2>1. PICK p, e : Moves(j, e, p)
      BY <1>1, JobTransition DEF JobInv
    <2>2. JobTypeOK'
      BY <2>1, MovesForward, AcceptsTyped DEF JobInv
    <2>3. AcceptedOnce'
      BY <2>1, AcceptedOncePreserved DEF JobInv
    <2>4. StageTraced' /\ OutcomeTraced'
      BY <2>1, TracedPreserved DEF JobInv
    <2>5. QED
      BY <2>2, <2>3, <2>4 DEF JobInv
  <1>2. ASSUME NEW b \in Bindings, NEW w \in Records, NEW at \in Times,
               Consume(b, w, at), UNCHANGED jobVars
        PROVE  JobInv'
    BY <1>2, ConsumeTyped, JobUnchanged DEF JobInv, JobTypeOK
  <1>3. CASE UNCHANGED <<jobVars, consumed>>
    <2>1. ConsumptionTypeOK'
      BY <1>3 DEF JobInv, JobTypeOK, ConsumptionTypeOK
    <2>2. QED
      BY <1>3, <2>1, JobUnchanged
  <1>4. QED
    BY <1>1, <1>2, <1>3 DEF JobNext

LEMMA OwnAuthorizationHolds == ASSUME JobInv PROVE OwnAuthorization
  <1> SUFFICES ASSUME NEW x \in accepted, NEW y \in accepted,
                      x.approval = y.approval \/ x.binding = y.binding
               PROVE  x = y
    BY DEF OwnAuthorization
  <1>1. /\ x.approval.intent.job = x.job /\ x.approval.intent.op = OpOf[x.to]
        /\ y.approval.intent.job = y.job /\ y.approval.intent.op = OpOf[y.to]
        /\ x.binding.intent = x.approval.intent /\ y.binding.intent = y.approval.intent
        /\ x.to \in Passed[job[x.job].status] /\ y.to \in Passed[job[y.job].status]
        /\ x.job = y.job /\ x.to = y.to => x = y
    BY DEF JobInv, AcceptedOnce
  <1>2. x.job = y.job /\ OpOf[x.to] = OpOf[y.to]
    BY <1>1
  <1>3. /\ x.to \in JobStatuses \ {"OPEN"} /\ y.to \in JobStatuses \ {"OPEN"}
    <2>1. /\ job[x.job].status \in JobStatuses /\ job[y.job].status \in JobStatuses
          /\ x.to \in JobStatuses /\ y.to \in JobStatuses
      BY DEF JobInv, JobTypeOK, JobEvidence, Acceptance
    <2>2. \A st \in JobStatuses : "OPEN" \notin Passed[st]
      BY DEF Passed, JobStatuses
    <2>3. QED
      BY <1>1, <2>1, <2>2
  <1>4. x.to = y.to
    BY <1>2, <1>3 DEF OpOf, JobStatuses
  <1>5. QED
    BY <1>1, <1>2, <1>4

(* The state of the jobs keeps its types.                                  *)
THEOREM JobsAlwaysTyped == JobSpec => []JobTypeOK
  <1>1. JobInv => JobTypeOK
    BY DEF JobInv
  <1>2. QED
    BY <1>1, JobInitInv, JobNextInv, PTL DEF JobSpec

(* No approval and no binding is ever accepted for a second transition,    *)
(* whatever the callers present and however many jobs there are.           *)
THEOREM JobsOwnAuthorization == JobSpec => []OwnAuthorization
  BY JobInitInv, JobNextInv, OwnAuthorizationHolds, PTL DEF JobSpec

(* Every outcome of every job is traced to what its parties decided.       *)
THEOREM JobsOutcomeTraced == JobSpec => []OutcomeTraced
  <1>1. JobInv => OutcomeTraced
    BY DEF JobInv
  <1>2. QED
    BY <1>1, JobInitInv, JobNextInv, PTL DEF JobSpec

-----------------------------------------------------------------------------
(* The refinement                                                          *)

LEMMA GrantIsFresh ==
  ASSUME JobInv, NEW j \in Jobs, NEW e, NEW p, Moves(j, e, p)
  PROVE  \A x \in accepted : GrantOf(x.approval) # GrantOf(p.approval)
  <1>1. PICK op, role, actor, from : Accepts(j, op, role, actor, from, e, p)
    BY MovesForward
  <1>2. /\ p.approval.intent.op = op /\ OpOf[e.status] = op
        /\ p.approval.intent.job = j
        /\ e.status \in JobStatuses /\ e.status # "OPEN"
    <2>1. e.status # "OPEN"
      BY DEF Moves
    <2>2. QED
      BY <1>1, <2>1 DEF Accepts, CommitsTo, JobEvidence
  <1>3. e.status \notin Passed[job[j].status]
    BY MovesForward
  <1>4. ASSUME NEW x \in accepted, GrantOf(x.approval) = GrantOf(p.approval)
        PROVE  FALSE
    <2>1. x.approval.intent.op = op /\ x.approval.intent.job = j
      BY <1>2, <1>4 DEF GrantOf
    <2>2. x.job = j /\ OpOf[x.to] = OpOf[e.status] /\ x.to \in Passed[job[j].status]
      BY <2>1, <1>2 DEF JobInv, AcceptedOnce
    <2>3. x.to \in JobStatuses \ {"OPEN"}
      <3>1. job[j].status \in JobStatuses /\ x.to \in JobStatuses
        BY DEF JobInv, JobTypeOK, JobEvidence, Acceptance
      <3>2. "OPEN" \notin Passed[job[j].status]
        BY <3>1 DEF Passed, JobStatuses
      <3>3. QED
        BY <2>2, <3>1, <3>2
    <2>4. x.to = e.status
      BY <2>2, <2>3, <1>2 DEF OpOf, JobStatuses
    <2>5. QED
      BY <2>2, <2>4, <1>3
  <1>5. QED
    BY <1>4

LEMMA EscrowUse ==
  ASSUME JobInv, NEW j \in Jobs, NEW e, NEW p, Moves(j, e, p),
         NEW op, NEW role, NEW actor, NEW from, Accepts(j, op, role, actor, from, e, p)
  PROVE  LET w == IF op = "JOB_FUND" THEN None ELSE e.deliverable
         IN  /\ Escrow!Use(j, op, <<role, actor>>, w)
             /\ w \in {g.work : g \in {GrantOf(a) : a \in Approvals}}
  <1> DEFINE g == GrantOf(p.approval)
             u == {GrantOf(x.approval) : x \in accepted}
             w == IF op = "JOB_FUND" THEN None ELSE e.deliverable
  <1>1. g \in {GrantOf(a) : a \in Approvals}
    BY DEF Accepts
  <1>2. g \notin u
    BY GrantIsFresh
  <1>3. u' = u \cup {g}
    <2>1. accepted' = accepted \cup {New(j, e, p)}
      BY DEF Accepts, New
    <2>2. New(j, e, p).approval = p.approval
      BY DEF New
    <2>3. QED
      BY <2>1, <2>2
  <1>4. /\ g.step = op /\ g.by = <<role, actor>> /\ g.job = j
        /\ g.amount = Budget[j] /\ g.work = w
    BY DEF Accepts, ApprovedBy, CommitsTo, GrantOf
  <1>5. w \in {h.work : h \in {GrantOf(a) : a \in Approvals}}
    BY <1>1, <1>4
  <1> HIDE DEF g, w
  <1>6. Escrow!Use(j, op, <<role, actor>>, w)
    BY <1>1, <1>2, <1>3, <1>4 DEF Escrow!Use
  <1>7. QED
    BY <1>5, <1>6 DEF w

(* What the escrow sees of the jobs.                                       *)
Over(e) == e.status \in {"COMPLETED", "REJECTED", "EXPIRED"}

LEMMA EscrowSees ==
  ASSUME JobInv, NEW j \in Jobs, NEW e, NEW p, Moves(j, e, p)
  PROVE  /\ [k \in Jobs |-> Holder(job[k])]' =
              [[k \in Jobs |-> Holder(job[k])] EXCEPT ![j] = Holder(e)]
         /\ [k \in Jobs |-> job[k].deliverable]' =
              [[k \in Jobs |-> job[k].deliverable] EXCEPT ![j] = e.deliverable]
         /\ [k \in Jobs |-> job[k].status \in {"COMPLETED", "REJECTED", "EXPIRED"}]' =
              [[k \in Jobs |-> job[k].status \in {"COMPLETED", "REJECTED", "EXPIRED"}]
                 EXCEPT ![j] = Over(e)]
  <1>1. /\ job'[j] = e
        /\ \A k \in Jobs : k # j => job'[k] = job[k]
    BY MovesForward, AcceptsTyped DEF JobInv
  <1>2. \A k \in Jobs : Holder(job'[k]) = IF k = j THEN Holder(e) ELSE Holder(job[k])
    BY <1>1
  <1>3. \A k \in Jobs :
          job'[k].deliverable = IF k = j THEN e.deliverable ELSE job[k].deliverable
    BY <1>1
  <1>4. \A k \in Jobs : Over(job'[k]) = IF k = j THEN Over(e) ELSE Over(job[k])
    BY <1>1
  <1>5. [k \in Jobs |-> Holder(job[k])]' =
          [[k \in Jobs |-> Holder(job[k])] EXCEPT ![j] = Holder(e)]
    BY <1>2
  <1>6. [k \in Jobs |-> job[k].deliverable]' =
          [[k \in Jobs |-> job[k].deliverable] EXCEPT ![j] = e.deliverable]
    BY <1>3
  <1>7. [k \in Jobs |-> Over(job[k])]' =
          [[k \in Jobs |-> Over(job[k])] EXCEPT ![j] = Over(e)]
    BY <1>4
  <1>8. QED
    BY <1>5, <1>6, <1>7 DEF Over

LEMMA EscrowStep ==
  ASSUME JobInv, NEW j \in Jobs, NEW e, NEW p, Moves(j, e, p)
  PROVE  Escrow!EscrowNext
  <1> DEFINE h == [k \in Jobs |-> Holder(job[k])]
             d == [k \in Jobs |-> job[k].deliverable]
             c == [k \in Jobs |-> job[k].status \in {"COMPLETED", "REJECTED", "EXPIRED"}]
  <1>1. /\ h' = [h EXCEPT ![j] = Holder(e)]
        /\ d' = [d EXCEPT ![j] = e.deliverable]
        /\ c' = [c EXCEPT ![j] = Over(e)]
    BY EscrowSees
  <1>2. h[j] = Holder(job[j]) /\ d[j] = job[j].deliverable /\ c[j] = Over(job[j])
    BY DEF Over
  <1>3. /\ e.deliverable = job[j].deliverable => d' = d
        /\ ~Over(e) /\ ~Over(job[j]) => c' = c
        /\ Holder(e) = Holder(job[j]) => h' = h
    <2>1. /\ [h EXCEPT ![j] = h[j]] = h
          /\ [d EXCEPT ![j] = d[j]] = d
          /\ [c EXCEPT ![j] = c[j]] = c
      OBVIOUS
    <2>2. e.deliverable = job[j].deliverable => d' = d
      BY <1>1, <1>2, <2>1
    <2>3. Holder(e) = Holder(job[j]) => h' = h
      BY <1>1, <1>2, <2>1
    <2>4. ASSUME ~Over(e), ~Over(job[j])
          PROVE  c' = c
      <3>1. Over(e) = c[j]
        BY <2>4, <1>2 DEF Over
      <3>2. QED
        BY <3>1, <1>1, <2>1
    <2>5. QED
      BY <2>2, <2>3, <2>4
  <1> HIDE DEF h, d, c
  <1>4. WellFormed(j, job[j])
    BY DEF JobInv, StageTraced
  <1>5. CASE /\ Accepts(j, "JOB_FUND", "FOUNDER", Client[j], "OPEN", e, p)
             /\ e.status = "FUNDED"
    <2>1. job[j].deliverable = None /\ e.deliverable = None
          /\ job[j].status = "OPEN"
      BY <1>4, <1>5 DEF Accepts, WellFormed, StatusEvidence
    <2>2. Escrow!Use(j, "JOB_FUND", <<"FOUNDER", Client[j]>>, None)
      BY <1>5, EscrowUse
    <2>3. /\ ~c[j] /\ h[j] = "client"
          /\ h' = [h EXCEPT ![j] = "escrow"] /\ d' = d /\ c' = c
      BY <2>1, <1>1, <1>2, <1>3, <1>5 DEF Holder, Over
    <2>4. Escrow!Escrow(j)
      BY <2>2, <2>3 DEF Escrow!Escrow, Escrow!Open, h, d, c
    <2>5. QED
      BY <2>4 DEF Escrow!EscrowNext
  <1>6. CASE /\ Accepts(j, "JOB_SUBMIT", "PROVIDER", Provider[j], "FUNDED", e, p)
             /\ e.status = "SUBMITTED"
    <2>1. job[j].deliverable = None /\ e.deliverable # None
          /\ job[j].status = "FUNDED"
      BY <1>4, <1>6 DEF Accepts, WellFormed, StatusEvidence
    <2>2. /\ Escrow!Use(j, "JOB_SUBMIT", <<"PROVIDER", Provider[j]>>, e.deliverable)
          /\ e.deliverable \in {g.work : g \in {GrantOf(a) : a \in Approvals}} \ {None}
      BY <1>6, <2>1, EscrowUse
    <2>3. /\ ~c[j] /\ h[j] = "escrow" /\ d[j] = None
          /\ h' = h /\ d' = [d EXCEPT ![j] = e.deliverable] /\ c' = c
      BY <2>1, <1>1, <1>2, <1>3, <1>6 DEF Holder, Over
    <2>4. Escrow!DeliverWork(j)
      BY <2>2, <2>3 DEF Escrow!DeliverWork, Escrow!Open, h, d, c
    <2>5. QED
      BY <2>4 DEF Escrow!EscrowNext
  <1>7. CASE /\ Accepts(j, "JOB_EVALUATE", "EVALUATOR", Evaluator[j], "SUBMITTED", e, p)
             /\ e.status = "COMPLETED"
             /\ e.deliverable = job[j].deliverable
    <2>1. job[j].deliverable # None /\ job[j].status = "SUBMITTED"
      BY <1>4, <1>7 DEF Accepts, WellFormed, StatusEvidence
    <2>2. Escrow!Use(j, "JOB_EVALUATE", <<"EVALUATOR", Evaluator[j]>>, d[j])
      BY <1>7, <1>2, EscrowUse
    <2>3. /\ ~c[j] /\ h[j] = "escrow" /\ d[j] # None
          /\ h' = [h EXCEPT ![j] = "provider"] /\ d' = d
          /\ c' = [c EXCEPT ![j] = TRUE]
      BY <2>1, <1>1, <1>2, <1>3, <1>7 DEF Holder, Over
    <2>4. Escrow!Pay(j)
      BY <2>2, <2>3 DEF Escrow!Pay, Escrow!Open, Escrow!Close, h, d, c
    <2>5. QED
      BY <2>4 DEF Escrow!EscrowNext
  <1>8. CASE /\ Accepts(j, "JOB_REJECT", "FOUNDER", Client[j], "OPEN", e, p)
             /\ e.status = "REJECTED"
             /\ e.deliverable = job[j].deliverable
    <2>1. e.deliverable = None /\ job[j].status = "OPEN"
      BY <1>4, <1>8 DEF Accepts, WellFormed, StatusEvidence
    <2>2. Escrow!Use(j, "JOB_REJECT", <<"FOUNDER", Client[j]>>, None)
      BY <1>8, <2>1, EscrowUse
    <2>3. /\ ~c[j] /\ h[j] = "client"
          /\ h' = [h EXCEPT ![j] = "client"] /\ d' = d
          /\ c' = [c EXCEPT ![j] = TRUE]
      BY <2>1, <1>1, <1>2, <1>3, <1>8 DEF Holder, Over
    <2>4. Escrow!Cancel(j)
      BY <2>2, <2>3 DEF Escrow!Cancel, Escrow!Open, Escrow!Close, h, d, c
    <2>5. QED
      BY <2>4 DEF Escrow!EscrowNext
  <1>9. CASE /\ \/ Accepts(j, "JOB_REJECT", "EVALUATOR", Evaluator[j], job[j].status, e, p)
                \/ Accepts(j, "REFUND", "FOUNDER", Client[j], job[j].status, e, p)
             /\ job[j].status \in {"FUNDED", "SUBMITTED"}
             /\ e.status \in {"REJECTED", "EXPIRED"}
             /\ e.deliverable = job[j].deliverable
    <2>1. \/ Escrow!Use(j, "JOB_REJECT", <<"EVALUATOR", Evaluator[j]>>, d[j])
          \/ Escrow!Use(j, "REFUND", <<"FOUNDER", Client[j]>>, d[j])
      BY <1>9, <1>2, EscrowUse
    <2>2. /\ ~c[j] /\ h[j] = "escrow"
          /\ h' = [h EXCEPT ![j] = "client"] /\ d' = d
          /\ c' = [c EXCEPT ![j] = TRUE]
      BY <1>1, <1>2, <1>3, <1>9 DEF Holder, Over
    <2>3. Escrow!Return(j)
      BY <2>1, <2>2 DEF Escrow!Return, Escrow!Open, Escrow!Close, h, d, c
    <2>4. QED
      BY <2>3 DEF Escrow!EscrowNext
  <1>10. QED
    <2>1. \A op, role, actor, from :
            Accepts(j, op, role, actor, from, e, p) => job[j].status = from
      BY DEF Accepts
    <2>2. QED
      BY <2>1, <1>5, <1>6, <1>7, <1>8, <1>9 DEF Moves

(* However the records of approvals are kept and presented, the jobs are   *)
(* an escrow between their three parties.                                  *)
THEOREM JobsKeepEscrow == JobSpec => EscrowKept
  <1>1. JobInit => Escrow!EscrowInit
    <2> SUFFICES ASSUME JobInit PROVE Escrow!EscrowInit
      OBVIOUS
    <2>1. \A j \in Jobs :
            /\ job[j].status = "OPEN" /\ job[j].deliverable = None
            /\ Holder(job[j]) = "client"
      BY DEF JobInit, JobStart, Holder
    <2>2. accepted = {}
      BY DEF JobInit, JobStart
    <2>3. /\ [j \in Jobs |-> Holder(job[j])] = [j \in Jobs |-> "client"]
          /\ [j \in Jobs |-> job[j].deliverable] = [j \in Jobs |-> None]
          /\ {GrantOf(x.approval) : x \in accepted} = {}
      BY <2>1, <2>2
    <2>4. \A j \in Jobs : (job[j].status \in {"COMPLETED", "REJECTED", "EXPIRED"}) = FALSE
      BY <2>1
    <2>5. [j \in Jobs |-> job[j].status \in {"COMPLETED", "REJECTED", "EXPIRED"}] =
            [j \in Jobs |-> FALSE]
      BY <2>4, Zenon
    <2>6. QED
      BY <2>3, <2>5 DEF Escrow!EscrowInit
  <1>2. ASSUME JobInv, [JobNext]_<<jobVars, consumed>>
        PROVE  [Escrow!EscrowNext]_(Escrow!escrowVars)
    <2>1. ASSUME NEW j \in Jobs, NEW at \in Times, JobStep(j, at)
          PROVE  Escrow!EscrowNext
      <3>1. PICK p, e : Moves(j, e, p)
        BY <1>2, <2>1, JobTransition DEF JobInv
      <3>2. QED
        BY <1>2, <3>1, EscrowStep
    <2>2. CASE UNCHANGED jobVars
      BY <2>2 DEF jobVars, Escrow!escrowVars
    <2>3. QED
      BY <1>2, <2>1, <2>2 DEF JobNext
  <1>3. QED
    BY <1>1, <1>2, JobInitInv, JobNextInv, PTL DEF JobSpec, EscrowKept, Escrow!EscrowSpec

-----------------------------------------------------------------------------
(* The composition                                                         *)

LEMMA NextSplit ==
  ASSUME Next
  PROVE  \/ /\ UNCHANGED <<jobVars, consumed>>
            /\ \/ \E r \in Releases : ReleaseStep(r)
               \/ \E w \in Records, h \in Hashes : LearnHash(w, h)
         \/ JobNext /\ UNCHANGED releaseVars
  <1>1. ASSUME NEW r \in Releases, ReleaseStep(r)
        PROVE  UNCHANGED <<jobVars, consumed>>
    <2>1. ASSUME NEW to \in States, Review(r, to)
          PROVE  UNCHANGED <<jobVars, consumed>>
      BY <2>1 DEF Review
    <2>2. ASSUME NEW a, NEW to, NEW at, Decide(r, a, to, at)
          PROVE  UNCHANGED <<jobVars, consumed>>
      BY <2>2 DEF Decide
    <2>3. ASSUME NEW w, NEW a, NEW b, NEW op, Prepare(r, w, a, b, op)
          PROVE  UNCHANGED <<jobVars, consumed>>
      BY <2>3 DEF Prepare
    <2>4. ASSUME NEW w, NEW a, NEW b, NEW s, NEW at, Submit(r, w, a, b, s, at)
          PROVE  UNCHANGED <<jobVars, consumed>>
      BY <2>4 DEF Submit
    <2>5. ASSUME NEW w, Confirm(r, w) \/ FailPrepared(r, w) \/ FailSubmitted(r, w)
          PROVE  UNCHANGED <<jobVars, consumed>>
      BY <2>5 DEF Confirm, FailPrepared, FailSubmitted
    <2>6. ASSUME NEW w, NEW st, Reconcile(r, w, st)
          PROVE  UNCHANGED <<jobVars, consumed>>
      BY <2>6 DEF Reconcile
    <2>7. QED
      BY <1>1, <2>1, <2>2, <2>3, <2>4, <2>5, <2>6 DEF ReleaseStep
  <1>2. ASSUME NEW w, NEW h, LearnHash(w, h)
        PROVE  UNCHANGED <<jobVars, consumed>>
    BY <1>2 DEF LearnHash
  <1>3. QED
    BY <1>1, <1>2 DEF Next

(* Nothing that happens to a release touches a job: what is shown of the   *)
(* jobs alone holds of jobs and releases together.                         *)
THEOREM ReleasesLeaveJobs == Spec => JobSpec
  <1>1. Init => JobInit
    BY DEF Init
  <1>2. [Next]_<<jobVars, releaseVars, consumed>> => [JobNext]_<<jobVars, consumed>>
    BY NextSplit
  <1>3. QED
    BY <1>1, <1>2, PTL DEF Spec, JobSpec

-----------------------------------------------------------------------------
(* Releases                                                                *)

RecordStates == {"PREPARED", "SUBMITTED", "CONFIRMED", "FAILED", "RECONCILED"}

InFlight == {"SUBMITTED", "CONFIRMED", "RECONCILED"}

(* A release has at most one record, which is in the release's state.      *)
RecordFollows ==
  /\ \A w \in Records : tx[w] # None => release[tx[w].release].state = tx[w].state
  /\ \A v, w \in Records :
       tx[v] # None /\ tx[w] # None /\ tx[v].release = tx[w].release => v = w

(* The write on a job that is over, with a hash.                           *)
EndedJob(op, hash) ==
  \E j \in Jobs :
    /\ Over(job[j])
    /\ job[j].transaction = [op |-> op, hash |-> hash, status |-> "CONFIRMED"]

(* What an accepted submission was checked for, and what became of it.     *)
Trace(x) ==
  /\ tx[x.record] # None
  /\ consumed[x.binding] # None
  /\ GateChecks(x.release, x.record, x.approval, x.binding, consumed[x.binding])
  /\ x.approval.intent.op \in ToDestination => x.approval.actor = Founder
  /\ x.submission.transaction.hash # None =>
       tx[x.record].hash = x.submission.transaction.hash
  /\ /\ release[x.release].state = "RECONCILED"
     /\ x.approval.intent.op \in ThroughJob
     => EndedJob(x.approval.intent.op, tx[x.record].hash)

ExecutedTraced ==
  \A x \in executed :
    /\ release[x.release].state \in InFlight \cup {"FAILED"}
    /\ Trace(x)
    /\ \A y \in executed : y.release = x.release => y = x

InFlightExecuted ==
  \A r \in Releases : release[r].state \in InFlight => \E x \in executed : x.release = r

ReleaseInv ==
  /\ JobInv
  /\ ReleaseTypeOK
  /\ RecordFollows
  /\ ExecutedTraced
  /\ InFlightExecuted

LEMMA SettledFromInv == ASSUME ReleaseInv PROVE SettledAsAuthorized
  <1> SUFFICES ASSUME NEW r \in Releases, release[r].state \in InFlight
               PROVE  \E x \in executed :
                        LET i == x.approval.intent
                            h == x.submission.transaction.hash
                            t == tx[x.record]
                        IN  /\ x.release = r
                            /\ \A y \in executed : y.release = r => y = x
                            /\ GateChecks(r, x.record, x.approval, x.binding,
                                          consumed[x.binding])
                            /\ i.op \in ToDestination => x.approval.actor = Founder
                            /\ t.state = release[r].state
                            /\ h # None => t.hash = h
                            /\ release[r].state = "RECONCILED" /\ i.op \in ThroughJob =>
                                 \E j \in Jobs :
                                   job[j].transaction =
                                     [op |-> i.op, hash |-> t.hash, status |-> "CONFIRMED"]
    BY DEF SettledAsAuthorized, InFlight
  <1>1. PICK x \in executed : x.release = r
    BY DEF ReleaseInv, InFlightExecuted
  <1>2. Trace(x) /\ \A y \in executed : y.release = r => y = x
    BY <1>1 DEF ReleaseInv, ExecutedTraced
  <1>3. x.record \in Records
    BY DEF ReleaseInv, ReleaseTypeOK, Execution
  <1>4. tx[x.record].release = r
    BY <1>1, <1>2 DEF Trace, GateChecks
  <1>5. tx[x.record].state = release[r].state
    BY <1>2, <1>3, <1>4 DEF ReleaseInv, RecordFollows, Trace
  <1>6. /\ GateChecks(r, x.record, x.approval, x.binding, consumed[x.binding])
        /\ x.approval.intent.op \in ToDestination => x.approval.actor = Founder
        /\ x.submission.transaction.hash # None =>
             tx[x.record].hash = x.submission.transaction.hash
    BY <1>1, <1>2 DEF Trace
  <1>7. release[r].state = "RECONCILED" /\ x.approval.intent.op \in ThroughJob =>
          \E j \in Jobs : job[j].transaction =
            [op |-> x.approval.intent.op, hash |-> tx[x.record].hash,
             status |-> "CONFIRMED"]
    BY <1>1, <1>2 DEF Trace, EndedJob
  <1>8. QED
    BY <1>1, <1>2, <1>5, <1>6, <1>7

-----------------------------------------------------------------------------
(* What the checks of the gate are about stays as it was                   *)

LEMMA GateKept ==
  ASSUME NEW r, NEW w, NEW a, NEW b, NEW n,
         GateChecks(r, w, a, b, n),
         release'[r].approval = release[r].approval,
         tx'[w].approval = tx[w].approval, tx'[w].binding = tx[w].binding,
         tx'[w].release = tx[w].release, tx'[w].op = tx[w].op
  PROVE  GateChecks(r, w, a, b, n)'
  BY DEF GateChecks

LEMMA TraceKept ==
  ASSUME NEW x, Trace(x), UNCHANGED <<job, consumed>>,
         tx'[x.record] = tx[x.record], release'[x.release] = release[x.release]
  PROVE  Trace(x)'
  <1>1. job' = job /\ consumed' = consumed
    OBVIOUS
  <1>2. GateChecks(x.release, x.record, x.approval, x.binding, consumed[x.binding])'
    <2> DEFINE n == consumed[x.binding]
    <2>1. n' = n
      BY <1>1
    <2>2. GateChecks(x.release, x.record, x.approval, x.binding, n)
      BY DEF Trace
    <2> HIDE DEF n
    <2>3. GateChecks(x.release, x.record, x.approval, x.binding, n)'
      BY <2>1, <2>2 DEF GateChecks
    <2>4. QED
      BY <2>3 DEF n
  <1>3. EndedJob(x.approval.intent.op, tx[x.record].hash) =>
          EndedJob(x.approval.intent.op, tx[x.record].hash)'
    BY <1>1 DEF EndedJob, Over
  <1>4. QED
    BY <1>1, <1>2, <1>3 DEF Trace

(* A step on a release that has no record yet.                             *)
LEMMA BeforePreparation ==
  ASSUME ReleaseInv, NEW r \in Releases, NEW e \in Release,
         release[r].state \notin RecordStates, e.state \notin RecordStates,
         release' = [release EXCEPT ![r] = e],
         UNCHANGED <<tx, settlement, executed, consumed, jobVars>>
  PROVE  ReleaseInv'
  <1>1. /\ tx' = tx /\ settlement' = settlement /\ executed' = executed
        /\ consumed' = consumed /\ job' = job
        /\ release \in [Releases -> Release] /\ tx \in [Records -> TransactionRecord \cup {None}]
    BY DEF jobVars, ReleaseInv, ReleaseTypeOK
  <1>2. /\ release'[r] = e
        /\ \A q \in Releases : q # r => release'[q] = release[q]
    BY <1>1
  <1>3. JobInv'
    BY JobUnchanged DEF ReleaseInv, ReleaseTypeOK, JobInv, JobTypeOK, ConsumptionTypeOK
  <1>4. ReleaseTypeOK'
    BY <1>1, <1>3 DEF ReleaseInv, ReleaseTypeOK, JobInv
  <1>5. \A w \in Records :
          tx[w] # None => tx[w].release \in Releases /\ tx[w].release # r
    BY <1>1 DEF ReleaseInv, RecordFollows, TransactionRecord, RecordStates
  <1>6. RecordFollows'
    BY <1>1, <1>2, <1>5 DEF ReleaseInv, RecordFollows
  <1>7. \A x \in executed : x.release \in Releases /\ x.release # r
    BY DEF ReleaseInv, ReleaseTypeOK, Execution, ExecutedTraced, InFlight, RecordStates
  <1>8. ExecutedTraced'
    <2>1. ASSUME NEW x \in executed
          PROVE  Trace(x)'
      BY <1>1, <1>2, <1>7, TraceKept DEF ReleaseInv, ExecutedTraced
    <2>2. QED
      BY <2>1, <1>1, <1>2, <1>7 DEF ReleaseInv, ExecutedTraced
  <1>9. InFlightExecuted'
    BY <1>1, <1>2 DEF ReleaseInv, InFlightExecuted, InFlight, RecordStates
  <1>10. QED
    BY <1>3, <1>4, <1>6, <1>8, <1>9 DEF ReleaseInv

LEMMA GoesTo ==
  ASSUME release \in [Releases -> Release], NEW r \in Releases, NEW to, Goes(r, to)
  PROVE  release' = [release EXCEPT ![r] =
                       [state |-> to, approval |-> release[r].approval]]
  <1>1. release[r] \in [state : States, approval : Nat \cup {None}]
    BY DEF Release
  <1>2. [release[r] EXCEPT !.state = to] = [state |-> to, approval |-> release[r].approval]
    BY <1>1
  <1>3. release' = [release EXCEPT ![r] = [release[r] EXCEPT !.state = to]]
    BY DEF Goes
  <1>4. QED
    BY <1>2, <1>3

LEMMA ReviewInv ==
  ASSUME ReleaseInv, NEW r \in Releases, NEW to \in States, Review(r, to)
  PROVE  ReleaseInv'
  <1> DEFINE e == [state |-> to, approval |-> release[r].approval]
  <1>1. release \in [Releases -> Release]
    BY DEF ReleaseInv, ReleaseTypeOK
  <1>2. release[r].state \notin RecordStates /\ to \notin RecordStates /\ to # "APPROVED"
    BY DEF Review, Reviewed, RecordStates
  <1>3. e \in Release /\ e.state = to
    BY <1>1, <1>2 DEF Release, RecordStates
  <1>4. release' = [release EXCEPT ![r] = e]
    BY <1>1, GoesTo DEF Review
  <1> HIDE DEF e
  <1>5. QED
    BY <1>2, <1>3, <1>4, BeforePreparation DEF Review

LEMMA DecideInv ==
  ASSUME ReleaseInv, NEW r \in Releases, NEW a \in Approvals, NEW to, NEW at,
         Decide(r, a, to, at)
  PROVE  ReleaseInv'
  <1> DEFINE e == [state |-> to, approval |-> a.id]
  <1>1. a.id \in Nat /\ a.id # None
    BY RecordsAssumption, NamesAssumption DEF Approval
  <1>2. e \in Release /\ e.state \notin RecordStates
    BY <1>1 DEF Decide, Release, States, RecordStates
  <1>3. release[r].state \notin RecordStates /\ release' = [release EXCEPT ![r] = e]
    BY DEF Decide, At, RecordStates
  <1> HIDE DEF e
  <1>4. QED
    BY <1>2, <1>3, BeforePreparation DEF Decide

LEMMA PrepareInv ==
  ASSUME ReleaseInv, NEW r \in Releases, NEW w \in Records, NEW a \in Approvals,
         NEW b \in Bindings, NEW op, Prepare(r, w, a, b, op)
  PROVE  ReleaseInv'
  <1> DEFINE e == [state |-> "PREPARED", approval |-> a.id]
             t == [release |-> r, approval |-> a.id, binding |-> b.id, op |-> op,
                   hash |-> None, state |-> "PREPARED"]
  <1>1. a.id \in Nat /\ a.id # None /\ b.id \in Nat
    BY RecordsAssumption, NamesAssumption DEF Approval, Binding
  <1>2. e \in Release /\ t \in TransactionRecord /\ t # None
        /\ e.state = "PREPARED" /\ t.state = "PREPARED" /\ t.release = r
    <2>1. e \in Release
      BY <1>1 DEF Release, States
    <2>2. t \in TransactionRecord
      BY <1>1 DEF TransactionRecord, Prepare
    <2>3. t # None
      BY <2>2, NoRecordAssumption
    <2>4. QED
      BY <2>1, <2>2, <2>3
  <1>3. /\ release' = [release EXCEPT ![r] = e] /\ tx' = [tx EXCEPT ![w] = t]
        /\ tx[w] = None /\ release[r].state = "APPROVED"
        /\ settlement' = settlement /\ executed' = executed
        /\ consumed' = consumed /\ job' = job /\ UNCHANGED jobVars
        /\ release \in [Releases -> Release] /\ tx \in [Records -> TransactionRecord \cup {None}]
    BY DEF Prepare, At, jobVars, ReleaseInv, ReleaseTypeOK
  <1> HIDE DEF e, t
  <1>4. /\ release'[r] = e /\ \A q \in Releases : q # r => release'[q] = release[q]
        /\ tx'[w] = t /\ \A v \in Records : v # w => tx'[v] = tx[v]
    BY <1>3
  <1>5. JobInv'
    BY <1>3, JobUnchanged DEF ReleaseInv, ReleaseTypeOK, JobInv, JobTypeOK, ConsumptionTypeOK
  <1>6. ReleaseTypeOK'
    BY <1>2, <1>3, <1>5 DEF ReleaseInv, ReleaseTypeOK, JobInv
  <1>7. \A v \in Records :
          tx[v] # None => tx[v].release \in Releases /\ tx[v].release # r
    BY <1>3 DEF ReleaseInv, RecordFollows, TransactionRecord
  <1>8. RecordFollows'
    <2>1. \A v \in Records : tx'[v] # None => release'[tx'[v].release].state = tx'[v].state
      BY <1>2, <1>4, <1>7 DEF ReleaseInv, RecordFollows
    <2>2. \A u, v \in Records :
            tx'[u] # None /\ tx'[v] # None /\ tx'[u].release = tx'[v].release => u = v
      BY <1>2, <1>4, <1>7 DEF ReleaseInv, RecordFollows
    <2>3. QED
      BY <2>1, <2>2 DEF RecordFollows
  <1>9. \A x \in executed : x.release \in Releases /\ x.release # r
                            /\ x.record \in Records /\ x.record # w
    BY <1>3 DEF ReleaseInv, ReleaseTypeOK, Execution, ExecutedTraced, InFlight, Trace
  <1>10. ExecutedTraced'
    <2>1. ASSUME NEW x \in executed
          PROVE  Trace(x)'
      BY <1>3, <1>4, <1>9, TraceKept DEF ReleaseInv, ExecutedTraced
    <2>2. QED
      BY <2>1, <1>3, <1>4, <1>9 DEF ReleaseInv, ExecutedTraced
  <1>11. InFlightExecuted'
    BY <1>2, <1>3, <1>4 DEF ReleaseInv, InFlightExecuted, InFlight
  <1>12. QED
    BY <1>5, <1>6, <1>8, <1>10, <1>11 DEF ReleaseInv

-----------------------------------------------------------------------------
(* A release and its record move on together                               *)

Moved(w, to, hash) ==
  [release |-> tx[w].release, approval |-> tx[w].approval, binding |-> tx[w].binding,
   op |-> tx[w].op, hash |-> hash, state |-> to]

Advances(r, w, from, to, hash) ==
  /\ release[r].state = from
  /\ RecordIn(w, r, from)
  /\ release' = [release EXCEPT ![r] = [state |-> to, approval |-> release[r].approval]]
  /\ tx' = [tx EXCEPT ![w] = Moved(w, to, hash)]

LEMMA AdvanceFacts ==
  ASSUME ReleaseInv, NEW r \in Releases, NEW w \in Records,
         NEW from \in RecordStates, NEW to \in RecordStates \ {"PREPARED"},
         NEW hash \in Hashes \cup {None}, to \in {"CONFIRMED", "RECONCILED"} => hash # None,
         Advances(r, w, from, to, hash)
  PROVE  /\ release' \in [Releases -> Release]
         /\ tx' \in [Records -> TransactionRecord \cup {None}]
         /\ release'[r].state = to
         /\ release'[r].approval = release[r].approval
         /\ \A q \in Releases : q # r => release'[q] = release[q]
         /\ tx'[w] # None /\ tx'[w].hash = hash /\ tx'[w].state = to
         /\ tx'[w].approval = tx[w].approval /\ tx'[w].binding = tx[w].binding
         /\ tx'[w].release = tx[w].release /\ tx'[w].op = tx[w].op
         /\ \A v \in Records : v # w => tx'[v] = tx[v]
         /\ tx[w] # None /\ tx[w].release = r
         /\ RecordFollows'
  <1> DEFINE t == Moved(w, to, hash)
             e == [state |-> to, approval |-> release[r].approval]
  <1>1. /\ release \in [Releases -> Release]
        /\ tx \in [Records -> TransactionRecord \cup {None}]
        /\ release[r].state = from
        /\ tx[w] # None /\ tx[w].release = r /\ tx[w].state = from
        /\ tx[w] \in TransactionRecord
        /\ release' = [release EXCEPT ![r] = e]
        /\ tx' = [tx EXCEPT ![w] = t]
    BY DEF ReleaseInv, ReleaseTypeOK, Advances, RecordIn
  <1>2. t \in TransactionRecord /\ t # None
    <2>1. t \in TransactionRecord
      BY <1>1 DEF TransactionRecord, Moved, RecordStates
    <2>2. QED
      BY <2>1, NoRecordAssumption
  <1>3. e \in Release
    <2>1. release[r].approval \in Nat \cup {None} /\ release[r].approval # None
      BY <1>1 DEF Release, RecordStates
    <2>2. QED
      BY <2>1 DEF Release, RecordStates, States
  <1>4. /\ t.hash = hash /\ t.state = to /\ t.approval = tx[w].approval
        /\ t.binding = tx[w].binding /\ t.release = tx[w].release /\ t.op = tx[w].op
        /\ e.state = to /\ e.approval = release[r].approval
    BY DEF Moved
  <1> HIDE DEF e, t
  <1>5. /\ release'[r] = e /\ \A q \in Releases : q # r => release'[q] = release[q]
        /\ tx'[w] = t /\ \A v \in Records : v # w => tx'[v] = tx[v]
    BY <1>1
  <1>6. release' \in [Releases -> Release] /\ tx' \in [Records -> TransactionRecord \cup {None}]
    BY <1>1, <1>2, <1>3
  <1>7. \A v \in Records : tx[v] # None => tx[v].release \in Releases
    BY <1>1 DEF TransactionRecord
  <1>8. RecordFollows'
    <2>1. /\ \A v \in Records : tx[v] # None => release[tx[v].release].state = tx[v].state
          /\ \A u, v \in Records :
               tx[u] # None /\ tx[v] # None /\ tx[u].release = tx[v].release => u = v
      BY DEF ReleaseInv, RecordFollows
    <2>2. \A v \in Records : tx'[v] # None => release'[tx'[v].release].state = tx'[v].state
      BY <2>1, <1>1, <1>4, <1>5, <1>7
    <2>3. \A u, v \in Records :
            tx'[u] # None /\ tx'[v] # None /\ tx'[u].release = tx'[v].release => u = v
      BY <2>1, <1>1, <1>4, <1>5
    <2>4. QED
      BY <2>2, <2>3 DEF RecordFollows
  <1>9. QED
    BY <1>1, <1>2, <1>4, <1>5, <1>6, <1>8

(* A step that follows the submission, or gives a release up before it.    *)
LEMMA AdvanceInv ==
  ASSUME ReleaseInv, NEW r \in Releases, NEW w \in Records,
         NEW from \in RecordStates, NEW to \in RecordStates \ {"PREPARED"},
         NEW hash \in Hashes \cup {None}, to \in {"CONFIRMED", "RECONCILED"} => hash # None,
         Advances(r, w, from, to, hash),
         tx[w].hash # None => hash = tx[w].hash,
         to = "FAILED" \/ from \in InFlight,
         to = "RECONCILED" /\ tx[w].op \in ThroughJob => EndedJob(tx[w].op, hash),
         settlement' \in [Releases -> Settlement \cup {None}],
         UNCHANGED <<executed, consumed, jobVars>>
  PROVE  ReleaseInv'
  <1>1. /\ executed' = executed /\ consumed' = consumed /\ job' = job
    BY DEF jobVars
  <1>2. /\ release' \in [Releases -> Release]
        /\ tx' \in [Records -> TransactionRecord \cup {None}]
        /\ release'[r].state = to
        /\ release'[r].approval = release[r].approval
        /\ \A q \in Releases : q # r => release'[q] = release[q]
        /\ tx'[w] # None /\ tx'[w].hash = hash /\ tx'[w].state = to
        /\ tx'[w].approval = tx[w].approval /\ tx'[w].binding = tx[w].binding
        /\ tx'[w].release = tx[w].release /\ tx'[w].op = tx[w].op
        /\ \A v \in Records : v # w => tx'[v] = tx[v]
        /\ tx[w] # None /\ tx[w].release = r
        /\ RecordFollows'
    BY AdvanceFacts
  <1>3. JobInv'
    BY <1>1, JobUnchanged DEF ReleaseInv, ReleaseTypeOK, JobInv, JobTypeOK, ConsumptionTypeOK
  <1>4. ReleaseTypeOK'
    BY <1>1, <1>2, <1>3 DEF ReleaseInv, ReleaseTypeOK, JobInv
  <1>5. ASSUME NEW x \in executed
        PROVE  /\ x.release \in Releases /\ x.record \in Records
               /\ Trace(x)
               /\ release[x.release].state \in InFlight \cup {"FAILED"}
               /\ tx[x.record].release = x.release /\ tx[x.record].op = x.approval.intent.op
               /\ x.release = r <=> x.record = w
    <2>1. /\ x.release \in Releases /\ x.record \in Records /\ Trace(x)
          /\ release[x.release].state \in InFlight \cup {"FAILED"}
      BY DEF ReleaseInv, ReleaseTypeOK, Execution, ExecutedTraced
    <2>2. /\ tx[x.record] # None /\ tx[x.record].release = x.release
          /\ tx[x.record].op = x.approval.intent.op
      BY <2>1 DEF Trace, GateChecks
    <2>3. x.release = r <=> x.record = w
      BY <1>2, <2>1, <2>2 DEF ReleaseInv, RecordFollows
    <2>4. QED
      BY <2>1, <2>2, <2>3
  <1>6. ASSUME NEW x \in executed, x.release = r
        PROVE  Trace(x)'
    <2> DEFINE n == consumed[x.binding]
    <2>1. x.record = w /\ Trace(x)
      BY <1>5, <1>6
    <2>2. n' = n /\ n # None
      BY <2>1, <1>1 DEF Trace
    <2>3. GateChecks(r, w, x.approval, x.binding, n)
      BY <2>1, <1>6 DEF Trace
    <2> HIDE DEF n
    <2>4. GateChecks(r, w, x.approval, x.binding, n)'
      BY <2>2, <2>3, <1>2 DEF GateChecks
    <2>5. x.submission.transaction.hash # None =>
            tx'[w].hash = x.submission.transaction.hash
      BY <2>1, <1>2 DEF Trace
    <2>6. release'[r].state = "RECONCILED" /\ x.approval.intent.op \in ThroughJob =>
            EndedJob(x.approval.intent.op, tx[w].hash)'
      <3>1. tx[w].op = x.approval.intent.op
        BY <1>5, <2>1
      <3>2. EndedJob(x.approval.intent.op, hash) => EndedJob(x.approval.intent.op, tx[w].hash)'
        BY <1>1, <1>2 DEF EndedJob, Over
      <3>3. QED
        BY <3>1, <3>2, <1>2
    <2>7. x.approval.intent.op \in ToDestination => x.approval.actor = Founder
      BY <2>1 DEF Trace
    <2>8. (tx'[w] # None /\ n' # None)
      BY <1>2, <2>2
    <2>9. QED
      BY <2>1, <2>4, <2>5, <2>6, <2>7, <2>8, <1>6 DEF Trace, n
  <1>7. ExecutedTraced'
    <2>1. ASSUME NEW x \in executed
          PROVE  Trace(x)'
      <3>1. CASE x.release = r
        BY <3>1, <1>6
      <3>2. CASE x.release # r
        <4>1. tx'[x.record] = tx[x.record] /\ release'[x.release] = release[x.release]
          BY <3>2, <1>2, <1>5
        <4>2. QED
          BY <4>1, <1>1, <1>5, TraceKept
      <3>3. QED
        BY <3>1, <3>2
    <2>2. ASSUME NEW x \in executed
          PROVE  release'[x.release].state \in InFlight \cup {"FAILED"}
      BY <1>2, <1>5 DEF InFlight, RecordStates
    <2>3. QED
      BY <2>1, <2>2, <1>1 DEF ReleaseInv, ExecutedTraced
  <1>8. InFlightExecuted'
    <2>1. release[r].state = from
      BY DEF Advances
    <2>2. QED
      BY <2>1, <1>1, <1>2 DEF ReleaseInv, InFlightExecuted, InFlight
  <1>9. QED
    BY <1>2, <1>3, <1>4, <1>7, <1>8 DEF ReleaseInv

LEMMA RecordGoesTo ==
  ASSUME tx \in [Records -> TransactionRecord \cup {None}], NEW w \in Records,
         tx[w] # None, NEW to, RecordGoes(w, to)
  PROVE  tx' = [tx EXCEPT ![w] = Moved(w, to, tx[w].hash)]
  <1>1. tx[w] \in [release : Releases, approval : Nat, binding : Nat, op : Executable,
                   hash : Hashes \cup {None}, state : RecordStates]
    BY DEF TransactionRecord, RecordStates
  <1>2. [tx[w] EXCEPT !.state = to] = Moved(w, to, tx[w].hash)
    BY <1>1 DEF Moved
  <1>3. tx' = [tx EXCEPT ![w] = [tx[w] EXCEPT !.state = to]]
    BY DEF RecordGoes
  <1>4. QED
    BY <1>2, <1>3

LEMMA GoTogether ==
  ASSUME ReleaseInv, NEW r \in Releases, NEW w \in Records, NEW from, NEW to,
         At(r, from), RecordIn(w, r, from), Goes(r, to), RecordGoes(w, to)
  PROVE  Advances(r, w, from, to, tx[w].hash)
  <1>1. /\ release \in [Releases -> Release]
        /\ tx \in [Records -> TransactionRecord \cup {None}] /\ tx[w] # None
    BY DEF ReleaseInv, ReleaseTypeOK, RecordIn
  <1>2. release' = [release EXCEPT ![r] = [state |-> to, approval |-> release[r].approval]]
    BY <1>1, GoesTo
  <1>3. tx' = [tx EXCEPT ![w] = Moved(w, to, tx[w].hash)]
    BY <1>1, RecordGoesTo
  <1>4. QED
    BY <1>2, <1>3 DEF Advances, At

LEMMA ConcludeInv ==
  ASSUME ReleaseInv, NEW r \in Releases, NEW w \in Records,
         \/ Confirm(r, w) \/ FailPrepared(r, w) \/ FailSubmitted(r, w)
         \/ \E st \in Settlement : Reconcile(r, w, st)
  PROVE  ReleaseInv'
  <1> DEFINE h == tx[w].hash
  <1>1. /\ settlement \in [Releases -> Settlement \cup {None}]
        /\ tx \in [Records -> TransactionRecord \cup {None}]
        /\ tx[w] # None => tx[w] \in TransactionRecord /\ h \in Hashes \cup {None}
    BY DEF ReleaseInv, ReleaseTypeOK, TransactionRecord
  <1>s. {"SUBMITTED", "CONFIRMED"} \subseteq InFlight /\ InFlight \subseteq RecordStates
        /\ {"SUBMITTED", "CONFIRMED", "FAILED", "RECONCILED"}
           \subseteq RecordStates \ {"PREPARED"}
        /\ "PREPARED" \in RecordStates
    BY DEF InFlight, RecordStates
  <1>2. CASE Confirm(r, w)
    <2>1. Advances(r, w, "SUBMITTED", "CONFIRMED", h)
      BY <1>2, GoTogether DEF Confirm
    <2>2. tx[w] # None /\ h # None /\ UNCHANGED <<settlement, executed, consumed, jobVars>>
      BY <1>2 DEF Confirm, RecordIn
    <2> HIDE DEF h
    <2>3. QED
      BY <1>1, <1>s, <2>1, <2>2, AdvanceInv DEF h
  <1>3. CASE FailPrepared(r, w)
    <2>1. Advances(r, w, "PREPARED", "FAILED", h)
      BY <1>3, GoTogether DEF FailPrepared
    <2>2. tx[w] # None /\ UNCHANGED <<settlement, executed, consumed, jobVars>>
      BY <1>3 DEF FailPrepared, RecordIn
    <2>3. QED
      BY <1>1, <1>s, <2>1, <2>2, AdvanceInv
  <1>4. CASE FailSubmitted(r, w)
    <2>1. Advances(r, w, "SUBMITTED", "FAILED", h)
      BY <1>4, GoTogether DEF FailSubmitted
    <2>2. tx[w] # None /\ UNCHANGED <<settlement, executed, consumed, jobVars>>
      BY <1>4 DEF FailSubmitted, RecordIn
    <2>3. QED
      BY <1>1, <1>s, <2>1, <2>2, AdvanceInv
  <1>5. ASSUME NEW st \in Settlement, Reconcile(r, w, st)
        PROVE  ReleaseInv'
    <2>1. Advances(r, w, "CONFIRMED", "RECONCILED", h)
      BY <1>5, GoTogether DEF Reconcile
    <2>2. tx[w] # None /\ UNCHANGED <<executed, consumed, jobVars>>
      BY <1>5 DEF Reconcile, RecordIn
    <2>3. settlement' \in [Releases -> Settlement \cup {None}]
      BY <1>1, <1>5 DEF Reconcile
    <2>4. st.hash \in Hashes /\ st.hash = h /\ st.op = tx[w].op /\ h # None
      BY <1>5, NamesAssumption DEF Reconcile, Matches, Settlement
    <2>5. tx[w].op \in ThroughJob => EndedJob(tx[w].op, h)
      <3>1. SUFFICES ASSUME tx[w].op \in ThroughJob PROVE EndedJob(tx[w].op, h)
        OBVIOUS
      <3>2. st.job # None /\ SettledThroughJob(st, r)
        BY <3>1, <2>4, <1>5 DEF Reconcile, Settles, ToDestination, ThroughJob
      <3>3. st.job \in Jobs
        BY <3>2 DEF Settlement
      <3>4. /\ job[st.job].transaction =
                 [op |-> st.op, hash |-> st.hash, status |-> "CONFIRMED"]
            /\ Over(job[st.job])
        BY <3>2 DEF SettledThroughJob, Over
      <3>5. QED
        BY <3>3, <3>4, <2>4 DEF EndedJob
    <2> HIDE DEF h
    <2>6. QED
      BY <1>1, <1>s, <2>1, <2>2, <2>3, <2>4, <2>5, AdvanceInv DEF h
  <1>6. QED
    BY <1>2, <1>3, <1>4, <1>5

(* The transition checks nothing less than the gate does.                  *)
LEMMA SubmitPassesGate ==
  ASSUME ReleaseInv, NEW r \in Releases, NEW w \in Records, NEW a \in Approvals,
         NEW b \in Bindings, NEW s \in Submissions, NEW at \in Times,
         Submit(r, w, a, b, s, at)
  PROVE  /\ consumed[b] # None
         /\ GateChecks(r, w, a, b, consumed[b])
         /\ a.intent.op \in ToDestination => a.actor = Founder
  <1>1. /\ Authorizes(r, w, a, b) /\ InOrder(a, b, s.at, at)
        /\ tx[w] # None /\ tx[w].release = r
    BY DEF Submit, RecordIn
  <1>2. /\ b.approval = a.id /\ b.intent = a.intent /\ b.intent.record = w
        /\ consumed[b] # None /\ b.record = w
        /\ tx[w].approval = a.id /\ release[r].approval = a.id /\ tx[w].binding = b.id
        /\ b.intent.subject = r /\ b.intent.op = tx[w].op
        /\ b.intent.amount = ReleaseAmount[r]
        /\ ApprovedFor(a, b.intent, tx[w].op)
    BY <1>1 DEF Authorizes, BoundTo
  <1>3. tx[w].op \in Executable
    BY <1>1 DEF ReleaseInv, ReleaseTypeOK, TransactionRecord
  <1>4. a.decidedAt <= consumed[b] /\ consumed[b] < a.expiresAt
    <2>1. a.decidedAt <= consumed[b] /\ consumed[b] <= s.at /\ s.at <= at /\ at < a.expiresAt
      BY <1>1 DEF InOrder
    <2>2. consumed[b] \in Nat
      BY <1>2 DEF ReleaseInv, ReleaseTypeOK, JobTypeOK, ConsumptionTypeOK
    <2>3. s.at \in Nat /\ at \in Nat /\ a.expiresAt \in Nat
      BY RecordsAssumption DEF Submission, Approval
    <2> DEFINE c == consumed[b]
    <2> HIDE DEF c
    <2>4. c < a.expiresAt
      BY <2>1, <2>2, <2>3 DEF c
    <2>5. QED
      BY <2>1, <2>4 DEF c
  <1>5. GateChecks(r, w, a, b, consumed[b])
    BY <1>1, <1>2, <1>3, <1>4 DEF GateChecks, ApprovedFor, Executable, ToDestination, ThroughJob
  <1>6. a.intent.op \in ToDestination => a.actor = Founder
    BY <1>2 DEF ApprovedFor
  <1>7. QED
    BY <1>2, <1>5, <1>6

LEMMA SubmitInv ==
  ASSUME ReleaseInv, NEW r \in Releases, NEW w \in Records, NEW a \in Approvals,
         NEW b \in Bindings, NEW s \in Submissions, NEW at \in Times,
         Submit(r, w, a, b, s, at)
  PROVE  ReleaseInv'
  <1> DEFINE hash == s.transaction.hash
             n == [release |-> r, record |-> w, approval |-> a, binding |-> b,
                   submission |-> s]
  <1>1. /\ release \in [Releases -> Release]
        /\ tx \in [Records -> TransactionRecord \cup {None}]
        /\ executed \subseteq Execution
        /\ tx[w] # None /\ release[r].state = "PREPARED"
        /\ settlement' = settlement /\ consumed' = consumed /\ job' = job
        /\ UNCHANGED jobVars
        /\ executed' = executed \cup {n}
    BY DEF ReleaseInv, ReleaseTypeOK, Submit, RecordIn, At, jobVars
  <1>2. hash \in Hashes \cup {None}
    BY RecordsAssumption DEF Submission, Transaction
  <1>3. Advances(r, w, "PREPARED", "SUBMITTED", hash)
    <2>1. release' = [release EXCEPT ![r] =
                        [state |-> "SUBMITTED", approval |-> release[r].approval]]
      BY <1>1, GoesTo DEF Submit
    <2>2. tx' = [tx EXCEPT ![w] = [[tx[w] EXCEPT !.state = "SUBMITTED"] EXCEPT !.hash = hash]]
      BY <1>1 DEF Submit
    <2>3. tx[w] \in [release : Releases, approval : Nat, binding : Nat, op : Executable,
                     hash : Hashes \cup {None}, state : RecordStates]
      BY <1>1 DEF TransactionRecord, RecordStates
    <2> HIDE DEF hash
    <2>4. [[tx[w] EXCEPT !.state = "SUBMITTED"] EXCEPT !.hash = hash]
            = Moved(w, "SUBMITTED", hash)
      <3> DEFINE m == Moved(w, "SUBMITTED", tx[w].hash)
      <3>1. [tx[w] EXCEPT !.state = "SUBMITTED"] = m
        BY <2>3 DEF Moved
      <3>2. [m EXCEPT !.hash = hash] = Moved(w, "SUBMITTED", hash)
        BY DEF Moved
      <3>3. QED
        BY <3>1, <3>2
    <2>5. QED
      BY <2>1, <2>2, <2>4 DEF Advances, Submit, At
  <1>n. /\ n \in Execution /\ n.release = r /\ n.record = w /\ n.approval = a
        /\ n.binding = b /\ n.submission.transaction.hash = hash
    BY DEF Execution
  <1> HIDE DEF hash, n
  <1>4. /\ "PREPARED" \in RecordStates /\ "SUBMITTED" \in RecordStates \ {"PREPARED"}
    BY DEF RecordStates
  <1>5. /\ release' \in [Releases -> Release]
        /\ tx' \in [Records -> TransactionRecord \cup {None}]
        /\ release'[r].state = "SUBMITTED"
        /\ release'[r].approval = release[r].approval
        /\ \A q \in Releases : q # r => release'[q] = release[q]
        /\ tx'[w] # None /\ tx'[w].hash = hash
        /\ tx'[w].approval = tx[w].approval /\ tx'[w].binding = tx[w].binding
        /\ tx'[w].release = tx[w].release /\ tx'[w].op = tx[w].op
        /\ \A v \in Records : v # w => tx'[v] = tx[v]
        /\ tx[w].release = r
        /\ RecordFollows'
    BY <1>2, <1>3, <1>4, AdvanceFacts
  <1>6. JobInv'
    BY <1>1, JobUnchanged DEF ReleaseInv, ReleaseTypeOK, JobInv, JobTypeOK, ConsumptionTypeOK
  <1>7. ReleaseTypeOK'
    BY <1>1, <1>n, <1>5, <1>6 DEF ReleaseInv, ReleaseTypeOK, JobInv
  <1>8. ASSUME NEW x \in executed
        PROVE  /\ x.release \in Releases /\ x.release # r
               /\ x.record \in Records /\ x.record # w
               /\ Trace(x)
               /\ release[x.release].state \in InFlight \cup {"FAILED"}
    <2>1. /\ x.release \in Releases /\ x.record \in Records /\ Trace(x)
          /\ release[x.release].state \in InFlight \cup {"FAILED"}
      BY DEF ReleaseInv, ReleaseTypeOK, Execution, ExecutedTraced
    <2>2. x.release # r
      BY <2>1, <1>1 DEF InFlight
    <2>3. x.record # w
      BY <2>1, <2>2, <1>5 DEF Trace, GateChecks
    <2>4. QED
      BY <2>1, <2>2, <2>3
  <1>9. ASSUME NEW x \in executed
        PROVE  /\ Trace(x)'
               /\ release'[x.release].state \in InFlight \cup {"FAILED"}
    <2>1. tx'[x.record] = tx[x.record] /\ release'[x.release] = release[x.release]
      BY <1>5, <1>8
    <2>2. QED
      BY <2>1, <1>1, <1>8, TraceKept
  <1>10. Trace(n)'
    <2> DEFINE c == consumed[b]
    <2>1. c # None /\ GateChecks(r, w, a, b, c)
          /\ (a.intent.op \in ToDestination => a.actor = Founder)
      BY SubmitPassesGate
    <2>2. c' = c
      BY <1>1
    <2> HIDE DEF c
    <2>3. GateChecks(r, w, a, b, c)'
      BY <2>1, <2>2, <1>5 DEF GateChecks
    <2>4. n' = n
      BY DEF n
    <2>5. QED
      BY <2>1, <2>2, <2>3, <2>4, <1>n, <1>5 DEF Trace, c
  <1>11. ExecutedTraced'
    <2>1. \A x \in executed' :
            /\ Trace(x)'
            /\ release'[x.release].state \in InFlight \cup {"FAILED"}
      BY <1>1, <1>9, <1>10, <1>n, <1>5 DEF InFlight
    <2>2. \A x, y \in executed' : y.release = x.release => y = x
      BY <1>1, <1>8, <1>n DEF ReleaseInv, ExecutedTraced
    <2>3. QED
      BY <2>1, <2>2 DEF ExecutedTraced
  <1>12. InFlightExecuted'
    BY <1>1, <1>n, <1>5 DEF ReleaseInv, InFlightExecuted
  <1>13. QED
    BY <1>5, <1>6, <1>7, <1>11, <1>12 DEF ReleaseInv

LEMMA LearnHashInv ==
  ASSUME ReleaseInv, NEW w \in Records, NEW h \in Hashes, LearnHash(w, h)
  PROVE  ReleaseInv'
  <1>1. /\ release' = release /\ executed' = executed /\ settlement' = settlement
        /\ consumed' = consumed /\ job' = job /\ UNCHANGED jobVars
        /\ tx \in [Records -> TransactionRecord \cup {None}]
        /\ tx[w] # None /\ tx[w].state = "SUBMITTED" /\ tx[w].hash = None
        /\ tx[w] \in TransactionRecord
    BY DEF LearnHash, jobVars, ReleaseInv, ReleaseTypeOK
  <1>2. tx' = [tx EXCEPT ![w] = Moved(w, "SUBMITTED", h)]
    <2>1. tx[w] \in [release : Releases, approval : Nat, binding : Nat, op : Executable,
                     hash : Hashes \cup {None}, state : RecordStates]
      BY <1>1 DEF TransactionRecord, RecordStates
    <2>2. [tx[w] EXCEPT !.hash = h] = Moved(w, "SUBMITTED", h)
      BY <2>1, <1>1 DEF Moved
    <2>3. tx' = [tx EXCEPT ![w] = [tx[w] EXCEPT !.hash = h]]
      BY DEF LearnHash
    <2>4. QED
      BY <2>2, <2>3
  <1> DEFINE t == Moved(w, "SUBMITTED", h)
  <1>3. t \in TransactionRecord /\ t # None
    <2>1. t \in TransactionRecord
      BY <1>1 DEF TransactionRecord, Moved
    <2>2. QED
      BY <2>1, NoRecordAssumption
  <1>4. /\ t.hash = h /\ t.state = tx[w].state /\ t.approval = tx[w].approval
        /\ t.binding = tx[w].binding /\ t.release = tx[w].release /\ t.op = tx[w].op
    BY <1>1 DEF Moved
  <1>5. tx'[w] = t /\ \A v \in Records : v # w => tx'[v] = tx[v]
    BY <1>1, <1>2
  <1> HIDE DEF t
  <1>6. JobInv'
    BY <1>1, JobUnchanged DEF ReleaseInv, ReleaseTypeOK, JobInv, JobTypeOK, ConsumptionTypeOK
  <1>7. ReleaseTypeOK'
    <2>1. tx' = [tx EXCEPT ![w] = t]
      BY <1>2 DEF t
    <2>2. tx' \in [Records -> TransactionRecord \cup {None}]
      BY <2>1, <1>1, <1>3
    <2>3. QED
      BY <2>2, <1>1, <1>6 DEF ReleaseInv, ReleaseTypeOK, JobInv
  <1>8. RecordFollows'
    BY <1>1, <1>4, <1>5 DEF ReleaseInv, RecordFollows
  <1>9. ASSUME NEW x \in executed
        PROVE  Trace(x)'
    <2>1. /\ x.release \in Releases /\ x.record \in Records /\ Trace(x)
      BY DEF ReleaseInv, ReleaseTypeOK, Execution, ExecutedTraced
    <2>2. CASE x.record # w
      BY <2>1, <2>2, <1>1, <1>5, TraceKept
    <2>3. CASE x.record = w
      <3> DEFINE n == consumed[x.binding]
      <3>1. n' = n /\ n # None /\ GateChecks(x.release, w, x.approval, x.binding, n)
        BY <2>1, <2>3, <1>1 DEF Trace
      <3> HIDE DEF n
      <3>2. GateChecks(x.release, w, x.approval, x.binding, n)'
        BY <3>1, <1>1, <1>4, <1>5 DEF GateChecks
      <3>3. x.submission.transaction.hash = None
        BY <2>1, <2>3, <1>1 DEF Trace
      <3>4. release'[x.release].state # "RECONCILED"
        <4>1. tx[w].release = x.release
          BY <2>1, <2>3 DEF Trace, GateChecks
        <4>2. QED
          BY <4>1, <1>1 DEF ReleaseInv, RecordFollows
      <3>5. (tx'[w] # None) /\ n' # None
            /\ (x.approval.intent.op \in ToDestination => x.approval.actor = Founder)
        BY <2>1, <3>1, <1>3, <1>5 DEF Trace
      <3>6. QED
        BY <3>2, <3>3, <3>4, <3>5, <2>3 DEF Trace, n
    <2>4. QED
      BY <2>2, <2>3
  <1>10. ExecutedTraced'
    BY <1>1, <1>9 DEF ReleaseInv, ExecutedTraced
  <1>11. InFlightExecuted'
    BY <1>1 DEF ReleaseInv, InFlightExecuted
  <1>12. QED
    BY <1>6, <1>7, <1>8, <1>10, <1>11 DEF ReleaseInv

(* A job that is over stays as it is, and so does a consumed binding.      *)
LEMMA JobsGoOn ==
  ASSUME JobInv, [JobNext]_<<jobVars, consumed>>
  PROVE  /\ \A j \in Jobs : Over(job[j]) => job'[j] = job[j]
         /\ \A b \in Bindings : consumed[b] # None => consumed'[b] = consumed[b]
  <1>1. ASSUME NEW j \in Jobs, NEW at \in Times, JobStep(j, at)
        PROVE  /\ \A k \in Jobs : Over(job[k]) => job'[k] = job[k]
               /\ consumed' = consumed
    <2>1. PICK p, e : Moves(j, e, p)
      BY <1>1, JobTransition DEF JobInv
    <2>2. ~Over(job[j]) /\ consumed' = consumed
      BY <2>1 DEF Moves, Accepts, Over
    <2>3. \A k \in Jobs : k # j => job'[k] = job[k]
      BY <2>1, MovesForward, AcceptsTyped DEF JobInv
    <2>4. QED
      BY <2>2, <2>3
  <1>2. ASSUME NEW b \in Bindings, NEW w \in Records, NEW at \in Times,
               Consume(b, w, at), UNCHANGED jobVars
        PROVE  /\ \A j \in Jobs : Over(job[j]) => job'[j] = job[j]
               /\ \A c \in Bindings : consumed[c] # None => consumed'[c] = consumed[c]
    BY <1>2 DEF jobVars, Consume, CanConsume, JobInv, JobTypeOK, ConsumptionTypeOK
  <1>3. CASE UNCHANGED <<jobVars, consumed>>
    BY <1>3 DEF jobVars
  <1>4. QED
    BY <1>1, <1>2, <1>3 DEF JobNext

LEMMA JobStepInv ==
  ASSUME ReleaseInv, [JobNext]_<<jobVars, consumed>>, UNCHANGED releaseVars
  PROVE  ReleaseInv'
  <1>1. /\ release' = release /\ tx' = tx /\ settlement' = settlement
        /\ executed' = executed
    BY DEF releaseVars
  <1>2. JobInv'
    BY JobNextInv DEF ReleaseInv
  <1>3. ReleaseTypeOK'
    BY <1>1, <1>2 DEF ReleaseInv, ReleaseTypeOK, JobInv
  <1>4. RecordFollows'
    BY <1>1 DEF ReleaseInv, RecordFollows
  <1>5. ASSUME NEW x \in executed
        PROVE  Trace(x)'
    <2> DEFINE n == consumed[x.binding]
    <2>1. Trace(x) /\ x.binding \in Bindings
      BY DEF ReleaseInv, ReleaseTypeOK, Execution, ExecutedTraced
    <2>2. n # None /\ GateChecks(x.release, x.record, x.approval, x.binding, n)
      BY <2>1 DEF Trace
    <2>3. n' = n
      BY <2>1, <2>2, JobsGoOn DEF ReleaseInv
    <2> HIDE DEF n
    <2>4. GateChecks(x.release, x.record, x.approval, x.binding, n)'
      BY <1>1, <2>2, <2>3 DEF GateChecks
    <2>5. EndedJob(x.approval.intent.op, tx[x.record].hash) =>
            EndedJob(x.approval.intent.op, tx[x.record].hash)'
      <3>1. \A j \in Jobs : Over(job[j]) => job'[j] = job[j]
        BY JobsGoOn DEF ReleaseInv
      <3>2. \A j \in Jobs : Over(job[j]) => Over(job[j])'
        BY <3>1 DEF Over
      <3>3. QED
        BY <1>1, <3>1, <3>2 DEF EndedJob
    <2>6. QED
      BY <1>1, <2>1, <2>2, <2>3, <2>4, <2>5 DEF Trace, n
  <1>6. ExecutedTraced'
    BY <1>1, <1>5 DEF ReleaseInv, ExecutedTraced
  <1>7. InFlightExecuted'
    BY <1>1 DEF ReleaseInv, InFlightExecuted
  <1>8. QED
    BY <1>2, <1>3, <1>4, <1>6, <1>7 DEF ReleaseInv

LEMMA ReleaseInitInv == ASSUME Init PROVE ReleaseInv
  <1>1. JobInv
    BY JobInitInv DEF Init
  <1>2. [state |-> "INCOMPLETE", approval |-> None] \in Release
    BY DEF Release, States
  <1>3. ReleaseTypeOK
    BY <1>1, <1>2 DEF Init, ReleaseInit, ReleaseTypeOK, JobInv
  <1>4. RecordFollows /\ ExecutedTraced
    BY DEF Init, ReleaseInit, RecordFollows, ExecutedTraced
  <1>5. InFlightExecuted
    BY DEF Init, ReleaseInit, InFlightExecuted, InFlight
  <1>6. QED
    BY <1>1, <1>3, <1>4, <1>5 DEF ReleaseInv

LEMMA ReleaseNextInv ==
  ASSUME ReleaseInv, [Next]_<<jobVars, releaseVars, consumed>>
  PROVE  ReleaseInv'
  <1>1. ASSUME NEW r \in Releases, ReleaseStep(r)
        PROVE  ReleaseInv'
    BY <1>1, ReviewInv, DecideInv, PrepareInv, SubmitInv, ConcludeInv DEF ReleaseStep
  <1>2. ASSUME NEW w \in Records, NEW h \in Hashes, LearnHash(w, h)
        PROVE  ReleaseInv'
    BY <1>2, LearnHashInv
  <1>3. CASE JobNext /\ UNCHANGED releaseVars
    BY <1>3, JobStepInv
  <1>4. CASE UNCHANGED <<jobVars, releaseVars, consumed>>
    BY <1>4, JobStepInv
  <1>5. QED
    BY <1>1, <1>2, <1>3, <1>4 DEF Next

(* Jobs, releases and their records keep their types.                      *)
THEOREM ReleasesAlwaysTyped == Spec => []ReleaseTypeOK
  <1>1. ReleaseInv => ReleaseTypeOK
    BY DEF ReleaseInv
  <1>2. QED
    BY <1>1, ReleaseInitInv, ReleaseNextInv, PTL DEF Spec

(* Every release that was submitted went through what the gate checks, and *)
(* is reconciled with the write that was submitted for it and, through a   *)
(* job, that ended the job.                                                *)
THEOREM ReleasesSettledAsAuthorized == Spec => []SettledAsAuthorized
  BY ReleaseInitInv, ReleaseNextInv, SettledFromInv, PTL DEF Spec
=============================================================================
