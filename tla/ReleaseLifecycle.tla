-------------------------- MODULE ReleaseLifecycle --------------------------
(***************************************************************************)
(* The lifecycle of a release of capital (transitionApplication and        *)
(* transitionApplicationSubmission), with the transaction record and the   *)
(* settlement that its later steps present.  A release is executed as a    *)
(* transfer to a destination, or through the ERC-8183 job that pays it, by *)
(* the evaluator's write on that job.                                      *)
(*                                                                         *)
(* The transitions are functions of what the caller presents; the caller   *)
(* keeps the records, and moves each with the transition that accepted it. *)
(* Amounts of a release's own records are the release's.  The caller       *)
(* presents the job of a settlement as the adapter has it.  Actors who     *)
(* only have to be the configured system or adapter are left out.          *)
(***************************************************************************)
EXTENDS JobLifecycle

CONSTANTS
  Founder,            \* who approves releases
  ReleaseAmount       \* of each release

ASSUME ReleasesAssumption ==
  /\ Founder \in Actors
  /\ ReleaseAmount \in [Releases -> Nat]

VARIABLES
  release,      \* each release: its state, and the approval it references
  tx,           \* the transaction records prepared for releases
  settlement,   \* what each release was settled with
  executed      \* ghost: the submissions accepted, with what was presented

releaseVars == <<release, tx, settlement, executed>>

States == {"INCOMPLETE", "NEEDS_REVIEW", "ELIGIBLE", "APPROVAL_PENDING", "APPROVED",
           "PREPARED", "SUBMITTED", "CONFIRMED", "REJECTED", "FAILED", "RECONCILED"}

ToDestination == {"SETTLEMENT", "REFUND"}
ThroughJob    == {"JOB_EVALUATE", "JOB_REJECT"}
Executable    == ToDestination \cup ThroughJob

(* Prepared evidence has no hash yet, confirmed evidence has one.          *)
TransactionRecord ==
  {t \in [release : Releases, approval : Nat, binding : Nat, op : Executable,
          hash : Hashes \cup {None},
          state : {"PREPARED", "SUBMITTED", "CONFIRMED", "FAILED", "RECONCILED"}] :
     /\ t.state = "PREPARED" => t.hash = None
     /\ t.state \in {"CONFIRMED", "RECONCILED"} => t.hash # None}

ASSUME NoRecordAssumption == None \notin TransactionRecord

(* A release has an approval from its approval on.                         *)
Release ==
  {e \in [state : States, approval : Nat \cup {None}] :
     e.state \in {"APPROVED", "PREPARED", "SUBMITTED", "CONFIRMED", "RECONCILED",
                 "FAILED"} => e.approval # None}

Settlement == [op : Executable, hash : Hashes, job : Jobs \cup {None}]

Execution ==
  [release : Releases, record : Records, approval : Approvals, binding : Bindings,
   submission : Submissions]

ReleaseTypeOK ==
  /\ JobTypeOK
  /\ release \in [Releases -> Release]
  /\ tx \in [Records -> TransactionRecord \cup {None}]
  /\ settlement \in [Releases -> Settlement \cup {None}]
  /\ executed \subseteq Execution

At(r, state) == release[r].state = state

Goes(r, state) == release' = [release EXCEPT ![r].state = state]

(* A record of the release in a state, as the caller has it.               *)
RecordIn(w, r, state) == tx[w] # None /\ tx[w].release = r /\ tx[w].state = state

RecordGoes(w, state) == tx' = [tx EXCEPT ![w].state = state]

-----------------------------------------------------------------------------
(* Review and approval                                                     *)

Reviewed ==
  { <<"INCOMPLETE", "NEEDS_REVIEW">>, <<"NEEDS_REVIEW", "INCOMPLETE">>,
    <<"NEEDS_REVIEW", "ELIGIBLE">>, <<"NEEDS_REVIEW", "REJECTED">>,
    <<"ELIGIBLE", "APPROVAL_PENDING">> }

Review(r, to) ==
  /\ <<release[r].state, to>> \in Reviewed
  /\ Goes(r, to)
  /\ UNCHANGED <<tx, settlement, executed, consumed, jobVars>>

(* The founder's decision on this release, made before and still valid.    *)
DecidesRelease(a, r, to, at) ==
  /\ a.kind = "RELEASE_APPROVAL" /\ a.role = "FOUNDER" /\ a.actor = Founder
  /\ a.subject = r
  /\ a.decision = to
  /\ a.decidedAt <= at /\ at < a.expiresAt

Decide(r, a, to, at) ==
  /\ At(r, "APPROVAL_PENDING")
  /\ to \in {"APPROVED", "REJECTED"}
  /\ DecidesRelease(a, r, to, at)
  /\ release' = [release EXCEPT ![r] = [state |-> to, approval |-> a.id]]
  /\ UNCHANGED <<tx, settlement, executed, consumed, jobVars>>

-----------------------------------------------------------------------------
(* Execution                                                               *)

(* Nothing is checked between the record and what it references.  A record *)
(* for a job's write references the evaluator's approval, and the release  *)
(* has to reference the same one from here on.                             *)
Prepare(r, w, a, b, op) ==
  /\ At(r, "APPROVED")
  /\ tx[w] = None
  /\ op \in Executable
  /\ tx' = [tx EXCEPT ![w] =
              [release |-> r, approval |-> a.id, binding |-> b.id, op |-> op,
               hash |-> None, state |-> "PREPARED"]]
  /\ release' = [release EXCEPT ![r] = [state |-> "PREPARED", approval |-> a.id]]
  /\ UNCHANGED <<settlement, executed, consumed, jobVars>>

(* The approval is the one that this operation of this release needs.      *)
ApprovedFor(a, i, op) ==
  /\ a.kind = KindFor[op]
  /\ a.decision = "APPROVED"
  /\ IF op \in ToDestination
     THEN /\ a.role = "FOUNDER" /\ a.actor = Founder
          /\ i.job = None
          /\ a.subject = i.subject
     ELSE /\ a.role = "EVALUATOR"
          /\ i.job # None
          /\ a.actor = Evaluator[i.job]
          /\ a.subject = i.job

(* Release, record, approval and binding reference one another, and the    *)
(* intent says what the record does.                                       *)
Authorizes(r, w, a, b) ==
  /\ tx[w].approval = a.id /\ release[r].approval = a.id
  /\ tx[w].binding = b.id
  /\ BoundTo(b, a)
  /\ b.record = w
  /\ b.intent.subject = r
  /\ b.intent.op = tx[w].op
  /\ b.intent.amount = ReleaseAmount[r]
  /\ ApprovedFor(a, b.intent, tx[w].op)

Submit(r, w, a, b, s, at) ==
  /\ At(r, "PREPARED")
  /\ RecordIn(w, r, "PREPARED")
  /\ Authorizes(r, w, a, b)
  /\ s.record = w
  /\ s.transaction.op = tx[w].op /\ s.transaction.status = "SUBMITTED"
  /\ InOrder(a, b, s.at, at)
  /\ Goes(r, "SUBMITTED")
  /\ tx' = [tx EXCEPT ![w].state = "SUBMITTED", ![w].hash = s.transaction.hash]
  /\ executed' = executed \cup
       {[release |-> r, record |-> w, approval |-> a, binding |-> b, submission |-> s]}
  /\ UNCHANGED <<settlement, consumed, jobVars>>

(* The provider's hash becomes known while the write is underway.          *)
LearnHash(w, h) ==
  /\ tx[w] # None /\ tx[w].state = "SUBMITTED" /\ tx[w].hash = None
  /\ tx' = [tx EXCEPT ![w].hash = h]
  /\ UNCHANGED <<release, settlement, executed, consumed, jobVars>>

(* Faulty variant: a write is confirmed by the provider's id alone.        *)
ConfirmUnknown(r, w) ==
  /\ At(r, "SUBMITTED")
  /\ RecordIn(w, r, "SUBMITTED")
  /\ release[r].approval = tx[w].approval
  /\ Goes(r, "CONFIRMED")
  /\ RecordGoes(w, "CONFIRMED")
  /\ UNCHANGED <<settlement, executed, consumed, jobVars>>

(* The confirmed record repeats the submitted one, hash included.          *)
Confirm(r, w) ==
  /\ At(r, "SUBMITTED")
  /\ RecordIn(w, r, "SUBMITTED")
  /\ tx[w].hash # None
  /\ release[r].approval = tx[w].approval
  /\ Goes(r, "CONFIRMED")
  /\ RecordGoes(w, "CONFIRMED")
  /\ UNCHANGED <<settlement, executed, consumed, jobVars>>

(* A prepared transfer may be given up; a job's prepared write may not.    *)
FailPrepared(r, w) ==
  /\ At(r, "PREPARED")
  /\ RecordIn(w, r, "PREPARED")
  /\ tx[w].op \in ToDestination
  /\ Goes(r, "FAILED")
  /\ RecordGoes(w, "FAILED")
  /\ UNCHANGED <<settlement, executed, consumed, jobVars>>

(* The record of the submission must show the write as it now is.          *)
FailSubmitted(r, w) ==
  /\ At(r, "SUBMITTED")
  /\ RecordIn(w, r, "SUBMITTED")
  /\ \E s \in Submissions :
       s.record = w /\
       s.transaction = [op |-> tx[w].op, hash |-> tx[w].hash, status |-> "SUBMITTED"]
  /\ Goes(r, "FAILED")
  /\ RecordGoes(w, "FAILED")
  /\ UNCHANGED <<settlement, executed, consumed, jobVars>>

(* A settlement through a job has the write that ended the job, in the way *)
(* that settles: completed, or rejected or expired with a budget in escrow.*)
SettledThroughJob(st, r) ==
  LET e == job[st.job]
  IN  /\ Budget[st.job] = ReleaseAmount[r]
      /\ e.transaction = [op |-> st.op, hash |-> st.hash, status |-> "CONFIRMED"]
      /\ \/ st.op = "JOB_EVALUATE" /\ e.status = "COMPLETED"
         \/ st.op = "JOB_REJECT" /\ e.status = "REJECTED" /\ e.escrow # None
         \/ st.op = "REFUND" /\ e.status = "EXPIRED" /\ e.escrow # None

(* What the schema of a reconciled settlement asks for.                    *)
Settles(st, r) ==
  IF st.job = None THEN st.op \in ToDestination ELSE SettledThroughJob(st, r)

(* Faulty variant: evidence is compared by operation only.                 *)
MatchesOperation(st, w) == st.op = tx[w].op

(* A matched reconciliation: record and settlement have the same evidence. *)
Matches(st, w) == st.op = tx[w].op /\ st.hash = tx[w].hash

Reconcile(r, w, st) ==
  /\ At(r, "CONFIRMED")
  /\ RecordIn(w, r, "CONFIRMED")
  /\ Settles(st, r)
  /\ Matches(st, w)
  /\ Goes(r, "RECONCILED")
  /\ RecordGoes(w, "RECONCILED")
  /\ settlement' = [settlement EXCEPT ![r] = st]
  /\ UNCHANGED <<executed, consumed, jobVars>>

ReleaseStep(r) ==
  \/ \E to \in States : Review(r, to)
  \/ \E a \in Approvals, to \in Decisions, at \in Times : Decide(r, a, to, at)
  \/ \E w \in Records :
       \/ \E a \in Approvals, b \in Bindings, op \in Operations : Prepare(r, w, a, b, op)
       \/ \E a \in Approvals, b \in Bindings, s \in Submissions, at \in Times :
            Submit(r, w, a, b, s, at)
       \/ Confirm(r, w)
       \/ FailPrepared(r, w)
       \/ FailSubmitted(r, w)
       \/ \E st \in Settlement : Reconcile(r, w, st)

ReleaseInit ==
  /\ release = [r \in Releases |-> [state |-> "INCOMPLETE", approval |-> None]]
  /\ tx = [w \in Records |-> None]
  /\ settlement = [r \in Releases |-> None]
  /\ executed = {}

Init == JobInit /\ ReleaseInit

Next ==
  \/ \E r \in Releases : ReleaseStep(r)
  \/ \E w \in Records, h \in Hashes : LearnHash(w, h)
  \/ JobNext /\ UNCHANGED releaseVars

Spec == Init /\ [][Next]_<<jobVars, releaseVars, consumed>>

-----------------------------------------------------------------------------
(* The gate before execution (validateExecutionAuthorization), but for the *)
(* states it asks for and for the evidence of a job: what a caller checks  *)
(* at `asOf', before it consumes the binding and submits.  The transition  *)
(* that records the submission has checks of its own (Authorizes).         *)
GateChecks(r, w, a, b, asOf) ==
  LET i == b.intent
  IN  /\ i.subject = r /\ b.approval = a.id /\ b.record = w
      /\ release[r].approval = a.id /\ tx[w].approval = a.id /\ tx[w].binding = b.id
      /\ a.decision = "APPROVED"
      /\ i.op \in ToDestination => i.job = None /\ a.subject = r /\ a.role = "FOUNDER"
      /\ i.op \in ThroughJob =>
           i.job # None /\ a.subject = i.job /\ a.role = "EVALUATOR"
             /\ a.actor = Evaluator[i.job]
      /\ a.kind = KindFor[i.op]
      /\ a.decidedAt <= asOf /\ asOf < a.expiresAt
      /\ tx[w].release = r
      /\ i.record = w /\ i.op = tx[w].op /\ i.op \in Executable
      /\ i.amount = ReleaseAmount[r]
      /\ a.intent = i

(* A release is submitted at most once.  What was submitted had one        *)
(* party's approval of this very release, record and amount: the checks of *)
(* the gate hold for it at the time its binding was consumed, although the *)
(* transition does not run them.  What is confirmed and reconciled         *)
(* afterwards is that same write: same record, same operation, and the     *)
(* hash it was submitted with, if it had one.  If it was a write on a job, *)
(* that write is also what ended the job.                                  *)
SettledAsAuthorized ==
  \A r \in Releases : release[r].state \in {"SUBMITTED", "CONFIRMED", "RECONCILED"} =>
    \E x \in executed :
      LET i == x.approval.intent
          h == x.submission.transaction.hash
          t == tx[x.record]
      IN  /\ x.release = r
          /\ \A y \in executed : y.release = r => y = x
          /\ GateChecks(r, x.record, x.approval, x.binding, consumed[x.binding])
          /\ i.op \in ToDestination => x.approval.actor = Founder
          /\ t.state = release[r].state
          /\ h # None => t.hash = h
          /\ release[r].state = "RECONCILED" /\ i.op \in ThroughJob =>
               \E j \in Jobs :
                 job[j].transaction = [op |-> i.op, hash |-> t.hash, status |-> "CONFIRMED"]

(* A release that is prepared is submitted or recorded as failed.          *)
PreparedConcludes ==
  \A r \in Releases : At(r, "PREPARED") ~> ~At(r, "PREPARED")
=============================================================================
