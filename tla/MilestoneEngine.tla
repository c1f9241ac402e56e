-------------------------- MODULE MilestoneEngine --------------------------
(***************************************************************************)
(* The policy that decides whether a milestone is eligible for release     *)
(* (evaluateMilestone).  An input has the evidence items, the matches      *)
(* between items and requirements that a model suggested or a person       *)
(* decided, what each requirement was observed to have, the requirements   *)
(* whose evidence is reported to conflict, the time of the evaluation, and *)
(* an approval record.                                                     *)
(***************************************************************************)
EXTENDS Integers, FiniteSets

CONSTANTS
  Requirements,      \* the requirements of the milestone
  Project,           \* the project the milestone belongs to
  DueAt,             \* the last time it may be evaluated, or NoDueDate
  VerifiedSpend,     \* what was spent, known upstream
  Founder,           \* the founder the project expects
  Evaluator          \* the evaluator the project expects

None      == "NONE"
NoDueDate == 0

Requirement(ids, kind, required, bound) ==
  [id : ids, kind : {kind}, required : {required}, bound : {bound}]

-----------------------------------------------------------------------------
(* What the matches say of the items: the provenance index                 *)

Known(in) == {e \in in.items : e.project = Project}

MatchesOf(in, r, e) ==
  {m \in in.matches : m.requirement = r.id /\ m.evidence = e.id}

(* A decision counts only for the content it was taken on.                 *)
Decided(m, e) ==
  /\ m.source = "HUMAN_DECISION"
  /\ m.hash = e.hash
  /\ m.by \in {Founder, Evaluator}

Accepted(in, r) ==
  {e.id : e \in {e \in Known(in) : \E m \in MatchesOf(in, r, e) : Decided(m, e)}}

Suggested(in, r) ==
  {e.id : e \in {e \in Known(in) :
     \E m \in MatchesOf(in, r, e) : m.source = "AI_SUGGESTION"}}

OfKind(in, ids, kind) ==
  {e.id : e \in {e \in Known(in) : e.id \in ids /\ e.kind = kind}}

SuggestedOnly(in, r) == Suggested(in, r) # {} /\ Accepted(in, r) = {}

PendingReceipts(in, r) ==
  OfKind(in, Suggested(in, r) \ Accepted(in, r), "RECEIPT") # {}

(* The accepted items a requirement's references must name, one for one.   *)
Countable(in, r) ==
  LET accepted == Accepted(in, r)
  IN  CASE r.kind = "DELIVERABLE"          -> OfKind(in, accepted, "DELIVERABLE")
        [] r.kind = "EXPENSE_RECORDS"      -> OfKind(in, accepted, "RECEIPT")
        [] r.kind = "FOUNDER_CONFIRMATION" -> OfKind(in, accepted, "CONFIRMATION")
        [] r.kind \in {"TRANSACTION_MATCH", "BUSINESS_PURPOSE"} -> accepted
        [] OTHER -> {}

AlwaysResolved == {"DELIVERABLE", "EXPENSE_RECORDS"}

ReferencesResolve(in, r) ==
  \/ in.references[r.id] = Countable(in, r)
  \/ r.kind \notin AlwaysResolved /\ Countable(in, r) = {}

(* Where the evidence conflicts, references are not looked at.             *)
Conflicting(in, r) == r.kind # "HUMAN_APPROVAL" /\ r.id \in in.conflicts

(* The inputs that are evaluated at all; the others are refused.           *)
Evaluable(in) ==
  /\ \A e \in Known(in) : e.submitted <= in.at
  /\ \A e, f \in Known(in) : e.id = f.id => e = f
  /\ \A r \in Requirements : Conflicting(in, r) \/ ReferencesResolve(in, r)

-----------------------------------------------------------------------------
(* The evaluator's approval                                                *)

(* No record, or one of another kind, milestone or intent, or undecided.   *)
NoApproval == [decision |-> "PENDING"]

(* Faulty variant: the time of the evaluation is not part of the subject.  *)
TimelessSubject(in) ==
  [at |-> 0, items |-> Known(in),
   decisions |-> {m \in in.matches : m.source = "HUMAN_DECISION"},
   references |-> in.references, reported |-> in.reported,
   conflicts |-> in.conflicts]

(* What an approval is bound to by its hash.  Equal hashes are taken to    *)
(* mean equal subjects; what a model suggested is not in it.               *)
Subject(in) ==
  [at |-> in.at, items |-> Known(in),
   decisions |-> {m \in in.matches : m.source = "HUMAN_DECISION"},
   references |-> in.references, reported |-> in.reported,
   conflicts |-> in.conflicts]

(* Decided by the evaluator the project expects, on this input, by now.    *)
Applies(approval, in) ==
  /\ approval.decision # "PENDING"
  /\ approval.subject = Subject(in)
  /\ approval.by = Evaluator
  /\ approval.decidedAt <= in.at

(* A rejection does not expire.                                            *)
Classification(in) ==
  IF ~Applies(in.approval, in) THEN "PENDING"
  ELSE IF in.approval.decision = "REJECTED" THEN "REJECTED"
  ELSE IF in.at < in.approval.expiresAt THEN "CONFIRMED"
  ELSE "PENDING"

-----------------------------------------------------------------------------
(* One requirement                                                         *)

Pass(reason)   == [outcome |-> "PASS", reason |-> reason]
Review(reason) == [outcome |-> "REVIEW", reason |-> reason]
Fail(reason)   == [outcome |-> "FAIL", reason |-> reason]

Deliverables(in, r) ==
  IF Countable(in, r) # {}
  THEN Pass("DELIVERABLE_COUNT_MET") ELSE Fail("DELIVERABLE_COUNT_SHORT")

Receipts(in, r) ==
  IF Cardinality(Countable(in, r)) >= r.bound THEN Pass("RECEIPT_COUNT_MET")
  ELSE IF PendingReceipts(in, r) THEN Review("EVIDENCE_MISSING")
  ELSE Fail("RECEIPT_COUNT_SHORT")

Spending(r) ==
  IF VerifiedSpend <= r.bound
  THEN Pass("SPEND_WITHIN_LIMIT") ELSE Fail("SPEND_LIMIT_EXCEEDED")

DueDate(in) ==
  IF DueAt = NoDueDate THEN Review("EVIDENCE_MISSING")
  ELSE IF in.at <= DueAt THEN Pass("DUE_DATE_VALID") ELSE Fail("DUE_DATE_EXPIRED")

(* Faulty variant: what a model suggests counts as present.                *)
ClaimsPresent(in, r, met, missing) ==
  IF Countable(in, r) # {} \/ in.reported[r.id] \/ SuggestedOnly(in, r)
  THEN Pass(met) ELSE Fail(missing)

(* A confirmation, a matched transaction or a purpose: present when a      *)
(* person accepted evidence of it, for review when it is only reported.    *)
Present(in, r, met, missing) ==
  IF Countable(in, r) # {} THEN Pass(met)
  ELSE IF in.reported[r.id] \/ SuggestedOnly(in, r) THEN Review("EVIDENCE_MISSING")
  ELSE Fail(missing)

HumanApproval(in) ==
  LET class == Classification(in)
  IN  IF class = "CONFIRMED" THEN Pass("HUMAN_APPROVAL_CONFIRMED")
      ELSE IF class = "REJECTED" THEN Fail("HUMAN_APPROVAL_REJECTED")
      ELSE Review("HUMAN_APPROVAL_PENDING")

ByKind(in, r) ==
  CASE r.kind = "DELIVERABLE"     -> Deliverables(in, r)
    [] r.kind = "EXPENSE_RECORDS" -> Receipts(in, r)
    [] r.kind = "SPEND_LIMIT"     -> Spending(r)
    [] r.kind = "FOUNDER_CONFIRMATION" ->
         Present(in, r, "CONFIRMATION_PRESENT", "CONFIRMATION_MISSING")
    [] r.kind = "TRANSACTION_MATCH" ->
         Present(in, r, "TRANSACTION_MATCHED", "EVIDENCE_MISSING")
    [] r.kind = "BUSINESS_PURPOSE" ->
         Present(in, r, "BUSINESS_PURPOSE_PRESENT", "BUSINESS_PURPOSE_MISSING")
    [] r.kind = "DUE_DATE"        -> DueDate(in)
    [] r.kind = "HUMAN_APPROVAL"  -> HumanApproval(in)

Evaluation(in, r) ==
  IF Conflicting(in, r) THEN Review("EVIDENCE_CONFLICT") ELSE ByKind(in, r)

-----------------------------------------------------------------------------
(* The milestone                                                           *)

Blocking(r) == r.required /\ r.kind # "HUMAN_APPROVAL"

BlockedBy(in, outcome) ==
  \E r \in Requirements : Blocking(r) /\ Evaluation(in, r).outcome = outcome

Status(in) ==
  IF BlockedBy(in, "FAIL") THEN "INCOMPLETE"
  ELSE IF BlockedBy(in, "REVIEW") THEN "NEEDS_REVIEW"
  ELSE "ELIGIBLE"

HasConflict(in) ==
  \E r \in Requirements : Evaluation(in, r).reason = "EVIDENCE_CONFLICT"

RecommendedAction(in) ==
  CASE Status(in) = "INCOMPLETE" -> "PROVIDE_EVIDENCE"
    [] Status(in) = "NEEDS_REVIEW" /\ HasConflict(in) -> "ANSWER_PROOF_RECOVERY"
    [] Status(in) = "NEEDS_REVIEW" /\ ~HasConflict(in) -> "REQUEST_HUMAN_REVIEW"
    [] Status(in) = "ELIGIBLE" /\ Classification(in) = "CONFIRMED" -> "PREPARE_JOB_DRAFT"
    [] OTHER -> "REQUEST_HUMAN_APPROVAL"
=============================================================================
