------------------------- MODULE MilestoneApproval -------------------------
(***************************************************************************)
(* The evaluator's approval of a milestone (classifyMilestoneApproval).    *)
(* The evaluator decides once on an evaluation; whoever holds the slice of *)
(* evidence adds to it, changes it, reports conflicts and takes them back, *)
(* and evaluates it again with the approval that is on record.             *)
(***************************************************************************)
EXTENDS EvidenceEngine

CONSTANTS
  Verdicts,          \* decisions on record: what, by whom, when, until when
  Contributors,      \* who decides on evidence
  Disputed           \* requirements whose evidence may be reported to conflict

VARIABLES
  conflicts,         \* ids of requirements reported to have conflicting evidence
  approval,          \* the approval on record
  seen               \* what the evaluator was shown

approvalVars == <<evidenceVars, conflicts, approval, seen>>

PolicyInput ==
  [Observed(slice) EXCEPT !.conflicts = conflicts, !.approval = approval]

PolicyEvaluated == Boundary(slice) /\ Evaluable(PolicyInput)

(* What a decision rests on: the evidence people accepted, and which       *)
(* requirements it makes pass.                                             *)
Findings ==
  [bindings |-> HumanMatches(slice),
   passed   |-> {r \in Requirements : r.kind # "HUMAN_APPROVAL"
                   /\ Evaluation(PolicyInput, r).outcome = "PASS"},
   eligible |-> Status(PolicyInput) = "ELIGIBLE"]

-----------------------------------------------------------------------------
ApprovalInit ==
  /\ EvidenceInit
  /\ conflicts = {}
  /\ approval = NoApproval
  /\ seen = [bindings |-> {}, passed |-> {}, eligible |-> FALSE]

(* A record is decided once, and not after it has expired.                 *)
Decide(v) ==
  /\ approval = NoApproval
  /\ PolicyEvaluated
  /\ v.decidedAt <= v.expiresAt
  /\ approval' = [decision |-> v.decision, by |-> v.by, decidedAt |-> v.decidedAt,
                  expiresAt |-> v.expiresAt, subject |-> Subject(PolicyInput)]
  /\ seen' = Findings
  /\ UNCHANGED <<evidenceVars, conflicts>>

Report(r) ==
  /\ conflicts' = IF r.id \in conflicts THEN conflicts \ {r.id} ELSE conflicts \cup {r.id}
  /\ UNCHANGED <<evidenceVars, approval, seen>>

Gather ==
  /\ \/ \E e \in Evidence : Submit(e)
     \/ \E e \in slice.items : Replace(e)
     \/ \E e \in slice.items, r \in Matchable : Match(Suggestion(e, r))
     \/ \E e \in slice.items, r \in Matchable, a \in Contributors : Match(Decision(e, r, a))
     \/ Reevaluate
  /\ UNCHANGED <<conflicts, approval, seen>>

ApprovalNext ==
  \/ Gather
  \/ \E r \in Disputed : Report(r)
  \/ \E v \in Verdicts : Decide(v)

ApprovalSpec == ApprovalInit /\ [][ApprovalNext]_approvalVars

-----------------------------------------------------------------------------
(* Properties                                                              *)

(* An approval that confirms an evaluation, or a rejection that fails it,  *)
(* is the evaluator's, and means what it was given for: whatever has       *)
(* happened to the evidence since, the same decisions are accepted, the    *)
(* same requirements pass and the milestone is as eligible as it was seen  *)
(* to be.  What a model suggests is not in the hash the record is bound    *)
(* to, and must not matter.                                                *)
ApprovedAsSeen ==
  approval # NoApproval /\ PolicyEvaluated /\ Classification(PolicyInput) # "PENDING" =>
    /\ approval.by = Evaluator
    /\ Findings = seen
=============================================================================
