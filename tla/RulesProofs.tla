---------------------------- MODULE RulesProofs ----------------------------
(***************************************************************************)
(* Proofs about the rule engines of the domain.  About the evidence of a   *)
(* milestone, for any requirements, items and times: an evaluator's packet *)
(* carries all that the decision rests on, a gap is recovered once, and an *)
(* approval counts only for what the evaluator was shown.  About the       *)
(* resolution of allocations, for any budget and any instructions: it      *)
(* rounds as the published policy says (by the lemmas of                   *)
(* AllocationProofs).                                                      *)
(***************************************************************************)
EXTENDS MCRules, AllocationProofs

-----------------------------------------------------------------------------
(* What the policy is given                                                *)

LEMMA ObservedFields ==
  ASSUME NEW s
  PROVE  /\ Observed(s).items = s.items
         /\ Observed(s).matches = HumanMatches(s) \cup AiMatches(s)
         /\ Observed(s).at = s.at
         /\ Observed(s).conflicts = {} /\ Observed(s).approval = NoApproval
         /\ Observed(s).references =
              [q \in {r.id : r \in Requirements} |->
                 IF KindOfRequirement(q) \in TakesReferences
                 THEN {m.evidence : m \in MatchesFor(HumanMatches(s), q)} ELSE {}]
<1> QED
  BY DEF Observed

(* What a model suggests is never accepted: an item is accepted when a     *)
(* decision that counts for the slice is one for its content.              *)
LEMMA AcceptedByPeople ==
  ASSUME NEW s, NEW r
  PROVE  Accepted(Observed(s), r) =
           {e.id : e \in {e \in s.items :
              /\ e.project = Project
              /\ \E m \in HumanMatches(s) :
                   m.requirement = r.id /\ m.evidence = e.id /\ Decided(m, e)}}
<1>1. \A e, m : Decided(m, e) => m.source = "HUMAN_DECISION"
  BY DEF Decided
<1>2. \A m \in AiMatches(s) : m.source # "HUMAN_DECISION"
  BY DEF AiMatches
<1>3. \A e : (\E m \in MatchesOf(Observed(s), r, e) : Decided(m, e))
               <=> \E m \in HumanMatches(s) :
                     m.requirement = r.id /\ m.evidence = e.id /\ Decided(m, e)
  BY <1>1, <1>2, ObservedFields DEF MatchesOf
<1>4. Known(Observed(s)) = {e \in s.items : e.project = Project}
  BY ObservedFields DEF Known
<1> QED
  BY <1>3, <1>4 DEF Accepted

(* The outcome of a requirement says why.                                  *)
LEMMA ReceiptOutcome ==
  ASSUME NEW in, in.conflicts = {}, NEW r, r.kind = "EXPENSE_RECORDS"
  PROVE  /\ Evaluation(in, r) = Receipts(in, r)
         /\ Evaluation(in, r).reason = "RECEIPT_COUNT_SHORT"
              => ~PendingReceipts(in, r)
         /\ Evaluation(in, r).reason # "RECEIPT_COUNT_SHORT" /\ ~PendingReceipts(in, r)
              => Evaluation(in, r).outcome = "PASS"
<1>1. Evaluation(in, r) = Receipts(in, r)
  BY DEF Evaluation, ByKind, Conflicting
<1> QED
  BY <1>1 DEF Receipts, Pass, Review, Fail

(* Requirements pass alike when the same items count for them and the time *)
(* is the same, whatever else models suggest or report.                    *)
LEMMA PassesByCountable ==
  ASSUME NEW in, NEW other, NEW r \in Requirements, r.kind # "HUMAN_APPROVAL",
         Countable(in, r) = Countable(other, r), in.at = other.at,
         in.conflicts = other.conflicts
  PROVE  Evaluation(in, r).outcome = "PASS" <=> Evaluation(other, r).outcome = "PASS"
<1> SUFFICES ByKind(in, r).outcome = "PASS" <=> ByKind(other, r).outcome = "PASS"
  BY DEF Evaluation, Conflicting
<1>1. CASE r.kind = "DELIVERABLE"
  <2>1. /\ ByKind(in, r) = Deliverables(in, r)
        /\ ByKind(other, r) = Deliverables(other, r)
    BY <1>1 DEF ByKind
  <2> QED
    BY <2>1 DEF Deliverables
<1>2. CASE r.kind = "EXPENSE_RECORDS"
  <2>1. /\ ByKind(in, r) = Receipts(in, r)
        /\ ByKind(other, r) = Receipts(other, r)
    BY <1>2 DEF ByKind
  <2> QED
    BY <2>1 DEF Receipts, Pass, Review, Fail
<1>3. CASE r.kind = "SPEND_LIMIT"
  <2>1. ByKind(in, r) = Spending(r) /\ ByKind(other, r) = Spending(r)
    BY <1>3 DEF ByKind
  <2> QED
    BY <2>1
<1>4. ASSUME NEW met, NEW missing
      PROVE  Present(in, r, met, missing).outcome = "PASS"
               <=> Present(other, r, met, missing).outcome = "PASS"
  BY DEF Present, Pass, Review, Fail
<1>5. CASE r.kind = "FOUNDER_CONFIRMATION"
  <2>1. /\ ByKind(in, r)
             = Present(in, r, "CONFIRMATION_PRESENT", "CONFIRMATION_MISSING")
        /\ ByKind(other, r)
             = Present(other, r, "CONFIRMATION_PRESENT", "CONFIRMATION_MISSING")
    BY <1>5 DEF ByKind
  <2> QED
    BY <2>1, <1>4
<1>6. CASE r.kind = "TRANSACTION_MATCH"
  <2>1. /\ ByKind(in, r) = Present(in, r, "TRANSACTION_MATCHED", "EVIDENCE_MISSING")
        /\ ByKind(other, r)
             = Present(other, r, "TRANSACTION_MATCHED", "EVIDENCE_MISSING")
    BY <1>6 DEF ByKind
  <2> QED
    BY <2>1, <1>4
<1>7. CASE r.kind = "BUSINESS_PURPOSE"
  <2>1. /\ ByKind(in, r)
             = Present(in, r, "BUSINESS_PURPOSE_PRESENT", "BUSINESS_PURPOSE_MISSING")
        /\ ByKind(other, r)
             = Present(other, r, "BUSINESS_PURPOSE_PRESENT", "BUSINESS_PURPOSE_MISSING")
    BY <1>7 DEF ByKind
  <2> QED
    BY <2>1, <1>4
<1>8. CASE r.kind = "DUE_DATE"
  <2>1. ByKind(in, r) = DueDate(in) /\ ByKind(other, r) = DueDate(other)
    BY <1>8 DEF ByKind
  <2> QED
    BY <2>1 DEF DueDate
<1> QED
  BY <1>1, <1>2, <1>3, <1>5, <1>6, <1>7, <1>8, RequirementKinds DEF Kinds

(* Without an approval on record, the approval is for review.              *)
LEMMA ApprovalPends ==
  ASSUME NEW in, in.approval = NoApproval, NEW r, r.kind = "HUMAN_APPROVAL"
  PROVE  Evaluation(in, r).outcome = "REVIEW"
<1>1. Classification(in) = "PENDING"
  BY DEF Classification, Applies, NoApproval
<1>2. Evaluation(in, r) = HumanApproval(in)
  BY DEF Evaluation, Conflicting, ByKind
<1> QED
  BY <1>1, <1>2 DEF HumanApproval, Pass, Fail, Review

(* An evaluation has one of three outcomes, so a milestone is eligible     *)
(* exactly when every requirement that blocks it passes.                   *)
LEMMA OutcomeIsOneOf ==
  ASSUME NEW in, NEW r \in Requirements
  PROVE  Evaluation(in, r).outcome \in {"PASS", "REVIEW", "FAIL"}
<1>1. ASSUME NEW reason
      PROVE  /\ Pass(reason).outcome = "PASS"
             /\ Review(reason).outcome = "REVIEW"
             /\ Fail(reason).outcome = "FAIL"
  BY DEF Pass, Review, Fail
<1>2. ASSUME NEW met, NEW missing
      PROVE  Present(in, r, met, missing).outcome \in {"PASS", "REVIEW", "FAIL"}
  BY <1>1 DEF Present
<1>3. /\ Deliverables(in, r).outcome \in {"PASS", "REVIEW", "FAIL"}
      /\ Receipts(in, r).outcome \in {"PASS", "REVIEW", "FAIL"}
      /\ Spending(r).outcome \in {"PASS", "REVIEW", "FAIL"}
      /\ DueDate(in).outcome \in {"PASS", "REVIEW", "FAIL"}
      /\ HumanApproval(in).outcome \in {"PASS", "REVIEW", "FAIL"}
  BY <1>1 DEF Deliverables, Receipts, Spending, DueDate, HumanApproval
<1>4. ByKind(in, r).outcome \in {"PASS", "REVIEW", "FAIL"}
  BY <1>2, <1>3, RequirementKinds DEF ByKind, Kinds
<1> QED
  BY <1>1, <1>4 DEF Evaluation

LEMMA EligibleWhenAllPass ==
  ASSUME NEW in
  PROVE  Status(in) = "ELIGIBLE" <=>
           \A r \in Requirements : Blocking(r) => Evaluation(in, r).outcome = "PASS"
<1>1. Status(in) = "ELIGIBLE" <=> ~BlockedBy(in, "FAIL") /\ ~BlockedBy(in, "REVIEW")
  BY DEF Status
<1> QED
  BY <1>1, OutcomeIsOneOf DEF BlockedBy

-----------------------------------------------------------------------------
(* The packet replays                                                      *)

(* What the packet binds: the items somebody accepted, and the decisions.  *)
Bound(s) ==
  [items |-> {e \in s.items : \E m \in HumanMatches(s) : m.evidence = e.id},
   matches |-> HumanMatches(s), at |-> s.at]

LEMMA BoundDecisions ==
  ASSUME NEW s
  PROVE  HumanMatches(Bound(s)) = HumanMatches(s) /\ AiMatches(Bound(s)) = {}
<1>1. /\ Bound(s).matches = HumanMatches(s)
      /\ Bound(s).items = {e \in s.items : \E m \in HumanMatches(s) : m.evidence = e.id}
  BY DEF Bound
<1>2. ASSUME NEW m \in HumanMatches(s)
      PROVE  AuthorizedDecision(Bound(s), m) /\ m.source # "AI_SUGGESTION"
  <2>1. AuthorizedDecision(s, m)
    BY DEF HumanMatches
  <2>2. PICK e \in s.items : e.id = m.evidence /\ e.hash = m.hash
    BY <2>1 DEF AuthorizedDecision
  <2>3. e \in Bound(s).items
    BY <1>1, <2>2
  <2> QED
    BY <2>1, <2>2, <2>3 DEF AuthorizedDecision
<1>3. HumanMatches(Bound(s)) = {m \in HumanMatches(s) : AuthorizedDecision(Bound(s), m)}
  BY <1>1 DEF HumanMatches
<1>4. AiMatches(Bound(s)) = {m \in HumanMatches(s) : m.source = "AI_SUGGESTION"}
  BY <1>1 DEF AiMatches
<1> QED
  BY <1>2, <1>3, <1>4

(* The same items are accepted, and those of a kind are the same, because  *)
(* an id stands for one item.                                              *)
LEMMA BoundCountable ==
  ASSUME NEW s, Boundary(s), NEW r
  PROVE  Countable(Observed(Bound(s)), r) = Countable(Observed(s), r)
<1> DEFINE in  == Observed(s)
           bin == Observed(Bound(s))
<1>1. /\ Bound(s).items = {e \in s.items : \E m \in HumanMatches(s) : m.evidence = e.id}
      /\ HumanMatches(Bound(s)) = HumanMatches(s)
  BY BoundDecisions DEF Bound
<1>2. Accepted(bin, r) = Accepted(in, r)
  <2>1. Accepted(in, r) =
          {e.id : e \in {e \in s.items :
              /\ e.project = Project
              /\ \E m \in HumanMatches(s) :
                   m.requirement = r.id /\ m.evidence = e.id /\ Decided(m, e)}}
    BY AcceptedByPeople
  <2>2. Accepted(bin, r) =
          {e.id : e \in {e \in Bound(s).items :
              /\ e.project = Project
              /\ \E m \in HumanMatches(s) :
                   m.requirement = r.id /\ m.evidence = e.id /\ Decided(m, e)}}
    BY AcceptedByPeople, <1>1
  <2>3. {e \in s.items :
              /\ e.project = Project
              /\ \E m \in HumanMatches(s) :
                   m.requirement = r.id /\ m.evidence = e.id /\ Decided(m, e)}
        = {e \in Bound(s).items :
              /\ e.project = Project
              /\ \E m \in HumanMatches(s) :
                   m.requirement = r.id /\ m.evidence = e.id /\ Decided(m, e)}
    BY <1>1
  <2> QED
    BY <2>1, <2>2, <2>3
<1>3. \A id \in Accepted(in, r) : \E m \in HumanMatches(s) : m.evidence = id
  BY AcceptedByPeople
<1>4. ASSUME NEW kind
      PROVE  OfKind(bin, Accepted(in, r), kind) = OfKind(in, Accepted(in, r), kind)
  <2>1. {e \in Known(bin) : e.id \in Accepted(in, r) /\ e.kind = kind}
          = {e \in Known(in) : e.id \in Accepted(in, r) /\ e.kind = kind}
    BY <1>1, <1>3, ObservedFields DEF Known
  <2> HIDE DEF in, bin
  <2> QED
    BY <2>1 DEF OfKind
<1> HIDE DEF in, bin
<1>5. Countable(bin, r) = Countable(in, r)
  BY <1>2, <1>4 DEF Countable
<1> QED
  BY <1>5 DEF in, bin

LEMMA BoundEvaluated ==
  ASSUME NEW s, Evaluated(s)
  PROVE  Evaluated(Bound(s))
<1>1. Boundary(s) /\ Evaluable(Observed(s))
  BY DEF Evaluated
<1>2. /\ Bound(s).items = {e \in s.items : \E m \in HumanMatches(s) : m.evidence = e.id}
      /\ Bound(s).matches = HumanMatches(s)
      /\ Bound(s).at = s.at
  BY DEF Bound
<1>3. Boundary(Bound(s))
  <2>1. ASSUME NEW m \in HumanMatches(s)
        PROVE  /\ \E e \in Bound(s).items : e.id = m.evidence
               /\ \E r \in Requirements : r.id = m.requirement
    BY <1>2 DEF HumanMatches, AuthorizedDecision
  <2> QED
    BY <1>1, <1>2, <2>1 DEF Boundary
<1>4. Evaluable(Observed(Bound(s)))
  <2>1. \A r \in Requirements :
          Countable(Observed(Bound(s)), r) = Countable(Observed(s), r)
    BY <1>1, BoundCountable
  <2>2. Observed(Bound(s)).references = Observed(s).references
    <3>1. HumanMatches(Bound(s)) = HumanMatches(s)
      BY BoundDecisions
    <3>2. Observed(Bound(s)).references =
            [q \in {r.id : r \in Requirements} |->
               IF KindOfRequirement(q) \in TakesReferences
               THEN {m.evidence : m \in MatchesFor(HumanMatches(s), q)} ELSE {}]
      BY <3>1 DEF Observed
    <3>3. Observed(s).references =
            [q \in {r.id : r \in Requirements} |->
               IF KindOfRequirement(q) \in TakesReferences
               THEN {m.evidence : m \in MatchesFor(HumanMatches(s), q)} ELSE {}]
      BY DEF Observed
    <3> QED
      BY <3>2, <3>3
  <2>3. Known(Observed(Bound(s))) \subseteq Known(Observed(s))
        /\ Observed(Bound(s)).at = Observed(s).at
    BY <1>2, ObservedFields DEF Known
  <2> QED
    BY <1>1, <2>1, <2>2, <2>3, ObservedFields
       DEF Evaluable, ReferencesResolve, Conflicting
<1> QED
  BY <1>3, <1>4 DEF Evaluated

(* For any requirements, items, matches and time, an evaluator finds from  *)
(* the packet alone the same requirements passed and the same eligibility  *)
(* (buildMilestoneEvaluationPacket).                                       *)
LEMMA PacketCarriesAll == PacketReplays
<1> SUFFICES ASSUME Evaluated(slice)
             PROVE  /\ Evaluated(Bound(slice))
                    /\ \A r \in Requirements :
                         Packet(slice).outcomes[r].outcome = "PASS"
                           <=> Packet(Bound(slice)).outcomes[r].outcome = "PASS"
                    /\ Packet(slice).status = "ELIGIBLE"
                         <=> Packet(Bound(slice)).status = "ELIGIBLE"
  <2>1. [items |-> Packet(slice).items, matches |-> Packet(slice).bindings,
         at |-> Packet(slice).at] = Bound(slice)
    BY DEF Packet, Bound
  <2> QED
    BY <2>1 DEF PacketReplays
<1>1. \A r \in Requirements :
        Evaluation(Observed(slice), r).outcome = "PASS"
          <=> Evaluation(Observed(Bound(slice)), r).outcome = "PASS"
  <2>1. Observed(slice).at = Observed(Bound(slice)).at
    <3>1. slice.at = Bound(slice).at
      BY DEF Bound
    <3> QED
      BY <3>1, ObservedFields
  <2>2. \A r \in Requirements :
          Countable(Observed(slice), r) = Countable(Observed(Bound(slice)), r)
    BY BoundCountable DEF Evaluated
  <2>3. ASSUME NEW s
        PROVE  Observed(s).conflicts = {} /\ Observed(s).approval = NoApproval
    BY ObservedFields
  <2>4. ASSUME NEW r \in Requirements, r.kind = "HUMAN_APPROVAL"
        PROVE  /\ Evaluation(Observed(slice), r).outcome = "REVIEW"
               /\ Evaluation(Observed(Bound(slice)), r).outcome = "REVIEW"
    BY <2>3, <2>4, ApprovalPends
  <2>5. ASSUME NEW r \in Requirements, r.kind # "HUMAN_APPROVAL"
        PROVE  Evaluation(Observed(slice), r).outcome = "PASS"
                 <=> Evaluation(Observed(Bound(slice)), r).outcome = "PASS"
    BY <2>1, <2>2, <2>3, <2>5, PassesByCountable
  <2> QED
    BY <2>4, <2>5
<1>2. ASSUME NEW s
      PROVE  /\ \A r \in Requirements :
                  Packet(s).outcomes[r] = Evaluation(Observed(s), r)
             /\ Packet(s).status = Status(Observed(s))
  BY DEF Packet
<1>3. Status(Observed(slice)) = "ELIGIBLE" <=> Status(Observed(Bound(slice))) = "ELIGIBLE"
  BY <1>1, EligibleWhenAllPass
<1> QED
  BY <1>1, <1>2, <1>3, BoundEvaluated

THEOREM PacketAlwaysReplays == EvidenceSpec => []PacketReplays
BY PacketCarriesAll, PTL

-----------------------------------------------------------------------------
(* A gap is recovered once                                                 *)

(* When a receipt and its decision are added, what was accepted stays      *)
(* accepted, and no receipt waits that did not wait before: the new item   *)
(* comes with a decision, and no model suggested it before it was there.   *)
LEMMA NothingPendingAdded ==
  ASSUME NEW s, NEW receipt, NEW match, NEW t, NEW r,
         match.source = "HUMAN_DECISION",
         Boundary(s), Boundary(With(s, receipt, match, t)),
         PendingReceipts(Observed(With(s, receipt, match, t)), r)
  PROVE  PendingReceipts(Observed(s), r)
<1> DEFINE with == With(s, receipt, match, t)
<1>1. with.items = s.items \cup {receipt} /\ with.matches = s.matches \cup {match}
  BY DEF With
<1> DEFINE in   == Observed(s)
           win  == Observed(with)
<1>2. /\ in.items = s.items /\ in.matches = HumanMatches(s) \cup AiMatches(s)
      /\ win.items = with.items
      /\ win.matches = HumanMatches(with) \cup AiMatches(with)
  BY ObservedFields
<1>b. Boundary(with) /\ PendingReceipts(win, r)
  OBVIOUS
<1>a. /\ Accepted(in, r) =
           {e.id : e \in {e \in s.items :
              /\ e.project = Project
              /\ \E m \in HumanMatches(s) :
                   m.requirement = r.id /\ m.evidence = e.id /\ Decided(m, e)}}
      /\ Accepted(win, r) =
           {e.id : e \in {e \in with.items :
              /\ e.project = Project
              /\ \E m \in HumanMatches(with) :
                   m.requirement = r.id /\ m.evidence = e.id /\ Decided(m, e)}}
  BY AcceptedByPeople
<1> HIDE DEF with, in, win
<1>3. HumanMatches(s) \subseteq HumanMatches(with)
  BY <1>1 DEF HumanMatches, AuthorizedDecision
<1>4. AiMatches(with) = AiMatches(s)
  BY <1>1 DEF AiMatches
<1>5. Accepted(in, r) \subseteq Accepted(win, r)
  BY <1>1, <1>3, <1>a
<1>6. PICK e \in with.items :
        /\ e.project = Project /\ e.kind = "RECEIPT"
        /\ e.id \in Suggested(win, r) /\ e.id \notin Accepted(win, r)
  BY <1>b, <1>2 DEF PendingReceipts, OfKind, Known
<1>7. PICK m \in AiMatches(s) : m.requirement = r.id /\ m.evidence = e.id
  <2>1. PICK f \in Known(win), m \in win.matches :
          /\ f.id = e.id
          /\ m.requirement = r.id /\ m.evidence = f.id /\ m.source = "AI_SUGGESTION"
    BY <1>6 DEF Suggested, MatchesOf
  <2>2. m \in AiMatches(with)
    BY <1>2, <2>1 DEF AiMatches, HumanMatches
  <2> QED
    BY <1>4, <2>1, <2>2
<1>8. e \in s.items
  <2>1. PICK f \in s.items : f.id = m.evidence
    BY <1>7 DEF Boundary, AiMatches
  <2>2. f = e
    BY <1>1, <1>6, <1>7, <1>b, <2>1 DEF Boundary
  <2> QED
    BY <2>1, <2>2
<1>9. e \in Known(in)
  BY <1>2, <1>6, <1>8 DEF Known
<1>10. e.id \in Suggested(in, r)
  <2>1. m \in MatchesOf(in, r, e) /\ m.source = "AI_SUGGESTION"
    BY <1>2, <1>7 DEF MatchesOf, AiMatches
  <2> QED
    BY <1>9, <2>1 DEF Suggested
<1>11. PendingReceipts(in, r)
  BY <1>5, <1>6, <1>9, <1>10 DEF PendingReceipts, OfKind
<1> QED
  BY <1>11 DEF in

(* An accepted recovery makes the requirement of its gap pass.             *)
LEMMA RecoveryPasses ==
  ASSUME NEW gap \in CurrentGaps, NEW receipt, NEW match, NEW t,
         match.source = "HUMAN_DECISION",
         CanRecover(gap, receipt, match, t)
  PROVE  Outcome(With(slice, receipt, match, t), gap).outcome = "PASS"
<1> DEFINE with == With(slice, receipt, match, t)
<1>1. Evaluated(slice) /\ gap \in Gaps(slice)
  BY DEF CurrentGaps
<1>2. /\ gap \in Requirements /\ gap.kind = "EXPENSE_RECORDS" /\ gap.required
      /\ Evaluation(Observed(slice), gap).reason = "RECEIPT_COUNT_SHORT"
  BY <1>1 DEF Gaps, Outcome
<1>3. Evaluated(with) /\ gap \notin Gaps(with)
  BY DEF CanRecover
<1>4. Evaluation(Observed(with), gap).reason # "RECEIPT_COUNT_SHORT"
  BY <1>2, <1>3 DEF Gaps, Outcome
<1>5. ~PendingReceipts(Observed(slice), gap)
  BY <1>2, ReceiptOutcome, ObservedFields
<1>6. ~PendingReceipts(Observed(with), gap)
  BY <1>1, <1>3, <1>5, NothingPendingAdded DEF Evaluated
<1>7. Observed(with).conflicts = {}
  BY ObservedFields
<1>8. Evaluation(Observed(with), gap).outcome = "PASS"
  BY <1>2, <1>4, <1>6, <1>7, ReceiptOutcome
<1> QED
  BY <1>8 DEF Outcome

-----------------------------------------------------------------------------
(* The inductive invariant: there was no recovery, or the history and the  *)
(* answers agree on one.  It names the gap, because the next recovery is   *)
(* refused only for the gap it closes, and everything the event says.      *)

Recoveries == {event \in history : event.type = "PROOF_RECOVERY_ACCEPTED"}

RecoveredAs(gap, receipt, match, t) ==
  /\ gap.kind = "EXPENSE_RECORDS"
  /\ Recoveries = {RecoveryEvent(gap, receipt, match, t)}
  /\ answers = {[evidence |-> receipt.id, hash |-> receipt.hash, match |-> match,
                 at |-> t, outcome |-> "PASS"]}

RecoveryInv ==
  \/ Recoveries = {} /\ answers = {}
  \/ \E gap \in Requirements, e \in Evidence, a \in Actors, t \in Times :
       RecoveredAs(gap, EvidenceItem(e), Decision(EvidenceItem(e), gap, a), t)

LEMMA EventFields ==
  ASSUME NEW gap, NEW receipt, NEW match, NEW t
  PROVE  /\ RecoveryEvent(gap, receipt, match, t).type = "PROOF_RECOVERY_ACCEPTED"
         /\ RecoveryEvent(gap, receipt, match, t).gap = gap.id
         /\ RecoveryEvent(gap, receipt, match, t).match = match
         /\ RecoveryEvent(gap, receipt, match, t).evidence = receipt.id
         /\ RecoveryEvent(gap, receipt, match, t).hash = receipt.hash
         /\ RecoveryEvent(gap, receipt, match, t).occurredAt = t
BY DEF RecoveryEvent

LEMMA RecoveryInvInit == EvidenceInit => RecoveryInv
BY DEF EvidenceInit, RecoveryInv, Recoveries

LEMMA RecoverStep ==
  ASSUME RecoveryInv,
         NEW gap \in Requirements, NEW e \in Evidence, NEW a \in Actors, NEW t \in Times,
         Recover(gap, EvidenceItem(e), Decision(EvidenceItem(e), gap, a), t)
  PROVE  RecoveryInv'
<1> DEFINE receipt == EvidenceItem(e)
           match   == Decision(EvidenceItem(e), gap, a)
           new     == RecoveryEvent(gap, receipt, match, t)
           answer  == [evidence |-> receipt.id, hash |-> receipt.hash, match |-> match,
                       at |-> t, outcome |-> "PASS"]
<1>1. match.source = "HUMAN_DECISION"
  BY DEF Decision
<1>2. CanRecover(gap, receipt, match, t) /\ gap \in CurrentGaps
  BY DEF Recover, CanRecover
<1>3. Outcome(With(slice, receipt, match, t), gap).outcome = "PASS"
  BY <1>1, <1>2, RecoveryPasses
<1>4. history' = history \cup {new} /\ answers' = answers \cup {answer}
  BY <1>3 DEF Recover
<1>5. gap \in Requirements /\ gap.kind = "EXPENSE_RECORDS"
  BY <1>2 DEF CurrentGaps, Gaps
<1>6. Collisions(new) \subseteq {new}
  BY <1>2 DEF CanRecover
<1>7. new.type = "PROOF_RECOVERY_ACCEPTED" /\ new.gap = gap.id
  BY EventFields
<1>8. Recoveries' = Recoveries \cup {new}
  BY <1>4, <1>7 DEF Recoveries
<1>9. SUFFICES Recoveries' = {new} /\ answers' = {answer}
  <2>1. RecoveredAs(gap, receipt, match, t)'
    BY <1>5, <1>9 DEF RecoveredAs
  <2> QED
    BY <1>5, <2>1 DEF RecoveryInv
<1>10. CASE Recoveries = {} /\ answers = {}
  BY <1>4, <1>8, <1>10
<1>11. ASSUME NEW gap2 \in Requirements, NEW e2 \in Evidence, NEW a2 \in Actors,
              NEW t2 \in Times,
              RecoveredAs(gap2, EvidenceItem(e2), Decision(EvidenceItem(e2), gap2, a2), t2)
       PROVE  Recoveries' = {new} /\ answers' = {answer}
  <2> DEFINE receipt2 == EvidenceItem(e2)
             match2   == Decision(EvidenceItem(e2), gap2, a2)
             old      == RecoveryEvent(gap2, receipt2, match2, t2)
             answer2  == [evidence |-> receipt2.id, hash |-> receipt2.hash,
                          match |-> match2, at |-> t2, outcome |-> "PASS"]
  <2>1. /\ gap2.kind = "EXPENSE_RECORDS"
        /\ Recoveries = {old} /\ answers = {answer2}
    BY <1>11 DEF RecoveredAs
  <2>2. gap2 = gap
    BY <1>5, <2>1, OneReceiptRequirement
  <2>3. /\ old.type = "PROOF_RECOVERY_ACCEPTED" /\ old.gap = gap2.id
        /\ old.match = match2 /\ old.evidence = receipt2.id
        /\ old.hash = receipt2.hash /\ old.occurredAt = t2
    BY EventFields
  <2>4. /\ new.match = match /\ new.evidence = receipt.id
        /\ new.hash = receipt.hash /\ new.occurredAt = t
    BY EventFields
  <2> HIDE DEF old, new, receipt, receipt2, match, match2
  <2>5. old \in Collisions(new)
    BY <1>7, <2>1, <2>2, <2>3 DEF Collisions, Collides, Recoveries
  <2>6. old = new
    BY <1>6, <2>5
  <2>7. answer2 = answer
    BY <2>3, <2>4, <2>6
  <2> QED
    BY <1>4, <1>8, <2>1, <2>6, <2>7
<1> QED
  BY <1>10, <1>11 DEF RecoveryInv

LEMMA RecoveryInvStep == RecoveryInv /\ [EvidenceNext]_evidenceVars => RecoveryInv'
<1> SUFFICES ASSUME RecoveryInv, [EvidenceNext]_evidenceVars
             PROVE  RecoveryInv'
  OBVIOUS
<1>1. ASSUME UNCHANGED <<history, answers>>
      PROVE  RecoveryInv'
  <2>1. Recoveries' = Recoveries
    BY <1>1 DEF Recoveries
  <2> QED
    BY <1>1, <2>1 DEF RecoveryInv, RecoveredAs
<1>2. CASE \E e \in Evidence : Submit(e)
  BY <1>1, <1>2 DEF Submit
<1>3. CASE \E e \in slice.items : Replace(e)
  BY <1>1, <1>3 DEF Replace
<1>4. CASE \E e \in slice.items, r \in Matchable : Match(Suggestion(e, r))
  BY <1>1, <1>4 DEF Match
<1>5. CASE \E e \in slice.items, r \in Matchable, a \in Actors : Match(Decision(e, r, a))
  BY <1>1, <1>5 DEF Match
<1>6. CASE Reevaluate
  BY <1>1, <1>6 DEF Reevaluate
<1>7. ASSUME NEW t \in Times, Log(t)
      PROVE  RecoveryInv'
  <2>1. history' = history \cup {Later(t)} /\ answers' = answers
    BY <1>7 DEF Log
  <2>2. Later(t).type # "PROOF_RECOVERY_ACCEPTED"
    BY DEF Later
  <2>3. Recoveries' = Recoveries
    BY <2>1, <2>2 DEF Recoveries
  <2> QED
    BY <2>1, <2>3 DEF RecoveryInv, RecoveredAs
<1>8. CASE \E gap \in Requirements, e \in Evidence, a \in Actors, t \in Times :
             Recover(gap, EvidenceItem(e), Decision(EvidenceItem(e), gap, a), t)
  BY <1>8, RecoverStep
<1>9. CASE UNCHANGED evidenceVars
  BY <1>1, <1>9 DEF evidenceVars
<1> QED
  BY <1>2, <1>3, <1>4, <1>5, <1>6, <1>7, <1>8, <1>9 DEF EvidenceNext

LEMMA RecoveredOnce == RecoveryInv => OneRecovery
<1>1. CASE Recoveries = {} /\ answers = {}
  BY <1>1 DEF OneRecovery
<1>2. ASSUME NEW gap, NEW receipt, NEW match, NEW t, RecoveredAs(gap, receipt, match, t)
      PROVE  OneRecovery
  <2>1. /\ Recoveries = {RecoveryEvent(gap, receipt, match, t)}
        /\ answers = {[evidence |-> receipt.id, hash |-> receipt.hash, match |-> match,
                       at |-> t, outcome |-> "PASS"]}
    BY <1>2 DEF RecoveredAs
  <2>2. {<<event.evidence, event.hash, event.match, event.occurredAt>> :
           event \in Recoveries} = {<<receipt.id, receipt.hash, match, t>>}
    BY <2>1, EventFields
  <2> QED
    BY <2>1, <2>2 DEF OneRecovery, Recoveries
<1> QED
  BY <1>1, <1>2 DEF RecoveryInv

(* However often a founder retries, with whatever receipts, decisions and  *)
(* times, and however slice and history grow in between, one recovery of a *)
(* gap is accepted (applyMissingReceiptRecovery).                          *)
THEOREM GapRecoveredOnce == EvidenceSpec => []OneRecovery
BY RecoveryInvInit, RecoveryInvStep, RecoveredOnce, PTL DEF EvidenceSpec

-----------------------------------------------------------------------------
(* An approval counts only for what the evaluator was shown                *)

(* Inputs with one subject have the same countable evidence: decisions,    *)
(* items and references are in the subject, suggestions never count.       *)
LEMMA SubjectDecides ==
  ASSUME NEW in, NEW other, Subject(in) = Subject(other)
  PROVE  /\ in.at = other.at /\ in.conflicts = other.conflicts
         /\ \A r : Countable(in, r) = Countable(other, r)
<1>1. /\ in.at = other.at /\ in.conflicts = other.conflicts
      /\ Known(in) = Known(other)
      /\ {m \in in.matches : m.source = "HUMAN_DECISION"}
           = {m \in other.matches : m.source = "HUMAN_DECISION"}
  BY DEF Subject
<1>2. ASSUME NEW r, NEW e
      PROVE  (\E m \in MatchesOf(in, r, e) : Decided(m, e))
               <=> \E m \in MatchesOf(other, r, e) : Decided(m, e)
  BY <1>1 DEF MatchesOf, Decided
<1>3. ASSUME NEW r
      PROVE  Accepted(in, r) = Accepted(other, r)
  BY <1>1, <1>2 DEF Accepted
<1>4. ASSUME NEW ids, NEW kind
      PROVE  OfKind(in, ids, kind) = OfKind(other, ids, kind)
  BY <1>1 DEF OfKind
<1>5. ASSUME NEW r
      PROVE  Countable(in, r) = Countable(other, r)
  BY <1>3, <1>4 DEF Countable
<1> QED
  BY <1>1, <1>5

LEMMA SubjectFindings ==
  ASSUME NEW in, NEW other, Subject(in) = Subject(other)
  PROVE  /\ \A r \in Requirements : r.kind # "HUMAN_APPROVAL" =>
              (Evaluation(in, r).outcome = "PASS" <=> Evaluation(other, r).outcome = "PASS")
         /\ Status(in) = "ELIGIBLE" <=> Status(other) = "ELIGIBLE"
<1>1. \A r \in Requirements : r.kind # "HUMAN_APPROVAL" =>
        (Evaluation(in, r).outcome = "PASS" <=> Evaluation(other, r).outcome = "PASS")
  BY SubjectDecides, PassesByCountable
<1> QED
  BY <1>1, EligibleWhenAllPass DEF Blocking

(* What the policy is given, and what is bound of it.                      *)
LEMMA PolicyFields ==
  /\ PolicyInput.items = slice.items /\ PolicyInput.at = slice.at
  /\ PolicyInput.matches = HumanMatches(slice) \cup AiMatches(slice)
  /\ PolicyInput.approval = approval
<1>1. PICK o : o = Observed(slice)
  OBVIOUS
<1>2. o = [items |-> o.items, matches |-> o.matches, at |-> o.at,
           approval |-> o.approval, conflicts |-> o.conflicts,
           references |-> o.references, reported |-> o.reported]
  BY <1>1 DEF Observed
<1>3. PolicyInput = [o EXCEPT !.conflicts = conflicts, !.approval = approval]
  BY <1>1 DEF PolicyInput
<1>4. /\ PolicyInput.items = o.items /\ PolicyInput.at = o.at
      /\ PolicyInput.matches = o.matches /\ PolicyInput.approval = approval
  BY <1>2, <1>3
<1> QED
  BY <1>1, <1>4, ObservedFields

LEMMA BindingsAreDecisions ==
  HumanMatches(slice) = Subject(PolicyInput).decisions
<1>1. Subject(PolicyInput).decisions
        = {m \in PolicyInput.matches : m.source = "HUMAN_DECISION"}
  BY DEF Subject
<1> QED
  BY <1>1, PolicyFields DEF HumanMatches, AiMatches, AuthorizedDecision

(* The inductive invariant: the record is bound to an input of which the   *)
(* evaluator was shown the findings.                                       *)
FindingsOf(in) ==
  [bindings |-> Subject(in).decisions,
   passed   |-> {r \in Requirements : r.kind # "HUMAN_APPROVAL"
                   /\ Evaluation(in, r).outcome = "PASS"},
   eligible |-> Status(in) = "ELIGIBLE"]

ApprovalInv ==
  approval.decision # "PENDING" =>
    \E in : approval.subject = Subject(in) /\ seen = FindingsOf(in)

LEMMA FindingsNow == Findings = FindingsOf(PolicyInput)
BY BindingsAreDecisions DEF Findings, FindingsOf

LEMMA ApprovalInvInit == ApprovalInit => ApprovalInv
BY DEF ApprovalInit, ApprovalInv, NoApproval

LEMMA ApprovalInvStep == ApprovalInv /\ [ApprovalNext]_approvalVars => ApprovalInv'
<1> SUFFICES ASSUME ApprovalInv, [ApprovalNext]_approvalVars
             PROVE  ApprovalInv'
  OBVIOUS
<1>1. ASSUME UNCHANGED <<approval, seen>>
      PROVE  ApprovalInv'
  BY <1>1 DEF ApprovalInv
<1>2. ASSUME NEW v \in Verdicts, Decide(v)
      PROVE  ApprovalInv'
  <2>1. /\ approval'.subject = Subject(PolicyInput)
        /\ seen' = FindingsOf(PolicyInput)
    BY <1>2, FindingsNow DEF Decide
  <2>2. PICK in : in = PolicyInput
    OBVIOUS
  <2>3. approval'.subject = Subject(in) /\ seen' = FindingsOf(in)
    BY <2>1, <2>2
  <2> QED
    BY <2>3 DEF ApprovalInv
<1>3. CASE Gather
  BY <1>1, <1>3 DEF Gather
<1>4. CASE \E r \in Disputed : Report(r)
  BY <1>1, <1>4 DEF Report
<1>5. CASE UNCHANGED approvalVars
  BY <1>1, <1>5 DEF approvalVars
<1> QED
  BY <1>2, <1>3, <1>4, <1>5 DEF ApprovalNext

LEMMA CountsAsSeen == ApprovalInv => ApprovedAsSeen
<1> SUFFICES ASSUME ApprovalInv, Classification(PolicyInput) # "PENDING"
             PROVE  approval.by = Evaluator /\ Findings = seen
  BY DEF ApprovedAsSeen
<1>1. Applies(approval, PolicyInput)
  BY PolicyFields DEF Classification
<1>2. /\ approval.by = Evaluator /\ approval.decision # "PENDING"
      /\ approval.subject = Subject(PolicyInput)
  BY <1>1 DEF Applies
<1>3. PICK in : approval.subject = Subject(in) /\ seen = FindingsOf(in)
  BY <1>2 DEF ApprovalInv
<1>4. PICK now : now = PolicyInput
  OBVIOUS
<1>5. Subject(now) = Subject(in)
  BY <1>2, <1>3, <1>4
<1>6. FindingsOf(now) = FindingsOf(in)
  <2>1. /\ {r \in Requirements : r.kind # "HUMAN_APPROVAL"
               /\ Evaluation(now, r).outcome = "PASS"}
           = {r \in Requirements : r.kind # "HUMAN_APPROVAL"
               /\ Evaluation(in, r).outcome = "PASS"}
        /\ (Status(now) = "ELIGIBLE") = (Status(in) = "ELIGIBLE")
    BY <1>5, SubjectFindings
  <2> QED
    BY <1>5, <2>1 DEF FindingsOf
<1> QED
  BY <1>2, <1>3, <1>4, <1>6, FindingsNow

(* However the evidence changes after the evaluator decided, an approval   *)
(* or a rejection that still applies means the same accepted evidence and  *)
(* the same passing requirements (classifyMilestoneApproval).              *)
THEOREM ApprovalCountsAsSeen == ApprovalSpec => []ApprovedAsSeen
BY ApprovalInvInit, ApprovalInvStep, CountsAsSeen, PTL DEF ApprovalSpec

-----------------------------------------------------------------------------
(* Rounding                                                                *)

RequestTyped ==
  budget \in Int /\ ins \in Seq(Instruction(Reserves, FixedAmounts, Points))

(* Every request that can be resolved is one the lemmas are about.         *)
LEMMA RequestsArePosed ==
  ASSUME RequestTyped, Resolved
  PROVE  Posed(budget, ins)
<1>1. /\ Len(ins) \in Nat /\ DOMAIN ins = 1 .. Len(ins)
      /\ \A i \in DOMAIN ins : ins[i] \in Instruction(Reserves, FixedAmounts, Points)
  BY DEF RequestTyped
<1>2. IsFiniteSet(DOMAIN ins) /\ DOMAIN ins \subseteq Int
  BY <1>1, FS_Interval
<1>3. \A x \in Instruction(Reserves, FixedAmounts, Points) :
        x.reserve \in Int /\ x.value \in Nat /\ x.kind \in {"FIXED", "PERCENTAGE"}
  BY RulesAssumption DEF Instruction
<1>4. Instructions(ins)
  BY <1>1, <1>2, <1>3 DEF Instructions
<1>q. QED
  BY <1>4 DEF RequestTyped, Resolved, Resolvable, Posed

LEMMA RequestsRound ==
  ASSUME RequestTyped
  PROVE  RoundsByPolicy
<1>1. NoUnitLost
  BY RequestsArePosed, ResolveLosesNoUnit DEF NoUnitLost
<1>2. LargestRemainder
  BY RequestsArePosed, ResolveServesRemainders DEF LargestRemainder
<1>3. OrderIndependent
  BY RequestsArePosed, ResolveIgnoresOrder DEF OrderIndependent
<1>q. QED
  BY <1>1, <1>2, <1>3 DEF RoundsByPolicy

LEMMA RequestsStayTyped ==
  ASSUME RequestTyped, [Instruct \/ Collect \/ Approve]_vars
  PROVE  RequestTyped'
<1>1. CASE Instruct
  <2>1. PICK i \in Instruction(Reserves, FixedAmounts, Points) : ins' = Append(ins, i)
    BY <1>1 DEF Instruct
  <2>2. budget' = budget
    BY <1>1 DEF Instruct
  <2>q. QED
    BY <2>1, <2>2 DEF RequestTyped
<1>2. CASE Collect \/ Approve \/ UNCHANGED vars
  BY <1>2 DEF Collect, Approve, vars, RequestTyped
<1>q. QED
  BY <1>1, <1>2

(* However a proposal is put together, its resolution loses no unit, gives *)
(* the units left over to the largest remainders, and takes no account of  *)
(* the order of the instructions (resolveAllocations).                     *)
THEOREM AllocationRoundsByPolicy == Spec => []RoundsByPolicy
<1>1. Init => RequestTyped
  BY RulesAssumption DEF Init, RequestTyped
<1>2. RequestTyped /\ [Instruct \/ Collect \/ Approve]_vars => RequestTyped'
  BY RequestsStayTyped
<1>3. RequestTyped => RoundsByPolicy
  BY RequestsRound
<1>q. QED
  BY <1>1, <1>2, <1>3, PTL DEF Spec
=============================================================================
