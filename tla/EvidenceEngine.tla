--------------------------- MODULE EvidenceEngine ---------------------------
(***************************************************************************)
(* The evidence of a milestone and the recovery of a missing receipt       *)
(* (evaluateEvidenceEngine, applyMissingReceiptRecovery,                   *)
(* buildMilestoneEvaluationPacket).  A slice holds the items, the matches  *)
(* and the time of one evaluation; its owner adds to it, and asks for a    *)
(* recovery with the slice and the audit history it holds.  A match is     *)
(* identified by its content, so no two matches of a slice share an id.    *)
(***************************************************************************)
EXTENDS MilestoneEngine

CONSTANTS
  Evidence,          \* ids of evidence items
  KindOf,            \* the kind of each
  ProjectOf,         \* the project of each
  SubmittedAt,       \* the time each is submitted
  Stranger,          \* an actor the project does not expect
  MaxTime,           \* bound: the last time
  MaxItems,          \* bound: most items of a slice
  MaxMatches         \* bound: most matches of a slice

Kinds ==
  {"DELIVERABLE", "EXPENSE_RECORDS", "SPEND_LIMIT", "FOUNDER_CONFIRMATION",
   "TRANSACTION_MATCH", "BUSINESS_PURPOSE", "DUE_DATE", "HUMAN_APPROVAL"}

ASSUME RequirementKinds == \A r \in Requirements : r.kind \in Kinds

(* The engine looks for the gap of the first requirement for receipts only. *)
ASSUME OneReceiptRequirement ==
  \A r, q \in Requirements :
    r.kind = "EXPENSE_RECORDS" /\ q.kind = "EXPENSE_RECORDS" => r = q

VARIABLES
  slice,             \* items, matches and time of the evaluation
  history,           \* the audit events
  answers            \* the recoveries that were accepted

evidenceVars == <<slice, history, answers>>

Actors == {Founder, Evaluator, Stranger}
Times  == 1 .. MaxTime
Copy   == "COPY"     \* a content that any item may be replaced with

(* An item as it is submitted: its id stands for its content too.          *)
EvidenceItem(e) ==
  [id |-> e, project |-> ProjectOf[e], kind |-> KindOf[e],
   hash |-> e, submitted |-> SubmittedAt[e]]

Suggestion(e, r) ==
  [evidence |-> e.id, requirement |-> r.id, source |-> "AI_SUGGESTION",
   hash |-> None, by |-> None]
Decision(e, r, actor) ==
  [evidence |-> e.id, requirement |-> r.id, source |-> "HUMAN_DECISION",
   hash |-> e.hash, by |-> actor]

-----------------------------------------------------------------------------
(* From a slice to the policy                                              *)

Boundary(s) ==
  /\ \A e \in s.items : e.submitted <= s.at /\ e.project = Project
  /\ \A e, f \in s.items : e.id = f.id \/ e.hash = f.hash => e = f
  /\ \A m \in s.matches :
       /\ \E e \in s.items : e.id = m.evidence
       /\ \E r \in Requirements : r.id = m.requirement

AuthorizedDecision(s, m) ==
  /\ m.source = "HUMAN_DECISION"
  /\ \E e \in s.items : e.id = m.evidence /\ e.hash = m.hash
  /\ \E r \in Requirements :
       /\ r.id = m.requirement
       /\ m.by \in IF r.kind = "FOUNDER_CONFIRMATION"
                   THEN {Founder} ELSE {Founder, Evaluator}

HumanMatches(s) == {m \in s.matches : AuthorizedDecision(s, m)}
AiMatches(s)    == {m \in s.matches : m.source = "AI_SUGGESTION"}

MatchesFor(M, q) == {m \in M : m.requirement = q}

TakesReferences ==
  {"DELIVERABLE", "EXPENSE_RECORDS", "FOUNDER_CONFIRMATION",
   "TRANSACTION_MATCH", "BUSINESS_PURPOSE"}
TakesReports == TakesReferences \ AlwaysResolved

KindOfRequirement(q) == (CHOOSE r \in Requirements : r.id = q).kind

(* What the engine tells the policy: the items people accepted, and        *)
(* whether anyone, a model included, reports what is required; never an    *)
(* approval or a conflict.                                                 *)
Observed(s) ==
  LET ids    == {r.id : r \in Requirements}
      human  == HumanMatches(s)
      policy == human \cup AiMatches(s)
  IN  [items |-> s.items, matches |-> policy, at |-> s.at,
       approval |-> NoApproval, conflicts |-> {},
       references |-> [q \in ids |->
         IF KindOfRequirement(q) \in TakesReferences
         THEN {m.evidence : m \in MatchesFor(human, q)} ELSE {}],
       reported |-> [q \in ids |->
         MatchesFor(policy, q) # {} /\ KindOfRequirement(q) \in TakesReports]]

Evaluated(s)      == Boundary(s) /\ Evaluable(Observed(s))
Outcome(s, r)     == Evaluation(Observed(s), r)
EvidenceStatus(s) == Status(Observed(s))

(* The gap a founder may close: the required receipts are short.           *)
Gaps(s) ==
  {r \in Requirements :
     /\ r.kind = "EXPENSE_RECORDS" /\ r.required
     /\ Outcome(s, r).reason = "RECEIPT_COUNT_SHORT"}

CurrentGaps == IF Evaluated(slice) THEN Gaps(slice) ELSE {}

-----------------------------------------------------------------------------
(* The packet an evaluator gets: what was accepted, and by whom            *)

Packet(s) ==
  LET in == Observed(s) IN
  [bindings |-> HumanMatches(s),
   items    |-> {e \in s.items : \E m \in HumanMatches(s) : m.evidence = e.id},
   outcomes |-> [r \in Requirements |-> Evaluation(in, r)],
   status   |-> Status(in),
   gaps     |-> Gaps(s),
   action   |-> RecommendedAction(in),
   at       |-> s.at]

-----------------------------------------------------------------------------
(* Recovery of a missing receipt                                           *)

With(s, receipt, match, t) ==
  [items |-> s.items \cup {receipt}, matches |-> s.matches \cup {match}, at |-> t]

RecoveryEvent(gap, receipt, match, t) ==
  [type |-> "PROOF_RECOVERY_ACCEPTED", gap |-> gap.id, match |-> match,
   evidence |-> receipt.id, hash |-> receipt.hash, actor |-> match.by,
   occurredAt |-> t]

Later(t) ==
  [type |-> "OTHER", gap |-> None, match |-> None, evidence |-> None,
   hash |-> None, actor |-> None, occurredAt |-> t]

(* Faulty variant: only the recovery of the same receipt collides.         *)
CollidesOnReceipt(event, new) ==
  event.type = new.type /\ event.gap = new.gap /\ event.evidence = new.evidence

(* All recoveries of a gap collide, whatever the receipt.                  *)
Collides(event, new) == event.type = new.type /\ event.gap = new.gap

Collisions(new) == {event \in history : Collides(event, new)}

(* The receipt and the match are new: ids are unique in a slice.           *)
CanRecover(gap, receipt, match, t) ==
  LET new == RecoveryEvent(gap, receipt, match, t)
      recovered == With(slice, receipt, match, t)
  IN  /\ gap.kind = "EXPENSE_RECORDS"
      /\ receipt.project = Project /\ receipt.kind = "RECEIPT"
      /\ Collisions(new) \subseteq {new}
      /\ t >= slice.at /\ t >= receipt.submitted
      /\ \/ Collisions(new) # {}
         \/ \A event \in history : event.occurredAt <= t
      /\ receipt.id \notin {e.id : e \in slice.items}
      /\ match \notin slice.matches
      /\ gap \in CurrentGaps
      /\ Evaluated(recovered)
      /\ gap \notin Gaps(recovered)

Recover(gap, receipt, match, t) ==
  /\ CanRecover(gap, receipt, match, t)
  /\ history' = history \cup {RecoveryEvent(gap, receipt, match, t)}
  /\ answers' = answers \cup
       {[evidence |-> receipt.id, hash |-> receipt.hash, match |-> match, at |-> t,
         outcome |->
           Outcome(With(slice, receipt, match, t), gap).outcome]}
  /\ UNCHANGED slice

-----------------------------------------------------------------------------
(* The owner of the slice                                                  *)

EvidenceInit ==
  /\ slice = [items |-> {}, matches |-> {}, at |-> 1]
  /\ history = {}
  /\ answers = {}

ItemIds == {e.id : e \in slice.items}

Submit(e) ==
  /\ e \notin ItemIds
  /\ Cardinality(slice.items) < MaxItems
  /\ slice' = [slice EXCEPT !.items = @ \cup {EvidenceItem(e)}]
  /\ UNCHANGED <<history, answers>>

(* An item keeps its id and gets another content.                          *)
Replace(e) ==
  /\ e.hash # Copy
  /\ slice' = [slice EXCEPT !.items = (@ \ {e}) \cup {[e EXCEPT !.hash = Copy]}]
  /\ UNCHANGED <<history, answers>>

Match(m) ==
  /\ Cardinality(slice.matches) < MaxMatches
  /\ m \notin slice.matches
  /\ slice' = [slice EXCEPT !.matches = @ \cup {m}]
  /\ UNCHANGED <<history, answers>>

Reevaluate ==
  /\ slice.at < MaxTime
  /\ slice' = [slice EXCEPT !.at = @ + 1]
  /\ UNCHANGED <<history, answers>>

(* Other events are later than the evaluation, so that they may be later   *)
(* than a recovery too.                                                    *)
Log(t) ==
  /\ t > slice.at
  /\ history' = history \cup {Later(t)}
  /\ UNCHANGED <<slice, answers>>

(* Nobody reads a match with a requirement that takes no references.       *)
Matchable == {r \in Requirements : r.kind \in TakesReferences}

EvidenceNext ==
  \/ \E e \in Evidence : Submit(e)
  \/ \E e \in slice.items : Replace(e)
  \/ \E e \in slice.items, r \in Matchable : Match(Suggestion(e, r))
  \/ \E e \in slice.items, r \in Matchable, a \in Actors : Match(Decision(e, r, a))
  \/ Reevaluate
  \/ \E t \in Times : Log(t)
  \/ \E gap \in Requirements, e \in Evidence, a \in Actors, t \in Times :
       Recover(gap, EvidenceItem(e), Decision(EvidenceItem(e), gap, a), t)

EvidenceSpec == EvidenceInit /\ [][EvidenceNext]_evidenceVars

-----------------------------------------------------------------------------
(* Properties                                                              *)

(* The evaluator's packet carries everything the decision rests on: from   *)
(* the items and the decisions it binds alone, with no suggestion of a     *)
(* model and no decision of a stranger or on another content, the same     *)
(* requirements pass and the milestone is as eligible as it was found.     *)
PacketReplays ==
  Evaluated(slice) =>
    LET packet == Packet(slice)
        bound  == [items |-> packet.items, matches |-> packet.bindings,
                   at |-> packet.at]
        replay == Packet(bound)
    IN  /\ Evaluated(bound)
        /\ \A r \in Requirements :
             packet.outcomes[r].outcome = "PASS" <=> replay.outcomes[r].outcome = "PASS"
        /\ packet.status = "ELIGIBLE" <=> replay.status = "ELIGIBLE"

(* A gap is recovered once.  Whatever the founder retries, with the same   *)
(* or another receipt, decision or time, and however the slice and the     *)
(* audit history grow in between, all answers are the first one, it is the *)
(* one event of the gap in the history, and it made the requirement pass.  *)
OneRecovery ==
  /\ \A a, b \in answers : a = b
  /\ \A a \in answers :
       /\ {<<event.evidence, event.hash, event.match, event.occurredAt>> :
             event \in {event \in history : event.type = "PROOF_RECOVERY_ACCEPTED"}}
            = {<<a.evidence, a.hash, a.match, a.at>>}
       /\ a.outcome = "PASS"
=============================================================================
