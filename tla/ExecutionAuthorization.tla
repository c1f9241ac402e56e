----------------------- MODULE ExecutionAuthorization -----------------------
(***************************************************************************)
(* What authorizes a protocol write: an approval of one exact execution    *)
(* intent by the actor whose decision it is, and a binding of that intent  *)
(* to the transaction record that may use it, once.  Approvals and         *)
(* bindings are records that callers persisted earlier, in whatever        *)
(* combination; only the consumption of a binding changes.                 *)
(*                                                                         *)
(* An intent stands for its canonical hash, and its parameters for their   *)
(* commitment: two have equal hashes when they are equal.  `subject' is    *)
(* what the write is done for (releaseRequestId: a release, or the job     *)
(* itself), `job' the ERC-8183 job it is addressed to, or None for a plain *)
(* destination.  Network, contract and parties are the job's, the asset is *)
(* USDC, and the decision that is committed to is the operation's          *)
(* (JOB_EVALUATE approves, JOB_REJECT rejects), so they are left out, as   *)
(* is the id of the intent beside its content.                             *)
(***************************************************************************)
EXTENDS Integers, FiniteSets

CONSTANTS
  Jobs,           \* ids of ERC-8183 jobs
  Releases,       \* ids of release requests
  Records,        \* ids of transaction records
  Actors,         \* who may decide
  References,     \* what deliverable and reason references point to
  Hashes,         \* transaction hashes of the chain
  Approvals,      \* the approval records there are
  Bindings,       \* the bindings there are
  Submissions,    \* the records of submissions and of refunds there are
  Times,          \* times a caller may give
  None            \* absent value (null)

Operations == {"JOB_FUND", "JOB_SUBMIT", "JOB_EVALUATE", "JOB_REJECT",
               "SETTLEMENT", "REFUND"}

Kinds == {"RELEASE_APPROVAL", "MILESTONE_EVALUATION", "JOB_SUBMISSION",
          "JOB_EVALUATION", "JOB_REJECTION"}

Roles == {"FOUNDER", "PROVIDER", "EVALUATOR"}

Decisions == {"PENDING", "APPROVED", "REJECTED"}

(* The kind of approval an operation needs (supportedActionPolicy).        *)
KindFor ==
  [op \in Operations |->
     IF op = "JOB_SUBMIT" THEN "JOB_SUBMISSION"
     ELSE IF op = "JOB_EVALUATE" THEN "JOB_EVALUATION"
     ELSE IF op = "JOB_REJECT" THEN "JOB_REJECTION"
     ELSE "RELEASE_APPROVAL"]

Reference == References \cup {None}

Intent ==
  [op : Operations, job : Jobs \cup {None}, subject : Jobs \cup Releases,
   record : Records, amount : Nat, deliverable : Reference, reason : Reference]

(* Who may give an approval of each kind.                                  *)
RolesFor ==
  [kind \in Kinds |->
     IF kind = "RELEASE_APPROVAL" THEN {"FOUNDER"}
     ELSE IF kind = "JOB_SUBMISSION" THEN {"PROVIDER"}
     ELSE IF kind = "JOB_REJECTION" THEN {"FOUNDER", "EVALUATOR"}
     ELSE {"EVALUATOR"}]

(* `actor' both may decide and, once there is a decision, decided.         *)
Approval ==
  {a \in [id : Nat, kind : Kinds, role : Roles, actor : Actors,
          subject : Jobs \cup Releases, intent : Intent, decision : Decisions,
          decidedAt : Nat, expiresAt : Nat] :
     /\ a.role \in RolesFor[a.kind]
     /\ a.decidedAt <= a.expiresAt}

Binding ==
  [id : Nat, approval : Nat, intent : Intent, record : Records]

(* Evidence of a write: an operation, its status and its hash, which may   *)
(* be unknown while the provider has the write; blocks, explorer address   *)
(* and network go with the hash.                                           *)
Transaction ==
  {t \in [op : Operations, hash : Hashes \cup {None},
          status : {"PREPARED", "SUBMITTED", "CONFIRMED", "FAILED"}] :
     /\ t.status = "PREPARED" => t.hash = None
     /\ t.status = "CONFIRMED" => t.hash # None}

Confirmed(t, op) == t # None /\ t.op = op /\ t.status = "CONFIRMED"

(* What was submitted for a record.  Refunds of jobs name their job.       *)
Submission ==
  [record : Records, job : Jobs \cup {None}, transaction : Transaction, at : Nat]

(* Repositories refuse a second record with an id they have.               *)
ASSUME RecordsAssumption ==
  /\ Approvals \subseteq Approval
  /\ Bindings \subseteq Binding
  /\ Submissions \subseteq Submission
  /\ Times \subseteq Nat
  /\ \A a, b \in Approvals : a.id = b.id => a = b
  /\ \A a, b \in Bindings : a.id = b.id => a = b

ASSUME NamesAssumption ==
  /\ Jobs \cap Releases = {}
  /\ None \notin Jobs \cup Releases \cup References \cup Hashes \cup Nat

VARIABLE consumed   \* when a binding was consumed, or None while it is ACTIVE

AuthorizationInit == consumed = [b \in Bindings |-> None]

ConsumptionTypeOK == consumed \in [Bindings -> Nat \cup {None}]

(* Faulty variant: a binding can be consumed again.                        *)
CanConsumeAgain(b, record) == b.record = record

(* Once, and only by the transaction record the binding names.             *)
CanConsume(b, record) ==
  /\ consumed[b] = None
  /\ b.record = record

Consume(b, record, at) ==
  /\ CanConsume(b, record)
  /\ consumed' = [consumed EXCEPT ![b] = at]

(* Faulty variant: whichever approval the caller presents.                 *)
BoundToAny(b, a) ==
  /\ b.approval = a.id
  /\ b.intent.record = b.record
  /\ consumed[b] # None

(* The consumed binding is of this very approval and of what it approved.  *)
BoundTo(b, a) ==
  /\ b.approval = a.id
  /\ b.intent = a.intent
  /\ b.intent.record = b.record
  /\ consumed[b] # None

(* Approved, then consumed, then submitted, then recorded, all while the   *)
(* approval was valid.                                                     *)
InOrder(a, b, submittedAt, at) ==
  /\ a.decidedAt <= consumed[b]
  /\ consumed[b] <= submittedAt
  /\ submittedAt <= at
  /\ at < a.expiresAt
=============================================================================
