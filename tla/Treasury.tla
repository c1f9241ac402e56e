------------------------------ MODULE Treasury ------------------------------
(***************************************************************************)
(* The LaunchVault treasury (LaunchVaultTreasury): confirmed capital,      *)
(* escrow, allocations of capital to reserves and incoming tranches, with  *)
(* a ledger of every movement.  It lives in one process.                   *)
(*                                                                         *)
(* Each method but createAllocationProposal validates its input, and then  *)
(* gives an action to the idempotency repository, which runs it in a later *)
(* microtask (first in, first out); between the two, other methods may be  *)
(* called.  The actions that approve and apply a proposal wait for a hash  *)
(* in the middle, and hashes arrive in any order.  So a call is one step   *)
(* that queues its action (CallX), one that runs it (RunX), and, for the   *)
(* two, one when the hash arrives (FinishX).                               *)
(*                                                                         *)
(* An action whose checks fail throws before it has changed anything; the  *)
(* idempotency entry of its key is then REJECTED, else RESOLVED.  A call   *)
(* with a key in use changes nothing: it gets the outcome of the entry, or *)
(* an IdempotencyConflictError when its fingerprint differs.               *)
(*                                                                         *)
(* Abstractions.  The vault is in MOCK mode, the only one that takes       *)
(* tranches.  Callers are the configured operator and founder, and there   *)
(* is one asset.  Transaction evidence is its status and hash (blocks and  *)
(* source job are data that is compared and copied).  Audit events are     *)
(* their ids, the only part the code reads again.  A reserve is ACTIVE     *)
(* once something is allocated to it, and nothing reads that status.       *)
(***************************************************************************)
EXTENDS Allocation, SequencesExt

CONSTANTS
  Reserves,         \* the vault's reserves
  Proposals,        \* proposal ids
  Tranches,         \* tranche ids
  Hashes,           \* transaction hashes, in canonical casing
  EventIds,         \* audit event ids
  Keys,             \* idempotency keys
  Amounts,          \* amounts of calls, in atomic units
  InstructionLists, \* instructions of proposals
  Scopes,           \* which operations are called, by idempotency scope
  None,             \* absent value (null or undefined)
  InitialCapital,   \* the vault's capital at the start
  MaxTime,          \* bound: times are 0 .. MaxTime
  MaxCalls          \* bound: calls with a key of their own

ASSUME TreasuryAssumption ==
  /\ Reserves \subseteq Nat
  /\ IsFiniteSet(Reserves)
  /\ Amounts \subseteq Nat
  /\ InitialCapital \in Nat
  /\ MaxTime \in Nat
  /\ MaxCalls \in Nat
  /\ InstructionLists \subseteq Seq(Instruction(Reserves, Nat, 0 .. FullShare))

AllScopes == {"escrow-record", "escrow-release", "allocation-approve",
              "allocation-apply", "tranche-record", "tranche-reconcile"}

ASSUME ScopesAssumption == Scopes \subseteq AllScopes

VARIABLES
  totalCapital,   \* the vault's total capital
  confirmed,      \* confirmed capital
  escrowed,       \* capital in escrow
  allocated,      \* reserve -> capital allocated to it
  proposals,      \* proposal id -> proposal or NoProposal
  tranches,       \* tranche id -> incoming tranche or None
  ledger,         \* the ledger entries, oldest first
  audit,          \* ids of the audit events
  entries,        \* scope and key -> state of the idempotency entry
  queue,          \* actions waiting for their microtask
  hashing         \* actions waiting for a hash

funds   == <<totalCapital, confirmed, escrowed, allocated, ledger>>
records == <<proposals, tranches>>
tasks   == <<entries, queue, hashing>>
vars    == <<funds, records, audit, tasks>>

-----------------------------------------------------------------------------
(* Data                                                                    *)

Times == 0 .. MaxTime

(* The part of a proposal its intent hash covers.  Equal hashes are taken  *)
(* to mean equal intents.                                                  *)
Intent(p, amounts, tranche) ==
  [proposal |-> p, amounts |-> amounts, tranche |-> tranche]

(* A founder's approval: what it approves and when it expires.  It is      *)
(* decided at time 0.  The intent None stands for an approval that fails   *)
(* a check of its fields or its chronology when it is recorded.            *)
Expiries == 1 .. MaxTime

(* An intent no proposal has: amounts are never empty.                     *)
SomethingElse(p) == Intent(p, <<>>, None)

(* An absent proposal, which none is: its status tells.                    *)
NoProposal == [status |-> "ABSENT"]

TrancheStates == {"PREPARED", "SUBMITTED", "CONFIRMED", "FAILED", "RECONCILED"}

TrancheType ==
  [state : TrancheStates, amount : Amounts, hash : Hashes \cup {None}]

(* An absent tranche is not a tranche.                                     *)
ASSUME AbsenceAssumption == None \notin TrancheType

(* Statuses and hashes that go together in transaction evidence.           *)
TransactionRef ==
  [status : {"PREPARED"}, hash : {None}]
    \cup [status : {"SUBMITTED", "FAILED"}, hash : Hashes \cup {None}]
    \cup [status : {"CONFIRMED"}, hash : Hashes]

Entry(kind, ref, reserve, amount, reverses) ==
  [kind |-> kind, ref |-> ref, reserve |-> reserve, amount |-> amount,
   reverses |-> reverses]

(* The id of an entry is built from its kind, what it is about, and the    *)
(* reserve.                                                                *)
EntryId(e) == <<e.kind, e.ref, e.reserve>>
Ids        == {EntryId(ledger[i]) : i \in DOMAIN ledger}

-----------------------------------------------------------------------------
(* Balances                                                                *)

LedgerSum(lg, kinds) ==
  MapThenSumSet(LAMBDA i : lg[i].amount,
                {i \in DOMAIN lg : lg[i].kind \in kinds})

Allocated == AmountTotal(allocated)
Unallocated == confirmed - escrowed - Allocated

(* Allocated and escrowed capital stay within confirmed capital.           *)
Covers(conf, esc, alloc) == AmountTotal(alloc) + esc <= conf

(* The ledger and the balances agree.                                      *)
IsConsistent(total, conf, esc, alloc, lg) ==
  /\ total = conf
  /\ LedgerSum(lg, {"CAPITAL", "SETTLEMENT"}) = conf
  /\ LedgerSum(lg, {"COMMITMENT"}) - LedgerSum(lg, {"REVERSAL"}) = esc
  /\ LedgerSum(lg, {"ALLOCATION"}) = AmountTotal(alloc)

-----------------------------------------------------------------------------
(* The idempotency repository                                              *)

KeyIsNew(scope, key) == entries[scope][key] = "NONE"

Calls == Cardinality({sk \in Scopes \X Keys : entries[sk[1]][sk[2]] # "NONE"})

(* A call with a new key queues its action.                                *)
Enqueue(scope, key, args) ==
  /\ scope \in Scopes
  /\ KeyIsNew(scope, key)
  /\ Calls < MaxCalls
  /\ entries' = [entries EXCEPT ![scope][key] = "IN_FLIGHT"]
  /\ queue' = Append(queue, [scope |-> scope, key |-> key, args |-> args])
  /\ UNCHANGED <<funds, records, audit, hashing>>

Settle(call, outcome) ==
  entries' = [entries EXCEPT ![call.scope][call.key] = outcome]

(* The action of the call at the head of the queue.                        *)
Runs(scope) == queue # <<>> /\ Head(queue).scope = scope
Dequeue     == queue' = Tail(queue)

(* The action throws: nothing but its entry changes.                       *)
Reject(call) ==
  /\ Settle(call, "REJECTED")
  /\ UNCHANGED <<funds, records, audit>>

-----------------------------------------------------------------------------
(* Escrow                                                                  *)

(* Neither the audit event nor the ledger entry exists yet.                *)
FreshIds(event, kind) == event \notin audit /\ <<kind, event, None>> \notin Ids

CallRecordEscrow(k, e, n) ==
  Enqueue("escrow-record", k, [event |-> e, amount |-> n])

(* Faulty variant: the balance is not looked at.                           *)
CanRecordEscrowAnyway(a) ==
  FreshIds(a.event, "COMMITMENT")

CanRecordEscrow(a) ==
  /\ FreshIds(a.event, "COMMITMENT")
  /\ Covers(confirmed, escrowed + a.amount, allocated)

RunRecordEscrow ==
  /\ Runs("escrow-record")
  /\ Dequeue
  /\ LET call == Head(queue)
         a    == call.args
     IN  \/ /\ CanRecordEscrow(a)
            /\ escrowed' = escrowed + a.amount
            /\ ledger' = Append(ledger, Entry("COMMITMENT", a.event, None, a.amount, None))
            /\ audit' = audit \cup {a.event}
            /\ Settle(call, "RESOLVED")
            /\ UNCHANGED <<totalCapital, confirmed, allocated, records>>
         \/ ~CanRecordEscrow(a) /\ Reject(call)
  /\ UNCHANGED hashing

CallReleaseEscrow(k, e, n, target) ==
  Enqueue("escrow-release", k, [event |-> e, amount |-> n, target |-> target])

ReversedOf(id) ==
  MapThenSumSet(LAMBDA i : ledger[i].amount,
                {i \in DOMAIN ledger : ledger[i].kind = "REVERSAL"
                                         /\ ledger[i].reverses = id})

(* Faulty variant: earlier reversals of the commitment are not counted.    *)
CanReverseAgain(a) ==
  \E i \in DOMAIN ledger :
    /\ EntryId(ledger[i]) = a.target
    /\ ledger[i].kind = "COMMITMENT"
    /\ a.amount <= ledger[i].amount

(* The target is a commitment with enough of it not yet reversed.          *)
CanReverse(a) ==
  \E i \in DOMAIN ledger :
    /\ EntryId(ledger[i]) = a.target
    /\ ledger[i].kind = "COMMITMENT"
    /\ ReversedOf(a.target) + a.amount <= ledger[i].amount

(* Faulty variant: the amounts are not compared at all.                    *)
CanReleaseAnything(a) ==
  /\ FreshIds(a.event, "REVERSAL")
  /\ \E i \in DOMAIN ledger :
       EntryId(ledger[i]) = a.target /\ ledger[i].kind = "COMMITMENT"

CanReleaseEscrow(a) ==
  /\ FreshIds(a.event, "REVERSAL")
  /\ a.amount <= escrowed
  /\ CanReverse(a)

RunReleaseEscrow ==
  /\ Runs("escrow-release")
  /\ Dequeue
  /\ LET call == Head(queue)
         a    == call.args
     IN  \/ /\ CanReleaseEscrow(a)
            /\ escrowed' = escrowed - a.amount
            /\ ledger' = Append(ledger, Entry("REVERSAL", a.event, None, a.amount, a.target))
            /\ audit' = audit \cup {a.event}
            /\ Settle(call, "RESOLVED")
            /\ UNCHANGED <<totalCapital, confirmed, allocated, records>>
         \/ ~CanReleaseEscrow(a) /\ Reject(call)
  /\ UNCHANGED hashing

-----------------------------------------------------------------------------
(* Allocation proposals                                                    *)

(* Faulty variant: other proposals are not searched for the tranche.       *)
CanBeSourceAgain(t) == tranches[t] # None /\ tranches[t].state = "RECONCILED"

(* A source tranche is reconciled and funds no other proposal.             *)
CanBeSource(t) ==
  /\ tranches[t] # None
  /\ tranches[t].state = "RECONCILED"
  /\ \A p \in Proposals : proposals[p] # NoProposal => proposals[p].tranche # t

(* What the instructions divide: the source tranche, or all that is free.  *)
Budget(t) == IF t = None THEN Unallocated ELSE tranches[t].amount

(* createAllocationProposal does not wait: it is one step.                 *)
CreateAllocationProposal(p, ins, t, e) ==
  /\ e \notin audit
  /\ proposals[p] = NoProposal
  /\ t # None => CanBeSource(t)
  /\ IsConsistent(totalCapital, confirmed, escrowed, allocated, ledger)
  /\ Resolvable(Budget(t), ins, Reserves)
  /\ LET amounts == Resolve(Budget(t), ins)
     IN  /\ AmountTotal(amounts) <= Budget(t)
         /\ AmountTotal(amounts) <= Unallocated
         /\ proposals' = [proposals EXCEPT ![p] =
              [status |-> "PROPOSED", amounts |-> amounts, tranche |-> t,
               approval |-> None, appliedAt |-> None]]
  /\ audit' = audit \cup {e}
  /\ UNCHANGED <<funds, tranches, tasks>>

CallApprove(k, p, intent, expiresAt, e) ==
  /\ proposals[p] # NoProposal
  /\ Enqueue("allocation-approve", k,
       [proposal |-> p, event |-> e,
        approval |-> [key |-> k, intent |-> intent, expiresAt |-> expiresAt]])

CanApprove(a) ==
  /\ proposals[a.proposal] # NoProposal
  /\ proposals[a.proposal].status = "PROPOSED"
  /\ a.approval.intent # None

(* The action remembers the proposal it read and waits for its hash.       *)
WaitForHash(call) ==
  /\ hashing' = hashing \cup {[call |-> call, current |-> proposals[call.args.proposal]]}
  /\ UNCHANGED <<entries, funds, records, audit>>

RunApprove ==
  /\ Runs("allocation-approve")
  /\ Dequeue
  /\ LET call == Head(queue)
     IN  \/ CanApprove(call.args) /\ WaitForHash(call)
         \/ ~CanApprove(call.args) /\ Reject(call) /\ UNCHANGED hashing

(* The hash is the one of the proposal read before the wait.               *)
HashOf(h) == Intent(h.call.args.proposal, h.current.amounts, h.current.tranche)

(* Faulty variant: the proposal is not compared again after the wait.      *)
UnmovedUnchecked(h) == proposals[h.call.args.proposal] # NoProposal

(* Nothing happened to the proposal during the wait.                       *)
Unmoved(h) == proposals[h.call.args.proposal] = h.current

(* Faulty variant: the second look at the proposal is forgotten.           *)
CanFinishApproveUnseen(h) == h.call.args.approval.intent = HashOf(h)

CanFinishApprove(h) == Unmoved(h) /\ h.call.args.approval.intent = HashOf(h)

FinishApprove(h) ==
  /\ h.call.scope = "allocation-approve"
  /\ hashing' = hashing \ {h}
  /\ LET a == h.call.args
     IN  \/ /\ CanFinishApprove(h)
            /\ proposals' = [proposals EXCEPT ![a.proposal] =
                 [@ EXCEPT !.status = "APPROVED", !.approval = a.approval]]
            /\ audit' = audit \cup {a.event}
            /\ Settle(h.call, "RESOLVED")
            /\ UNCHANGED <<funds, tranches>>
         \/ ~CanFinishApprove(h) /\ Reject(h.call)
  /\ UNCHANGED queue

CallApply(k, p, e, now) ==
  /\ proposals[p] # NoProposal
  /\ Enqueue("allocation-apply", k, [proposal |-> p, event |-> e, now |-> now])

CanApply(a) ==
  /\ proposals[a.proposal] # NoProposal
  /\ proposals[a.proposal].status = "APPROVED"
  /\ a.now < proposals[a.proposal].approval.expiresAt

RunApply ==
  /\ Runs("allocation-apply")
  /\ Dequeue
  /\ LET call == Head(queue)
     IN  \/ CanApply(call.args) /\ WaitForHash(call)
         \/ ~CanApply(call.args) /\ Reject(call) /\ UNCHANGED hashing

(* The amounts still fit into what is free now.                            *)
CanFinishApply(h) ==
  /\ Unmoved(h)
  /\ h.current.approval.intent = HashOf(h)
  /\ AmountTotal(h.current.amounts) <= Unallocated

(* The members of S, smallest first.                                       *)
InOrder(S) ==
  CHOOSE f \in [1 .. Cardinality(S) -> S] :
    \A i, j \in 1 .. Cardinality(S) : i < j => f[i] < f[j]

AllocationEntries(p, amounts) ==
  [i \in 1 .. Cardinality(DOMAIN amounts) |->
     LET r == InOrder(DOMAIN amounts)[i]
     IN  Entry("ALLOCATION", p, r, amounts[r], None)]

FinishApply(h) ==
  /\ h.call.scope = "allocation-apply"
  /\ hashing' = hashing \ {h}
  /\ LET a       == h.call.args
         amounts == h.current.amounts
     IN  \/ /\ CanFinishApply(h)
            /\ allocated' = [r \in Reserves |->
                 IF r \in DOMAIN amounts THEN allocated[r] + amounts[r]
                                         ELSE allocated[r]]
            /\ ledger' = ledger \o AllocationEntries(a.proposal, amounts)
            /\ proposals' = [proposals EXCEPT ![a.proposal] =
                 [h.current EXCEPT !.status = "APPLIED", !.appliedAt = a.now]]
            /\ audit' = audit \cup {a.event}
            /\ Settle(h.call, "RESOLVED")
            /\ UNCHANGED <<totalCapital, confirmed, escrowed, tranches>>
         \/ ~CanFinishApply(h) /\ Reject(h.call)
  /\ UNCHANGED queue

-----------------------------------------------------------------------------
(* Incoming tranches                                                       *)

(* Where the evidence of a tranche may lead.                               *)
AllowedTransitions(state) ==
  CASE state = "PREPARED"  -> {"PREPARED", "SUBMITTED", "CONFIRMED", "FAILED"}
    [] state = "SUBMITTED" -> {"SUBMITTED", "CONFIRMED", "FAILED"}
    [] state = "CONFIRMED" -> {"CONFIRMED"}
    [] OTHER               -> {}

(* The checks before the action is queued, against the tranche as it is    *)
(* then.                                                                   *)
AcceptsEvidence(t, n, ref) ==
  IF tranches[t] = None THEN ref.status = "PREPARED"
  ELSE /\ ref.status \in AllowedTransitions(tranches[t].state)
       /\ n = tranches[t].amount
       /\ tranches[t].hash # None => ref.hash = tranches[t].hash

CallRecordTranche(k, t, n, ref, e) ==
  /\ AcceptsEvidence(t, n, ref)
  /\ Enqueue("tranche-record", k,
       [tranche |-> t, amount |-> n, ref |-> ref, event |-> e])

(* No other tranche has this transaction.                                  *)
HashIsFree(t, hash) ==
  hash # None =>
    \A u \in Tranches \ {t} : tranches[u] # None => tranches[u].hash # hash

IsTerminal(t) ==
  tranches[t] # None /\ tranches[t].state \in {"RECONCILED", "FAILED"}

(* Faulty variant: the tranche is not read again.                          *)
CanRecordStaleTranche(a) ==
  a.event \notin audit /\ HashIsFree(a.tranche, a.ref.hash)

(* The action checks again only these; the transition is not among them.   *)
CanRecordTranche(a) ==
  /\ a.event \notin audit
  /\ HashIsFree(a.tranche, a.ref.hash)
  /\ ~IsTerminal(a.tranche)

RunRecordTranche ==
  /\ Runs("tranche-record")
  /\ Dequeue
  /\ LET call == Head(queue)
         a    == call.args
     IN  \/ /\ CanRecordTranche(a)
            /\ tranches' = [tranches EXCEPT ![a.tranche] =
                 [state |-> a.ref.status, amount |-> a.amount, hash |-> a.ref.hash]]
            /\ audit' = audit \cup {a.event}
            /\ Settle(call, "RESOLVED")
            /\ UNCHANGED <<funds, proposals>>
         \/ ~CanRecordTranche(a) /\ Reject(call)
  /\ UNCHANGED hashing

CallReconcile(k, t, e) ==
  /\ tranches[t] # None
  /\ Enqueue("tranche-reconcile", k, [tranche |-> t, event |-> e])

Credit(t) == Entry("SETTLEMENT", t, None, tranches[t].amount, None)

CanReconcile(t) ==
  /\ tranches[t] # None
  /\ tranches[t].state = "CONFIRMED"
  /\ IsConsistent(totalCapital + tranches[t].amount,
                  confirmed + tranches[t].amount, escrowed, allocated,
                  Append(ledger, Credit(t)))

RunReconcile ==
  /\ Runs("tranche-reconcile")
  /\ Dequeue
  /\ LET call == Head(queue)
         t    == call.args.tranche
     IN  \/ /\ CanReconcile(t)
            /\ totalCapital' = totalCapital + tranches[t].amount
            /\ confirmed' = confirmed + tranches[t].amount
            /\ tranches' = [tranches EXCEPT ![t].state = "RECONCILED"]
            /\ ledger' = Append(ledger, Credit(t))
            /\ audit' = audit \cup {call.args.event}
            /\ Settle(call, "RESOLVED")
            /\ UNCHANGED <<escrowed, allocated, proposals>>
         \/ ~CanReconcile(t) /\ Reject(call)
  /\ UNCHANGED hashing

-----------------------------------------------------------------------------
TreasuryInit ==
  /\ totalCapital = InitialCapital
  /\ confirmed = InitialCapital
  /\ escrowed = 0
  /\ allocated = [r \in Reserves |-> 0]
  /\ proposals = [p \in Proposals |-> NoProposal]
  /\ tranches = [t \in Tranches |-> None]
  /\ ledger = <<Entry("CAPITAL", None, None, InitialCapital, None)>>
  /\ audit = {}
  /\ entries = [s \in Scopes |-> [k \in Keys |-> "NONE"]]
  /\ queue = <<>>
  /\ hashing = {}

(* What an operator may name as the entry a release reverses.              *)
Targets == {<<"COMMITMENT", e, None>> : e \in EventIds}
             \cup {<<"CAPITAL", None, None>>}

(* What an approval may be for: the proposal as it is, or something else.  *)
IntentsFor(p) ==
  IF proposals[p] = NoProposal THEN {None}
  ELSE {Intent(p, proposals[p].amounts, proposals[p].tranche),
        SomethingElse(p), None}

EscrowNext ==
  \/ \E k \in Keys, e \in EventIds, n \in Amounts :
       \/ CallRecordEscrow(k, e, n)
       \/ \E target \in Targets : CallReleaseEscrow(k, e, n, target)
  \/ RunRecordEscrow
  \/ RunReleaseEscrow

AllocationNext ==
  \/ \E p \in Proposals, e \in EventIds :
       \/ \E ins \in InstructionLists, t \in Tranches \cup {None} :
            CreateAllocationProposal(p, ins, t, e)
       \/ \E k \in Keys :
            \/ \E intent \in IntentsFor(p), expiresAt \in Expiries :
                 CallApprove(k, p, intent, expiresAt, e)
            \/ \E now \in Times : CallApply(k, p, e, now)
  \/ RunApprove
  \/ RunApply
  \/ \E h \in hashing : FinishApprove(h) \/ FinishApply(h)

TrancheNext ==
  \/ \E k \in Keys, t \in Tranches, e \in EventIds :
       \/ \E n \in Amounts, ref \in TransactionRef : CallRecordTranche(k, t, n, ref, e)
       \/ CallReconcile(k, t, e)
  \/ RunRecordTranche
  \/ RunReconcile

TreasuryNext == EscrowNext \/ AllocationNext \/ TrancheNext

TreasurySpec == TreasuryInit /\ [][TreasuryNext]_vars

-----------------------------------------------------------------------------
(* Properties                                                              *)

IsIntent(i) ==
  /\ i.proposal \in Proposals /\ i.tranche \in Tranches \cup {None}
  /\ DOMAIN i.amounts \subseteq Reserves
  /\ i.amounts \in [DOMAIN i.amounts -> Nat]

IsApproval(a) ==
  /\ a.key \in Keys /\ a.expiresAt \in Expiries
  /\ a.intent = None \/ IsIntent(a.intent)

IsProposal(p, q) ==
  /\ q.status \in {"PROPOSED", "APPROVED", "APPLIED"}
  /\ IsIntent(Intent(p, q.amounts, q.tranche))
  /\ IF q.status = "PROPOSED" THEN q.approval = None ELSE IsApproval(q.approval)
  /\ IF q.status = "APPLIED" THEN q.appliedAt \in Times ELSE q.appliedAt = None

TranchesTyped == tranches \in [Tranches -> TrancheType \cup {None}]

(* Every variable has its type; the money is never negative.               *)
TreasuryTypeOK ==
  /\ totalCapital \in Nat /\ confirmed \in Nat /\ escrowed \in Nat
  /\ allocated \in [Reserves -> Nat]
  /\ \A p \in Proposals : proposals[p] # NoProposal => IsProposal(p, proposals[p])
  /\ TranchesTyped
  /\ audit \subseteq EventIds
  /\ entries \in [Scopes -> [Keys -> {"NONE", "IN_FLIGHT", "RESOLVED", "REJECTED"}]]
  /\ \A h \in hashing : IsProposal(h.call.args.proposal, h.current)

(* The dashboard is the ledger: whatever calls were made at once, the      *)
(* balances can be computed from the entries, and capital that is          *)
(* allocated or in escrow is confirmed.                                    *)
LedgerBalances ==
  /\ IsConsistent(totalCapital, confirmed, escrowed, allocated, ledger)
  /\ Allocated + escrowed <= confirmed

(* No ledger entry is written twice, and no commitment is reversed for     *)
(* more than its amount, however releases race.                            *)
NoEntryTwice ==
  /\ \A i, j \in DOMAIN ledger : i # j => EntryId(ledger[i]) # EntryId(ledger[j])
  /\ \A i \in DOMAIN ledger :
       ledger[i].kind = "COMMITMENT" =>
         ReversedOf(EntryId(ledger[i])) <= ledger[i].amount

(* A proposal is in the ledger exactly when it is APPLIED, once for each   *)
(* of its reserves and with the amounts the founder approved, and it was   *)
(* applied before its approval expired.                                    *)
AppliedAsApproved ==
  \A p \in Proposals :
    proposals[p] # NoProposal =>
      LET q      == proposals[p]
          Booked == {i \in DOMAIN ledger : ledger[i].kind = "ALLOCATION" /\ ledger[i].ref = p}
      IN  /\ q.status # "APPLIED" => Booked = {}
          /\ q.status = "APPLIED" =>
               /\ Cardinality(Booked) = Cardinality(DOMAIN q.amounts)
               /\ \A i \in Booked : ledger[i].amount = q.approval.intent.amounts[ledger[i].reserve]
               /\ q.appliedAt < q.approval.expiresAt
               /\ q.approval.intent = Intent(p, q.amounts, q.tranche)

(* A tranche is credited exactly when it is RECONCILED, once, with its own *)
(* amount, and no transaction credits two tranches.                        *)
CreditedOnce ==
  /\ \A t \in Tranches :
       LET Credits == {i \in DOMAIN ledger : ledger[i].kind = "SETTLEMENT" /\ ledger[i].ref = t}
       IN  IF tranches[t] # None /\ tranches[t].state = "RECONCILED"
           THEN \E i \in Credits : Credits = {i} /\ ledger[i].amount = tranches[t].amount
           ELSE Credits = {}
  /\ \A t, u \in Tranches :
       t # u /\ tranches[t] # None /\ tranches[u] # None /\ tranches[t].hash # None
         => tranches[t].hash # tranches[u].hash

(* A tranche funds at most one proposal, which gives away no more than the *)
(* tranche brought.                                                        *)
FundsOneProposal ==
  \A p \in Proposals :
    proposals[p] # NoProposal /\ proposals[p].tranche # None =>
      /\ tranches[proposals[p].tranche] # None
      /\ tranches[proposals[p].tranche].state = "RECONCILED"
      /\ AmountTotal(proposals[p].amounts) <= tranches[proposals[p].tranche].amount
      /\ \A q \in Proposals \ {p} :
           proposals[q] # NoProposal => proposals[q].tranche # proposals[p].tranche

(* What is settled stays: a reconciled or failed tranche never changes,    *)
(* whatever recording was under way; an approved proposal keeps its        *)
(* content and the approval it was given first.                            *)
SettledStays ==
  [][/\ \A t \in Tranches : IsTerminal(t) => tranches'[t] = tranches[t]
     /\ \A p \in Proposals :
          proposals[p] # NoProposal =>
            /\ proposals'[p].amounts = proposals[p].amounts
            /\ proposals'[p].tranche = proposals[p].tranche
            /\ proposals[p].approval # None => proposals'[p].approval = proposals[p].approval
            /\ proposals[p].status = "APPLIED" => proposals'[p] = proposals[p]]_vars

(* What a message of recordIncomingTranche says: the status of a tranche   *)
(* cannot move backward or leave a terminal state.                         *)
TrancheMovesForward ==
  [][\A t \in Tranches :
       tranches[t] # None /\ tranches'[t] # tranches[t] =>
         \/ tranches'[t].state \in AllowedTransitions(tranches[t].state)
         \/ tranches[t].state = "CONFIRMED" /\ tranches'[t].state = "RECONCILED"]_vars
=============================================================================
