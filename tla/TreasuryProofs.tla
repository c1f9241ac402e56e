--------------------------- MODULE TreasuryProofs ---------------------------
(***************************************************************************)
(* Proofs about the treasury, for any number of calls in flight at once    *)
(* and any amounts.  In order:                                             *)
(*                                                                         *)
(*   tranches are credited once and fund one proposal, and what is settled *)
(*   stays settled (TInv);                                                 *)
(*                                                                         *)
(*   every variable has its type, no balance is negative (TypeInv);        *)
(*                                                                         *)
(*   the balances are what the ledger adds up to, no entry is written      *)
(*   twice, and what is applied is what was approved (BooksInv).           *)
(***************************************************************************)
EXTENDS Treasury, AllocationProofs

-----------------------------------------------------------------------------
(* Sequences of anything                                                   *)

IsSeq(s) == s \in Seq({s[i] : i \in DOMAIN s})

(* A sequence over some set is one over its own elements.                  *)
LEMMA SeqOfItsOwn ==
  ASSUME NEW S, NEW s \in Seq(S)
  PROVE  IsSeq(s)
<1>1. Len(s) \in Nat /\ DOMAIN s = 1 .. Len(s)
  OBVIOUS
<1>2. s = [i \in 1 .. Len(s) |-> s[i]]
  OBVIOUS
<1> DEFINE T == {s[i] : i \in DOMAIN s}
<1>3. s \in [1 .. Len(s) -> T]
  BY <1>1, <1>2
<1>4. \A n \in Nat : \A f \in [1 .. n -> T] : f \in Seq(T)
  OBVIOUS
<1>5. s \in Seq(T)
  BY <1>1, <1>3, <1>4
<1>q. QED
  BY <1>5 DEF IsSeq

(* Appending, taking the tail and joining, element by element.             *)
LEMMA AppendIsSeq ==
  ASSUME NEW s, IsSeq(s), NEW x
  PROVE  /\ IsSeq(Append(s, x))
         /\ Len(s) \in Nat /\ DOMAIN s = 1 .. Len(s)
         /\ DOMAIN Append(s, x) = 1 .. Len(s) + 1
         /\ \A i \in 1 .. Len(s) : Append(s, x)[i] = s[i]
         /\ Append(s, x)[Len(s) + 1] = x
<1> DEFINE S == {s[i] : i \in DOMAIN s}
           T == S \cup {x}
<1>1. s \in Seq(S)
  BY DEF IsSeq
<1> HIDE DEF S
<1>2. s \in Seq(T) /\ x \in T
  BY <1>1
<1> HIDE DEF T
<1>3. Append(s, x) \in Seq(T)
  BY <1>2
<1>4. IsSeq(Append(s, x))
  BY <1>3, SeqOfItsOwn
<1>q. QED
  BY <1>2, <1>4

(* The tail of a sequence.                                                 *)
LEMMA TailIsSeq ==
  ASSUME NEW s, IsSeq(s), s # <<>>
  PROVE  /\ IsSeq(Tail(s))
         /\ Len(s) \in Nat /\ DOMAIN s = 1 .. Len(s)
         /\ Len(s) # 0
         /\ Head(s) = s[1]
         /\ DOMAIN Tail(s) = 1 .. Len(s) - 1
         /\ \A i \in 1 .. Len(s) - 1 : Tail(s)[i] = s[i + 1]
<1> DEFINE S == {s[i] : i \in DOMAIN s}
<1>1. s \in Seq(S)
  BY DEF IsSeq
<1> HIDE DEF S
<1>2. Tail(s) \in Seq(S) /\ Len(s) # 0
  BY <1>1
<1>3. IsSeq(Tail(s))
  BY <1>2, SeqOfItsOwn
<1>q. QED
  BY <1>1, <1>2, <1>3

(* Two sequences joined.                                                   *)
LEMMA JoinIsSeq ==
  ASSUME NEW s, IsSeq(s), NEW u, IsSeq(u)
  PROVE  /\ IsSeq(s \o u)
         /\ Len(s) \in Nat /\ DOMAIN s = 1 .. Len(s)
         /\ Len(u) \in Nat /\ DOMAIN u = 1 .. Len(u)
         /\ DOMAIN (s \o u) = 1 .. Len(s) + Len(u)
         /\ \A i \in 1 .. Len(s) : (s \o u)[i] = s[i]
         /\ \A i \in 1 .. Len(u) : (s \o u)[Len(s) + i] = u[i]
<1> DEFINE S == {s[i] : i \in DOMAIN s}
           U == {u[i] : i \in DOMAIN u}
           T == S \cup U
<1>1. s \in Seq(S) /\ u \in Seq(U)
  BY DEF IsSeq
<1> HIDE DEF S, U
<1>2. s \in Seq(T) /\ u \in Seq(T)
  BY <1>1
<1> HIDE DEF T
<1>3. s \o u \in Seq(T)
  BY <1>2
<1>4. IsSeq(s \o u)
  BY <1>3, SeqOfItsOwn
<1>q. QED
  BY <1>2, <1>4

-----------------------------------------------------------------------------
(* The inductive invariant                                                 *)

(* What a queued action was given when its call was validated.             *)
QueueTyped ==
  /\ IsSeq(queue)
  /\ \A i \in DOMAIN queue :
       /\ queue[i].scope = "tranche-record" =>
            /\ queue[i].args.tranche \in Tranches
            /\ queue[i].args.amount \in Amounts
            /\ queue[i].args.ref \in TransactionRef
       /\ queue[i].scope = "tranche-reconcile" =>
            queue[i].args.tranche \in Tranches
       /\ queue[i].scope \in {"allocation-approve", "allocation-apply"} =>
            queue[i].args.proposal \in Proposals

(* A proposal is a record; before it is approved it has no approval.       *)
ProposalShaped(q) ==
  /\ q = [status |-> q.status, amounts |-> q.amounts, tranche |-> q.tranche,
          approval |-> q.approval, appliedAt |-> q.appliedAt]
  /\ DOMAIN q.amounts \subseteq Reserves
  /\ q.tranche \in Tranches \cup {None}
  /\ q.status = "PROPOSED" => q.approval = None

ProposalsShaped ==
  /\ proposals = [p \in Proposals |-> proposals[p]]
  /\ \A p \in Proposals : proposals[p] # NoProposal => ProposalShaped(proposals[p])

(* The proposal an action remembers while it waits was ready for it.       *)
WaitersReady ==
  \A h \in hashing :
    /\ h.current # NoProposal
    /\ h.call.args.proposal \in Proposals
    /\ h.call.scope = "allocation-approve" => h.current.status = "PROPOSED"
    /\ h.call.scope = "allocation-apply" => h.current.status = "APPROVED"

TInv ==
  /\ QueueTyped
  /\ WaitersReady
  /\ ProposalsShaped
  /\ TranchesTyped
  /\ IsSeq(ledger)
  /\ CreditedOnce
  /\ FundsOneProposal

(* CreditedOnce in parts: the entries that credit a tranche, and what they *)
(* have to be.                                                             *)
CreditsIn(lg, t) == {i \in DOMAIN lg : lg[i].kind = "SETTLEMENT" /\ lg[i].ref = t}

IsReconciled(t) == tranches[t] # None /\ tranches[t].state = "RECONCILED"

CreditedRight(lg, t) ==
  IF IsReconciled(t)
  THEN \E i \in CreditsIn(lg, t) :
         CreditsIn(lg, t) = {i} /\ lg[i].amount = tranches[t].amount
  ELSE CreditsIn(lg, t) = {}

HashesDistinct ==
  \A t, u \in Tranches :
    t # u /\ tranches[t] # None /\ tranches[u] # None /\ tranches[t].hash # None
      => tranches[t].hash # tranches[u].hash

(* The parts make up the property.                                         *)
LEMMA CreditedParts ==
  CreditedOnce <=> (\A t \in Tranches : CreditedRight(ledger, t)) /\ HashesDistinct
BY DEF CreditedOnce, CreditedRight, CreditsIn, IsReconciled, HashesDistinct

-----------------------------------------------------------------------------
(* Entries that credit nothing                                             *)

(* An entry of another kind changes no tranche's credits.                  *)
LEMMA OtherEntry ==
  ASSUME IsSeq(ledger), NEW e, e.kind # "SETTLEMENT", NEW t
  PROVE  /\ CreditsIn(Append(ledger, e), t) = CreditsIn(ledger, t)
         /\ CreditedRight(Append(ledger, e), t) <=> CreditedRight(ledger, t)
<1> DEFINE lg == Append(ledger, e)
<1>1. /\ Len(ledger) \in Nat /\ DOMAIN ledger = 1 .. Len(ledger)
      /\ DOMAIN lg = 1 .. Len(ledger) + 1
      /\ \A i \in 1 .. Len(ledger) : lg[i] = ledger[i]
      /\ lg[Len(ledger) + 1] = e
  BY AppendIsSeq
<1> HIDE DEF lg
<1>2. CreditsIn(lg, t) = CreditsIn(ledger, t)
  BY <1>1 DEF CreditsIn
<1>3. \A i \in CreditsIn(ledger, t) : lg[i] = ledger[i]
  BY <1>1 DEF CreditsIn
<1>4. CreditedRight(lg, t) <=> CreditedRight(ledger, t)
  BY <1>2, <1>3 DEF CreditedRight
<1>q. QED
  BY <1>2, <1>4 DEF lg

(* Nor do the entries of an allocation.                                    *)
LEMMA AllocationEntriesAre ==
  ASSUME NEW p, NEW amounts, DOMAIN amounts \subseteq Reserves
  PROVE  LET u == AllocationEntries(p, amounts)
         IN  IsSeq(u) /\ \A i \in DOMAIN u : u[i].kind = "ALLOCATION"
<1> DEFINE u == AllocationEntries(p, amounts)
           n == Cardinality(DOMAIN amounts)
<1>1. n \in Nat
  BY TreasuryAssumption, FS_Subset, FS_CardinalityType
<1>2. /\ u = [i \in 1 .. n |-> u[i]]
      /\ \A i \in 1 .. n : u[i].kind = "ALLOCATION"
  BY DEF AllocationEntries, Entry
<1> HIDE DEF u, n
<1> DEFINE S == {u[i] : i \in 1 .. n}
<1>3. u \in [1 .. n -> S]
  BY <1>2
<1>4. u \in Seq(S)
  BY <1>1, <1>3
<1>5. IsSeq(u)
  BY <1>4, SeqOfItsOwn
<1>6. DOMAIN u = 1 .. n
  BY <1>2
<1>q. QED
  BY <1>2, <1>5, <1>6 DEF u

(* The entries of an allocation credit no tranche.                         *)
LEMMA AllocationCreditsNothing ==
  ASSUME IsSeq(ledger), NEW u, IsSeq(u),
         \A i \in DOMAIN u : u[i].kind = "ALLOCATION", NEW t
  PROVE  CreditedRight(ledger \o u, t) <=> CreditedRight(ledger, t)
<1> DEFINE lg == ledger \o u
<1>1. /\ IsSeq(lg)
      /\ Len(ledger) \in Nat /\ DOMAIN ledger = 1 .. Len(ledger)
      /\ Len(u) \in Nat /\ DOMAIN u = 1 .. Len(u)
      /\ DOMAIN lg = 1 .. Len(ledger) + Len(u)
      /\ \A i \in 1 .. Len(ledger) : lg[i] = ledger[i]
      /\ \A i \in 1 .. Len(u) : lg[Len(ledger) + i] = u[i]
  BY JoinIsSeq
<1> HIDE DEF lg
<1>2. \A i \in DOMAIN lg : i \notin DOMAIN ledger => lg[i].kind = "ALLOCATION"
  <2>1. TAKE i \in DOMAIN lg
  <2>2. HAVE i \notin DOMAIN ledger
  <2>3. i - Len(ledger) \in 1 .. Len(u) /\ Len(ledger) + (i - Len(ledger)) = i
    BY <1>1, <2>2
  <2>q. QED
    BY <1>1, <2>3
<1>3. CreditsIn(lg, t) = CreditsIn(ledger, t)
  BY <1>1, <1>2 DEF CreditsIn
<1>4. \A i \in CreditsIn(ledger, t) : lg[i] = ledger[i]
  BY <1>1 DEF CreditsIn
<1>q. QED
  BY <1>3, <1>4 DEF CreditedRight, lg

-----------------------------------------------------------------------------
(* Steps that leave the records and the ledger alone                       *)

(* A step that leaves tranches and ledger alone.                           *)
LEMMA TranchesKept ==
  ASSUME TranchesTyped, CreditedOnce, IsSeq(ledger), UNCHANGED <<ledger, tranches>>
  PROVE  TranchesTyped' /\ CreditedOnce' /\ IsSeq(ledger)'
<1>1. TranchesTyped' /\ IsSeq(ledger)'
  BY DEF TranchesTyped, IsSeq
<1>2. CreditedOnce'
  BY DEF CreditedOnce
<1>q. QED
  BY <1>1, <1>2

(* A step that leaves proposals and tranches alone.                        *)
LEMMA ProposalsKept ==
  ASSUME ProposalsShaped, FundsOneProposal, UNCHANGED <<proposals, tranches>>
  PROVE  ProposalsShaped' /\ FundsOneProposal'
<1>1. ProposalsShaped'
  BY DEF ProposalsShaped
<1>2. FundsOneProposal'
  BY DEF FundsOneProposal
<1>q. QED
  BY <1>1, <1>2

-----------------------------------------------------------------------------
(* Steps of the queue                                                      *)

(* A call adds one action with the arguments it validated.                 *)
LEMMA EnqueueKeeps ==
  ASSUME TInv, NEW scope, NEW key, NEW args, Enqueue(scope, key, args),
         scope = "tranche-record" =>
           /\ args.tranche \in Tranches /\ args.amount \in Amounts
           /\ args.ref \in TransactionRef,
         scope = "tranche-reconcile" => args.tranche \in Tranches,
         scope \in {"allocation-approve", "allocation-apply"} => args.proposal \in Proposals
  PROVE  TInv'
<1> DEFINE c == [scope |-> scope, key |-> key, args |-> args]
<1>1. /\ queue' = Append(queue, c)
      /\ UNCHANGED <<ledger, proposals, tranches, hashing>>
  BY DEF Enqueue, funds, records
<1>2. IsSeq(queue)
  BY DEF TInv, QueueTyped
<1>3. /\ IsSeq(queue')
      /\ Len(queue) \in Nat /\ DOMAIN queue = 1 .. Len(queue)
      /\ DOMAIN queue' = 1 .. Len(queue) + 1
      /\ \A i \in 1 .. Len(queue) : queue'[i] = queue[i]
      /\ queue'[Len(queue) + 1] = c
  BY <1>1, <1>2, AppendIsSeq
<1>4. c.scope = scope /\ c.args = args
  OBVIOUS
<1> HIDE DEF c
<1>5. QueueTyped'
  BY <1>3, <1>4, <1>1 DEF TInv, QueueTyped, IsSeq
<1>6. WaitersReady'
  BY <1>1 DEF TInv, WaitersReady
<1>q. QED
  BY <1>1, <1>5, <1>6, TranchesKept, ProposalsKept DEF TInv

(* Taking an action off the queue.                                         *)
LEMMA DequeueKeeps ==
  ASSUME TInv, NEW scope, Runs(scope), Dequeue
  PROVE  /\ QueueTyped'
         /\ Head(queue).scope = scope
         /\ scope = "tranche-record" =>
              /\ Head(queue).args.tranche \in Tranches
              /\ Head(queue).args.amount \in Amounts
              /\ Head(queue).args.ref \in TransactionRef
         /\ scope = "tranche-reconcile" => Head(queue).args.tranche \in Tranches
         /\ scope \in {"allocation-approve", "allocation-apply"} =>
              Head(queue).args.proposal \in Proposals
<1>1. IsSeq(queue) /\ queue # <<>> /\ queue' = Tail(queue) /\ Head(queue).scope = scope
  BY DEF TInv, QueueTyped, Runs, Dequeue
<1>2. /\ IsSeq(queue')
      /\ Len(queue) \in Nat /\ DOMAIN queue = 1 .. Len(queue) /\ Len(queue) # 0
      /\ Head(queue) = queue[1]
      /\ DOMAIN queue' = 1 .. Len(queue) - 1
      /\ \A i \in 1 .. Len(queue) - 1 : queue'[i] = queue[i + 1]
  BY <1>1, TailIsSeq
<1>3. QueueTyped'
  <2>1. \A i \in DOMAIN queue' : i + 1 \in DOMAIN queue /\ queue'[i] = queue[i + 1]
    BY <1>2
  <2>q. QED
    BY <1>2, <2>1 DEF TInv, QueueTyped, IsSeq
<1>4. 1 \in DOMAIN queue
  BY <1>2
<1>q. QED
  BY <1>1, <1>2, <1>3, <1>4 DEF TInv, QueueTyped

(* An action that is rejected, or any step that leaves the records and the *)
(* ledger alone.                                                           *)
LEMMA LedgerKeepsCredit ==
  ASSUME CreditedOnce, UNCHANGED tranches,
         \A t \in Tranches : CreditedRight(ledger', t)
  PROVE  CreditedOnce'
<1>1. HashesDistinct' /\ (\A t \in Tranches : CreditedRight(ledger, t)')
  BY CreditedParts DEF HashesDistinct, CreditedRight, CreditsIn, IsReconciled
<1>q. QED
  BY <1>1 DEF CreditedOnce, CreditedRight, CreditsIn, IsReconciled, HashesDistinct

(* A step that changes calls only.                                         *)
LEMMA RestKeeps ==
  ASSUME TInv, UNCHANGED <<proposals, tranches>>, QueueTyped', WaitersReady',
         IsSeq(ledger)', \A t \in Tranches : CreditedRight(ledger', t)
  PROVE  TInv'
<1>2. CreditedOnce'
  BY LedgerKeepsCredit DEF TInv
<1>3. TranchesTyped'
  BY DEF TInv, TranchesTyped
<1>q. QED
  BY <1>2, <1>3, ProposalsKept DEF TInv

(* An action that throws when it runs.                                     *)
LEMMA RejectKeeps ==
  ASSUME TInv, NEW scope, Runs(scope), Dequeue, NEW call, Reject(call), UNCHANGED hashing
  PROVE  TInv'
<1>1. UNCHANGED <<ledger, proposals, tranches, hashing>>
  BY DEF Reject, funds, records
<1>2. QueueTyped'
  BY DequeueKeeps
<1>3. WaitersReady' /\ IsSeq(ledger)' /\ \A t \in Tranches : CreditedRight(ledger', t)
  BY <1>1, CreditedParts DEF TInv, WaitersReady, IsSeq
<1>q. QED
  BY <1>1, <1>2, <1>3, RestKeeps

(* An action that throws when its hash has arrived.                        *)
LEMMA RejectWaiterKeeps ==
  ASSUME TInv, NEW h, hashing' = hashing \ {h}, NEW call, Reject(call), UNCHANGED queue
  PROVE  TInv'
<1>1. UNCHANGED <<ledger, proposals, tranches, queue>>
  BY DEF Reject, funds, records
<1>2. QueueTyped' /\ WaitersReady'
  BY <1>1 DEF TInv, QueueTyped, WaitersReady, IsSeq
<1>3. IsSeq(ledger)' /\ \A t \in Tranches : CreditedRight(ledger', t)
  BY <1>1, CreditedParts DEF TInv, IsSeq
<1>q. QED
  BY <1>1, <1>2, <1>3, RestKeeps

-----------------------------------------------------------------------------
(* One lemma per effect                                                    *)

(* An escrow entry credits no tranche.                                     *)
LEMMA EscrowKeeps ==
  ASSUME TInv, NEW scope, Runs(scope), Dequeue, NEW e, e.kind # "SETTLEMENT",
         ledger' = Append(ledger, e), UNCHANGED <<proposals, tranches, hashing>>
  PROVE  TInv'
<1>1. QueueTyped'
  BY DequeueKeeps
<1>2. IsSeq(ledger) /\ WaitersReady'
  BY DEF TInv, WaitersReady
<1>3. IsSeq(ledger')
  BY <1>2, AppendIsSeq
<1>4. \A t \in Tranches : CreditedRight(ledger, t)
  BY CreditedParts DEF TInv
<1>5. \A t \in Tranches : CreditedRight(ledger', t)
  BY <1>2, <1>4, OtherEntry
<1>q. QED
  BY <1>1, <1>2, <1>3, <1>5, RestKeeps DEF IsSeq

(* An action starts to wait for its hash.                                  *)
LEMMA WaitKeeps ==
  ASSUME TInv, NEW scope \in {"allocation-approve", "allocation-apply"},
         Runs(scope), Dequeue, WaitForHash(Head(queue)),
         proposals[Head(queue).args.proposal] # NoProposal,
         scope = "allocation-approve" =>
           proposals[Head(queue).args.proposal].status = "PROPOSED",
         scope = "allocation-apply" =>
           proposals[Head(queue).args.proposal].status = "APPROVED"
  PROVE  TInv'
<1>1. UNCHANGED <<ledger, proposals, tranches>>
  BY DEF WaitForHash, funds, records
<1>2. /\ QueueTyped' /\ Head(queue).scope = scope
      /\ Head(queue).args.proposal \in Proposals
  BY DequeueKeeps
<1> DEFINE w == [call |-> Head(queue), current |-> proposals[Head(queue).args.proposal]]
<1>3. hashing' = hashing \cup {w}
  BY DEF WaitForHash
<1>4. /\ w.call.scope = scope /\ w.current = proposals[Head(queue).args.proposal]
      /\ w.call.args.proposal \in Proposals
  BY <1>2
<1> HIDE DEF w
<1>5. WaitersReady'
  BY <1>3, <1>4 DEF TInv, WaitersReady
<1>6. IsSeq(ledger)' /\ \A t \in Tranches : CreditedRight(ledger', t)
  BY <1>1, CreditedParts DEF TInv, IsSeq
<1>q. QED
  BY <1>1, <1>2, <1>5, <1>6, RestKeeps

(* A proposal changes but keeps its amounts and its tranche.               *)
LEMMA ProposalKeeps ==
  ASSUME TInv, NEW p, NEW q,
         ProposalShaped(q), q.status # "PROPOSED", proposals[p] # NoProposal,
         q.amounts = proposals[p].amounts, q.tranche = proposals[p].tranche,
         proposals' = [proposals EXCEPT ![p] = q], UNCHANGED tranches
  PROVE  ProposalsShaped' /\ FundsOneProposal'
<1>1. ProposalsShaped'
  BY DEF TInv, ProposalsShaped, ProposalShaped
<1>2. \A r \in Proposals : proposals'[r] # NoProposal =>
        /\ proposals[r] # NoProposal
        /\ proposals'[r].amounts = proposals[r].amounts
        /\ proposals'[r].tranche = proposals[r].tranche
  BY DEF TInv, ProposalsShaped
<1>3. FundsOneProposal'
  BY <1>2 DEF TInv, FundsOneProposal
<1>q. QED
  BY <1>1, <1>3

(* The proposals the two actions write.                                    *)
ApprovedOf(c, ap) == [c EXCEPT !.status = "APPROVED", !.approval = ap]
AppliedOf(c, at)  == [c EXCEPT !.status = "APPLIED", !.appliedAt = at]

(* What an update of two fields makes of a record, field by field.         *)
LEMMA RecordUpdates ==
  ASSUME NEW s, NEW am, NEW tr, NEW ap, NEW at, NEW c,
         c = [status |-> s, amounts |-> am, tranche |-> tr,
              approval |-> ap, appliedAt |-> at],
         NEW ap2, NEW at2
  PROVE  /\ ApprovedOf(c, ap2)
              = [status |-> "APPROVED", amounts |-> am, tranche |-> tr,
                 approval |-> ap2, appliedAt |-> at]
         /\ AppliedOf(c, at2)
              = [status |-> "APPLIED", amounts |-> am, tranche |-> tr,
                 approval |-> ap, appliedAt |-> at2]
<1> DEFINE R(st, a, x) == [status : {st}, amounts : {am}, tranche : {tr},
                           approval : {a}, appliedAt : {x}]
<1>1. \A st, a, x : \A r \in R(st, a, x) :
        r = [status |-> st, amounts |-> am, tranche |-> tr, approval |-> a, appliedAt |-> x]
  OBVIOUS
<1>2. c \in R(s, ap, at)
  OBVIOUS
<1>3. [c EXCEPT !.status = "APPROVED"] \in R("APPROVED", ap, at)
  BY <1>2
<1>4. [c EXCEPT !.status = "APPROVED", !.approval = ap2] \in R("APPROVED", ap2, at)
  BY <1>3
<1>5. [c EXCEPT !.status = "APPLIED"] \in R("APPLIED", ap, at)
  BY <1>2
<1>6. [c EXCEPT !.status = "APPLIED", !.appliedAt = at2] \in R("APPLIED", ap, at2)
  BY <1>5
<1>7. ApprovedOf(c, ap2) \in R("APPROVED", ap2, at) /\ AppliedOf(c, at2) \in R("APPLIED", ap, at2)
  BY <1>4, <1>6 DEF ApprovedOf, AppliedOf
<1> HIDE DEF R
<1>q. QED
  BY <1>1, <1>7

(* An approved or applied proposal keeps what it gives away.               *)
LEMMA UpdatesShaped ==
  ASSUME NEW c, ProposalShaped(c), NEW ap, NEW at, NEW q,
         q = ApprovedOf(c, ap) \/ q = AppliedOf(c, at)
  PROVE  /\ ProposalShaped(q) /\ q.status # "PROPOSED"
         /\ q.amounts = c.amounts /\ q.tranche = c.tranche
<1>1. c = [status |-> c.status, amounts |-> c.amounts, tranche |-> c.tranche,
           approval |-> c.approval, appliedAt |-> c.appliedAt]
  BY DEF ProposalShaped
<1>2. \/ q = [status |-> "APPROVED", amounts |-> c.amounts, tranche |-> c.tranche,
              approval |-> ap, appliedAt |-> c.appliedAt]
      \/ q = [status |-> "APPLIED", amounts |-> c.amounts, tranche |-> c.tranche,
              approval |-> c.approval, appliedAt |-> at]
  BY <1>1, RecordUpdates
<1>3. q.amounts = c.amounts /\ q.tranche = c.tranche /\ q.status # "PROPOSED"
  BY <1>2
<1>4. q = [status |-> q.status, amounts |-> q.amounts, tranche |-> q.tranche,
           approval |-> q.approval, appliedAt |-> q.appliedAt]
  BY <1>2
<1>q. QED
  BY <1>3, <1>4 DEF ProposalShaped

(* Approving a proposal keeps the invariant.                               *)
LEMMA ApproveKeeps ==
  ASSUME TInv, NEW h \in hashing, FinishApprove(h)
  PROVE  TInv'
<1> DEFINE p == h.call.args.proposal
<1>1. CASE ~CanFinishApprove(h)
  BY <1>1, RejectWaiterKeeps DEF FinishApprove
<1>2. CASE CanFinishApprove(h)
  <2>1. proposals[p] = h.current /\ h.current # NoProposal /\ p \in Proposals
    BY <1>2 DEF CanFinishApprove, Unmoved, TInv, WaitersReady
  <2> DEFINE q == ApprovedOf(proposals[p], h.call.args.approval)
  <2>2. /\ proposals' = [proposals EXCEPT ![p] = q]
        /\ UNCHANGED <<ledger, tranches, queue>>
        /\ hashing' = hashing \ {h}
    BY <1>2, <2>1 DEF FinishApprove, funds, ProposalsShaped, TInv, ApprovedOf
  <2>3. QueueTyped' /\ WaitersReady'
    BY <2>2 DEF TInv, QueueTyped, WaitersReady, IsSeq
  <2>4. ProposalShaped(proposals[p])
    BY <2>1 DEF TInv, ProposalsShaped
  <2>5. /\ ProposalShaped(q) /\ q.status # "PROPOSED"
        /\ q.amounts = proposals[p].amounts /\ q.tranche = proposals[p].tranche
    BY <2>4, UpdatesShaped
  <2> HIDE DEF q
  <2>6. ProposalsShaped' /\ FundsOneProposal'
    BY <2>1, <2>2, <2>5, ProposalKeeps
  <2>q. QED
    BY <2>2, <2>3, <2>6, TranchesKept DEF TInv
<1>q. QED
  BY <1>1, <1>2

(* Applying a proposal keeps the invariant.                                *)
LEMMA ApplyKeeps ==
  ASSUME TInv, NEW h \in hashing, FinishApply(h)
  PROVE  TInv'
<1> DEFINE p == h.call.args.proposal
<1>1. CASE ~CanFinishApply(h)
  BY <1>1, RejectWaiterKeeps DEF FinishApply
<1>2. CASE CanFinishApply(h)
  <2>1. proposals[p] = h.current /\ h.current # NoProposal /\ p \in Proposals
    BY <1>2 DEF CanFinishApply, Unmoved, TInv, WaitersReady
  <2> DEFINE q == AppliedOf(h.current, h.call.args.now)
             u == AllocationEntries(p, h.current.amounts)
  <2>2. /\ proposals' = [proposals EXCEPT ![p] = q]
        /\ ledger' = ledger \o u
        /\ UNCHANGED <<tranches, queue>>
        /\ hashing' = hashing \ {h}
    BY <1>2 DEF FinishApply, AppliedOf
  <2>3. QueueTyped' /\ WaitersReady'
    BY <2>2 DEF TInv, QueueTyped, WaitersReady, IsSeq
  <2>4. ProposalShaped(h.current)
    BY <2>1 DEF TInv, ProposalsShaped
  <2>5. /\ ProposalShaped(q) /\ q.status # "PROPOSED"
        /\ q.amounts = h.current.amounts /\ q.tranche = h.current.tranche
    BY <2>4, UpdatesShaped
  <2> HIDE DEF q
  <2>6. ProposalsShaped' /\ FundsOneProposal'
    BY <2>1, <2>2, <2>5, ProposalKeeps
  <2>7. IsSeq(u) /\ \A i \in DOMAIN u : u[i].kind = "ALLOCATION"
    BY <2>4, AllocationEntriesAre DEF ProposalShaped
  <2> HIDE DEF u
  <2>8. IsSeq(ledger')
    BY <2>2, <2>7, JoinIsSeq DEF TInv
  <2>9. \A t \in Tranches : CreditedRight(ledger', t)
    BY <2>2, <2>7, AllocationCreditsNothing, CreditedParts DEF TInv
  <2>10. CreditedOnce'
    BY <2>2, <2>9, LedgerKeepsCredit DEF TInv
  <2>11. TranchesTyped' /\ IsSeq(ledger)'
    BY <2>2, <2>8 DEF TInv, TranchesTyped, IsSeq
  <2>q. QED
    BY <2>3, <2>6, <2>10, <2>11 DEF TInv
<1>q. QED
  BY <1>1, <1>2

(* A proposal of a tranche is a new user of it: it was reconciled, no other *)
(* proposal has it, and what is given away is what the tranche brought.    *)
LEMMA CreateKeeps ==
  ASSUME TInv, NEW p \in Proposals, NEW ins \in InstructionLists,
         NEW t \in Tranches \cup {None}, NEW e, CreateAllocationProposal(p, ins, t, e)
  PROVE  TInv'
<1> DEFINE amounts == Resolve(Budget(t), ins)
           q == [status |-> "PROPOSED", amounts |-> amounts, tranche |-> t,
                 approval |-> None, appliedAt |-> None]
<1>1. /\ proposals[p] = NoProposal
      /\ t # None => CanBeSource(t)
      /\ AmountTotal(amounts) <= Budget(t)
      /\ proposals' = [proposals EXCEPT ![p] = q]
      /\ UNCHANGED <<ledger, tranches, queue, hashing>>
      /\ Resolvable(Budget(t), ins, Reserves)
  BY DEF CreateAllocationProposal, funds, tasks
<1>2. DOMAIN amounts \subseteq Reserves
  BY <1>1 DEF Resolve, Resolvable, Mentioned
<1> HIDE DEF amounts
<1>3. /\ ProposalShaped(q)
      /\ q.amounts = amounts /\ q.tranche = t
  BY <1>2 DEF ProposalShaped
<1> HIDE DEF q
<1>4. ProposalsShaped'
  BY <1>1, <1>3 DEF TInv, ProposalsShaped
<1>5. \A r \in Proposals : proposals'[r] = IF r = p THEN q ELSE proposals[r]
  BY <1>1 DEF TInv, ProposalsShaped
<1>6. t # None => /\ tranches[t] # None
                  /\ tranches[t].state = "RECONCILED"
                  /\ AmountTotal(amounts) <= tranches[t].amount
                  /\ \A r \in Proposals : proposals[r] # NoProposal => proposals[r].tranche # t
  BY <1>1 DEF CanBeSource, Budget
<1>7. FundsOneProposal'
  BY <1>1, <1>3, <1>5, <1>6 DEF TInv, FundsOneProposal
<1>8. QueueTyped' /\ WaitersReady'
  BY <1>1 DEF TInv, QueueTyped, WaitersReady, IsSeq
<1>q. QED
  BY <1>1, <1>4, <1>7, <1>8, TranchesKept DEF TInv

(* Evidence is recorded only over a tranche that is not settled: no entry  *)
(* credits it, before or after, and no proposal has it.                    *)
LEMMA RecordTrancheKeeps ==
  ASSUME TInv, RunRecordTranche
  PROVE  TInv'
<1> DEFINE a == Head(queue).args
           n == [state |-> a.ref.status, amount |-> a.amount, hash |-> a.ref.hash]
<1>1. CASE ~CanRecordTranche(a)
  BY <1>1, RejectKeeps DEF RunRecordTranche
<1>2. CASE CanRecordTranche(a)
  <2>1. /\ tranches' = [tranches EXCEPT ![a.tranche] = n]
        /\ UNCHANGED <<ledger, proposals, hashing>>
        /\ Runs("tranche-record") /\ Dequeue
    BY <1>2 DEF RunRecordTranche, funds
  <2>2. /\ QueueTyped'
        /\ a.tranche \in Tranches /\ a.amount \in Amounts /\ a.ref \in TransactionRef
    BY <2>1, DequeueKeeps
  <2>3. HashIsFree(a.tranche, a.ref.hash) /\ ~IsTerminal(a.tranche)
    BY <1>2 DEF CanRecordTranche
  <2> DEFINE t == a.tranche
             ref == a.ref
  <2>4. /\ ref.status \in TrancheStates \ {"RECONCILED"}
        /\ ref.hash \in Hashes \cup {None}
    BY <2>2 DEF TransactionRef, TrancheStates
  <2>5. n \in TrancheType /\ n # None /\ n.state # "RECONCILED" /\ n.hash = ref.hash
    BY <2>2, <2>4, AbsenceAssumption DEF TrancheType
  <2> HIDE DEF n
  <2>6. tranches \in [Tranches -> TrancheType \cup {None}]
    BY DEF TInv, TranchesTyped
  <2>7. \A u \in Tranches : tranches'[u] = IF u = t THEN n ELSE tranches[u]
    BY <2>1, <2>2, <2>6
  <2>8. TranchesTyped'
    BY <2>1, <2>2, <2>5, <2>6 DEF TranchesTyped
  <2>9. ~IsReconciled(t)
    BY <2>3 DEF IsTerminal, IsReconciled
  <2> HIDE DEF a
  <2>10. CreditedOnce'
    <3>1. (\A u \in Tranches : CreditedRight(ledger, u)) /\ HashesDistinct
      BY CreditedParts DEF TInv
    <3>2. \A u \in Tranches : (CreditedRight(ledger, u))'
      BY <3>1, <2>1, <2>5, <2>7, <2>9 DEF CreditedRight, CreditsIn, IsReconciled
    <3>3. HashesDistinct'
      BY <3>1, <2>3, <2>5, <2>7 DEF HashesDistinct, HashIsFree
    <3>q. QED
      BY <3>2, <3>3 DEF CreditedOnce, CreditedRight, CreditsIn, IsReconciled, HashesDistinct
  <2>11. ProposalsShaped'
    BY <2>1 DEF TInv, ProposalsShaped
  <2>12. FundsOneProposal'
    BY <2>1, <2>7, <2>9 DEF TInv, FundsOneProposal, ProposalsShaped, ProposalShaped, IsReconciled
  <2>13. WaitersReady' /\ IsSeq(ledger)'
    BY <2>1 DEF TInv, WaitersReady, IsSeq
  <2>q. QED
    BY <2>2, <2>8, <2>10, <2>11, <2>12, <2>13 DEF TInv
<1>q. QED
  BY <1>1, <1>2

(* Reconciling a tranche writes its credit in the same step; it had none.  *)
LEMMA ReconcileKeeps ==
  ASSUME TInv, RunReconcile
  PROVE  TInv'
<1> DEFINE t == Head(queue).args.tranche
           c == Credit(t)
<1>1. CASE ~CanReconcile(t)
  BY <1>1, RejectKeeps DEF RunReconcile
<1>2. CASE CanReconcile(t)
  <2>1. /\ tranches' = [tranches EXCEPT ![t].state = "RECONCILED"]
        /\ ledger' = Append(ledger, c)
        /\ UNCHANGED <<proposals, hashing>>
        /\ Runs("tranche-reconcile") /\ Dequeue
    BY <1>2 DEF RunReconcile
  <2>2. QueueTyped' /\ t \in Tranches
    BY <2>1, DequeueKeeps
  <2>3. tranches[t] # None /\ tranches[t].state = "CONFIRMED"
    BY <1>2 DEF CanReconcile
  <2>4. tranches \in [Tranches -> TrancheType \cup {None}]
    BY DEF TInv, TranchesTyped
  <2>5. c.kind = "SETTLEMENT" /\ c.ref = t /\ c.amount = tranches[t].amount
    BY DEF Credit, Entry
  <2> HIDE DEF c, t
  <2> DEFINE n == [tranches[t] EXCEPT !.state = "RECONCILED"]
  <2>6. /\ n \in TrancheType /\ n # None /\ n.state = "RECONCILED"
        /\ n.amount = tranches[t].amount /\ n.hash = tranches[t].hash
    BY <2>2, <2>3, <2>4, AbsenceAssumption DEF TrancheType, TrancheStates
  <2>7. tranches' = [tranches EXCEPT ![t] = n]
    BY <2>1, <2>2, <2>4
  <2> HIDE DEF n
  <2>8. \A u \in Tranches : tranches'[u] = IF u = t THEN n ELSE tranches[u]
    BY <2>2, <2>4, <2>7
  <2>9. TranchesTyped'
    BY <2>2, <2>4, <2>6, <2>7 DEF TranchesTyped
  <2>10. /\ IsSeq(ledger')
         /\ Len(ledger) \in Nat /\ DOMAIN ledger = 1 .. Len(ledger)
         /\ DOMAIN ledger' = 1 .. Len(ledger) + 1
         /\ \A i \in 1 .. Len(ledger) : ledger'[i] = ledger[i]
         /\ ledger'[Len(ledger) + 1] = c
    BY <2>1, AppendIsSeq DEF TInv
  <2>11. (\A u \in Tranches : CreditedRight(ledger, u)) /\ HashesDistinct
    BY CreditedParts DEF TInv
  <2>12. \A u \in Tranches : CreditsIn(ledger', u) =
           IF u = t THEN CreditsIn(ledger, t) \cup {Len(ledger) + 1} ELSE CreditsIn(ledger, u)
    BY <2>5, <2>10 DEF CreditsIn
  <2>13. \A u \in Tranches : (CreditedRight(ledger, u))'
    <3>1. TAKE u \in Tranches
    <3>2. CASE u = t
      <4>1. CreditsIn(ledger, t) = {}
        BY <2>2, <2>3, <2>11 DEF CreditedRight, IsReconciled
      <4>2. CreditsIn(ledger', t) = {Len(ledger) + 1}
        BY <2>2, <2>12, <4>1
      <4>q. QED
        BY <2>2, <2>5, <2>6, <2>8, <2>10, <3>2, <4>2 DEF CreditedRight, CreditsIn, IsReconciled
    <3>3. CASE u # t
      <4>1. CreditsIn(ledger', u) = CreditsIn(ledger, u) /\ tranches'[u] = tranches[u]
        BY <2>8, <2>12, <3>3
      <4>2. \A i \in CreditsIn(ledger, u) : ledger'[i] = ledger[i]
        BY <2>10 DEF CreditsIn
      <4>3. CreditedRight(ledger, u)
        BY <2>11
      <4>q. QED
        BY <4>1, <4>2, <4>3 DEF CreditedRight, CreditsIn, IsReconciled
    <3>q. QED
      BY <3>2, <3>3
  <2>14. HashesDistinct'
    BY <2>2, <2>3, <2>6, <2>8, <2>11 DEF HashesDistinct
  <2>15. CreditedOnce'
    BY <2>13, <2>14 DEF CreditedOnce, CreditedRight, CreditsIn, IsReconciled, HashesDistinct
  <2>16. ProposalsShaped' /\ WaitersReady' /\ IsSeq(ledger)'
    BY <2>1, <2>10 DEF TInv, ProposalsShaped, WaitersReady, IsSeq
  <2>17. FundsOneProposal'
    BY <2>1, <2>3, <2>6, <2>8 DEF TInv, FundsOneProposal, ProposalsShaped, ProposalShaped
  <2>q. QED
    BY <2>2, <2>9, <2>15, <2>16, <2>17 DEF TInv
<1>q. QED
  BY <1>1, <1>2

-----------------------------------------------------------------------------
(* The invariant                                                           *)

(* The invariant holds at the start.                                       *)
LEMMA InitEstablishes == TreasuryInit => TInv
<1> SUFFICES ASSUME TreasuryInit PROVE TInv
  OBVIOUS
<1> DEFINE c == Entry("CAPITAL", None, None, InitialCapital, None)
<1>1. /\ queue = <<>> /\ hashing = {} /\ ledger = <<c>>
      /\ proposals = [p \in Proposals |-> NoProposal]
      /\ tranches = [t \in Tranches |-> None]
  BY DEF TreasuryInit
<1>2. c.kind = "CAPITAL"
  BY DEF Entry
<1> HIDE DEF c
<1>3. queue \in Seq({}) /\ DOMAIN queue = {}
  BY <1>1
<1>4. QueueTyped
  BY <1>3, SeqOfItsOwn DEF QueueTyped
<1>5. ledger \in Seq({c}) /\ DOMAIN ledger = {1} /\ ledger[1] = c
  BY <1>1
<1>6. IsSeq(ledger)
  BY <1>5, SeqOfItsOwn
<1>7. \A t : CreditsIn(ledger, t) = {}
  BY <1>2, <1>5 DEF CreditsIn
<1>8. \A t \in Tranches : tranches[t] = None
  BY <1>1
<1>9. (\A t \in Tranches : CreditedRight(ledger, t)) /\ HashesDistinct
  BY <1>7, <1>8 DEF CreditedRight, IsReconciled, HashesDistinct
<1>10. CreditedOnce
  BY <1>9, CreditedParts
<1>11. WaitersReady /\ ProposalsShaped /\ TranchesTyped /\ FundsOneProposal
  BY <1>1 DEF WaitersReady, ProposalsShaped, TranchesTyped, FundsOneProposal
<1>q. QED
  BY <1>4, <1>6, <1>10, <1>11 DEF TInv

(* Steps of escrow.                                                        *)
LEMMA EscrowStep == TInv /\ EscrowNext => TInv'
<1> SUFFICES ASSUME TInv, EscrowNext PROVE TInv'
  OBVIOUS
<1>1. CASE \E k \in Keys, e \in EventIds, n \in Amounts : CallRecordEscrow(k, e, n)
  BY <1>1, EnqueueKeeps DEF CallRecordEscrow
<1>2. CASE \E k \in Keys, e \in EventIds, n \in Amounts, target \in Targets :
             CallReleaseEscrow(k, e, n, target)
  BY <1>2, EnqueueKeeps DEF CallReleaseEscrow
<1>3. CASE RunRecordEscrow
  <2> DEFINE a == Head(queue).args
  <2>1. CASE ~CanRecordEscrow(a)
    BY <1>3, <2>1, RejectKeeps DEF RunRecordEscrow
  <2>2. CASE CanRecordEscrow(a)
    <3> DEFINE e == Entry("COMMITMENT", a.event, None, a.amount, None)
    <3>1. /\ Runs("escrow-record") /\ Dequeue /\ ledger' = Append(ledger, e)
          /\ UNCHANGED <<proposals, tranches, hashing>>
      BY <1>3, <2>2 DEF RunRecordEscrow, records
    <3>2. e.kind # "SETTLEMENT"
      BY DEF Entry
    <3> HIDE DEF e
    <3>q. QED
      BY <3>1, <3>2, EscrowKeeps
  <2>q. QED
    BY <2>1, <2>2
<1>4. CASE RunReleaseEscrow
  <2> DEFINE a == Head(queue).args
  <2>1. CASE ~CanReleaseEscrow(a)
    BY <1>4, <2>1, RejectKeeps DEF RunReleaseEscrow
  <2>2. CASE CanReleaseEscrow(a)
    <3> DEFINE e == Entry("REVERSAL", a.event, None, a.amount, a.target)
    <3>1. /\ Runs("escrow-release") /\ Dequeue /\ ledger' = Append(ledger, e)
          /\ UNCHANGED <<proposals, tranches, hashing>>
      BY <1>4, <2>2 DEF RunReleaseEscrow, records
    <3>2. e.kind # "SETTLEMENT"
      BY DEF Entry
    <3> HIDE DEF e
    <3>q. QED
      BY <3>1, <3>2, EscrowKeeps
  <2>q. QED
    BY <2>1, <2>2
<1>q. QED
  BY <1>1, <1>2, <1>3, <1>4 DEF EscrowNext

(* Steps of allocation.                                                    *)
LEMMA AllocationStep == TInv /\ AllocationNext => TInv'
<1> SUFFICES ASSUME TInv, AllocationNext PROVE TInv'
  OBVIOUS
<1>1. CASE \E p \in Proposals, e \in EventIds, ins \in InstructionLists,
             t \in Tranches \cup {None} : CreateAllocationProposal(p, ins, t, e)
  BY <1>1, CreateKeeps
<1>2. CASE \E p \in Proposals, e \in EventIds, k \in Keys :
             \E intent \in IntentsFor(p), expiresAt \in Expiries :
               CallApprove(k, p, intent, expiresAt, e)
  <2>1. PICK p \in Proposals, e \in EventIds, k \in Keys :
          \E intent \in IntentsFor(p), expiresAt \in Expiries :
            CallApprove(k, p, intent, expiresAt, e)
    BY <1>2
  <2>2. PICK intent \in IntentsFor(p), expiresAt \in Expiries :
          CallApprove(k, p, intent, expiresAt, e)
    BY <2>1
  <2>q. QED
    BY <2>2, EnqueueKeeps DEF CallApprove
<1>3. CASE \E p \in Proposals, e \in EventIds, k \in Keys, now \in Times :
             CallApply(k, p, e, now)
  BY <1>3, EnqueueKeeps DEF CallApply
<1>4. CASE RunApprove
  <2>1. CASE ~CanApprove(Head(queue).args)
    BY <1>4, <2>1, RejectKeeps DEF RunApprove
  <2>2. CASE CanApprove(Head(queue).args)
    BY <1>4, <2>2, WaitKeeps DEF RunApprove, CanApprove
  <2>q. QED
    BY <2>1, <2>2
<1>5. CASE RunApply
  <2>1. CASE ~CanApply(Head(queue).args)
    BY <1>5, <2>1, RejectKeeps DEF RunApply
  <2>2. CASE CanApply(Head(queue).args)
    BY <1>5, <2>2, WaitKeeps DEF RunApply, CanApply
  <2>q. QED
    BY <2>1, <2>2
<1>6. CASE \E h \in hashing : FinishApprove(h) \/ FinishApply(h)
  BY <1>6, ApproveKeeps, ApplyKeeps
<1>q. QED
  BY <1>1, <1>2, <1>3, <1>4, <1>5, <1>6 DEF AllocationNext

(* Steps of incoming tranches.                                             *)
LEMMA TrancheStep == TInv /\ TrancheNext => TInv'
<1> SUFFICES ASSUME TInv, TrancheNext PROVE TInv'
  OBVIOUS
<1>1. CASE \E k \in Keys, t \in Tranches, e \in EventIds, n \in Amounts,
             ref \in TransactionRef : CallRecordTranche(k, t, n, ref, e)
  BY <1>1, EnqueueKeeps DEF CallRecordTranche
<1>2. CASE \E k \in Keys, t \in Tranches, e \in EventIds : CallReconcile(k, t, e)
  BY <1>2, EnqueueKeeps DEF CallReconcile
<1>q. QED
  BY <1>1, <1>2, RecordTrancheKeeps, ReconcileKeeps DEF TrancheNext

(* Every step keeps it.                                                    *)
LEMMA StepKeeps == TInv /\ [TreasuryNext]_vars => TInv'
<1> SUFFICES ASSUME TInv, [TreasuryNext]_vars PROVE TInv'
  OBVIOUS
<1>1. CASE UNCHANGED vars
  <2>1. UNCHANGED <<ledger, proposals, tranches, queue, hashing>>
    BY <1>1 DEF vars, funds, records, tasks
  <2>2. QueueTyped' /\ WaitersReady'
    BY <2>1 DEF TInv, QueueTyped, WaitersReady, IsSeq
  <2>q. QED
    BY <2>1, <2>2, TranchesKept, ProposalsKept DEF TInv
<1>q. QED
  BY <1>1, EscrowStep, AllocationStep, TrancheStep DEF TreasuryNext

(* So it always holds.                                                     *)
LEMMA TInvAlways == TreasurySpec => []TInv
BY InitEstablishes, StepKeeps, PTL DEF TreasurySpec

-----------------------------------------------------------------------------
(* The theorems                                                            *)

(* However many recordings and reconciliations race: a tranche is credited *)
(* exactly when it is RECONCILED, once, with its own amount, and no        *)
(* transaction is evidence for two tranches (recordIncomingTranche,        *)
(* reconcileConfirmedTranche).                                             *)
THEOREM TranchesCreditedOnce == TreasurySpec => []CreditedOnce
<1>1. TInv => CreditedOnce
  BY DEF TInv
<1>q. QED
  BY <1>1, TInvAlways, PTL

(* A tranche that funds a proposal is reconciled and stays so, funds no    *)
(* other, and covers what the proposal gives away                          *)
(* (createAllocationProposal).                                             *)
THEOREM TranchesFundOneProposal == TreasurySpec => []FundsOneProposal
<1>1. TInv => FundsOneProposal
  BY DEF TInv
<1>q. QED
  BY <1>1, TInvAlways, PTL

-----------------------------------------------------------------------------
(* Settled records                                                         *)

TerminalKept == \A t \in Tranches : IsTerminal(t) => tranches'[t] = tranches[t]

ContentKept(p) ==
  proposals[p] # NoProposal =>
    /\ proposals'[p].amounts = proposals[p].amounts
    /\ proposals'[p].tranche = proposals[p].tranche
    /\ proposals[p].approval # None => proposals'[p].approval = proposals[p].approval
    /\ proposals[p].status = "APPLIED" => proposals'[p] = proposals[p]

AllKept == TerminalKept /\ \A p \in Proposals : ContentKept(p)

(* The fields of a proposal that has been approved or applied.             *)
LEMMA UpdatedFields ==
  ASSUME NEW c, ProposalShaped(c), NEW ap, NEW at
  PROVE  /\ ApprovedOf(c, ap).amounts = c.amounts
         /\ ApprovedOf(c, ap).tranche = c.tranche
         /\ AppliedOf(c, at).amounts = c.amounts
         /\ AppliedOf(c, at).tranche = c.tranche
         /\ AppliedOf(c, at).approval = c.approval
<1>1. c = [status |-> c.status, amounts |-> c.amounts, tranche |-> c.tranche,
           approval |-> c.approval, appliedAt |-> c.appliedAt]
  BY DEF ProposalShaped
<1>2. /\ ApprovedOf(c, ap) = [status |-> "APPROVED", amounts |-> c.amounts,
           tranche |-> c.tranche, approval |-> ap, appliedAt |-> c.appliedAt]
      /\ AppliedOf(c, at) = [status |-> "APPLIED", amounts |-> c.amounts,
           tranche |-> c.tranche, approval |-> c.approval, appliedAt |-> at]
  BY <1>1, RecordUpdates
<1>q. QED
  BY <1>2

(* Tranches change when evidence is recorded, which spares the terminal    *)
(* ones, and when a CONFIRMED one is reconciled.                           *)
LEMMA TranchesStepKeeps ==
  ASSUME TInv, RunRecordTranche \/ RunReconcile
  PROVE  AllKept
<1> DEFINE a == Head(queue).args
<1>1. tranches \in [Tranches -> TrancheType \cup {None}]
  BY DEF TInv, TranchesTyped
<1>2. \/ UNCHANGED tranches
      \/ ~IsTerminal(a.tranche) /\ \E n : tranches' = [tranches EXCEPT ![a.tranche] = n]
  <2>1. CASE RunRecordTranche
    BY <2>1 DEF RunRecordTranche, CanRecordTranche, Reject, records
  <2>2. CASE RunReconcile
    <3>1. CASE CanReconcile(a.tranche)
      <4>1. tranches' = [tranches EXCEPT ![a.tranche].state = "RECONCILED"]
        BY <2>2, <3>1 DEF RunReconcile
      <4>2. ~IsTerminal(a.tranche)
        BY <3>1 DEF CanReconcile, IsTerminal
      <4>q. QED
        BY <4>1, <4>2
    <3>2. CASE ~CanReconcile(a.tranche)
      BY <2>2, <3>2 DEF RunReconcile, Reject, records
    <3>q. QED
      BY <3>1, <3>2
  <2>q. QED
    BY <2>1, <2>2
<1>3. TerminalKept
  BY <1>1, <1>2 DEF TerminalKept
<1>4. UNCHANGED proposals
  BY DEF RunRecordTranche, RunReconcile, Reject, records
<1>q. QED
  BY <1>3, <1>4 DEF AllKept, ContentKept

(* What the end of an action leaves alone.                                 *)
LEMMA FinishStepKeeps ==
  ASSUME TInv, NEW h \in hashing, FinishApprove(h) \/ FinishApply(h)
  PROVE  AllKept
<1> DEFINE p == h.call.args.proposal
<1>1. UNCHANGED tranches
  BY DEF FinishApprove, FinishApply, Reject, records
<1>2. CASE UNCHANGED proposals
  BY <1>1, <1>2 DEF AllKept, TerminalKept, ContentKept
<1>3. CASE ~UNCHANGED proposals
  <2>1. /\ p \in Proposals /\ h.current # NoProposal
        /\ h.call.scope = "allocation-approve" => h.current.status = "PROPOSED"
        /\ h.call.scope = "allocation-apply" => h.current.status = "APPROVED"
    BY DEF TInv, WaitersReady
  <2>2. /\ proposals[p] = h.current
        /\ \/ /\ h.call.scope = "allocation-approve"
              /\ \E ap : proposals' = [proposals EXCEPT ![p] = ApprovedOf(@, ap)]
           \/ /\ h.call.scope = "allocation-apply"
              /\ \E at : proposals' = [proposals EXCEPT ![p] = AppliedOf(h.current, at)]
    <3>1. CASE FinishApprove(h)
      BY <1>3, <3>1 DEF FinishApprove, CanFinishApprove, Unmoved, Reject, records, ApprovedOf
    <3>2. CASE FinishApply(h)
      BY <1>3, <3>2 DEF FinishApply, CanFinishApply, Unmoved, Reject, records, AppliedOf
    <3>q. QED
      BY <3>1, <3>2
  <2>3. PICK q : proposals' = [proposals EXCEPT ![p] = q]
                   /\ \/ h.current.status = "PROPOSED" /\ \E ap : q = ApprovedOf(h.current, ap)
                      \/ h.current.status = "APPROVED" /\ \E at : q = AppliedOf(h.current, at)
    BY <2>1, <2>2
  <2>4. ProposalShaped(h.current)
    BY <2>1, <2>2 DEF TInv, ProposalsShaped
  <2>5. /\ q.amounts = h.current.amounts /\ q.tranche = h.current.tranche
        /\ h.current.approval # None => q.approval = h.current.approval
        /\ h.current.status # "APPLIED"
    BY <2>3, <2>4, UpdatedFields DEF ProposalShaped
  <2>6. \A r \in Proposals : proposals'[r] = IF r = p THEN q ELSE proposals[r]
    BY <2>1, <2>3 DEF TInv, ProposalsShaped
  <2>7. \A r \in Proposals : ContentKept(r)
    BY <2>2, <2>5, <2>6 DEF ContentKept
  <2>q. QED
    BY <1>1, <2>7 DEF AllKept, TerminalKept
<1>q. QED
  BY <1>2, <1>3

(* Every step keeps what is settled.                                       *)
LEMMA StepKeepsSettled == TInv /\ [TreasuryNext]_vars => AllKept
<1> SUFFICES ASSUME TInv, [TreasuryNext]_vars PROVE AllKept
  OBVIOUS
<1>1. CASE UNCHANGED <<proposals, tranches>>
  BY <1>1 DEF AllKept, TerminalKept, ContentKept
<1>2. CASE \E p \in Proposals, e \in EventIds, ins \in InstructionLists,
             t \in Tranches \cup {None} : CreateAllocationProposal(p, ins, t, e)
  <2>1. PICK p \in Proposals, e \in EventIds, ins \in InstructionLists,
             t \in Tranches \cup {None} : CreateAllocationProposal(p, ins, t, e)
    BY <1>2
  <2>2. /\ proposals[p] = NoProposal /\ UNCHANGED tranches
        /\ \A r \in Proposals : r # p => proposals'[r] = proposals[r]
    BY <2>1 DEF CreateAllocationProposal, TInv, ProposalsShaped
  <2>q. QED
    BY <2>2 DEF AllKept, TerminalKept, ContentKept
<1>3. CASE RunRecordTranche \/ RunReconcile
  BY <1>3, TranchesStepKeeps
<1>4. CASE \E h \in hashing : FinishApprove(h) \/ FinishApply(h)
  BY <1>4, FinishStepKeeps
<1>5. CASE UNCHANGED vars
  BY <1>1, <1>5 DEF vars, records
<1>6. ASSUME NEW scope, NEW key, NEW args, Enqueue(scope, key, args)
      PROVE  UNCHANGED <<proposals, tranches>>
  BY <1>6 DEF Enqueue, records
<1>7. CASE EscrowNext
  BY <1>1, <1>6, <1>7 DEF EscrowNext, CallRecordEscrow, CallReleaseEscrow,
       RunRecordEscrow, RunReleaseEscrow, Reject, records
<1>8. CASE AllocationNext
  <2>1. CASE RunApprove \/ RunApply
    BY <1>1, <2>1 DEF RunApprove, RunApply, WaitForHash, Reject, records
  <2>q. QED
    BY <1>1, <1>2, <1>4, <1>6, <1>8, <2>1 DEF AllocationNext, CallApprove, CallApply
<1>9. CASE TrancheNext
  BY <1>1, <1>3, <1>6, <1>9 DEF TrancheNext, CallRecordTranche, CallReconcile
<1>q. QED
  BY <1>5, <1>7, <1>8, <1>9 DEF TreasuryNext

(* A reconciled or failed tranche never changes, though a recording that   *)
(* was validated before may still be queued, and an approved proposal      *)
(* keeps its amounts, its tranche and its first approval, though other     *)
(* approvals may still wait for their hash (approveAllocationProposal,     *)
(* applyApprovedProposal, recordIncomingTranche).                          *)
THEOREM SettledNeverChanges == TreasurySpec => SettledStays
<1>1. TInv /\ [TreasuryNext]_vars =>
        [/\ \A t \in Tranches : IsTerminal(t) => tranches'[t] = tranches[t]
         /\ \A p \in Proposals :
              proposals[p] # NoProposal =>
                /\ proposals'[p].amounts = proposals[p].amounts
                /\ proposals'[p].tranche = proposals[p].tranche
                /\ proposals[p].approval # None =>
                     proposals'[p].approval = proposals[p].approval
                /\ proposals[p].status = "APPLIED" => proposals'[p] = proposals[p]]_vars
  BY StepKeepsSettled DEF AllKept, TerminalKept, ContentKept
<1>q. QED
  BY <1>1, TInvAlways, PTL DEF TreasurySpec, SettledStays

-----------------------------------------------------------------------------
(* Sums of ledger entries                                                  *)

AmountsOf(lg) == [i \in DOMAIN lg |-> lg[i].amount]

EntrySum(lg, S) == MapThenSumSet(LAMBDA i : lg[i].amount, S)

(* The sum over entries is such a sum.                                     *)
LEMMA EntrySumIs ==
  ASSUME NEW lg, NEW S \in SUBSET DOMAIN lg, IsFiniteSet(S)
  PROVE  EntrySum(lg, S) = Total(AmountsOf(lg), S)
<1>1. PICK g : IsSum(g, AmountsOf(lg), S)
  BY SumExists
<1>2. g = [s \in SUBSET S |->
             IF s = {} THEN 0
             ELSE lg[CHOOSE x \in s : TRUE].amount + g[s \ {CHOOSE x \in s : TRUE}]]
  <2>1. \A s \in SUBSET S : s # {} => AmountsOf(lg)[Taken(s)] = lg[Taken(s)].amount
    BY DEF AmountsOf, Taken
  <2>2. \A s \in SUBSET S : SumOver(g, AmountsOf(lg), s) =
             IF s = {} THEN 0
             ELSE lg[CHOOSE x \in s : TRUE].amount + g[s \ {CHOOSE x \in s : TRUE}]
    BY <2>1 DEF SumOver, Taken, Others
  <2>q. QED
    BY <1>1, <2>2 DEF IsSum
<1> DEFINE IsIter(iter) ==
      iter = [s \in SUBSET S |->
                IF s = {} THEN 0
                ELSE lg[CHOOSE x \in s : TRUE].amount + iter[s \ {CHOOSE x \in s : TRUE}]]
<1>3. EntrySum(lg, S) = (CHOOSE iter : IsIter(iter))[S]
  BY DEF EntrySum, MapThenSumSet, MapThenFoldSet
<1>4. PICK f : IsIter(f) /\ EntrySum(lg, S) = f[S]
  BY <1>2, <1>3
<1>5. IsSum(f, AmountsOf(lg), S)
  <2>1. \A s \in SUBSET S : s # {} => AmountsOf(lg)[Taken(s)] = lg[Taken(s)].amount
    BY DEF AmountsOf, Taken
  <2>2. \A s \in SUBSET S : SumOver(f, AmountsOf(lg), s) =
             IF s = {} THEN 0
             ELSE lg[CHOOSE x \in s : TRUE].amount + f[s \ {CHOOSE x \in s : TRUE}]
    BY <2>1 DEF SumOver, Taken, Others
  <2>q. QED
    BY <1>4, <2>2 DEF IsSum
<1>6. Total(AmountsOf(lg), S) = f[S]
  BY <1>5, TotalIs
<1>q. QED
  BY <1>4, <1>6

-----------------------------------------------------------------------------
(* The members of a set of numbers, smallest first                         *)

(* A finite set of numbers has an order.                                   *)
LEMMA OrderExists ==
  ASSUME NEW S \in SUBSET Nat, IsFiniteSet(S)
  PROVE  \E f \in [1 .. Cardinality(S) -> S] :
           \A i, j \in 1 .. Cardinality(S) : i < j => f[i] < f[j]
<1> DEFINE n == Cardinality(S)
           UpTo(x) == {y \in S : y <= x}
           rank == [x \in S |-> Cardinality(UpTo(x))]
<1>1. n \in Nat
  BY FS_CardinalityType
<1>2. \A x \in S : UpTo(x) \in SUBSET S /\ IsFiniteSet(UpTo(x)) /\ UpTo(x) # {}
  BY FS_Subset
<1>3. \A x \in S : rank[x] \in 1 .. n
  <2>1. TAKE x \in S
  <2>2. Cardinality(UpTo(x)) \in Nat /\ Cardinality(UpTo(x)) # 0
    BY <1>2, FS_CardinalityType, FS_EmptySet
  <2>3. Cardinality(UpTo(x)) <= n
    BY <1>2, FS_Subset
  <2>q. QED
    BY <1>1, <2>2, <2>3
<1>4. \A x, y \in S : x < y => rank[x] < rank[y]
  <2>1. TAKE x, y \in S
  <2>2. HAVE x < y
  <2>3. UpTo(x) \in SUBSET UpTo(y) /\ UpTo(x) # UpTo(y)
    <3>1. x \in Nat /\ y \in Nat
      OBVIOUS
    <3>2. \A z \in S : z \in Nat
      OBVIOUS
    <3>3. \A z \in S : z <= x => z <= y
      BY <2>2, <3>1, <3>2
    <3>4. y \in UpTo(y) /\ y \notin UpTo(x)
      BY <2>2, <3>1
    <3>q. QED
      BY <3>3, <3>4
  <2> HIDE DEF UpTo
  <2>4. /\ Cardinality(UpTo(x)) <= Cardinality(UpTo(y))
        /\ Cardinality(UpTo(x)) # Cardinality(UpTo(y))
    BY <1>2, <2>3, FS_Subset
  <2>5. Cardinality(UpTo(x)) \in Nat /\ Cardinality(UpTo(y)) \in Nat
    BY <1>2, FS_CardinalityType
  <2>q. QED
    BY <2>4, <2>5
<1>5. rank \in [S -> 1 .. n]
  BY <1>3
<1> HIDE DEF rank, UpTo, n
<1>6. rank \in Injection(S, 1 .. n)
  <2>1. \A x, y \in S : rank[x] = rank[y] => x = y
    <3>1. TAKE x, y \in S
    <3>2. HAVE rank[x] = rank[y]
    <3>3. ~(x < y) /\ ~(y < x)
      BY <1>3, <1>4, <3>2
    <3>q. QED
      BY <3>3
  <2>q. QED
    BY <1>5, <2>1 DEF Injection, IsInjective
<1>7. IsFiniteSet(1 .. n) /\ Cardinality(1 .. n) = n
  BY <1>1, FS_Interval
<1>8. rank \in Surjection(S, 1 .. n)
  BY <1>6, <1>7, FS_Injection DEF n
<1>9. \A i \in 1 .. n : \E x \in S : rank[x] = i
  BY <1>8 DEF Surjection
<1> DEFINE f == [i \in 1 .. n |-> CHOOSE x \in S : rank[x] = i]
<1>10. \A i \in 1 .. n : f[i] \in S /\ rank[f[i]] = i
  BY <1>9
<1>11. f \in [1 .. n -> S]
  BY <1>10
<1> HIDE DEF f
<1>12. \A i, j \in 1 .. n : i < j => f[i] < f[j]
  <2>1. TAKE i, j \in 1 .. n
  <2>2. HAVE i < j
  <2>3. /\ f[i] \in S /\ f[j] \in S /\ rank[f[i]] = i /\ rank[f[j]] = j
    BY <1>10
  <2>4. PICK a \in S, b \in S : a = f[i] /\ b = f[j] /\ rank[a] = i /\ rank[b] = j
    BY <2>3
  <2>5. i \in Nat /\ j \in Nat /\ a \in Nat /\ b \in Nat
    BY <1>1
  <2>6. ~(b < a) /\ a # b
    BY <1>4, <2>2, <2>4, <2>5
  <2>q. QED
    BY <2>4, <2>5, <2>6
<1>q. QED
  BY <1>11, <1>12 DEF n

(* They are all its members, each once.                                    *)
LEMMA InOrderIs ==
  ASSUME NEW S \in SUBSET Nat, IsFiniteSet(S)
  PROVE  /\ Cardinality(S) \in Nat
         /\ \A i \in 1 .. Cardinality(S) : InOrder(S)[i] \in S
         /\ \A i, j \in 1 .. Cardinality(S) : InOrder(S)[i] = InOrder(S)[j] => i = j
         /\ {InOrder(S)[i] : i \in 1 .. Cardinality(S)} = S
<1> DEFINE n == Cardinality(S)
<1>1. n \in Nat
  BY FS_CardinalityType
<1> HIDE DEF n
<1>2. PICK f : /\ f = InOrder(S)
               /\ f \in [1 .. n -> S]
               /\ \A i, j \in 1 .. n : i < j => f[i] < f[j]
  BY OrderExists DEF InOrder, n
<1>3. IsFiniteSet(1 .. n) /\ Cardinality(1 .. n) = n
  BY <1>1, FS_Interval
<1>4. \A i, j \in 1 .. n : f[i] = f[j] => i = j
  <2>1. TAKE i, j \in 1 .. n
  <2>2. HAVE f[i] = f[j]
  <2>3. f[i] \in Nat /\ f[j] \in Nat
    BY <1>2
  <2>4. ~(i < j) /\ ~(j < i)
    BY <1>2, <2>2, <2>3
  <2>q. QED
    BY <1>1, <2>4
<1>5. f \in Injection(1 .. n, S)
  BY <1>2, <1>4 DEF Injection, IsInjective
<1>6. f \in Surjection(1 .. n, S)
  BY <1>3, <1>5, FS_Injection DEF n
<1>7. {f[i] : i \in 1 .. n} = S
  BY <1>2, <1>6 DEF Surjection
<1>q. QED
  BY <1>1, <1>2, <1>4, <1>7 DEF n

EntriesTyped(lg) == \A i \in DOMAIN lg : lg[i].amount \in Nat

(* The sum over entries with amounts is a natural number.                  *)
LEMMA EntrySumType ==
  ASSUME NEW lg, IsSeq(lg), EntriesTyped(lg), NEW S \in SUBSET DOMAIN lg
  PROVE  IsFiniteSet(S) /\ EntrySum(lg, S) = Total(AmountsOf(lg), S) /\ EntrySum(lg, S) \in Nat
<1>1. Len(lg) \in Nat /\ DOMAIN lg = 1 .. Len(lg)
  BY JoinIsSeq
<1>2. IsFiniteSet(S)
  <2>1. IsFiniteSet(DOMAIN lg)
    BY <1>1, FS_Interval
  <2>q. QED
    BY <2>1, FS_Subset
<1>3. \A i \in S : AmountsOf(lg)[i] \in Nat
  BY DEF AmountsOf, EntriesTyped
<1>q. QED
  BY <1>2, <1>3, EntrySumIs, TotalNat

(* The sum of entries is the same in a longer ledger.                      *)
LEMMA EntrySumKept ==
  ASSUME NEW lg, IsSeq(lg), EntriesTyped(lg), NEW lg2, IsSeq(lg2), EntriesTyped(lg2),
         DOMAIN lg \subseteq DOMAIN lg2, \A i \in DOMAIN lg : lg2[i] = lg[i],
         NEW S \in SUBSET DOMAIN lg
  PROVE  EntrySum(lg2, S) = EntrySum(lg, S)
<1>1. /\ IsFiniteSet(S) /\ EntrySum(lg, S) = Total(AmountsOf(lg), S)
      /\ EntrySum(lg2, S) = Total(AmountsOf(lg2), S)
  BY EntrySumType
<1>2. \A i \in S : AmountsOf(lg2)[i] = AmountsOf(lg)[i] /\ AmountsOf(lg)[i] \in Int
  BY DEF AmountsOf, EntriesTyped
<1>q. QED
  BY <1>1, <1>2, TotalSame DEF Numbers

(* What one more entry and what more entries add.                          *)
LEMMA EntrySumAppend ==
  ASSUME NEW lg, IsSeq(lg), EntriesTyped(lg), NEW e, e.amount \in Nat,
         NEW S \in SUBSET DOMAIN lg
  PROVE  /\ EntriesTyped(Append(lg, e))
         /\ EntrySum(Append(lg, e), S) = EntrySum(lg, S)
         /\ EntrySum(Append(lg, e), S \cup {Len(lg) + 1}) = EntrySum(lg, S) + e.amount
<1>1. PICK lg2 : lg2 = Append(lg, e)
  OBVIOUS
<1>2. /\ IsSeq(lg2)
      /\ Len(lg) \in Nat /\ DOMAIN lg = 1 .. Len(lg)
      /\ DOMAIN lg2 = 1 .. Len(lg) + 1
      /\ \A i \in 1 .. Len(lg) : lg2[i] = lg[i]
      /\ lg2[Len(lg) + 1] = e
  BY <1>1, AppendIsSeq
<1>3. EntriesTyped(lg2)
  BY <1>2 DEF EntriesTyped
<1>4. EntrySum(lg2, S) = EntrySum(lg, S)
  BY <1>2, <1>3, EntrySumKept
<1> DEFINE n == Len(lg) + 1
<1>5. n \in DOMAIN lg2 /\ n \notin S
  BY <1>2
<1>6. /\ S \cup {n} \in SUBSET DOMAIN lg2 /\ S \in SUBSET DOMAIN lg2
  BY <1>2
<1>7. /\ EntrySum(lg2, S \cup {n}) = Total(AmountsOf(lg2), S \cup {n})
      /\ EntrySum(lg2, S) = Total(AmountsOf(lg2), S) /\ IsFiniteSet(S)
  BY <1>2, <1>3, <1>6, EntrySumType
<1>8. Numbers(AmountsOf(lg2), S \cup {n}) /\ AmountsOf(lg2)[n] = e.amount
  BY <1>2, <1>3, <1>6 DEF Numbers, AmountsOf, EntriesTyped
<1>9. Total(AmountsOf(lg2), S \cup {n}) = Total(AmountsOf(lg2), S) + AmountsOf(lg2)[n]
  BY <1>5, <1>7, <1>8, TotalAdd
<1>q. QED
  BY <1>1, <1>3, <1>4, <1>7, <1>8, <1>9

Shifted(lg, T) == {Len(lg) + i : i \in T}

(* The sum over entries of two sequences that are joined.                  *)
LEMMA EntrySumJoin ==
  ASSUME NEW lg, IsSeq(lg), EntriesTyped(lg), NEW u, IsSeq(u), EntriesTyped(u),
         NEW S \in SUBSET DOMAIN lg, NEW T \in SUBSET DOMAIN u
  PROVE  /\ EntriesTyped(lg \o u)
         /\ EntrySum(lg \o u, S) = EntrySum(lg, S)
         /\ EntrySum(lg \o u, S \cup Shifted(lg, T)) = EntrySum(lg, S) + EntrySum(u, T)
<1>1. PICK lg2 : lg2 = lg \o u
  OBVIOUS
<1>2. /\ IsSeq(lg2)
      /\ Len(lg) \in Nat /\ DOMAIN lg = 1 .. Len(lg)
      /\ Len(u) \in Nat /\ DOMAIN u = 1 .. Len(u)
      /\ DOMAIN lg2 = 1 .. Len(lg) + Len(u)
      /\ \A i \in 1 .. Len(lg) : lg2[i] = lg[i]
      /\ \A i \in 1 .. Len(u) : lg2[Len(lg) + i] = u[i]
  <2>1. /\ IsSeq(lg \o u)
        /\ Len(lg) \in Nat /\ DOMAIN lg = 1 .. Len(lg)
        /\ Len(u) \in Nat /\ DOMAIN u = 1 .. Len(u)
        /\ DOMAIN (lg \o u) = 1 .. Len(lg) + Len(u)
        /\ \A i \in 1 .. Len(lg) : (lg \o u)[i] = lg[i]
        /\ \A i \in 1 .. Len(u) : (lg \o u)[Len(lg) + i] = u[i]
    BY JoinIsSeq
  <2>q. QED
    BY <1>1, <2>1
<1>3. EntriesTyped(lg2)
  <2> SUFFICES ASSUME NEW i \in DOMAIN lg2 PROVE lg2[i].amount \in Nat
    BY DEF EntriesTyped
  <2>1. CASE i <= Len(lg)
    BY <1>2, <2>1 DEF EntriesTyped
  <2>2. CASE i > Len(lg)
    <3>1. i - Len(lg) \in 1 .. Len(u) /\ Len(lg) + (i - Len(lg)) = i
      BY <1>2, <2>2
    <3>q. QED
      BY <1>2, <3>1 DEF EntriesTyped
  <2>q. QED
    BY <1>2, <2>1, <2>2
<1>4. EntrySum(lg2, S) = EntrySum(lg, S)
  BY <1>2, <1>3, EntrySumKept
<1> DEFINE U == Shifted(lg, T)
           f == [i \in T |-> Len(lg) + i]
<1>5. U = {f[i] : i \in T}
  BY DEF Shifted
<1>6. U \in SUBSET DOMAIN lg2 /\ S \cap U = {} /\ S \in SUBSET DOMAIN lg2
  BY <1>2 DEF Shifted
<1>7. \A i, j \in T : f[i] = f[j] => i = j
  <2>1. \A i \in T : i \in Nat /\ f[i] = Len(lg) + i
    BY <1>2
  <2>2. Len(lg) \in Nat
    BY <1>2
  <2> HIDE DEF f
  <2>3. PICK m \in Nat : \A i \in T : i \in Nat /\ f[i] = m + i
    BY <2>1, <2>2
  <2>q. QED
    BY <2>3
<1>8. \A i \in T : AmountsOf(u)[i] = AmountsOf(lg2)[f[i]] /\ AmountsOf(u)[i] \in Int
  BY <1>2 DEF AmountsOf, EntriesTyped
<1> HIDE DEF f, U
<1>9. IsFiniteSet(T) /\ EntrySum(u, T) = Total(AmountsOf(u), T)
  BY EntrySumType
<1>10. Total(AmountsOf(u), T) = Total(AmountsOf(lg2), U)
  BY <1>5, <1>7, <1>8, <1>9, TotalRenamed
<1>11. S \cup U \in SUBSET DOMAIN lg2
  BY <1>6
<1>12. /\ EntrySum(lg2, S \cup U) = Total(AmountsOf(lg2), S \cup U)
       /\ EntrySum(lg2, S) = Total(AmountsOf(lg2), S) /\ IsFiniteSet(S)
       /\ IsFiniteSet(U)
  BY <1>2, <1>3, <1>6, <1>11, EntrySumType
<1>13. Numbers(AmountsOf(lg2), S \cup U)
  BY <1>3, <1>6 DEF Numbers, AmountsOf, EntriesTyped
<1>14. Total(AmountsOf(lg2), S \cup U) = Total(AmountsOf(lg2), S) + Total(AmountsOf(lg2), U)
  BY <1>6, <1>12, <1>13, TotalUnion
<1>q. QED
  BY <1>1, <1>3, <1>4, <1>9, <1>10, <1>12, <1>14 DEF U

(* The sums of the model, and what one entry adds to them.                 *)
KindsIn(lg, kinds) == {i \in DOMAIN lg : lg[i].kind \in kinds}

ReversalsIn(lg, id) == {i \in DOMAIN lg : lg[i].kind = "REVERSAL" /\ lg[i].reverses = id}

ReversedIn(lg, id) == EntrySum(lg, ReversalsIn(lg, id))

(* The sums of the model.                                                  *)
LEMMA SumsAre ==
  /\ \A lg, kinds : LedgerSum(lg, kinds) = EntrySum(lg, KindsIn(lg, kinds))
  /\ \A id : ReversedOf(id) = ReversedIn(ledger, id)
BY DEF LedgerSum, ReversedOf, ReversedIn, EntrySum, KindsIn, ReversalsIn

(* They are natural numbers.                                               *)
LEMMA SumsType ==
  ASSUME NEW lg, IsSeq(lg), EntriesTyped(lg)
  PROVE  /\ \A kinds : LedgerSum(lg, kinds) \in Nat
         /\ \A id : ReversedIn(lg, id) \in Nat
<1>1. \A kinds : KindsIn(lg, kinds) \in SUBSET DOMAIN lg
  BY DEF KindsIn
<1>2. \A id : ReversalsIn(lg, id) \in SUBSET DOMAIN lg
  BY DEF ReversalsIn
<1>q. QED
  BY <1>1, <1>2, SumsAre, EntrySumType DEF ReversedIn

(* What one more entry adds to them.                                       *)
LEMMA SumsAppend ==
  ASSUME NEW lg, IsSeq(lg), EntriesTyped(lg), NEW e, e.amount \in Nat
  PROVE  /\ EntriesTyped(Append(lg, e))
         /\ \A kinds : LedgerSum(Append(lg, e), kinds)
                         = LedgerSum(lg, kinds) + (IF e.kind \in kinds THEN e.amount ELSE 0)
         /\ \A id : ReversedIn(Append(lg, e), id)
                      = ReversedIn(lg, id)
                          + (IF e.kind = "REVERSAL" /\ e.reverses = id THEN e.amount ELSE 0)
<1>1. PICK lg2 : lg2 = Append(lg, e)
  OBVIOUS
<1>2. /\ Len(lg) \in Nat /\ DOMAIN lg = 1 .. Len(lg)
      /\ DOMAIN lg2 = 1 .. Len(lg) + 1
      /\ \A i \in 1 .. Len(lg) : lg2[i] = lg[i]
      /\ lg2[Len(lg) + 1] = e
  BY <1>1, AppendIsSeq
<1>3. \A S \in SUBSET DOMAIN lg :
        /\ EntrySum(lg, S) \in Nat
        /\ EntrySum(lg2, S) = EntrySum(lg, S)
        /\ EntrySum(lg2, S \cup {Len(lg) + 1}) = EntrySum(lg, S) + e.amount
  BY <1>1, EntrySumAppend, EntrySumType
<1>4. EntriesTyped(lg2)
  BY <1>2 DEF EntriesTyped
<1>5. ASSUME NEW kinds
      PROVE  LedgerSum(lg2, kinds)
               = LedgerSum(lg, kinds) + (IF e.kind \in kinds THEN e.amount ELSE 0)
  <2>1. KindsIn(lg, kinds) \in SUBSET DOMAIN lg
    BY DEF KindsIn
  <2>2. KindsIn(lg2, kinds) = IF e.kind \in kinds THEN KindsIn(lg, kinds) \cup {Len(lg) + 1}
                                                  ELSE KindsIn(lg, kinds)
    BY <1>2 DEF KindsIn
  <2>3. /\ LedgerSum(lg, kinds) = EntrySum(lg, KindsIn(lg, kinds))
        /\ LedgerSum(lg2, kinds) = EntrySum(lg2, KindsIn(lg2, kinds))
    BY SumsAre
  <2>4. PICK S \in SUBSET DOMAIN lg : S = KindsIn(lg, kinds)
    BY <2>1
  <2>5. /\ EntrySum(lg, S) \in Nat
        /\ EntrySum(lg2, S) = EntrySum(lg, S)
        /\ EntrySum(lg2, S \cup {Len(lg) + 1}) = EntrySum(lg, S) + e.amount
    BY <1>3
  <2>6. CASE e.kind \in kinds
    BY <2>2, <2>3, <2>4, <2>5, <2>6
  <2>7. CASE e.kind \notin kinds
    BY <2>2, <2>3, <2>4, <2>5, <2>7
  <2>q. QED
    BY <2>6, <2>7
<1>6. ASSUME NEW id
      PROVE  ReversedIn(lg2, id)
               = ReversedIn(lg, id)
                   + (IF e.kind = "REVERSAL" /\ e.reverses = id THEN e.amount ELSE 0)
  <2>1. ReversalsIn(lg, id) \in SUBSET DOMAIN lg
    BY DEF ReversalsIn
  <2>2. ReversalsIn(lg2, id) = IF e.kind = "REVERSAL" /\ e.reverses = id
                               THEN ReversalsIn(lg, id) \cup {Len(lg) + 1}
                               ELSE ReversalsIn(lg, id)
    BY <1>2 DEF ReversalsIn
  <2>3. PICK S \in SUBSET DOMAIN lg : S = ReversalsIn(lg, id)
    BY <2>1
  <2>4. /\ EntrySum(lg, S) \in Nat
        /\ EntrySum(lg2, S) = EntrySum(lg, S)
        /\ EntrySum(lg2, S \cup {Len(lg) + 1}) = EntrySum(lg, S) + e.amount
    BY <1>3
  <2>5. CASE e.kind = "REVERSAL" /\ e.reverses = id
    BY <2>2, <2>3, <2>4, <2>5 DEF ReversedIn
  <2>6. CASE ~(e.kind = "REVERSAL" /\ e.reverses = id)
    BY <2>2, <2>3, <2>4, <2>6 DEF ReversedIn
  <2>q. QED
    BY <2>5, <2>6
<1>q. QED
  BY <1>1, <1>4, <1>5, <1>6

(* What the entries of an allocation add.                                  *)
LEMMA SumsJoin ==
  ASSUME NEW lg, IsSeq(lg), EntriesTyped(lg), NEW u, IsSeq(u), EntriesTyped(u),
         \A i \in DOMAIN u : u[i].kind = "ALLOCATION"
  PROVE  /\ EntriesTyped(lg \o u)
         /\ \A kinds : LedgerSum(lg \o u, kinds)
                         = LedgerSum(lg, kinds)
                             + (IF "ALLOCATION" \in kinds THEN EntrySum(u, DOMAIN u) ELSE 0)
         /\ \A id : ReversedIn(lg \o u, id) = ReversedIn(lg, id)
         /\ EntrySum(u, DOMAIN u) \in Nat
<1>0. PICK lg2 : lg2 = lg \o u
  OBVIOUS
<1>1. /\ IsSeq(lg \o u)
      /\ Len(lg) \in Nat /\ DOMAIN lg = 1 .. Len(lg)
      /\ Len(u) \in Nat /\ DOMAIN u = 1 .. Len(u)
      /\ DOMAIN (lg \o u) = 1 .. Len(lg) + Len(u)
      /\ \A i \in 1 .. Len(lg) : (lg \o u)[i] = lg[i]
      /\ \A i \in 1 .. Len(u) : (lg \o u)[Len(lg) + i] = u[i]
  BY JoinIsSeq
<1>2. /\ DOMAIN lg2 = 1 .. Len(lg) + Len(u)
      /\ \A i \in 1 .. Len(lg) : lg2[i] = lg[i]
      /\ \A i \in 1 .. Len(u) : lg2[Len(lg) + i] = u[i]
  BY <1>0, <1>1
<1>3. \A S \in SUBSET DOMAIN lg :
        /\ EntrySum(lg, S) \in Nat
        /\ EntrySum(lg2, S) = EntrySum(lg, S)
        /\ EntrySum(lg2, S \cup Shifted(lg, DOMAIN u))
             = EntrySum(lg, S) + EntrySum(u, DOMAIN u)
  <2>1. DOMAIN u \in SUBSET DOMAIN u
    OBVIOUS
  <2>2. ASSUME NEW S \in SUBSET DOMAIN lg
        PROVE  /\ EntrySum(lg \o u, S) = EntrySum(lg, S)
               /\ EntrySum(lg \o u, S \cup Shifted(lg, DOMAIN u))
                    = EntrySum(lg, S) + EntrySum(u, DOMAIN u)
    BY <2>1, EntrySumJoin
  <2>3. \A S \in SUBSET DOMAIN lg : EntrySum(lg, S) \in Nat
    BY EntrySumType
  <2>q. QED
    BY <1>0, <2>2, <2>3
<1>4. EntriesTyped(lg2) /\ EntrySum(u, DOMAIN u) \in Nat
  BY <1>0, EntrySumJoin, EntrySumType
<1>5. \A i : i \in DOMAIN lg2 <=> i \in DOMAIN lg \/ i \in Shifted(lg, DOMAIN u)
  <2>1. \A i \in DOMAIN lg2 :
          i \notin DOMAIN lg => i - Len(lg) \in 1 .. Len(u) /\ Len(lg) + (i - Len(lg)) = i
    BY <1>1, <1>2
  <2>2. \A i \in 1 .. Len(u) : Len(lg) + i \in 1 .. Len(lg) + Len(u)
    BY <1>1
  <2>3. \A i \in 1 .. Len(lg) : i \in 1 .. Len(lg) + Len(u)
    BY <1>1
  <2>q. QED
    BY <1>1, <1>2, <2>1, <2>2, <2>3 DEF Shifted
<1>6. \A i \in Shifted(lg, DOMAIN u) : i \notin DOMAIN lg /\ lg2[i].kind = "ALLOCATION"
  BY <1>1, <1>2 DEF Shifted
<1>7. \A i \in DOMAIN lg : lg2[i] = lg[i]
  BY <1>1, <1>2
<1>8. ASSUME NEW kinds
      PROVE  LedgerSum(lg2, kinds)
               = LedgerSum(lg, kinds)
                   + (IF "ALLOCATION" \in kinds THEN EntrySum(u, DOMAIN u) ELSE 0)
  <2>1. KindsIn(lg, kinds) \in SUBSET DOMAIN lg
    BY DEF KindsIn
  <2>2. KindsIn(lg2, kinds) = IF "ALLOCATION" \in kinds
                              THEN KindsIn(lg, kinds) \cup Shifted(lg, DOMAIN u)
                              ELSE KindsIn(lg, kinds)
    BY <1>5, <1>6, <1>7 DEF KindsIn
  <2>3. /\ LedgerSum(lg, kinds) = EntrySum(lg, KindsIn(lg, kinds))
        /\ LedgerSum(lg2, kinds) = EntrySum(lg2, KindsIn(lg2, kinds))
    BY SumsAre
  <2>4. PICK S \in SUBSET DOMAIN lg : S = KindsIn(lg, kinds)
    BY <2>1
  <2>5. /\ EntrySum(lg, S) \in Nat
        /\ EntrySum(lg2, S) = EntrySum(lg, S)
        /\ EntrySum(lg2, S \cup Shifted(lg, DOMAIN u))
             = EntrySum(lg, S) + EntrySum(u, DOMAIN u)
    BY <1>3
  <2>6. CASE "ALLOCATION" \in kinds
    BY <2>2, <2>3, <2>4, <2>5, <2>6
  <2>7. CASE "ALLOCATION" \notin kinds
    BY <2>2, <2>3, <2>4, <2>5, <2>7
  <2>q. QED
    BY <2>6, <2>7
<1>9. ASSUME NEW id
      PROVE  ReversedIn(lg2, id) = ReversedIn(lg, id)
  <2>1. ReversalsIn(lg, id) \in SUBSET DOMAIN lg
    BY DEF ReversalsIn
  <2>2. ReversalsIn(lg2, id) = ReversalsIn(lg, id)
    BY <1>5, <1>6, <1>7 DEF ReversalsIn
  <2>q. QED
    BY <1>3, <2>1, <2>2 DEF ReversedIn
<1>q. QED
  BY <1>0, <1>4, <1>8, <1>9

-----------------------------------------------------------------------------
(* Sums over reserves                                                      *)

(* Amounts for some of the reserves.                                       *)
AmountsFit(a) ==
  /\ DOMAIN a \subseteq Reserves
  /\ a = [r \in DOMAIN a |-> a[r]]
  /\ \A r \in DOMAIN a : a[r] \in Nat

(* The total of what a proposal gives away is a natural number.            *)
LEMMA AmountsAreFinite ==
  ASSUME NEW a, AmountsFit(a)
  PROVE  /\ IsFiniteSet(DOMAIN a) /\ DOMAIN a \in SUBSET Nat
         /\ AmountTotal(a) = Total(a, DOMAIN a) /\ AmountTotal(a) \in Nat
<1>1. IsFiniteSet(DOMAIN a) /\ DOMAIN a \in SUBSET Nat
  BY TreasuryAssumption, FS_Subset DEF AmountsFit
<1>q. QED
  BY <1>1, AmountTotalIs, TotalNat DEF AmountsFit

(* A sum of zeros is zero.                                                 *)
LEMMA TotalZero ==
  ASSUME NEW w, NEW S, IsFiniteSet(S), \A x \in S : w[x] = 0
  PROVE  Total(w, S) = 0
<1>1. Total(w, S) = Total(w, S) + Total(w, S) /\ Total(w, S) \in Int
  BY TotalPlus, TotalType DEF Numbers
<1>2. PICK t \in Int : t = Total(w, S)
  BY <1>1
<1>3. t = t + t
  BY <1>1, <1>2
<1>4. t = 0
  BY <1>3
<1>q. QED
  BY <1>2, <1>4

(* Applying a proposal adds its total to what is allocated.                *)
LEMMA AllocatedGrows ==
  ASSUME NEW al \in [Reserves -> Nat], NEW a, AmountsFit(a), NEW al2,
         al2 = [r \in Reserves |-> IF r \in DOMAIN a THEN al[r] + a[r] ELSE al[r]]
  PROVE  /\ al2 \in [Reserves -> Nat]
         /\ AmountTotal(al2) = AmountTotal(al) + AmountTotal(a)
<1>1. al2 \in [Reserves -> Nat]
  BY DEF AmountsFit
<1> DEFINE w == [r \in Reserves |-> IF r \in DOMAIN a THEN a[r] ELSE 0]
           D == DOMAIN a
           E == Reserves \ DOMAIN a
<1>2. /\ \A r \in Reserves : w[r] \in Nat /\ al2[r] = al[r] + w[r]
      /\ \A r \in D : w[r] = a[r] /\ a[r] \in Nat
      /\ \A r \in E : w[r] = 0
  BY DEF AmountsFit
<1>3. /\ IsFiniteSet(Reserves) /\ IsFiniteSet(D) /\ IsFiniteSet(E)
      /\ Reserves = D \cup E /\ D \cap E = {}
  BY TreasuryAssumption, FS_Subset DEF AmountsFit
<1>4. AmountTotal(a) = Total(a, D)
  BY AmountTotalIs
<1> HIDE DEF w, D, E
<1>5. Numbers(w, Reserves) /\ Numbers(al, Reserves) /\ Numbers(a, D)
  BY <1>2 DEF Numbers
<1>6. Total(al2, Reserves) = Total(al, Reserves) + Total(w, Reserves)
  BY <1>2, <1>3, <1>5, TotalPlus
<1>7. Total(w, Reserves) = Total(w, D) + Total(w, E)
  BY <1>3, <1>5, TotalUnion
<1>8. Total(w, E) = 0
  BY <1>2, <1>3, TotalZero
<1>9. Total(w, D) = Total(a, D) /\ Total(a, D) \in Int
  BY <1>2, <1>3, <1>5, TotalSame, TotalType
<1>10. AmountTotal(al) = Total(al, Reserves) /\ AmountTotal(al2) = Total(al2, Reserves)
  BY <1>1, AmountTotalIs
<1>q. QED
  BY <1>1, <1>4, <1>6, <1>7, <1>8, <1>9, <1>10

(* The entries of an allocation: one for each reserve, with its amount, so *)
(* they add up to the allocation.                                          *)
LEMMA AllocationEntriesSum ==
  ASSUME NEW p, NEW a, AmountsFit(a), NEW u, u = AllocationEntries(p, a)
  PROVE  /\ DOMAIN u = 1 .. Cardinality(DOMAIN a) /\ Cardinality(DOMAIN a) \in Nat
         /\ \A i \in DOMAIN u : /\ u[i].kind = "ALLOCATION" /\ u[i].ref = p
                                /\ u[i].reserve \in DOMAIN a
                                /\ u[i].amount = a[u[i].reserve]
         /\ \A i, j \in DOMAIN u : u[i].reserve = u[j].reserve => i = j
         /\ EntriesTyped(u)
         /\ EntrySum(u, DOMAIN u) = AmountTotal(a)
<1> DEFINE n == Cardinality(DOMAIN a)
           f == InOrder(DOMAIN a)
<1>1. IsFiniteSet(DOMAIN a) /\ DOMAIN a \in SUBSET Nat
  BY AmountsAreFinite
<1>2. /\ n \in Nat
      /\ \A i \in 1 .. n : f[i] \in DOMAIN a
      /\ \A i, j \in 1 .. n : f[i] = f[j] => i = j
      /\ {f[i] : i \in 1 .. n} = DOMAIN a
  BY <1>1, InOrderIs
<1>3. /\ DOMAIN u = 1 .. n
      /\ \A i \in 1 .. n : /\ u[i].kind = "ALLOCATION" /\ u[i].ref = p
                           /\ u[i].reserve = f[i] /\ u[i].amount = a[f[i]]
  BY DEF AllocationEntries, Entry
<1> HIDE DEF n, f
<1>4. \A i \in 1 .. n : u[i].amount \in Nat
  BY <1>2, <1>3 DEF AmountsFit
<1>5. EntriesTyped(u)
  BY <1>3, <1>4 DEF EntriesTyped
<1>6. IsFiniteSet(1 .. n)
  BY <1>2, FS_Interval
<1>7. EntrySum(u, DOMAIN u) = Total(AmountsOf(u), 1 .. n)
  BY <1>3, <1>6, EntrySumIs
<1>8. \A i \in 1 .. n : AmountsOf(u)[i] = a[f[i]] /\ AmountsOf(u)[i] \in Int
  BY <1>3, <1>4 DEF AmountsOf
<1>9. Total(AmountsOf(u), 1 .. n) = Total(a, {f[i] : i \in 1 .. n})
  <2>1. PICK g, v, D : g = f /\ v = AmountsOf(u) /\ D = 1 .. n
    OBVIOUS
  <2>2. IsFiniteSet(D) /\ \A i, j \in D : g[i] = g[j] => i = j
    BY <1>2, <1>6, <2>1
  <2>3. \A i \in D : v[i] = a[g[i]] /\ v[i] \in Int
    BY <1>8, <2>1
  <2>4. Total(v, D) = Total(a, {g[i] : i \in D})
    BY <2>2, <2>3, TotalRenamed
  <2>q. QED
    BY <2>1, <2>4
<1>10. EntrySum(u, DOMAIN u) = AmountTotal(a)
  BY <1>2, <1>7, <1>9, AmountTotalIs
<1>q. QED
  BY <1>2, <1>3, <1>5, <1>10 DEF n

-----------------------------------------------------------------------------
(* The amounts of a proposal are natural numbers                           *)

(* Of a budget that covers the fixed amounts every reserve mentioned gets  *)
(* a natural number.                                                       *)
LEMMA ResolveFits ==
  ASSUME NEW ins \in InstructionLists, NEW budget \in Int,
         Resolvable(budget, ins, Reserves)
  PROVE  AmountsFit(Resolve(budget, ins))
<1>1. ins \in Seq(Instruction(Reserves, Nat, 0 .. FullShare))
  BY TreasuryAssumption
<1>2. /\ Len(ins) \in Nat /\ DOMAIN ins = 1 .. Len(ins)
      /\ \A i \in DOMAIN ins : ins[i] \in Instruction(Reserves, Nat, 0 .. FullShare)
  BY <1>1
<1>3. Instructions(ins)
  <2>1. PICK P : P = 0 .. FullShare /\ P \subseteq Nat /\ Reserves \subseteq Int
    <3>1. 0 .. FullShare \subseteq Nat
      BY DEF FullShare
    <3>2. Reserves \subseteq Int
      BY TreasuryAssumption
    <3>q. QED
      BY <3>1, <3>2
  <2>2. \A x \in Instruction(Reserves, Nat, 0 .. FullShare) :
          x.reserve \in Int /\ x.value \in Nat /\ x.kind \in {"FIXED", "PERCENTAGE"}
    BY <2>1 DEF Instruction
  <2>3. IsFiniteSet(DOMAIN ins) /\ DOMAIN ins \subseteq Int
    BY <1>2, FS_Interval
  <2>q. QED
    BY <1>2, <2>2, <2>3 DEF Instructions
<1>4. Posed(budget, ins)
  BY <1>3 DEF Resolvable, Posed
<1>5. ASSUME NEW r
      PROVE  Total(SharesOf(budget, ins), {i \in DOMAIN ins : ReservesOf(ins)[i] = r}) \in Nat
  <2>1. PICK S \in SUBSET DOMAIN ins : S = {i \in DOMAIN ins : ReservesOf(ins)[i] = r}
    OBVIOUS
  <2>2. IsFiniteSet(S) /\ \A i \in S : SharesOf(budget, ins)[i] \in Nat
    BY <1>3, <1>4, SharesAreBasesAndUnits, FS_Subset DEF Instructions
  <2>3. Total(SharesOf(budget, ins), S) \in Nat
    BY <2>2, TotalNat
  <2>q. QED
    BY <2>1, <2>3
<1>6. Resolve(budget, ins) =
        [r \in Mentioned(ins) |->
           Total(SharesOf(budget, ins), {i \in DOMAIN ins : ReservesOf(ins)[i] = r})]
  BY <1>3, ResolveIs
<1>7. Mentioned(ins) \subseteq Reserves
  BY DEF Resolvable
<1> DEFINE a == Resolve(budget, ins)
<1>8. /\ DOMAIN a = Mentioned(ins) /\ a = [r \in DOMAIN a |-> a[r]]
      /\ \A r \in DOMAIN a : a[r] \in Nat
  BY <1>5, <1>6
<1>q. QED
  BY <1>7, <1>8 DEF AmountsFit

-----------------------------------------------------------------------------
(* Types                                                                   *)

(* What a call was given, and what an action remembers while it waits.     *)
CallTyped(c) ==
  /\ c.scope \in Scopes /\ c.key \in Keys
  /\ c.args.event \in EventIds
  /\ c.scope \in {"escrow-record", "escrow-release"} => c.args.amount \in Amounts
  /\ c.scope = "allocation-approve" => IsApproval(c.args.approval)
  /\ c.scope = "allocation-apply" => c.args.now \in Times

WaiterFits(h) ==
  /\ CallTyped(h.call)
  /\ h.call.scope \in {"allocation-approve", "allocation-apply"}
  /\ IsProposal(h.call.args.proposal, h.current)
  /\ h.call.scope = "allocation-apply" => h.call.args.now < h.current.approval.expiresAt

MoneyTyped ==
  /\ totalCapital \in Nat /\ confirmed \in Nat /\ escrowed \in Nat
  /\ allocated \in [Reserves -> Nat]

ProposalsTyped == \A p \in Proposals : proposals[p] # NoProposal => IsProposal(p, proposals[p])

OutcomesTyped ==
  /\ audit \subseteq EventIds
  /\ entries \in [Scopes -> [Keys -> {"NONE", "IN_FLIGHT", "RESOLVED", "REJECTED"}]]

CallsTyped ==
  /\ \A i \in DOMAIN queue : CallTyped(queue[i])
  /\ \A h \in hashing : WaiterFits(h)

TypeInv == MoneyTyped /\ ProposalsTyped /\ OutcomesTyped /\ CallsTyped

(* The invariants imply the type invariant.                                *)
LEMMA TypesAreRight == TInv /\ TypeInv => TreasuryTypeOK
BY DEF TInv, TypeInv, MoneyTyped, ProposalsTyped, OutcomesTyped, CallsTyped, WaiterFits,
       TreasuryTypeOK

(* A step that moves no money.                                             *)
LEMMA MoneyKept == TypeInv /\ UNCHANGED funds => MoneyTyped'
BY DEF TypeInv, MoneyTyped, funds

(* A step that changes no proposal.                                        *)
LEMMA ProposalsTypeKept == TypeInv /\ UNCHANGED proposals => ProposalsTyped'
BY DEF TypeInv, ProposalsTyped

(* A call joins the queue.                                                 *)
LEMMA EnqueueTypes ==
  ASSUME TInv, TypeInv, NEW scope, NEW key \in Keys, NEW args, Enqueue(scope, key, args),
         CallTyped([scope |-> scope, key |-> key, args |-> args])
  PROVE  TypeInv'
<1> DEFINE c == [scope |-> scope, key |-> key, args |-> args]
<1>1. /\ queue' = Append(queue, c) /\ scope \in Scopes
      /\ entries' = [entries EXCEPT ![scope][key] = "IN_FLIGHT"]
      /\ UNCHANGED <<funds, proposals, audit, hashing>>
  BY DEF Enqueue, records
<1>2. IsSeq(queue)
  BY DEF TInv, QueueTyped
<1>3. CallTyped(c)
  OBVIOUS
<1> HIDE DEF c
<1>4. /\ Len(queue) \in Nat /\ DOMAIN queue = 1 .. Len(queue)
      /\ DOMAIN queue' = 1 .. Len(queue) + 1
      /\ \A i \in 1 .. Len(queue) : queue'[i] = queue[i]
      /\ queue'[Len(queue) + 1] = c
  BY <1>1, <1>2, AppendIsSeq
<1>5. \A i \in DOMAIN queue' : CallTyped(queue'[i])
  BY <1>3, <1>4 DEF TypeInv, CallsTyped
<1>6. OutcomesTyped'
  BY <1>1 DEF TypeInv, OutcomesTyped
<1>7. CallsTyped'
  BY <1>1, <1>5 DEF TypeInv, CallsTyped, CallTyped, WaiterFits
<1>q. QED
  BY <1>1, <1>6, <1>7, MoneyKept, ProposalsTypeKept DEF TypeInv

(* The call at the head of the queue, and the calls behind it.             *)
LEMMA DequeueTypes ==
  ASSUME TInv, TypeInv, NEW scope, Runs(scope), Dequeue
  PROVE  /\ CallTyped(Head(queue)) /\ Head(queue).scope = scope
         /\ \A i \in DOMAIN queue' : CallTyped(queue'[i])
<1>1. IsSeq(queue) /\ queue # <<>> /\ queue' = Tail(queue) /\ Head(queue).scope = scope
  BY DEF TInv, QueueTyped, Runs, Dequeue
<1>2. /\ Len(queue) \in Nat /\ DOMAIN queue = 1 .. Len(queue) /\ Len(queue) # 0
      /\ Head(queue) = queue[1]
      /\ DOMAIN queue' = 1 .. Len(queue) - 1
      /\ \A i \in 1 .. Len(queue) - 1 : queue'[i] = queue[i + 1]
  BY <1>1, TailIsSeq
<1>3. \A i \in DOMAIN queue' : i + 1 \in DOMAIN queue /\ queue'[i] = queue[i + 1]
  BY <1>2
<1>4. 1 \in DOMAIN queue
  BY <1>2
<1>q. QED
  BY <1>1, <1>2, <1>3, <1>4 DEF TypeInv, CallsTyped

(* A call gets its outcome.                                                *)
LEMMA SettleTypes ==
  ASSUME TypeInv, NEW call, CallTyped(call), NEW outcome \in {"RESOLVED", "REJECTED"},
         Settle(call, outcome), audit' \in {audit, audit \cup {call.args.event}}
  PROVE  OutcomesTyped'
<1>1. /\ call.scope \in Scopes /\ call.key \in Keys /\ call.args.event \in EventIds
      /\ entries' = [entries EXCEPT ![call.scope][call.key] = outcome]
  BY DEF CallTyped, Settle
<1>q. QED
  BY <1>1 DEF TypeInv, OutcomesTyped

(* The action of a call runs to its end, or throws.                        *)
LEMMA RunTypes ==
  ASSUME TInv, TypeInv, NEW scope, Runs(scope), Dequeue, UNCHANGED hashing,
         NEW outcome \in {"RESOLVED", "REJECTED"}, Settle(Head(queue), outcome),
         audit' \in {audit, audit \cup {Head(queue).args.event}},
         MoneyTyped', UNCHANGED proposals
  PROVE  TypeInv'
<1>1. CallTyped(Head(queue)) /\ \A i \in DOMAIN queue' : CallTyped(queue'[i])
  BY DequeueTypes
<1>2. OutcomesTyped'
  BY <1>1, SettleTypes
<1>3. CallsTyped'
  BY <1>1 DEF TypeInv, CallsTyped, CallTyped, WaiterFits
<1>q. QED
  BY <1>2, <1>3, ProposalsTypeKept DEF TypeInv

(* An action throws.                                                       *)
LEMMA RejectTypes ==
  ASSUME TInv, TypeInv, NEW scope, Runs(scope), Dequeue, Reject(Head(queue)), UNCHANGED hashing
  PROVE  TypeInv'
<1>1. /\ Settle(Head(queue), "REJECTED") /\ UNCHANGED <<funds, proposals>> /\ audit' = audit
  BY DEF Reject, records
<1>2. MoneyTyped'
  BY <1>1, MoneyKept
<1>q. QED
  BY <1>1, <1>2, RunTypes

(* An action starts to wait: what it remembers is the proposal.            *)
LEMMA WaitTypes ==
  ASSUME TInv, TypeInv, NEW scope \in {"allocation-approve", "allocation-apply"},
         Runs(scope), Dequeue, WaitForHash(Head(queue)),
         proposals[Head(queue).args.proposal] # NoProposal,
         scope = "allocation-apply" =>
           Head(queue).args.now < proposals[Head(queue).args.proposal].approval.expiresAt
  PROVE  TypeInv'
<1>1. /\ CallTyped(Head(queue)) /\ Head(queue).scope = scope
      /\ \A i \in DOMAIN queue' : CallTyped(queue'[i])
  BY DequeueTypes
<1>2. Head(queue).args.proposal \in Proposals
  BY DequeueKeeps
<1> DEFINE w == [call |-> Head(queue), current |-> proposals[Head(queue).args.proposal]]
<1>3. /\ hashing' = hashing \cup {w}
      /\ UNCHANGED <<entries, funds, proposals, audit>>
  BY DEF WaitForHash, records
<1>4. IsProposal(Head(queue).args.proposal, proposals[Head(queue).args.proposal])
  BY <1>2 DEF TypeInv, ProposalsTyped
<1>5. WaiterFits(w)
  BY <1>1, <1>4 DEF WaiterFits
<1> HIDE DEF w
<1>6. CallsTyped'
  BY <1>1, <1>3, <1>5 DEF TypeInv, CallsTyped, CallTyped, WaiterFits
<1>7. OutcomesTyped'
  BY <1>3 DEF TypeInv, OutcomesTyped
<1>q. QED
  BY <1>3, <1>6, <1>7, MoneyKept, ProposalsTypeKept DEF TypeInv

(* The hash of an action arrives: the action ends or throws.               *)
LEMMA FinishTypes ==
  ASSUME TInv, TypeInv, NEW h \in hashing, hashing' = hashing \ {h}, UNCHANGED queue,
         NEW outcome \in {"RESOLVED", "REJECTED"}, Settle(h.call, outcome),
         audit' \in {audit, audit \cup {h.call.args.event}},
         MoneyTyped', ProposalsTyped'
  PROVE  TypeInv'
<1>1. CallTyped(h.call)
  BY DEF TypeInv, CallsTyped, WaiterFits
<1>2. OutcomesTyped'
  BY <1>1, SettleTypes
<1>3. CallsTyped'
  BY DEF TypeInv, CallsTyped, CallTyped, WaiterFits
<1>q. QED
  BY <1>2, <1>3 DEF TypeInv

(* What a founder's approval may be for.                                   *)
LEMMA IntentsTyped ==
  ASSUME TypeInv, NEW p \in Proposals, proposals[p] # NoProposal, NEW intent \in IntentsFor(p)
  PROVE  intent = None \/ IsIntent(intent)
<1>1. IsIntent(Intent(p, proposals[p].amounts, proposals[p].tranche))
  BY DEF TypeInv, ProposalsTyped, IsProposal
<1>2. IsIntent(SomethingElse(p))
  <2>1. DOMAIN <<>> = {} /\ <<>> \in [{} -> Nat]
    OBVIOUS
  <2>2. /\ SomethingElse(p).proposal = p /\ SomethingElse(p).tranche = None
        /\ SomethingElse(p).amounts = <<>>
    BY DEF SomethingElse, Intent
  <2>q. QED
    BY <2>1, <2>2 DEF IsIntent
<1>q. QED
  BY <1>1, <1>2 DEF IntentsFor

(* Recording and releasing escrow keep the types.                          *)
LEMMA EscrowTypes == TInv /\ TypeInv /\ EscrowNext => TypeInv'
<1> SUFFICES ASSUME TInv, TypeInv, EscrowNext PROVE TypeInv'
  OBVIOUS
<1>1. ASSUME NEW k \in Keys, NEW e \in EventIds, NEW n \in Amounts, CallRecordEscrow(k, e, n)
      PROVE  TypeInv'
  <2> DEFINE args == [event |-> e, amount |-> n]
             c == [scope |-> "escrow-record", key |-> k, args |-> args]
  <2>1. Enqueue("escrow-record", k, args)
    BY <1>1 DEF CallRecordEscrow
  <2>2. "escrow-record" \in Scopes
    BY <2>1 DEF Enqueue
  <2>3. CallTyped(c)
    BY <2>2 DEF CallTyped
  <2> HIDE DEF args
  <2>q. QED
    BY <2>1, <2>3, EnqueueTypes
<1>2. ASSUME NEW k \in Keys, NEW e \in EventIds, NEW n \in Amounts, NEW target \in Targets,
             CallReleaseEscrow(k, e, n, target)
      PROVE  TypeInv'
  <2> DEFINE args == [event |-> e, amount |-> n, target |-> target]
             c == [scope |-> "escrow-release", key |-> k, args |-> args]
  <2>1. Enqueue("escrow-release", k, args)
    BY <1>2 DEF CallReleaseEscrow
  <2>2. "escrow-release" \in Scopes
    BY <2>1 DEF Enqueue
  <2>3. CallTyped(c)
    BY <2>2 DEF CallTyped
  <2> HIDE DEF args
  <2>q. QED
    BY <2>1, <2>3, EnqueueTypes
<1>3. CASE RunRecordEscrow
  <2> DEFINE a == Head(queue).args
  <2>1. /\ Runs("escrow-record") /\ Dequeue /\ UNCHANGED hashing
    BY <1>3 DEF RunRecordEscrow
  <2>2. CASE ~CanRecordEscrow(a)
    BY <1>3, <2>1, <2>2, RejectTypes DEF RunRecordEscrow
  <2>3. CASE CanRecordEscrow(a)
    <3>1. /\ escrowed' = escrowed + a.amount /\ Settle(Head(queue), "RESOLVED")
          /\ audit' = audit \cup {a.event}
          /\ UNCHANGED <<totalCapital, confirmed, allocated, proposals>>
      BY <1>3, <2>3 DEF RunRecordEscrow, records
    <3>2. a.amount \in Nat
      <4>1. CallTyped(Head(queue)) /\ Head(queue).scope = "escrow-record"
        BY <2>1, DequeueTypes
      <4>q. QED
        BY <4>1, TreasuryAssumption DEF CallTyped
    <3>3. MoneyTyped'
      BY <3>1, <3>2 DEF TypeInv, MoneyTyped
    <3>q. QED
      BY <2>1, <3>1, <3>3, RunTypes
  <2>q. QED
    BY <2>2, <2>3
<1>4. CASE RunReleaseEscrow
  <2> DEFINE a == Head(queue).args
  <2>1. /\ Runs("escrow-release") /\ Dequeue /\ UNCHANGED hashing
    BY <1>4 DEF RunReleaseEscrow
  <2>2. CASE ~CanReleaseEscrow(a)
    BY <1>4, <2>1, <2>2, RejectTypes DEF RunReleaseEscrow
  <2>3. CASE CanReleaseEscrow(a)
    <3>1. /\ escrowed' = escrowed - a.amount /\ Settle(Head(queue), "RESOLVED")
          /\ audit' = audit \cup {a.event} /\ a.amount <= escrowed
          /\ UNCHANGED <<totalCapital, confirmed, allocated, proposals>>
      BY <1>4, <2>3 DEF RunReleaseEscrow, CanReleaseEscrow, records
    <3>2. a.amount \in Nat
      <4>1. CallTyped(Head(queue)) /\ Head(queue).scope = "escrow-release"
        BY <2>1, DequeueTypes
      <4>q. QED
        BY <4>1, TreasuryAssumption DEF CallTyped
    <3>3. MoneyTyped'
      BY <3>1, <3>2 DEF TypeInv, MoneyTyped
    <3>q. QED
      BY <2>1, <3>1, <3>3, RunTypes
  <2>q. QED
    BY <2>2, <2>3
<1>q. QED
  BY <1>1, <1>2, <1>3, <1>4 DEF EscrowNext

(* Recording and reconciling a tranche keep the types.                     *)
LEMMA TrancheTypes == TInv /\ TypeInv /\ TrancheNext => TypeInv'
<1> SUFFICES ASSUME TInv, TypeInv, TrancheNext PROVE TypeInv'
  OBVIOUS
<1>1. ASSUME NEW k \in Keys, NEW t \in Tranches, NEW e \in EventIds, NEW n \in Amounts,
             NEW ref \in TransactionRef, CallRecordTranche(k, t, n, ref, e)
      PROVE  TypeInv'
  <2> DEFINE args == [tranche |-> t, amount |-> n, ref |-> ref, event |-> e]
             c == [scope |-> "tranche-record", key |-> k, args |-> args]
  <2>1. Enqueue("tranche-record", k, args)
    BY <1>1 DEF CallRecordTranche
  <2>2. "tranche-record" \in Scopes
    BY <2>1 DEF Enqueue
  <2>3. CallTyped(c)
    BY <2>2 DEF CallTyped
  <2> HIDE DEF args
  <2>q. QED
    BY <2>1, <2>3, EnqueueTypes
<1>2. ASSUME NEW k \in Keys, NEW t \in Tranches, NEW e \in EventIds, CallReconcile(k, t, e)
      PROVE  TypeInv'
  <2> DEFINE args == [tranche |-> t, event |-> e]
             c == [scope |-> "tranche-reconcile", key |-> k, args |-> args]
  <2>1. Enqueue("tranche-reconcile", k, args)
    BY <1>2 DEF CallReconcile
  <2>2. "tranche-reconcile" \in Scopes
    BY <2>1 DEF Enqueue
  <2>3. CallTyped(c)
    BY <2>2 DEF CallTyped
  <2> HIDE DEF args
  <2>q. QED
    BY <2>1, <2>3, EnqueueTypes
<1>3. CASE RunRecordTranche
  <2>1. /\ Runs("tranche-record") /\ Dequeue /\ UNCHANGED hashing
    BY <1>3 DEF RunRecordTranche
  <2>2. CASE ~CanRecordTranche(Head(queue).args)
    BY <1>3, <2>1, <2>2, RejectTypes DEF RunRecordTranche
  <2>3. CASE CanRecordTranche(Head(queue).args)
    <3>1. /\ Settle(Head(queue), "RESOLVED") /\ UNCHANGED <<funds, proposals>>
          /\ audit' = audit \cup {Head(queue).args.event}
      BY <1>3, <2>3 DEF RunRecordTranche
    <3>q. QED
      BY <2>1, <3>1, MoneyKept, RunTypes
  <2>q. QED
    BY <2>2, <2>3
<1>4. CASE RunReconcile
  <2> DEFINE t == Head(queue).args.tranche
  <2>1. /\ Runs("tranche-reconcile") /\ Dequeue /\ UNCHANGED hashing
    BY <1>4 DEF RunReconcile
  <2>2. CASE ~CanReconcile(t)
    BY <1>4, <2>1, <2>2, RejectTypes DEF RunReconcile
  <2>3. CASE CanReconcile(t)
    <3>1. /\ totalCapital' = totalCapital + tranches[t].amount
          /\ confirmed' = confirmed + tranches[t].amount
          /\ Settle(Head(queue), "RESOLVED") /\ tranches[t] # None
          /\ audit' = audit \cup {Head(queue).args.event}
          /\ UNCHANGED <<escrowed, allocated, proposals>>
      BY <1>4, <2>3 DEF RunReconcile, CanReconcile
    <3>2. t \in Tranches
      BY <2>1, DequeueKeeps
    <3>3. tranches[t].amount \in Nat
      BY <3>1, <3>2, TreasuryAssumption DEF TInv, TranchesTyped, TrancheType
    <3>4. MoneyTyped'
      BY <3>1, <3>3 DEF TypeInv, MoneyTyped
    <3>q. QED
      BY <2>1, <3>1, <3>4, RunTypes
  <2>q. QED
    BY <2>2, <2>3
<1>q. QED
  BY <1>1, <1>2, <1>3, <1>4 DEF TrancheNext

(* Only Resolve makes amounts.                                             *)
LEMMA CreateTypes ==
  ASSUME TInv, TypeInv, NEW p \in Proposals, NEW ins \in InstructionLists,
         NEW t \in Tranches \cup {None}, NEW e \in EventIds,
         CreateAllocationProposal(p, ins, t, e)
  PROVE  TypeInv' /\ AmountsFit(Resolve(Budget(t), ins))
<1> DEFINE amounts == Resolve(Budget(t), ins)
           q == [status |-> "PROPOSED", amounts |-> amounts, tranche |-> t,
                 approval |-> None, appliedAt |-> None]
<1>1. /\ t # None => tranches[t] # None
      /\ Resolvable(Budget(t), ins, Reserves)
      /\ proposals' = [proposals EXCEPT ![p] = q]
      /\ audit' = audit \cup {e}
      /\ UNCHANGED <<funds, entries, queue, hashing>>
  BY DEF CreateAllocationProposal, CanBeSource, tasks
<1>2. Budget(t) \in Int
  <2>1. CASE t = None
    <3>1. AmountsFit(allocated)
      BY DEF TypeInv, MoneyTyped, AmountsFit
    <3>q. QED
      BY <2>1, <3>1, AmountsAreFinite DEF Budget, Unallocated, Allocated, TypeInv, MoneyTyped
  <2>2. CASE t # None
    <3>1. tranches[t] \in TrancheType
      BY <1>1, <2>2 DEF TInv, TranchesTyped
    <3>2. tranches[t].amount \in Nat
      BY <3>1, TreasuryAssumption DEF TrancheType
    <3>q. QED
      BY <2>2, <3>2 DEF Budget
  <2>q. QED
    BY <2>1, <2>2
<1>3. AmountsFit(amounts)
  BY <1>1, <1>2, ResolveFits
<1> HIDE DEF amounts
<1>4. IsProposal(p, q)
  <2>1. /\ q.status = "PROPOSED" /\ q.approval = None /\ q.appliedAt = None
        /\ Intent(p, q.amounts, q.tranche).proposal = p
        /\ Intent(p, q.amounts, q.tranche).amounts = amounts
        /\ Intent(p, q.amounts, q.tranche).tranche = t
    BY DEF Intent
  <2>2. amounts \in [DOMAIN amounts -> Nat] /\ DOMAIN amounts \subseteq Reserves
    BY <1>3 DEF AmountsFit
  <2> HIDE DEF q
  <2>q. QED
    BY <2>1, <2>2 DEF IsProposal, IsIntent
<1> HIDE DEF q
<1>5. ProposalsTyped'
  <2>1. \A r \in Proposals : proposals'[r] = IF r = p THEN q ELSE proposals[r]
    BY <1>1 DEF TInv, ProposalsShaped
  <2>q. QED
    BY <1>4, <2>1 DEF TypeInv, ProposalsTyped
<1>6. OutcomesTyped'
  BY <1>1 DEF TypeInv, OutcomesTyped
<1>7. CallsTyped'
  BY <1>1 DEF TypeInv, CallsTyped
<1>q. QED
  BY <1>1, <1>3, <1>5, <1>6, <1>7, MoneyKept DEF TypeInv, amounts

(* Approving and applying a proposal keep its type.                        *)
LEMMA UpdatesTyped ==
  ASSUME NEW p, NEW c, ProposalShaped(c), IsProposal(p, c), NEW ap, NEW at
  PROVE  /\ c.status = "PROPOSED" /\ IsApproval(ap) => IsProposal(p, ApprovedOf(c, ap))
         /\ c.status = "APPROVED" /\ at \in Times => IsProposal(p, AppliedOf(c, at))
         /\ AmountsFit(c.amounts)
         /\ ApprovedOf(c, ap).status = "APPROVED"
         /\ AppliedOf(c, at).status = "APPLIED" /\ AppliedOf(c, at).appliedAt = at
<1> DEFINE q == ApprovedOf(c, ap)
           r == AppliedOf(c, at)
<1>1. c = [status |-> c.status, amounts |-> c.amounts, tranche |-> c.tranche,
           approval |-> c.approval, appliedAt |-> c.appliedAt]
  BY DEF ProposalShaped
<1>2. /\ q = [status |-> "APPROVED", amounts |-> c.amounts, tranche |-> c.tranche,
              approval |-> ap, appliedAt |-> c.appliedAt]
      /\ r = [status |-> "APPLIED", amounts |-> c.amounts, tranche |-> c.tranche,
              approval |-> c.approval, appliedAt |-> at]
  BY <1>1, RecordUpdates
<1> HIDE DEF q, r
<1>3. /\ q.status = "APPROVED" /\ q.amounts = c.amounts /\ q.tranche = c.tranche
      /\ q.approval = ap /\ q.appliedAt = c.appliedAt
      /\ r.status = "APPLIED" /\ r.amounts = c.amounts /\ r.tranche = c.tranche
      /\ r.approval = c.approval /\ r.appliedAt = at
  BY <1>2
<1>4. /\ IsIntent(Intent(p, c.amounts, c.tranche))
      /\ IF c.status = "PROPOSED" THEN c.approval = None ELSE IsApproval(c.approval)
      /\ IF c.status = "APPLIED" THEN c.appliedAt \in Times ELSE c.appliedAt = None
  BY DEF IsProposal
<1>5. c.status = "PROPOSED" /\ IsApproval(ap) => IsProposal(p, q)
  BY <1>3, <1>4 DEF IsProposal
<1>6. c.status = "APPROVED" /\ at \in Times => IsProposal(p, r)
  BY <1>3, <1>4 DEF IsProposal
<1>7. AmountsFit(c.amounts)
  <2>1. Intent(p, c.amounts, c.tranche).amounts = c.amounts
    BY DEF Intent
  <2>2. /\ DOMAIN c.amounts \subseteq Reserves
        /\ c.amounts \in [DOMAIN c.amounts -> Nat]
    BY <1>4, <2>1 DEF IsIntent
  <2>q. QED
    BY <2>2 DEF AmountsFit
<1>q. QED
  BY <1>3, <1>5, <1>6, <1>7 DEF q, r

(* So does approving a proposal.                                           *)
LEMMA FinishApproveTypes ==
  ASSUME TInv, TypeInv, NEW h \in hashing, FinishApprove(h)
  PROVE  TypeInv'
<1> DEFINE p == h.call.args.proposal
<1>1. /\ h.call.scope = "allocation-approve" /\ hashing' = hashing \ {h} /\ UNCHANGED queue
  BY DEF FinishApprove
<1>2. CASE ~CanFinishApprove(h)
  <2>1. Settle(h.call, "REJECTED") /\ UNCHANGED <<funds, proposals, audit>>
    BY <1>2 DEF FinishApprove, Reject, records
  <2>q. QED
    BY <1>1, <2>1, FinishTypes, MoneyKept, ProposalsTypeKept
<1>3. CASE CanFinishApprove(h)
  <2> DEFINE q == ApprovedOf(proposals[p], h.call.args.approval)
  <2>1. /\ proposals[p] = h.current /\ h.current # NoProposal /\ p \in Proposals
        /\ h.current.status = "PROPOSED"
    BY <1>1, <1>3 DEF CanFinishApprove, Unmoved, TInv, WaitersReady
  <2>2. /\ proposals' = [proposals EXCEPT ![p] = q]
        /\ Settle(h.call, "RESOLVED") /\ audit' = audit \cup {h.call.args.event}
        /\ UNCHANGED funds
    BY <1>3, <2>1 DEF FinishApprove, TInv, ProposalsShaped, ApprovedOf
  <2>3. ProposalShaped(proposals[p])
    BY <2>1 DEF TInv, ProposalsShaped
  <2>4. IsProposal(p, proposals[p]) /\ IsApproval(h.call.args.approval)
    BY <1>1, <2>1 DEF TypeInv, ProposalsTyped, CallsTyped, WaiterFits, CallTyped
  <2>5. IsProposal(p, q)
    BY <2>1, <2>3, <2>4, UpdatesTyped
  <2> HIDE DEF q
  <2>6. \A r \in Proposals : proposals'[r] = IF r = p THEN q ELSE proposals[r]
    BY <2>1, <2>2 DEF TInv, ProposalsShaped
  <2>7. ProposalsTyped'
    BY <2>5, <2>6 DEF TypeInv, ProposalsTyped
  <2>q. QED
    BY <1>1, <2>2, <2>7, FinishTypes, MoneyKept
<1>q. QED
  BY <1>2, <1>3

(* What the application of a proposal does.                                *)
LEMMA ApplyFacts ==
  ASSUME TInv, TypeInv, NEW h \in hashing, FinishApply(h), CanFinishApply(h),
         NEW p, p = h.call.args.proposal, NEW a, a = h.current.amounts
  PROVE  /\ p \in Proposals /\ h.current # NoProposal /\ proposals[p] = h.current
         /\ h.current.status = "APPROVED" /\ AmountsFit(a)
         /\ AmountTotal(a) <= Unallocated
         /\ ledger' = ledger \o AllocationEntries(p, a)
         /\ allocated' \in [Reserves -> Nat]
         /\ AmountTotal(allocated') = AmountTotal(allocated) + AmountTotal(a)
         /\ UNCHANGED <<totalCapital, confirmed, escrowed>>
         /\ \E q : /\ IsProposal(p, q) /\ q # NoProposal /\ q.status = "APPLIED" /\ q.amounts = a
                   /\ q.appliedAt < q.approval.expiresAt
                   /\ q.approval.intent = Intent(p, q.amounts, q.tranche)
                   /\ \A r \in Proposals : proposals'[r] = IF r = p THEN q ELSE proposals[r]
<1> DEFINE now == h.call.args.now
           q == AppliedOf(h.current, now)
<1>1. h.call.scope = "allocation-apply"
  BY DEF FinishApply
<1>2. /\ proposals[p] = h.current /\ h.current # NoProposal /\ p \in Proposals
      /\ h.current.status = "APPROVED"
  BY <1>1 DEF CanFinishApply, Unmoved, TInv, WaitersReady
<1>3. /\ proposals' = [proposals EXCEPT ![p] = q]
      /\ ledger' = ledger \o AllocationEntries(p, a)
      /\ allocated' = [r \in Reserves |->
           IF r \in DOMAIN a THEN allocated[r] + a[r] ELSE allocated[r]]
      /\ UNCHANGED <<totalCapital, confirmed, escrowed>>
  BY DEF FinishApply, AppliedOf
<1>4. ProposalShaped(h.current)
  BY <1>2 DEF TInv, ProposalsShaped
<1>5. IsProposal(p, h.current) /\ now \in Times /\ now < h.current.approval.expiresAt
  BY <1>1 DEF TypeInv, CallsTyped, WaiterFits, CallTyped
<1>6. /\ IsProposal(p, q) /\ AmountsFit(a)
      /\ q.status = "APPLIED" /\ q.appliedAt = now
  BY <1>2, <1>4, <1>5, UpdatesTyped
<1>7. q.amounts = a /\ q.tranche = h.current.tranche /\ q.approval = h.current.approval
  BY <1>4, UpdatedFields
<1>8. q # NoProposal
  BY <1>6 DEF NoProposal
<1> HIDE DEF q
<1>9. \A r \in Proposals : proposals'[r] = IF r = p THEN q ELSE proposals[r]
  BY <1>2, <1>3 DEF TInv, ProposalsShaped
<1>10. q.approval.intent = Intent(p, q.amounts, q.tranche)
  BY <1>7 DEF CanFinishApply, HashOf
<1>11. /\ allocated' \in [Reserves -> Nat]
       /\ AmountTotal(allocated') = AmountTotal(allocated) + AmountTotal(a)
  <2>1. PICK al \in [Reserves -> Nat] : al = allocated
    BY DEF TypeInv, MoneyTyped
  <2>2. PICK al2 : al2 = allocated'
    OBVIOUS
  <2>3. al2 = [r \in Reserves |-> IF r \in DOMAIN a THEN al[r] + a[r] ELSE al[r]]
    BY <1>3, <2>1, <2>2
  <2>4. AmountsFit(a)
    BY <1>6
  <2>5. al2 \in [Reserves -> Nat] /\ AmountTotal(al2) = AmountTotal(al) + AmountTotal(a)
    BY <2>3, <2>4, AllocatedGrows
  <2>6. AmountTotal(al2) = AmountTotal(allocated') /\ AmountTotal(al) = AmountTotal(allocated)
    BY <2>1, <2>2
  <2>q. QED
    BY <2>2, <2>5, <2>6
<1>12. AmountTotal(a) <= Unallocated
  BY DEF CanFinishApply
<1>13. /\ IsProposal(p, q) /\ q # NoProposal /\ q.status = "APPLIED" /\ q.amounts = a
       /\ q.appliedAt < q.approval.expiresAt
       /\ q.approval.intent = Intent(p, q.amounts, q.tranche)
       /\ \A r \in Proposals : proposals'[r] = IF r = p THEN q ELSE proposals[r]
  BY <1>5, <1>6, <1>7, <1>8, <1>9, <1>10
<1>q. QED
  BY <1>2, <1>3, <1>6, <1>11, <1>12, <1>13

(* So does applying one.                                                   *)
LEMMA FinishApplyTypes ==
  ASSUME TInv, TypeInv, NEW h \in hashing, FinishApply(h)
  PROVE  TypeInv'
<1>1. hashing' = hashing \ {h} /\ UNCHANGED queue
  BY DEF FinishApply
<1>2. CASE ~CanFinishApply(h)
  <2>1. Settle(h.call, "REJECTED") /\ UNCHANGED <<funds, proposals, audit>>
    BY <1>2 DEF FinishApply, Reject, records
  <2>q. QED
    BY <1>1, <2>1, FinishTypes, MoneyKept, ProposalsTypeKept
<1>3. CASE CanFinishApply(h)
  <2>1. PICK p, a : p = h.call.args.proposal /\ a = h.current.amounts
    OBVIOUS
  <2>2. /\ allocated' \in [Reserves -> Nat]
        /\ UNCHANGED <<totalCapital, confirmed, escrowed>>
    BY <1>3, <2>1, ApplyFacts
  <2>3. PICK q : /\ IsProposal(p, q)
                 /\ \A r \in Proposals : proposals'[r] = IF r = p THEN q ELSE proposals[r]
    BY <1>3, <2>1, ApplyFacts
  <2>4. MoneyTyped'
    BY <2>2 DEF TypeInv, MoneyTyped
  <2>5. ProposalsTyped'
    BY <2>3 DEF TypeInv, ProposalsTyped
  <2>6. Settle(h.call, "RESOLVED") /\ audit' = audit \cup {h.call.args.event}
    BY <1>3 DEF FinishApply
  <2>q. QED
    BY <1>1, <2>4, <2>5, <2>6, FinishTypes
<1>q. QED
  BY <1>2, <1>3

(* So does every step of a proposal.                                       *)
LEMMA AllocationTypes == TInv /\ TypeInv /\ AllocationNext => TypeInv'
<1> SUFFICES ASSUME TInv, TypeInv, AllocationNext PROVE TypeInv'
  OBVIOUS
<1>1. CASE \E p \in Proposals, e \in EventIds, ins \in InstructionLists,
             t \in Tranches \cup {None} : CreateAllocationProposal(p, ins, t, e)
  BY <1>1, CreateTypes
<1>2. ASSUME NEW p \in Proposals, NEW e \in EventIds, NEW k \in Keys,
             NEW intent \in IntentsFor(p), NEW expiresAt \in Expiries,
             CallApprove(k, p, intent, expiresAt, e)
      PROVE  TypeInv'
  <2> DEFINE ap == [key |-> k, intent |-> intent, expiresAt |-> expiresAt]
             args == [proposal |-> p, event |-> e, approval |-> ap]
             c == [scope |-> "allocation-approve", key |-> k, args |-> args]
  <2>1. Enqueue("allocation-approve", k, args) /\ proposals[p] # NoProposal
    BY <1>2 DEF CallApprove
  <2>2. "allocation-approve" \in Scopes
    BY <2>1 DEF Enqueue
  <2>3. IsApproval(ap)
    BY <2>1, IntentsTyped DEF IsApproval
  <2>4. CallTyped(c)
    <3>1. /\ c.scope = "allocation-approve" /\ c.key = k /\ c.args.event = e
          /\ c.args.approval = ap
      OBVIOUS
    <3> HIDE DEF ap, args, c
    <3>q. QED
      BY <2>2, <2>3, <3>1 DEF CallTyped
  <2> HIDE DEF args
  <2>q. QED
    BY <2>1, <2>4, EnqueueTypes
<1>3. ASSUME NEW p \in Proposals, NEW e \in EventIds, NEW k \in Keys, NEW now \in Times,
             CallApply(k, p, e, now)
      PROVE  TypeInv'
  <2> DEFINE args == [proposal |-> p, event |-> e, now |-> now]
             c == [scope |-> "allocation-apply", key |-> k, args |-> args]
  <2>1. Enqueue("allocation-apply", k, args)
    BY <1>3 DEF CallApply
  <2>2. "allocation-apply" \in Scopes
    BY <2>1 DEF Enqueue
  <2>3. CallTyped(c)
    BY <2>2 DEF CallTyped
  <2> HIDE DEF args
  <2>q. QED
    BY <2>1, <2>3, EnqueueTypes
<1>4. CASE RunApprove
  <2>1. CASE ~CanApprove(Head(queue).args)
    BY <1>4, <2>1, RejectTypes DEF RunApprove
  <2>2. CASE CanApprove(Head(queue).args)
    BY <1>4, <2>2, WaitTypes DEF RunApprove, CanApprove
  <2>q. QED
    BY <2>1, <2>2
<1>5. CASE RunApply
  <2>1. CASE ~CanApply(Head(queue).args)
    BY <1>5, <2>1, RejectTypes DEF RunApply
  <2>2. CASE CanApply(Head(queue).args)
    BY <1>5, <2>2, WaitTypes DEF RunApply, CanApply
  <2>q. QED
    BY <2>1, <2>2
<1>6. CASE \E h \in hashing : FinishApprove(h) \/ FinishApply(h)
  BY <1>6, FinishApproveTypes, FinishApplyTypes
<1>q. QED
  BY <1>1, <1>2, <1>3, <1>4, <1>5, <1>6 DEF AllocationNext

(* The types hold at the start.                                            *)
LEMMA TypesInit == TreasuryInit => TypeInv
<1> SUFFICES ASSUME TreasuryInit PROVE TypeInv
  OBVIOUS
<1>1. /\ queue = <<>> /\ hashing = {} /\ audit = {}
      /\ totalCapital = InitialCapital /\ confirmed = InitialCapital /\ escrowed = 0
      /\ allocated = [r \in Reserves |-> 0]
      /\ proposals = [p \in Proposals |-> NoProposal]
      /\ entries = [s \in Scopes |-> [k \in Keys |-> "NONE"]]
  BY DEF TreasuryInit
<1>2. MoneyTyped
  BY <1>1, TreasuryAssumption DEF MoneyTyped
<1>3. ProposalsTyped
  BY <1>1 DEF ProposalsTyped
<1>4. OutcomesTyped
  BY <1>1 DEF OutcomesTyped
<1>5. DOMAIN queue = {}
  BY <1>1
<1>6. CallsTyped
  BY <1>1, <1>5 DEF CallsTyped
<1>q. QED
  BY <1>2, <1>3, <1>4, <1>6 DEF TypeInv

(* Every step keeps them.                                                  *)
LEMMA TypesStep == TInv /\ TypeInv /\ [TreasuryNext]_vars => TypeInv'
<1> SUFFICES ASSUME TInv, TypeInv, [TreasuryNext]_vars PROVE TypeInv'
  OBVIOUS
<1>1. CASE UNCHANGED vars
  <2>1. UNCHANGED <<funds, proposals, audit, entries, queue, hashing>>
    BY <1>1 DEF vars, records, tasks
  <2>2. OutcomesTyped' /\ CallsTyped'
    BY <2>1 DEF TypeInv, OutcomesTyped, CallsTyped
  <2>q. QED
    BY <2>1, <2>2, MoneyKept, ProposalsTypeKept DEF TypeInv
<1>q. QED
  BY <1>1, EscrowTypes, AllocationTypes, TrancheTypes DEF TreasuryNext

(* So they always hold.                                                    *)
LEMMA TypesAlways == TreasurySpec => []TypeInv
BY TypesInit, TypesStep, TInvAlways, PTL DEF TreasurySpec

(* Every variable has its type, and no balance is ever negative            *)
(* (computeBalances), whatever the calls interleave.                       *)
THEOREM TreasuryTyped == TreasurySpec => []TreasuryTypeOK
BY TInvAlways, TypesAlways, TypesAreRight, PTL

-----------------------------------------------------------------------------
(* The ledger                                                              *)

(* No entry is written twice; a reversal has a commitment, and what is     *)
(* reversed of a commitment is at most its amount.                         *)
IdsDistinct(lg) ==
  \A i, j \in DOMAIN lg : i # j => EntryId(lg[i]) # EntryId(lg[j])

ReversalsFit(lg) ==
  \A i \in DOMAIN lg :
    lg[i].kind = "COMMITMENT" => ReversedIn(lg, EntryId(lg[i])) <= lg[i].amount

ReversalsAim(lg) ==
  \A i \in DOMAIN lg : lg[i].kind = "REVERSAL" =>
    \E j \in DOMAIN lg : lg[j].kind = "COMMITMENT" /\ EntryId(lg[j]) = lg[i].reverses

LedgerInv(lg) ==
  /\ IsSeq(lg)
  /\ EntriesTyped(lg)
  /\ IdsDistinct(lg)
  /\ ReversalsFit(lg)
  /\ ReversalsAim(lg)

(* The ledger's part of the books.                                         *)
LEMMA LedgerIsRight == LedgerInv(ledger) => NoEntryTwice
BY SumsAre DEF LedgerInv, IdsDistinct, ReversalsFit, NoEntryTwice

(* Nothing of a commitment that is not in the ledger is reversed.          *)
LEMMA NothingReversed ==
  ASSUME NEW lg, ReversalsAim(lg), NEW id, \A i \in DOMAIN lg : EntryId(lg[i]) # id
  PROVE  ReversedIn(lg, id) = 0
<1>1. ReversalsIn(lg, id) = {}
  BY DEF ReversalsAim, ReversalsIn
<1>2. EntrySum(lg, {}) = Total(AmountsOf(lg), {})
  <2>1. {} \in SUBSET DOMAIN lg /\ IsFiniteSet({})
    BY FS_EmptySet
  <2>q. QED
    BY <2>1, EntrySumIs
<1>q. QED
  BY <1>1, <1>2, TotalEmpty DEF ReversedIn

(* A new entry; a reversal is of a commitment with enough left.            *)
LEMMA AppendKeeps ==
  ASSUME NEW lg, LedgerInv(lg), NEW e, e.amount \in Nat,
         \A i \in DOMAIN lg : EntryId(lg[i]) # EntryId(e),
         e.kind = "REVERSAL" =>
           \E i \in DOMAIN lg :
             /\ lg[i].kind = "COMMITMENT" /\ EntryId(lg[i]) = e.reverses
             /\ ReversedIn(lg, e.reverses) + e.amount <= lg[i].amount
  PROVE  LedgerInv(Append(lg, e))
<1>1. PICK lg2 : lg2 = Append(lg, e)
  OBVIOUS
<1>2. IsSeq(lg) /\ EntriesTyped(lg)
  BY DEF LedgerInv
<1>3. /\ IsSeq(lg2)
      /\ Len(lg) \in Nat /\ DOMAIN lg = 1 .. Len(lg)
      /\ DOMAIN lg2 = 1 .. Len(lg) + 1
      /\ \A i \in 1 .. Len(lg) : lg2[i] = lg[i]
      /\ lg2[Len(lg) + 1] = e
  BY <1>1, <1>2, AppendIsSeq
<1>4. PICK n : n = Len(lg) + 1
  OBVIOUS
<1>5. /\ n \in DOMAIN lg2 /\ n \notin DOMAIN lg /\ lg2[n] = e
      /\ \A i \in DOMAIN lg2 : i # n => i \in DOMAIN lg
      /\ \A i \in DOMAIN lg : i \in DOMAIN lg2 /\ lg2[i] = lg[i]
  BY <1>3, <1>4
<1>6. /\ EntriesTyped(lg2)
      /\ \A id : ReversedIn(lg2, id)
                   = ReversedIn(lg, id)
                       + (IF e.kind = "REVERSAL" /\ e.reverses = id THEN e.amount ELSE 0)
      /\ \A id : ReversedIn(lg, id) \in Nat
  BY <1>1, <1>2, SumsAppend, SumsType
<1>7. IdsDistinct(lg2)
  BY <1>5 DEF LedgerInv, IdsDistinct
<1>8. ReversalsAim(lg2)
  <2> SUFFICES ASSUME NEW i \in DOMAIN lg2, lg2[i].kind = "REVERSAL"
               PROVE  \E j \in DOMAIN lg2 :
                        lg2[j].kind = "COMMITMENT" /\ EntryId(lg2[j]) = lg2[i].reverses
    BY DEF ReversalsAim
  <2>1. \E j \in DOMAIN lg : lg[j].kind = "COMMITMENT" /\ EntryId(lg[j]) = lg2[i].reverses
    <3>1. CASE i = n
      BY <1>5, <3>1
    <3>2. CASE i # n
      BY <1>5, <3>2 DEF LedgerInv, ReversalsAim
    <3>q. QED
      BY <3>1, <3>2
  <2>q. QED
    BY <1>5, <2>1
<1>9. ReversalsFit(lg2)
  <2> SUFFICES ASSUME NEW i \in DOMAIN lg2, lg2[i].kind = "COMMITMENT"
               PROVE  ReversedIn(lg2, EntryId(lg2[i])) <= lg2[i].amount
    BY DEF ReversalsFit
  <2>1. CASE i = n
    <3>1. ReversedIn(lg, EntryId(e)) = 0
      BY NothingReversed DEF LedgerInv
    <3>2. ReversedIn(lg2, EntryId(e)) = 0
      BY <1>5, <1>6, <2>1, <3>1
    <3>q. QED
      BY <1>5, <2>1, <3>2
  <2>2. CASE i # n
    <3>1. i \in DOMAIN lg /\ lg2[i] = lg[i]
      BY <1>5, <2>2
    <3>2. PICK id, m : id = EntryId(lg[i]) /\ m = lg[i].amount
      OBVIOUS
    <3>3. m \in Nat /\ ReversedIn(lg, id) <= m /\ ReversedIn(lg, id) \in Nat
      BY <1>2, <1>6, <3>1, <3>2 DEF LedgerInv, ReversalsFit, EntriesTyped
    <3>4. CASE e.kind = "REVERSAL" /\ e.reverses = id
      <4>1. PICK j \in DOMAIN lg :
              /\ lg[j].kind = "COMMITMENT" /\ EntryId(lg[j]) = e.reverses
              /\ ReversedIn(lg, e.reverses) + e.amount <= lg[j].amount
        BY <3>4
      <4>2. j = i
        BY <3>1, <3>2, <3>4, <4>1 DEF LedgerInv, IdsDistinct
      <4>3. ReversedIn(lg2, id) = ReversedIn(lg, id) + e.amount
        BY <1>6, <3>4
      <4>q. QED
        BY <3>1, <3>2, <3>4, <4>1, <4>2, <4>3
    <3>5. CASE ~(e.kind = "REVERSAL" /\ e.reverses = id)
      <4>1. ReversedIn(lg2, id) = ReversedIn(lg, id)
        BY <1>6, <3>3, <3>5
      <4>q. QED
        BY <3>1, <3>2, <3>3, <4>1
    <3>q. QED
      BY <3>4, <3>5
  <2>q. QED
    BY <2>1, <2>2
<1>q. QED
  BY <1>1, <1>3, <1>6, <1>7, <1>8, <1>9 DEF LedgerInv

(* The entries of an allocation that is not in the ledger yet.             *)
LEMMA JoinKeeps ==
  ASSUME NEW lg, LedgerInv(lg), NEW p, NEW a, AmountsFit(a), NEW u, u = AllocationEntries(p, a),
         \A i \in DOMAIN lg : ~(lg[i].kind = "ALLOCATION" /\ lg[i].ref = p)
  PROVE  LedgerInv(lg \o u)
<1>1. PICK lg2 : lg2 = lg \o u
  OBVIOUS
<1>2. IsSeq(lg) /\ EntriesTyped(lg) /\ IsSeq(u)
  BY AllocationEntriesAre DEF LedgerInv, AmountsFit
<1>3. /\ \A i \in DOMAIN u : u[i].kind = "ALLOCATION" /\ u[i].ref = p
      /\ \A i, j \in DOMAIN u : u[i].reserve = u[j].reserve => i = j
      /\ EntriesTyped(u)
  BY AllocationEntriesSum
<1>4. /\ IsSeq(lg \o u)
      /\ Len(lg) \in Nat /\ DOMAIN lg = 1 .. Len(lg)
      /\ Len(u) \in Nat /\ DOMAIN u = 1 .. Len(u)
      /\ DOMAIN (lg \o u) = 1 .. Len(lg) + Len(u)
      /\ \A i \in 1 .. Len(lg) : (lg \o u)[i] = lg[i]
      /\ \A i \in 1 .. Len(u) : (lg \o u)[Len(lg) + i] = u[i]
  BY <1>2, JoinIsSeq
<1>5. \A i \in DOMAIN lg : i \in DOMAIN lg2 /\ lg2[i] = lg[i]
  BY <1>1, <1>4
<1>6. \A i \in DOMAIN lg2 : i \in DOMAIN lg
        \/ \E k \in DOMAIN u : i = Len(lg) + k /\ lg2[i] = u[k]
  <2> SUFFICES ASSUME NEW i \in DOMAIN lg2, i \notin DOMAIN lg
               PROVE  \E k \in DOMAIN u : i = Len(lg) + k /\ lg2[i] = u[k]
    OBVIOUS
  <2>1. i - Len(lg) \in 1 .. Len(u) /\ i = Len(lg) + (i - Len(lg))
    BY <1>1, <1>4
  <2>q. QED
    BY <1>1, <1>4, <2>1
<1>7. /\ EntriesTyped(lg2) /\ \A id : ReversedIn(lg2, id) = ReversedIn(lg, id)
  BY <1>1, <1>2, <1>3, SumsJoin
<1>8. IdsDistinct(lg2)
  <2> SUFFICES ASSUME NEW i \in DOMAIN lg2, NEW j \in DOMAIN lg2,
                      EntryId(lg2[i]) = EntryId(lg2[j])
               PROVE  i = j
    BY DEF IdsDistinct
  <2>1. lg2[i].kind = lg2[j].kind /\ lg2[i].ref = lg2[j].ref /\ lg2[i].reserve = lg2[j].reserve
    BY DEF EntryId
  <2>2. CASE i \in DOMAIN lg /\ j \in DOMAIN lg
    BY <1>5, <2>2 DEF LedgerInv, IdsDistinct
  <2>3. CASE i \notin DOMAIN lg /\ j \notin DOMAIN lg
    BY <1>3, <1>6, <2>1, <2>3
  <2>4. CASE i \in DOMAIN lg /\ j \notin DOMAIN lg
    BY <1>3, <1>5, <1>6, <2>1, <2>4
  <2>5. CASE i \notin DOMAIN lg /\ j \in DOMAIN lg
    BY <1>3, <1>5, <1>6, <2>1, <2>5
  <2>q. QED
    BY <2>2, <2>3, <2>4, <2>5
<1>9. \A i \in DOMAIN lg2 : lg2[i].kind # "ALLOCATION" => i \in DOMAIN lg
  BY <1>3, <1>6
<1>10. ReversalsFit(lg2)
  BY <1>5, <1>7, <1>9 DEF LedgerInv, ReversalsFit
<1>11. ReversalsAim(lg2)
  BY <1>5, <1>9 DEF LedgerInv, ReversalsAim
<1>q. QED
  BY <1>1, <1>4, <1>7, <1>8, <1>10, <1>11 DEF LedgerInv

-----------------------------------------------------------------------------
(* The books                                                               *)

BookedFor(lg, p) == {i \in DOMAIN lg : lg[i].kind = "ALLOCATION" /\ lg[i].ref = p}

(* What the ledger says of a proposal: nothing before it is applied, and   *)
(* then what was approved.                                                 *)
BookedRight(lg, p, q) ==
  /\ q = NoProposal \/ q.status # "APPLIED" => BookedFor(lg, p) = {}
  /\ q # NoProposal /\ q.status = "APPLIED" =>
       /\ Cardinality(BookedFor(lg, p)) = Cardinality(DOMAIN q.amounts)
       /\ \A i \in BookedFor(lg, p) : lg[i].amount = q.approval.intent.amounts[lg[i].reserve]
       /\ q.appliedAt < q.approval.expiresAt
       /\ q.approval.intent = Intent(p, q.amounts, q.tranche)

BooksInv ==
  /\ LedgerInv(ledger)
  /\ LedgerBalances
  /\ \A p \in Proposals : BookedRight(ledger, p, proposals[p])

(* The invariant implies the three properties.                             *)
LEMMA BooksAreRight == BooksInv => LedgerBalances /\ NoEntryTwice /\ AppliedAsApproved
<1> SUFFICES ASSUME BooksInv PROVE LedgerBalances /\ NoEntryTwice /\ AppliedAsApproved
  OBVIOUS
<1>1. AppliedAsApproved
  BY DEF BooksInv, BookedRight, BookedFor, AppliedAsApproved
<1>q. QED
  BY <1>1, LedgerIsRight DEF BooksInv

(* Entries of another kind are no part of an allocation.                   *)
LEMMA BookedAppend ==
  ASSUME NEW lg, IsSeq(lg), NEW e, e.kind # "ALLOCATION", NEW p, NEW q, BookedRight(lg, p, q)
  PROVE  BookedRight(Append(lg, e), p, q)
<1>1. PICK lg2 : lg2 = Append(lg, e)
  OBVIOUS
<1>2. /\ Len(lg) \in Nat /\ DOMAIN lg = 1 .. Len(lg)
      /\ DOMAIN lg2 = 1 .. Len(lg) + 1
      /\ \A i \in 1 .. Len(lg) : lg2[i] = lg[i]
      /\ lg2[Len(lg) + 1] = e
  BY <1>1, AppendIsSeq
<1>3. /\ BookedFor(lg2, p) = BookedFor(lg, p)
      /\ \A i \in BookedFor(lg, p) : lg2[i] = lg[i]
  BY <1>2 DEF BookedFor
<1>q. QED
  BY <1>1, <1>3 DEF BookedRight

(* What is booked for the other proposals, and for the one that is applied. *)
OthersKept(lg, lg2, p) ==
  \A r, q : r # p /\ BookedRight(lg, r, q) => BookedRight(lg2, r, q)

BookedAs(lg, p, a) ==
  /\ Cardinality(BookedFor(lg, p)) = Cardinality(DOMAIN a)
  /\ \A i \in BookedFor(lg, p) : lg[i].amount = a[lg[i].reserve]

(* j is s and then u.                                                      *)
Joins(s, u, j) ==
  /\ IsSeq(j)
  /\ Len(s) \in Nat /\ DOMAIN s = 1 .. Len(s)
  /\ Len(u) \in Nat /\ DOMAIN u = 1 .. Len(u)
  /\ DOMAIN j = 1 .. Len(s) + Len(u)
  /\ \A i \in 1 .. Len(s) : j[i] = s[i]
  /\ \A i \in 1 .. Len(u) : j[Len(s) + i] = u[i]

(* The entries of an allocation are all that is booked for it, and no part *)
(* of another.                                                             *)
LEMMA BookedJoin ==
  ASSUME NEW lg, IsSeq(lg), NEW p, NEW a, AmountsFit(a), NEW u, u = AllocationEntries(p, a)
  PROVE  /\ OthersKept(lg, lg \o u, p)
         /\ BookedFor(lg, p) = {} => BookedAs(lg \o u, p, a)
<1>1. PICK lg2 : lg2 = lg \o u
  OBVIOUS
<1>2. IsSeq(lg) /\ IsSeq(u)
  BY AllocationEntriesAre DEF AmountsFit
<1>3. PICK n \in Nat : n = Cardinality(DOMAIN a)
  BY AllocationEntriesSum
<1>4. /\ DOMAIN u = 1 .. n
      /\ \A i \in DOMAIN u : /\ u[i].kind = "ALLOCATION" /\ u[i].ref = p
                             /\ u[i].amount = a[u[i].reserve]
  BY <1>3, AllocationEntriesSum
<1>5. /\ IsSeq(lg \o u)
      /\ Len(lg) \in Nat /\ DOMAIN lg = 1 .. Len(lg)
      /\ Len(u) \in Nat /\ DOMAIN u = 1 .. Len(u)
      /\ DOMAIN (lg \o u) = 1 .. Len(lg) + Len(u)
      /\ \A i \in 1 .. Len(lg) : (lg \o u)[i] = lg[i]
      /\ \A i \in 1 .. Len(u) : (lg \o u)[Len(lg) + i] = u[i]
  <2>1. \A v : IsSeq(v) => Joins(lg, v, lg \o v)
    BY <1>2, JoinIsSeq DEF Joins
  <2>2. Joins(lg, u, lg \o u)
    BY <1>2, <2>1
  <2>q. QED
    BY <2>2 DEF Joins
<1>6. PICK m \in Nat : m = Len(lg)
  BY <1>5
<1>7. DOMAIN lg = 1 .. m /\ DOMAIN lg2 = 1 .. m + n
  <2>1. Len(u) = n
    BY <1>3, <1>4, <1>5
  <2>q. QED
    BY <1>1, <1>5, <1>6, <2>1
<1>8. /\ \A i \in 1 .. m : lg2[i] = lg[i]
      /\ \A i \in 1 .. n : lg2[m + i] = u[i]
  BY <1>1, <1>4, <1>5, <1>6
<1>9. \A i \in m + 1 .. m + n :
        /\ lg2[i].kind = "ALLOCATION" /\ lg2[i].ref = p /\ lg2[i].amount = a[lg2[i].reserve]
  <2> SUFFICES ASSUME NEW i \in m + 1 .. m + n
               PROVE  /\ lg2[i].kind = "ALLOCATION" /\ lg2[i].ref = p
                      /\ lg2[i].amount = a[lg2[i].reserve]
    OBVIOUS
  <2>1. i - m \in 1 .. n /\ m + (i - m) = i
    BY <1>3, <1>6
  <2>2. lg2[i] = u[i - m]
    BY <1>8, <2>1
  <2>q. QED
    BY <1>4, <2>1, <2>2
<1>10. DOMAIN lg2 = DOMAIN lg \cup m + 1 .. m + n /\ DOMAIN lg \cap m + 1 .. m + n = {}
  BY <1>3, <1>6, <1>7
<1>11. ASSUME NEW r, NEW q, r # p, BookedRight(lg, r, q)
       PROVE  BookedRight(lg2, r, q)
  <2>1. /\ BookedFor(lg2, r) = BookedFor(lg, r)
        /\ \A i \in BookedFor(lg, r) : lg2[i] = lg[i]
    BY <1>7, <1>8, <1>9, <1>10, <1>11 DEF BookedFor
  <2>q. QED
    BY <1>11, <2>1 DEF BookedRight
<1>12. ASSUME BookedFor(lg, p) = {}
       PROVE  BookedFor(lg2, p) = m + 1 .. m + n
  BY <1>7, <1>8, <1>9, <1>10, <1>12 DEF BookedFor
<1>13. Cardinality(m + 1 .. m + n) = n
  <2>1. m + 1 \in Int /\ m + n \in Int
    OBVIOUS
  <2>2. Cardinality(m + 1 .. m + n) = IF m + 1 > m + n THEN 0 ELSE m + n - (m + 1) + 1
    BY <2>1, FS_Interval
  <2>q. QED
    BY <2>2
<1>q. QED
  BY <1>1, <1>3, <1>9, <1>11, <1>12, <1>13 DEF OthersKept, BookedAs

-----------------------------------------------------------------------------
(* The balances and the ledger change together                             *)

Balanced(total, conf, esc, alloc, lg) ==
  IsConsistent(total, conf, esc, alloc, lg) /\ AmountTotal(alloc) + esc <= conf

(* The balances, as a relation of five values.                             *)
LEMMA BalancedIs ==
  LedgerBalances <=> Balanced(totalCapital, confirmed, escrowed, allocated, ledger)
BY DEF LedgerBalances, Balanced, Allocated

(* An entry that is no allocation.                                         *)
LEMMA BalancedAppend ==
  ASSUME NEW lg, IsSeq(lg), EntriesTyped(lg), NEW e, e.amount \in Nat,
         NEW total \in Nat, NEW conf \in Nat, NEW esc \in Nat,
         NEW alloc, AmountTotal(alloc) \in Nat,
         Balanced(total, conf, esc, alloc, lg)
  PROVE  /\ e.kind = "COMMITMENT" /\ AmountTotal(alloc) + (esc + e.amount) <= conf
              => Balanced(total, conf, esc + e.amount, alloc, Append(lg, e))
         /\ e.kind = "REVERSAL" /\ e.amount <= esc
              => Balanced(total, conf, esc - e.amount, alloc, Append(lg, e))
         /\ e.kind = "SETTLEMENT"
              => Balanced(total + e.amount, conf + e.amount, esc, alloc, Append(lg, e))
<1> DEFINE K1 == {"CAPITAL", "SETTLEMENT"}
           K2 == {"COMMITMENT"}
           K3 == {"REVERSAL"}
           K4 == {"ALLOCATION"}
<1>1. PICK lg2 : lg2 = Append(lg, e)
  OBVIOUS
<1>2. \A kinds : /\ LedgerSum(lg, kinds) \in Nat
                 /\ LedgerSum(lg2, kinds)
                      = LedgerSum(lg, kinds) + (IF e.kind \in kinds THEN e.amount ELSE 0)
  BY <1>1, SumsType, SumsAppend
<1>3. PICK n \in Nat, a \in Nat : n = e.amount /\ a = AmountTotal(alloc)
  OBVIOUS
<1>4. PICK s1 \in Nat, s2 \in Nat, s3 \in Nat, s4 \in Nat :
        /\ s1 = LedgerSum(lg, K1) /\ s2 = LedgerSum(lg, K2)
        /\ s3 = LedgerSum(lg, K3) /\ s4 = LedgerSum(lg, K4)
  BY <1>2
<1>5. /\ total = conf /\ s1 = conf /\ s2 - s3 = esc /\ s4 = a /\ a + esc <= conf
  BY <1>3, <1>4 DEF Balanced, IsConsistent
<1>6. /\ LedgerSum(lg2, K1) = s1 + (IF e.kind \in K1 THEN n ELSE 0)
      /\ LedgerSum(lg2, K2) = s2 + (IF e.kind \in K2 THEN n ELSE 0)
      /\ LedgerSum(lg2, K3) = s3 + (IF e.kind \in K3 THEN n ELSE 0)
      /\ LedgerSum(lg2, K4) = s4 + (IF e.kind \in K4 THEN n ELSE 0)
  BY <1>2, <1>3, <1>4
<1>7. ASSUME e.kind = "COMMITMENT", a + (esc + n) <= conf
      PROVE  Balanced(total, conf, esc + n, alloc, lg2)
  <2>1. /\ LedgerSum(lg2, K1) = s1 /\ LedgerSum(lg2, K2) = s2 + n
        /\ LedgerSum(lg2, K3) = s3 /\ LedgerSum(lg2, K4) = s4
    BY <1>6, <1>7
  <2>2. s2 + n - s3 = esc + n
    BY <1>5
  <2>q. QED
    BY <1>3, <1>5, <1>7, <2>1, <2>2 DEF Balanced, IsConsistent
<1>8. ASSUME e.kind = "REVERSAL", n <= esc
      PROVE  Balanced(total, conf, esc - n, alloc, lg2)
  <2>1. /\ LedgerSum(lg2, K1) = s1 /\ LedgerSum(lg2, K2) = s2
        /\ LedgerSum(lg2, K3) = s3 + n /\ LedgerSum(lg2, K4) = s4
    BY <1>6, <1>8
  <2>2. s2 - (s3 + n) = esc - n /\ a + (esc - n) <= conf
    BY <1>5
  <2>q. QED
    BY <1>3, <1>5, <1>8, <2>1, <2>2 DEF Balanced, IsConsistent
<1>9. ASSUME e.kind = "SETTLEMENT"
      PROVE  Balanced(total + n, conf + n, esc, alloc, lg2)
  <2>1. /\ LedgerSum(lg2, K1) = s1 + n /\ LedgerSum(lg2, K2) = s2
        /\ LedgerSum(lg2, K3) = s3 /\ LedgerSum(lg2, K4) = s4
    BY <1>6, <1>9
  <2>2. a + esc <= conf + n
    BY <1>5
  <2>q. QED
    BY <1>3, <1>5, <1>9, <2>1, <2>2 DEF Balanced, IsConsistent
<1>q. QED
  BY <1>1, <1>3, <1>7, <1>8, <1>9

(* The entries of an allocation within what is free.                       *)
LEMMA BalancedJoin ==
  ASSUME NEW lg, IsSeq(lg), EntriesTyped(lg), NEW p, NEW a, AmountsFit(a),
         NEW u, u = AllocationEntries(p, a),
         NEW total \in Nat, NEW conf \in Nat, NEW esc \in Nat,
         NEW alloc, AmountTotal(alloc) \in Nat,
         Balanced(total, conf, esc, alloc, lg),
         NEW alloc2, AmountTotal(alloc2) = AmountTotal(alloc) + AmountTotal(a),
         AmountTotal(a) <= conf - esc - AmountTotal(alloc)
  PROVE  Balanced(total, conf, esc, alloc2, lg \o u)
<1>1. PICK lg2 : lg2 = lg \o u
  OBVIOUS
<1>2. IsSeq(lg) /\ EntriesTyped(lg) /\ IsSeq(u)
  BY AllocationEntriesAre DEF AmountsFit
<1>3. PICK m \in Nat : m = AmountTotal(a)
  BY AmountsAreFinite
<1>4. /\ \A i \in DOMAIN u : u[i].kind = "ALLOCATION"
      /\ EntriesTyped(u) /\ EntrySum(u, DOMAIN u) = m
  BY <1>3, AllocationEntriesSum
<1>5. \A kinds : LedgerSum(lg \o u, kinds)
                   = LedgerSum(lg, kinds)
                       + (IF "ALLOCATION" \in kinds THEN EntrySum(u, DOMAIN u) ELSE 0)
  BY <1>2, <1>4, SumsJoin
<1>6. \A kinds : LedgerSum(lg, kinds) \in Nat
  BY <1>2, SumsType
<1>7. /\ LedgerSum(lg2, {"ALLOCATION"}) = LedgerSum(lg, {"ALLOCATION"}) + m
      /\ LedgerSum(lg2, {"CAPITAL", "SETTLEMENT"}) = LedgerSum(lg, {"CAPITAL", "SETTLEMENT"})
      /\ LedgerSum(lg2, {"COMMITMENT"}) = LedgerSum(lg, {"COMMITMENT"})
      /\ LedgerSum(lg2, {"REVERSAL"}) = LedgerSum(lg, {"REVERSAL"})
  <2>1. ASSUME NEW kinds
        PROVE  LedgerSum(lg2, kinds)
                 = LedgerSum(lg, kinds) + (IF "ALLOCATION" \in kinds THEN m ELSE 0)
    BY <1>1, <1>4, <1>5
  <2>2. ASSUME NEW kinds, "ALLOCATION" \notin kinds
        PROVE  LedgerSum(lg2, kinds) = LedgerSum(lg, kinds)
    <3>1. PICK s \in Nat : s = LedgerSum(lg, kinds)
      BY <1>6
    <3>q. QED
      BY <2>1, <2>2, <3>1
  <2>q. QED
    BY <2>1, <2>2
<1>8. PICK b \in Nat : b = AmountTotal(alloc)
  OBVIOUS
<1>9. AmountTotal(alloc2) = b + m /\ b + m + esc <= conf
  BY <1>3, <1>8
<1>10. /\ total = conf
       /\ LedgerSum(lg, {"CAPITAL", "SETTLEMENT"}) = conf
       /\ LedgerSum(lg, {"COMMITMENT"}) - LedgerSum(lg, {"REVERSAL"}) = esc
       /\ LedgerSum(lg, {"ALLOCATION"}) = b
  BY <1>8 DEF Balanced, IsConsistent
<1>11. IsConsistent(total, conf, esc, alloc2, lg2)
  BY <1>7, <1>9, <1>10 DEF IsConsistent
<1>q. QED
  BY <1>1, <1>9, <1>11 DEF Balanced

-----------------------------------------------------------------------------
(* Every step keeps the books                                              *)

(* The books after a step, from their parts.                               *)
LEMMA BooksNext ==
  ASSUME LedgerInv(ledger'),
         Balanced(totalCapital', confirmed', escrowed', allocated', ledger'),
         \A p \in Proposals : BookedRight(ledger', p, proposals'[p])
  PROVE  BooksInv'
<1>1. LedgerBalances'
  BY DEF Balanced, LedgerBalances, IsConsistent, Allocated
<1>q. QED
  BY <1>1 DEF BooksInv

(* A step that changes neither money nor proposals.                        *)
LEMMA BooksKept ==
  ASSUME BooksInv, UNCHANGED <<totalCapital, confirmed, escrowed, allocated, ledger, proposals>>
  PROVE  BooksInv'
<1>1. Balanced(totalCapital, confirmed, escrowed, allocated, ledger)
  BY BalancedIs DEF BooksInv
<1>q. QED
  BY <1>1, BooksNext DEF BooksInv

(* An entry that is no allocation keeps what is booked.                    *)
LEMMA BooksAppend ==
  ASSUME BooksInv, NEW e, e.amount \in Nat, e.kind # "ALLOCATION",
         \A i \in DOMAIN ledger : EntryId(ledger[i]) # EntryId(e),
         e.kind = "REVERSAL" =>
           \E i \in DOMAIN ledger :
             /\ ledger[i].kind = "COMMITMENT" /\ EntryId(ledger[i]) = e.reverses
             /\ ReversedIn(ledger, e.reverses) + e.amount <= ledger[i].amount,
         ledger' = Append(ledger, e), UNCHANGED proposals,
         Balanced(totalCapital', confirmed', escrowed', allocated', ledger')
  PROVE  BooksInv'
<1>1. LedgerInv(ledger) /\ IsSeq(ledger)
  BY DEF BooksInv, LedgerInv
<1>2. LedgerInv(Append(ledger, e))
  BY <1>1, AppendKeeps
<1>3. \A p \in Proposals : BookedRight(ledger, p, proposals[p])
  BY DEF BooksInv
<1>4. \A p \in Proposals : BookedRight(Append(ledger, e), p, proposals[p])
  BY <1>1, <1>3, BookedAppend
<1>q. QED
  BY <1>2, <1>4, BooksNext

(* What an action was given, and what the money is before it.              *)
LEMMA BooksFacts ==
  ASSUME TypeInv, BooksInv
  PROVE  /\ totalCapital \in Nat /\ confirmed \in Nat /\ escrowed \in Nat
         /\ AmountTotal(allocated) \in Nat
         /\ IsSeq(ledger) /\ EntriesTyped(ledger)
         /\ Balanced(totalCapital, confirmed, escrowed, allocated, ledger)
<1>1. AmountsFit(allocated)
  BY DEF TypeInv, MoneyTyped, AmountsFit
<1>q. QED
  BY <1>1, AmountsAreFinite, BalancedIs DEF TypeInv, MoneyTyped, BooksInv, LedgerInv

(* Escrow is taken from what is free.                                      *)
LEMMA RecordEscrowBooks ==
  ASSUME TInv, TypeInv, BooksInv, RunRecordEscrow
  PROVE  BooksInv'
<1> DEFINE a == Head(queue).args
           e == Entry("COMMITMENT", a.event, None, a.amount, None)
<1>1. Runs("escrow-record") /\ Dequeue
  BY DEF RunRecordEscrow
<1>2. CASE ~CanRecordEscrow(a)
  BY <1>2, BooksKept DEF RunRecordEscrow, Reject, funds, records
<1>3. CASE CanRecordEscrow(a)
  <2>1. /\ escrowed' = escrowed + a.amount /\ ledger' = Append(ledger, e)
        /\ UNCHANGED <<totalCapital, confirmed, allocated, proposals>>
    BY <1>3 DEF RunRecordEscrow, records
  <2>2. a.amount \in Nat
    <3>1. CallTyped(Head(queue)) /\ Head(queue).scope = "escrow-record"
      BY <1>1, DequeueTypes
    <3>q. QED
      BY <3>1, TreasuryAssumption DEF CallTyped
  <2>3. /\ e.kind = "COMMITMENT" /\ e.amount = a.amount
        /\ EntryId(e) = <<"COMMITMENT", a.event, None>>
    BY DEF Entry, EntryId
  <2>4. \A i \in DOMAIN ledger : EntryId(ledger[i]) # EntryId(e)
    BY <1>3, <2>3 DEF CanRecordEscrow, FreshIds, Ids
  <2>5. AmountTotal(allocated) + (escrowed + a.amount) <= confirmed
    BY <1>3 DEF CanRecordEscrow, Covers
  <2> HIDE DEF e, a
  <2>6. Balanced(totalCapital, confirmed, escrowed + e.amount, allocated, Append(ledger, e))
    BY <2>2, <2>3, <2>5, BooksFacts, BalancedAppend
  <2>q. QED
    BY <2>1, <2>2, <2>3, <2>4, <2>6, BooksAppend
<1>q. QED
  BY <1>2, <1>3

(* A release reverses a commitment with enough of it left.                 *)
LEMMA ReleaseEscrowBooks ==
  ASSUME TInv, TypeInv, BooksInv, RunReleaseEscrow
  PROVE  BooksInv'
<1> DEFINE a == Head(queue).args
           e == Entry("REVERSAL", a.event, None, a.amount, a.target)
<1>1. Runs("escrow-release") /\ Dequeue
  BY DEF RunReleaseEscrow
<1>2. CASE ~CanReleaseEscrow(a)
  BY <1>2, BooksKept DEF RunReleaseEscrow, Reject, funds, records
<1>3. CASE CanReleaseEscrow(a)
  <2>1. /\ escrowed' = escrowed - a.amount /\ ledger' = Append(ledger, e)
        /\ UNCHANGED <<totalCapital, confirmed, allocated, proposals>>
    BY <1>3 DEF RunReleaseEscrow, records
  <2>2. a.amount \in Nat
    <3>1. CallTyped(Head(queue)) /\ Head(queue).scope = "escrow-release"
      BY <1>1, DequeueTypes
    <3>q. QED
      BY <3>1, TreasuryAssumption DEF CallTyped
  <2>3. /\ e.kind = "REVERSAL" /\ e.amount = a.amount /\ e.reverses = a.target
        /\ EntryId(e) = <<"REVERSAL", a.event, None>>
    BY DEF Entry, EntryId
  <2>4. \A i \in DOMAIN ledger : EntryId(ledger[i]) # EntryId(e)
    BY <1>3, <2>3 DEF CanReleaseEscrow, FreshIds, Ids
  <2>5. a.amount <= escrowed /\ CanReverse(a)
    BY <1>3 DEF CanReleaseEscrow
  <2>6. \E i \in DOMAIN ledger :
          /\ ledger[i].kind = "COMMITMENT" /\ EntryId(ledger[i]) = e.reverses
          /\ ReversedIn(ledger, e.reverses) + e.amount <= ledger[i].amount
    BY <2>3, <2>5, SumsAre DEF CanReverse
  <2> HIDE DEF e, a
  <2>7. Balanced(totalCapital, confirmed, escrowed - e.amount, allocated, Append(ledger, e))
    BY <2>2, <2>3, <2>5, BooksFacts, BalancedAppend
  <2>q. QED
    BY <2>1, <2>2, <2>3, <2>4, <2>6, <2>7, BooksAppend
<1>q. QED
  BY <1>2, <1>3

(* A tranche that is not reconciled has no credit yet.                     *)
LEMMA ReconcileBooks ==
  ASSUME TInv, TypeInv, BooksInv, RunReconcile
  PROVE  BooksInv'
<1> DEFINE t == Head(queue).args.tranche
           e == Credit(t)
<1>1. Runs("tranche-reconcile") /\ Dequeue
  BY DEF RunReconcile
<1>2. CASE ~CanReconcile(t)
  BY <1>2, BooksKept DEF RunReconcile, Reject, funds, records
<1>3. CASE CanReconcile(t)
  <2>1. /\ totalCapital' = totalCapital + tranches[t].amount
        /\ confirmed' = confirmed + tranches[t].amount
        /\ ledger' = Append(ledger, e)
        /\ UNCHANGED <<escrowed, allocated, proposals>>
    BY <1>3 DEF RunReconcile
  <2>2. /\ tranches[t] # None /\ tranches[t].state = "CONFIRMED" /\ t \in Tranches
    BY <1>1, <1>3, DequeueKeeps DEF CanReconcile
  <2>3. tranches[t].amount \in Nat
    BY <2>2, TreasuryAssumption DEF TInv, TranchesTyped, TrancheType
  <2>4. /\ e.kind = "SETTLEMENT" /\ e.amount = tranches[t].amount
        /\ EntryId(e) = <<"SETTLEMENT", t, None>>
    BY DEF Credit, Entry, EntryId
  <2>5. CreditsIn(ledger, t) = {}
    BY <2>2, CreditedParts DEF TInv, CreditedRight, IsReconciled
  <2>6. \A i \in DOMAIN ledger : EntryId(ledger[i]) # EntryId(e)
    BY <2>4, <2>5 DEF CreditsIn, EntryId
  <2> HIDE DEF e, t
  <2>7. Balanced(totalCapital + e.amount, confirmed + e.amount, escrowed, allocated,
                 Append(ledger, e))
    BY <2>3, <2>4, BooksFacts, BalancedAppend
  <2>q. QED
    BY <2>1, <2>3, <2>4, <2>6, <2>7, BooksAppend
<1>q. QED
  BY <1>2, <1>3

(* A proposal that is written without the ledger is not applied.           *)
LEMMA BooksOfProposals ==
  ASSUME TypeInv, BooksInv, UNCHANGED funds, NEW p \in Proposals, NEW q,
         q.status # "APPLIED", BookedFor(ledger, p) = {},
         \A r \in Proposals : proposals'[r] = IF r = p THEN q ELSE proposals[r]
  PROVE  BooksInv'
<1>1. Balanced(totalCapital', confirmed', escrowed', allocated', ledger')
  BY BooksFacts DEF funds
<1>2. LedgerInv(ledger') /\ ledger' = ledger
  BY DEF BooksInv, funds
<1>3. BookedRight(ledger, p, q)
  BY DEF BookedRight
<1>4. \A r \in Proposals : BookedRight(ledger, r, proposals'[r])
  BY <1>3 DEF BooksInv
<1>q. QED
  BY <1>1, <1>2, <1>4, BooksNext

(* A new proposal has nothing in the ledger.                               *)
LEMMA CreateBooks ==
  ASSUME TInv, TypeInv, BooksInv, NEW p \in Proposals, NEW ins \in InstructionLists,
         NEW t \in Tranches \cup {None}, NEW e \in EventIds,
         CreateAllocationProposal(p, ins, t, e)
  PROVE  BooksInv'
<1> DEFINE q == [status |-> "PROPOSED", amounts |-> Resolve(Budget(t), ins), tranche |-> t,
                 approval |-> None, appliedAt |-> None]
<1>1. /\ proposals[p] = NoProposal
      /\ proposals' = [proposals EXCEPT ![p] = q]
      /\ UNCHANGED funds
  BY DEF CreateAllocationProposal
<1>2. q.status = "PROPOSED"
  OBVIOUS
<1> HIDE DEF q
<1>3. \A r \in Proposals : proposals'[r] = IF r = p THEN q ELSE proposals[r]
  BY <1>1 DEF TInv, ProposalsShaped
<1>4. BookedFor(ledger, p) = {}
  BY <1>1 DEF BooksInv, BookedRight
<1>q. QED
  BY <1>1, <1>2, <1>3, <1>4, BooksOfProposals

(* Nor has one that is approved.                                           *)
LEMMA FinishApproveBooks ==
  ASSUME TInv, TypeInv, BooksInv, NEW h \in hashing, FinishApprove(h)
  PROVE  BooksInv'
<1> DEFINE p == h.call.args.proposal
<1>1. CASE ~CanFinishApprove(h)
  BY <1>1, BooksKept DEF FinishApprove, Reject, funds, records
<1>2. CASE CanFinishApprove(h)
  <2> DEFINE q == ApprovedOf(proposals[p], h.call.args.approval)
  <2>1. /\ proposals[p] = h.current /\ h.current # NoProposal /\ p \in Proposals
        /\ h.current.status = "PROPOSED"
    BY <1>2 DEF FinishApprove, CanFinishApprove, Unmoved, TInv, WaitersReady
  <2>2. proposals' = [proposals EXCEPT ![p] = q] /\ UNCHANGED funds
    BY <1>2, <2>1 DEF FinishApprove, TInv, ProposalsShaped, ApprovedOf
  <2>3. ProposalShaped(proposals[p]) /\ IsProposal(p, proposals[p])
    BY <2>1 DEF TInv, ProposalsShaped, TypeInv, ProposalsTyped
  <2>4. q.status = "APPROVED"
    BY <2>3, UpdatesTyped
  <2> HIDE DEF q
  <2>5. \A r \in Proposals : proposals'[r] = IF r = p THEN q ELSE proposals[r]
    BY <2>1, <2>2 DEF TInv, ProposalsShaped
  <2>6. BookedFor(ledger, p) = {}
    BY <2>1 DEF BooksInv, BookedRight
  <2> HIDE DEF p
  <2>q. QED
    BY <2>1, <2>2, <2>4, <2>5, <2>6, BooksOfProposals
<1>q. QED
  BY <1>1, <1>2

(* The application of a proposal books it, all at once.                    *)
LEMMA FinishApplyBooks ==
  ASSUME TInv, TypeInv, BooksInv, NEW h \in hashing, FinishApply(h)
  PROVE  BooksInv'
<1>1. CASE ~CanFinishApply(h)
  BY <1>1, BooksKept DEF FinishApply, Reject, funds, records
<1>2. CASE CanFinishApply(h)
  <2>1. PICK p, a : p = h.call.args.proposal /\ a = h.current.amounts
    OBVIOUS
  <2>2. /\ p \in Proposals /\ h.current # NoProposal /\ proposals[p] = h.current
        /\ h.current.status = "APPROVED" /\ AmountsFit(a)
        /\ AmountTotal(a) <= Unallocated
        /\ ledger' = ledger \o AllocationEntries(p, a)
        /\ AmountTotal(allocated') = AmountTotal(allocated) + AmountTotal(a)
        /\ UNCHANGED <<totalCapital, confirmed, escrowed>>
    BY <1>2, <2>1, ApplyFacts
  <2>3. PICK q : /\ q # NoProposal /\ q.status = "APPLIED" /\ q.amounts = a
                 /\ q.appliedAt < q.approval.expiresAt
                 /\ q.approval.intent = Intent(p, q.amounts, q.tranche)
                 /\ \A r \in Proposals : proposals'[r] = IF r = p THEN q ELSE proposals[r]
    BY <1>2, <2>1, ApplyFacts
  <2>4. PICK u : u = AllocationEntries(p, a)
    OBVIOUS
  <2>5. LedgerInv(ledger) /\ BookedFor(ledger, p) = {}
    BY <2>2 DEF BooksInv, BookedRight
  <2>6. LedgerInv(ledger')
    <3>1. \A i \in DOMAIN ledger : ~(ledger[i].kind = "ALLOCATION" /\ ledger[i].ref = p)
      BY <2>5 DEF BookedFor
    <3>2. LedgerInv(ledger \o u)
      BY <2>2, <2>4, <2>5, <3>1, JoinKeeps
    <3>q. QED
      BY <2>2, <2>4, <3>2
  <2>7. Balanced(totalCapital', confirmed', escrowed', allocated', ledger')
    <3>1. AmountTotal(a) <= confirmed - escrowed - AmountTotal(allocated)
      BY <2>2 DEF Unallocated, Allocated
    <3>2. PICK al2 : al2 = allocated'
      OBVIOUS
    <3>3. Balanced(totalCapital, confirmed, escrowed, al2, ledger \o u)
      BY <2>2, <2>4, <3>1, <3>2, BooksFacts, BalancedJoin
    <3>q. QED
      BY <2>2, <2>4, <3>2, <3>3
  <2>8. PICK lg2 : lg2 = ledger'
    OBVIOUS
  <2>9. /\ \A r, s : r # p /\ BookedRight(ledger, r, s) => BookedRight(lg2, r, s)
        /\ Cardinality(BookedFor(lg2, p)) = Cardinality(DOMAIN a)
        /\ \A i \in BookedFor(lg2, p) : lg2[i].amount = a[lg2[i].reserve]
    <3>1. IsSeq(ledger)
      BY <2>5 DEF LedgerInv
    <3>2. OthersKept(ledger, ledger \o u, p) /\ BookedAs(ledger \o u, p, a)
      BY <2>2, <2>4, <2>5, <3>1, BookedJoin
    <3>3. lg2 = ledger \o u
      BY <2>2, <2>4, <2>8
    <3>q. QED
      BY <3>2, <3>3 DEF OthersKept, BookedAs
  <2>10. q.approval.intent.amounts = a
    BY <2>3 DEF Intent
  <2>11. BookedRight(lg2, p, q)
    BY <2>3, <2>9, <2>10 DEF BookedRight
  <2>12. \A r \in Proposals : BookedRight(ledger', r, proposals'[r])
    BY <2>3, <2>8, <2>9, <2>11 DEF BooksInv
  <2>q. QED
    BY <2>6, <2>7, <2>12, BooksNext
<1>q. QED
  BY <1>1, <1>2

(* The ledger starts with the capital.                                     *)
LEMMA BooksInit == TreasuryInit => BooksInv
<1> SUFFICES ASSUME TreasuryInit PROVE BooksInv
  OBVIOUS
<1> DEFINE e == Entry("CAPITAL", None, None, InitialCapital, None)
<1>1. /\ totalCapital = InitialCapital /\ confirmed = InitialCapital /\ escrowed = 0
      /\ allocated = [r \in Reserves |-> 0]
      /\ proposals = [p \in Proposals |-> NoProposal]
      /\ ledger = <<e>>
  BY DEF TreasuryInit
<1>2. e.kind = "CAPITAL" /\ e.amount = InitialCapital /\ InitialCapital \in Nat
  BY TreasuryAssumption DEF Entry
<1> HIDE DEF e
<1>3. PICK lg : lg = <<>>
  OBVIOUS
<1>4. /\ DOMAIN lg = {} /\ ledger = Append(lg, e) /\ IsSeq(lg) /\ LedgerInv(lg)
  <2>1. DOMAIN lg = {} /\ ledger = Append(lg, e)
    BY <1>1, <1>3
  <2>2. IsSeq(lg)
    BY <1>3 DEF IsSeq
  <2>q. QED
    BY <2>1, <2>2 DEF LedgerInv, EntriesTyped, IdsDistinct, ReversalsFit, ReversalsAim
<1>5. LedgerInv(ledger)
  BY <1>2, <1>4, AppendKeeps
<1>6. \A kinds : LedgerSum(ledger, kinds) = IF e.kind \in kinds THEN InitialCapital ELSE 0
  <2>1. \A kinds : LedgerSum(lg, kinds) = 0
    <3>1. ASSUME NEW kinds PROVE LedgerSum(lg, kinds) = 0
      <4>1. KindsIn(lg, kinds) = {} /\ LedgerSum(lg, kinds) = EntrySum(lg, KindsIn(lg, kinds))
        BY <1>4, SumsAre DEF KindsIn
      <4>2. EntrySum(lg, {}) = Total(AmountsOf(lg), {})
        <5>1. {} \in SUBSET DOMAIN lg /\ IsFiniteSet({})
          BY FS_EmptySet
        <5>q. QED
          BY <5>1, EntrySumIs
      <4>q. QED
        BY <4>1, <4>2, TotalEmpty
    <3>q. QED
      BY <3>1
  <2>2. \A kinds : LedgerSum(ledger, kinds)
                     = LedgerSum(lg, kinds) + (IF e.kind \in kinds THEN e.amount ELSE 0)
    <3>1. IsSeq(lg) /\ EntriesTyped(lg) /\ e.amount \in Nat
      BY <1>2, <1>4 DEF LedgerInv
    <3>2. ASSUME NEW kinds
          PROVE  LedgerSum(Append(lg, e), kinds)
                   = LedgerSum(lg, kinds) + (IF e.kind \in kinds THEN e.amount ELSE 0)
      BY <3>1, SumsAppend
    <3>q. QED
      BY <1>4, <3>2
  <2>q. QED
    BY <1>2, <2>1, <2>2
<1>7. AmountTotal(allocated) = 0
  <2>1. DOMAIN allocated = Reserves /\ IsFiniteSet(Reserves)
        /\ \A r \in Reserves : allocated[r] = 0
    BY <1>1, TreasuryAssumption
  <2>q. QED
    BY <2>1, AmountTotalIs, TotalZero
<1>8. LedgerBalances
  <2>1. /\ LedgerSum(ledger, {"CAPITAL", "SETTLEMENT"}) = InitialCapital
        /\ LedgerSum(ledger, {"COMMITMENT"}) = 0 /\ LedgerSum(ledger, {"REVERSAL"}) = 0
        /\ LedgerSum(ledger, {"ALLOCATION"}) = 0
    BY <1>2, <1>6
  <2>q. QED
    BY <1>1, <1>2, <1>7, <2>1 DEF LedgerBalances, IsConsistent, Allocated
<1>9. \A p \in Proposals : BookedRight(ledger, p, proposals[p])
  <2>1. \A i \in DOMAIN ledger : ledger[i] = e
    BY <1>1
  <2>2. \A p \in Proposals : BookedFor(ledger, p) = {}
    BY <1>2, <2>1 DEF BookedFor
  <2>q. QED
    BY <1>1, <2>2 DEF BookedRight
<1>q. QED
  BY <1>5, <1>8, <1>9 DEF BooksInv

(* Every step keeps the books.                                             *)
LEMMA BooksStep == TInv /\ TypeInv /\ BooksInv /\ [TreasuryNext]_vars => BooksInv'
<1> SUFFICES ASSUME TInv, TypeInv, BooksInv, [TreasuryNext]_vars PROVE BooksInv'
  OBVIOUS
<1>1. CASE UNCHANGED <<funds, proposals>>
  BY <1>1, BooksKept DEF funds
<1>2. ASSUME NEW scope, NEW key, NEW args, Enqueue(scope, key, args)
      PROVE  UNCHANGED <<funds, proposals>>
  BY <1>2 DEF Enqueue, records
<1>3. CASE UNCHANGED vars
  BY <1>1, <1>3 DEF vars, records
<1>4. CASE EscrowNext
  BY <1>1, <1>2, <1>4, RecordEscrowBooks, ReleaseEscrowBooks
     DEF EscrowNext, CallRecordEscrow, CallReleaseEscrow
<1>5. CASE AllocationNext
  <2>1. CASE \E p \in Proposals, e \in EventIds, ins \in InstructionLists,
               t \in Tranches \cup {None} : CreateAllocationProposal(p, ins, t, e)
    BY <2>1, CreateBooks
  <2>2. CASE \E p \in Proposals, e \in EventIds, k \in Keys :
               \/ \E intent \in IntentsFor(p), expiresAt \in Expiries :
                    CallApprove(k, p, intent, expiresAt, e)
               \/ \E now \in Times : CallApply(k, p, e, now)
    BY <1>1, <1>2, <2>2 DEF CallApprove, CallApply
  <2>3. CASE RunApprove \/ RunApply
    BY <1>1, <2>3 DEF RunApprove, RunApply, WaitForHash, Reject, records
  <2>4. CASE \E h \in hashing : FinishApprove(h) \/ FinishApply(h)
    BY <2>4, FinishApproveBooks, FinishApplyBooks
  <2>q. QED
    BY <1>5, <2>1, <2>2, <2>3, <2>4 DEF AllocationNext
<1>6. CASE TrancheNext
  <2>1. CASE RunRecordTranche
    BY <1>1, <2>1 DEF RunRecordTranche, Reject, records
  <2>q. QED
    BY <1>1, <1>2, <1>6, <2>1, ReconcileBooks
       DEF TrancheNext, CallRecordTranche, CallReconcile
<1>q. QED
  BY <1>3, <1>4, <1>5, <1>6 DEF TreasuryNext

(* So they are always right.                                               *)
LEMMA BooksAlways == TreasurySpec => []BooksInv
BY BooksInit, BooksStep, TInvAlways, TypesAlways, PTL DEF TreasurySpec

(* The dashboard agrees with the ledger, and capital that is allocated or  *)
(* in escrow is confirmed, in every state (computeBalances), for every     *)
(* set of reserves, amounts and calls.                                     *)
THEOREM BooksBalance == TreasurySpec => []LedgerBalances
BY BooksAlways, BooksAreRight, PTL

(* No ledger id is used twice, and the reversals of a commitment never     *)
(* add up to more than it (releaseEscrow), however calls interleave.       *)
THEOREM EntriesUnique == TreasurySpec => []NoEntryTwice
BY BooksAlways, BooksAreRight, PTL

(* A proposal is in the ledger if and only if it is applied, with exactly  *)
(* the amounts its founder approved and before the approval expired        *)
(* (applyAllocation), although both actions wait for a hash.               *)
THEOREM AppliesWhatWasApproved == TreasurySpec => []AppliedAsApproved
BY BooksAlways, BooksAreRight, PTL
=============================================================================
