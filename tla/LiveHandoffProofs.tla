------------------------- MODULE LiveHandoffProofs -------------------------
(***************************************************************************)
(* Proofs about the live handoff, for any number of requests, restarts and *)
(* faults.  Its requests use the store only through the store's            *)
(* operations, Circle is asked to pay only for spent approvals, and the    *)
(* durable record says nothing of Circle that is not so.  Then what the    *)
(* requests compete for and answer: one of them makes the first            *)
(* submission, what a caller is told to be confirmed is in the durable     *)
(* record, and a retry claim goes with the failure it was taken for.       *)
(***************************************************************************)
EXTENDS LiveHandoff, AuthorizationStoreProofs

(* What a result says of Circle is so.                                     *)
Holds(k, r) ==
  /\ r.op # None => circle[k] # None /\ circle[k].op = r.op
  /\ r.status = "CONFIRMED" => /\ circle[k] # None
                               /\ circle[k].state = "COMPLETE"
                               /\ circle[k].evidence = r.evidence

(* Where a request has an intent, where its approval is known to be        *)
(* stored, and where it has a result.                                      *)
Begun     == Labels \ {"idle", "done"}
Approved  == Begun \ {"persist", "load", "throw"}
Answering == {"history", "finished", "answered", "recordPrepared", "recordSubmitted",
              "poll", "recordPolled", "recordOutcome", "finish", "reconcile",
              "respond", "return"}
Spending  == {"revalidate", "create", "await"}

RequestIs(h, q) ==
  /\ q \in Request
  /\ q.asOf <= clock
  /\ q.pc \in Begun => q.intent # None
  /\ q.pc \in Approved => MatchesIntent(q.intent)
  /\ q.pc \in Answering => q.result # None
  /\ q.pc = "poll" => q.result.status = "SUBMITTED"
  /\ q.pc = "reconcile" => q.result.status = "CONFIRMED"
  /\ q.result # None => q.intent # None /\ Holds(q.intent.key, q.result)
  /\ q.consumed \/ q.pc \in Spending => q.intent # None /\ SpentKey(q.intent.key)
  /\ q.pc = "await" => creates[h] # None /\ creates[h].key = q.intent.key

RequestOK(h) == RequestIs(h, handler[h])

HistoriesHold ==
  \A k \in Keys : \A n \in 1 .. Len(resultHistory[k]) : Holds(k, resultHistory[k][n])

CircleOK ==
  /\ \A k \in Keys : circle[k] # None =>
       /\ SpentKey(k)
       /\ circle[k].state = "COMPLETE" => circle[k].evidence \in Evidence
  /\ \A h \in Handlers : creates[h] # None =>
       /\ SpentKey(creates[h].key)
       /\ creates[h].accepted => circle[creates[h].key] # None

OuterTypeOK ==
  /\ runs \in [Keys -> StoredRun \cup {None}]
  /\ creates \in [Handlers -> CreateCall \cup {None}]
  /\ circle \in [Keys -> Operation \cup {None}]
  /\ restarts \in 0 .. MaxRestarts
  /\ faults \in 0 .. MaxFaults

(* The inductive invariant: the store's own, the types, and for every      *)
(* request what the code before its label has established.                 *)
LiveInv ==
  /\ StoreInv
  /\ OuterTypeOK
  /\ handler \in [Handlers -> Request]
  /\ \A h \in Handlers : RequestOK(h)
  /\ HistoriesHold
  /\ CircleOK

-----------------------------------------------------------------------------
(* What a step of the store and of Circle leaves true.                     *)

(* Circle never forgets an operation and never changes one that settled.   *)
CircleGrows ==
  \A k \in Keys : circle[k] # None =>
    /\ circle'[k] # None
    /\ circle'[k].op = circle[k].op
    /\ circle[k].state = "COMPLETE" =>
         circle'[k].state = "COMPLETE" /\ circle'[k].evidence = circle[k].evidence

(* Approvals stay stored, for the key they were stored for, and spent ones *)
(* stay spent.                                                             *)
LEMMA ApprovalsPersist ==
  ASSUME StoreInv, [StoreNext]_storeVars
  PROVE  /\ \A b \in Bindings, k \in Keys :
              /\ AuthorizedBy(b, k) => AuthorizedBy(b, k)'
              /\ AuthorizedBy(b, k) /\ authorizations[b].status = "CONSUMED"
                   => authorizations'[b].status = "CONSUMED"
         /\ \A k \in Keys : SpentKey(k) => SpentKey(k)'
         /\ clock <= clock'
  <1>1. StoreInv' /\ AppendsOnly
    BY StoreStep
  <1>2. ASSUME NEW b \in Bindings, NEW k \in Keys, AuthorizedBy(b, k)
        PROVE  /\ AuthorizedBy(b, k)'
               /\ authorizations[b].status = "CONSUMED"
                    => authorizations'[b].status = "CONSUMED"
    <2>1. authorizations[b] # None /\ authorizations[b] \in Authorization
      BY <1>2 DEF AuthorizedBy, StoreInv, StoreTypeOK
    <2>2. authorizations'[b] = authorizations[b] \/
          authorizations'[b] = [authorizations[b] EXCEPT !.status = "CONSUMED"]
      BY <1>1, <2>1 DEF AppendsOnly
    <2>3. authorizations'[b] \in Authorization
      BY <2>1, <2>2 DEF Authorization
    <2>4. authorizations'[b] # None
      BY <2>3, AbsenceAssumption
    <2>5. /\ authorizations'[b].key = authorizations[b].key
          /\ authorizations[b].status = "CONSUMED" => authorizations'[b].status = "CONSUMED"
      BY <2>1, <2>2 DEF Authorization
    <2>6. QED
      BY <1>2, <2>4, <2>5 DEF AuthorizedBy
  <1>3. clock <= clock'
    <2>1. clock \in Nat
      BY NatAssumption DEF StoreInv, StoreTypeOK, Times
    <2>2. clock' = clock \/ clock' = clock + 1
      BY DEF StoreNext, Persist, Consume, RecordResult, ClaimRetry, CompleteClaim,
             RecordReconciliation, RecordHandoff, Tick, storeVars
    <2>3. QED
      BY <2>1, <2>2
  <1>4. \A k \in Keys : SpentKey(k) => SpentKey(k)'
    BY <1>2 DEF SpentKey
  <1>5. QED
    BY <1>2, <1>3, <1>4

(* A request that does not move keeps all it has established.              *)
LEMMA OthersKeep ==
  ASSUME LiveInv, [StoreNext]_storeVars, CircleGrows,
         NEW h \in Handlers,
         handler'[h] = handler[h], creates'[h] = creates[h]
  PROVE  RequestOK(h)'
  <1>1. /\ \A b \in Bindings, k \in Keys : AuthorizedBy(b, k) => AuthorizedBy(b, k)'
        /\ \A k \in Keys : SpentKey(k) => SpentKey(k)'
        /\ clock <= clock'
    BY ApprovalsPersist DEF LiveInv
  <1>2. RequestOK(h)
    BY DEF LiveInv
  <1>3. handler[h].intent # None =>
          /\ handler[h].intent \in Intents
          /\ handler[h].intent.key \in Keys
          /\ handler[h].intent.binding \in Bindings
    BY <1>2 DEF RequestOK, RequestIs, Request, Intents
  <1>4. handler[h].pc \in Begun => handler[h].intent # None
    BY <1>2 DEF RequestOK, RequestIs
  <1>5. handler[h].pc \in Approved => MatchesIntent(handler[h].intent)'
    <2>1. handler[h].pc \in Approved => handler[h].pc \in Begun
      BY DEF Approved
    <2>2. QED
      BY <1>1, <1>2, <1>3, <1>4, <2>1 DEF RequestOK, RequestIs, MatchesIntent, AuthorizedBy
  <1>6. handler[h].result # None =>
          handler[h].intent # None /\ Holds(handler[h].intent.key, handler[h].result)'
    BY <1>2, <1>3 DEF RequestOK, RequestIs, Holds, CircleGrows
  <1>7. handler[h].asOf <= clock'
    <2>1. handler[h].asOf \in Nat /\ clock \in Nat /\ clock' \in Nat
      <3>1. StoreInv'
        BY StoreStep DEF LiveInv
      <3>2. QED
        BY <1>2, <3>1, NatAssumption
        DEF RequestOK, RequestIs, Request, Times, LiveInv, StoreInv, StoreTypeOK
    <2>2. QED
      BY <1>1, <1>2, <2>1 DEF RequestOK, RequestIs
  <1>8. QED
    BY <1>1, <1>2, <1>3, <1>5, <1>6, <1>7 DEF RequestOK, RequestIs

-----------------------------------------------------------------------------
(* Steps of one request that only read.                                    *)

Replaces(h, q) == handler' = [handler EXCEPT ![h] = q]

(* A request that only reads keeps the invariant when what it becomes is   *)
(* consistent with what it has read.                                       *)
LEMMA ReadStep ==
  ASSUME LiveInv, NEW h \in Handlers, NEW STATE q,
         Reads, Replaces(h, q), RequestIs(h, q)
  PROVE  LiveInv' /\ [StoreNext]_storeVars
  <1>1. UNCHANGED <<storeVars, runs, creates, circle, restarts, faults>>
    BY DEF Reads, outerVars
  <1>2. /\ handler' \in [Handlers -> Request]
        /\ handler'[h] = q
        /\ \A g \in Handlers \ {h} : handler'[g] = handler[g]
    BY DEF LiveInv, RequestIs, Replaces
  <1>3. StoreInv'
    BY <1>1, StoreStep DEF LiveInv
  <1>4. OuterTypeOK' /\ HistoriesHold' /\ CircleOK'
    <2>1. UNCHANGED <<authorizations, resultHistory>>
      BY <1>1 DEF storeVars, recordVars
    <2>2. OuterTypeOK'
      BY <1>1 DEF LiveInv, OuterTypeOK
    <2>3. HistoriesHold'
      BY <1>1, <2>1 DEF LiveInv, HistoriesHold, Holds
    <2>4. CircleOK'
      BY <1>1, <2>1 DEF LiveInv, CircleOK, SpentKey, AuthorizedBy
    <2>5. QED
      BY <2>2, <2>3, <2>4
  <1>5. RequestOK(h)'
    <2>1. UNCHANGED <<authorizations, clock, creates, circle>>
      BY <1>1 DEF storeVars, recordVars
    <2>2. QED
      BY <1>2, <2>1
      DEF RequestOK, RequestIs, MatchesIntent, SpentKey, AuthorizedBy, Holds
  <1>6. \A g \in Handlers \ {h} : RequestOK(g)'
    <2>1. CircleGrows
      BY <1>1 DEF CircleGrows
    <2>2. QED
      BY <1>1, <1>2, <2>1, OthersKeep
  <1>7. QED
    BY <1>1, <1>2, <1>3, <1>4, <1>5, <1>6 DEF LiveInv

(* What is known of a request under way.                                   *)
LEMMA RequestFacts ==
  ASSUME LiveInv, NEW h \in Handlers, handler[h].pc \in Begun
  PROVE  /\ RequestIs(h, handler[h])
         /\ handler[h] \in Request
         /\ Intent(h) \in Intents
         /\ Key(h) \in Keys
         /\ Intent(h).key = Key(h)
         /\ Intent(h).binding \in Bindings
         /\ handler[h].result # None => handler[h].result \in TransferResult
         /\ resultHistory[Key(h)] \in Seq(TransferResult)
         /\ circle[Key(h)] # None => circle[Key(h)] \in Operation
  BY DEF LiveInv, RequestOK, RequestIs, Request, Intent, Key, Intents, StoreInv,
         StoreTypeOK, OuterTypeOK

(* A read after which the request only moves on.                           *)
LEMMA GoStep ==
  ASSUME LiveInv, NEW h \in Handlers, handler[h].pc \in Begun,
         NEW pc \in Labels, Reads, Go(h, pc),
         pc \in Approved => MatchesIntent(Intent(h)),
         pc \in Answering => handler[h].result # None,
         pc \notin {"poll", "reconcile", "await"},
         pc \in Spending => SpentKey(Key(h))
  PROVE  LiveInv' /\ [StoreNext]_storeVars
  <1> DEFINE q == [handler[h] EXCEPT !.pc = pc]
  <1>1. Replaces(h, q)
    BY DEF Replaces, Go
  <1>2. RequestIs(h, handler[h])
    BY RequestFacts
  <1>3. /\ q \in Request
        /\ q.pc = pc
        /\ q.intent = handler[h].intent
        /\ q.result = handler[h].result
        /\ q.consumed = handler[h].consumed
        /\ q.asOf = handler[h].asOf
    BY <1>2 DEF RequestIs, Request
  <1> HIDE DEF q
  <1>4. RequestIs(h, q)
    BY <1>2, <1>3 DEF RequestIs, Intent, Key
  <1>5. QED
    BY <1>1, <1>4, ReadStep

(* A read after which the request holds a result.                          *)
LEMMA GoWithStep ==
  ASSUME LiveInv, NEW h \in Handlers, handler[h].pc \in Begun,
         NEW pc \in Begun, NEW r \in TransferResult,
         Reads, GoWith(h, pc, r),
         pc \in Approved => MatchesIntent(Intent(h)),
         Holds(Key(h), r),
         pc = "poll" => r.status = "SUBMITTED",
         pc # "reconcile", pc \notin Spending
  PROVE  LiveInv' /\ [StoreNext]_storeVars
  <1> DEFINE q == [handler[h] EXCEPT !.pc = pc, !.result = r]
  <1>1. Replaces(h, q)
    BY DEF Replaces, GoWith, LiveInv
  <1>2. RequestIs(h, handler[h])
    BY RequestFacts
  <1>3. /\ q \in Request
        /\ q.pc = pc
        /\ q.intent = handler[h].intent
        /\ q.result = r
        /\ q.consumed = handler[h].consumed
        /\ q.asOf = handler[h].asOf
    BY <1>2 DEF RequestIs, Request, Begun
  <1>4. r # None
    BY LiveAbsenceAssumption
  <1> HIDE DEF q
  <1>5. RequestIs(h, q)
    BY <1>2, <1>3, <1>4 DEF RequestIs, Intent, Key, Spending
  <1>6. QED
    BY <1>1, <1>5, ReadStep

(* The results a request makes up say nothing of Circle, or what it said.  *)
LEMMA MadeResults ==
  ASSUME NEW k \in Keys, OuterTypeOK
  PROVE  /\ Failed(None) \in TransferResult /\ Holds(k, Failed(None))
         /\ Prepared \in TransferResult /\ Holds(k, Prepared)
         /\ \A op \in Ops : circle[k] # None /\ circle[k].op = op =>
              /\ Submitted(op) \in TransferResult /\ Holds(k, Submitted(op))
              /\ Failed(op) \in TransferResult /\ Holds(k, Failed(op))
  BY NoneAssumption
  DEF TransferResult, Holds, Failed, Submitted, Prepared

(* A stored result is true and well typed.                                 *)
LEMMA LastResult ==
  ASSUME LiveInv, NEW k \in Keys, resultHistory[k] # <<>>
  PROVE  /\ Last(resultHistory[k]) \in TransferResult
         /\ Holds(k, Last(resultHistory[k]))
  <1>1. resultHistory[k] \in Seq(TransferResult)
    BY DEF LiveInv, StoreInv, StoreTypeOK
  <1>2. /\ Len(resultHistory[k]) \in 1 .. Len(resultHistory[k])
        /\ Last(resultHistory[k]) = resultHistory[k][Len(resultHistory[k])]
        /\ Last(resultHistory[k]) \in TransferResult
    BY <1>1, LastInSeq
  <1>3. QED
    BY <1>2 DEF LiveInv, HistoriesHold

LEMMA BeforeTheTry ==
  ASSUME LiveInv, NEW h \in Handlers,
         \/ LoadApproval(h) \/ LoadResult(h) \/ LoadHistory(h)
         \/ LoadReconciliation(h) \/ CheckAnswered(h)
  PROVE  LiveInv' /\ [StoreNext]_storeVars
  <1> USE DEF Begun, Labels, Approved, Answering, Spending
  <1>1. CASE LoadApproval(h)
    <2>1. handler[h].pc \in Begun /\ Reads
      BY <1>1 DEF LoadApproval, At
    <2>2. CASE MatchesIntent(Intent(h)) /\
               Becomes(h, [handler[h] EXCEPT !.pc = "result",
                                             !.consumed = Consumed(Intent(h))])
      <3> DEFINE q == [handler[h] EXCEPT !.pc = "result",
                                         !.consumed = Consumed(Intent(h))]
      <3>1. RequestIs(h, handler[h]) /\ Intent(h) \in Intents
        BY <2>1, RequestFacts
      <3>2. Consumed(Intent(h)) => SpentKey(Intent(h).key)
        BY <2>2, <3>1 DEF Consumed, MatchesIntent, SpentKey, AuthorizedBy, Intents
      <3>3. /\ q \in Request
            /\ q.pc = "result"
            /\ q.consumed = Consumed(Intent(h))
            /\ q.intent = handler[h].intent
            /\ q.result = handler[h].result
            /\ q.asOf = handler[h].asOf
        BY <3>1 DEF RequestIs, Request, Consumed
      <3>4. Replaces(h, q)
        BY <2>2 DEF Replaces, Becomes
      <3> HIDE DEF q
      <3>5. RequestIs(h, q)
        BY <2>1, <2>2, <3>1, <3>2, <3>3 DEF RequestIs, Intent
      <3>6. QED
        BY <2>1, <3>4, <3>5, ReadStep
    <2>3. CASE Go(h, "throw")
      BY <2>1, <2>3, GoStep
    <2>4. QED
      BY <1>1, <2>2, <2>3 DEF LoadApproval
  <1>2. CASE LoadResult(h)
    <2>1. /\ handler[h].pc \in Begun
          /\ Reads
          /\ MatchesIntent(Intent(h))
          /\ Key(h) \in Keys
      BY <1>2, RequestFacts DEF LoadResult, At, RequestIs, Intent
    <2>2. CASE Go(h, "submit")
      BY <2>1, <2>2, GoStep
    <2>3. CASE /\ resultHistory[Key(h)] # <<>>
               /\ \/ Last(resultHistory[Key(h)]).status = "SUBMITTED"
                     /\ GoWith(h, "poll", Last(resultHistory[Key(h)]))
                  \/ \E pc \in {"finished", "history"} :
                       GoWith(h, pc, Last(resultHistory[Key(h)]))
      BY <2>1, <2>3, LastResult, GoWithStep
    <2>4. QED
      BY <1>2, <2>2, <2>3 DEF LoadResult
  <1>3. CASE LoadHistory(h)
    <2>1. /\ handler[h].pc \in Begun
          /\ Reads
          /\ MatchesIntent(Intent(h))
          /\ handler[h].result # None
          /\ Go(h, "claim") \/ Go(h, "finished")
      BY <1>3, RequestFacts DEF LoadHistory, At, RequestIs, Intent
    <2>2. QED
      BY <2>1, GoStep
  <1>4. CASE LoadReconciliation(h)
    <2> DEFINE q == [handler[h] EXCEPT !.pc = "answered",
                                       !.reconciled = ReconciledAs(Key(h)) # {}]
    <2>1. RequestIs(h, handler[h])
      BY <1>4, RequestFacts DEF LoadReconciliation, At
    <2>2. Reads /\ Replaces(h, q) /\ handler[h].pc = "finished"
      BY <1>4 DEF LoadReconciliation, Becomes, Replaces, At
    <2>3. /\ q \in Request
          /\ q.pc = "answered"
          /\ q.consumed = handler[h].consumed
          /\ q.intent = handler[h].intent
          /\ q.result = handler[h].result
          /\ q.asOf = handler[h].asOf
      BY <2>1 DEF RequestIs, Request
    <2> HIDE DEF q
    <2>4. RequestIs(h, q)
      BY <2>1, <2>2, <2>3 DEF RequestIs
    <2>5. QED
      BY <2>2, <2>4, ReadStep
  <1>5. CASE CheckAnswered(h)
    <2>1. /\ handler[h].pc \in Begun
          /\ Reads
          /\ MatchesIntent(Intent(h))
          /\ handler[h].result # None
          /\ Go(h, "throw") \/ Go(h, "finish")
      BY <1>5, RequestFacts DEF CheckAnswered, At, RequestIs, Intent
    <2>2. QED
      BY <2>1, GoStep
  <1>6. QED
    BY <1>1, <1>2, <1>3, <1>4, <1>5

(* Preparing, and the reads of submitTransfer.                             *)
LEMMA Submitting ==
  ASSUME LiveInv, NEW h \in Handlers,
         \/ Prepare(h) \/ Submit(h) \/ ListTransactions(h) \/ CheckBalance(h)
         \/ Reload(h) \/ Revalidate(h) \/ AwaitCreate(h)
  PROVE  LiveInv' /\ [StoreNext]_storeVars
  <1> USE DEF Begun, Labels, Approved, Answering, Spending
  <1>1. /\ handler[h].pc \in Approved
        /\ Reads
    BY DEF Prepare, Submit, ListTransactions, CheckBalance, Reload, Revalidate,
           AwaitCreate, At
  <1>2. /\ handler[h].pc \in Begun
        /\ MatchesIntent(Intent(h))
        /\ Key(h) \in Keys
        /\ Intent(h) \in Intents
        /\ Intent(h).key = Key(h)
        /\ Intent(h).binding \in Bindings
        /\ RequestIs(h, handler[h])
        /\ OuterTypeOK
    BY <1>1, RequestFacts DEF RequestIs, Intent, LiveInv
  <1>3. Consumed(Intent(h)) => SpentKey(Key(h))
    BY <1>2 DEF Consumed, MatchesIntent, SpentKey, AuthorizedBy
  <1>4. ASSUME GoWith(h, "recordSubmitted", Failed(None)) \/
               GoWith(h, "recordPrepared", Failed(None)) \/
               GoWith(h, "recordPrepared", Prepared)
        PROVE  LiveInv' /\ [StoreNext]_storeVars
    BY <1>1, <1>2, <1>4, MadeResults, GoWithStep
  <1>5. ASSUME NEW op \in Ops, circle[Key(h)] # None, circle[Key(h)].op = op,
               GoWith(h, "recordSubmitted", Submitted(op))
        PROVE  LiveInv' /\ [StoreNext]_storeVars
    BY <1>1, <1>2, <1>5, MadeResults, GoWithStep
  <1>6. circle[Key(h)] # None => circle[Key(h)].op \in Ops
    BY <1>2 DEF OuterTypeOK, Operation
  <1>7. CASE Prepare(h)
    BY <1>4, <1>7 DEF Prepare
  <1>8. ASSUME NEW pc \in {"list", "balance"}, NEW c \in BOOLEAN,
               c => SpentKey(Key(h)),
               Becomes(h, [handler[h] EXCEPT !.pc = pc, !.consumed = c])
        PROVE  LiveInv' /\ [StoreNext]_storeVars
    <2> DEFINE q == [handler[h] EXCEPT !.pc = pc, !.consumed = c]
    <2>1. Replaces(h, q)
      BY <1>8 DEF Becomes, Replaces
    <2>2. /\ q \in Request
          /\ q.pc = pc
          /\ q.consumed = c
          /\ q.intent = handler[h].intent
          /\ q.result = handler[h].result
          /\ q.asOf = handler[h].asOf
      BY <1>2 DEF RequestIs, Request
    <2> HIDE DEF q
    <2>3. RequestIs(h, q)
      BY <1>1, <1>2, <1>8, <2>2 DEF RequestIs, Intent, Key
    <2>4. QED
      BY <1>1, <2>1, <2>3, ReadStep
  <1>9. CASE Submit(h)
    BY <1>3, <1>4, <1>8, <1>9 DEF Submit
  <1>10. CASE ListTransactions(h)
    <2>1. CASE Go(h, "balance")
      BY <1>1, <1>2, <2>1, GoStep
    <2>2. QED
      BY <1>4, <1>5, <1>6, <1>10, <2>1 DEF ListTransactions
  <1>11. CASE CheckBalance(h)
    <2>1. CASE Go(h, "create") /\ handler[h].consumed
      <3>1. SpentKey(Key(h))
        BY <1>2, <2>1 DEF RequestIs, Key
      <3>2. QED
        BY <1>1, <1>2, <2>1, <3>1, GoStep
    <2>2. CASE Go(h, "reload")
      BY <1>1, <1>2, <2>2, GoStep
    <2>3. QED
      BY <1>4, <1>11, <2>1, <2>2 DEF CheckBalance
  <1>12. CASE Reload(h)
    <2>1. CASE Becomes(h, [handler[h] EXCEPT !.pc = "consume", !.asOf = clock])
      <3> DEFINE q == [handler[h] EXCEPT !.pc = "consume", !.asOf = clock]
      <3>1. Replaces(h, q)
        BY <2>1 DEF Becomes, Replaces
      <3>2. clock \in Times /\ clock <= clock
        BY NatAssumption DEF LiveInv, StoreInv, StoreTypeOK, Times
      <3>3. /\ q \in Request
            /\ q.pc = "consume"
            /\ q.consumed = handler[h].consumed
            /\ q.intent = handler[h].intent
            /\ q.result = handler[h].result
            /\ q.asOf = clock
        BY <1>2, <3>2 DEF RequestIs, Request
      <3> HIDE DEF q
      <3>4. RequestIs(h, q)
        BY <1>1, <1>2, <3>2, <3>3 DEF RequestIs, Intent
      <3>5. QED
        BY <1>1, <3>1, <3>4, ReadStep
    <2>2. QED
      BY <1>4, <1>12, <2>1 DEF Reload
  <1>13. CASE Revalidate(h)
    <2>1. SpentKey(Key(h))
      BY <1>2, <1>13 DEF RequestIs, Revalidate, At, Key
    <2>2. CASE Go(h, "create")
      BY <1>1, <1>2, <2>1, <2>2, GoStep
    <2>3. QED
      BY <1>4, <1>13, <2>2 DEF Revalidate
  <1>14. CASE AwaitCreate(h)
    <2>1. /\ creates[h] # None
          /\ creates[h].accepted
          /\ creates[h].key = Key(h)
      BY <1>2, <1>14 DEF AwaitCreate, At, RequestIs, Key
    <2>2. circle[Key(h)] # None
      BY <2>1 DEF LiveInv, CircleOK
    <2>3. QED
      BY <1>5, <1>6, <1>14, <2>2 DEF AwaitCreate
  <1>15. QED
    BY <1>7, <1>9, <1>10, <1>11, <1>12, <1>13, <1>14

(* The poll, the decision of the catch block, and of finish.               *)
LEMMA Concluding ==
  ASSUME LiveInv, NEW h \in Handlers, Poll(h) \/ Catch(h) \/ Finish(h)
  PROVE  LiveInv' /\ [StoreNext]_storeVars
  <1> USE DEF Begun, Labels, Approved, Answering, Spending
  <1>1. handler[h].pc \in Approved /\ Reads
    BY DEF Poll, Catch, Finish, At
  <1>2. /\ handler[h].pc \in Begun
        /\ MatchesIntent(Intent(h))
        /\ Key(h) \in Keys
        /\ RequestIs(h, handler[h])
        /\ OuterTypeOK
        /\ handler[h].result # None => handler[h].result \in TransferResult
    BY <1>1, RequestFacts DEF RequestIs, Intent, LiveInv
  <1>3. ASSUME handler[h].result # None
        PROVE  /\ handler[h].result.op \in Ops \cup {None}
               /\ handler[h].result.op # None =>
                    circle[Key(h)] # None /\ circle[Key(h)].op = handler[h].result.op
    BY <1>2, <1>3 DEF RequestIs, Holds, TransferResult, Key
  <1>4. CASE Poll(h)
    <2>1. /\ handler[h].result # None
          /\ handler[h].result.status = "SUBMITTED"
      BY <1>2, <1>4 DEF Poll, At, RequestIs
    <2>2. handler[h].result.op \in Ops
      BY <1>2, <2>1 DEF TransferResult
    <2>3. handler[h].result.op # None
      BY <2>2, NoneAssumption
    <2>4. /\ Submitted(handler[h].result.op) \in TransferResult
          /\ Holds(Key(h), Submitted(handler[h].result.op))
      BY <1>2, <1>3, <2>1, <2>2, <2>3, MadeResults
    <2>5. CASE GoWith(h, "recordPolled", Submitted(handler[h].result.op))
      BY <1>1, <1>2, <2>4, <2>5, GoWithStep
    <2>6. CASE /\ circle[Key(h)] # None
               /\ circle[Key(h)].state = "COMPLETE"
               /\ GoWith(h, "recordPolled",
                         [status |-> "CONFIRMED", op |-> circle[Key(h)].op,
                          evidence |-> circle[Key(h)].evidence])
      <3> DEFINE r == [status |-> "CONFIRMED", op |-> circle[Key(h)].op,
                       evidence |-> circle[Key(h)].evidence]
      <3>1. circle[Key(h)].op \in Ops /\ circle[Key(h)].evidence \in Evidence
        BY <1>2, <2>6 DEF OuterTypeOK, Operation, LiveInv, CircleOK
      <3>2. r \in TransferResult
        BY <3>1 DEF TransferResult
      <3>3. Holds(Key(h), r)
        BY <2>6 DEF Holds
      <3> HIDE DEF r
      <3>4. GoWith(h, "recordPolled", r)
        BY <2>6 DEF r
      <3>5. QED
        BY <1>1, <1>2, <3>2, <3>3, <3>4, GoWithStep
    <2>7. CASE /\ circle[Key(h)] # None
               /\ GoWith(h, "recordPolled", Failed(circle[Key(h)].op))
      <3>1. circle[Key(h)].op \in Ops
        BY <1>2, <2>7 DEF OuterTypeOK, Operation
      <3>2. /\ Failed(circle[Key(h)].op) \in TransferResult
            /\ Holds(Key(h), Failed(circle[Key(h)].op))
        BY <1>2, <2>7, <3>1, MadeResults
      <3>3. QED
        BY <1>1, <1>2, <2>7, <3>2, GoWithStep
    <2>8. QED
      BY <1>4, <2>5, <2>6, <2>7 DEF Poll
  <1>5. CASE Catch(h)
    <2>1. CASE Go(h, "throw")
      BY <1>1, <1>2, <2>1, GoStep
    <2>2. CASE GoWith(h, "recordOutcome", Outcome(h))
      <3>1. OpOf(handler[h].result) \in Ops \cup {None}
        BY <1>3 DEF OpOf
      <3>2. OpOf(handler[h].result) # None =>
              /\ circle[Key(h)] # None
              /\ circle[Key(h)].op = OpOf(handler[h].result)
        BY <1>3 DEF OpOf
      <3>3. Outcome(h) \in {Submitted(OpOf(handler[h].result)),
                            Failed(OpOf(handler[h].result)),
                            [status |-> "RECOVERY_PENDING",
                             op |-> OpOf(handler[h].result), evidence |-> None]}
        BY DEF Outcome, OpOf
      <3>4. Outcome(h) = Submitted(OpOf(handler[h].result)) =>
              OpOf(handler[h].result) # None
        BY DEF Outcome, OpOf, Submitted, Failed
      <3>5. Outcome(h) \in TransferResult
        BY <3>1, <3>3, <3>4 DEF TransferResult, Submitted, Failed
      <3>6. Holds(Key(h), Outcome(h))
        BY <3>2, <3>3 DEF Holds, Submitted, Failed
      <3>7. QED
        BY <1>1, <1>2, <2>2, <3>5, <3>6, GoWithStep
    <2>3. QED
      BY <1>5, <2>1, <2>2 DEF Catch
  <1>6. CASE Finish(h)
    <2> DEFINE confirmed == handler[h].result.status = "CONFIRMED"
               pc == IF confirmed /\ ~(ReconciledAs(Key(h)) # {})
                       THEN "reconcile" ELSE "respond"
               q == [handler[h] EXCEPT !.pc = pc, !.reconciled = confirmed]
    <2>1. Replaces(h, q)
      BY <1>6 DEF Finish, Becomes, Replaces
    <2>2. /\ q \in Request
          /\ q.pc \in {"reconcile", "respond"}
          /\ q.pc = "reconcile" => handler[h].result.status = "CONFIRMED"
          /\ q.consumed = handler[h].consumed
          /\ q.intent = handler[h].intent
          /\ q.result = handler[h].result
          /\ q.asOf = handler[h].asOf
      BY <1>2 DEF RequestIs, Request
    <2>3. handler[h].pc = "finish"
      BY <1>6 DEF Finish, At
    <2> HIDE DEF q
    <2>4. RequestIs(h, q)
      BY <1>2, <2>2, <2>3 DEF RequestIs, Intent
    <2>5. QED
      BY <1>1, <2>1, <2>4, ReadStep
  <1>7. QED
    BY <1>4, <1>5, <1>6

LEMMA CircleFaultStep ==
  ASSUME LiveInv, NEW h \in Handlers, CircleFault(h)
  PROVE  LiveInv' /\ [StoreNext]_storeVars
  <1> USE DEF Begun, Labels, Approved, Answering, Spending
  <1>1. /\ handler[h].pc \in Begun
        /\ MatchesIntent(Intent(h))
        /\ Reads
        /\ Go(h, "catch")
    BY RequestFacts DEF CircleFault, RequestIs, Intent
  <1>2. QED
    BY <1>1, GoStep

(* A request just begun.                                                   *)
LEMMA BegunAfresh ==
  ASSUME NEW i \in Intents
  PROVE  LET q == [Fresh EXCEPT !.pc = "persist", !.intent = i] IN
         /\ q \in Request
         /\ q.pc = "persist"
         /\ q.consumed = FALSE
         /\ q.intent = i
         /\ q.result = None
         /\ q.asOf = 0
  <1>1. Fresh \in Request
    BY NatAssumption DEF Fresh, Request, Labels, Times
  <1>2. "persist" \in Labels
    BY DEF Labels
  <1>3. /\ Fresh.consumed = FALSE
        /\ Fresh.result = None
        /\ Fresh.asOf = 0
    BY DEF Fresh
  <1> HIDE DEF Fresh
  <1>4. QED
    BY <1>1, <1>2, <1>3 DEF Request

LEMMA RecoverStep ==
  ASSUME LiveInv, NEW h \in Handlers, NEW i \in Intents, Recover(h, i)
  PROVE  LiveInv' /\ [StoreNext]_storeVars
  <1> DEFINE q == [Fresh EXCEPT !.pc = "persist", !.intent = i]
  <1>1. Reads /\ Replaces(h, q)
    BY DEF Recover, Becomes, Replaces
  <1>2. /\ q \in Request
        /\ q.pc = "persist"
        /\ q.consumed = FALSE
        /\ q.intent = i
        /\ q.result = None
        /\ q.asOf = 0
    BY BegunAfresh
  <1>3. i # None /\ 0 <= clock
    BY LiveAbsenceAssumption, NatAssumption DEF LiveInv, StoreInv, StoreTypeOK, Times
  <1> HIDE DEF q
  <1>4. RequestIs(h, q)
    BY <1>2, <1>3 DEF RequestIs, Approved, Answering, Spending
  <1>5. QED
    BY <1>1, <1>4, ReadStep

-----------------------------------------------------------------------------
(* Steps of one request that are one operation of the store.               *)

LEMMA CircleStays ==
  ASSUME LiveInv, [StoreNext]_storeVars, UNCHANGED <<creates, circle>>
  PROVE  CircleOK' /\ CircleGrows
  <1>1. \A k \in Keys : SpentKey(k) => SpentKey(k)'
    BY ApprovalsPersist DEF LiveInv
  <1>2. \A h \in Handlers : creates[h] # None => creates[h].key \in Keys
    BY DEF LiveInv, OuterTypeOK, CreateCall
  <1>3. QED
    BY <1>1, <1>2 DEF LiveInv, CircleOK, CircleGrows

(* The request keeps its result or drops it, and moves on.                 *)
LEMMA WriteStep ==
  ASSUME LiveInv, NEW h \in Handlers, NEW STATE q, NEW i \in Intents,
         handler[h].pc \in Begun, handler[h].intent = i,
         [StoreNext]_storeVars, OneStoreOperation, HistoriesHold',
         Replaces(h, q), q \in Request,
         q.intent = i, q.consumed = handler[h].consumed,
         q.asOf = handler[h].asOf, q.result \in {None, handler[h].result},
         q.pc \in Begun \ {"reconcile", "await"},
         q.pc \in Approved => handler[h].pc \in Approved \/ MatchesIntent(i)',
         q.pc \in Answering => q.result # None,
         q.pc = "poll" => q.result.status = "SUBMITTED",
         q.pc \in Spending => SpentKey(i.key)'
  PROVE  LiveInv'
  <1>1. UNCHANGED <<runs, creates, circle, restarts, faults>>
    BY DEF OneStoreOperation, outerVars
  <1>2. /\ handler' \in [Handlers -> Request]
        /\ handler'[h] = q
        /\ \A g \in Handlers \ {h} : handler'[g] = handler[g]
    BY DEF LiveInv, Replaces
  <1>3. /\ StoreInv'
        /\ \A b \in Bindings, k \in Keys : AuthorizedBy(b, k) => AuthorizedBy(b, k)'
        /\ \A k \in Keys : SpentKey(k) => SpentKey(k)'
        /\ clock <= clock'
    BY StoreStep, ApprovalsPersist DEF LiveInv
  <1>4. OuterTypeOK' /\ CircleOK' /\ CircleGrows
    BY <1>1, CircleStays DEF LiveInv, OuterTypeOK
  <1>5. RequestIs(h, handler[h]) /\ i # None
    BY RequestFacts, LiveAbsenceAssumption
  <1>6. q.pc \in Approved => MatchesIntent(i)'
    BY <1>3, <1>5 DEF MatchesIntent, AuthorizedBy, RequestIs, Intents
  <1>7. q.result # None => Holds(i.key, q.result)
    BY <1>5 DEF RequestIs
  <1>8. q.consumed => SpentKey(i.key)'
    BY <1>3, <1>5 DEF RequestIs, Intents
  <1>9. q.asOf <= clock'
    <2>1. q.asOf \in Nat /\ clock \in Nat /\ clock' \in Nat
      BY <1>3, NatAssumption DEF Request, Times, LiveInv, StoreInv, StoreTypeOK
    <2>2. QED
      BY <1>3, <1>5, <2>1 DEF RequestIs
  <1>10. RequestIs(h, handler[h])'
    BY <1>1, <1>2, <1>5, <1>6, <1>7, <1>8, <1>9 DEF RequestIs, Holds
  <1>11. \A g \in Handlers : RequestOK(g)'
    <2>1. RequestOK(h)'
      BY <1>10 DEF RequestOK
    <2>2. QED
      BY <1>1, <1>2, <1>4, <2>1, OthersKeep
  <1>12. QED
    BY <1>2, <1>3, <1>4, <1>11 DEF LiveInv

(* The same for a request that only moves on.                              *)
LEMMA WriteGoStep ==
  ASSUME LiveInv, NEW h \in Handlers, NEW pc \in Begun \ {"reconcile", "await"},
         NEW i \in Intents, handler[h].pc \in Begun, handler[h].intent = i,
         [StoreNext]_storeVars, OneStoreOperation, HistoriesHold', Go(h, pc),
         pc \in Approved => handler[h].pc \in Approved \/ MatchesIntent(i)',
         pc \in Answering => handler[h].result # None,
         pc = "poll" => handler[h].result.status = "SUBMITTED",
         pc \in Spending => SpentKey(i.key)'
  PROVE  LiveInv'
  <1> DEFINE q == [handler[h] EXCEPT !.pc = pc]
  <1>1. Replaces(h, q)
    BY DEF Replaces, Go
  <1>2. /\ q \in Request
        /\ q.pc = pc
        /\ q.intent = handler[h].intent
        /\ q.result = handler[h].result
        /\ q.consumed = handler[h].consumed
        /\ q.asOf = handler[h].asOf
    BY DEF LiveInv, Request, Begun
  <1> HIDE DEF q
  <1>3. QED
    BY <1>1, <1>2, WriteStep

LEMMA HistoriesKeep ==
  ASSUME LiveInv, UNCHANGED <<resultHistory, circle>>
  PROVE  HistoriesHold'
  BY DEF LiveInv, HistoriesHold, Holds

LEMMA HistoriesGrow ==
  ASSUME LiveInv, NEW k \in Keys, NEW r \in TransferResult, Holds(k, r),
         resultHistory' = [resultHistory EXCEPT ![k] = Append(@, r)],
         UNCHANGED circle
  PROVE  HistoriesHold'
  <1> DEFINE old == resultHistory[k]
  <1>1. /\ old \in Seq(TransferResult)
        /\ resultHistory'[k] = Append(old, r)
        /\ \A j \in Keys \ {k} : resultHistory'[j] = resultHistory[j]
    BY DEF LiveInv, StoreInv, StoreTypeOK
  <1>2. \A n \in 1 .. Len(old) : Holds(k, old[n])
    BY DEF LiveInv, HistoriesHold
  <1> HIDE DEF old
  <1>3. /\ Len(old) \in Nat
        /\ Len(Append(old, r)) = Len(old) + 1
        /\ \A n \in 1 .. Len(old) : Append(old, r)[n] = old[n]
        /\ Append(old, r)[Len(old) + 1] = r
    BY <1>1, AppendFacts
  <1>4. \A n \in 1 .. Len(resultHistory'[k]) : Holds(k, resultHistory'[k][n])
    BY <1>1, <1>2, <1>3
  <1>5. \A j \in Keys \ {k} : \A n \in 1 .. Len(resultHistory'[j]) :
          Holds(j, resultHistory'[j][n])
    BY <1>1 DEF LiveInv, HistoriesHold
  <1>6. QED
    BY <1>4, <1>5 DEF HistoriesHold, Holds

(* recordResult: the result is true, so the history stays true.            *)
LEMMA RecordStep ==
  ASSUME LiveInv, NEW h \in Handlers, handler[h].pc \in Approved,
         handler[h].result # None,
         NEW next \in {"submit", "finish", "poll"}, NEW onError \in {"catch", "throw"},
         next = "poll" => handler[h].result.status = "SUBMITTED",
         Record(h, next, onError)
  PROVE  LiveInv' /\ [StoreNext]_storeVars
  <1> USE DEF Begun, Labels, Approved, Answering, Spending
  <1>1. PICK i \in Intents : handler[h].intent = i
    BY RequestFacts DEF Intent
  <1>2. /\ handler[h].pc \in Begun
        /\ Key(h) = i.key
        /\ i.key \in Keys
        /\ RequestIs(h, handler[h])
        /\ handler[h].result \in TransferResult
    BY <1>1, RequestFacts DEF Key
  <1>3. OneStoreOperation
    BY DEF Record
  <1>4. MatchesIntent(Intent(h))
    BY <1>2 DEF RequestIs, Intent
  <1>5. CASE RecordResult(Key(h), handler[h].result) /\ Go(h, next)
    <2>1. [StoreNext]_storeVars
      BY <1>2, <1>5 DEF StoreNext
    <2>2. HistoriesHold'
      <3>1. /\ Holds(i.key, handler[h].result)
            /\ UNCHANGED circle
            /\ resultHistory' = [resultHistory EXCEPT ![i.key] = Append(@, handler[h].result)]
        BY <1>1, <1>2, <1>3, <1>5
        DEF RequestIs, OneStoreOperation, outerVars, RecordResult
      <3>2. QED
        BY <1>2, <3>1, HistoriesGrow
    <2>3. LiveInv'
      BY <1>1, <1>2, <1>3, <1>5, <2>1, <2>2, WriteGoStep
    <2>4. QED
      BY <2>1, <2>3
  <1>6. CASE UNCHANGED storeVars /\ (Go(h, next) \/ Go(h, onError))
    <2>1. /\ [StoreNext]_storeVars
          /\ UNCHANGED <<resultHistory, circle>>
      BY <1>3, <1>6 DEF storeVars, recordVars, OneStoreOperation, outerVars
    <2>2. HistoriesHold'
      BY <2>1, HistoriesKeep
    <2>3. LiveInv'
      BY <1>1, <1>2, <1>3, <1>6, <2>1, <2>2, WriteGoStep
    <2>4. QED
      BY <2>1, <2>3
  <1>7. QED
    BY <1>5, <1>6 DEF Record

(* completePreSubmissionRetryClaim of a true result.                       *)
LEMMA CompleteOwnClaimStep ==
  ASSUME LiveInv, NEW h \in Handlers, handler[h].pc \in Approved,
         handler[h].result # None,
         NEW next \in {"submit", "finish"}, NEW onError \in {"catch", "throw"},
         CompleteOwnClaim(h, next, onError)
  PROVE  LiveInv' /\ [StoreNext]_storeVars
  <1> USE DEF Begun, Labels, Approved, Answering, Spending
  <1>1. PICK i \in Intents : handler[h].intent = i
    BY RequestFacts DEF Intent
  <1>2. /\ handler[h].pc \in Begun
        /\ Key(h) = i.key
        /\ i.key \in Keys
        /\ RequestIs(h, handler[h])
        /\ handler[h].result \in TransferResult
    BY <1>1, RequestFacts DEF Key
  <1>3. OneStoreOperation
    BY DEF CompleteOwnClaim
  <1>4. CASE /\ CompleteClaim(Key(h), h, handler[h].result)
             /\ Becomes(h, [handler[h] EXCEPT !.pc = next, !.claimed = FALSE])
    <2> DEFINE q == [handler[h] EXCEPT !.pc = next, !.claimed = FALSE]
    <2>1. [StoreNext]_storeVars
      BY <1>2, <1>4, LiveAssumption DEF StoreNext
    <2>2. HistoriesHold'
      <3>1. /\ Holds(i.key, handler[h].result)
            /\ UNCHANGED circle
            /\ resultHistory' = [resultHistory EXCEPT ![i.key] = Append(@, handler[h].result)]
        BY <1>1, <1>2, <1>3, <1>4
        DEF RequestIs, OneStoreOperation, outerVars, CompleteClaim
      <3>2. QED
        BY <1>2, <3>1, HistoriesGrow
    <2>3. /\ q \in Request
          /\ q.pc = next
          /\ q.intent = i
          /\ q.result = handler[h].result
          /\ q.consumed = handler[h].consumed
          /\ q.asOf = handler[h].asOf
      BY <1>1, <1>2 DEF RequestIs, Request
    <2>4. Replaces(h, q)
      BY <1>4 DEF Becomes, Replaces
    <2> HIDE DEF q
    <2>5. LiveInv'
      BY <1>1, <1>2, <1>3, <2>1, <2>2, <2>3, <2>4, WriteStep
    <2>6. QED
      BY <2>1, <2>5
  <1>5. CASE UNCHANGED storeVars /\ Go(h, onError)
    <2>1. /\ [StoreNext]_storeVars
          /\ UNCHANGED <<resultHistory, circle>>
      BY <1>3, <1>5 DEF storeVars, recordVars, OneStoreOperation, outerVars
    <2>2. HistoriesHold'
      BY <2>1, HistoriesKeep
    <2>3. LiveInv'
      BY <1>1, <1>2, <1>3, <1>5, <2>1, <2>2, WriteGoStep
    <2>4. QED
      BY <2>1, <2>3
  <1>6. QED
    BY <1>4, <1>5 DEF CompleteOwnClaim

LEMMA RecordingSteps ==
  ASSUME LiveInv, NEW h \in Handlers,
         RecordPrepared(h) \/ RecordSubmitted(h) \/ RecordPolled(h) \/ RecordOutcome(h)
  PROVE  LiveInv' /\ [StoreNext]_storeVars
  <1> USE DEF Approved, Begun, Labels, Answering
  <1>1. handler[h].pc \in {"recordPrepared", "recordSubmitted", "recordPolled",
                           "recordOutcome"}
    BY DEF RecordPrepared, RecordSubmitted, RecordPolled, RecordOutcome, At
  <1>2. handler[h].pc \in Approved /\ handler[h].result # None
    BY <1>1, RequestFacts DEF RequestIs
  <1>3. CASE RecordPrepared(h)
    BY <1>2, <1>3, RecordStep, CompleteOwnClaimStep DEF RecordPrepared
  <1>4. CASE RecordSubmitted(h)
    BY <1>2, <1>4, RecordStep DEF RecordSubmitted
  <1>5. CASE RecordPolled(h)
    BY <1>2, <1>5, RecordStep DEF RecordPolled
  <1>6. CASE RecordOutcome(h)
    BY <1>2, <1>6, RecordStep, CompleteOwnClaimStep DEF RecordOutcome
  <1>7. QED
    BY <1>3, <1>4, <1>5, <1>6

(* persist: an approval that was stored stays the request's approval.      *)
LEMMA PersistApprovalStep ==
  ASSUME LiveInv, NEW h \in Handlers, PersistApproval(h)
  PROVE  LiveInv' /\ [StoreNext]_storeVars
  <1> USE DEF Begun, Labels, Approved, Answering, Spending
  <1>1. handler[h].pc \in Begun /\ OneStoreOperation
    BY DEF PersistApproval, At
  <1>2. PICK i \in Intents : handler[h].intent = i
    BY <1>1, RequestFacts DEF Intent
  <1>3. CASE Persist(i, Expiry) /\ Go(h, "prepare")
    <2>1. [StoreNext]_storeVars
      BY <1>3, LiveAssumption DEF StoreNext
    <2>2. MatchesIntent(i)'
      <3>1. /\ i.binding \in Bindings
            /\ authorizations'[i.binding] =
                 [key |-> i.key, status |-> "ACTIVE", expiresAt |-> Expiry]
        BY <1>3 DEF Persist, Intents, LiveInv, StoreInv, StoreTypeOK
      <3>2. StoreTypeOK'
        BY <2>1, StoreStep DEF LiveInv, StoreInv
      <3>3. authorizations'[i.binding] \in Authorization
        BY <3>1, LiveAssumption DEF Authorization, Expiries, Intents
      <3>4. QED
        BY <3>1, <3>3, AbsenceAssumption DEF MatchesIntent
    <2>3. UNCHANGED <<resultHistory, circle>>
      BY <1>1, <1>3 DEF Persist, OneStoreOperation, outerVars
    <2>4. LiveInv'
      BY <1>1, <1>2, <1>3, <2>1, <2>2, <2>3, HistoriesKeep, WriteGoStep
    <2>5. QED
      BY <2>1, <2>4
  <1>4. CASE UNCHANGED storeVars /\ Go(h, "load")
    <2>1. Reads
      BY <1>1, <1>4 DEF OneStoreOperation, Reads
    <2>2. QED
      BY <1>1, <1>4, <2>1, GoStep
  <1>5. QED
    BY <1>2, <1>3, <1>4 DEF PersistApproval, Intent

LEMMA ClaimStep ==
  ASSUME LiveInv, NEW h \in Handlers, Claim(h)
  PROVE  LiveInv' /\ [StoreNext]_storeVars
  <1> USE DEF Begun, Labels, Approved, Answering, Spending
  <1>1. handler[h].pc = "claim" /\ OneStoreOperation
    BY DEF Claim, At
  <1>2. PICK i \in Intents : handler[h].intent = i
    BY <1>1, RequestFacts DEF Intent
  <1>3. CASE /\ ClaimRetry(i, h, clock)
             /\ Becomes(h, [handler[h] EXCEPT !.pc = "prepare", !.result = None,
                                              !.claimed = TRUE])
    <2> DEFINE q == [handler[h] EXCEPT !.pc = "prepare", !.result = None,
                                       !.claimed = TRUE]
    <2>1. [StoreNext]_storeVars
      BY <1>3, LiveAssumption DEF StoreNext
    <2>2. UNCHANGED <<resultHistory, circle>>
      BY <1>1, <1>3 DEF ClaimRetry, OneStoreOperation, outerVars
    <2>3. /\ q \in Request
          /\ q.pc = "prepare"
          /\ q.intent = i
          /\ q.result = None
          /\ q.consumed = handler[h].consumed
          /\ q.asOf = handler[h].asOf
      BY <1>1, <1>2, RequestFacts DEF RequestIs, Request
    <2>4. Replaces(h, q)
      BY <1>3 DEF Becomes, Replaces
    <2> HIDE DEF q
    <2>5. LiveInv'
      BY <1>1, <1>2, <2>1, <2>2, <2>3, <2>4, HistoriesKeep, WriteStep
    <2>6. QED
      BY <2>1, <2>5
  <1>4. CASE UNCHANGED storeVars /\ Go(h, "throw")
    <2>1. Reads
      BY <1>1, <1>4 DEF OneStoreOperation, Reads
    <2>2. QED
      BY <1>1, <1>4, <2>1, GoStep
  <1>5. QED
    BY <1>2, <1>3, <1>4 DEF Claim, Intent

(* consume: the moment the approval is spent.                              *)
LEMMA ConsumeApprovalStep ==
  ASSUME LiveInv, NEW h \in Handlers, ConsumeApproval(h)
  PROVE  LiveInv' /\ [StoreNext]_storeVars
  <1> USE DEF Begun, Labels, Approved, Answering, Spending
  <1>1. handler[h].pc = "consume" /\ OneStoreOperation
    BY DEF ConsumeApproval, At
  <1>2. PICK i \in Intents : handler[h].intent = i
    BY <1>1, RequestFacts DEF Intent
  <1>3. CASE Consume(i, handler[h].asOf) /\ Go(h, "revalidate")
    <2>1. [StoreNext]_storeVars
      <3>1. handler[h].asOf \in 0 .. clock
        <4>1. handler[h].asOf \in Times /\ handler[h].asOf <= clock
          BY <1>1, RequestFacts DEF RequestIs, Request
        <4>2. clock \in Times
          BY DEF LiveInv, StoreInv, StoreTypeOK
        <4>3. QED
          BY <4>1, <4>2, NatAssumption DEF Times
      <3>2. QED
        BY <1>3, <3>1 DEF StoreNext
    <2>2. SpentKey(i.key)'
      <3>1. /\ AuthorizedBy(i.binding, i.key)
            /\ i.binding \in Bindings
            /\ i.key \in Keys
        BY <1>3 DEF Consume, CanConsume, MatchesIntent, AuthorizedBy, Intents
      <3>2. AuthorizedBy(i.binding, i.key)'
        BY <2>1, <3>1, ApprovalsPersist DEF LiveInv
      <3>3. authorizations[i.binding] \in Authorization
        BY <3>1 DEF AuthorizedBy, LiveInv, StoreInv, StoreTypeOK
      <3>4. authorizations'[i.binding].status = "CONSUMED"
        BY <1>3, <3>1, <3>3 DEF Consume, Authorization, LiveInv, StoreInv, StoreTypeOK
      <3>5. QED
        BY <3>1, <3>2, <3>4 DEF SpentKey
    <2>3. UNCHANGED <<resultHistory, circle>>
      BY <1>1, <1>3 DEF Consume, OneStoreOperation, outerVars
    <2>4. LiveInv'
      BY <1>1, <1>2, <1>3, <2>1, <2>2, <2>3, HistoriesKeep, WriteGoStep
    <2>5. QED
      BY <2>1, <2>4
  <1>4. CASE UNCHANGED storeVars /\ GoWith(h, "recordSubmitted", Failed(None))
    <2>1. Reads
      BY <1>1, <1>4 DEF OneStoreOperation, Reads
    <2>2. /\ MatchesIntent(Intent(h))
          /\ Failed(None) \in TransferResult
          /\ Holds(Key(h), Failed(None))
      BY <1>1, RequestFacts, MadeResults DEF RequestIs, Intent, LiveInv
    <2>3. QED
      BY <1>1, <1>4, <2>1, <2>2, GoWithStep
  <1>5. QED
    BY <1>2, <1>3, <1>4 DEF ConsumeApproval, Intent

LEMMA ReconcileStep ==
  ASSUME LiveInv, NEW h \in Handlers, Reconcile(h)
  PROVE  LiveInv' /\ [StoreNext]_storeVars
  <1> USE DEF Begun, Labels, Approved, Answering, Spending
  <1>1. handler[h].pc = "reconcile" /\ OneStoreOperation
    BY DEF Reconcile, At
  <1>2. PICK i \in Intents : handler[h].intent = i
    BY <1>1, RequestFacts DEF Intent
  <1>3. /\ handler[h].result \in TransferResult
        /\ handler[h].result # None
        /\ handler[h].result.status = "CONFIRMED"
        /\ Key(h) \in Keys
        /\ MatchesIntent(Intent(h))
    BY <1>1, RequestFacts DEF RequestIs, Intent
  <1> DEFINE r == [key |-> Key(h), op |-> handler[h].result.op,
                   evidence |-> handler[h].result.evidence]
  <1>4. r \in Reconciliation
    BY <1>3 DEF TransferResult, Reconciliation
  <1> HIDE DEF r
  <1>5. CASE RecordReconciliation(r) /\ Go(h, "respond")
    <2>1. [StoreNext]_storeVars
      BY <1>4, <1>5 DEF StoreNext
    <2>2. UNCHANGED <<resultHistory, circle>>
      BY <1>1, <1>5 DEF RecordReconciliation, OneStoreOperation, outerVars
    <2>3. LiveInv'
      BY <1>1, <1>2, <1>3, <1>5, <2>1, <2>2, HistoriesKeep, WriteGoStep
    <2>4. QED
      BY <2>1, <2>3
  <1>6. CASE UNCHANGED storeVars /\ (Go(h, "respond") \/ Go(h, "throw"))
    <2>1. Reads
      BY <1>1, <1>6 DEF OneStoreOperation, Reads
    <2>2. QED
      BY <1>1, <1>3, <1>6, <2>1, GoStep
  <1>7. QED
    BY <1>5, <1>6 DEF Reconcile, r

LEMMA RespondStep ==
  ASSUME LiveInv, NEW h \in Handlers, Respond(h)
  PROVE  LiveInv' /\ [StoreNext]_storeVars
  <1> USE DEF Begun, Labels, Approved, Answering, Spending
  <1>1. handler[h].pc = "respond" /\ OneStoreOperation
    BY DEF Respond, At
  <1>2. PICK i \in Intents : handler[h].intent = i
    BY <1>1, RequestFacts DEF Intent
  <1>3. /\ handler[h].result \in TransferResult
        /\ handler[h].result # None
        /\ handler[h].reconciled \in BOOLEAN
        /\ Key(h) \in Keys
    BY <1>1, RequestFacts DEF RequestIs, Request
  <1> DEFINE a == [key |-> Key(h), result |-> handler[h].result,
                   reconciled |-> handler[h].reconciled]
  <1>4. a \in HandoffResult
    BY <1>3 DEF HandoffResult
  <1>5. RecordHandoff(a) /\ Go(h, "return")
    BY DEF Respond
  <1> HIDE DEF a
  <1>6. [StoreNext]_storeVars
    BY <1>4, <1>5 DEF StoreNext
  <1>7. UNCHANGED <<resultHistory, circle>>
    BY <1>1, <1>5 DEF RecordHandoff, OneStoreOperation, outerVars
  <1>8. LiveInv'
    BY <1>1, <1>2, <1>3, <1>5, <1>6, <1>7, HistoriesKeep, WriteGoStep
  <1>9. QED
    BY <1>6, <1>8

-----------------------------------------------------------------------------
(* Steps outside the store: the route, Circle, faults and restarts.        *)

LEMMA QuietStep ==
  ASSUME LiveInv, UNCHANGED storeVars, OuterTypeOK', CircleGrows, CircleOK',
         handler' \in [Handlers -> Request],
         \A h \in Handlers : RequestOK(h)'
  PROVE  LiveInv' /\ [StoreNext]_storeVars
  <1>1. StoreInv'
    BY StoreStep DEF LiveInv
  <1>2. HistoriesHold'
    <2>1. UNCHANGED resultHistory
      BY DEF storeVars, recordVars
    <2>2. QED
      BY <2>1 DEF LiveInv, HistoriesHold, Holds, CircleGrows
  <1>3. QED
    BY <1>1, <1>2 DEF LiveInv

(* The same when one request moves and Circle is left alone.               *)
LEMMA QuietRequestStep ==
  ASSUME LiveInv, UNCHANGED <<storeVars, creates, circle>>, OuterTypeOK',
         NEW h \in Handlers, NEW STATE q, Replaces(h, q), RequestIs(h, q)
  PROVE  LiveInv' /\ [StoreNext]_storeVars
  <1>1. CircleOK' /\ CircleGrows
    BY CircleStays
  <1>2. /\ handler' \in [Handlers -> Request]
        /\ handler'[h] = q
        /\ \A g \in Handlers \ {h} : handler'[g] = handler[g]
    BY DEF LiveInv, RequestIs, Replaces
  <1>3. RequestOK(h)'
    <2>1. UNCHANGED <<authorizations, clock, creates, circle>>
      BY DEF storeVars, recordVars
    <2>2. QED
      BY <1>2, <2>1
      DEF RequestOK, RequestIs, MatchesIntent, SpentKey, AuthorizedBy, Holds
  <1>4. \A g \in Handlers \ {h} : RequestOK(g)'
    BY <1>1, <1>2, OthersKeep
  <1>5. QED
    BY <1>1, <1>2, <1>3, <1>4, QuietStep

LEMMA ExecuteStep ==
  ASSUME LiveInv, NEW h \in Handlers, NEW i \in Intents, Execute(h, i)
  PROVE  LiveInv' /\ [StoreNext]_storeVars
  <1> DEFINE q == [Fresh EXCEPT !.pc = "persist", !.intent = i]
  <1>1. UNCHANGED <<storeVars, creates, circle, restarts, faults>> /\ Replaces(h, q)
    BY DEF Execute, Becomes, Replaces
  <1>2. /\ q \in Request
        /\ q.pc = "persist"
        /\ q.consumed = FALSE
        /\ q.intent = i
        /\ q.result = None
        /\ q.asOf = 0
    BY BegunAfresh
  <1>3. i # None /\ 0 <= clock
    BY LiveAbsenceAssumption, NatAssumption DEF LiveInv, StoreInv, StoreTypeOK, Times
  <1> HIDE DEF q
  <1>4. RequestIs(h, q)
    BY <1>2, <1>3 DEF RequestIs, Approved, Answering, Spending
  <1>5. OuterTypeOK'
    <2>1. /\ i.key \in Keys
          /\ i.binding \in Bindings
          /\ runs[i.key] \in StoredRun
      BY DEF Execute, CanReserve, Intents, LiveInv, OuterTypeOK
    <2>2. runs' \in [Keys -> StoredRun \cup {None}]
      BY <2>1 DEF Execute, StoredRun, LiveInv, OuterTypeOK
    <2>3. QED
      BY <1>1, <2>2 DEF LiveInv, OuterTypeOK
  <1>6. QED
    BY <1>1, <1>4, <1>5, QuietRequestStep

(* A request that has ended, or has not begun, claims nothing.             *)
LEMMA IdleIsOK ==
  ASSUME NEW h, clock \in Times
  PROVE  RequestIs(h, Fresh) /\ RequestIs(h, Ended) /\ Fresh \in Request
  <1>1. Fresh \in Request
    BY NatAssumption DEF Fresh, Request, Labels, Times
  <1>2. /\ Fresh.pc = "idle"
        /\ Fresh.consumed = FALSE
        /\ Fresh.result = None
        /\ Fresh.asOf = 0
    BY DEF Fresh
  <1>3. 0 <= clock /\ "done" \in Labels
    BY NatAssumption DEF Times, Labels
  <1> HIDE DEF Fresh
  <1>4. /\ Ended \in Request
        /\ Ended.pc = "done"
        /\ Ended.consumed = FALSE
        /\ Ended.result = None
        /\ Ended.asOf = 0
    BY <1>1, <1>2, <1>3 DEF Ended, Request
  <1>5. RequestIs(h, Fresh)
    BY <1>1, <1>2, <1>3 DEF RequestIs, Begun, Approved, Answering, Spending
  <1>6. RequestIs(h, Ended)
    BY <1>3, <1>4 DEF RequestIs, Begun, Approved, Answering, Spending
  <1>7. QED
    BY <1>1, <1>5, <1>6

LEMMA ReturnStep ==
  ASSUME LiveInv, NEW h \in Handlers, Return(h)
  PROVE  LiveInv' /\ [StoreNext]_storeVars
  <1>1. UNCHANGED <<storeVars, creates, circle, restarts, faults>> /\ Replaces(h, Ended)
    BY DEF Return, Becomes, Replaces
  <1>2. RequestIs(h, Ended)
    BY IdleIsOK DEF LiveInv, StoreInv, StoreTypeOK
  <1>3. OuterTypeOK'
    <2>1. /\ Key(h) \in Keys
          /\ Intent(h).binding \in Bindings
          /\ At(h, "return") => handler[h].result \in TransferResult
      BY RequestFacts DEF Return, At, Begun, Labels, RequestIs, Answering
    <2>2. runs[Key(h)] \in StoredRun \cup {None}
      BY <2>1 DEF LiveInv, OuterTypeOK
    <2>3. runs' \in [Keys -> StoredRun \cup {None}]
      <3>1. CASE runs' = runs
        BY <3>1 DEF LiveInv, OuterTypeOK
      <3>2. CASE /\ runs[Key(h)] # None
                 /\ runs' = [runs EXCEPT ![Key(h)].reserved = None]
        BY <2>1, <2>2, <3>2 DEF StoredRun, LiveInv, OuterTypeOK
      <3>3. ASSUME NEW c \in BOOLEAN,
                   runs' = [runs EXCEPT ![Key(h)] =
                     [reserved |-> None, handoff |-> Intent(h).binding, confirmed |-> c]]
            PROVE  runs' \in [Keys -> StoredRun \cup {None}]
        BY <2>1, <3>3 DEF StoredRun, LiveInv, OuterTypeOK
      <3>4. (At(h, "return") /\ handler[h].result.status = "CONFIRMED") \in BOOLEAN
        OBVIOUS
      <3>5. QED
        BY <3>1, <3>2, <3>3, <3>4 DEF Return
    <2>4. QED
      BY <1>1, <2>3 DEF LiveInv, OuterTypeOK
  <1>4. QED
    BY <1>1, <1>2, <1>3, QuietRequestStep

LEMMA StoreFaultStep ==
  ASSUME LiveInv, NEW h \in Handlers, StoreFault(h)
  PROVE  LiveInv' /\ [StoreNext]_storeVars
  <1> DEFINE pc == IF handler[h].pc \in InTry THEN "catch" ELSE "throw"
             q  == [handler[h] EXCEPT !.pc = pc]
  <1>1. UNCHANGED <<storeVars, runs, creates, circle, restarts>> /\ Replaces(h, q)
    BY DEF StoreFault, Go, Replaces
  <1>2. /\ handler[h].pc \in Begun
        /\ handler[h].pc \in InTry => handler[h].pc \in Approved
    BY DEF StoreFault, InTry, OutsideTry, Begun, Approved, Labels
  <1>3. RequestIs(h, handler[h])
    BY <1>2, RequestFacts
  <1>4. /\ q \in Request
        /\ q.pc \in {"catch", "throw"}
        /\ q.pc = "catch" => handler[h].pc \in Approved
        /\ q.consumed = handler[h].consumed
        /\ q.intent = handler[h].intent
        /\ q.result = handler[h].result
        /\ q.asOf = handler[h].asOf
    BY <1>2, <1>3 DEF RequestIs, Request, Labels
  <1> HIDE DEF q
  <1>5. RequestIs(h, q)
    BY <1>2, <1>3, <1>4 DEF RequestIs, Begun, Approved, Answering, Spending
  <1>6. OuterTypeOK'
    <2>1. faults' \in 0 .. MaxFaults
      BY LiveAssumption DEF StoreFault, LiveInv, OuterTypeOK
    <2>2. QED
      BY <1>1, <2>1 DEF LiveInv, OuterTypeOK
  <1>7. QED
    BY <1>1, <1>5, <1>6, QuietRequestStep

(* The create request is sent, for a spent approval.                       *)
LEMMA CreateTransactionStep ==
  ASSUME LiveInv, NEW h \in Handlers, CreateTransaction(h)
  PROVE  LiveInv' /\ [StoreNext]_storeVars
  <1> USE DEF Begun, Labels, Approved, Answering, Spending
  <1>1. /\ handler[h].pc = "create"
        /\ UNCHANGED <<storeVars, runs, circle, restarts, faults>>
        /\ creates' = [creates EXCEPT ![h] = [key |-> Key(h), accepted |-> FALSE]]
    BY DEF CreateTransaction, At
  <1>2. UNCHANGED <<authorizations, clock, circle>>
    BY <1>1 DEF storeVars, recordVars
  <1> DEFINE q == [handler[h] EXCEPT !.pc = "await"]
  <1>3. RequestIs(h, handler[h]) /\ Key(h) \in Keys /\ SpentKey(Key(h))
    BY <1>1, RequestFacts DEF RequestIs, Key
  <1>4. /\ q \in Request
        /\ q.pc = "await"
        /\ q.consumed = handler[h].consumed
        /\ q.intent = handler[h].intent
        /\ q.result = handler[h].result
        /\ q.asOf = handler[h].asOf
    BY <1>3 DEF RequestIs, Request
  <1>5. /\ handler' = [handler EXCEPT ![h] = q]
        /\ handler' \in [Handlers -> Request]
        /\ handler'[h] = q
        /\ \A g \in Handlers \ {h} : handler'[g] = handler[g]
    BY <1>4 DEF CreateTransaction, Go, LiveInv
  <1> HIDE DEF q
  <1>6. /\ [key |-> Key(h), accepted |-> FALSE] \in CreateCall
        /\ [key |-> Key(h), accepted |-> FALSE] # None
    <2>1. [key |-> Key(h), accepted |-> FALSE] \in CreateCall
      BY <1>3 DEF CreateCall
    <2>2. QED
      BY <2>1, LiveAbsenceAssumption
  <1>7. /\ creates' \in [Handlers -> CreateCall \cup {None}]
        /\ creates'[h] = [key |-> Key(h), accepted |-> FALSE]
        /\ \A g \in Handlers \ {h} : creates'[g] = creates[g]
    BY <1>1, <1>6 DEF LiveInv, OuterTypeOK
  <1>8. OuterTypeOK'
    BY <1>1, <1>7 DEF LiveInv, OuterTypeOK
  <1>9. CircleGrows
    BY <1>1 DEF CircleGrows
  <1>10. CircleOK'
    BY <1>1, <1>2, <1>3, <1>7 DEF LiveInv, CircleOK, SpentKey, AuthorizedBy
  <1>11. RequestOK(h)'
    BY <1>1, <1>2, <1>3, <1>4, <1>5, <1>6, <1>7
    DEF RequestOK, RequestIs, MatchesIntent, SpentKey, AuthorizedBy, Holds, Key
  <1>12. \A g \in Handlers \ {h} : RequestOK(g)'
    BY <1>1, <1>5, <1>7, <1>9, OthersKeep
  <1>13. QED
    BY <1>1, <1>5, <1>8, <1>9, <1>10, <1>11, <1>12, QuietStep

(* Circle accepts a request it was sent, or recognises its key.            *)
LEMMA CircleAcceptsStep ==
  ASSUME LiveInv, NEW h \in Handlers, CircleAccepts(h)
  PROVE  LiveInv' /\ [StoreNext]_storeVars
  <1>1. /\ creates[h] # None
        /\ creates[h] \in CreateCall
        /\ creates[h].key \in Keys
        /\ SpentKey(creates[h].key)
        /\ creates' = [creates EXCEPT ![h].accepted = TRUE]
        /\ UNCHANGED <<storeVars, handler, runs, restarts, faults>>
    BY DEF CircleAccepts, LiveInv, OuterTypeOK, CircleOK, CreateCall
  <1>2. UNCHANGED <<authorizations, clock, handler>>
    BY <1>1 DEF storeVars, recordVars
  <1> DEFINE k == creates[h].key
  <1>3. /\ circle' \in [Keys -> Operation \cup {None}]
        /\ circle'[k] # None
        /\ circle[k] # None => circle' = circle
        /\ circle[k] = None => circle'[k].state = "PENDING"
        /\ \A j \in Keys \ {k} : circle'[j] = circle[j]
    <2>1. CASE circle[k] # None /\ UNCHANGED circle
      BY <2>1 DEF LiveInv, OuterTypeOK
    <2>2. ASSUME circle[k] = None, NEW op \in Ops,
                 circle' = [circle EXCEPT ![k] =
                   [op |-> op, state |-> "PENDING", evidence |-> None]]
          PROVE  /\ circle' \in [Keys -> Operation \cup {None}]
                 /\ circle'[k] # None
                 /\ circle'[k].state = "PENDING"
                 /\ \A j \in Keys \ {k} : circle'[j] = circle[j]
      <3>1. /\ [op |-> op, state |-> "PENDING", evidence |-> None] \in Operation
            /\ [op |-> op, state |-> "PENDING", evidence |-> None] # None
        BY LiveAbsenceAssumption DEF Operation
      <3>2. QED
        BY <1>1, <2>2, <3>1 DEF LiveInv, OuterTypeOK
    <2>3. QED
      BY <2>1, <2>2 DEF CircleAccepts
  <1>4. /\ creates' \in [Handlers -> CreateCall \cup {None}]
        /\ creates'[h] \in CreateCall
        /\ creates'[h].key = k
        /\ \A g \in Handlers \ {h} : creates'[g] = creates[g]
    BY <1>1 DEF LiveInv, OuterTypeOK, CreateCall
  <1> HIDE DEF k
  <1>5. OuterTypeOK'
    BY <1>1, <1>3, <1>4 DEF LiveInv, OuterTypeOK
  <1>6. CircleGrows
    BY <1>3 DEF CircleGrows
  <1>7. CircleOK'
    <2>1. k \in Keys /\ SpentKey(k)
      BY <1>1 DEF k
    <2>2. \A j \in Keys : SpentKey(j)' = SpentKey(j)
      BY <1>2 DEF SpentKey, AuthorizedBy
    <2>3. \A j \in Keys : circle'[j] # None =>
            SpentKey(j) /\ (circle'[j].state = "COMPLETE" => circle'[j].evidence \in Evidence)
      BY <1>3, <2>1 DEF LiveInv, CircleOK
    <2>4. \A g \in Handlers : creates'[g] # None =>
            /\ creates'[g].key \in Keys
            /\ SpentKey(creates'[g].key)
            /\ creates'[g].accepted => circle'[creates'[g].key] # None
      <3>1. \A g \in Handlers \ {h} : creates[g] # None =>
              /\ creates[g].key \in Keys
              /\ SpentKey(creates[g].key)
              /\ creates[g].accepted => circle[creates[g].key] # None
        BY DEF LiveInv, CircleOK, OuterTypeOK, CreateCall
      <3>2. QED
        BY <1>3, <1>4, <2>1, <3>1
    <2>5. QED
      BY <2>2, <2>3, <2>4 DEF CircleOK
  <1>8. RequestOK(h)'
    <2>1. RequestIs(h, handler[h])
      BY DEF LiveInv, RequestOK
    <2>2. handler[h].result # None => Holds(handler[h].intent.key, handler[h].result)'
      <3>1. handler[h].intent # None => handler[h].intent.key \in Keys
        BY <2>1 DEF RequestIs, Request, Intents
      <3>2. QED
        BY <1>2, <1>6, <2>1, <3>1 DEF RequestIs, Holds, CircleGrows
    <2>3. creates'[h] # None
      BY <1>4, LiveAbsenceAssumption
    <2>4. QED
      BY <1>2, <1>4, <2>1, <2>2, <2>3
      DEF RequestOK, RequestIs, MatchesIntent, SpentKey, AuthorizedBy, k
  <1>9. \A g \in Handlers \ {h} : RequestOK(g)'
    BY <1>1, <1>4, <1>6, OthersKeep
  <1>10. QED
    BY <1>1, <1>5, <1>6, <1>7, <1>8, <1>9, QuietStep DEF LiveInv

LEMMA CircleSettlesStep ==
  ASSUME LiveInv, NEW k \in Keys, CircleSettles(k)
  PROVE  LiveInv' /\ [StoreNext]_storeVars
  <1>1. /\ circle[k] # None
        /\ circle[k] \in Operation
        /\ circle[k].state = "PENDING"
        /\ UNCHANGED <<storeVars, handler, runs, creates, restarts, faults>>
    BY DEF CircleSettles, LiveInv, OuterTypeOK
  <1>2. /\ circle' \in [Keys -> Operation \cup {None}]
        /\ circle'[k] \in Operation
        /\ circle'[k].op = circle[k].op
        /\ circle'[k].state = "COMPLETE" => circle'[k].evidence \in Evidence
        /\ \A j \in Keys \ {k} : circle'[j] = circle[j]
    BY <1>1 DEF CircleSettles, Operation, LiveInv, OuterTypeOK
  <1>3. circle'[k] # None
    BY <1>2, LiveAbsenceAssumption
  <1>4. OuterTypeOK'
    BY <1>1, <1>2 DEF LiveInv, OuterTypeOK
  <1>5. CircleGrows
    BY <1>1, <1>2, <1>3 DEF CircleGrows
  <1>6. CircleOK'
    <2>1. UNCHANGED authorizations
      BY <1>1 DEF storeVars, recordVars
    <2>2. \A h \in Handlers : creates[h] # None => creates[h].key \in Keys
      BY DEF LiveInv, OuterTypeOK, CreateCall
    <2>3. QED
      BY <1>1, <1>2, <1>3, <2>1, <2>2 DEF LiveInv, CircleOK, SpentKey, AuthorizedBy
  <1>7. \A h \in Handlers : RequestOK(h)'
    BY <1>1, <1>5, OthersKeep
  <1>8. QED
    BY <1>1, <1>4, <1>5, <1>6, <1>7, QuietStep DEF LiveInv

LEMMA ExpireRunStep ==
  ASSUME LiveInv, NEW k \in Keys, ExpireRun(k)
  PROVE  LiveInv' /\ [StoreNext]_storeVars
  <1>1. UNCHANGED <<storeVars, handler, creates, circle, restarts, faults>>
    BY DEF ExpireRun
  <1>2. OuterTypeOK'
    BY <1>1 DEF ExpireRun, LiveInv, OuterTypeOK
  <1>3. CircleGrows /\ CircleOK'
    BY <1>1, CircleStays
  <1>4. \A h \in Handlers : RequestOK(h)'
    BY <1>1, <1>3, OthersKeep
  <1>5. QED
    BY <1>1, <1>2, <1>3, <1>4, QuietStep DEF LiveInv

(* A restart ends every request, so nothing has to be known of them.       *)
LEMMA RestartStep ==
  ASSUME LiveInv, Restart
  PROVE  LiveInv' /\ [StoreNext]_storeVars
  <1>1. UNCHANGED <<storeVars, creates, circle, faults>>
    BY DEF Restart
  <1>2. OuterTypeOK'
    BY <1>1, LiveAssumption DEF Restart, LiveInv, OuterTypeOK
  <1>3. CircleGrows /\ CircleOK'
    BY <1>1, CircleStays
  <1>4. clock \in Times
    BY DEF LiveInv, StoreInv, StoreTypeOK
  <1>5. \A h \in Handlers : handler'[h] \in {handler[h], Ended}
    BY DEF Restart
  <1>6. /\ handler' \in [Handlers -> Request]
        /\ \A h \in Handlers : RequestOK(h)'
    <2>1. Ended \in Request
      BY <1>4, IdleIsOK DEF RequestIs
    <2>2. handler' \in [Handlers -> Request]
      BY <1>5, <2>1 DEF Restart, LiveInv
    <2>3. ASSUME NEW h \in Handlers PROVE RequestOK(h)'
      <3>1. CASE handler'[h] = handler[h]
        BY <1>1, <1>3, <3>1, OthersKeep
      <3>2. CASE handler'[h] = Ended
        <4>1. RequestIs(h, Ended)
          BY <1>4, IdleIsOK
        <4>2. UNCHANGED <<authorizations, clock, creates, circle>>
          BY <1>1 DEF storeVars, recordVars
        <4>3. QED
          BY <3>2, <4>1, <4>2
          DEF RequestOK, RequestIs, MatchesIntent, SpentKey, AuthorizedBy, Holds
      <3>3. QED
        BY <1>5, <3>1, <3>2
    <2>4. QED
      BY <2>2, <2>3
  <1>7. QED
    BY <1>1, <1>2, <1>3, <1>6, QuietStep

LEMMA AdvanceStep ==
  ASSUME LiveInv, Advance \/ UNCHANGED liveVars
  PROVE  LiveInv' /\ [StoreNext]_storeVars
  <1>1. /\ [StoreNext]_storeVars
        /\ UNCHANGED <<handler, runs, creates, circle, restarts, faults, resultHistory>>
    BY DEF Advance, StoreNext, Tick, recordVars, liveVars, outerVars, storeVars
  <1>2. StoreInv'
    BY <1>1, StoreStep DEF LiveInv
  <1>3. OuterTypeOK' /\ HistoriesHold'
    BY <1>1, HistoriesKeep DEF LiveInv, OuterTypeOK
  <1>4. CircleGrows /\ CircleOK'
    BY <1>1, CircleStays
  <1>5. \A h \in Handlers : RequestOK(h)'
    BY <1>1, <1>4, OthersKeep
  <1>6. QED
    BY <1>1, <1>2, <1>3, <1>4, <1>5 DEF LiveInv

-----------------------------------------------------------------------------
LEMMA LiveInitInv == LiveInit => LiveInv
  <1> SUFFICES ASSUME LiveInit PROVE LiveInv
    OBVIOUS
  <1>1. StoreInv
    BY InitInv DEF LiveInit
  <1>2. clock \in Times
    BY <1>1 DEF StoreInv, StoreTypeOK
  <1>3. OuterTypeOK
    BY LiveAssumption DEF LiveInit, OuterTypeOK, StoredRun
  <1>4. /\ handler \in [Handlers -> Request]
        /\ \A h \in Handlers : RequestOK(h)
    BY <1>2, IdleIsOK DEF LiveInit, RequestOK
  <1>5. HistoriesHold /\ CircleOK
    BY DEF LiveInit, StoreInit, HistoriesHold, CircleOK
  <1>6. QED
    BY <1>1, <1>3, <1>4, <1>5 DEF LiveInv

LEMMA LiveStep ==
  LiveInv /\ [LiveNext]_liveVars => LiveInv' /\ [StoreNext]_storeVars
  <1> SUFFICES ASSUME LiveInv, [LiveNext]_liveVars
               PROVE  LiveInv' /\ [StoreNext]_storeVars
    OBVIOUS
  <1>1. ASSUME NEW h \in Handlers, Begin(h)
        PROVE  LiveInv' /\ [StoreNext]_storeVars
    BY <1>1, ExecuteStep, RecoverStep DEF Begin
  <1>2. ASSUME NEW h \in Handlers, Step(h)
        PROVE  LiveInv' /\ [StoreNext]_storeVars
    <2>1. CASE \/ LoadApproval(h) \/ LoadResult(h) \/ LoadHistory(h)
               \/ LoadReconciliation(h) \/ CheckAnswered(h)
      BY <2>1, BeforeTheTry
    <2>2. CASE \/ Prepare(h) \/ Submit(h) \/ ListTransactions(h) \/ CheckBalance(h)
               \/ Reload(h) \/ Revalidate(h) \/ AwaitCreate(h)
      BY <2>2, Submitting
    <2>3. CASE Poll(h) \/ Catch(h) \/ Finish(h)
      BY <2>3, Concluding
    <2>4. CASE RecordPrepared(h) \/ RecordSubmitted(h) \/ RecordPolled(h)
               \/ RecordOutcome(h)
      BY <2>4, RecordingSteps
    <2>5. CASE PersistApproval(h) \/ Claim(h) \/ ConsumeApproval(h)
      BY <2>5, PersistApprovalStep, ClaimStep, ConsumeApprovalStep
    <2>6. CASE Reconcile(h) \/ Respond(h)
      BY <2>6, ReconcileStep, RespondStep
    <2>7. CASE CreateTransaction(h) \/ Return(h) \/ CircleFault(h)
      BY <2>7, CreateTransactionStep, ReturnStep, CircleFaultStep
    <2>8. QED
      BY <1>2, <2>1, <2>2, <2>3, <2>4, <2>5, <2>6, <2>7 DEF Step
  <1>3. ASSUME NEW h \in Handlers, StoreFault(h) \/ CircleAccepts(h)
        PROVE  LiveInv' /\ [StoreNext]_storeVars
    BY <1>3, StoreFaultStep, CircleAcceptsStep
  <1>4. ASSUME NEW k \in Keys, CircleSettles(k) \/ ExpireRun(k)
        PROVE  LiveInv' /\ [StoreNext]_storeVars
    BY <1>4, CircleSettlesStep, ExpireRunStep
  <1>5. CASE Restart \/ Advance \/ UNCHANGED liveVars
    BY <1>5, RestartStep, AdvanceStep
  <1>6. QED
    BY <1>1, <1>2, <1>3, <1>4, <1>5 DEF LiveNext

THEOREM LiveInvariant == LiveSpec => []LiveInv
  <1>1. LiveInv /\ [LiveNext]_liveVars => LiveInv'
    BY LiveStep
  <1>2. QED
    BY LiveInitInv, <1>1, PTL DEF LiveSpec

(* However many requests run, stop and start again, the state of the       *)
(* handoff is well typed.                                                  *)
THEOREM LiveTyped == LiveSpec => []LiveTypeOK
  <1>1. LiveInv => LiveTypeOK
    BY DEF LiveInv, OuterTypeOK, StoreInv, LiveTypeOK
  <1>2. QED
    BY LiveInvariant, <1>1, PTL

(* The requests, with all their retries and faults, use the store as its   *)
(* specification allows: what is proved of the store holds of the handoff. *)
THEOREM LiveUsesStore == LiveSpec => StoreSpec
  <1>1. LiveInit => StoreInit
    BY DEF LiveInit
  <1>2. LiveInv /\ [LiveNext]_liveVars => [StoreNext]_storeVars
    BY LiveStep
  <1>3. QED
    BY LiveInvariant, <1>1, <1>2, PTL DEF LiveSpec, StoreSpec

(* Circle is never asked to pay, and never pays, for a transfer whose      *)
(* one-use approval has not been consumed.                                 *)
THEOREM PaymentsAreApproved == LiveSpec => []PaymentNeedsSpentApproval
  <1>1. LiveInv => PaymentNeedsSpentApproval
    BY DEF LiveInv, CircleOK, PaymentNeedsSpentApproval
  <1>2. QED
    BY LiveInvariant, <1>1, PTL

(* No history and no reconciliation claims more than Circle has done.      *)
THEOREM RecordsAreTrue == LiveSpec => []RecordIsTrue
  <1>1. LiveInv => RecordIsTrue
    <2> SUFFICES ASSUME LiveInv PROVE RecordIsTrue
      OBVIOUS
    <2>1. ASSUME NEW n \in 1 .. Len(reconciliations)
          PROVE  circle[reconciliations[n].key] =
                   [op |-> reconciliations[n].op, state |-> "COMPLETE",
                    evidence |-> reconciliations[n].evidence]
      <3> DEFINE r == reconciliations[n]
                 last == Last(resultHistory[r.key])
      <3>0. reconciliations \in Seq(Reconciliation)
        BY DEF LiveInv, StoreInv, StoreTypeOK
      <3>1. /\ r \in Reconciliation
            /\ r.key \in Keys
            /\ r.op \in Ops
        <4>1. r \in Reconciliation
          BY <2>1, <3>0
        <4>2. QED
          BY <4>1 DEF Reconciliation
      <3>2. /\ resultHistory[r.key] # <<>>
            /\ last = [status |-> "CONFIRMED", op |-> r.op, evidence |-> r.evidence]
        BY <2>1 DEF LiveInv, StoreInv, ReconciliationsSettled, ConfirmedAs
      <3>3. Holds(r.key, last)
        BY <3>1, <3>2, LastResult
      <3> HIDE DEF r, last
      <3>4. /\ circle[r.key] # None
            /\ circle[r.key].op = r.op
            /\ circle[r.key].state = "COMPLETE"
            /\ circle[r.key].evidence = r.evidence
        BY <3>1, <3>2, <3>3, NoneAssumption DEF Holds
      <3>5. circle[r.key] \in Operation
        BY <3>1, <3>4 DEF LiveInv, OuterTypeOK
      <3>6. QED
        BY <3>4, <3>5 DEF Operation, r
    <2>2. QED
      BY <2>1 DEF LiveInv, HistoriesHold, Holds, RecordIsTrue
  <1>2. QED
    BY LiveInvariant, <1>1, PTL

(* So every transfer driven by the handoff, through crashes and retries,   *)
(* lives the abstract life of a transfer.                                  *)
THEOREM LiveImplementsLifecycle == LiveSpec => LifecycleSpec
  BY LiveUsesStore, StoreImplementsLifecycle, PTL

-----------------------------------------------------------------------------
(* Requests in competition                                                 *)

OthersStay(h) == \A g \in Handlers \ {h} : handler'[g] = handler[g]

-----------------------------------------------------------------------------
(* What the store keeps                                                    *)

Recorded(k, r) == resultHistory[k] # <<>> /\ Last(resultHistory[k]) = r

(* Nothing is recorded after a confirmation.                               *)
LEMMA ConfirmationIsLast ==
  ASSUME StoreInv, [StoreNext]_storeVars, NEW k \in Keys, NEW r,
         r.status = "CONFIRMED", Recorded(k, r)
  PROVE  Recorded(k, r)'
  <1>1. \A n : ~CanAppendResult(k, n)
    BY DEF CanAppendResult, Recorded, LastFailed, Successors
  <1>2. ~LastFailed(resultHistory[k])
    BY DEF Recorded, LastFailed
  <1>3. resultHistory'[k] = resultHistory[k]
    <2>1. ASSUME NEW j \in Keys, NEW n \in TransferResult, RecordResult(j, n)
          PROVE  resultHistory'[k] = resultHistory[k]
      <3>1. j # k
        BY <2>1, <1>1 DEF RecordResult
      <3>2. QED
        BY <2>1, <3>1 DEF RecordResult, StoreInv, StoreTypeOK
    <2>2. ASSUME NEW j \in Keys, NEW t \in Tokens, NEW n \in TransferResult,
                 CompleteClaim(j, t, n)
          PROVE  resultHistory'[k] = resultHistory[k]
      <3>1. j # k
        BY <2>2, <1>1, <1>2 DEF CompleteClaim, CanCompleteClaim
      <3>2. QED
        BY <2>2, <3>1 DEF CompleteClaim, StoreInv, StoreTypeOK
    <2>3. CASE \/ \E i \in Intents, t \in Expiries : Persist(i, t)
               \/ \E i \in Intents : \E asOf \in 0 .. clock : Consume(i, asOf)
               \/ \E i \in Intents, t \in Tokens : ClaimRetry(i, t, clock)
               \/ \E n \in Reconciliation : RecordReconciliation(n)
               \/ \E n \in HandoffResult : RecordHandoff(n)
               \/ Tick \/ UNCHANGED storeVars
      BY <2>3 DEF Persist, Consume, ClaimRetry, RecordReconciliation, RecordHandoff,
        Tick, recordVars, storeVars
    <2>4. QED
      BY <2>1, <2>2, <2>3 DEF StoreNext
  <1>4. QED
    BY <1>3 DEF Recorded

(* A key that is reconciled stays so.                                      *)
LEMMA ReconciledStays ==
  ASSUME StoreInv, [StoreNext]_storeVars, NEW k \in Keys, ReconciledAs(k) # {}
  PROVE  ReconciledAs(k)' # {}
  <1>1. CASE UNCHANGED reconciliations
    BY <1>1 DEF ReconciledAs
  <1>2. ASSUME NEW r \in Reconciliation, RecordReconciliation(r)
        PROVE  ReconciledAs(k)' # {}
    <2>1. /\ reconciliations \in Seq(Reconciliation)
          /\ reconciliations' = Append(reconciliations, r)
      BY <1>2 DEF RecordReconciliation, StoreInv, StoreTypeOK
    <2>2. PICK m \in 1 .. Len(reconciliations) : reconciliations[m].key = k
      BY DEF ReconciledAs
    <2>3. m \in 1 .. Len(reconciliations') /\ reconciliations'[m] = reconciliations[m]
      BY <2>1, <2>2, AppendFacts
    <2>4. QED
      BY <2>2, <2>3 DEF ReconciledAs
  <1>3. QED
    BY <1>1, <1>2 DEF StoreNext, Persist, Consume, RecordResult, ClaimRetry, CompleteClaim,
      RecordHandoff, Tick, recordVars, storeVars

LEMMA ReconciledNow ==
  ASSUME StoreInv, NEW k \in Keys, NEW r \in Reconciliation, r.key = k,
         RecordReconciliation(r)
  PROVE  ReconciledAs(k)' # {}
  <1>1. /\ reconciliations \in Seq(Reconciliation)
        /\ reconciliations' = Append(reconciliations, r)
    BY DEF RecordReconciliation, StoreInv, StoreTypeOK
  <1>2. PICK m : m = Len(reconciliations) + 1
    OBVIOUS
  <1>3. m \in 1 .. Len(reconciliations') /\ reconciliations'[m] = r
    BY <1>1, <1>2, AppendFacts
  <1>4. QED
    BY <1>3 DEF ReconciledAs

-----------------------------------------------------------------------------
(* How a request moves                                                     *)

(* The labels at which a request knows how its transfer ended.             *)
Closing == {"finished", "answered", "finish", "reconcile", "respond"}

(* The labels at which it is about to ask Circle to pay.                   *)
Paying == {"revalidate", "create"}

Lands(h, P) == handler'[h].pc \in P /\ OthersStay(h)

LEMMA RequestMoves ==
  ASSUME LiveInv, NEW h \in Handlers,
         Begin(h) \/ Step(h) \/ StoreFault(h)
  PROVE  OthersStay(h)
  <1>1. handler \in [Handlers -> Request]
    BY DEF LiveInv
  <1>2. CASE \/ PersistApproval(h) \/ LoadApproval(h) \/ LoadResult(h) \/ LoadHistory(h)
             \/ Claim(h) \/ LoadReconciliation(h) \/ CheckAnswered(h) \/ Prepare(h)
    BY <1>1, <1>2 DEF OthersStay, PersistApproval, LoadApproval, LoadResult, LoadHistory,
      Claim, LoadReconciliation, CheckAnswered, Prepare, Go, GoWith, Becomes
  <1>3. CASE \/ Submit(h) \/ ListTransactions(h) \/ CheckBalance(h) \/ Reload(h)
             \/ ConsumeApproval(h) \/ Revalidate(h) \/ CreateTransaction(h) \/ AwaitCreate(h)
    BY <1>1, <1>3 DEF OthersStay, Submit, ListTransactions, CheckBalance, Reload,
      ConsumeApproval, Revalidate, CreateTransaction, AwaitCreate, Go, GoWith, Becomes
  <1>4. CASE \/ RecordPrepared(h) \/ RecordSubmitted(h) \/ RecordPolled(h) \/ RecordOutcome(h)
    <2>1. ASSUME NEW a, NEW b, Record(h, a, b)
          PROVE  OthersStay(h)
      BY <1>1, <2>1 DEF OthersStay, Record, Go
    <2>2. ASSUME NEW a, NEW b, CompleteOwnClaim(h, a, b)
          PROVE  OthersStay(h)
      BY <1>1, <2>2 DEF OthersStay, CompleteOwnClaim, Go, Becomes
    <2>3. QED
      BY <1>4, <2>1, <2>2 DEF RecordPrepared, RecordSubmitted, RecordPolled, RecordOutcome
  <1>5. CASE \/ Poll(h) \/ Catch(h) \/ Finish(h) \/ Reconcile(h) \/ Respond(h)
             \/ Return(h) \/ CircleFault(h)
    BY <1>1, <1>5 DEF OthersStay, Poll, Catch, Finish, Reconcile, Respond, Return,
      CircleFault, Go, GoWith, Becomes
  <1>6. CASE Begin(h) \/ StoreFault(h)
    BY <1>1, <1>6 DEF OthersStay, Begin, Execute, Recover, StoreFault, Go, Becomes
  <1>7. QED
    BY <1>2, <1>3, <1>4, <1>5, <1>6 DEF Step

(* A request reaches the labels above by these actions only.               *)
LEMMA BecomesLands ==
  ASSUME LiveInv, NEW h \in Handlers, NEW q \in Request, Becomes(h, q)
  PROVE  handler'[h] = q
  BY DEF LiveInv, Becomes

LEMMA Elsewhere ==
  ASSUME LiveInv, NEW h \in Handlers,
         \/ Begin(h) \/ StoreFault(h)
         \/ PersistApproval(h) \/ LoadApproval(h) \/ Claim(h) \/ Prepare(h)
         \/ Submit(h) \/ ListTransactions(h) \/ Reload(h)
         \/ CreateTransaction(h) \/ AwaitCreate(h) \/ Poll(h) \/ Catch(h)
         \/ Respond(h) \/ Return(h) \/ CircleFault(h)
  PROVE  handler'[h].pc \notin Closing \cup Paying \cup {"history"}
  <1>1. handler \in [Handlers -> Request] /\ handler[h] \in Request
    BY DEF LiveInv
  <1> USE <1>1 DEF Closing, Paying, Go, GoWith, Becomes, Request
  <1>2. CASE Begin(h)
    <2>1. PICK i \in Intents : handler' = [handler EXCEPT ![h] =
                                 [Fresh EXCEPT !.pc = "persist", !.intent = i]]
      BY <1>2 DEF Begin, Execute, Recover
    <2>2. QED
      BY <2>1, BegunAfresh
  <1>3. CASE StoreFault(h)
    BY <1>3 DEF StoreFault
  <1>4. CASE PersistApproval(h)
    BY <1>4 DEF PersistApproval
  <1>5. CASE LoadApproval(h)
    BY <1>5 DEF LoadApproval
  <1>6. CASE Claim(h)
    <2>1. CASE Becomes(h, [handler[h] EXCEPT !.pc = "prepare", !.result = None,
                                             !.claimed = TRUE])
      <3>1. PICK q : q = [handler[h] EXCEPT !.pc = "prepare", !.result = None,
                                            !.claimed = TRUE]
        OBVIOUS
      <3>2. q \in Request /\ q.pc = "prepare"
        BY <3>1 DEF Labels
      <3>3. QED
        BY <2>1, <3>1, <3>2, BecomesLands
    <2>2. CASE Go(h, "throw")
      BY <2>2
    <2>3. QED
      BY <1>6, <2>1, <2>2 DEF Claim
  <1>7. CASE Prepare(h)
    BY <1>7 DEF Prepare
  <1>8. CASE Submit(h)
    <2>1. ASSUME NEW pc \in {"list", "balance"}, NEW b \in BOOLEAN,
                 Becomes(h, [handler[h] EXCEPT !.pc = pc, !.consumed = b])
          PROVE  handler'[h].pc = pc
      <3>1. PICK q : q = [handler[h] EXCEPT !.pc = pc, !.consumed = b]
        OBVIOUS
      <3>2. q \in Request /\ q.pc = pc
        BY <3>1 DEF Labels
      <3>3. QED
        BY <2>1, <3>1, <3>2, BecomesLands
    <2>2. CASE GoWith(h, "recordSubmitted", Failed(None))
      BY <2>2
    <2>3. QED
      BY <1>8, <2>1, <2>2 DEF Submit
  <1>9. CASE ListTransactions(h)
    BY <1>9 DEF ListTransactions
  <1>10. CASE Reload(h)
    <2>1. CASE Becomes(h, [handler[h] EXCEPT !.pc = "consume", !.asOf = clock])
      <3>1. PICK q : q = [handler[h] EXCEPT !.pc = "consume", !.asOf = clock]
        OBVIOUS
      <3>2. q \in Request /\ q.pc = "consume"
        BY <3>1 DEF Labels, LiveInv, StoreInv, StoreTypeOK
      <3>3. QED
        BY <2>1, <3>1, <3>2, BecomesLands
    <2>2. CASE GoWith(h, "recordSubmitted", Failed(None))
      BY <2>2
    <2>3. QED
      BY <1>10, <2>1, <2>2 DEF Reload
  <1>11. CASE CreateTransaction(h)
    BY <1>11 DEF CreateTransaction
  <1>12. CASE AwaitCreate(h)
    BY <1>12 DEF AwaitCreate
  <1>13. CASE Poll(h)
    BY <1>13 DEF Poll
  <1>14. CASE Catch(h)
    BY <1>14 DEF Catch
  <1>15. CASE Respond(h)
    BY <1>15 DEF Respond
  <1>16. CASE Return(h)
    BY <1>16 DEF Return, Ended, Fresh
  <1>17. CASE CircleFault(h)
    BY <1>17 DEF CircleFault
  <1>18. QED
    BY <1>2, <1>3, <1>4, <1>5, <1>6, <1>7, <1>8, <1>9, <1>10, <1>11, <1>12, <1>13,
       <1>14, <1>15, <1>16, <1>17

(* A request that records its result has it recorded where it goes on.     *)
LEMMA RecordLands ==
  ASSUME LiveInv, NEW h \in Handlers, handler[h].pc \in Begun,
         handler[h].result # None,
         NEW next \in {"submit", "finish", "poll"}, NEW onError \in {"catch", "throw"},
         Record(h, next, onError) \/ CompleteOwnClaim(h, next, onError)
  PROVE  /\ handler'[h].pc \in {next, onError}
         /\ handler'[h].intent = handler[h].intent
         /\ handler'[h].result = handler[h].result
         /\ handler'[h].pc = next => Recorded(Key(h), handler[h].result)'
  <1> DEFINE k == handler[h].intent.key
             r == handler[h].result
  <1>1. /\ handler \in [Handlers -> Request] /\ handler[h] \in Request
        /\ Key(h) = k /\ k \in Keys /\ r \in TransferResult
        /\ resultHistory \in [Keys -> Seq(TransferResult)]
    BY RequestFacts DEF LiveInv, Key, StoreInv, StoreTypeOK
  <1>2. /\ handler'[h].pc \in {next, onError}
        /\ handler'[h].intent = handler[h].intent
        /\ handler'[h].result = handler[h].result
        /\ \/ Go(h, onError)
           \/ RepeatsLast(k, r) /\ UNCHANGED storeVars
           \/ resultHistory' = [resultHistory EXCEPT ![k] = Append(@, r)]
    <2>1. ASSUME NEW pc, Go(h, pc)
          PROVE  /\ handler'[h].pc = pc
                 /\ handler'[h].intent = handler[h].intent
                 /\ handler'[h].result = handler[h].result
      BY <1>1, <2>1 DEF Go, Request
    <2>2. ASSUME Becomes(h, [handler[h] EXCEPT !.pc = next, !.claimed = FALSE])
          PROVE  /\ handler'[h].pc = next
                 /\ handler'[h].intent = handler[h].intent
                 /\ handler'[h].result = handler[h].result
      <3>1. PICK q : q = [handler[h] EXCEPT !.pc = next, !.claimed = FALSE]
        OBVIOUS
      <3>2. q \in Request /\ q.pc = next /\ q.intent = handler[h].intent
            /\ q.result = handler[h].result
        BY <1>1, <3>1 DEF Request, Labels
      <3>3. QED
        BY <2>2, <3>1, <3>2, BecomesLands
    <2>3. CASE Record(h, next, onError)
      BY <1>1, <2>1, <2>3 DEF Record, RecordResult
    <2>4. CASE CompleteOwnClaim(h, next, onError)
      BY <1>1, <2>1, <2>2, <2>4 DEF CompleteOwnClaim, CompleteClaim
    <2>5. QED
      BY <2>3, <2>4
  <1>3. Go(h, onError) => handler'[h].pc # next
    BY <1>1 DEF Go, Request
  <1>4. ASSUME handler'[h].pc = next
        PROVE  resultHistory'[k] # <<>> /\ Last(resultHistory'[k]) = r
    <2>1. CASE RepeatsLast(k, r) /\ UNCHANGED storeVars
      BY <2>1 DEF RepeatsLast, storeVars, recordVars
    <2>2. CASE resultHistory' = [resultHistory EXCEPT ![k] = Append(@, r)]
      <3> HIDE DEF k, r
      <3>1. resultHistory'[k] = Append(resultHistory[k], r) /\ resultHistory[k] \in Seq(TransferResult)
        BY <1>1, <2>2
      <3>2. QED
        BY <1>1, <3>1, AppendFacts
    <2>3. QED
      BY <1>2, <1>3, <1>4, <2>1, <2>2
  <1>5. handler'[h].pc = next => Recorded(Key(h), handler[h].result)'
    <2>1. Key(h)' = k /\ handler'[h].result = r
      BY <1>1, <1>2 DEF Key
    <2>2. QED
      BY <1>4, <2>1 DEF Recorded
  <1>6. QED
    BY <1>2, <1>5

(* The other steps of the next-state relation move no request, or end it.  *)
LEMMA Background ==
  ASSUME LiveInv,
         \/ \E h \in Handlers : CircleAccepts(h)
         \/ \E k \in Keys : CircleSettles(k) \/ ExpireRun(k)
         \/ Restart \/ Advance \/ UNCHANGED liveVars
  PROVE  \A g \in Handlers :
           handler'[g] = handler[g] \/ handler'[g].pc = "done"
  <1>1. CASE Restart
    BY <1>1 DEF Restart, Ended, Fresh
  <1>2. CASE \/ \E h \in Handlers : CircleAccepts(h)
             \/ \E k \in Keys : CircleSettles(k) \/ ExpireRun(k)
             \/ Advance \/ UNCHANGED liveVars
    BY <1>2 DEF CircleAccepts, CircleSettles, ExpireRun, Advance, liveVars
  <1>3. QED
    BY <1>1, <1>2

-----------------------------------------------------------------------------
(* One first submission                                                    *)

First(h) == handler[h].pc \in Paying /\ ~handler[h].consumed

Wins(h) ==
  /\ At(h, "consume")
  /\ CanConsume(Intent(h), handler[h].asOf)

(* A request is first because it was, or because it consumes the approval. *)
LEMMA FirstOrigin ==
  ASSUME LiveInv, NEW h \in Handlers, Begin(h) \/ Step(h) \/ StoreFault(h), First(h)'
  PROVE  /\ First(h) \/ Wins(h)
         /\ handler'[h].intent = handler[h].intent
  <1>1. handler \in [Handlers -> Request] /\ handler[h] \in Request
    BY DEF LiveInv
  <1>2. handler'[h].pc \in Paying /\ ~handler'[h].consumed
    BY DEF First
  <1>3. CASE \/ Begin(h) \/ StoreFault(h)
             \/ PersistApproval(h) \/ LoadApproval(h) \/ Claim(h) \/ Prepare(h)
             \/ Submit(h) \/ ListTransactions(h) \/ Reload(h)
             \/ CreateTransaction(h) \/ AwaitCreate(h) \/ Poll(h) \/ Catch(h)
             \/ Respond(h) \/ Return(h) \/ CircleFault(h)
    BY <1>2, <1>3, Elsewhere
  <1>4. CASE LoadResult(h) \/ LoadHistory(h) \/ LoadReconciliation(h) \/ CheckAnswered(h)
    <2>1. ASSUME NEW pc, Go(h, pc)
          PROVE  handler'[h].pc = pc
      BY <1>1, <2>1 DEF Go, Request
    <2>2. ASSUME NEW pc, NEW r, GoWith(h, pc, r)
          PROVE  handler'[h].pc = pc
      BY <1>1, <2>2 DEF GoWith, Request
    <2>3. LoadReconciliation(h) => handler'[h].pc = "answered"
      BY <1>1 DEF LoadReconciliation, Becomes, Request
    <2>4. handler'[h].pc \notin Paying
      BY <1>4, <2>1, <2>2, <2>3 DEF LoadResult, LoadHistory, CheckAnswered, Paying
    <2>5. QED
      BY <1>2, <2>4
  <1>5. CASE \/ RecordPrepared(h) \/ RecordSubmitted(h) \/ RecordPolled(h)
             \/ RecordOutcome(h)
    <2>1. /\ handler[h].pc \in Begun /\ handler[h].result # None
      BY <1>5 DEF RecordPrepared, RecordSubmitted, RecordPolled, RecordOutcome, At,
        LiveInv, RequestOK, RequestIs, Begun, Answering, Labels
    <2>2. handler'[h].pc \in {"submit", "finish", "poll", "catch", "throw"}
      BY <1>5, <2>1, RecordLands
      DEF RecordPrepared, RecordSubmitted, RecordPolled, RecordOutcome
    <2>3. QED
      BY <1>2, <2>2 DEF Paying
  <1>6. CASE Finish(h) \/ Reconcile(h)
    <2>1. Finish(h) => handler'[h].pc \in {"reconcile", "respond"}
      BY <1>1 DEF Finish, Becomes, Request
    <2>2. Reconcile(h) => handler'[h].pc \in {"respond", "throw"}
      BY <1>1 DEF Reconcile, Go, Request
    <2>3. QED
      BY <1>2, <1>6, <2>1, <2>2 DEF Paying
  <1>7. CASE CheckBalance(h)
    <2>1. CASE Go(h, IF handler[h].consumed THEN "create" ELSE "reload")
      <3>1. /\ handler'[h].consumed = handler[h].consumed
            /\ handler'[h].pc = IF handler[h].consumed THEN "create" ELSE "reload"
        BY <1>1, <2>1 DEF Go, Request
      <3>2. QED
        BY <1>2, <3>1 DEF Paying
    <2>2. CASE GoWith(h, "recordSubmitted", Failed(None))
      BY <1>1, <1>2, <2>2 DEF GoWith, Request, Paying
    <2>3. QED
      BY <1>7, <2>1, <2>2 DEF CheckBalance
  <1>8. CASE Revalidate(h)
    <2>1. CASE Go(h, "create")
      <3>1. /\ handler'[h].consumed = handler[h].consumed
            /\ handler'[h].intent = handler[h].intent
        BY <1>1, <2>1 DEF Go, Request
      <3>2. QED
        BY <1>2, <1>8, <3>1 DEF First, Paying, Revalidate, At
    <2>2. CASE GoWith(h, "recordSubmitted", Failed(None))
      BY <1>1, <1>2, <2>2 DEF GoWith, Request, Paying
    <2>3. QED
      BY <1>8, <2>1, <2>2 DEF Revalidate
  <1>9. CASE ConsumeApproval(h)
    <2>1. CASE Consume(Intent(h), handler[h].asOf) /\ Go(h, "revalidate")
      <3>1. handler'[h].intent = handler[h].intent
        BY <1>1, <2>1 DEF Go, Request
      <3>2. QED
        BY <1>9, <2>1, <3>1 DEF Wins, ConsumeApproval, Consume
    <2>2. CASE GoWith(h, "recordSubmitted", Failed(None))
      BY <1>1, <1>2, <2>2 DEF GoWith, Request, Paying
    <2>3. QED
      BY <1>9, <2>1, <2>2 DEF ConsumeApproval
  <1>10. QED
    BY <1>3, <1>4, <1>5, <1>6, <1>7, <1>8, <1>9 DEF Step

(* While one request is first for a key, no other wins the approval.       *)
LEMMA NoSecondWinner ==
  ASSUME LiveInv, NEW g \in Handlers, NEW h \in Handlers, First(g), Wins(h)
  PROVE  Key(g) # Key(h)
  <1> SUFFICES ASSUME Key(g) = Key(h) PROVE FALSE
    OBVIOUS
  <1>1. Key(h) \in Keys /\ Intent(h).binding \in Bindings /\ Intent(h).key = Key(h)
    BY RequestFacts DEF Wins, At, Begun, Labels
  <1>2. SpentKey(Key(g))
    BY DEF First, Paying, LiveInv, RequestOK, RequestIs, Spending, Key
  <1>3. PICK b \in Bindings :
          AuthorizedBy(b, Key(h)) /\ authorizations[b].status = "CONSUMED"
    BY <1>2 DEF SpentKey
  <1>4. /\ AuthorizedBy(Intent(h).binding, Key(h))
        /\ authorizations[Intent(h).binding].status = "ACTIVE"
    BY <1>1 DEF Wins, CanConsume, MatchesIntent, AuthorizedBy
  <1>5. b = Intent(h).binding
    BY <1>1, <1>3, <1>4 DEF LiveInv, StoreInv, OneBindingPerKey
  <1>6. QED
    BY <1>3, <1>4, <1>5

LEMMA FirstStep ==
  ASSUME LiveInv, OneFirstSubmission, [LiveNext]_liveVars
  PROVE  OneFirstSubmission'
  <1>1. \A g, h \in Handlers : First(g) /\ First(h) /\ Key(g) = Key(h) => g = h
    BY DEF OneFirstSubmission, First, Paying
  <1>2. ASSUME NEW g \in Handlers, NEW h \in Handlers,
               First(g)', First(h)', Key(g)' = Key(h)'
        PROVE  g = h
    <2>1. ASSUME NEW x \in Handlers, Begin(x) \/ Step(x) \/ StoreFault(x)
          PROVE  g = h
      <3>1. OthersStay(x)
        BY <2>1, RequestMoves
      <3>2. \A y \in Handlers : First(y)' =>
              /\ First(y) \/ (y = x /\ Wins(y))
              /\ handler'[y].intent = handler[y].intent
        BY <2>1, <3>1, FirstOrigin DEF OthersStay, First
      <3>3. Key(g) = Key(h)
        BY <1>2, <3>2 DEF Key
      <3>4. QED
        BY <1>1, <1>2, <3>2, <3>3, NoSecondWinner
    <2>2. CASE \/ \E x \in Handlers : CircleAccepts(x)
               \/ \E k \in Keys : CircleSettles(k) \/ ExpireRun(k)
               \/ Restart \/ Advance \/ UNCHANGED liveVars
      <3>1. handler'[g] = handler[g] /\ handler'[h] = handler[h]
        BY <1>2, <2>2, Background DEF First, Paying
      <3>2. QED
        BY <1>1, <1>2, <3>1 DEF First, Key
    <2>3. QED
      BY <2>1, <2>2 DEF LiveNext
  <1>3. QED
    BY <1>2 DEF OneFirstSubmission, First, Paying

(* Of all requests for a transfer, in every interleaving, restart and      *)
(* retry, at most one pays without asking Circle first what it knows.      *)
THEOREM OneSubmissionIsFirst == LiveSpec => []OneFirstSubmission
  <1>1. LiveInit => OneFirstSubmission
    BY DEF LiveInit, OneFirstSubmission, Fresh
  <1>2. LiveInv /\ OneFirstSubmission /\ [LiveNext]_liveVars => OneFirstSubmission'
    BY FirstStep
  <1>3. QED
    BY LiveInvariant, <1>1, <1>2, PTL DEF LiveSpec

-----------------------------------------------------------------------------
(* Answers                                                                 *)

(* What a request on its way to the answer has made durable.               *)
AnswerIs(q) ==
  /\ q.pc = "history" => q.result.status = "FAILED"
  /\ q.pc = "reconcile" => q.reconciled
  /\ q.pc \in Closing /\ q.result.status = "CONFIRMED" =>
       Recorded(q.intent.key, q.result)
  /\ q.pc = "respond" /\ q.result.status = "CONFIRMED" =>
       q.reconciled /\ ReconciledAs(q.intent.key) # {}

Durable(a) ==
  a.result.status = "CONFIRMED" =>
    a.reconciled /\ Recorded(a.key, a.result) /\ ReconciledAs(a.key) # {}

AnswersInv ==
  /\ \A h \in Handlers : AnswerIs(handler[h])
  /\ \A n \in 1 .. Len(handoffHistory) : Durable(handoffHistory[n])

LEMMA AnswerKept ==
  ASSUME StoreInv, [StoreNext]_storeVars, NEW q,
         q.pc \in Closing => q.intent.key \in Keys, AnswerIs(q)
  PROVE  AnswerIs(q)'
  <1>1. q.pc \in Closing /\ q.result.status = "CONFIRMED" => Recorded(q.intent.key, q.result)'
    BY ConfirmationIsLast DEF AnswerIs
  <1>2. q.pc = "respond" /\ q.result.status = "CONFIRMED" =>
          q.reconciled /\ ReconciledAs(q.intent.key)' # {}
    BY ReconciledStays DEF AnswerIs, Closing
  <1>3. QED
    BY <1>1, <1>2 DEF AnswerIs

LEMMA DurableKept ==
  ASSUME StoreInv, [StoreNext]_storeVars, NEW a \in HandoffResult, Durable(a)
  PROVE  Durable(a)'
  <1>1. a.key \in Keys
    BY DEF HandoffResult
  <1>2. a.result.status = "CONFIRMED" => Recorded(a.key, a.result)'
    BY <1>1, ConfirmationIsLast DEF Durable
  <1>3. a.result.status = "CONFIRMED" => ReconciledAs(a.key)' # {}
    BY <1>1, ReconciledStays DEF Durable
  <1>4. QED
    BY <1>2, <1>3 DEF Durable

(* Before the try block: what a request takes from the store is there.     *)
LEMMA AnswersBeforeTheTry ==
  ASSUME LiveInv, NEW h \in Handlers, AnswerIs(handler[h]),
         \/ LoadResult(h) \/ LoadHistory(h) \/ LoadReconciliation(h) \/ CheckAnswered(h)
  PROVE  AnswerIs(handler[h])'
  <1>1. /\ handler \in [Handlers -> Request] /\ handler[h] \in Request
        /\ handler[h].intent.key = Key(h)
    BY DEF LiveInv, Key
  <1>2. UNCHANGED <<resultHistory, reconciliations>>
    BY DEF LoadResult, LoadHistory, LoadReconciliation, CheckAnswered, Reads, storeVars,
      recordVars
  <1>3. ASSUME NEW pc, Go(h, pc)
        PROVE  /\ handler'[h].pc = pc
               /\ handler'[h].intent = handler[h].intent
               /\ handler'[h].result = handler[h].result
    BY <1>1, <1>3 DEF Go, Request
  <1>4. ASSUME NEW pc, NEW r, GoWith(h, pc, r)
        PROVE  /\ handler'[h].pc = pc
               /\ handler'[h].intent = handler[h].intent
               /\ handler'[h].result = r
    BY <1>1, <1>4 DEF GoWith, Request
  <1>5. CASE LoadResult(h)
    <2> DEFINE past == resultHistory[Key(h)]
    <2>1. CASE Go(h, "submit")
      BY <1>3, <2>1 DEF AnswerIs, Closing
    <2>2. CASE GoWith(h, "poll", Last(past))
      BY <1>4, <2>2 DEF AnswerIs, Closing
    <2>3. CASE past # <<>> /\ GoWith(h, "finished", Last(past))
      <3>1. /\ handler'[h].pc = "finished" /\ handler'[h].intent.key = Key(h)
            /\ handler'[h].result = Last(resultHistory'[Key(h)])
            /\ resultHistory'[Key(h)] # <<>>
        BY <1>1, <1>2, <1>4, <2>3
      <3>2. QED
        BY <3>1 DEF AnswerIs, Recorded
    <2>4. CASE Last(past).status = "FAILED" /\ GoWith(h, "history", Last(past))
      <3>1. handler'[h].pc = "history" /\ handler'[h].result.status = "FAILED"
        BY <1>4, <2>4
      <3>2. QED
        BY <3>1 DEF AnswerIs
    <2>5. QED
      BY <1>5, <2>1, <2>2, <2>3, <2>4 DEF LoadResult
  <1>6. CASE LoadHistory(h)
    <2>1. handler[h].result.status = "FAILED"
      BY <1>6 DEF LoadHistory, At, AnswerIs
    <2>2. handler'[h].pc \in {"claim", "finished"} /\ handler'[h].result = handler[h].result
      BY <1>3, <1>6 DEF LoadHistory
    <2>3. QED
      BY <2>1, <2>2 DEF AnswerIs
  <1>7. CASE LoadReconciliation(h)
    <2>1. PICK q : q = [handler[h] EXCEPT !.pc = "answered",
                                          !.reconciled = ReconciledAs(Key(h)) # {}]
      OBVIOUS
    <2>2. q.pc = "answered" /\ q.intent = handler[h].intent /\ q.result = handler[h].result
      BY <1>1, <2>1 DEF Request
    <2>3. handler'[h] = q
      BY <1>1, <1>7, <2>1 DEF LoadReconciliation, Becomes
    <2>4. handler[h].pc = "finished"
      BY <1>7 DEF LoadReconciliation, At
    <2>5. QED
      BY <1>2, <2>2, <2>3, <2>4 DEF AnswerIs, Closing, Recorded
  <1>8. CASE CheckAnswered(h)
    <2>1. /\ handler'[h].pc \in {"throw", "finish"} /\ handler[h].pc = "answered"
          /\ handler'[h].intent = handler[h].intent
          /\ handler'[h].result = handler[h].result
      BY <1>3, <1>8 DEF CheckAnswered, At
    <2>2. QED
      BY <1>2, <2>1 DEF AnswerIs, Closing, Recorded
  <1>9. QED
    BY <1>5, <1>6, <1>7, <1>8

(* After it: what a request answers was recorded, and reconciled.          *)
LEMMA AnswersAtTheEnd ==
  ASSUME LiveInv, NEW h \in Handlers, AnswerIs(handler[h]), [StoreNext]_storeVars,
         Finish(h) \/ Reconcile(h)
  PROVE  AnswerIs(handler[h])'
  <1>1. /\ handler \in [Handlers -> Request] /\ handler[h] \in Request
        /\ handler[h].intent.key = Key(h)
    BY DEF LiveInv, Key
  <1>2. handler[h].pc \in {"finish", "reconcile"}
    BY DEF Finish, Reconcile, At
  <1>3. Key(h) \in Keys /\ StoreInv /\ RequestIs(h, handler[h])
    BY <1>2, RequestFacts DEF Begun, Labels, LiveInv
  <1>4. PICK p : p = handler[h]
    OBVIOUS
  <1>5. /\ p.intent.key = Key(h) /\ p.intent.key \in Keys /\ p \in Request
        /\ p.result.status = "CONFIRMED" => Recorded(p.intent.key, p.result)
    BY <1>1, <1>2, <1>3, <1>4 DEF AnswerIs, Closing
  <1>6. p.result.status = "CONFIRMED" => Recorded(p.intent.key, p.result)'
    BY <1>3, <1>5, ConfirmationIsLast
  <1>7. ASSUME NEW q, q.intent = p.intent, q.result = p.result, handler'[h] = q,
               q.pc \in {"reconcile", "respond", "throw"},
               q.pc = "reconcile" => q.reconciled,
               q.pc = "respond" /\ p.result.status = "CONFIRMED" =>
                 q.reconciled /\ ReconciledAs(p.intent.key)' # {}
        PROVE  AnswerIs(handler[h])'
    <2>1. AnswerIs(q)'
      BY <1>6, <1>7 DEF AnswerIs
    <2>2. QED
      BY <1>7, <2>1 DEF AnswerIs, Recorded, ReconciledAs
  <1>8. CASE Finish(h)
    <2>1. PICK confirmed \in BOOLEAN : confirmed = (p.result.status = "CONFIRMED")
      OBVIOUS
    <2>2. PICK pc : pc = IF confirmed /\ ReconciledAs(Key(h)) = {}
                           THEN "reconcile" ELSE "respond"
      OBVIOUS
    <2>3. PICK q : q = [p EXCEPT !.pc = pc, !.reconciled = confirmed]
      OBVIOUS
    <2>4. handler'[h] = q
      BY <1>1, <1>4, <1>8, <2>1, <2>2, <2>3 DEF Finish, Becomes
    <2>5. /\ q.pc = pc /\ q.reconciled = confirmed
          /\ q.intent = p.intent /\ q.result = p.result
      BY <1>5, <2>3 DEF Request
    <2>6. ReconciledAs(p.intent.key)' = ReconciledAs(p.intent.key)
      BY <1>8 DEF Finish, Reads, storeVars, recordVars, ReconciledAs
    <2>7. pc = "reconcile" => confirmed
      BY <2>2
    <2>8. pc = "respond" /\ confirmed => ReconciledAs(p.intent.key)' # {}
      BY <1>5, <2>2, <2>6
    <2>9. pc \in {"reconcile", "respond"}
      BY <2>2
    <2>10. QED
      BY <1>7, <2>1, <2>4, <2>5, <2>7, <2>8, <2>9
  <1>9. CASE Reconcile(h)
    <2>1. p.pc = "reconcile" /\ p.reconciled /\ p.result.status = "CONFIRMED"
      BY <1>3, <1>4, <1>9 DEF Reconcile, At, AnswerIs, RequestIs
    <2>2. PICK r : r = [key |-> Key(h), op |-> p.result.op, evidence |-> p.result.evidence]
      OBVIOUS
    <2>3. r.key = p.intent.key /\ r \in Reconciliation
      <3>1. p.result \in TransferResult
        BY <1>3, <1>4, <2>1, RequestFacts DEF RequestIs, Begun, Answering, Labels
      <3>2. p.result.op \in Ops /\ p.result.evidence \in Evidence
        BY <2>1, <3>1 DEF TransferResult
      <3>3. QED
        BY <1>5, <2>2, <3>2 DEF Reconciliation
    <2>4. ASSUME NEW pc \in {"respond", "throw"}, Go(h, pc),
                 pc = "respond" => ReconciledAs(p.intent.key)' # {}
          PROVE  AnswerIs(handler[h])'
      <3>1. PICK q : q = [p EXCEPT !.pc = pc]
        OBVIOUS
      <3>2. /\ handler'[h] = q /\ q.pc = pc /\ q.intent = p.intent
            /\ q.result = p.result /\ q.reconciled = p.reconciled
        BY <1>1, <1>4, <1>5, <2>4, <3>1 DEF Go, Request
      <3>3. QED
        BY <1>7, <2>1, <2>4, <3>2
    <2>5. CASE RecordReconciliation(r) /\ Go(h, "respond")
      <3>1. ReconciledAs(p.intent.key)' # {}
        BY <1>3, <1>5, <2>3, <2>5, ReconciledNow
      <3>2. QED
        BY <2>4, <2>5, <3>1
    <2>6. CASE AlreadyReconciled(r) /\ Go(h, "respond") /\ UNCHANGED storeVars
      <3>1. ReconciledAs(p.intent.key)' # {}
        BY <2>3, <2>6 DEF AlreadyReconciled, ReconciledAs, storeVars, recordVars
      <3>2. QED
        BY <2>4, <2>6, <3>1
    <2>7. CASE Go(h, "throw")
      BY <2>4, <2>7
    <2>8. QED
      BY <1>4, <1>9, <2>2, <2>5, <2>6, <2>7 DEF Reconcile
  <1>10. QED
    BY <1>8, <1>9

LEMMA AnswerStep ==
  ASSUME LiveInv, NEW h \in Handlers, AnswerIs(handler[h]), [StoreNext]_storeVars,
         Begin(h) \/ Step(h) \/ StoreFault(h)
  PROVE  AnswerIs(handler[h])'
  <1>1. handler \in [Handlers -> Request] /\ handler[h] \in Request
    BY DEF LiveInv
  <1>2. ASSUME handler'[h].pc \notin Closing \cup {"history"}
        PROVE  AnswerIs(handler[h])'
    BY <1>2 DEF AnswerIs, Closing
  <1>3. CASE \/ Begin(h) \/ StoreFault(h)
             \/ PersistApproval(h) \/ LoadApproval(h) \/ Claim(h) \/ Prepare(h)
             \/ Submit(h) \/ ListTransactions(h) \/ Reload(h)
             \/ CreateTransaction(h) \/ AwaitCreate(h) \/ Poll(h) \/ Catch(h)
             \/ Respond(h) \/ Return(h) \/ CircleFault(h)
    BY <1>2, <1>3, Elsewhere
  <1>4. CASE LoadResult(h) \/ LoadHistory(h) \/ LoadReconciliation(h) \/ CheckAnswered(h)
    BY <1>4, AnswersBeforeTheTry
  <1>5. CASE CheckBalance(h) \/ ConsumeApproval(h) \/ Revalidate(h)
    <2>1. ASSUME NEW pc, Go(h, pc)
          PROVE  handler'[h].pc = pc
      BY <1>1, <2>1 DEF Go, Request
    <2>2. ASSUME NEW pc, NEW r, GoWith(h, pc, r)
          PROVE  handler'[h].pc = pc
      BY <1>1, <2>2 DEF GoWith, Request
    <2>3. handler'[h].pc \in {"recordSubmitted", "create", "reload", "revalidate"}
      BY <1>5, <2>1, <2>2 DEF CheckBalance, ConsumeApproval, Revalidate
    <2>4. QED
      BY <1>2, <2>3 DEF Closing
  <1>6. CASE \/ RecordPrepared(h) \/ RecordSubmitted(h) \/ RecordPolled(h)
             \/ RecordOutcome(h)
    <2>1. handler[h].pc \in Begun /\ handler[h].result # None
      BY <1>6 DEF RecordPrepared, RecordSubmitted, RecordPolled, RecordOutcome, At,
        LiveInv, RequestOK, RequestIs, Begun, Answering, Labels
    <2>2. PICK next \in {"submit", "finish", "poll"}, onError \in {"catch", "throw"} :
            Record(h, next, onError) \/ CompleteOwnClaim(h, next, onError)
      BY <1>6 DEF RecordPrepared, RecordSubmitted, RecordPolled, RecordOutcome
    <2>3. /\ handler'[h].pc \in {next, onError}
          /\ handler'[h].intent = handler[h].intent
          /\ handler'[h].result = handler[h].result
          /\ handler'[h].pc = next => Recorded(Key(h), handler[h].result)'
      BY <2>1, <2>2, RecordLands
    <2>4. QED
      BY <2>3 DEF AnswerIs, Closing, Key
  <1>7. CASE Finish(h) \/ Reconcile(h)
    BY <1>7, AnswersAtTheEnd
  <1>8. QED
    BY <1>3, <1>4, <1>5, <1>6, <1>7 DEF Step

(* The answers given are only added to, and only by the respond step.      *)
LEMMA HandoffsAppended ==
  ASSUME LiveInv, [LiveNext]_liveVars
  PROVE  \/ UNCHANGED handoffHistory
         \/ \E h \in Handlers : Respond(h)
  <1>1. ASSUME NEW h \in Handlers, Begin(h) \/ StoreFault(h) \/ CircleAccepts(h)
        PROVE  UNCHANGED handoffHistory
    BY <1>1 DEF Begin, Execute, Recover, StoreFault, CircleAccepts, Reads, storeVars,
      recordVars
  <1>2. ASSUME NEW h \in Handlers, Step(h), ~Respond(h)
        PROVE  UNCHANGED handoffHistory
    <2>1. CASE \/ LoadApproval(h) \/ LoadResult(h) \/ LoadHistory(h)
               \/ LoadReconciliation(h) \/ CheckAnswered(h)
               \/ Prepare(h) \/ Submit(h) \/ ListTransactions(h) \/ CheckBalance(h)
               \/ Reload(h) \/ Revalidate(h) \/ AwaitCreate(h)
               \/ Poll(h) \/ Catch(h) \/ Finish(h) \/ CircleFault(h)
      BY <2>1 DEF LoadApproval, LoadResult, LoadHistory, LoadReconciliation, CheckAnswered,
        Prepare, Submit, ListTransactions, CheckBalance, Reload, Revalidate, AwaitCreate,
        Poll, Catch, Finish, CircleFault, Reads, storeVars, recordVars
    <2>2. CASE \/ RecordPrepared(h) \/ RecordSubmitted(h) \/ RecordPolled(h)
               \/ RecordOutcome(h)
      <3>1. ASSUME NEW a, NEW b, Record(h, a, b) \/ CompleteOwnClaim(h, a, b)
            PROVE  UNCHANGED handoffHistory
        BY <3>1 DEF Record, RecordResult, CompleteOwnClaim, CompleteClaim, storeVars,
          recordVars
      <3>2. QED
        BY <2>2, <3>1 DEF RecordPrepared, RecordSubmitted, RecordPolled, RecordOutcome
    <2>3. CASE PersistApproval(h) \/ Claim(h) \/ ConsumeApproval(h) \/ Reconcile(h)
      BY <2>3 DEF PersistApproval, Persist, Claim, ClaimRetry, ConsumeApproval, Consume,
        Reconcile, RecordReconciliation, storeVars, recordVars
    <2>4. CASE CreateTransaction(h) \/ Return(h)
      BY <2>4 DEF CreateTransaction, Return, storeVars, recordVars
    <2>5. QED
      BY <1>2, <2>1, <2>2, <2>3, <2>4 DEF Step
  <1>3. CASE \/ \E k \in Keys : CircleSettles(k) \/ ExpireRun(k)
             \/ Restart \/ Advance \/ UNCHANGED liveVars
    BY <1>3 DEF CircleSettles, ExpireRun, Restart, Advance, Tick, liveVars, storeVars,
      recordVars
  <1>4. QED
    BY <1>1, <1>2, <1>3 DEF LiveNext

LEMMA RequestsAnswer ==
  ASSUME LiveInv, AnswersInv, [LiveNext]_liveVars
  PROVE  (\A g \in Handlers : AnswerIs(handler[g]))'
  <1>1. [StoreNext]_storeVars
    BY LiveStep
  <1>2. ASSUME NEW g \in Handlers, handler'[g] = handler[g]
        PROVE  AnswerIs(handler[g])'
    <2>1. PICK q : q = handler[g]
      OBVIOUS
    <2>2. q.pc \in Closing => q.intent.key \in Keys
      <3>1. q.pc \in Closing => q.pc \in Begun
        BY DEF Closing, Begun, Labels
      <3>2. QED
        BY <2>1, <3>1, RequestFacts DEF Key
    <2>3. AnswerIs(q)
      BY <2>1 DEF AnswersInv
    <2>4. AnswerIs(q)'
      BY <1>1, <2>2, <2>3, AnswerKept DEF LiveInv
    <2>5. QED
      BY <1>2, <2>1, <2>4 DEF AnswerIs, Recorded, ReconciledAs
  <1>3. ASSUME NEW x \in Handlers, Begin(x) \/ Step(x) \/ StoreFault(x)
        PROVE  \A g \in Handlers : AnswerIs(handler[g])'
    <2>1. OthersStay(x)
      BY <1>3, RequestMoves
    <2>2. AnswerIs(handler[x])'
      BY <1>1, <1>3, AnswerStep DEF AnswersInv
    <2>3. QED
      BY <1>2, <2>1, <2>2 DEF OthersStay
  <1>4. CASE \/ \E x \in Handlers : CircleAccepts(x)
             \/ \E k \in Keys : CircleSettles(k) \/ ExpireRun(k)
             \/ Restart \/ Advance \/ UNCHANGED liveVars
    <2>1. \A g \in Handlers : handler'[g] = handler[g] \/ handler'[g].pc = "done"
      BY <1>4, Background
    <2>2. ASSUME NEW g \in Handlers, handler'[g].pc = "done"
          PROVE  AnswerIs(handler[g])'
      BY <2>2 DEF AnswerIs, Closing
    <2>3. QED
      BY <1>2, <2>1, <2>2
  <1>5. QED
    BY <1>3, <1>4 DEF LiveNext

LEMMA AnswersStay ==
  ASSUME LiveInv, AnswersInv, [LiveNext]_liveVars
  PROVE  (\A n \in 1 .. Len(handoffHistory) : Durable(handoffHistory[n]))'
  <1>1. [StoreNext]_storeVars /\ StoreInv /\ handoffHistory \in Seq(HandoffResult)
    BY LiveStep DEF LiveInv, StoreInv, StoreTypeOK
  <1>2. ASSUME NEW n \in 1 .. Len(handoffHistory), handoffHistory'[n] = handoffHistory[n]
        PROVE  Durable(handoffHistory[n])'
    <2>1. PICK a \in HandoffResult : a = handoffHistory[n]
      BY <1>1
    <2>2. Durable(a)
      BY <2>1 DEF AnswersInv
    <2>3. Durable(a)'
      BY <1>1, <2>2, DurableKept
    <2>4. QED
      BY <1>2, <2>1, <2>3 DEF Durable, Recorded, ReconciledAs
  <1>3. CASE UNCHANGED handoffHistory
    BY <1>2, <1>3
  <1>4. ASSUME NEW h \in Handlers, Respond(h)
        PROVE  \A n \in 1 .. Len(handoffHistory') : Durable(handoffHistory[n])'
    <2>1. handler[h].pc = "respond" /\ handler[h].pc \in Begun \cap Answering
      BY <1>4 DEF Respond, At, Begun, Answering, Labels
    <2>2. /\ RequestIs(h, handler[h]) /\ Key(h) \in Keys /\ handler[h] \in Request
          /\ handler[h].result \in TransferResult
      BY <2>1, RequestFacts DEF RequestIs
    <2>3. PICK a : a = [key |-> Key(h), result |-> handler[h].result,
                        reconciled |-> handler[h].reconciled]
      OBVIOUS
    <2>4. a \in HandoffResult /\ Durable(a)
      <3>1. a \in HandoffResult
        BY <2>2, <2>3 DEF HandoffResult, Request
      <3>2. AnswerIs(handler[h])
        BY DEF AnswersInv
      <3>3. Durable(a)
        BY <2>1, <2>3, <3>2 DEF AnswerIs, Durable, Closing, Key
      <3>4. QED
        BY <3>1, <3>3
    <2>5. Durable(a)'
      BY <1>1, <2>4, DurableKept
    <2>6. handoffHistory' = Append(handoffHistory, a)
      BY <1>4, <2>3 DEF Respond, RecordHandoff
    <2>7. /\ Len(handoffHistory) \in Nat
          /\ Len(handoffHistory') = Len(handoffHistory) + 1
          /\ \A n \in 1 .. Len(handoffHistory) : handoffHistory'[n] = handoffHistory[n]
          /\ handoffHistory'[Len(handoffHistory) + 1] = a
      BY <1>1, <2>4, <2>6, AppendFacts
    <2>8. TAKE n \in 1 .. Len(handoffHistory')
    <2>9. CASE n \in 1 .. Len(handoffHistory)
      BY <1>2, <2>7, <2>9
    <2>10. CASE n = Len(handoffHistory) + 1
      <3>1. a = handoffHistory'[n]
        BY <2>7, <2>10
      <3>2. QED
        BY <2>5, <3>1 DEF Durable, Recorded, ReconciledAs
    <2>11. QED
      BY <2>7, <2>8, <2>9, <2>10
  <1>5. QED
    BY <1>3, <1>4, HandoffsAppended

(* One settled reconciliation: it is the one of the confirmed result.      *)
LEMMA DurableAnswers ==
  ASSUME StoreInv, \A n \in 1 .. Len(handoffHistory) : Durable(handoffHistory[n])
  PROVE  ConfirmedAnswerIsDurable
  <1> SUFFICES ASSUME NEW n \in 1 .. Len(handoffHistory),
                      handoffHistory[n].result.status = "CONFIRMED"
               PROVE  LET a == handoffHistory[n] IN
                      /\ a.reconciled
                      /\ ReconciledAs(a.key) =
                           {[key |-> a.key, op |-> a.result.op,
                             evidence |-> a.result.evidence]}
                      /\ Last(resultHistory[a.key]) = a.result
    BY DEF ConfirmedAnswerIsDurable
  <1>1. PICK a \in HandoffResult : a = handoffHistory[n]
    BY DEF StoreInv, StoreTypeOK
  <1>2. a.reconciled /\ Recorded(a.key, a.result) /\ ReconciledAs(a.key) # {}
    BY <1>1 DEF Durable
  <1>3. ASSUME NEW r \in ReconciledAs(a.key)
        PROVE  r = [key |-> a.key, op |-> a.result.op, evidence |-> a.result.evidence]
    <2>1. PICK m \in 1 .. Len(reconciliations) :
            reconciliations[m].key = a.key /\ r = reconciliations[m]
      BY <1>3 DEF ReconciledAs
    <2>2. ConfirmedAs(r) /\ r \in Reconciliation /\ r.key = a.key
      BY <2>1 DEF StoreInv, StoreTypeOK, ReconciliationsSettled
    <2>3. a.result = [status |-> "CONFIRMED", op |-> r.op, evidence |-> r.evidence]
      BY <1>2, <2>2 DEF ConfirmedAs, Recorded
    <2>4. r.op = a.result.op /\ r.evidence = a.result.evidence
      BY <2>3
    <2>5. QED
      BY <2>2, <2>4 DEF Reconciliation
  <1>4. ReconciledAs(a.key) =
          {[key |-> a.key, op |-> a.result.op, evidence |-> a.result.evidence]}
    BY <1>2, <1>3
  <1>5. QED
    BY <1>1, <1>2, <1>4 DEF Recorded

(* A caller who was told HANDOFF_CONFIRMED finds the confirmation and its  *)
(* one reconciliation in the store, whatever raced, crashed or retried.    *)
THEOREM ConfirmationsAreDurable == LiveSpec => []ConfirmedAnswerIsDurable
  <1>1. LiveInit => AnswersInv
    BY DEF LiveInit, StoreInit, AnswersInv, AnswerIs, Closing, Fresh
  <1>2. LiveInv /\ AnswersInv /\ [LiveNext]_liveVars => AnswersInv'
    BY RequestsAnswer, AnswersStay DEF AnswersInv
  <1>3. LiveInv /\ AnswersInv => ConfirmedAnswerIsDurable
    BY DurableAnswers DEF LiveInv, AnswersInv
  <1>4. QED
    BY LiveInvariant, <1>1, <1>2, <1>3, PTL DEF LiveSpec

-----------------------------------------------------------------------------
(* Claims                                                                  *)

Active(h) == handler[h].pc \in Begun

(* The first attempt of a transfer, which is made without a claim; and     *)
(* where the results of later steps are recorded.                          *)
FirstTry(h)    == handler[h].pc \in {"prepare", "recordPrepared"} /\ ~handler[h].claimed
AfterPreparing == {"recordSubmitted", "recordPolled", "recordOutcome"}

(* Nothing is recorded of a transfer that was never approved.              *)
HistoryApproved ==
  \A k \in Keys : resultHistory[k] # <<>> => \E b \in Bindings : AuthorizedBy(b, k)

(* Only the preparation of a transfer is recorded as prepared.             *)
PreparedFirst ==
  \A h \in Handlers :
    handler[h].pc \in AfterPreparing => handler[h].result.status # "PREPARED"

(* While a run is kept, one request has it reserved and is alone with it.  *)
OnePerRun ==
  \A g, h \in Handlers :
    Active(g) /\ Active(h) /\ Key(g) = Key(h) /\ runs[Key(h)] # None =>
      g = h /\ runs[Key(h)].reserved = Intent(h).binding

(* And before its retention ends it goes with a restart only: whoever is   *)
(* there without a run has recovered the transfer from a stored approval,  *)
(* and a first attempt has its run and an empty history.                   *)
WhileRunsAreKept ==
  clock < RunExpiry =>
    \A h \in Handlers :
      /\ Active(h) /\ runs[Key(h)] = None => MatchesIntent(Intent(h))
      /\ FirstTry(h) => runs[Key(h)] # None /\ resultHistory[Key(h)] = <<>>

RequestsInv == PreparedFirst /\ OnePerRun /\ WhileRunsAreKept

ClaimsInv == ClaimsCanBeTakenOver /\ HistoryApproved /\ RequestsInv

(* A step of a request that stays under way and begins a first attempt     *)
(* where there was none only.                                              *)
Proceeds(x) ==
  /\ handler[x].pc \in Begun /\ handler'[x].pc \in Begun
  /\ handler'[x].intent = handler[x].intent
  /\ FirstTry(x)' => \/ FirstTry(x)
                     \/ clock < RunExpiry =>
                          runs[Key(x)] # None /\ resultHistory[Key(x)] = <<>>
  /\ handler'[x].pc \in AfterPreparing => handler'[x].result.status # "PREPARED"
  /\ UNCHANGED <<runs, clock>>

LEMMA ApprovalKept ==
  ASSUME StoreInv, [StoreNext]_storeVars, NEW i \in Intents, MatchesIntent(i)
  PROVE  MatchesIntent(i)'
  <1>1. i.binding \in Bindings /\ i.key \in Keys
    BY DEF Intents
  <1>2. AuthorizedBy(i.binding, i.key)
    BY DEF MatchesIntent, AuthorizedBy
  <1>3. AuthorizedBy(i.binding, i.key)'
    BY <1>1, <1>2, ApprovalsPersist
  <1>4. QED
    BY <1>3 DEF MatchesIntent, AuthorizedBy

LEMMA RequestsProceed ==
  ASSUME LiveInv, RequestsInv, [StoreNext]_storeVars, NEW x \in Handlers,
         OthersStay(x), Proceeds(x),
         \A k \in Keys : resultHistory'[k] # resultHistory[k] => k = Key(x) /\ ~FirstTry(x)'
  PROVE  RequestsInv'
  <1>1. \A y \in Handlers : /\ handler'[y].intent = handler[y].intent
                            /\ handler'[y].pc \in Begun <=> handler[y].pc \in Begun
    BY DEF OthersStay, Proceeds
  <1>2. \A y \in Handlers : /\ Key(y)' = Key(y) /\ Intent(y)' = Intent(y)
                            /\ Active(y)' <=> Active(y)
    BY <1>1 DEF Key, Intent, Active
  <1>3. PreparedFirst'
    BY DEF RequestsInv, PreparedFirst, OthersStay, Proceeds
  <1>4. OnePerRun'
    BY <1>2 DEF RequestsInv, OnePerRun, Proceeds
  <1>5. \A y \in Handlers : FirstTry(y)' /\ clock < RunExpiry =>
          Active(y) /\ runs[Key(y)] # None /\ resultHistory[Key(y)] = <<>>
    <2>1. \A y \in Handlers : FirstTry(y)' => Active(y)
      BY <1>2 DEF FirstTry, Active, Begun, Labels
    <2>2. \A y \in Handlers : FirstTry(y) /\ clock < RunExpiry =>
            runs[Key(y)] # None /\ resultHistory[Key(y)] = <<>>
      BY DEF RequestsInv, WhileRunsAreKept
    <2>3. \A y \in Handlers \ {x} : FirstTry(y)' => FirstTry(y)
      BY DEF OthersStay, FirstTry
    <2>4. QED
      BY <2>1, <2>2, <2>3 DEF Proceeds
  <1>6. ASSUME clock < RunExpiry, NEW y \in Handlers
        PROVE  /\ Active(y)' /\ runs'[Key(y)'] = None => MatchesIntent(Intent(y))'
               /\ FirstTry(y)' => runs'[Key(y)'] # None /\ resultHistory'[Key(y)'] = <<>>
    <2>1. ASSUME Active(y)', runs'[Key(y)'] = None
          PROVE  MatchesIntent(Intent(y))'
      <3>1. Active(y) /\ runs[Key(y)] = None
        BY <1>2, <2>1 DEF Proceeds
      <3>2. MatchesIntent(Intent(y)) /\ Intent(y) \in Intents
        BY <1>6, <3>1, RequestFacts DEF RequestsInv, WhileRunsAreKept, Active
      <3>3. PICK i \in Intents : i = Intent(y)
        BY <3>2
      <3>4. MatchesIntent(i)'
        BY <3>2, <3>3, ApprovalKept DEF LiveInv
      <3>5. QED
        BY <1>2, <3>3, <3>4 DEF MatchesIntent
    <2>2. ASSUME FirstTry(y)'
          PROVE  runs'[Key(y)'] # None /\ resultHistory'[Key(y)'] = <<>>
      <3>1. Active(y) /\ runs[Key(y)] # None /\ resultHistory[Key(y)] = <<>>
        BY <1>5, <1>6, <2>2
      <3>2. Key(y) \in Keys
        BY <3>1, RequestFacts DEF Active
      <3>3. resultHistory'[Key(y)] # resultHistory[Key(y)] => y = x
        BY <3>1, <3>2 DEF RequestsInv, OnePerRun, Proceeds, Active
      <3>4. resultHistory'[Key(y)] = resultHistory[Key(y)]
        BY <2>2, <3>2, <3>3
      <3>5. QED
        BY <1>2, <3>1, <3>4 DEF Proceeds
    <2>3. QED
      BY <2>1, <2>2
  <1>7. WhileRunsAreKept'
    BY <1>6 DEF WhileRunsAreKept, Proceeds
  <1>8. QED
    BY <1>3, <1>4, <1>7 DEF RequestsInv

(* The store's part, when neither the histories nor the claims change.     *)
LEMMA RecordStays ==
  ASSUME LiveInv, ClaimsInv, [StoreNext]_storeVars,
         UNCHANGED <<resultHistory, retryClaims>>
  PROVE  ClaimsCanBeTakenOver' /\ HistoryApproved'
  <1>1. ClaimsCanBeTakenOver'
    <2>1. clock <= clock' /\ clock \in Nat /\ clock' \in Nat /\ RunExpiry \in Nat
      BY ApprovalsPersist, StoreStep, NatAssumption, LiveAssumption
      DEF LiveInv, StoreInv, StoreTypeOK, Times
    <2>2. QED
      BY <2>1 DEF ClaimsInv, ClaimsCanBeTakenOver
  <1>2. HistoryApproved'
    BY ApprovalsPersist DEF LiveInv, ClaimsInv, HistoryApproved
  <1>3. QED
    BY <1>1, <1>2

LEMMA GoFacts ==
  ASSUME LiveInv, NEW h \in Handlers, NEW pc, Go(h, pc)
  PROVE  /\ handler'[h].pc = pc
         /\ handler'[h].intent = handler[h].intent
         /\ handler'[h].result = handler[h].result
         /\ handler'[h].claimed = handler[h].claimed
  BY DEF LiveInv, Go, Request

LEMMA GoWithFacts ==
  ASSUME LiveInv, NEW h \in Handlers, NEW pc, NEW r, GoWith(h, pc, r)
  PROVE  /\ handler'[h].pc = pc
         /\ handler'[h].intent = handler[h].intent
         /\ handler'[h].result = r
         /\ handler'[h].claimed = handler[h].claimed
  BY DEF LiveInv, GoWith, Request

(* A request that goes to a label with its own or with another result.     *)
LEMMA Going ==
  ASSUME LiveInv, NEW h \in Handlers, handler[h].pc \in Begun, NEW pc \in Begun,
         UNCHANGED <<runs, clock>>,
         pc \notin {"prepare", "recordPrepared"} \/ handler[h].pc = "prepare",
         \/ Go(h, pc) /\ pc \notin AfterPreparing
         \/ \E r : GoWith(h, pc, r) /\ (pc \in AfterPreparing => r.status # "PREPARED")
  PROVE  Proceeds(h)
  BY GoFacts, GoWithFacts DEF Proceeds, FirstTry

(* The same for a request of which other fields change.                    *)
LEMMA Becoming ==
  ASSUME LiveInv, NEW h \in Handlers, handler[h].pc \in Begun, NEW q \in Request, Becomes(h, q),
         UNCHANGED <<runs, clock>>,
         q.pc \in Begun \ AfterPreparing, q.intent = handler[h].intent,
         q.pc \notin {"prepare", "recordPrepared"} \/ q.claimed
  PROVE  Proceeds(h)
  BY BecomesLands DEF Proceeds, FirstTry

Quiet(h) == Proceeds(h) /\ UNCHANGED <<resultHistory, retryClaims>>

LEMMA QuietReads ==
  ASSUME LiveInv, NEW h \in Handlers,
         \/ LoadApproval(h) \/ LoadResult(h) \/ LoadHistory(h) \/ LoadReconciliation(h)
         \/ CheckAnswered(h) \/ Prepare(h) \/ Submit(h) \/ ListTransactions(h)
         \/ CheckBalance(h) \/ Reload(h) \/ Revalidate(h) \/ AwaitCreate(h)
         \/ Poll(h) \/ Catch(h) \/ Finish(h) \/ CircleFault(h)
  PROVE  Quiet(h)
  <1>1. UNCHANGED <<runs, clock, resultHistory, retryClaims>>
    BY DEF LoadApproval, LoadResult, LoadHistory, LoadReconciliation, CheckAnswered, Prepare,
      Submit, ListTransactions, CheckBalance, Reload, Revalidate, AwaitCreate, Poll, Catch,
      Finish, CircleFault, Reads, storeVars, recordVars, outerVars
  <1>2. handler[h].pc \in Begun /\ handler[h] \in Request
    BY DEF LoadApproval, LoadResult, LoadHistory, LoadReconciliation, CheckAnswered, Prepare,
      Submit, ListTransactions, CheckBalance, Reload, Revalidate, AwaitCreate, Poll, Catch,
      Finish, CircleFault, At, Begun, Labels, LiveInv
  <1>3. /\ Labels \ {"idle", "done"} = Begun /\ AfterPreparing \subseteq Begun
        /\ \A op : Failed(op).status # "PREPARED" /\ Submitted(op).status # "PREPARED"
    BY DEF Begun, Labels, AfterPreparing, Failed, Submitted
  <1>4. CASE LoadHistory(h) \/ CheckAnswered(h) \/ CircleFault(h)
    <2>1. PICK pc \in Begun \ (AfterPreparing \cup {"prepare", "recordPrepared"}) : Go(h, pc)
      BY <1>4 DEF LoadHistory, CheckAnswered, CircleFault, Begun, Labels, AfterPreparing
    <2>2. QED
      BY <1>1, <1>2, <2>1, Going DEF Quiet
  <1>5. CASE LoadResult(h)
    <2>1. PICK pc \in {"submit", "poll", "finished", "history"} :
            Go(h, pc) \/ \E r : GoWith(h, pc, r)
      BY <1>5 DEF LoadResult
    <2>2. pc \in Begun \ (AfterPreparing \cup {"prepare", "recordPrepared"})
      BY DEF Begun, Labels, AfterPreparing
    <2>3. QED
      BY <1>1, <1>2, <2>1, <2>2, Going DEF Quiet
  <1>6. CASE Prepare(h)
    <2>1. \E r : GoWith(h, "recordPrepared", r)
      BY <1>6 DEF Prepare
    <2>2. /\ "recordPrepared" \in Begun /\ "recordPrepared" \notin AfterPreparing
          /\ handler[h].pc = "prepare"
      BY <1>6 DEF Prepare, At, Begun, Labels, AfterPreparing
    <2>3. QED
      BY <1>1, <1>2, <2>1, <2>2, Going DEF Quiet
  <1>7. CASE ListTransactions(h) \/ CheckBalance(h) \/ Revalidate(h) \/ AwaitCreate(h)
    <2>1. \/ \E pc \in {"balance", "create", "reload"} : Go(h, pc)
          \/ \E r : GoWith(h, "recordSubmitted", r) /\ r.status # "PREPARED"
      BY <1>3, <1>7 DEF ListTransactions, CheckBalance, Revalidate, AwaitCreate
    <2>2. /\ {"balance", "create", "reload"} \subseteq
               Begun \ (AfterPreparing \cup {"prepare", "recordPrepared"})
          /\ "recordSubmitted" \in Begun \ {"prepare", "recordPrepared"}
      BY DEF Begun, Labels, AfterPreparing
    <2>3. QED
      BY <1>1, <1>2, <2>1, <2>2, Going DEF Quiet
  <1>8. CASE Poll(h) \/ Catch(h)
    <2>1. Outcome(h).status # "PREPARED"
      BY <1>3 DEF Outcome
    <2>2. \/ Go(h, "throw")
          \/ \E r : GoWith(h, "recordPolled", r) /\ r.status # "PREPARED"
          \/ \E r : GoWith(h, "recordOutcome", r) /\ r.status # "PREPARED"
      BY <1>3, <1>8, <2>1 DEF Poll, Catch
    <2>3. /\ "throw" \in Begun \ (AfterPreparing \cup {"prepare", "recordPrepared"})
          /\ {"recordPolled", "recordOutcome"} \subseteq Begun \ {"prepare", "recordPrepared"}
      BY DEF Begun, Labels, AfterPreparing
    <2>4. QED
      BY <1>1, <1>2, <2>2, <2>3, Going DEF Quiet
  <1>9. ASSUME NEW pc \in {"result", "answered", "list", "balance", "consume", "reconcile", "respond"},
               NEW b \in BOOLEAN, NEW q, Becomes(h, q),
               \/ q = [handler[h] EXCEPT !.pc = pc, !.consumed = b]
               \/ q = [handler[h] EXCEPT !.pc = pc, !.reconciled = b]
               \/ q = [handler[h] EXCEPT !.pc = pc, !.asOf = clock]
        PROVE  Quiet(h)
    <2>1. clock \in Times
      BY DEF LiveInv, StoreInv, StoreTypeOK
    <2>2. pc \in Begun \ (AfterPreparing \cup {"prepare", "recordPrepared"}) /\ pc \in Labels
      BY DEF Begun, Labels, AfterPreparing
    <2>3. q \in Request /\ q.pc = pc /\ q.intent = handler[h].intent
      BY <1>2, <1>9, <2>1, <2>2 DEF Request
    <2>4. QED
      BY <1>1, <1>2, <1>9, <2>2, <2>3, Becoming DEF Quiet
  <1>10. CASE LoadApproval(h)
    <2>1. CASE Becomes(h, [handler[h] EXCEPT !.pc = "result", !.consumed = Consumed(Intent(h))])
      BY <1>9, <2>1 DEF Consumed
    <2>2. CASE Go(h, "throw")
      <3>1. "throw" \in Begun \ (AfterPreparing \cup {"prepare", "recordPrepared"})
        BY DEF Begun, Labels, AfterPreparing
      <3>2. QED
        BY <1>1, <1>2, <2>2, <3>1, Going DEF Quiet
    <2>3. QED
      BY <1>10, <2>1, <2>2 DEF LoadApproval
  <1>11. CASE LoadReconciliation(h)
    BY <1>9, <1>11 DEF LoadReconciliation
  <1>12. ASSUME GoWith(h, "recordSubmitted", Failed(None))
         PROVE  Quiet(h)
    <2>1. "recordSubmitted" \in Begun \ {"prepare", "recordPrepared"}
      BY DEF Begun, Labels
    <2>2. QED
      BY <1>1, <1>2, <1>3, <1>12, <2>1, Going DEF Quiet
  <1>13. CASE Submit(h)
    <2>1. CASE Becomes(h, [handler[h] EXCEPT !.pc = "list", !.consumed = TRUE])
      BY <1>9, <2>1
    <2>2. CASE Becomes(h, [handler[h] EXCEPT !.pc = "balance", !.consumed = FALSE])
      BY <1>9, <2>2
    <2>3. QED
      BY <1>12, <1>13, <2>1, <2>2 DEF Submit
  <1>14. CASE Reload(h)
    <2>1. CASE Becomes(h, [handler[h] EXCEPT !.pc = "consume", !.asOf = clock])
      BY <1>9, <2>1
    <2>2. QED
      BY <1>12, <1>14, <2>1 DEF Reload
  <1>15. CASE Finish(h)
    <2>1. PICK confirmed \in BOOLEAN : confirmed = (handler[h].result.status = "CONFIRMED")
      OBVIOUS
    <2>2. PICK pc \in {"reconcile", "respond"} :
            pc = IF confirmed /\ ~(ReconciledAs(Key(h)) # {}) THEN "reconcile" ELSE "respond"
      OBVIOUS
    <2>3. Becomes(h, [handler[h] EXCEPT !.pc = pc, !.reconciled = confirmed])
      BY <1>15, <2>1, <2>2 DEF Finish
    <2>4. QED
      BY <1>9, <2>3
  <1>16. QED
    BY <1>4, <1>5, <1>6, <1>7, <1>8, <1>10, <1>11, <1>13, <1>14, <1>15

LEMMA QuietStores ==
  ASSUME LiveInv, NEW h \in Handlers,
         \/ ConsumeApproval(h) \/ Reconcile(h) \/ Respond(h) \/ CreateTransaction(h)
         \/ StoreFault(h)
  PROVE  Quiet(h)
  <1>1. UNCHANGED <<runs, clock, resultHistory, retryClaims>>
    BY DEF ConsumeApproval, Consume, Reconcile, RecordReconciliation, Respond, RecordHandoff,
      CreateTransaction, StoreFault, OneStoreOperation, storeVars, recordVars, outerVars
  <1>2. handler[h].pc \in Begun
    BY DEF ConsumeApproval, Reconcile, Respond, CreateTransaction, StoreFault, InTry, OutsideTry,
      At, Begun, Labels
  <1>3. /\ {"revalidate", "respond", "return", "await", "catch", "throw"}
             \subseteq Begun \ (AfterPreparing \cup {"prepare", "recordPrepared"})
        /\ "recordSubmitted" \in Begun \ {"prepare", "recordPrepared"}
        /\ Failed(None).status # "PREPARED"
    BY DEF Begun, Labels, AfterPreparing, Failed
  <1>4. \/ \E pc \in {"revalidate", "respond", "return", "await", "catch", "throw"} : Go(h, pc)
        \/ GoWith(h, "recordSubmitted", Failed(None))
    BY DEF ConsumeApproval, Reconcile, Respond, CreateTransaction, StoreFault
  <1>5. QED
    BY <1>1, <1>2, <1>3, <1>4, Going DEF Quiet

LEMMA QuietKeeps ==
  ASSUME LiveInv, ClaimsInv, [StoreNext]_storeVars, NEW h \in Handlers, OthersStay(h), Quiet(h)
  PROVE  ClaimsInv'
  BY RequestsProceed, RecordStays DEF Quiet, ClaimsInv

(* The approval is stored by a request that has its run, and nothing was   *)
(* recorded before.                                                        *)
LEMMA PersistKeeps ==
  ASSUME LiveInv, ClaimsInv, [StoreNext]_storeVars, NEW h \in Handlers, OthersStay(h),
         PersistApproval(h)
  PROVE  ClaimsInv'
  <1>1. UNCHANGED <<runs, clock, resultHistory, retryClaims>>
    BY DEF PersistApproval, Persist, OneStoreOperation, storeVars, recordVars, outerVars
  <1>2. handler[h].pc \in Begun /\ Intent(h) \in Intents /\ Intent(h).key = Key(h)
        /\ Intent(h).binding \in Bindings /\ Key(h) \in Keys
    <2>1. handler[h].pc \in Begun
      BY DEF PersistApproval, At, Begun, Labels
    <2>2. QED
      BY <2>1, RequestFacts
  <1>3. ASSUME CanPersist(Intent(h)), clock < RunExpiry
        PROVE  runs[Key(h)] # None /\ resultHistory[Key(h)] = <<>>
    <2>1. ~MatchesIntent(Intent(h))
      BY <1>2, <1>3 DEF CanPersist, MatchesIntent
    <2>2. \A b \in Bindings : ~AuthorizedBy(b, Key(h))
      BY <1>2, <1>3 DEF CanPersist, AuthorizedBy
    <2>3. QED
      BY <1>2, <1>3, <2>1, <2>2
      DEF ClaimsInv, HistoryApproved, RequestsInv, WhileRunsAreKept, Active
  <1>4. {"prepare", "load"} \subseteq Begun \ AfterPreparing /\ "load" \notin {"prepare", "recordPrepared"}
    BY DEF Begun, Labels, AfterPreparing
  <1>5. ASSUME CanPersist(Intent(h)), Go(h, "prepare")
        PROVE  Proceeds(h)
    BY <1>1, <1>2, <1>3, <1>4, <1>5, GoFacts DEF Proceeds
  <1>6. Go(h, "load") => Proceeds(h)
    BY <1>1, <1>2, <1>4, Going
  <1>7. Proceeds(h)
    BY <1>5, <1>6 DEF PersistApproval, Persist
  <1>8. QED
    BY <1>1, <1>7, QuietKeeps DEF Quiet

(* A claim is taken of the failure that ends the history.                  *)
LEMMA ClaimKeeps ==
  ASSUME LiveInv, ClaimsInv, [StoreNext]_storeVars, NEW h \in Handlers, OthersStay(h),
         Claim(h)
  PROVE  ClaimsInv'
  <1>1. UNCHANGED <<runs, clock, resultHistory>>
    BY DEF Claim, ClaimRetry, OneStoreOperation, storeVars, recordVars, outerVars
  <1>2. handler[h].pc \in Begun
    BY DEF Claim, At, Begun, Labels
  <1>3. Key(h) \in Keys /\ Intent(h) \in Intents /\ Intent(h).key = Key(h) /\ handler[h] \in Request
    BY <1>2, RequestFacts
  <1>4. CASE ~CanClaimRetry(Intent(h), clock) /\ Go(h, "throw") /\ UNCHANGED storeVars
    <2>1. "throw" \in Begun \ (AfterPreparing \cup {"prepare", "recordPrepared"})
      BY DEF Begun, Labels, AfterPreparing
    <2>2. Proceeds(h)
      BY <1>1, <1>2, <1>4, <2>1, Going
    <2>3. QED
      BY <1>4, <2>2, QuietKeeps DEF Quiet, storeVars, recordVars
  <1>5. CASE /\ ClaimRetry(Intent(h), h, clock)
             /\ Becomes(h, [handler[h] EXCEPT !.pc = "prepare", !.result = None, !.claimed = TRUE])
    <2>1. PICK q : q = [handler[h] EXCEPT !.pc = "prepare", !.result = None, !.claimed = TRUE]
      OBVIOUS
    <2>2. q \in Request /\ q.pc = "prepare" /\ q.claimed /\ q.intent = handler[h].intent
      BY <1>3, <2>1 DEF Request, Labels
    <2>3. "prepare" \in Begun \ AfterPreparing
      BY DEF Begun, Labels, AfterPreparing
    <2>4. Proceeds(h)
      BY <1>1, <1>2, <1>5, <2>1, <2>2, <2>3, Becoming
    <2>5. ClaimsCanBeTakenOver'
      BY <1>1, <1>3, <1>5
      DEF ClaimRetry, CanClaimRetry, ClaimsInv, ClaimsCanBeTakenOver, LiveInv, StoreInv, StoreTypeOK
    <2>6. HistoryApproved'
      BY <1>1, ApprovalsPersist DEF LiveInv, ClaimsInv, HistoryApproved
    <2>7. RequestsInv'
      BY <1>1, <2>4, RequestsProceed DEF ClaimsInv
    <2>8. QED
      BY <2>5, <2>6, <2>7 DEF ClaimsInv
  <1>6. QED
    BY <1>4, <1>5 DEF Claim

(* While a claim is held nothing is recorded past it: after a failure only *)
(* another attempt could be, and a first attempt has no claim to meet.     *)
LEMMA RecordKeeps ==
  ASSUME LiveInv, ClaimsInv, [StoreNext]_storeVars, NEW h \in Handlers, OthersStay(h),
         handler[h].pc \in Approved \cap Answering,
         NEW next \in {"submit", "finish", "poll"}, NEW onError \in {"catch", "throw"},
         \/ Record(h, next, onError) /\ (FirstTry(h) \/ handler[h].result.status # "PREPARED")
         \/ CompleteOwnClaim(h, next, onError)
  PROVE  ClaimsInv'
  <1> DEFINE k == Key(h)
             r == handler[h].result
  <1>1. UNCHANGED <<runs, clock>>
    BY DEF Record, RecordResult, CompleteOwnClaim, CompleteClaim, OneStoreOperation, storeVars,
      recordVars, outerVars
  <1>2. handler[h].pc \in Begun /\ r # None
    BY DEF Approved, Answering, Begun, LiveInv, RequestOK, RequestIs
  <1>3. k \in Keys /\ Intent(h).binding \in Bindings /\ Intent(h).key = k /\ MatchesIntent(Intent(h))
        /\ r \in TransferResult
    BY <1>2, RequestFacts DEF RequestIs, Intent
  <1>4. /\ handler'[h].pc \in {"submit", "finish", "poll", "catch", "throw"}
        /\ handler'[h].intent = handler[h].intent
    BY <1>2, RecordLands
  <1>5. Proceeds(h) /\ ~FirstTry(h)'
    BY <1>1, <1>2, <1>4 DEF Proceeds, FirstTry, Begun, Labels, AfterPreparing
  <1>6. \/ UNCHANGED storeVars
        \/ RecordResult(k, r) /\ (FirstTry(h) \/ r.status # "PREPARED")
        \/ CompleteClaim(k, h, r)
    BY DEF Record, CompleteOwnClaim
  <1> HIDE DEF k, r
  <1>7. \A j \in Keys : resultHistory'[j] # resultHistory[j] => j = k
    BY <1>3, <1>6 DEF storeVars, recordVars, RecordResult, CompleteClaim, LiveInv, StoreInv, StoreTypeOK
  <1>8. HistoryApproved'
    <2>1. AuthorizedBy(Intent(h).binding, k)
      BY <1>3 DEF MatchesIntent, AuthorizedBy
    <2>2. \A j \in Keys : (\E b \in Bindings : AuthorizedBy(b, j)) =>
                            \E b \in Bindings : AuthorizedBy(b, j)'
      BY ApprovalsPersist DEF LiveInv
    <2>3. QED
      BY <1>3, <1>7, <2>1, <2>2 DEF ClaimsInv, HistoryApproved
  <1>9. ClaimsCanBeTakenOver'
    <2>1. CASE UNCHANGED storeVars
      BY <2>1 DEF ClaimsInv, ClaimsCanBeTakenOver, storeVars, recordVars
    <2>2. CASE RecordResult(k, r) /\ (FirstTry(h) \/ r.status # "PREPARED")
      <3>1. ASSUME retryClaims[k] # None, clock < RunExpiry
            PROVE  FALSE
        <4>1. LastFailed(resultHistory[k])
          BY <1>3, <3>1 DEF ClaimsInv, ClaimsCanBeTakenOver
        <4>2. r.status = "PREPARED"
          BY <2>2, <4>1 DEF RecordResult, CanAppendResult, SafeRetry, LastFailed, Successors
        <4>3. FirstTry(h)
          BY <2>2, <4>2
        <4>4. QED
          BY <3>1, <4>1, <4>3 DEF ClaimsInv, RequestsInv, WhileRunsAreKept, LastFailed, k
      <3>2. UNCHANGED retryClaims
        BY <2>2 DEF RecordResult
      <3>3. QED
        BY <1>1, <1>7, <3>1, <3>2 DEF ClaimsInv, ClaimsCanBeTakenOver
    <2>3. CASE CompleteClaim(k, h, r)
      <3>1. retryClaims' = [retryClaims EXCEPT ![k] = None] /\ retryClaims'[k] = None
        BY <1>3, <2>3 DEF CompleteClaim, LiveInv, StoreInv, StoreTypeOK
      <3>2. QED
        BY <1>1, <1>7, <3>1 DEF ClaimsInv, ClaimsCanBeTakenOver, LiveInv, StoreInv, StoreTypeOK
    <2>4. QED
      BY <1>6, <2>1, <2>2, <2>3
  <1>10. RequestsInv'
    BY <1>5, <1>7, RequestsProceed DEF ClaimsInv, k
  <1>11. QED
    BY <1>8, <1>9, <1>10 DEF ClaimsInv

(* The requests a step does not move.                                      *)
LEMMA OthersKept ==
  ASSUME LiveInv, NEW h \in Handlers, OthersStay(h), NEW g \in Handlers, g # h
  PROVE  /\ Active(g)' <=> Active(g)
         /\ FirstTry(g)' <=> FirstTry(g)
         /\ Key(g)' = Key(g)
         /\ Intent(g)' = Intent(g)
         /\ Active(g) => Key(g) \in Keys
         /\ FirstTry(g) => Active(g)
  <1>1. handler'[g] = handler[g]
    BY DEF OthersStay
  <1>2. Active(g) => Key(g) \in Keys
    BY RequestFacts DEF Active
  <1>3. FirstTry(g) => Active(g)
    BY DEF FirstTry, Active, Begun, Labels
  <1>4. FirstTry(g)' <=> FirstTry(g)
    BY <1>1 DEF FirstTry
  <1>5. QED
    BY <1>1, <1>2, <1>3, <1>4 DEF Active, Key, Intent

(* A request begins where its run is free, or where there is no run.       *)
LEMMA BeginKeeps ==
  ASSUME LiveInv, ClaimsInv, [StoreNext]_storeVars, NEW h \in Handlers, OthersStay(h), Begin(h)
  PROVE  ClaimsInv'
  <1>1. UNCHANGED <<clock, authorizations, resultHistory, retryClaims>>
    BY DEF Begin, Execute, Recover, Reads, storeVars, recordVars
  <1>2. PICK i \in Intents : Execute(h, i) \/ Recover(h, i)
    BY DEF Begin
  <1>3. /\ handler'[h].pc = "persist" /\ handler'[h].intent = i
        /\ i.key \in Keys /\ i.binding \in Bindings /\ i.binding # None
    <2>1. Becomes(h, [Fresh EXCEPT !.pc = "persist", !.intent = i])
      BY <1>2 DEF Execute, Recover
    <2>2. PICK q : q = [Fresh EXCEPT !.pc = "persist", !.intent = i]
      OBVIOUS
    <2>3. q \in Request /\ q.pc = "persist" /\ q.intent = i
      BY <2>2, BegunAfresh
    <2>4. handler'[h] = q
      BY <2>1, <2>2, <2>3, BecomesLands
    <2>5. QED
      BY <2>3, <2>4, NoneAssumption DEF Intents
  <1>4. \/ /\ runs[i.key] # None /\ runs[i.key].reserved = None
           /\ runs'[i.key] # None /\ runs'[i.key].reserved = i.binding
           /\ \A k \in Keys \ {i.key} : runs'[k] = runs[k]
        \/ runs[i.key] = None /\ MatchesIntent(i) /\ runs' = runs
    <2>1. CASE Execute(h, i)
      <3>1. runs[i.key] \in StoredRun /\ runs' = [runs EXCEPT ![i.key].reserved = i.binding]
        BY <1>3, <2>1 DEF Execute, CanReserve, LiveInv, OuterTypeOK
      <3>2. runs'[i.key] \in StoredRun /\ runs'[i.key].reserved = i.binding
        BY <1>3, <3>1 DEF StoredRun, LiveInv, OuterTypeOK
      <3>3. \A k \in Keys \ {i.key} : runs'[k] = runs[k]
        BY <3>1 DEF LiveInv, OuterTypeOK
      <3>4. QED
        BY <2>1, <3>2, <3>3, LiveAbsenceAssumption DEF Execute, CanReserve
    <2>2. CASE Recover(h, i)
      BY <2>2 DEF Recover, Reads, outerVars
    <2>3. QED
      BY <1>2, <2>1, <2>2
  <1>5. \A g \in Handlers : Active(g) /\ Key(g) = i.key => runs[i.key] = None
    <2>1. ASSUME NEW g \in Handlers, Active(g), Key(g) = i.key, runs[i.key] # None
          PROVE  FALSE
      <3>1. runs[i.key].reserved = Intent(g).binding
        BY <2>1 DEF ClaimsInv, RequestsInv, OnePerRun
      <3>2. Intent(g).binding \in Bindings
        BY <2>1, RequestFacts DEF Active
      <3>3. QED
        BY <1>4, <2>1, <3>1, <3>2, NoneAssumption
    <2>2. QED
      BY <2>1
  <1>6. PreparedFirst'
    BY <1>3 DEF ClaimsInv, RequestsInv, PreparedFirst, OthersStay, AfterPreparing
  <1>7. \A g \in Handlers : g # h => /\ Active(g)' <=> Active(g)
                                     /\ FirstTry(g)' <=> FirstTry(g)
                                     /\ Key(g)' = Key(g)
                                     /\ Intent(g)' = Intent(g)
                                     /\ Active(g) => Key(g) \in Keys
                                     /\ FirstTry(g) => Active(g)
    BY OthersKept
  <1>8. Key(h)' = i.key /\ Intent(h)' = i /\ ~FirstTry(h)'
    BY <1>3 DEF Key, Intent, FirstTry
  <1>9. OnePerRun'
    <2>1. ASSUME NEW f \in Handlers, NEW g \in Handlers, Active(f)', Active(g)',
                 Key(f)' = Key(g)', runs'[Key(g)'] # None
          PROVE  f = g /\ runs'[Key(g)'].reserved = Intent(g)'.binding
      <3>1. CASE f # h /\ g # h
        BY <1>4, <1>5, <1>7, <2>1, <3>1 DEF ClaimsInv, RequestsInv, OnePerRun
      <3>2. CASE f = h /\ g # h
        BY <1>4, <1>5, <1>7, <1>8, <2>1, <3>2
      <3>3. CASE f # h /\ g = h
        BY <1>4, <1>5, <1>7, <1>8, <2>1, <3>3
      <3>4. CASE f = h /\ g = h
        BY <1>4, <1>8, <2>1, <3>4
      <3>5. QED
        BY <3>1, <3>2, <3>3, <3>4
    <2>2. QED
      BY <2>1 DEF OnePerRun
  <1>10. WhileRunsAreKept'
    <2>1. ASSUME NEW g \in Handlers, clock < RunExpiry
          PROVE  /\ Active(g)' /\ runs'[Key(g)'] = None => MatchesIntent(Intent(g))'
                 /\ FirstTry(g)' => runs'[Key(g)'] # None /\ resultHistory'[Key(g)'] = <<>>
      <3>1. CASE g = h
        BY <1>1, <1>4, <1>8, <3>1 DEF MatchesIntent
      <3>2. CASE g # h
        <4>1. FirstTry(g) => Active(g)
          BY <1>7, <3>2
        <4>2. Active(g) => (runs'[Key(g)] = None <=> runs[Key(g)] = None)
          BY <1>4, <1>7, <3>2
        <4>3. /\ Active(g) /\ runs[Key(g)] = None => MatchesIntent(Intent(g))
              /\ FirstTry(g) => runs[Key(g)] # None /\ resultHistory[Key(g)] = <<>>
          BY <2>1 DEF ClaimsInv, RequestsInv, WhileRunsAreKept
        <4>4. MatchesIntent(Intent(g))' <=> MatchesIntent(Intent(g))
          BY <1>1, <1>7, <3>2 DEF MatchesIntent
        <4>5. QED
          BY <1>1, <1>7, <3>2, <4>1, <4>2, <4>3, <4>4
      <3>3. QED
        BY <3>1, <3>2
    <2>2. QED
      BY <1>1, <2>1 DEF WhileRunsAreKept
  <1>11. QED
    BY <1>1, <1>6, <1>9, <1>10, RecordStays DEF ClaimsInv, RequestsInv

(* A request that ends leaves nobody with the run it had.                  *)
LEMMA ReturnKeeps ==
  ASSUME LiveInv, ClaimsInv, [StoreNext]_storeVars, NEW h \in Handlers, OthersStay(h), Return(h)
  PROVE  ClaimsInv'
  <1>1. UNCHANGED <<clock, authorizations, resultHistory, retryClaims>>
    BY DEF Return, storeVars, recordVars
  <1>2. Active(h) /\ Key(h) \in Keys /\ Intent(h).binding \in Bindings
    BY RequestFacts DEF Active, Return, Begun, Labels
  <1>3. handler'[h].pc = "done"
    BY DEF Return, Becomes, Ended, Fresh, LiveInv
  <1>4. /\ \A k \in Keys : runs'[k] = None <=> runs[k] = None
        /\ \A k \in Keys \ {Key(h)} : runs'[k] = runs[k]
    <2>1. runs \in [Keys -> StoredRun \cup {None}]
      BY DEF LiveInv, OuterTypeOK
    <2>2. CASE runs' = runs
      BY <2>2
    <2>3. ASSUME runs[Key(h)] # None, runs' = [runs EXCEPT ![Key(h)].reserved = None]
          PROVE  runs'[Key(h)] # None
      <3>1. runs'[Key(h)] \in StoredRun
        BY <1>2, <2>1, <2>3 DEF StoredRun
      <3>2. QED
        BY <3>1, LiveAbsenceAssumption
    <2>4. ASSUME NEW confirmed \in BOOLEAN,
                 runs' = [runs EXCEPT ![Key(h)] = [reserved |-> None, handoff |-> Intent(h).binding,
                                                   confirmed |-> confirmed]]
          PROVE  runs'[Key(h)] # None
      <3>1. runs'[Key(h)] \in StoredRun
        BY <1>2, <2>1, <2>4 DEF StoredRun
      <3>2. QED
        BY <3>1, LiveAbsenceAssumption
    <2>5. \/ runs' = runs
          \/ runs[Key(h)] # None /\ runs' = [runs EXCEPT ![Key(h)].reserved = None]
          \/ /\ runs[Key(h)] # None
             /\ \E confirmed \in BOOLEAN :
                  runs' = [runs EXCEPT ![Key(h)] = [reserved |-> None, handoff |-> Intent(h).binding,
                                                    confirmed |-> confirmed]]
      <3>1. PICK confirmed \in BOOLEAN :
              confirmed = (At(h, "return") /\ handler[h].result.status = "CONFIRMED")
        OBVIOUS
      <3>2. QED
        BY <3>1 DEF Return
    <2>6. QED
      BY <1>2, <2>1, <2>2, <2>3, <2>4, <2>5
  <1>5. \A g \in Handlers \ {h} : Active(g) /\ Key(g) = Key(h) => runs[Key(h)] = None
    BY <1>2 DEF ClaimsInv, RequestsInv, OnePerRun
  <1>6. ~Active(h)' /\ ~FirstTry(h)' /\ handler'[h].pc \notin AfterPreparing
    BY <1>3 DEF Active, FirstTry, Begun, Labels, AfterPreparing
  <1>7. \A g \in Handlers : g # h => /\ Active(g)' <=> Active(g)
                                     /\ FirstTry(g)' <=> FirstTry(g)
                                     /\ Key(g)' = Key(g)
                                     /\ Intent(g)' = Intent(g)
                                     /\ Active(g) => Key(g) \in Keys
                                     /\ FirstTry(g) => Active(g)
    BY OthersKept
  <1>8. PreparedFirst'
    BY <1>6 DEF ClaimsInv, RequestsInv, PreparedFirst, OthersStay
  <1>9. OnePerRun'
    BY <1>4, <1>5, <1>6, <1>7 DEF ClaimsInv, RequestsInv, OnePerRun
  <1>10. WhileRunsAreKept'
    <2>1. ASSUME NEW g \in Handlers, clock < RunExpiry
          PROVE  /\ Active(g)' /\ runs'[Key(g)'] = None => MatchesIntent(Intent(g))'
                 /\ FirstTry(g)' => runs'[Key(g)'] # None /\ resultHistory'[Key(g)'] = <<>>
      <3>1. FirstTry(g) => Active(g)
        BY DEF FirstTry, Active, Begun, Labels
      <3>2. /\ Active(g) /\ runs[Key(g)] = None => MatchesIntent(Intent(g))
            /\ FirstTry(g) => runs[Key(g)] # None /\ resultHistory[Key(g)] = <<>>
        BY <2>1 DEF ClaimsInv, RequestsInv, WhileRunsAreKept
      <3>3. g # h => (MatchesIntent(Intent(g))' <=> MatchesIntent(Intent(g)))
        BY <1>1, <1>7 DEF MatchesIntent
      <3>4. QED
        BY <1>1, <1>4, <1>6, <1>7, <3>1, <3>2, <3>3
    <2>2. QED
      BY <1>1, <2>1 DEF WhileRunsAreKept
  <1>11. QED
    BY <1>1, <1>8, <1>9, <1>10, RecordStays DEF ClaimsInv, RequestsInv

(* What a request records goes with the claims that are held.              *)
LEMMA RecordsKeep ==
  ASSUME LiveInv, ClaimsInv, [StoreNext]_storeVars, NEW h \in Handlers, OthersStay(h),
         RecordPrepared(h) \/ RecordSubmitted(h) \/ RecordPolled(h) \/ RecordOutcome(h)
  PROVE  ClaimsInv'
  <1>1. handler[h].pc \in Approved \cap Answering
    BY DEF RecordPrepared, RecordSubmitted, RecordPolled, RecordOutcome, At, Approved, Begun,
      Labels, Answering
  <1>2. FirstTry(h) \/ handler[h].claimed \/ handler[h].result.status # "PREPARED"
    BY DEF RecordPrepared, RecordSubmitted, RecordPolled, RecordOutcome, At, FirstTry, ClaimsInv,
      RequestsInv, PreparedFirst, AfterPreparing
  <1>3. \E next \in {"submit", "finish", "poll"} : \E onError \in {"catch", "throw"} :
          \/ /\ Record(h, next, onError)
             /\ FirstTry(h) \/ handler[h].result.status # "PREPARED"
          \/ CompleteOwnClaim(h, next, onError)
    <2>1. CASE RecordPrepared(h)
      BY <1>2, <2>1 DEF RecordPrepared
    <2>2. CASE RecordOutcome(h)
      <3>1. handler[h].result.status # "PREPARED"
        BY <2>2 DEF RecordOutcome, At, ClaimsInv, RequestsInv, PreparedFirst, AfterPreparing
      <3>2. QED
        BY <2>2, <3>1 DEF RecordOutcome
    <2>3. CASE RecordSubmitted(h) \/ RecordPolled(h)
      <3>1. handler[h].result.status # "PREPARED"
        BY <2>3 DEF RecordSubmitted, RecordPolled, At, ClaimsInv, RequestsInv, PreparedFirst,
          AfterPreparing
      <3>2. QED
        BY <2>3, <3>1 DEF RecordSubmitted, RecordPolled
    <2>4. QED
      BY <2>1, <2>2, <2>3
  <1>4. QED
    BY <1>1, <1>3, RecordKeeps

(* Time, Circle, the end of a run's retention, and a restart.              *)
LEMMA BackgroundKeeps ==
  ASSUME LiveInv, ClaimsInv, [StoreNext]_storeVars,
         \/ \E h \in Handlers : CircleAccepts(h)
         \/ \E k \in Keys : CircleSettles(k) \/ ExpireRun(k)
         \/ Restart \/ Advance \/ UNCHANGED liveVars
  PROVE  ClaimsInv'
  <1>1. UNCHANGED <<authorizations, resultHistory, retryClaims>>
    BY DEF CircleAccepts, CircleSettles, ExpireRun, Restart, Advance, Tick, liveVars, storeVars,
      recordVars
  <1>2. CASE Restart
    <2>1. \A g \in Handlers : handler'[g].pc \in {"idle", "done"}
      BY <1>2 DEF Restart, At, Ended, Fresh
    <2>2. \A g \in Handlers : ~Active(g)' /\ ~FirstTry(g)' /\ handler'[g].pc \notin AfterPreparing
      BY <2>1 DEF Active, FirstTry, Begun, AfterPreparing
    <2>3. QED
      BY <1>1, <2>2, RecordStays
      DEF ClaimsInv, RequestsInv, PreparedFirst, OnePerRun, WhileRunsAreKept
  <1>3. CASE \/ \E h \in Handlers : CircleAccepts(h)
             \/ \E k \in Keys : CircleSettles(k)
             \/ Advance \/ UNCHANGED liveVars
    <2>1. handler' = handler /\ runs' = runs
      BY <1>3 DEF CircleAccepts, CircleSettles, Advance, outerVars, liveVars
    <2>2. clock' < RunExpiry => clock < RunExpiry
      BY ApprovalsPersist, StoreStep, NatAssumption, LiveAssumption
      DEF LiveInv, StoreInv, StoreTypeOK, Times
    <2>3. QED
      BY <1>1, <2>1, <2>2, RecordStays
      DEF ClaimsInv, RequestsInv, PreparedFirst, OnePerRun, WhileRunsAreKept, Active, FirstTry,
        Key, Intent, MatchesIntent
  <1>4. ASSUME NEW k \in Keys, ExpireRun(k)
        PROVE  ClaimsInv'
    <2>1. /\ handler' = handler /\ clock' = clock /\ ~(clock < RunExpiry)
          /\ \A j \in Keys : runs'[j] = runs[j] \/ runs'[j] = None
      BY <1>4, NatAssumption, LiveAssumption
      DEF ExpireRun, storeVars, LiveInv, OuterTypeOK, StoreInv, StoreTypeOK, Times
    <2>2. OnePerRun'
      <3>1. \A g \in Handlers : /\ Active(g)' <=> Active(g)
                                /\ Key(g)' = Key(g)
                                /\ Intent(g)' = Intent(g)
                                /\ Active(g) => Key(g) \in Keys
        BY <2>1, RequestFacts DEF Active, Key, Intent
      <3>2. QED
        BY <2>1, <3>1 DEF ClaimsInv, RequestsInv, OnePerRun
    <2>3. PreparedFirst' /\ WhileRunsAreKept'
      BY <2>1 DEF ClaimsInv, RequestsInv, PreparedFirst, WhileRunsAreKept
    <2>4. QED
      BY <1>1, <2>2, <2>3, RecordStays DEF ClaimsInv, RequestsInv
  <1>5. QED
    BY <1>2, <1>3, <1>4

LEMMA ClaimsStep ==
  ASSUME LiveInv, ClaimsInv, [LiveNext]_liveVars
  PROVE  ClaimsInv'
  <1>1. [StoreNext]_storeVars
    BY LiveStep
  <1>2. ASSUME NEW h \in Handlers, Begin(h) \/ Step(h) \/ StoreFault(h)
        PROVE  ClaimsInv'
    <2>1. OthersStay(h)
      BY <1>2, RequestMoves
    <2>2. CASE Begin(h)
      BY <1>1, <2>1, <2>2, BeginKeeps
    <2>3. CASE Return(h)
      BY <1>1, <2>1, <2>3, ReturnKeeps
    <2>4. CASE PersistApproval(h) \/ Claim(h)
      BY <1>1, <2>1, <2>4, PersistKeeps, ClaimKeeps
    <2>5. CASE RecordPrepared(h) \/ RecordSubmitted(h) \/ RecordPolled(h) \/ RecordOutcome(h)
      BY <1>1, <2>1, <2>5, RecordsKeep
    <2>6. CASE \/ LoadApproval(h) \/ LoadResult(h) \/ LoadHistory(h) \/ LoadReconciliation(h)
               \/ CheckAnswered(h) \/ Prepare(h) \/ Submit(h) \/ ListTransactions(h)
               \/ CheckBalance(h) \/ Reload(h) \/ Revalidate(h) \/ AwaitCreate(h)
               \/ Poll(h) \/ Catch(h) \/ Finish(h) \/ CircleFault(h)
      BY <1>1, <2>1, <2>6, QuietReads, QuietKeeps
    <2>7. CASE \/ ConsumeApproval(h) \/ Reconcile(h) \/ Respond(h) \/ CreateTransaction(h)
               \/ StoreFault(h)
      BY <1>1, <2>1, <2>7, QuietStores, QuietKeeps
    <2>8. QED
      BY <1>2, <2>2, <2>3, <2>4, <2>5, <2>6, <2>7 DEF Step
  <1>3. CASE \/ \E h \in Handlers : CircleAccepts(h)
             \/ \E k \in Keys : CircleSettles(k) \/ ExpireRun(k)
             \/ Restart \/ Advance \/ UNCHANGED liveVars
    BY <1>1, <1>3, BackgroundKeeps
  <1>4. QED
    BY <1>2, <1>3 DEF LiveNext

(* Until the runs in process memory expire, a claim to retry stands for    *)
(* the failure that ends the history: whatever other requests, restarts    *)
(* and faults come between, another request can take it over.              *)
THEOREM ClaimsOutliveNoFailure == LiveSpec => []ClaimsCanBeTakenOver
  <1>1. LiveInit => ClaimsInv
    <2> SUFFICES ASSUME LiveInit PROVE ClaimsInv
      OBVIOUS
    <2>1. \A h \in Handlers : ~Active(h) /\ ~FirstTry(h) /\ handler[h].pc \notin AfterPreparing
      BY DEF LiveInit, Fresh, Active, FirstTry, Begun, AfterPreparing
    <2>2. RequestsInv
      BY <2>1 DEF RequestsInv, PreparedFirst, OnePerRun, WhileRunsAreKept
    <2>3. QED
      BY <2>2 DEF LiveInit, StoreInit, ClaimsInv, ClaimsCanBeTakenOver, HistoryApproved
  <1>2. LiveInv /\ ClaimsInv /\ [LiveNext]_liveVars => ClaimsInv'
    BY ClaimsStep
  <1>3. QED
    BY LiveInvariant, <1>1, <1>2, PTL DEF LiveSpec, ClaimsInv
=============================================================================
