---------------------------- MODULE LiveHandoff ----------------------------
(***************************************************************************)
(* The live handoff: requests to POST /api/verification-agent/handoff that *)
(* drive one approved transfer through the durable authorization store and *)
(* Circle.  A request is a process; every await of the handler             *)
(* (executeBoundLiveCircleHandoff and the three provider methods it calls) *)
(* is a label, and between two awaits other requests, Circle, the clock    *)
(* and a server restart may act.                                           *)
(*                                                                         *)
(* External: Circle.  A create request that was sent may be accepted at    *)
(* any later time, whether or not its sender still waits; requests with an *)
(* idempotency key Circle has seen return the operation it has.  An        *)
(* operation settles once.  Any call may fail, or time out, at the client. *)
(* The returned transaction is the one that was created, so the field by   *)
(* field comparison of the provider always succeeds; wallets are           *)
(* configured correctly.                                                   *)
(***************************************************************************)
EXTENDS AuthorizationStore

CONSTANTS
  Handlers,      \* requests; a request is also the retry token it may get
  Expiry,        \* approval.expiresAt
  RunExpiry,     \* end of a run's retention in process memory
  Balances,      \* what a balance query may say: TRUE is "enough"
  MaxRestarts,   \* bound: server restarts
  MaxFaults      \* bound: store operations that throw

ASSUME LiveAssumption ==
  /\ Handlers \subseteq Tokens
  /\ Expiry \in Expiries
  /\ RunExpiry \in Nat
  /\ Balances \subseteq BOOLEAN
  /\ MaxRestarts \in Nat
  /\ MaxFaults \in Nat

VARIABLES
  runs,       \* process memory: key -> stored run or None
  handler,    \* request -> where it is and what it has read
  creates,    \* request -> its createTransaction call, as Circle sees it
  circle,     \* key -> the Circle operation, or None
  restarts,   \* restarts so far
  faults      \* store faults so far

outerVars == <<runs, creates, circle, restarts, faults>>
liveVars  == <<storeVars, handler, outerVars>>

(* A run is reserved while a request holds its handoff, and remembers the  *)
(* approval of the handoff that was persisted in it.                       *)
StoredRun == [reserved : Bindings \cup {None}, handoff : Bindings \cup {None},
              confirmed : BOOLEAN]

Operation == [op : Ops, state : {"PENDING", "COMPLETE", "FAILED"},
              evidence : Evidence \cup {None}]

(* result:     lastResult, or the stored result before the try block       *)
(* consumed:   the binding status as this request last read it             *)
(* claimed:    it holds a retry claim it has not completed                 *)
(* reconciled: it found a reconciliation                                   *)
Labels == {"idle", "persist", "load", "result", "history", "claim", "finished",
           "answered", "prepare", "recordPrepared", "submit", "list", "balance",
           "reload", "consume", "revalidate", "create", "await",
           "recordSubmitted", "poll", "recordPolled", "catch", "recordOutcome",
           "finish", "reconcile", "respond", "return", "throw", "done"}

Request == [pc : Labels, intent : Intents \cup {None},
            result : TransferResult \cup {None}, consumed : BOOLEAN,
            claimed : BOOLEAN, reconciled : BOOLEAN, asOf : Times]

Fresh == [pc |-> "idle", intent |-> None, result |-> None, consumed |-> FALSE,
          claimed |-> FALSE, reconciled |-> FALSE, asOf |-> 0]

Ended == [Fresh EXCEPT !.pc = "done"]

CreateCall == [key : Keys, accepted : BOOLEAN]

(* Absent values are neither runs, calls nor operations.                   *)
ASSUME LiveAbsenceAssumption ==
  None \notin StoredRun \cup CreateCall \cup Operation \cup Intents
             \cup TransferResult

-----------------------------------------------------------------------------
At(h, pc) == handler[h].pc = pc

Intent(h) == handler[h].intent
Key(h)    == handler[h].intent.key

Becomes(h, new) == handler' = [handler EXCEPT ![h] = new]
Go(h, pc)       == handler' = [handler EXCEPT ![h].pc = pc]
GoWith(h, pc, r) == handler' = [handler EXCEPT ![h].pc = pc, ![h].result = r]

(* A step that only reads, and a step that is one store operation.         *)
Reads    == UNCHANGED <<storeVars, outerVars>>
OneStoreOperation == UNCHANGED outerVars

Failed(op)    == [status |-> "FAILED", op |-> op, evidence |-> None]
Submitted(op) == [status |-> "SUBMITTED", op |-> op, evidence |-> None]
Prepared      == [status |-> "PREPARED", op |-> None, evidence |-> None]

OpOf(r) == IF r = None THEN None ELSE r.op

(* revalidateApprovedIntent on the stored snapshot: active, not expired.   *)
Expired(i)  == authorizations[i.binding].expiresAt <= clock
Consumed(i) == authorizations[i.binding].status = "CONSUMED"
StillApproved(i) == MatchesIntent(i) /\ ~Consumed(i) /\ ~Expired(i)

-----------------------------------------------------------------------------
(* The route.                                                              *)

CanReserve(i) ==
  /\ runs[i.key] # None
  /\ runs[i.key].reserved = None
  /\ \/ runs[i.key].handoff = None
     \/ runs[i.key].handoff = i.binding /\ ~runs[i.key].confirmed

(* The run is in memory: validate the approval and reserve its handoff.    *)
Execute(h, i) ==
  /\ At(h, "idle")
  /\ CanReserve(i)
  /\ clock < Expiry
  /\ runs' = [runs EXCEPT ![i.key].reserved = i.binding]
  /\ Becomes(h, [Fresh EXCEPT !.pc = "persist", !.intent = i])
  /\ UNCHANGED <<storeVars, creates, circle, restarts, faults>>

(* The run is gone from memory: recover from the stored authorization, for *)
(* the approval it was made from.  No reservation, no expiry check.        *)
Recover(h, i) ==
  /\ At(h, "idle")
  /\ runs[i.key] = None
  /\ MatchesIntent(i)
  /\ Becomes(h, [Fresh EXCEPT !.pc = "persist", !.intent = i])
  /\ Reads

(* Faulty variant: no finally, an exception leaves the reservation.        *)
ReturnWithoutRelease(h) ==
  /\ handler[h].pc \in {"return", "throw"}
  /\ LET k == Key(h)
         b == Intent(h).binding
         confirmed == At(h, "return") /\ handler[h].result.status = "CONFIRMED"
     IN runs' = IF runs[k] = None \/ runs[k].reserved # b \/ At(h, "throw") THEN runs
                ELSE [runs EXCEPT ![k] = [reserved |-> None, handoff |-> b,
                                          confirmed |-> confirmed]]
  /\ Becomes(h, Ended)
  /\ UNCHANGED <<storeVars, creates, circle, restarts, faults>>

(* persistApprovedHandoff when the handler returned, then, also after an   *)
(* exception, releaseApprovedHandoffReservation.                           *)
Return(h) ==
  /\ handler[h].pc \in {"return", "throw"}
  /\ LET k == Key(h)
         b == Intent(h).binding
         confirmed == At(h, "return") /\ handler[h].result.status = "CONFIRMED"
     IN runs' = IF runs[k] = None \/ runs[k].reserved # b THEN runs
                ELSE IF At(h, "throw")
                  THEN [runs EXCEPT ![k].reserved = None]
                  ELSE [runs EXCEPT ![k] = [reserved |-> None, handoff |-> b,
                                            confirmed |-> confirmed]]
  /\ Becomes(h, Ended)
  /\ UNCHANGED <<storeVars, creates, circle, restarts, faults>>

-----------------------------------------------------------------------------
(* executeBoundLiveCircleHandoff up to the try block.                      *)

PersistApproval(h) ==
  /\ At(h, "persist")
  /\ \/ Persist(Intent(h), Expiry) /\ Go(h, "prepare")
     \/ ~CanPersist(Intent(h)) /\ Go(h, "load") /\ UNCHANGED storeVars
  /\ OneStoreOperation

LoadApproval(h) ==
  /\ At(h, "load")
  /\ \/ /\ MatchesIntent(Intent(h))
        /\ Becomes(h, [handler[h] EXCEPT !.pc = "result",
                                         !.consumed = Consumed(Intent(h))])
     \/ ~MatchesIntent(Intent(h)) /\ Go(h, "throw")
  /\ Reads

(* The stored result decides what this request is: a resumed poll, a       *)
(* (re)submission, a possible retry, or a repeat of a finished transfer.   *)
LoadResult(h) ==
  /\ At(h, "result")
  /\ LET past == resultHistory[Key(h)] IN
     \/ past = <<>> /\ Go(h, "submit")
     \/ /\ past # <<>>
        /\ \/ Last(past).status \in {"PREPARED", "RECOVERY_PENDING"} /\ Go(h, "submit")
           \/ Last(past).status = "SUBMITTED" /\ GoWith(h, "poll", Last(past))
           \/ Last(past).status = "CONFIRMED" /\ GoWith(h, "finished", Last(past))
           \/ /\ Last(past).status = "FAILED"
              /\ GoWith(h, IF Last(past).op = None /\ ~handler[h].consumed
                           THEN "history" ELSE "finished", Last(past))
  /\ Reads

LoadHistory(h) ==
  /\ At(h, "history")
  /\ Go(h, IF NoOperation(resultHistory[Key(h)]) THEN "claim" ELSE "finished")
  /\ Reads

Claim(h) ==
  /\ At(h, "claim")
  /\ \/ /\ ClaimRetry(Intent(h), h, clock)
        /\ Becomes(h, [handler[h] EXCEPT !.pc = "prepare", !.result = None,
                                         !.claimed = TRUE])
     \/ ~CanClaimRetry(Intent(h), clock) /\ Go(h, "throw") /\ UNCHANGED storeVars
  /\ OneStoreOperation

(* A finished transfer: a repeated request is refused when its answer was  *)
(* recorded (handoffMatchesTerminal), else the answer is completed now.    *)
LoadReconciliation(h) ==
  /\ At(h, "finished")
  /\ Becomes(h, [handler[h] EXCEPT !.pc = "answered",
                                   !.reconciled = ReconciledAs(Key(h)) # {}])
  /\ Reads

HandoffMatchesTerminal(h) ==
  LET answers == HandoffsOf(Key(h)) IN
  /\ answers # <<>>
  /\ Last(answers).result = handler[h].result
  /\ handler[h].result.status = "CONFIRMED" =>
       handler[h].reconciled /\ Last(answers).reconciled

CheckAnswered(h) ==
  /\ At(h, "answered")
  /\ Go(h, IF HandoffMatchesTerminal(h) THEN "throw" ELSE "finish")
  /\ Reads

-----------------------------------------------------------------------------
(* CircleWalletProvider.prepareTransfer, and the recording of its result.  *)

(* recordResult of the request's result: appended, ignored as a repeat, or *)
(* refused with an exception.                                              *)
Record(h, next, onError) ==
  LET r == handler[h].result IN
  /\ \/ RecordResult(Key(h), r) /\ Go(h, next)
     \/ RepeatsLast(Key(h), r) /\ Go(h, next) /\ UNCHANGED storeVars
     \/ ~CanAppendResult(Key(h), r) /\ Go(h, onError) /\ UNCHANGED storeVars
  /\ OneStoreOperation

(* completePreSubmissionRetryClaim of the request's result.                *)
CompleteOwnClaim(h, next, onError) ==
  LET r == handler[h].result IN
  /\ \/ /\ CompleteClaim(Key(h), h, r)
        /\ Becomes(h, [handler[h] EXCEPT !.pc = next, !.claimed = FALSE])
     \/ ~CanCompleteClaim(Key(h), h, r) /\ Go(h, onError) /\ UNCHANGED storeVars
  /\ OneStoreOperation

Prepare(h) ==
  /\ At(h, "prepare")
  /\ GoWith(h, "recordPrepared",
            IF StillApproved(Intent(h)) THEN Prepared ELSE Failed(None))
  /\ Reads

(* Faulty variant: a retry records its result past the claim.              *)
RecordPreparedOnly(h) ==
  /\ At(h, "recordPrepared")
  /\ Record(h, IF handler[h].result = Prepared THEN "submit" ELSE "finish", "catch")

RecordPrepared(h) ==
  /\ At(h, "recordPrepared")
  /\ LET next == IF handler[h].result = Prepared THEN "submit" ELSE "finish" IN
     \/ handler[h].claimed /\ CompleteOwnClaim(h, next, "catch")
     \/ ~handler[h].claimed /\ Record(h, next, "catch")

-----------------------------------------------------------------------------
(* CircleWalletProvider.submitTransfer.                                    *)

(* A consumed approval is recovered, an active one must still be valid.    *)
Submit(h) ==
  /\ At(h, "submit")
  /\ LET i == Intent(h) IN
     \/ /\ Consumed(i)
        /\ Becomes(h, [handler[h] EXCEPT !.pc = "list", !.consumed = TRUE])
     \/ /\ StillApproved(i)
        /\ Becomes(h, [handler[h] EXCEPT !.pc = "balance", !.consumed = FALSE])
     \/ /\ ~Consumed(i) /\ Expired(i)
        /\ GoWith(h, "recordSubmitted", Failed(None))
  /\ Reads

(* listAllRecoveryTransactions: the operation of this exact intent, if     *)
(* Circle has one.                                                         *)
ListTransactions(h) ==
  /\ At(h, "list")
  /\ \/ /\ circle[Key(h)] # None
        /\ GoWith(h, "recordSubmitted", Submitted(circle[Key(h)].op))
     \/ /\ circle[Key(h)] = None
        /\ \/ Expired(Intent(h)) /\ GoWith(h, "recordSubmitted", Failed(None))
           \/ ~Expired(Intent(h)) /\ Go(h, "balance")
  /\ Reads

(* Faulty variant: an approval read as active is not consumed.             *)
CheckBalanceOnly(h) ==
  /\ At(h, "balance")
  /\ \E enough \in Balances :
       \/ ~enough /\ GoWith(h, "recordSubmitted", Failed(None))
       \/ enough /\ Go(h, "create")
  /\ Reads

CheckBalance(h) ==
  /\ At(h, "balance")
  /\ \E enough \in Balances :
       \/ ~enough /\ GoWith(h, "recordSubmitted", Failed(None))
       \/ enough /\ Go(h, IF handler[h].consumed THEN "create" ELSE "reload")
  /\ Reads

Reload(h) ==
  /\ At(h, "reload")
  /\ \/ /\ StillApproved(Intent(h))
        /\ Becomes(h, [handler[h] EXCEPT !.pc = "consume", !.asOf = clock])
     \/ ~StillApproved(Intent(h)) /\ GoWith(h, "recordSubmitted", Failed(None))
  /\ Reads

(* Faulty variant: the null of a lost consume is not noticed.              *)
ConsumeUnchecked(h) ==
  /\ At(h, "consume")
  /\ \/ Consume(Intent(h), handler[h].asOf)
     \/ ~CanConsume(Intent(h), handler[h].asOf) /\ UNCHANGED storeVars
  /\ Go(h, "revalidate")
  /\ OneStoreOperation

ConsumeApproval(h) ==
  /\ At(h, "consume")
  /\ \/ Consume(Intent(h), handler[h].asOf) /\ Go(h, "revalidate")
     \/ /\ ~CanConsume(Intent(h), handler[h].asOf)
        /\ GoWith(h, "recordSubmitted", Failed(None))
        /\ UNCHANGED storeVars
  /\ OneStoreOperation

(* The snapshot consume returned, from before it was consumed, is checked  *)
(* against the clock once more.                                            *)
Revalidate(h) ==
  /\ At(h, "revalidate")
  /\ \/ ~Expired(Intent(h)) /\ Go(h, "create")
     \/ Expired(Intent(h)) /\ GoWith(h, "recordSubmitted", Failed(None))
  /\ Reads

CreateTransaction(h) ==
  /\ At(h, "create")
  /\ creates' = [creates EXCEPT ![h] = [key |-> Key(h), accepted |-> FALSE]]
  /\ Go(h, "await")
  /\ UNCHANGED <<storeVars, runs, circle, restarts, faults>>

AwaitCreate(h) ==
  /\ At(h, "await")
  /\ creates[h].accepted
  /\ GoWith(h, "recordSubmitted", Submitted(circle[Key(h)].op))
  /\ Reads

RecordSubmitted(h) ==
  /\ At(h, "recordSubmitted")
  /\ Record(h, IF handler[h].result.status = "SUBMITTED" THEN "poll" ELSE "finish",
            "catch")

-----------------------------------------------------------------------------
(* Faulty variant: any terminal state is taken for completion.             *)
PollTerminal(h) ==
  /\ At(h, "poll")
  /\ LET c == circle[Key(h)] IN
     \/ GoWith(h, "recordPolled", Submitted(handler[h].result.op))
     \/ /\ c # None
        /\ c.state # "PENDING"
        /\ GoWith(h, "recordPolled",
                  [status |-> "CONFIRMED", op |-> c.op, evidence |-> c.evidence])
  /\ Reads

(* CircleWalletProvider.pollTransfer: the polling window ends with a       *)
(* settled operation or with none.                                         *)
Poll(h) ==
  /\ At(h, "poll")
  /\ LET c == circle[Key(h)] IN
     \/ GoWith(h, "recordPolled", Submitted(handler[h].result.op))
     \/ /\ c # None
        /\ c.state = "COMPLETE"
        /\ GoWith(h, "recordPolled",
                  [status |-> "CONFIRMED", op |-> c.op, evidence |-> c.evidence])
     \/ /\ c # None
        /\ c.state = "FAILED"
        /\ GoWith(h, "recordPolled", Failed(c.op))
  /\ Reads

RecordPolled(h) == At(h, "recordPolled") /\ Record(h, "finish", "catch")

-----------------------------------------------------------------------------
(* The catch block: what is known to have happened decides the outcome.    *)

(* Faulty variant: a consumed approval is reported as submitted.           *)
OptimisticOutcome(h) ==
  LET r == handler[h].result IN
  IF Consumed(Intent(h)) THEN Submitted(OpOf(r)) ELSE Failed(OpOf(r))

Outcome(h) ==
  LET r == handler[h].result
      i == Intent(h)
  IN  IF r # None /\ OpOf(r) # None /\ r.status = "SUBMITTED" THEN Submitted(r.op)
      ELSE IF MatchesIntent(i) /\ Consumed(i)
        THEN [status |-> "RECOVERY_PENDING", op |-> OpOf(r), evidence |-> None]
        ELSE Failed(OpOf(r))

Catch(h) ==
  /\ At(h, "catch")
  /\ IF handler[h].claimed /\ handler[h].result # None
       THEN Go(h, "throw")
       ELSE GoWith(h, "recordOutcome", Outcome(h))
  /\ Reads

RecordOutcome(h) ==
  /\ At(h, "recordOutcome")
  /\ \/ handler[h].claimed /\ CompleteOwnClaim(h, "finish", "throw")
     \/ ~handler[h].claimed /\ Record(h, "finish", "throw")

-----------------------------------------------------------------------------
(* finish: a confirmed transfer is reconciled before it is answered.       *)

(* Faulty variant: a confirmed transfer is answered before it is           *)
(* reconciled.                                                             *)
FinishAtOnce(h) ==
  /\ At(h, "finish")
  /\ Becomes(h, [handler[h] EXCEPT
       !.pc = "respond", !.reconciled = handler[h].result.status = "CONFIRMED"])
  /\ Reads

Finish(h) ==
  /\ At(h, "finish")
  /\ LET found == ReconciledAs(Key(h)) # {}
         confirmed == handler[h].result.status = "CONFIRMED"
     IN Becomes(h, [handler[h] EXCEPT
          !.pc = IF confirmed /\ ~found THEN "reconcile" ELSE "respond",
          !.reconciled = confirmed])
  /\ Reads

Reconcile(h) ==
  /\ At(h, "reconcile")
  /\ LET r == [key |-> Key(h), op |-> handler[h].result.op,
               evidence |-> handler[h].result.evidence]
     IN \/ RecordReconciliation(r) /\ Go(h, "respond")
        \/ AlreadyReconciled(r) /\ Go(h, "respond") /\ UNCHANGED storeVars
        \/ /\ ~CanReconcile(r) /\ ~AlreadyReconciled(r)
           /\ Go(h, "throw")
           /\ UNCHANGED storeVars
  /\ OneStoreOperation

Respond(h) ==
  /\ At(h, "respond")
  /\ RecordHandoff([key |-> Key(h), result |-> handler[h].result,
                    reconciled |-> handler[h].reconciled])
  /\ Go(h, "return")
  /\ OneStoreOperation

-----------------------------------------------------------------------------
(* What can go wrong around the handler.                                   *)

InTry == {"prepare", "recordPrepared", "submit", "reload", "consume",
          "recordSubmitted", "poll", "recordPolled"}
OutsideTry == {"persist", "load", "result", "history", "claim", "finished",
               "answered", "catch", "recordOutcome", "finish", "reconcile",
               "respond"}

(* A store operation throws (lock timeout, file system error) before it    *)
(* has any effect.                                                         *)
StoreFault(h) ==
  /\ faults < MaxFaults
  /\ handler[h].pc \in InTry \cup OutsideTry
  /\ Go(h, IF handler[h].pc \in InTry THEN "catch" ELSE "throw")
  /\ faults' = faults + 1
  /\ UNCHANGED <<storeVars, runs, creates, circle, restarts>>

(* A Circle call fails or times out for the caller.                        *)
CircleFault(h) ==
  /\ handler[h].pc \in {"list", "balance", "await", "poll"}
  /\ Go(h, "catch")
  /\ Reads

CircleAccepts(h) ==
  /\ creates[h] # None
  /\ ~creates[h].accepted
  /\ creates' = [creates EXCEPT ![h].accepted = TRUE]
  /\ LET k == creates[h].key IN
     \/ circle[k] # None /\ UNCHANGED circle
     \/ /\ circle[k] = None
        /\ \E op \in Ops :
             /\ \A j \in Keys : circle[j] # None => circle[j].op # op
             /\ circle' = [circle EXCEPT ![k] =
                  [op |-> op, state |-> "PENDING", evidence |-> None]]
  /\ UNCHANGED <<storeVars, handler, runs, restarts, faults>>

CircleSettles(k) ==
  /\ circle[k] # None
  /\ circle[k].state = "PENDING"
  /\ \/ \E e \in Evidence : circle' = [circle EXCEPT ![k].state = "COMPLETE",
                                                     ![k].evidence = e]
     \/ circle' = [circle EXCEPT ![k].state = "FAILED"]
  /\ UNCHANGED <<storeVars, handler, runs, creates, restarts, faults>>

(* discardExpiredRuns: whether or not a request still has it reserved.     *)
ExpireRun(k) ==
  /\ runs[k] # None
  /\ clock >= RunExpiry
  /\ runs' = [runs EXCEPT ![k] = None]
  /\ UNCHANGED <<storeVars, handler, creates, circle, restarts, faults>>

(* Faulty variant: retry claims live in process memory.                    *)
RestartForgettingClaims ==
  /\ restarts < MaxRestarts
  /\ restarts' = restarts + 1
  /\ runs' = [k \in Keys |-> None]
  /\ handler' = [h \in Handlers |-> IF At(h, "idle") THEN handler[h] ELSE Ended]
  /\ retryClaims' = [k \in Keys |-> None]
  /\ UNCHANGED <<authorizations, resultHistory, latestResultKey, handoffHistory,
                 reconciliations, grants, clock, creates, circle, faults>>

(* The server stops between two steps and starts again: requests and runs  *)
(* are gone, the store and what was sent to Circle are not.                *)
Restart ==
  /\ restarts < MaxRestarts
  /\ restarts' = restarts + 1
  /\ runs' = [k \in Keys |-> None]
  /\ handler' = [h \in Handlers |-> IF At(h, "idle") THEN handler[h] ELSE Ended]
  /\ UNCHANGED <<storeVars, creates, circle, faults>>

Advance == Tick /\ UNCHANGED <<handler, outerVars>>

-----------------------------------------------------------------------------
LiveInit ==
  /\ StoreInit
  /\ runs = [k \in Keys |-> [reserved |-> None, handoff |-> None,
                             confirmed |-> FALSE]]
  /\ handler = [h \in Handlers |-> Fresh]
  /\ creates = [h \in Handlers |-> None]
  /\ circle = [k \in Keys |-> None]
  /\ restarts = 0
  /\ faults = 0

Begin(h) == \E i \in Intents : Execute(h, i) \/ Recover(h, i)

(* The request's own steps, including a failed call to Circle.             *)
Step(h) ==
  \/ PersistApproval(h) \/ LoadApproval(h) \/ LoadResult(h) \/ LoadHistory(h)
  \/ Claim(h) \/ LoadReconciliation(h) \/ CheckAnswered(h)
  \/ Prepare(h) \/ RecordPrepared(h)
  \/ Submit(h) \/ ListTransactions(h) \/ CheckBalance(h) \/ Reload(h)
  \/ ConsumeApproval(h) \/ Revalidate(h) \/ CreateTransaction(h)
  \/ AwaitCreate(h) \/ RecordSubmitted(h)
  \/ Poll(h) \/ RecordPolled(h)
  \/ Catch(h) \/ RecordOutcome(h)
  \/ Finish(h) \/ Reconcile(h) \/ Respond(h) \/ Return(h)
  \/ CircleFault(h)

LiveNext ==
  \/ \E h \in Handlers : Begin(h) \/ Step(h) \/ StoreFault(h) \/ CircleAccepts(h)
  \/ \E k \in Keys : CircleSettles(k) \/ ExpireRun(k)
  \/ Restart
  \/ Advance

LiveSpec == LiveInit /\ [][LiveNext]_liveVars

(* A request that has begun goes on: the event loop runs every callback,   *)
(* and a call that never answers ends in a connection error or a timeout.  *)
FairLiveSpec == LiveSpec /\ \A h \in Handlers : WF_liveVars(Step(h))

-----------------------------------------------------------------------------
(* Properties                                                              *)

LiveTypeOK ==
  /\ StoreTypeOK
  /\ runs \in [Keys -> StoredRun \cup {None}]
  /\ handler \in [Handlers -> Request]
  /\ creates \in [Handlers -> CreateCall \cup {None}]
  /\ circle \in [Keys -> Operation \cup {None}]
  /\ restarts \in 0 .. MaxRestarts
  /\ faults \in 0 .. MaxFaults

(* Circle is only ever asked to pay for a key whose one-use approval has   *)
(* been consumed, whatever retried, recovered or crashed in between.       *)
PaymentNeedsSpentApproval ==
  /\ \A h \in Handlers : creates[h] # None => SpentKey(creates[h].key)
  /\ \A k \in Keys : circle[k] # None => SpentKey(k)

(* Of all requests for a transfer at most one makes the first submission:  *)
(* it won the consume, and every other one has to look at Circle first.    *)
OneFirstSubmission ==
  \A g, h \in Handlers :
    /\ handler[g].pc \in {"revalidate", "create"} /\ ~handler[g].consumed
    /\ handler[h].pc \in {"revalidate", "create"} /\ ~handler[h].consumed
    /\ Key(g) = Key(h)
    => g = h

(* Every operation in the durable record is the one Circle has for that    *)
(* key, a confirmation carries the evidence of its settlement, and a       *)
(* reconciliation repeats it: the record never claims more than happened.  *)
RecordIsTrue ==
  /\ \A k \in Keys : \A n \in 1 .. Len(resultHistory[k]) :
       LET r == resultHistory[k][n] IN
       /\ r.op # None => circle[k] # None /\ circle[k].op = r.op
       /\ r.status = "CONFIRMED" =>
            circle[k].state = "COMPLETE" /\ circle[k].evidence = r.evidence
  /\ \A n \in 1 .. Len(reconciliations) :
       LET r == reconciliations[n] IN
       circle[r.key] = [op |-> r.op, state |-> "COMPLETE", evidence |-> r.evidence]

(* A caller is told HANDOFF_CONFIRMED only after the confirmation and its  *)
(* reconciliation are durable, so the answer survives a crash.             *)
ConfirmedAnswerIsDurable ==
  \A n \in 1 .. Len(handoffHistory) :
    LET a == handoffHistory[n] IN
    a.result.status = "CONFIRMED" =>
      /\ a.reconciled
      /\ ReconciledAs(a.key) =
           {[key |-> a.key, op |-> a.result.op, evidence |-> a.result.evidence]}
      /\ Last(resultHistory[a.key]) = a.result

(* A retry claim never outlives the failure it was taken for: when its     *)
(* holder dies, another request can take it over after the lease.  A       *)
(* request that outlives its run, stalled for as long as the run is kept   *)
(* beyond the approval, is not held to it.                                 *)
ClaimsCanBeTakenOver ==
  \A k \in Keys : retryClaims[k] # None /\ clock < RunExpiry =>
    /\ retryClaims[k].length = Len(resultHistory[k])
    /\ LastFailed(resultHistory[k])

(* A reserved handoff is released, however its request ends.               *)
ReservationsAreReleased ==
  \A k \in Keys : (runs[k] # None /\ runs[k].reserved # None)
                    ~> (runs[k] = None \/ runs[k].reserved = None)

(* When Circle has accepted a transfer the durable record never rests on a *)
(* final failure that knows no operation: recovery can still find it.      *)
AcceptedTransferIsRecoverable ==
  \A k \in Keys : circle[k] # None =>
    ~(LastFailed(resultHistory[k]) /\ NoOperation(resultHistory[k]))
=============================================================================
