------------------------- MODULE AuthorizationStore -------------------------
(***************************************************************************)
(* The durable authorization store of the web application,                 *)
(* FileTransferAuthorizationStore.  Every operation runs under the store's *)
(* file lock, reads the whole state, and replaces it with one rename, so   *)
(* an operation is one action here; the lock itself is another module's    *)
(* subject.                                                                *)
(*                                                                         *)
(* For each operation there is a state predicate that says when it         *)
(* succeeds and an action that is its effect.  A caller for which the      *)
(* predicate is false gets null or an exception and leaves the store as it *)
(* was.                                                                    *)
(*                                                                         *)
(* Abstractions.  An approval's release, approval, binding, transaction    *)
(* and intent identifiers are all derived from the approval id (here a     *)
(* member of Bindings) and from the run (here its idempotency key, a       *)
(* member of Keys), so an intent is a pair of the two.  A result keeps its *)
(* status, its Circle operation and its confirmation evidence; timestamps, *)
(* failure codes and wording are dropped.  Because of the dropped          *)
(* timestamps two results that are equal here may or may not be equal in   *)
(* the program, so a caller recording an equal result may see it appended  *)
(* (if the transition is allowed) or ignored.                              *)
(***************************************************************************)
EXTENDS Naturals, SequencesExt

CONSTANTS
  Keys,          \* idempotency keys, one per verification run
  Bindings,      \* authorization bindings, one per approval id
  Ops,           \* Circle provider operation ids
  Evidence,      \* confirmation evidence: hash, block number, block hash, url
  Tokens,        \* retry claim tokens (randomUUID)
  None,          \* absent value (null or undefined)
  Lease,         \* PRE_SUBMISSION_RETRY_CLAIM_LEASE_MS in clock units
  MaxClock,      \* bound: the clock stops here
  MaxResults,    \* bound: longest result history of a key
  MaxHandoffs    \* bound: longest handoff history

ASSUME NoneAssumption ==
  /\ None \notin Keys
  /\ None \notin Bindings
  /\ None \notin Ops
  /\ None \notin Evidence
  /\ None \notin Tokens

ASSUME NatAssumption ==
  /\ Lease \in Nat
  /\ MaxClock \in Nat
  /\ MaxResults \in Nat
  /\ MaxHandoffs \in Nat

VARIABLES
  authorizations,   \* binding -> persisted authorization or None
  resultHistory,    \* key -> sequence of recorded transfer results
  latestResultKey,  \* key of the result recorded last, or None
  handoffHistory,   \* all handoff responses, oldest first
  reconciliations,  \* all reconciliation records, oldest first
  retryClaims,      \* key -> pre-submission retry claim or None
  grants,           \* history: key -> tokens claimants were given, in order
  clock             \* the server's wall clock

recordVars == <<authorizations, resultHistory, latestResultKey,
                handoffHistory, reconciliations, retryClaims, grants>>
storeVars  == <<recordVars, clock>>

-----------------------------------------------------------------------------
(* Data                                                                    *)

Times    == 0 .. MaxClock
Expiries == 0 .. MaxClock + 1   \* the last one: after the bounded clock
Intents  == [binding : Bindings, key : Keys]

Authorization == [key : Keys, status : {"ACTIVE", "CONSUMED"}, expiresAt : Nat]

(* An absent authorization is not an authorization.                        *)
ASSUME AbsenceAssumption == None \notin Authorization

TransferResult ==
  [status : {"PREPARED"}, op : {None}, evidence : {None}]
    \cup [status : {"RECOVERY_PENDING", "FAILED"}, op : Ops \cup {None},
          evidence : {None}]
    \cup [status : {"SUBMITTED"}, op : Ops, evidence : {None}]
    \cup [status : {"CONFIRMED"}, op : Ops, evidence : Evidence]

RetryClaim == [token : Tokens, binding : Bindings, claimedAt : Nat,
               length : Nat, failed : TransferResult]

HandoffResult == [key : Keys, result : TransferResult, reconciled : BOOLEAN]

Reconciliation == [key : Keys, op : Ops, evidence : Evidence]

-----------------------------------------------------------------------------
(* Reading the store                                                       *)

(* referencesMatch and authorizationMatchesIntent: the binding is stored   *)
(* and belongs to the transaction the intent names.                        *)
MatchesIntent(i) ==
  /\ authorizations[i.binding] # None
  /\ authorizations[i.binding].key = i.key

AuthorizedBy(b, k) == authorizations[b] # None /\ authorizations[b].key = k

ActiveKey(k) ==
  \E b \in Bindings : AuthorizedBy(b, k) /\ authorizations[b].status = "ACTIVE"

SpentKey(k) ==
  \E b \in Bindings : AuthorizedBy(b, k) /\ authorizations[b].status = "CONSUMED"

NoOperation(h) == \A n \in 1 .. Len(h) : h[n].op = None

LastFailed(h) == h # <<>> /\ Last(h).status = "FAILED"

ReconciledAs(k) ==
  {reconciliations[n] : n \in {m \in 1 .. Len(reconciliations) :
                                 reconciliations[m].key = k}}

HandoffsOf(k) == SelectSeq(handoffHistory, LAMBDA h : h.key = k)
-----------------------------------------------------------------------------
(* persist: the first snapshot for a key and for a binding wins.           *)

(* Faulty variant: only the binding id is compared.                        *)
CanPersistByBinding(i) ==
  \A b \in Bindings : authorizations[b] # None => b # i.binding

CanPersist(i) ==
  \A b \in Bindings : authorizations[b] # None =>
                        b # i.binding /\ authorizations[b].key # i.key

Persist(i, expiresAt) ==
  /\ CanPersist(i)
  /\ authorizations' = [authorizations EXCEPT ![i.binding] =
       [key |-> i.key, status |-> "ACTIVE", expiresAt |-> expiresAt]]
  /\ UNCHANGED <<resultHistory, latestResultKey, handoffHistory,
                 reconciliations, retryClaims, grants, clock>>

(* consume: an active, unexpired authorization is spent exactly once.      *)

CanConsume(i, asOf) ==
  /\ MatchesIntent(i)
  /\ authorizations[i.binding].status = "ACTIVE"
  /\ authorizations[i.binding].expiresAt > asOf

Consume(i, asOf) ==
  /\ CanConsume(i, asOf)
  /\ authorizations' = [authorizations EXCEPT ![i.binding].status = "CONSUMED"]
  /\ UNCHANGED <<resultHistory, latestResultKey, handoffHistory,
                 reconciliations, retryClaims, grants, clock>>

(* canAppendResult: which result may follow the last one.  Where it        *)
(* throws, both this and the "ignored" case of an equal result are false.  *)

Successors ==
  [PREPARED         |-> {"RECOVERY_PENDING", "SUBMITTED", "FAILED"},
   RECOVERY_PENDING |-> {"RECOVERY_PENDING", "SUBMITTED", "FAILED"},
   SUBMITTED        |-> {"SUBMITTED", "CONFIRMED", "FAILED"}]

(* Faulty variants: the operations in the history are not looked at; the   *)
(* approval may have been consumed.                                        *)
RetryWithoutHistory(k, h, next) ==
  /\ next.status = "PREPARED"
  /\ ActiveKey(k)

RetryOfConsumed(k, h, next) ==
  /\ next.status = "PREPARED"
  /\ NoOperation(h)

SafeRetry(k, h, next) ==
  /\ next.status = "PREPARED"
  /\ NoOperation(h)
  /\ ActiveKey(k)

CanAppendResult(k, next) ==
  LET h == resultHistory[k] IN
  \/ h = <<>>
  \/ LastFailed(h) /\ SafeRetry(k, h, next)
  \/ /\ h # <<>>
     /\ Last(h).status \in DOMAIN Successors
     /\ next.status \in Successors[Last(h).status]

RepeatsLast(k, next) == resultHistory[k] # <<>> /\ Last(resultHistory[k]) = next

(* Faulty variant: only the latest result is kept.                         *)
RecordLatestOnly(k, next) ==
  /\ CanAppendResult(k, next)
  /\ Len(resultHistory[k]) < MaxResults
  /\ resultHistory' = [resultHistory EXCEPT ![k] = <<next>>]
  /\ latestResultKey' = k
  /\ UNCHANGED <<authorizations, handoffHistory, reconciliations,
                 retryClaims, grants, clock>>

RecordResult(k, next) ==
  /\ CanAppendResult(k, next)
  /\ Len(resultHistory[k]) < MaxResults
  /\ resultHistory' = [resultHistory EXCEPT ![k] = Append(@, next)]
  /\ latestResultKey' = k
  /\ UNCHANGED <<authorizations, handoffHistory, reconciliations,
                 retryClaims, grants, clock>>

(* claimPreSubmissionRetry: one caller may retry a failed attempt that     *)
(* never reached Circle; a claim whose lease ran out is taken over.        *)

ClaimExpired(i, now) ==
  LET c == retryClaims[i.key] IN
  /\ c # None
  /\ c.claimedAt + Lease <= now
  /\ c.binding = i.binding
  /\ c.length = Len(resultHistory[i.key])
  /\ RepeatsLast(i.key, c.failed)

CanClaimRetry(i, now) ==
  /\ MatchesIntent(i)
  /\ authorizations[i.binding].status = "ACTIVE"
  /\ LastFailed(resultHistory[i.key])
  /\ NoOperation(resultHistory[i.key])
  /\ retryClaims[i.key] = None \/ ClaimExpired(i, now)

(* randomUUID: no token was handed out before.  Faulty variant: who takes a *)
(* claim over gets the token of the claim.                                 *)
Issued(token) == \E k \in Keys : \E n \in 1 .. Len(grants[k]) : grants[k][n] = token

KeptToken(k, token) ==
  IF retryClaims[k] = None THEN token \in Tokens /\ ~Issued(token)
  ELSE token = retryClaims[k].token

FreshToken(k, token) == token \in Tokens /\ ~Issued(token)

ClaimRetry(i, token, now) ==
  /\ CanClaimRetry(i, now)
  /\ FreshToken(i.key, token)
  /\ retryClaims' = [retryClaims EXCEPT ![i.key] =
       [token |-> token, binding |-> i.binding, claimedAt |-> now,
        length |-> Len(resultHistory[i.key]),
        failed |-> Last(resultHistory[i.key])]]
  /\ grants' = [grants EXCEPT ![i.key] = Append(@, token)]
  /\ UNCHANGED <<authorizations, resultHistory, latestResultKey,
                 handoffHistory, reconciliations, clock>>

(* completePreSubmissionRetryClaim: the holder of the current claim, and   *)
(* nobody else, records the outcome of preparing the retry.  Faulty        *)
(* variant: the token is not looked at.                                    *)

HoldsSomeClaim(k, token) ==
  /\ retryClaims[k] # None
  /\ AuthorizedBy(retryClaims[k].binding, k)
  /\ retryClaims[k].length = Len(resultHistory[k])
  /\ RepeatsLast(k, retryClaims[k].failed)

HoldsClaim(k, token) ==
  /\ retryClaims[k] # None
  /\ retryClaims[k].token = token
  /\ AuthorizedBy(retryClaims[k].binding, k)
  /\ retryClaims[k].length = Len(resultHistory[k])
  /\ RepeatsLast(k, retryClaims[k].failed)

CanCompleteClaim(k, token, next) ==
  /\ HoldsClaim(k, token)
  /\ next.op = None
  /\ \/ next.status = "PREPARED" /\ CanAppendResult(k, next)
     \/ /\ next.status = "FAILED"
        /\ LastFailed(resultHistory[k])
        /\ NoOperation(resultHistory[k])
        /\ ActiveKey(k)

(* Faulty variant: the claim is blanked and not deleted.                   *)
CompleteAndBlankClaim(k, token, next) ==
  /\ CanCompleteClaim(k, token, next)
  /\ Len(resultHistory[k]) < MaxResults
  /\ resultHistory' = [resultHistory EXCEPT ![k] = Append(@, next)]
  /\ latestResultKey' = k
  /\ retryClaims' = [retryClaims EXCEPT ![k].token = None]
  /\ UNCHANGED <<authorizations, handoffHistory, reconciliations,
                 grants, clock>>

CompleteClaim(k, token, next) ==
  /\ CanCompleteClaim(k, token, next)
  /\ Len(resultHistory[k]) < MaxResults
  /\ resultHistory' = [resultHistory EXCEPT ![k] = Append(@, next)]
  /\ latestResultKey' = k
  /\ retryClaims' = [retryClaims EXCEPT ![k] = None]
  /\ UNCHANGED <<authorizations, handoffHistory, reconciliations,
                 grants, clock>>

(* recordReconciliation: only for the confirmed result, and only once.  An *)
(* equal record is accepted and ignored.                                   *)

ConfirmedAs(r) ==
  /\ resultHistory[r.key] # <<>>
  /\ Last(resultHistory[r.key]) =
       [status |-> "CONFIRMED", op |-> r.op, evidence |-> r.evidence]

(* Faulty variant: earlier reconciliations are not looked at.              *)
CanReconcileAgain(r) == ConfirmedAs(r)

CanReconcile(r) == ConfirmedAs(r) /\ ReconciledAs(r.key) = {}

AlreadyReconciled(r) == ConfirmedAs(r) /\ r \in ReconciledAs(r.key)

RecordReconciliation(r) ==
  /\ CanReconcile(r)
  /\ reconciliations' = Append(reconciliations, r)
  /\ UNCHANGED <<authorizations, resultHistory, latestResultKey,
                 handoffHistory, retryClaims, grants, clock>>

(* recordHandoff: every response is appended, except a repeat of the last. *)

RecordHandoff(h) ==
  /\ Len(handoffHistory) < MaxHandoffs
  /\ handoffHistory' = Append(handoffHistory, h)
  /\ UNCHANGED <<authorizations, resultHistory, latestResultKey,
                 reconciliations, retryClaims, grants, clock>>

Tick ==
  /\ clock < MaxClock
  /\ clock' = clock + 1
  /\ UNCHANGED recordVars
-----------------------------------------------------------------------------
(* EMPTY_STATE                                                             *)
StoreInit ==
  /\ authorizations = [b \in Bindings |-> None]
  /\ resultHistory = [k \in Keys |-> <<>>]
  /\ latestResultKey = None
  /\ handoffHistory = <<>>
  /\ reconciliations = <<>>
  /\ retryClaims = [k \in Keys |-> None]
  /\ grants = [k \in Keys |-> <<>>]
  /\ clock = 0

(* Any caller may call any operation with any arguments; a moment `asOf'   *)
(* it read from the clock may have passed when the lock is granted.        *)
StoreNext ==
  \/ \E i \in Intents, t \in Expiries : Persist(i, t)
  \/ \E i \in Intents : \E asOf \in 0 .. clock : Consume(i, asOf)
  \/ \E k \in Keys, r \in TransferResult : RecordResult(k, r)
  \/ \E i \in Intents, t \in Tokens : ClaimRetry(i, t, clock)
  \/ \E k \in Keys, t \in Tokens, r \in TransferResult : CompleteClaim(k, t, r)
  \/ \E r \in Reconciliation : RecordReconciliation(r)
  \/ \E h \in HandoffResult : RecordHandoff(h)
  \/ Tick

StoreSpec == StoreInit /\ [][StoreNext]_storeVars
-----------------------------------------------------------------------------
(* Properties                                                              *)

StoreTypeOK ==
  /\ authorizations \in [Bindings -> Authorization \cup {None}]
  /\ resultHistory \in [Keys -> Seq(TransferResult)]
  /\ latestResultKey \in Keys \cup {None}
  /\ handoffHistory \in Seq(HandoffResult)
  /\ reconciliations \in Seq(Reconciliation)
  /\ retryClaims \in [Keys -> RetryClaim \cup {None}]
  /\ grants \in [Keys -> Seq(Tokens)]
  /\ clock \in Times

(* A key is authorized through at most one binding: two approvals for the  *)
(* same prepared transfer never both become spendable.  (persist)          *)
OneBindingPerKey ==
  \A a, b \in Bindings, k \in Keys :
    AuthorizedBy(a, k) /\ AuthorizedBy(b, k) => a = b

(* Once a history names a Circle operation no later entry is a fresh       *)
(* attempt, and nothing follows a confirmation or a failure that followed  *)
(* an operation: recovery and retry can never re-open a transfer Circle    *)
(* may already have executed.  (canAppendResult, completePre...Claim)      *)
NoAttemptAfterOperation ==
  \A k \in Keys : \A m, n \in 1 .. Len(resultHistory[k]) :
    m < n =>
      LET before == resultHistory[k][m]
          after  == resultHistory[k][n]
      IN  /\ before.op # None => after.status # "PREPARED"
          /\ before.status # "CONFIRMED"
          /\ before.status = "FAILED" =>
               \A l \in 1 .. m : resultHistory[k][l].op = None

(* A reconciliation stays true: it carries exactly the operation and the   *)
(* evidence of the confirmed result that still ends the key's history, and *)
(* a key is reconciled once.  (recordReconciliation, canAppendResult)      *)
ReconciliationsSettled ==
  /\ \A n \in 1 .. Len(reconciliations) : ConfirmedAs(reconciliations[n])
  /\ \A m, n \in 1 .. Len(reconciliations) :
       reconciliations[m].key = reconciliations[n].key => m = n

(* A caller whose lease was taken over cannot complete in the name of the  *)
(* new claimant: of all callers that were ever given a token, only the one *)
(* that claimed a key last can complete its claim, whatever was recorded,  *)
(* completed and claimed in between, and no token serves for another key.  *)
(* (claimPreSubmissionRetry, completePreSubmissionRetryClaim)              *)
ClaimsFenced ==
  \A j, k \in Keys, r \in TransferResult : \A n \in 1 .. Len(grants[j]) :
    CanCompleteClaim(k, grants[j][n], r) => j = k /\ n = Len(grants[j])

(* The record only grows: a stored approval changes by being spent and in  *)
(* no other way, a spent one never changes, and no recorded result is      *)
(* dropped or rewritten by any operation.                                  *)
RecordIsAppendOnly ==
  [][/\ \A b \in Bindings : authorizations[b] # None =>
          authorizations'[b] \in
            {authorizations[b], [authorizations[b] EXCEPT !.status = "CONSUMED"]}
     /\ \A k \in Keys : IsPrefix(resultHistory[k], resultHistory'[k])
     /\ IsPrefix(reconciliations, reconciliations')]_storeVars

(* The record implements the abstract lifecycle of a transfer.             *)
HistoryStage(h) ==
  IF h = <<>> THEN "idle"
  ELSE IF Last(h).status = "CONFIRMED" THEN "paid"
  ELSE IF NoOperation(h)
    THEN IF Last(h).status = "FAILED" THEN "failed" ELSE "open"
    ELSE IF Last(h).status = "FAILED" THEN "dead" ELSE "tracked"

Lifecycle == INSTANCE TransferLifecycle WITH
  stage <- [k \in Keys |-> HistoryStage(resultHistory[k])],
  spent <- [k \in Keys |-> SpentKey(k)]

LifecycleSpec == Lifecycle!LifecycleSpec
=============================================================================
