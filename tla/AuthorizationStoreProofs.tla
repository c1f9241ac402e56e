---------------------- MODULE AuthorizationStoreProofs ----------------------
(***************************************************************************)
(* Proofs about the durable store for every set of keys, bindings,         *)
(* operations, evidence and tokens, every lease and every bound.           *)
(***************************************************************************)
EXTENDS AuthorizationStore, TLAPS

(* No token is ever handed out twice, and the claim of a key carries the   *)
(* one handed out for it last.                                             *)
GrantsApart ==
  \A j, k \in Keys : \A m \in 1 .. Len(grants[j]), n \in 1 .. Len(grants[k]) :
    grants[j][m] = grants[k][n] => j = k /\ m = n

ClaimIsLatestGrant ==
  \A k \in Keys : retryClaims[k] # None =>
    /\ Len(grants[k]) \in 1 .. Len(grants[k])
    /\ retryClaims[k].token = grants[k][Len(grants[k])]

TokensInv == GrantsApart /\ ClaimIsLatestGrant

(* The inductive invariant.  StoreTypeOK types every access.  The safety   *)
(* parts lean on each other: a history never re-opens because a failure is *)
(* last only when no operation was known, and a reconciliation stays       *)
(* settled because nothing follows a confirmation.  That claims are fenced *)
(* is not inductive: it follows from what is known of the tokens.          *)
StoreInv ==
  /\ StoreTypeOK
  /\ OneBindingPerKey
  /\ NoAttemptAfterOperation
  /\ ReconciliationsSettled
  /\ TokensInv

(* What appending one entry to a sequence does.                            *)
LEMMA AppendFacts ==
  ASSUME NEW S, NEW h \in Seq(S), NEW r \in S
  PROVE  /\ Append(h, r) \in Seq(S)
         /\ Len(h) \in Nat
         /\ Len(Append(h, r)) = Len(h) + 1
         /\ \A n \in 1 .. Len(h) : Append(h, r)[n] = h[n]
         /\ Append(h, r)[Len(h) + 1] = r
         /\ Append(h, r) # <<>>
         /\ Last(Append(h, r)) = r
         /\ IsPrefix(h, Append(h, r))
  BY DEF Last, IsPrefix

LEMMA LastInSeq ==
  ASSUME NEW S, NEW h \in Seq(S), h # <<>>
  PROVE  /\ Len(h) \in Nat \ {0}
         /\ Len(h) \in 1 .. Len(h)
         /\ Last(h) = h[Len(h)]
         /\ Last(h) \in S
  BY DEF Last

LEMMA InitInv == StoreInit => StoreInv
  <1> SUFFICES ASSUME StoreInit PROVE StoreInv
    OBVIOUS
  <1>1. StoreTypeOK
    BY NatAssumption DEF StoreInit, StoreTypeOK, Times
  <1>2. OneBindingPerKey
    BY DEF StoreInit, OneBindingPerKey, AuthorizedBy
  <1>3. NoAttemptAfterOperation /\ ReconciliationsSettled /\ TokensInv
    BY DEF StoreInit, NoAttemptAfterOperation, ReconciliationsSettled,
           TokensInv, GrantsApart, ClaimIsLatestGrant
  <1>4. QED
    BY <1>1, <1>2, <1>3 DEF StoreInv

-----------------------------------------------------------------------------
(* One step of the store, by what it does to the histories.                *)

(* What canAppendResult and completePreSubmissionRetryClaim have in        *)
(* common: the entry they append continues the history legally.            *)
Continues(h, next) ==
  \/ h = <<>>
  \/ /\ LastFailed(h)
     /\ NoOperation(h)
     /\ next.status \in {"PREPARED", "FAILED"}
     /\ next.op = None
  \/ /\ h # <<>>
     /\ Last(h).status \in {"PREPARED", "RECOVERY_PENDING"}
     /\ next.status \in {"RECOVERY_PENDING", "SUBMITTED", "FAILED"}
  \/ /\ h # <<>>
     /\ Last(h).status = "SUBMITTED"
     /\ next.status \in {"SUBMITTED", "CONFIRMED", "FAILED"}

LEMMA CanAppendContinues ==
  ASSUME NEW k \in Keys, NEW next \in TransferResult, CanAppendResult(k, next)
  PROVE  Continues(resultHistory[k], next)
  BY DEF CanAppendResult, Continues, SafeRetry, Successors, TransferResult

(* Appending a legal continuation to one history.                          *)
LEMMA GrowHistory ==
  ASSUME StoreInv,
         NEW k \in Keys, NEW next \in TransferResult,
         Continues(resultHistory[k], next),
         resultHistory' = [resultHistory EXCEPT ![k] = Append(@, next)]
  PROVE  /\ resultHistory' \in [Keys -> Seq(TransferResult)]
         /\ NoAttemptAfterOperation'
         /\ \A j \in Keys :
              /\ Len(resultHistory[j]) \in Nat
              /\ Len(resultHistory'[j]) \in Nat
              /\ Len(resultHistory[j]) <= Len(resultHistory'[j])
              /\ \A n \in 1 .. Len(resultHistory[j]) :
                   resultHistory'[j][n] = resultHistory[j][n]
              /\ IsPrefix(resultHistory[j], resultHistory'[j])
         /\ \A r \in Reconciliation : ConfirmedAs(r) => ConfirmedAs(r)'
  <1> DEFINE h == resultHistory[k]
  <1>0. /\ h \in Seq(TransferResult)
        /\ resultHistory'[k] = Append(h, next)
        /\ \A j \in Keys \ {k} : resultHistory'[j] = resultHistory[j]
        /\ \A j \in Keys : resultHistory[j] \in Seq(TransferResult)
    BY DEF StoreInv, StoreTypeOK
  <1> HIDE DEF h
  <1>1. /\ Append(h, next) \in Seq(TransferResult)
        /\ Len(h) \in Nat
        /\ Len(Append(h, next)) = Len(h) + 1
        /\ \A n \in 1 .. Len(h) : Append(h, next)[n] = h[n]
        /\ Append(h, next)[Len(h) + 1] = next
        /\ IsPrefix(h, Append(h, next))
    BY <1>0, AppendFacts
  <1>2. resultHistory' \in [Keys -> Seq(TransferResult)]
    BY <1>0, <1>1 DEF StoreInv, StoreTypeOK
  <1>3. \A j \in Keys :
          /\ Len(resultHistory[j]) \in Nat
          /\ Len(resultHistory'[j]) \in Nat
          /\ Len(resultHistory[j]) <= Len(resultHistory'[j])
          /\ \A n \in 1 .. Len(resultHistory[j]) :
               resultHistory'[j][n] = resultHistory[j][n]
          /\ IsPrefix(resultHistory[j], resultHistory'[j])
    <2> SUFFICES ASSUME NEW j \in Keys
                 PROVE  /\ Len(resultHistory[j]) \in Nat
                        /\ Len(resultHistory'[j]) \in Nat
                        /\ Len(resultHistory[j]) <= Len(resultHistory'[j])
                        /\ \A n \in 1 .. Len(resultHistory[j]) :
                             resultHistory'[j][n] = resultHistory[j][n]
                        /\ IsPrefix(resultHistory[j], resultHistory'[j])
      OBVIOUS
    <2>1. CASE j = k
      BY <1>0, <1>1, <2>1 DEF h
    <2>2. CASE j # k
      <3>1. resultHistory'[j] = resultHistory[j] /\ Len(resultHistory[j]) \in Nat
        BY <1>0, <2>2
      <3>2. QED
        BY <3>1 DEF IsPrefix
    <2>3. QED
      BY <2>1, <2>2
  <1>4. \A l, m \in 1 .. Len(h) : l < m =>
          /\ h[l].op # None => h[m].status # "PREPARED"
          /\ h[l].status # "CONFIRMED"
          /\ h[l].status = "FAILED" => \A i \in 1 .. l : h[i].op = None
    BY DEF StoreInv, NoAttemptAfterOperation, h
  <1>5. \A m \in 1 .. Len(h) :
          /\ h[m].op # None => next.status # "PREPARED"
          /\ h[m].status # "CONFIRMED"
          /\ h[m].status = "FAILED" => \A i \in 1 .. m : h[i].op = None
    <2> SUFFICES ASSUME NEW m \in 1 .. Len(h)
                 PROVE  /\ h[m].op # None => next.status # "PREPARED"
                        /\ h[m].status # "CONFIRMED"
                        /\ h[m].status = "FAILED" =>
                             \A i \in 1 .. m : h[i].op = None
      OBVIOUS
    <2>0. h # <<>> /\ Last(h) = h[Len(h)] /\ Len(h) \in 1 .. Len(h)
      BY <1>0, <1>1, LastInSeq
    <2>1. Continues(h, next)
      BY DEF h
    <2>2. CASE m = Len(h)
      BY <1>1, <2>0, <2>1, <2>2 DEF Continues, LastFailed, NoOperation
    <2>3. CASE m < Len(h)
      <3>1. /\ h[m].status # "CONFIRMED"
            /\ h[m].status = "FAILED" => \A i \in 1 .. m : h[i].op = None
        BY <1>1, <1>4, <2>0, <2>3
      <3>2. h[m].op # None => next.status # "PREPARED"
        BY <2>0, <2>1 DEF Continues, LastFailed, NoOperation
      <3>3. QED
        BY <3>1, <3>2
    <2>4. QED
      BY <1>1, <2>2, <2>3
  <1>6. NoAttemptAfterOperation'
    <2> SUFFICES ASSUME NEW j \in Keys,
                        NEW m \in 1 .. Len(resultHistory'[j]),
                        NEW n \in 1 .. Len(resultHistory'[j]),
                        m < n
                 PROVE  /\ resultHistory'[j][m].op # None =>
                             resultHistory'[j][n].status # "PREPARED"
                        /\ resultHistory'[j][m].status # "CONFIRMED"
                        /\ resultHistory'[j][m].status = "FAILED" =>
                             \A l \in 1 .. m : resultHistory'[j][l].op = None
      BY DEF NoAttemptAfterOperation
    <2>1. CASE j # k
      BY <1>0, <2>1 DEF StoreInv, NoAttemptAfterOperation
    <2>2. CASE j = k
      <3> DEFINE g == resultHistory'[k]
      <3>1. /\ Len(h) \in Nat
            /\ Len(g) = Len(h) + 1
            /\ \A l \in 1 .. Len(h) : g[l] = h[l]
            /\ g[Len(h) + 1] = next
        BY <1>0, <1>1
      <3> HIDE DEF g
      <3>2. m \in 1 .. Len(h) /\ g[m] = h[m] /\ n \in 1 .. Len(h) + 1
        BY <2>2, <3>1 DEF g
      <3>3. h[m].status # "CONFIRMED"
        BY <1>5, <3>2
      <3>4. h[m].status = "FAILED" => \A l \in 1 .. m : g[l].op = None
        <4> SUFFICES ASSUME h[m].status = "FAILED", NEW l \in 1 .. m
                     PROVE  g[l].op = None
          OBVIOUS
        <4>1. h[l].op = None
          BY <1>5, <3>2
        <4>2. l \in 1 .. Len(h)
          BY <3>1, <3>2
        <4>3. QED
          BY <3>1, <4>1, <4>2
      <3>5. h[m].op # None => g[n].status # "PREPARED"
        <4>1. CASE n = Len(h) + 1
          BY <1>5, <3>1, <3>2, <4>1
        <4>2. CASE n \in 1 .. Len(h)
          BY <1>4, <3>1, <3>2, <4>2
        <4>3. QED
          BY <3>1, <3>2, <4>1, <4>2
      <3>6. QED
        BY <2>2, <3>2, <3>3, <3>4, <3>5 DEF g
    <2>3. QED
      BY <2>1, <2>2
  <1>7. ASSUME NEW r \in Reconciliation, ConfirmedAs(r)
        PROVE  ConfirmedAs(r)'
    <2>1. r.key # k
      <3> SUFFICES ASSUME r.key = k PROVE FALSE
        OBVIOUS
      <3>1. h # <<>> /\ Last(h).status = "CONFIRMED"
        BY <1>7 DEF ConfirmedAs, h
      <3>2. Last(h) = h[Len(h)] /\ Len(h) \in 1 .. Len(h)
        BY <1>0, <3>1, LastInSeq
      <3>3. QED
        BY <1>5, <3>1, <3>2
    <2>2. resultHistory'[r.key] = resultHistory[r.key]
      BY <1>0, <2>1 DEF Reconciliation
    <2>3. QED
      BY <1>7, <2>2 DEF ConfirmedAs
  <1>8. QED
    BY <1>2, <1>3, <1>6, <1>7

-----------------------------------------------------------------------------
(* One lemma per operation: it preserves the invariant and only appends.   *)

AppendsOnly ==
  /\ \A b \in Bindings : authorizations[b] # None =>
       authorizations'[b] \in
         {authorizations[b], [authorizations[b] EXCEPT !.status = "CONSUMED"]}
  /\ \A k \in Keys : IsPrefix(resultHistory[k], resultHistory'[k])
  /\ IsPrefix(reconciliations, reconciliations')

LEMMA SamePrefix ==
  ASSUME StoreTypeOK
  PROVE  /\ \A k \in Keys : IsPrefix(resultHistory[k], resultHistory[k])
         /\ IsPrefix(reconciliations, reconciliations)
  BY DEF IsPrefix, StoreTypeOK

(* A step that claims nothing.                                             *)
LEMMA SameTokens ==
  ASSUME TokensInv, grants' = grants,
         \A k \in Keys : retryClaims'[k] \in {retryClaims[k], None}
  PROVE  TokensInv'
  BY DEF TokensInv, GrantsApart, ClaimIsLatestGrant

LEMMA PersistStep ==
  ASSUME StoreInv, NEW i \in Intents, NEW t \in Expiries, Persist(i, t)
  PROVE  StoreInv' /\ AppendsOnly
  <1> USE DEF Intents, Expiries
  <1>1. StoreTypeOK'
    BY NatAssumption DEF StoreInv, StoreTypeOK, Persist, Authorization
  <1>2. OneBindingPerKey'
    BY NoneAssumption
    DEF StoreInv, StoreTypeOK, OneBindingPerKey, AuthorizedBy, Persist, CanPersist
  <1>3. /\ NoAttemptAfterOperation'
        /\ ReconciliationsSettled'
        /\ TokensInv'
    <2>1. UNCHANGED <<resultHistory, reconciliations, retryClaims, grants>>
      BY DEF Persist
    <2>2. QED
      BY <2>1, SameTokens DEF StoreInv, NoAttemptAfterOperation,
                              ReconciliationsSettled, ConfirmedAs
  <1>4. AppendsOnly
    <2>1. \A b \in Bindings : authorizations[b] # None =>
            authorizations'[b] = authorizations[b]
      BY DEF StoreInv, StoreTypeOK, Persist, CanPersist
    <2>2. resultHistory' = resultHistory /\ reconciliations' = reconciliations
      BY DEF Persist
    <2>3. QED
      BY <2>1, <2>2, SamePrefix DEF StoreInv, AppendsOnly
  <1>5. QED
    BY <1>1, <1>2, <1>3, <1>4 DEF StoreInv

LEMMA ConsumeStep ==
  ASSUME StoreInv, NEW i \in Intents, NEW asOf, Consume(i, asOf)
  PROVE  StoreInv' /\ AppendsOnly
  <1> USE DEF Intents
  <1>0. authorizations[i.binding] \in Authorization
    BY DEF Consume, CanConsume, MatchesIntent, StoreInv, StoreTypeOK
  <1>1. StoreTypeOK'
    BY <1>0 DEF StoreInv, StoreTypeOK, Consume, Authorization
  <1>2. \A b \in Bindings, k \in Keys : AuthorizedBy(b, k)' => AuthorizedBy(b, k)
    BY <1>0 DEF AuthorizedBy, Consume, CanConsume, MatchesIntent, Authorization,
                StoreInv, StoreTypeOK
  <1>3. OneBindingPerKey'
    BY <1>2 DEF StoreInv, OneBindingPerKey
  <1>4. /\ NoAttemptAfterOperation'
        /\ ReconciliationsSettled'
        /\ TokensInv'
    BY SameTokens DEF StoreInv, NoAttemptAfterOperation, ReconciliationsSettled,
                      ConfirmedAs, Consume
  <1>5. AppendsOnly
    BY SamePrefix DEF StoreInv, StoreTypeOK, AppendsOnly, Consume
  <1>6. QED
    BY <1>1, <1>3, <1>4, <1>5 DEF StoreInv

LEMMA RecordResultStep ==
  ASSUME StoreInv, NEW k \in Keys, NEW r \in TransferResult, RecordResult(k, r)
  PROVE  StoreInv' /\ AppendsOnly
  <1>0. /\ resultHistory' = [resultHistory EXCEPT ![k] = Append(@, r)]
        /\ Continues(resultHistory[k], r)
        /\ UNCHANGED <<authorizations, reconciliations, retryClaims, grants>>
    BY CanAppendContinues DEF RecordResult
  <1>1. /\ resultHistory' \in [Keys -> Seq(TransferResult)]
        /\ NoAttemptAfterOperation'
        /\ \A j \in Keys :
             /\ Len(resultHistory[j]) \in Nat
             /\ Len(resultHistory'[j]) \in Nat
             /\ Len(resultHistory[j]) <= Len(resultHistory'[j])
             /\ \A n \in 1 .. Len(resultHistory[j]) :
                  resultHistory'[j][n] = resultHistory[j][n]
             /\ IsPrefix(resultHistory[j], resultHistory'[j])
        /\ \A q \in Reconciliation : ConfirmedAs(q) => ConfirmedAs(q)'
    BY <1>0, GrowHistory
  <1>2. StoreTypeOK'
    BY <1>1 DEF StoreInv, StoreTypeOK, RecordResult
  <1>3. OneBindingPerKey'
    BY <1>0 DEF StoreInv, OneBindingPerKey, AuthorizedBy
  <1>4. ReconciliationsSettled'
    BY <1>0, <1>1 DEF StoreInv, StoreTypeOK, ReconciliationsSettled
  <1>5. TokensInv'
    BY <1>0, SameTokens DEF StoreInv
  <1>6. AppendsOnly
    BY <1>0, <1>1, SamePrefix DEF AppendsOnly, StoreInv
  <1>7. QED
    BY <1>1, <1>2, <1>3, <1>4, <1>5, <1>6 DEF StoreInv

LEMMA ClaimRetryStep ==
  ASSUME StoreInv, NEW i \in Intents, NEW t \in Tokens, ClaimRetry(i, t, clock)
  PROVE  StoreInv' /\ AppendsOnly
  <1> DEFINE h == resultHistory[i.key]
  <1>0. i.key \in Keys /\ i.binding \in Bindings /\ h \in Seq(TransferResult)
    BY DEF Intents, StoreInv, StoreTypeOK
  <1>1. /\ Last(h) \in TransferResult
        /\ Last(h).status = "FAILED"
        /\ Last(h) = h[Len(h)]
        /\ Len(h) \in 1 .. Len(h)
        /\ Len(h) \in Nat
    BY <1>0, LastInSeq DEF ClaimRetry, CanClaimRetry, LastFailed
  <1>2. StoreTypeOK'
    BY <1>0, <1>1 DEF StoreInv, StoreTypeOK, ClaimRetry, RetryClaim, Times
  <1>3. OneBindingPerKey' /\ NoAttemptAfterOperation' /\ ReconciliationsSettled'
    BY DEF StoreInv, OneBindingPerKey, AuthorizedBy, NoAttemptAfterOperation,
           ReconciliationsSettled, ConfirmedAs, ClaimRetry
  <1>4. TokensInv'
    <2> DEFINE k == i.key
               c == [token |-> t, binding |-> i.binding, claimedAt |-> clock,
                     length |-> Len(h), failed |-> Last(h)]
    <2>1. /\ k \in Keys
          /\ grants \in [Keys -> Seq(Tokens)]
          /\ retryClaims \in [Keys -> RetryClaim \cup {None}]
          /\ grants' = [grants EXCEPT ![k] = Append(@, t)]
          /\ retryClaims' = [retryClaims EXCEPT ![k] = c]
          /\ c.token = t
      BY <1>0 DEF ClaimRetry, StoreInv, StoreTypeOK
    <2>2. \A q \in Keys : \A n \in 1 .. Len(grants[q]) : grants[q][n] # t
      BY DEF ClaimRetry, FreshToken, Issued
    <2> HIDE DEF k, c
    <2>3. /\ grants'[k] = Append(grants[k], t)
          /\ retryClaims'[k] = c
          /\ \A q \in Keys \ {k} : grants'[q] = grants[q] /\ retryClaims'[q] = retryClaims[q]
      BY <2>1
    <2>4. /\ Len(grants[k]) \in Nat
          /\ Len(grants'[k]) = Len(grants[k]) + 1
          /\ \A n \in 1 .. Len(grants[k]) : grants'[k][n] = grants[k][n]
          /\ grants'[k][Len(grants[k]) + 1] = t
      BY <2>1, <2>3, AppendFacts
    <2>5. ClaimIsLatestGrant'
      BY <2>1, <2>3, <2>4 DEF StoreInv, TokensInv, ClaimIsLatestGrant
    <2>6. GrantsApart'
      <3> SUFFICES ASSUME NEW p \in Keys, NEW q \in Keys,
                          NEW m \in 1 .. Len(grants'[p]), NEW n \in 1 .. Len(grants'[q]),
                          grants'[p][m] = grants'[q][n]
                   PROVE  p = q /\ m = n
        BY DEF GrantsApart
      <3>1. ASSUME NEW q1 \in Keys, NEW n1 \in 1 .. Len(grants'[q1])
            PROVE  \/ q1 = k /\ n1 = Len(grants[k]) + 1 /\ grants'[q1][n1] = t
                   \/ n1 \in 1 .. Len(grants[q1]) /\ grants'[q1][n1] = grants[q1][n1]
        <4>1. CASE q1 = k
          <5>1. n1 \in 1 .. Len(grants[k]) \/ n1 = Len(grants[k]) + 1
            BY <4>1, <2>4
          <5>2. QED
            BY <4>1, <5>1, <2>4
        <4>2. CASE q1 # k
          BY <4>2, <2>3
        <4>3. QED
          BY <4>1, <4>2
      <3>2. /\ \/ p = k /\ m = Len(grants[k]) + 1 /\ grants'[p][m] = t
               \/ m \in 1 .. Len(grants[p]) /\ grants'[p][m] = grants[p][m]
            /\ \/ q = k /\ n = Len(grants[k]) + 1 /\ grants'[q][n] = t
               \/ n \in 1 .. Len(grants[q]) /\ grants'[q][n] = grants[q][n]
        BY <3>1
      <3>3. QED
        BY <3>2, <2>2 DEF StoreInv, TokensInv, GrantsApart
    <2>7. QED
      BY <2>5, <2>6 DEF TokensInv
  <1>5. AppendsOnly
    BY SamePrefix DEF StoreInv, AppendsOnly, ClaimRetry
  <1>6. QED
    BY <1>2, <1>3, <1>4, <1>5 DEF StoreInv

LEMMA CompleteClaimStep ==
  ASSUME StoreInv, NEW k \in Keys, NEW t \in Tokens, NEW r \in TransferResult,
         CompleteClaim(k, t, r)
  PROVE  StoreInv' /\ AppendsOnly
  <1>0. /\ resultHistory' = [resultHistory EXCEPT ![k] = Append(@, r)]
        /\ retryClaims' = [retryClaims EXCEPT ![k] = None]
        /\ UNCHANGED <<authorizations, reconciliations, grants>>
    BY DEF CompleteClaim
  <1>1. Continues(resultHistory[k], r)
    BY CanAppendContinues DEF CompleteClaim, CanCompleteClaim, Continues
  <1>2. /\ resultHistory' \in [Keys -> Seq(TransferResult)]
        /\ NoAttemptAfterOperation'
        /\ \A j \in Keys :
             /\ Len(resultHistory[j]) \in Nat
             /\ Len(resultHistory'[j]) \in Nat
             /\ Len(resultHistory[j]) <= Len(resultHistory'[j])
             /\ \A n \in 1 .. Len(resultHistory[j]) :
                  resultHistory'[j][n] = resultHistory[j][n]
             /\ IsPrefix(resultHistory[j], resultHistory'[j])
        /\ \A q \in Reconciliation : ConfirmedAs(q) => ConfirmedAs(q)'
    BY <1>0, <1>1, GrowHistory
  <1>3. StoreTypeOK'
    BY <1>0, <1>2 DEF StoreInv, StoreTypeOK, CompleteClaim
  <1>4. OneBindingPerKey'
    BY <1>0 DEF StoreInv, OneBindingPerKey, AuthorizedBy
  <1>5. ReconciliationsSettled'
    BY <1>0, <1>2 DEF StoreInv, StoreTypeOK, ReconciliationsSettled
  <1>6. TokensInv'
    BY <1>0, SameTokens DEF StoreInv, StoreTypeOK
  <1>7. AppendsOnly
    BY <1>0, <1>2, SamePrefix DEF AppendsOnly, StoreInv
  <1>8. QED
    BY <1>2, <1>3, <1>4, <1>5, <1>6, <1>7 DEF StoreInv

LEMMA RecordReconciliationStep ==
  ASSUME StoreInv, NEW r \in Reconciliation, RecordReconciliation(r)
  PROVE  StoreInv' /\ AppendsOnly
  <1> DEFINE q == reconciliations'
  <1>0. /\ reconciliations \in Seq(Reconciliation)
        /\ q = Append(reconciliations, r)
        /\ resultHistory' = resultHistory
    BY DEF RecordReconciliation, StoreInv, StoreTypeOK
  <1>1. /\ q \in Seq(Reconciliation)
        /\ Len(reconciliations) \in Nat
        /\ Len(q) = Len(reconciliations) + 1
        /\ \A n \in 1 .. Len(reconciliations) : q[n] = reconciliations[n]
        /\ q[Len(reconciliations) + 1] = r
        /\ IsPrefix(reconciliations, q)
    BY <1>0, AppendFacts
  <1>2. StoreTypeOK'
    BY <1>1 DEF StoreInv, StoreTypeOK, RecordReconciliation
  <1>3. OneBindingPerKey' /\ NoAttemptAfterOperation' /\ TokensInv'
    BY SameTokens DEF StoreInv, OneBindingPerKey, AuthorizedBy,
                      NoAttemptAfterOperation, RecordReconciliation
  <1> HIDE DEF q
  <1>4. ASSUME NEW n \in 1 .. Len(q)
        PROVE  /\ resultHistory[q[n].key] # <<>>
               /\ Last(resultHistory[q[n].key]) =
                    [status |-> "CONFIRMED", op |-> q[n].op,
                     evidence |-> q[n].evidence]
    <2>1. ConfirmedAs(q[n])
      BY <1>1 DEF StoreInv, ReconciliationsSettled, RecordReconciliation, CanReconcile
    <2>2. QED
      BY <2>1 DEF ConfirmedAs
  <1>5. \A n \in 1 .. Len(reconciliations) : reconciliations[n].key # r.key
    BY DEF RecordReconciliation, CanReconcile, ReconciledAs
  <1>6. \A m, n \in 1 .. Len(q) : q[m].key = q[n].key => m = n
    BY <1>1, <1>5 DEF StoreInv, ReconciliationsSettled
  <1>7. ReconciliationsSettled'
    BY <1>0, <1>4, <1>6 DEF ReconciliationsSettled, ConfirmedAs, q
  <1>8. AppendsOnly
    BY <1>1, SamePrefix DEF StoreInv, AppendsOnly, RecordReconciliation, q
  <1>9. QED
    BY <1>2, <1>3, <1>7, <1>8 DEF StoreInv

LEMMA RecordHandoffStep ==
  ASSUME StoreInv, NEW h \in HandoffResult, RecordHandoff(h)
  PROVE  StoreInv' /\ AppendsOnly
  <1>0. UNCHANGED <<authorizations, resultHistory, latestResultKey,
                    reconciliations, retryClaims, grants, clock>>
    BY DEF RecordHandoff
  <1>1. StoreTypeOK'
    BY <1>0 DEF StoreInv, StoreTypeOK, RecordHandoff
  <1>2. /\ OneBindingPerKey'
        /\ NoAttemptAfterOperation'
        /\ ReconciliationsSettled'
        /\ TokensInv'
    BY <1>0, SameTokens
    DEF StoreInv, OneBindingPerKey, AuthorizedBy, NoAttemptAfterOperation,
        ReconciliationsSettled, ConfirmedAs
  <1>3. AppendsOnly
    BY <1>0, SamePrefix DEF StoreInv, AppendsOnly
  <1>4. QED
    BY <1>1, <1>2, <1>3 DEF StoreInv

LEMMA ClockStep ==
  ASSUME StoreInv, Tick \/ UNCHANGED storeVars
  PROVE  StoreInv' /\ AppendsOnly
  <1>0. UNCHANGED recordVars /\ clock' \in Times
    BY NatAssumption DEF Tick, storeVars, StoreInv, StoreTypeOK, Times
  <1>1. StoreTypeOK'
    BY <1>0 DEF StoreInv, StoreTypeOK, recordVars
  <1>2. /\ OneBindingPerKey'
        /\ NoAttemptAfterOperation'
        /\ ReconciliationsSettled'
        /\ TokensInv'
    BY <1>0, SameTokens
    DEF StoreInv, OneBindingPerKey, AuthorizedBy, NoAttemptAfterOperation,
        ReconciliationsSettled, ConfirmedAs, recordVars
  <1>3. AppendsOnly
    BY <1>0, SamePrefix DEF StoreInv, AppendsOnly, recordVars
  <1>4. QED
    BY <1>1, <1>2, <1>3 DEF StoreInv

LEMMA StoreStep == StoreInv /\ [StoreNext]_storeVars => StoreInv' /\ AppendsOnly
  <1> SUFFICES ASSUME StoreInv, [StoreNext]_storeVars
               PROVE  StoreInv' /\ AppendsOnly
    OBVIOUS
  <1>1. CASE \E i \in Intents, t \in Expiries : Persist(i, t)
    BY <1>1, PersistStep
  <1>2. CASE \E i \in Intents : \E asOf \in 0 .. clock : Consume(i, asOf)
    BY <1>2, ConsumeStep
  <1>3. CASE \E k \in Keys, r \in TransferResult : RecordResult(k, r)
    BY <1>3, RecordResultStep
  <1>4. CASE \E i \in Intents, t \in Tokens : ClaimRetry(i, t, clock)
    BY <1>4, ClaimRetryStep
  <1>5. CASE \E k \in Keys, t \in Tokens, r \in TransferResult :
               CompleteClaim(k, t, r)
    BY <1>5, CompleteClaimStep
  <1>6. CASE \E r \in Reconciliation : RecordReconciliation(r)
    BY <1>6, RecordReconciliationStep
  <1>7. CASE \E h \in HandoffResult : RecordHandoff(h)
    BY <1>7, RecordHandoffStep
  <1>8. CASE Tick \/ UNCHANGED storeVars
    BY <1>8, ClockStep
  <1>9. QED
    BY <1>1, <1>2, <1>3, <1>4, <1>5, <1>6, <1>7, <1>8 DEF StoreNext

(* The store keeps its inductive invariant whatever its callers do.        *)
THEOREM StoreInvariant == StoreSpec => []StoreInv
  <1>1. StoreInv /\ [StoreNext]_storeVars => StoreInv'
    BY StoreStep
  <1>2. QED
    BY InitInv, <1>1, PTL DEF StoreSpec

(* Every reachable state of the store is well typed.                       *)
THEOREM StoreTyped == StoreSpec => []StoreTypeOK
  BY StoreInvariant, PTL DEF StoreInv

(* No two approvals ever authorize the same idempotency key.               *)
THEOREM KeyHasOneBinding == StoreSpec => []OneBindingPerKey
  BY StoreInvariant, PTL DEF StoreInv

(* A transfer Circle may have executed is never attempted afresh, and a    *)
(* final result stays final.                                               *)
THEOREM OperationsAreNeverReopened == StoreSpec => []NoAttemptAfterOperation
  BY StoreInvariant, PTL DEF StoreInv

(* Reconciliations are unique per key and agree with the result that ends  *)
(* its history, in every later state too.                                  *)
THEOREM ReconciliationsStaySettled == StoreSpec => []ReconciliationsSettled
  BY StoreInvariant, PTL DEF StoreInv

(* Of all callers that were ever given a token, only the latest claimant   *)
(* of a key can complete its claim: one whose lease was taken over cannot, *)
(* nor one whose claim was completed.                                      *)
THEOREM RetryClaimsAreFenced == StoreSpec => []ClaimsFenced
  <1>1. StoreInv => ClaimsFenced
    <2> SUFFICES ASSUME StoreInv, NEW j \in Keys, NEW k \in Keys,
                        NEW r \in TransferResult, NEW n \in 1 .. Len(grants[j]),
                        CanCompleteClaim(k, grants[j][n], r)
                 PROVE  j = k /\ n = Len(grants[j])
      BY DEF ClaimsFenced
    <2>1. retryClaims[k] # None /\ retryClaims[k].token = grants[j][n]
      BY DEF CanCompleteClaim, HoldsClaim
    <2>2. /\ Len(grants[k]) \in 1 .. Len(grants[k])
          /\ grants[j][n] = grants[k][Len(grants[k])]
      BY <2>1 DEF StoreInv, TokensInv, ClaimIsLatestGrant
    <2>3. QED
      BY <2>2 DEF StoreInv, TokensInv, GrantsApart
  <1>2. QED
    BY StoreInvariant, <1>1, PTL

(* No operation rewrites or drops what another one recorded.               *)
THEOREM NothingIsErased == StoreSpec => RecordIsAppendOnly
  <1>1. StoreInv /\ [StoreNext]_storeVars => [AppendsOnly]_storeVars
    BY StoreStep
  <1>2. QED
    BY StoreInvariant, <1>1, PTL DEF StoreSpec, RecordIsAppendOnly, AppendsOnly

-----------------------------------------------------------------------------
(* The store implements the abstract lifecycle of a transfer.              *)

StageOf(k) == HistoryStage(resultHistory[k])

(* The stage after appending one legal entry.                              *)
LEMMA StageMoves ==
  ASSUME StoreInv, NEW k \in Keys, NEW r \in TransferResult,
         Continues(resultHistory[k], r),
         r.status = "PREPARED" /\ LastFailed(resultHistory[k]) => ~SpentKey(k)
  PROVE  LET s == HistoryStage(Append(resultHistory[k], r)) IN
         \/ StageOf(k) = "idle" /\ s \in Lifecycle!Stages \ {"idle"}
         \/ StageOf(k) = "open" /\ s \in {"open", "tracked", "failed", "dead"}
         \/ StageOf(k) = "failed" /\ s = "failed"
         \/ StageOf(k) = "failed" /\ s = "open" /\ ~SpentKey(k)
         \/ StageOf(k) = "tracked" /\ s \in {"tracked", "paid", "dead"}
  <1> DEFINE h == resultHistory[k]
             g == Append(h, r)
  <1>1. /\ h \in Seq(TransferResult)
        /\ g \in Seq(TransferResult)
        /\ Len(h) \in Nat
        /\ Len(g) = Len(h) + 1
        /\ \A n \in 1 .. Len(h) : g[n] = h[n]
        /\ g[Len(h) + 1] = r
        /\ g # <<>>
        /\ Last(g) = r
    <2>1. h \in Seq(TransferResult)
      BY DEF StoreInv, StoreTypeOK
    <2>2. QED
      BY <2>1, AppendFacts
  <1>2. h # <<>> => Last(h) = h[Len(h)] /\ Len(h) \in 1 .. Len(h)
                    /\ Last(h) \in TransferResult
    BY <1>1, LastInSeq
  <1>3. Continues(h, r)
    OBVIOUS
  <1>4. r.status = "PREPARED" /\ LastFailed(h) => ~SpentKey(k)
    OBVIOUS
  <1>5. StageOf(k) = HistoryStage(h)
    BY DEF StageOf
  <1> HIDE DEF h, g
  <1>6. NoOperation(g) <=> NoOperation(h) /\ r.op = None
    BY <1>1 DEF NoOperation
  <1>7. /\ r.status \in {"PREPARED", "RECOVERY_PENDING", "FAILED", "SUBMITTED", "CONFIRMED"}
        /\ r.status = "PREPARED" => r.op = None
        /\ r.status \in {"SUBMITTED", "CONFIRMED"} => r.op # None
    BY NoneAssumption DEF TransferResult
  <1>8. HistoryStage(g) \in {"open", "failed", "tracked", "paid", "dead"}
    BY <1>1 DEF HistoryStage
  <1>9. CASE h = <<>>
    BY <1>5, <1>8, <1>9 DEF HistoryStage, Lifecycle!Stages, g, h
  <1>10. CASE /\ LastFailed(h)
              /\ NoOperation(h)
              /\ r.status \in {"PREPARED", "FAILED"}
              /\ r.op = None
    <2>1. HistoryStage(h) = "failed"
      BY <1>10 DEF HistoryStage, LastFailed
    <2>2. HistoryStage(g) = IF r.status = "FAILED" THEN "failed" ELSE "open"
      BY <1>1, <1>6, <1>10 DEF HistoryStage
    <2>3. QED
      BY <1>4, <1>5, <1>10, <2>1, <2>2 DEF g, h
  <1>11. CASE /\ h # <<>>
              /\ Last(h).status \in {"PREPARED", "RECOVERY_PENDING"}
              /\ r.status \in {"RECOVERY_PENDING", "SUBMITTED", "FAILED"}
    <2>1. HistoryStage(h) = IF NoOperation(h) THEN "open" ELSE "tracked"
      BY <1>11 DEF HistoryStage
    <2>2. HistoryStage(g) = IF NoOperation(g)
                              THEN IF r.status = "FAILED" THEN "failed" ELSE "open"
                              ELSE IF r.status = "FAILED" THEN "dead" ELSE "tracked"
      BY <1>1, <1>11 DEF HistoryStage
    <2>3. QED
      BY <1>5, <1>6, <2>1, <2>2 DEF g, h
  <1>12. CASE /\ h # <<>>
              /\ Last(h).status = "SUBMITTED"
              /\ r.status \in {"SUBMITTED", "CONFIRMED", "FAILED"}
    <2>1. Last(h).op # None
      BY <1>2, <1>12, NoneAssumption DEF TransferResult
    <2>2. ~NoOperation(h) /\ ~NoOperation(g)
      BY <1>2, <1>6, <1>12, <2>1 DEF NoOperation
    <2>3. HistoryStage(h) = "tracked"
      BY <1>12, <2>2 DEF HistoryStage
    <2>4. HistoryStage(g) \in {"tracked", "paid", "dead"}
      BY <1>1, <1>12, <2>2 DEF HistoryStage
    <2>5. QED
      BY <1>5, <2>3, <2>4 DEF g, h
  <1>13. QED
    BY <1>3, <1>9, <1>10, <1>11, <1>12 DEF Continues

(* Appending a legal entry is a step of the lifecycle of that key.         *)
LEMMA GrowIsLifecycleStep ==
  ASSUME StoreInv, NEW k \in Keys, NEW r \in TransferResult,
         Continues(resultHistory[k], r),
         r.status = "PREPARED" /\ LastFailed(resultHistory[k]) => ~SpentKey(k),
         resultHistory' = [resultHistory EXCEPT ![k] = Append(@, r)],
         UNCHANGED authorizations
  PROVE  [Lifecycle!LifecycleNext]_Lifecycle!lifecycleVars
  <1> DEFINE st == [j \in Keys |-> HistoryStage(resultHistory[j])]
             sp == [j \in Keys |-> SpentKey(j)]
             s  == HistoryStage(Append(resultHistory[k], r))
  <1>1. \A j \in Keys : SpentKey(j)' = SpentKey(j)
    BY DEF SpentKey, AuthorizedBy
  <1>2. sp' = sp
    BY <1>1
  <1>3. st' = [st EXCEPT ![k] = s]
    BY DEF StoreInv, StoreTypeOK
  <1>4. st[k] = StageOf(k) /\ sp[k] = SpentKey(k)
    BY DEF StageOf
  <1>5. \/ st[k] = "idle" /\ s \in Lifecycle!Stages \ {"idle"}
        \/ st[k] = "open" /\ s \in {"open", "tracked", "failed", "dead"}
        \/ st[k] = "failed" /\ s = "failed"
        \/ st[k] = "failed" /\ s = "open" /\ ~sp[k]
        \/ st[k] = "tracked" /\ s \in {"tracked", "paid", "dead"}
    BY <1>4, StageMoves
  <1>6. st = [st EXCEPT ![k] = st[k]]
    OBVIOUS
  <1> HIDE DEF st, sp, s
  <1>7. CASE s = st[k]
    <2>1. st' = st /\ sp' = sp
      BY <1>2, <1>3, <1>6, <1>7
    <2>2. QED
      BY <2>1 DEF Lifecycle!lifecycleVars, st, sp
  <1>8. CASE st[k] = "idle" /\ s \in Lifecycle!Stages \ {"idle"}
    BY <1>2, <1>3, <1>8 DEF Lifecycle!LifecycleNext, Lifecycle!Begin, st, sp
  <1>9. CASE st[k] = "open" /\ s \in {"tracked", "failed", "dead"}
    BY <1>2, <1>3, <1>9 DEF Lifecycle!LifecycleNext, Lifecycle!Answer, st, sp
  <1>10. CASE st[k] = "failed" /\ s = "open" /\ ~sp[k]
    BY <1>2, <1>3, <1>10 DEF Lifecycle!LifecycleNext, Lifecycle!Reopen, st, sp
  <1>11. CASE st[k] = "tracked" /\ s \in {"paid", "dead"}
    BY <1>2, <1>3, <1>11 DEF Lifecycle!LifecycleNext, Lifecycle!Conclude, st, sp
  <1>12. QED
    BY <1>5, <1>7, <1>8, <1>9, <1>10, <1>11

(* Consuming an approval spends its key, which was unspent.                *)
LEMMA ConsumeIsLifecycleStep ==
  ASSUME StoreInv, NEW i \in Intents, NEW asOf, Consume(i, asOf)
  PROVE  [Lifecycle!LifecycleNext]_Lifecycle!lifecycleVars
  <1> DEFINE st == [j \in Keys |-> HistoryStage(resultHistory[j])]
             sp == [j \in Keys |-> SpentKey(j)]
  <1>0. /\ i.key \in Keys
        /\ i.binding \in Bindings
        /\ authorizations[i.binding] \in Authorization
        /\ AuthorizedBy(i.binding, i.key)
        /\ authorizations[i.binding].status = "ACTIVE"
        /\ authorizations' = [authorizations EXCEPT ![i.binding].status = "CONSUMED"]
        /\ resultHistory' = resultHistory
    BY DEF Intents, Consume, CanConsume, MatchesIntent, StoreInv, StoreTypeOK,
           AuthorizedBy
  <1>1. ~SpentKey(i.key)
    BY <1>0 DEF SpentKey, StoreInv, OneBindingPerKey
  <1>2. /\ authorizations'[i.binding] =
             [authorizations[i.binding] EXCEPT !.status = "CONSUMED"]
        /\ \A b \in Bindings \ {i.binding} : authorizations'[b] = authorizations[b]
    BY <1>0 DEF StoreInv, StoreTypeOK
  <1>3. /\ authorizations'[i.binding] # None
        /\ authorizations'[i.binding].key = i.key
        /\ authorizations'[i.binding].status = "CONSUMED"
    <2>1. authorizations'[i.binding] \in Authorization
      BY <1>0, <1>2 DEF Authorization
    <2>2. authorizations'[i.binding] # None
      BY <2>1, AbsenceAssumption
    <2>3. QED
      BY <1>0, <1>2, <2>2 DEF AuthorizedBy, Authorization
  <1>4. \A j \in Keys \ {i.key} : SpentKey(j)' = SpentKey(j)
    BY <1>0, <1>2, <1>3 DEF SpentKey, AuthorizedBy
  <1>5. SpentKey(i.key)'
    BY <1>0, <1>3 DEF SpentKey, AuthorizedBy
  <1>6. sp' = [sp EXCEPT ![i.key] = TRUE]
    BY <1>0, <1>4, <1>5
  <1>7. st' = st /\ ~sp[i.key]
    BY <1>0, <1>1
  <1> HIDE DEF st, sp
  <1>8. QED
    BY <1>0, <1>6, <1>7 DEF Lifecycle!LifecycleNext, Lifecycle!Spend, st, sp

(* A step that leaves histories and the spent keys alone is a stutter.     *)
LEMMA LifecycleStutter ==
  ASSUME UNCHANGED resultHistory, \A k \in Keys : SpentKey(k)' = SpentKey(k)
  PROVE  [Lifecycle!LifecycleNext]_Lifecycle!lifecycleVars
  BY DEF Lifecycle!lifecycleVars

LEMMA StoreStepRefines ==
  StoreInv /\ [StoreNext]_storeVars
    => [Lifecycle!LifecycleNext]_Lifecycle!lifecycleVars
  <1> SUFFICES ASSUME StoreInv, [StoreNext]_storeVars
               PROVE  [Lifecycle!LifecycleNext]_Lifecycle!lifecycleVars
    OBVIOUS
  <1>1. ASSUME NEW i \in Intents, NEW t \in Expiries, Persist(i, t)
        PROVE  [Lifecycle!LifecycleNext]_Lifecycle!lifecycleVars
    <2>1. /\ i.binding \in Bindings
          /\ authorizations[i.binding] = None
          /\ authorizations'[i.binding].status = "ACTIVE"
          /\ \A b \in Bindings \ {i.binding} : authorizations'[b] = authorizations[b]
          /\ UNCHANGED resultHistory
      BY <1>1 DEF Intents, Persist, CanPersist, StoreInv, StoreTypeOK
    <2>2. \A k \in Keys : SpentKey(k)' = SpentKey(k)
      BY <2>1 DEF SpentKey, AuthorizedBy
    <2>3. QED
      BY <2>1, <2>2, LifecycleStutter
  <1>2. ASSUME NEW i \in Intents, NEW asOf \in 0 .. clock, Consume(i, asOf)
        PROVE  [Lifecycle!LifecycleNext]_Lifecycle!lifecycleVars
    BY <1>2, ConsumeIsLifecycleStep
  <1>3. ASSUME NEW k \in Keys, ActiveKey(k) PROVE ~SpentKey(k)
    BY <1>3 DEF ActiveKey, SpentKey, StoreInv, OneBindingPerKey
  <1>4. ASSUME NEW k \in Keys, NEW r \in TransferResult, RecordResult(k, r)
        PROVE  [Lifecycle!LifecycleNext]_Lifecycle!lifecycleVars
    <2>1. r.status = "PREPARED" /\ LastFailed(resultHistory[k]) => ~SpentKey(k)
      BY <1>3, <1>4 DEF RecordResult, CanAppendResult, SafeRetry, Successors, LastFailed
    <2>2. /\ Continues(resultHistory[k], r)
          /\ resultHistory' = [resultHistory EXCEPT ![k] = Append(@, r)]
          /\ UNCHANGED authorizations
      BY <1>4, CanAppendContinues DEF RecordResult
    <2>3. QED
      BY <2>1, <2>2, GrowIsLifecycleStep
  <1>5. ASSUME NEW k \in Keys, NEW t \in Tokens, NEW r \in TransferResult,
               CompleteClaim(k, t, r)
        PROVE  [Lifecycle!LifecycleNext]_Lifecycle!lifecycleVars
    <2>1. r.status = "PREPARED" /\ LastFailed(resultHistory[k]) => ~SpentKey(k)
      BY <1>3, <1>5 DEF CompleteClaim, CanCompleteClaim, CanAppendResult, SafeRetry,
                        Successors, LastFailed
    <2>2. /\ Continues(resultHistory[k], r)
          /\ resultHistory' = [resultHistory EXCEPT ![k] = Append(@, r)]
          /\ UNCHANGED authorizations
      BY <1>5, CanAppendContinues DEF CompleteClaim, CanCompleteClaim, Continues
    <2>3. QED
      BY <2>1, <2>2, GrowIsLifecycleStep
  <1>6. ASSUME UNCHANGED <<authorizations, resultHistory>>
        PROVE  [Lifecycle!LifecycleNext]_Lifecycle!lifecycleVars
    <2>1. \A k \in Keys : SpentKey(k)' = SpentKey(k)
      BY <1>6 DEF SpentKey, AuthorizedBy
    <2>2. QED
      BY <1>6, <2>1, LifecycleStutter
  <1>7. QED
    BY <1>1, <1>2, <1>4, <1>5, <1>6
    DEF StoreNext, ClaimRetry, RecordReconciliation, RecordHandoff, Tick,
        recordVars, storeVars

LEMMA InitRefines == StoreInit => Lifecycle!LifecycleInit
  <1> SUFFICES ASSUME StoreInit PROVE Lifecycle!LifecycleInit
    OBVIOUS
  <1>1. \A k \in Keys : HistoryStage(resultHistory[k]) = "idle"
    BY DEF StoreInit, HistoryStage
  <1>2. \A k \in Keys : SpentKey(k) = FALSE
    BY DEF StoreInit, SpentKey, AuthorizedBy
  <1>3. QED
    BY <1>1, <1>2 DEF Lifecycle!LifecycleInit

(* Every behaviour of the durable store is, key by key, a legal life of a  *)
(* transfer: begun once, re-opened only while its approval is unspent and  *)
(* no operation is known, concluded once.                                  *)
THEOREM StoreImplementsLifecycle == StoreSpec => LifecycleSpec
  BY StoreInvariant, StoreStepRefines, InitRefines, PTL
  DEF StoreSpec, LifecycleSpec, Lifecycle!LifecycleSpec
=============================================================================
