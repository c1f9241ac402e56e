------------------------- MODULE VerificationRuns -------------------------
(***************************************************************************)
(* The runs of the verification agent in the memory of the server: store.ts*)
(* and what the three routes of the agent do with it.  A request for a run *)
(* waits for the model and then saves the run; a correction loads a run,   *)
(* waits for a hash, and replaces it; a handoff loads a run, validates the *)
(* approval, reserves the run, waits for the transfer (in live mode), and  *)
(* stores its outcome.  Between the waits other requests run.  A handoff   *)
(* for a run that has left memory is recovered, in live mode, from the     *)
(* authorization its transfer was begun with: it executes beside whatever  *)
(* still executes, and stores nothing here.                                *)
(*                                                                         *)
(* This is one life of the server process.  A run is named by the request  *)
(* that asks for it, as buildRunId draws a fresh id, and so is the key of  *)
(* its proposal: the intent that is hashed names the run and no time, so   *)
(* every proposal of a run has the same key.                               *)
(***************************************************************************)
EXTENDS AgentAccess

CONSTANTS
  Correctors,   \* correction requests in progress
  Handlers,     \* handoff requests in progress
  MaxRuns,      \* MAX_STORED_RUNS
  MaxAttempts,  \* MAX_HANDOFF_ATTEMPTS_PER_RUN
  Retention,    \* RUN_RETENTION_MS
  ProposalTtl,  \* RELEASE_TTL_MS
  MaxClock      \* bounds the clock

ASSUME RunsAssumption ==
  /\ MaxRuns \in Nat /\ MaxAttempts \in Nat
  /\ Retention \in Nat /\ ProposalTtl \in Nat /\ MaxClock \in Nat

VARIABLES
  mode,                  \* the deployment
  authorized,            \* the approval stored durably for each run's transfer
  runs,                  \* the stored runs
  consumedProposalKeys,  \* the runs whose proposal key is consumed
  runner,                \* where each request for a run is
  correction,            \* the run being corrected, and since when
  execution              \* the run whose transfer is awaited, the approval, and
                         \* whether it was recovered

storeVars == <<runs, consumedProposalKeys>>
requestVars == <<runner, correction, execution>>
vars == <<clock, accessVars, mode, authorized, storeVars, requestVars>>

(* What the environment may select (env.ts): all is mocked, the model is   *)
(* live, or the model and the transfers are.                               *)
Modes == {"mock", "openai", "live"}

Times == 0..(MaxClock + ProposalTtl)

(* An approval binds the proposal of one run; two approvals of a run differ*)
(* in when they were decided or expire.  The founder's browser writes it,  *)
(* so a request may carry any.                                             *)
Approvals == [binds : Runners, decidedAt : 0..MaxClock, expiresAt : Times]

Recoverable == {"HANDOFF_RECOVERY_PENDING", "HANDOFF_SUBMITTED", "HANDOFF_FAILED"}
LiveResults == Recoverable \cup {"HANDOFF_CONFIRMED"}
HandoffStatuses == LiveResults \cup {"HANDOFF_READY"}

Handoff   == [approval : Approvals, status : HandoffStatuses]
Execution == [run : Runners, approval : Approvals, recovers : BOOLEAN]

ASSUME NoRequestAssumption == None \notin Nat \cup Approvals \cup Handoff \cup Execution

NewRun ==
  [preparedAt |-> None, expiresAt |-> clock + Retention, handoff |-> None,
   reservation |-> None, attempts |-> 0]

Init ==
  /\ AccessInit
  /\ mode \in Modes
  /\ authorized = [r \in Runners |-> None]
  /\ runs = [r \in Runners |-> None]
  /\ consumedProposalKeys = {}
  /\ runner = [r \in Runners |-> "idle"]
  /\ correction = [c \in Correctors |-> None]
  /\ execution = [h \in Handlers |-> None]

(* discardExpiredRuns, with which every operation of the store begins.     *)
Kept ==
  [r \in Runners |->
     IF runs[r] = None THEN None
     ELSE IF runs[r].expiresAt <= clock THEN None ELSE runs[r]]

-----------------------------------------------------------------------------
(* A run: the access check, the model, and the save.                       *)

RequestRun(r) ==
  /\ runner[r] = "idle"
  /\ \/ /\ mode = "mock"
        /\ runner' = [runner EXCEPT ![r] = "thinking"]
        /\ UNCHANGED accessVars
     \/ /\ mode # "mock"
        /\ \E key \in InvocationKeys :
             Invoke(r, key) /\ runner' = [runner EXCEPT ![r] = "thinking"]
     \/ /\ mode # "mock"
        /\ \E key \in InvocationKeys \cup {None} :
             RefuseInvocation(key) /\ runner' = [runner EXCEPT ![r] = "done"]
  /\ UNCHANGED <<clock, mode, authorized, storeVars, correction, execution>>

StoredRuns == {r \in Runners : Kept[r] # None}

SaveRun(r) ==
  /\ runner[r] = "thinking"
  /\ runs' = IF r \notin StoredRuns /\ Cardinality(StoredRuns) >= MaxRuns
             THEN Kept
             ELSE [Kept EXCEPT ![r] = NewRun]
  /\ runner' = [runner EXCEPT ![r] = "done"]
  /\ UNCHANGED <<clock, accessVars, mode, authorized, consumedProposalKeys, correction, execution>>

(* The provider refuses, times out, answers badly or names another gap.    *)
ModelFails(r) ==
  /\ mode # "mock"
  /\ runner[r] = "thinking"
  /\ runner' = [runner EXCEPT ![r] = "done"]
  /\ UNCHANGED <<clock, accessVars, mode, authorized, storeVars, correction, execution>>

-----------------------------------------------------------------------------
(* A correction.                                                           *)

BeginCorrection(c) ==
  /\ correction[c] = None
  /\ \E r \in StoredRuns :
       /\ Kept[r].preparedAt = None
       /\ correction' = [correction EXCEPT ![c] = [run |-> r, now |-> clock]]
  /\ runs' = Kept
  /\ UNCHANGED <<clock, accessVars, mode, authorized, consumedProposalKeys, runner, execution>>

(* Faulty variant: the corrected run is saved as a new one.                *)
SaveCorrected(r, now) == [Kept EXCEPT ![r] = [NewRun EXCEPT !.preparedAt = now]]

(* The proposal is prepared at the time the correction began.              *)
ReplaceRun(r, now) ==
  [Kept EXCEPT ![r] = [@ EXCEPT !.preparedAt = now, !.expiresAt = clock + Retention]]

FinishCorrection(c) ==
  /\ correction[c] # None
  /\ runs' = IF Kept[correction[c].run] = None THEN Kept
             ELSE ReplaceRun(correction[c].run, correction[c].now)
  /\ correction' = [correction EXCEPT ![c] = None]
  /\ UNCHANGED <<clock, accessVars, mode, authorized, consumedProposalKeys, runner, execution>>

-----------------------------------------------------------------------------
(* A handoff.                                                              *)

ProposalExpiry(run) == run.preparedAt + ProposalTtl

(* handoffApprovedProposal, for the proposal of the stored run.  The times *)
(* are in order, so decidedAt and the clock are before its expiry too.     *)
Accepts(r, approval) ==
  /\ Kept[r].preparedAt # None
  /\ approval.binds = r
  /\ Kept[r].preparedAt <= approval.decidedAt
  /\ approval.decidedAt <= clock
  /\ clock < approval.expiresAt
  /\ approval.expiresAt <= ProposalExpiry(Kept[r])

(* An outcome that the same approval may still improve.  Faulty variant: a *)
(* final outcome counts as one.                                            *)
IsRecoverableAlways(handoff, approval) ==
  mode = "live" /\ handoff.approval = approval

IsRecoverable(handoff, approval) ==
  handoff.status \in Recoverable /\ mode = "live" /\ handoff.approval = approval

(* Faulty variant: a run that is reserved is reserved again.               *)
CanReserveAgain(r, approval) ==
  /\ Kept[r].preparedAt # None
  /\ IF Kept[r].handoff # None THEN IsRecoverable(Kept[r].handoff, approval)
     ELSE r \notin consumedProposalKeys

CanReserve(r, approval) ==
  /\ Kept[r].preparedAt # None
  /\ Kept[r].reservation = None
  /\ IF Kept[r].handoff # None THEN IsRecoverable(Kept[r].handoff, approval)
     ELSE r \notin consumedProposalKeys

CanPersist(r, approval, status) ==
  /\ Kept[r] # None
  /\ Kept[r].preparedAt # None
  /\ Kept[r].reservation = approval
  /\ IF Kept[r].handoff # None
     THEN IsRecoverable(Kept[r].handoff, approval) /\ status \in LiveResults
     ELSE r \notin consumedProposalKeys

Attempted(run) == [run EXCEPT !.attempts = run.attempts + 1]

Persisted(r, approval, status) ==
  [Kept EXCEPT ![r] = [Attempted(Kept[r]) EXCEPT
                         !.handoff = [approval |-> approval, status |-> status],
                         !.reservation = None]]

Released(r, approval) ==
  IF Kept[r] = None THEN Kept
  ELSE IF Kept[r].reservation # approval THEN Kept
  ELSE [Kept EXCEPT ![r] = [@ EXCEPT !.reservation = None]]

(* Faulty variant: the attempts are not limited.                           *)
ConsideredAlways(r, approval) ==
  /\ Kept[r] # None
  /\ IF Kept[r].handoff = None THEN TRUE ELSE Kept[r].handoff.approval = approval

(* Past the attempt limit, and past the check against the stored handoff   *)
Considered(r, approval) ==
  /\ Kept[r] # None
  /\ Kept[r].attempts < MaxAttempts
  /\ IF Kept[r].handoff = None THEN TRUE ELSE Kept[r].handoff.approval = approval

Accepted(r, approval) == Considered(r, approval) /\ Accepts(r, approval)

(* Not found, over the attempt limit, or a duplicate.  What has left       *)
(* memory is refused unless its authorization can be found (in live mode)  *)
(* and is for this approval.                                               *)
Refused(r, approval) ==
  \/ Kept[r] = None /\ (mode = "live" => authorized[r] # approval)
  \/ Kept[r] # None /\ ~Considered(r, approval)
  \/ Accepted(r, approval) /\ ~CanReserve(r, approval)

RefuseHandoff ==
  /\ \E r \in Runners : {approval \in Approvals : Refused(r, approval)} # {}
  /\ runs' = Kept
  /\ UNCHANGED <<clock, accessVars, mode, authorized, consumedProposalKeys, requestVars>>

(* recordRejectedHandoff                                                   *)
RejectHandoff ==
  /\ \E r \in StoredRuns :
       /\ {approval \in Approvals : Considered(r, approval) /\ ~Accepts(r, approval)} # {}
       /\ runs' = [Kept EXCEPT ![r] = Attempted(Kept[r])]
  /\ UNCHANGED <<clock, accessVars, mode, authorized, consumedProposalKeys, requestVars>>

(* Without a live adapter nothing is awaited: reserved and stored at once. *)
MockHandoff ==
  /\ mode # "live"
  /\ \E r \in StoredRuns, approval \in Approvals :
       /\ Accepted(r, approval) /\ CanReserve(r, approval)
       /\ runs' = Persisted(r, approval, "HANDOFF_READY")
       /\ consumedProposalKeys' = consumedProposalKeys \cup {r}
  /\ UNCHANGED <<clock, accessVars, mode, authorized, requestVars>>

BeginHandoff(h) ==
  /\ mode = "live"
  /\ execution[h] = None
  /\ \E r \in StoredRuns, approval \in Approvals :
       /\ Accepted(r, approval) /\ CanReserve(r, approval)
       /\ runs' = [Kept EXCEPT ![r] = [@ EXCEPT !.reservation = approval]]
       /\ execution' = [execution EXCEPT ![h] =
            [run |-> r, approval |-> approval, recovers |-> FALSE]]
  /\ UNCHANGED <<clock, accessVars, mode, authorized, consumedProposalKeys, runner, correction>>

(* Before anything else the transfer stores its authorization durably; the *)
(* first one of a run stays.                                               *)
AuthorizeTransfer(h) ==
  /\ execution[h] # None
  /\ authorized[execution[h].run] = None
  /\ authorized' = [authorized EXCEPT ![execution[h].run] = execution[h].approval]
  /\ UNCHANGED <<clock, accessVars, mode, storeVars, requestVars>>

(* The transfer ends with a result, which it has only when the stored      *)
(* authorization is its own; the result is stored if it still can be.      *)
(* When the attempt limit has been reached meanwhile the store throws; in  *)
(* every case the reservation is released.                                 *)
FinishHandoff(h) ==
  /\ execution[h] # None
  /\ ~execution[h].recovers
  /\ authorized[execution[h].run] = execution[h].approval
  /\ \E status \in LiveResults :
       LET r == execution[h].run
           approval == execution[h].approval
       IN \/ /\ CanPersist(r, approval, status)
             /\ Kept[r].attempts < MaxAttempts
             /\ runs' = Persisted(r, approval, status)
             /\ consumedProposalKeys' = consumedProposalKeys \cup {r}
          \/ /\ CanPersist(r, approval, status) => Kept[r].attempts >= MaxAttempts
             /\ runs' = Released(r, approval)
             /\ UNCHANGED consumedProposalKeys
  /\ execution' = [execution EXCEPT ![h] = None]
  /\ UNCHANGED <<clock, accessVars, mode, authorized, runner, correction>>

(* The transfer ends with an exception.                                    *)
HandoffFails(h) ==
  /\ execution[h] # None
  /\ ~execution[h].recovers
  /\ runs' = Released(execution[h].run, execution[h].approval)
  /\ execution' = [execution EXCEPT ![h] = None]
  /\ UNCHANGED <<clock, accessVars, mode, authorized, consumedProposalKeys, runner,
                 correction>>

(* Faulty variant: a run in memory is recovered too.                       *)
CanRecoverAnyRun(r) == mode = "live" /\ authorized[r] # None

CanRecover(r) == mode = "live" /\ authorized[r] # None /\ Kept[r] = None

(* recoverPersistedLiveCircleHandoff: the transfer is executed for the     *)
(* stored approval, without a reservation.                                 *)
RecoverHandoff(h) ==
  /\ execution[h] = None
  /\ \E r \in Runners :
       /\ CanRecover(r)
       /\ execution' = [execution EXCEPT ![h] =
            [run |-> r, approval |-> authorized[r], recovers |-> TRUE]]
  /\ runs' = Kept
  /\ UNCHANGED <<clock, accessVars, mode, authorized, consumedProposalKeys, runner,
                 correction>>

(* However it ends, a recovered transfer only answers its caller.          *)
FinishRecovery(h) ==
  /\ execution[h] # None
  /\ execution[h].recovers
  /\ execution' = [execution EXCEPT ![h] = None]
  /\ UNCHANGED <<clock, accessVars, mode, authorized, storeVars, runner, correction>>

Tick ==
  /\ clock < MaxClock
  /\ clock' = clock + 1
  /\ UNCHANGED <<accessVars, mode, authorized, storeVars, requestVars>>

Next ==
  \/ \E r \in Runners : RequestRun(r) \/ SaveRun(r) \/ ModelFails(r)
  \/ \E c \in Correctors : BeginCorrection(c) \/ FinishCorrection(c)
  \/ RefuseHandoff \/ RejectHandoff \/ MockHandoff
  \/ \E h \in Handlers :
       \/ BeginHandoff(h) \/ AuthorizeTransfer(h) \/ FinishHandoff(h) \/ HandoffFails(h)
       \/ RecoverHandoff(h) \/ FinishRecovery(h)
  \/ Tick

Spec == Init /\ [][Next]_vars

-----------------------------------------------------------------------------
StoredRun ==
  [preparedAt : Nat \cup {None}, expiresAt : Nat,
   handoff : Handoff \cup {None},
   reservation : Approvals \cup {None}, attempts : 0..MaxAttempts]

RunsTypeOK ==
  /\ AccessTypeOK
  /\ mode \in Modes
  /\ authorized \in [Runners -> Approvals \cup {None}]
  /\ \A r \in Runners : runs[r] # None => runs[r] \in StoredRun
  /\ consumedProposalKeys \subseteq Runners
  /\ runner \in [Runners -> {"idle", "thinking", "done"}]
  /\ correction \in [Correctors -> [run : Runners, now : Nat] \cup {None}]
  /\ execution \in [Handlers -> Execution \cup {None}]

Executes(h, r) == execution[h] # None /\ execution[h].run = r /\ ~execution[h].recovers
Recovers(h, r) == execution[h] # None /\ execution[h].run = r /\ execution[h].recovers

(* While a run is in memory one transfer of it is executed at a time,      *)
(* whatever corrections and rejected approvals come meanwhile, and the run *)
(* is reserved for the approval of that one, so no reservation is left     *)
(* behind (the finally of handoff/route.ts:111).  Once the run has left    *)
(* memory, and only then, transfers recovered for it may be executed       *)
(* beside that one and beside each other (handoff/route.ts:36), each for   *)
(* the approval with which the first was authorized; it is never reserved  *)
(* a second time.                                                          *)
OneExecution ==
  \A r \in Runners :
    /\ \A g, h \in Handlers : Executes(g, r) /\ Executes(h, r) => g = h
    /\ \A h \in Handlers : Recovers(h, r) =>
         r \notin StoredRuns /\ execution[h].approval = authorized[r]
    /\ r \in StoredRuns => \/ runs[r].reservation = None
                            \/ \E h \in Handlers :
                                 Executes(h, r) /\ execution[h].approval = runs[r].reservation

(* What a transfer being executed will come to can be stored while the run *)
(* is in memory, unless rejected requests use up its attempts: none of the *)
(* checks of persistApprovedHandoff (store.ts:139) can fail for it.        *)
OutcomeCanBeStored ==
  \A h \in Handlers, r \in Runners : Executes(h, r) /\ r \in StoredRuns =>
    \A status \in LiveResults : CanPersist(r, execution[h].approval, status)

(* Once a handoff is stored no other approval takes its place, and a final *)
(* outcome never changes, not even when a correction that began before the *)
(* handoff replaces the run after it.                                      *)
HandoffStays ==
  [][\A r \in Runners :
       runs[r] # None /\ runs'[r] # None =>
         LET before == runs[r].handoff
             after == runs'[r].handoff
         IN before # None =>
              /\ after # None
              /\ after.approval = before.approval
              /\ before.status \notin Recoverable => after.status = before.status]_vars
=============================================================================
