# ProofSpend in TLA+

ProofSpend releases money for milestones: an agent proposes a release from
verified evidence, a founder approves it, and the web application pays it
through Circle on the Arc test network.  This directory holds a verification
development of the program: TLA+ modules translated from its TypeScript, TLC
configurations that check them, and TLAPS proofs.

The path that moves money is modelled first and most closely: the durable
authorization store and the live handoff that drives one approved transfer
through it, and the memory of the server the handoff starts from.  The treasury,
the domain's own bookkeeping of capital, comes next, then the lifecycles of the
jobs and releases by which that capital is meant to leave.

## Inventory

Line numbers are those of the sources at this commit.

| Component | State | Operations | What is hard | What makes it correct |
|---|---|---|---|---|
| **Durable authorization store** (`durable-authorization-store.ts`) | one JSON file: authorizations by binding, result history by key, handoff history, reconciliations, retry claims | persist, consume, recordResult, claimPreSubmissionRetry, completePreSubmissionRetryClaim, recordReconciliation, recordHandoff, loads | callers in any order, crashed callers, leases that run out, equal and late results | one approval per key, spent once; no attempt after an operation; reconciliations settled; claims fenced; nothing erased |
| **File lock of the store** (same file, 682-1132) | lock file, reclaim guard, their modification times | acquire, renew, release, takeover of a stale lock or guard | several processes, crashes, paths that name another file by the time they are unlinked | one operation at a time, no lost update, no lock left behind by a process that runs |
| **Live handoff** (`live-handoff.ts`, `handoff/route.ts`, `circle-wallet-provider.ts`, `intent.ts`) | per request: local variables across some twenty awaits; at Circle: transactions by idempotency key | execute, recover, prepare, submit, poll, record, reconcile, respond | interleaved requests, lost responses, restarts, faults in the store, expiry between checks | pay only for a spent approval; at most one first submission; the record is true; an answer is durable; reservations are released |
| **Run store** (`verification-agent/store.ts`) | process memory: runs, reservations, handoff attempts, consumed proposal keys | save, load, replace, reserve, release, persist, reject, expire | expiry during a handoff, the attempt limit, corrections racing handoffs | one reserved handoff at a time; a proposal is handed off once; recovery beside it only when the run has left memory |
| **Agent orchestrator** (`orchestrator.ts`, `provider.ts`, `handoff.ts`) | the trace of a run | run, correct, resume, validate a handoff | awaits of the model between load and save | an approval binds exactly the proposal it was given for |
| **Agent API access** (`access.ts`, routes) | rate windows, consumed invocation keys | authorize an invocation | concurrent calls, window boundaries | an invocation key is used once; the rate is limited |
| **Treasury** (`treasury.ts`) | ledger, escrow, allocation proposals, tranches | record and release escrow, propose, approve and apply an allocation, record and reconcile a tranche | validation before the idempotent callback, awaits of hashes | the ledger balances; a tranche is credited once and never goes back; a proposal is applied once and as approved; no unit is lost by rounding |
| **Repositories** (`repositories.ts`) | maps; idempotency entries | get, put, execute | an action in flight, a cached rejection | an action runs once per key |
| **Domain state machines** (`state.ts`, `integrity.ts`, `mocks.ts`) | evidence of each ERC-8183 job; each release's state, transaction record and settlement; consumed bindings | the transitions of a job and of a release, the gate before an execution, consume a binding, reconcile | approvals, bindings and submissions kept apart and presented in any combination; expiry; a hash learned late; steps that end nowhere | an authorization is for one write; a job ends as its parties decided on the same work; a release is settled by the write approved for it |
| **Evidence and milestone engines** (`evidence-engine.ts`, `milestone-engine.ts`) | none of their own: the slice of evidence and the audit history are the caller's | evaluate, classify an approval, recover a missing receipt, build an evaluator's packet | retries from an old slice, changed contents, suggestions beside decisions, approvals kept while the evidence changes | what passes rests on human decisions the packet names; a gap is recovered once; an approval counts only for what was shown |
| **Domain models, money, disclosure** | none | parse, add, project | none over time | |
| **Web user interface**, **configuration**, **scripts** | view state | | | |

Interactions.  The handoff route loads a run, reserves its handoff in the run
store, and calls the live handoff; that calls the durable store and the Circle
provider, which itself loads and consumes the approval in the same store.  When
the run is no longer in memory the route recovers from the durable store alone.
Every operation of the store runs under the file lock; that it is one step of
`AuthorizationStore` rests on what `StoreLock` shows.  The treasury, the
repositories and the state machines are a library of their own and do not call
the handoff.  Of that library the transitions of a release have no callers in
`src` but tests; the transition of a job is called by the mock adapter
(`mocks.ts`), and the gate before an execution by the Circle adapter
(`intent.ts:155`).

## Modules

| Module | Role |
|---|---|
| `TransferLifecycle` | abstract specification: what the record promises about one transfer |
| `AuthorizationStore` | the durable store, one action per operation |
| `AuthorizationStoreProofs` | its invariants, its action property and its refinement, proved |
| `StoreLock` | the lock file and the reclaim guard under every operation of the store |
| `StoreLockProofs` | mutual exclusion and what it is for, proved |
| `LiveHandoff` | requests, provider, Circle, run memory, restarts and faults over `AuthorizationStore` |
| `AgentAccess` | who may start a run of the agent: invocation keys, rate windows |
| `VerificationRuns` | runs, corrections and handoffs in the memory of the server, over `AgentAccess` |
| `VerificationRunsProofs` | the limits on admissions and what the run store keeps, proved |
| `LiveHandoffProofs` | type correctness, use of the store, and the safety invariants of the handoff, proved |
| `Allocation` | how allocation instructions become amounts, as operators |
| `Treasury` | escrow, proposals, tranches and the ledger, over `Allocation` |
| `AllocationProofs` | sums over finite sets, ranks in an order, and what the resolution does, proved over `Allocation` |
| `TreasuryProofs` | the invariants and the action property of the treasury, proved over `AllocationProofs` |
| `MilestoneEngine` | the evaluation of a milestone, as operators |
| `EvidenceEngine` | evidence that grows and changes, the recovery of a receipt and the packet, over `MilestoneEngine` |
| `MilestoneApproval` | an evaluator's approval kept while the evidence changes, over `EvidenceEngine` |
| `ExecutionAuthorization` | approvals, intents, bindings and submissions, and the consumption of a binding |
| `EscrowJob` | abstract specification: what an escrowed job promises to its three parties |
| `JobLifecycle` | ERC-8183 jobs, over `ExecutionAuthorization`; refines `EscrowJob` |
| `ReleaseLifecycle` | releases, their records and settlements, over `JobLifecycle` |
| `LifecycleProofs` | the properties of jobs and releases and the refinement, proved |
| `MCAuthorizationStore`, `MCStoreLock`, `MCLiveHandoff`, `MCVerificationRuns`, `MCTreasury` | model values for TLC |
| `MCLifecycles` | two jobs, a release and the records that may be presented for them |
| `MCRules` | bounded inputs for `Allocation`, a small milestone for `EvidenceEngine` and `MilestoneApproval`, and what is expected of the resolution |
| `RulesProofs` | the rounding, the packet, the one recovery and the approval, proved over `MCRules` and `AllocationProofs` |

### AuthorizationStore

`authorizations`, `resultHistory`, `latestResultKey`, `handoffHistory`,
`reconciliations` and `retryClaims` are the fields of the stored state
(`EMPTY_STATE`, line 155); `clock` is `Date.now`.
`grants` is a history the code does not keep: the tokens handed to the claimants of
each key, in order.  A token is new when it was handed out for no key before, which
says that `randomUUID` does not repeat.  An operation of the code is: take the lock, read
the file, decide, replace the file by a rename, release.  It is one action, and
`CanX` is the decision of operation X; when it is false the caller sees `null`
or an exception and the state is unchanged.

Data kept: an intent is a pair of binding and key, since every other identifier
is derived from these two; a result keeps its status, its Circle operation and
its evidence.  Dropped: wording, failure codes, timestamps.  As timestamps are
dropped, two results that are equal in the model may differ in the program, so
`LiveHandoff` allows both outcomes of recording an equal result (append, when
the transition allows it, or ignore).

### StoreLock

Each call of `withLock` is a process; calls of one operating system process form
an element of `Instances`, which lives and crashes as a whole.  One action is one
call of the file system, because that is where a call waits and others run.

| Steps of a call | Code |
|---|---|
| guard, recheck, unlinkGuard, sign | `acquireReclaimGuard`, `inspectStaleReclaimGuard`, `staleReclaimGuardIsUnchanged` (757-846) |
| drop, unlinkOwn | `releaseReclaimGuard` (878-891) |
| check, create, write | `withLock`: the lock is created under the guard (1048-1118) |
| inspect, link, confirm, match, unlinkStale | `inspectStaleLock`, `reclaimStaleLock` (731-755, 891-986) |
| read, operate, rename | the operation, `ownedLockIsCurrent`, the write of the state (636-694) |
| readLock, checkAgain, unlinkLock | `releaseOwnedLock` (1002-1046) |

A file is an element of `Files` and stands for its inode and for the token in its
metadata: comparing devices, inodes and tokens is comparing elements.  `seen` is
the snapshot (`stat` and content) a call compares with later; whoever writes or
touches the file changes its modification time, so `Touch` clears the snapshots
of it.  `owner` is the process a file's metadata names, while it runs.  A file
becomes `old` when `LOCK_STALE_MS` pass without a renewal (`Age`); `Heartbeat` is
the interval timer, which renews the guard through its handle and the lock
through its path.  `Crash` ends a process and leaves its files.

Abstractions of the lock.  A `stat` and the read that follows it are one step, and
so are the check and the `utimes` of a heartbeat, and the check and the unlink of
a lock that could not be written.  The quarantine link of `reclaimStaleLock` can
only end an attempt earlier and is left out.  A call may give up at any attempt,
which stands for `LOCK_RETRIES` and its pauses.  Process identities are
those of Linux, which tell a process from a later one with the same number; lock
files without an identity, from earlier versions, are not modelled.

### LiveHandoff

A request is a process with a program counter; each label is an await of
`executeBoundLiveCircleHandoff` or of the provider method it is in.

| Labels | Code |
|---|---|
| idle, persist, load, result, history, claim | the route and `executeBoundLiveCircleHandoff` 341-416 |
| finished, answered | repeated requests, 418-438 |
| prepare, recordPrepared | `prepareTransfer` 355-369, handoff 444-470 |
| submit, list, balance, reload, consume, revalidate, create, await | `submitTransfer` 371-585 |
| recordSubmitted, poll, recordPolled | handoff 472-487, `pollTransfer` |
| catch, recordOutcome | the catch block, 488-529 |
| finish, reconcile, respond | `finish`, 354-399 |
| return, throw, done | the route's `persistApprovedHandoff` and its `finally` |

`runs` is what the route uses of process memory.  `creates` and `circle` are the
external Circle service: a create request may be accepted at any later time,
whether or not the caller still waits (`CircleFault` is the error or timeout
the caller sees); the idempotency key is recognised; an operation settles once.
`Restart` ends every request and forgets the runs.  `StoreFault` is a store
operation that throws before it has any effect.

Abstractions of the handoff.  Consecutive synchronous code is merged with the
read before it.  Polls inside one polling window are one step that sees either a
settled operation or none.  Wallets are configured correctly and Circle returns
the transaction that was asked for, so the provider's field comparisons succeed.
A store fault after the rename (synchronising the directory, releasing the lock)
is not modelled.  The number of handoff attempts, corrections and consumed
proposal keys are the subject of `VerificationRuns`.

### VerificationRuns

| Code | Model |
|---|---|
| `runs`, `consumedProposalKeys` (`store.ts` 23-24) | `runs`, `consumedProposalKeys` |
| `discardExpiredRuns`, first in every operation | `Kept`, from which every action starts |
| the run route and `runVerificationAgent` | `RequestRun`, then `SaveRun` or `ModelFails` |
| the correction route and `resume...` | `BeginCorrection`, `FinishCorrection` |
| the handoff route | `RefuseHandoff`, `RejectHandoff`, `MockHandoff`; live: `BeginHandoff`, `AuthorizeTransfer`, then `FinishHandoff` or `HandoffFails` |
| the same route for a run that is not in memory (36-49) | `RecoverHandoff` and `FinishRecovery` in live mode, else `RefuseHandoff` |
| `handoffApprovedProposal`, `reserve...`, `persist...`, `release...` | `Accepts`, `CanReserve`, `CanPersist` and `Persisted`, `Released` |
| `invocationWindows`, `consumedInvocationKeys` | the same in `AgentAccess`, with the history `admissions` |

An action is what runs between two waits: for the model, for the hash of an
intent, for a live transfer.  `execution` says which handoff waits, for which approval
and whether it was recovered, `correction` which correction waits; both slots are free
again when the request ends.  Of the transfer itself one step is kept,
`AuthorizeTransfer`, in which it stores its approval durably (`authorized`): from then on
the route can recover the run without finding it in memory, takes no reservation for
that, and stores nothing in memory when it ends.  `mode` is one
of the three deployments `env.ts` admits.

Data kept: when a proposal was prepared; of an approval, the run it binds, when
it was decided and when it expires (it is any triple: a client writes it); of the
attempts, their number.  The key of a proposal is the run itself, because the
intent that is hashed (`buildProposal`) names the run and no time.  Time passes
between actions only.  The module is one life of the server process; a restart
forgets everything in it, which `LiveHandoff` covers.  What the transfers that then
execute side by side may do to the money and the record is also `LiveHandoff`'s; here it
only matters that they execute.  Recovery of a run of an earlier life of the process
touches nothing in this memory and is left out.

### Treasury

| Code | Model |
|---|---|
| fields of `LaunchVaultTreasury` (312-323) | `totalCapital`, `confirmed`, `escrowed`, `allocated`, `proposals`, `tranches`, `ledger`, `audit` |
| `InMemoryIdempotencyRepository` | `entries` (state per scope and key), `queue` (actions not yet run), `hashing` (actions waiting for a hash) |
| `recordEscrowedCapital`, `releaseEscrowedCapital` | `CallRecordEscrow` and `RunRecordEscrow`, `CallReleaseEscrow` and `RunReleaseEscrow` |
| `createAllocationProposal` (synchronous) | `CreateAllocationProposal` |
| `approveAllocationProposal`, `applyApprovedProposal` | `CallApprove`, `RunApprove`, `FinishApprove`, and the same for `Apply` |
| `recordIncomingTranche`, `reconcileConfirmedTranche` | `CallRecordTranche` and `RunRecordTranche`, `CallReconcile` and `RunReconcile` |

Every method but one runs up to `execute` without a pause, and `execute` starts
its action with `Promise.resolve().then`, in a later microtask.  So what a call
validates (`CallX`) and what its action does (`RunX`) are two steps between which
other calls may be made, and actions run in the order of their calls.  The two
actions that hash the proposal are resumed when the digest is ready; digests are
computed off the event loop, so they finish in any order (`FinishX`).

Checks made before the action is queued are guards of `CallX`: a call that fails
them has no effect.  Checks made by the action are `CanX`; an action that fails
them throws before it has changed anything, and only its entry changes
(`Reject`).  A key that is in use changes nothing whether or not the fingerprint
matches, which is why fingerprints are not in the model.

Data kept: amounts; status and hash of a transaction; for an approval, the
intent it names and its expiry (it is decided at time 0).  Dropped: a job's
and a block's fields (compared and copied), the reserve's status (written, never
read), audit events but for their ids.  Equal intent hashes mean equal intents.
The vault is in `MOCK` mode, the only one that takes tranches, the callers are
the configured operator and founder, and there is one asset.

### Allocation

`Resolve` is `resolveAllocations`: what each reserve receives.  A reserve is a
number, its place in the order of `localeCompare`.  The loop that hands out the
units left by rounding is `GetsLeftoverUnit`: an instruction gets one when fewer
instructions than there are units come before it in the sorted order.

### MilestoneEngine, EvidenceEngine and MilestoneApproval

| Code | Model |
|---|---|
| `createProvenanceIndex` | `Accepted`, `Suggested`: the items decided or suggested for a requirement |
| references that must name exactly the accepted items, or the evaluation throws | `ReferencesResolve`, `Evaluable` |
| `hasConflictingEvidence`, looked at before the references | `Conflicting` |
| `serializeCanonicalMilestoneEvaluationApprovalSubject`, `classifyMilestoneApproval` | `Subject`, `Applies`, `Classification`, `HumanApproval` |
| `evaluateByKind`, `evaluateMilestone`, `recommendedAction` | `Evaluation`, `Status`, `RecommendedAction` |
| `validateEvidenceBoundary`, `isAuthorizedHumanDecision`, `buildRequirementObservations` | `Boundary`, `AuthorizedDecision`, `Observed` |
| `evaluateEvidenceEngine`, `detectMissingReceiptGap` | `Evaluated` (it does not throw), `Outcome`, `Gaps` |
| `applyMissingReceiptRecovery` | `CanRecover`, `Recover` |
| `buildMilestoneEvaluationPacket` | `Packet` |

The engines keep nothing.  `slice` is what their caller holds: evidence is added
to it, replaced under its id, matched with requirements by a model, the founder,
the evaluator or a stranger, and evaluated again later.  A recovery returns a new
slice and a new audit history; as in the tests and in the orchestrator, the
caller stores the history and may ask again from the slice it had.  `answers` is
everything it was told.  A match is its content (two matches of a slice with one
content under two ids are one); the id of an item stands for the content
it was submitted with.  The history is a set: only its recoveries and the latest
time are ever read.  A milestone has at most one requirement for receipts
(`OneReceiptRequirement`), as the engine looks for a gap at the first one only.

The Evidence Engine gives the policy no approval record and no conflict (`Observed`);
other callers may, as the tests do.  In `MilestoneApproval` one does: the
evaluator decides once on an evaluation (`Decide`; `seen` is what was shown), and
the holder of the slice goes on to change it, reports conflicts or takes them
back, and evaluates with the record (`PolicyInput`).  The hash a record is bound to
stands for what is hashed.  A record of another kind, milestone or intent
counts as no record, and is not told apart from one.  The hash leaves out what
models suggest, and the decisions the Evidence Engine has filtered out; it
contains the time of the evaluation, so an approval counts for one time only, and a
later evaluation needs another.  A rejection does not expire.

### ExecutionAuthorization, JobLifecycle and ReleaseLifecycle

| Code | Model |
|---|---|
| intents, approvals, bindings and submissions with their schema rules (`models.ts` 46-58, 135-147, 245-290) | `Intent`, `Approval`, `Binding`, `KindFor`, `RolesFor` |
| `consume` of the binding repository | `CanConsume`, `Consume` |
| `validateJobExecutionAuthorization`, `validateJobRefundAuthorization` (`state.ts`) | `ApprovedBy`, `CommitsTo`, `BoundTo`, `InOrder`, together `Presented` and `Accept` |
| `transitionAgenticJob`, one action per row of its table; the adapter of `mocks.ts` keeps the result | `Fund`, `Deliver`, `Complete`, `Reject`, `Expire` |
| `AgenticJobRefSchema` (`models.ts`) | `WellFormed` |
| `transitionApplication` | `Review`, `Decide`, `Prepare`, `Confirm`, `FailPrepared`, `FailSubmitted`, `Reconcile` |
| `transitionApplicationSubmission` | `Submit` |
| `validateLifecycleTransaction`, `validateFailedSubmissionEvidence` and the checks of the submission | `RecordIn`, `Authorizes`, `ApprovedFor` |
| `validateReconciliation`, `SettlementRecordSchema` | `Matches`, `Settles`, `SettledThroughJob` |
| `validateExecutionAuthorization` | `GateChecks` |

The transitions are functions: a caller presents the record it has, the approval,
the binding, the submission and the time, and gets the next record or an
exception.  So the model's inputs are sets of records that exist (`Approvals`,
`Bindings`, `Submissions`) in whatever combination the caller takes them, and the
state is what callers keep between transitions.  The ids in the records are as
the code checks them and nothing more: an approval can be presented for another
job, a binding can name another approval, a hash can be learned late
(`LearnHash`).  `accepted` and `executed` remember what was presented.

Data kept: who decides, on what intent, until when; amount, deliverable and reason
of an intent; operation, hash and status of a write.  Equal hashes mean equal
content.  Dropped: network, contract, asset, block and explorer fields, which are
compared and copied together with what is kept.  A milestone's application goes
through the same table as a release with another kind and role of approval.

What reading this code showed and no property states:

* an approval of a milestone commits to a hash that includes the time of the
  evaluation, and must have been decided by then, so an approval decided after the
  evaluation it was shown never confirms anything;
* a release through a job needs two approvals and bindings for one write on chain,
  the job's own and the release's;
* a write that was submitted in time but is recorded after its approval expired is
  refused (`InOrder` asks for the time of the record);
* a submission whose hash was learned later cannot be recorded as failed, because
  its immutable record has no hash (`FailSubmitted`);
* nothing orders the transitions of a job in time, keeps one hash from being the
  evidence of two jobs, or refuses a provider who is the evaluator.

## Runs

| Run | Question | Bounds | Size |
|---|---|---|---|
| `store` | Does the store keep its promises to any caller, and implement `TransferLifecycle`? | 1 key, 2 rival bindings, 1 operation, 2 evidences, 2 tokens, clock 0..2, histories up to 4 | 594,609 states |
| `store_lock` | Do two processes operate one at a time, crashes and stalls included? | 2 calls, one in each process, 1 file left behind, 1 failed write | 400,860 states |
| `store_lock_race` | Is a change of the store ever lost? | 2 calls of one process, 2 files left behind | violated after some 80,000 states |
| `live_requests` | Do three requests for one transfer, with one restart, pay only for a spent approval and record and answer only what happened? | 3 requests, clock 0..3, approval expires at 2, run at 3, balance either way | 855,963 states |
| `live_progress` | Is every reservation released, every claim of a dead holder open to others, every step a step of the store? | 2 requests, 2 rival approvals, 1 restart, 1 fault, fairness | 202,263 states |
| `live_lost_operation` | Can a transfer Circle accepted always be recovered? | 3 requests | violated after 23 states |
| `verification_runs` | Do runs, corrections and handoffs in memory keep one execution and one outcome per run, and is the agent invoked as often as allowed? | 3 requests for runs, 1 stored at a time, 2 corrections, 2 handoffs, 2 invocation keys, 2 attempts, clock 0..3, a limit of 1 per window of 2, retention and key lifetime 3, proposal lifetime 2 | 154,246 states |
| `rules` | Does the resolution give away exactly what was asked for, whatever the order of the instructions? Does the packet carry all that an evaluation rests on, is a gap recovered once, and does an approval count only for what was shown? | budgets 0..7, 3 reserves, 3 percentages and 2 fixed amounts, up to 3 instructions; 2 receipts (one of them submitted later) and a confirmation, slices of 2 items and 2 matches, times 1..2, 5 requirements; 3 verdicts, conflicts of 1 requirement | 322,120 states |
| `treasury` | Do racing commitments and releases keep ledger and balances together? Are proposals booked once, as approved, and never beyond what is free? Is a tranche credited once, does it fund one proposal, does it stay settled? | 4 calls; amounts 1 and 2 of a capital of 3; 2 proposals, one list of instructions, times 0..1; 2 tranches, 1 transaction hash; 3 keys | 686,067 states |
| `treasury_stale_evidence` | Does a tranche only move forward? | 1 tranche, 3 calls | violated after some 16,000 states |
| `lifecycles` | Has each write an authorization of its own, does a job pay or return its budget as its parties decided, is a release settled by the write approved for it? Do jobs implement `EscrowJob`? | 2 jobs, 1 release, 16 approvals, 16 bindings, 16 submissions, times 2 and 3, deadline and one expiry at 3 | 15,216 states |
| `release_stuck` | Does a release that is prepared get somewhere? | the same, with fairness | violated (15,216 states) |

Why the bounds are enough.  Every interesting race is between two requests for
the same key, and a third request is what finds the state the two left behind;
keys do not interact except through bindings, which is why one key has two
rival bindings in `store` and `live_progress`.  That a token of one key serves for no
other one needs two keys and is left to the proof (`RetryClaimsAreFenced`).  One restart separates requests
that held a reservation from requests that recover without one.  One operation
per key is enough because the idempotency key makes Circle return the same one;
the proofs cover any number.  `MaxResults` is never reached in the handoff runs
(a request records at most four results); it and `MaxHandoffs` do cut the `store` run,
whose histories are arbitrary.  The clock stops at `MaxClock`; an approval may
expire one unit later, which stands for any later moment.  `ClaimsCanBeTakenOver`
is asked while the run's retention has not ended: the code keeps a run for 30 minutes and an
approval for 15, so a request that outlives its run would have to stall for 15
minutes between two awaits.  Requests are symmetric in the safety runs;
the liveness run uses no symmetry.

In `store_lock`, `MaxAbandoned` counts the files that others have to clean up
after: those of a crashed process, a file whose process stalls between creating
and signing it, a lock that could not be written by a call that had lost its
guard.  One such file is always recovered safely; the run shows it for each kind.
Two of them are beyond the protocol, which `store_lock_race` shows (below).
Both runs have two calls: whoever reclaims, and whoever the path belongs to by
then.  A file nobody refers to is used again, so `Files` bounds only those that
matter at one time.

In `verification_runs` the durations keep the order they have in the code: a rate
window is shorter than a proposal's life, which is shorter than a run's retention.
Two handoffs and two corrections of one run are the races the store has to
withstand, and so are a handoff and a recovery, or two recoveries, of a run that expired;
the third request meets a full store, or the place of a run that
expired, and the second admission of a key.

In `rules` a behaviour is about allocations, a recovery or an approval; the three share
the run and nothing else.  A recovery that conflicts with another needs two receipts,
and what a packet could miss needs two matches of one requirement, or one of each of
two.  Slices with evidence of another project are refused at once and not explored.
The verdicts are an approval and a rejection by the evaluator and an approval by a
stranger; where approvals are explored the founder alone decides on evidence.

In the treasury a race needs two actions queued together and something before
them to race about: four calls (`MaxCalls`) are two commitments and two releases,
two approvals and two applications, or two recordings and a reconciliation.  A
behaviour of `treasury` is about one of the three; they meet in the free capital,
which is why proposals are also raced with a commitment, and in the tranche that
funds a proposal.  Keys and event ids are interchangeable, so a call takes the
first that is not in use.

In `lifecycles` the records are a pool (`MCLifecycles`): for every step of the
first job the records that fit, and beside them what must be refused: another
deliverable, a client who judges, an approval that was rejected or has expired, a
binding that names the approval of another operation, the funding of another job,
another amount.  Consuming a binding only makes the steps that need it possible,
so those of the jobs but one are consumed to begin with; the proofs cover every
order.  Times are the one before the deadline and the deadline.  A second job is
enough to take the first one's authorizations, and a release through a job meets
every way in which that job can end.

Deadlock is checked for the lock, which never stops.  It is not checked
elsewhere: requests end, the clock stops and the bounded number
of requests is used up.

Fairness.  `FairLiveSpec` asks for weak fairness of each request's own steps.
The event loop runs every ready callback, and calls to Circle and to the file
system end in an answer, an error or a timeout (`CircleFault` is among the
steps).  No fairness is assumed of Circle, the clock, restarts or new requests.
`release_stuck` grants the caller more than the code does: a binding that can be
consumed is, and a prepared release that can be submitted or given up is
(`MCFairSpec`).  It is stuck all the same.

## What the properties say

* `OneBindingPerKey`, `NoAttemptAfterOperation`, `ReconciliationsSettled`,
  `RecordIsAppendOnly`: the store, whatever its callers do.
* `ClaimsFenced`: of all the tokens that were ever handed to claimants, one that can
  still complete a claim is the last one handed out for that key.  So a holder who was
  taken over, or whose claim was completed, can complete nothing: neither the claim
  of whoever came after it, nor a claim of another key.
* `OneOwner`, `NoLostUpdate`, `NoForgottenLock`: the lock, when one file is left
  behind.
* `LifecycleSpec`: read key by key, the record is a transfer that is begun once,
  is re-opened only while its approval is unspent and no operation is known, and
  is concluded once.
* `PaymentNeedsSpentApproval`, `OneFirstSubmission`, `RecordIsTrue`,
  `ConfirmedAnswerIsDurable`: the handoff, through races, restarts and timeouts.
* `OneExecution`, `OutcomeCanBeStored`, `HandoffStays`: the run store.  A run in memory
  has one transfer in flight, the one it is reserved for; what comes of it will be
  stored (unless rejected requests use up the attempts meanwhile), and corrections
  change none of it.  A run that expires while its transfer is awaited may be executed
  again beside it, by recovery and without a reservation, any number of times at once;
  then each execution is for the approval that was stored for the first
  (`OneExecution`).  That such executions pay once is not the run store's doing but
  the durable store's and Circle's (`PaymentNeedsSpentApproval`,
  `OneFirstSubmission`).
* `AdmissionsAreBounded`: the agent is invoked once per key while the key is
  remembered (`KeyAdmittedOnce`), and less than twice the limit in any period as
  long as a window (`RateIsBounded`).
* `ClaimsCanBeTakenOver`, `ReservationsAreReleased`: nothing is held for ever by
  a request that is gone.
* `RoundsByPolicy`: the resolution of allocation instructions, against what rounding
  down a total and the published policy (`treasury.ts:30`) mean.  No unit is lost
  (`NoUnitLost`), the largest remainders get the units left over
  (`LargestRemainder`), and the order of the instructions does not matter
  (`OrderIndependent`).
* `PacketReplays`: an evaluator who has only what the packet binds finds the same
  requirements passed, and the same milestone eligible.
* `OneRecovery`: all answers to recoveries of a gap are one answer, it is in the
  history once, and it made the requirement pass.
* `ApprovedAsSeen`: an approval or a rejection that still applies is the
  evaluator's, and the decisions accepted, the requirements that pass and the
  eligibility are those it was given for.
* `LedgerBalances`, `NoEntryTwice`: the ledger accounts for every balance, and no
  commitment is reversed for more than it was.
* `AppliedAsApproved`, `SettledStays`: what was approved is what is booked, once.
* `CreditedOnce`, `FundsOneProposal`: a tranche's money comes in once and goes out
  once.
* `OwnAuthorization`: "Authorization for one write never authorizes another"
  (`docs/architecture/arc-agentic-capital.md:53`): no approval and no binding is
  accepted for two transitions, of one job or of two.
* `OutcomeTraced`, `EscrowKept`: a job ends on decisions of its own parties about
  the same work, names the write that had put its budget in escrow, and, as an
  escrow, moves its budget on fresh decisions only and out of escrow once.
* `SettledAsAuthorized`: a release is submitted once, with all that the gate before
  execution asks for though the transition does not run the gate, and what is
  confirmed and reconciled is that write.

## Divergences

### A lost operation

`README.md:162` says that a lost response is recovered "with the same
idempotency key or resumes polling the stored Circle operation".
`live_lost_operation` shows a run of the code in which it is not.  After a
restart two recovery requests for one transfer run side by side, as recovery
takes no reservation.  Both find an active approval; one consumes it and its create
request is accepted.  The other gets `null` from `consume`, is answered
`AUTHORIZATION_UNAVAILABLE`, and records `FAILED` without an operation, which is
legal after `PREPARED` or on an empty history.  Now neither the winner's
`SUBMITTED` nor the outcome of its catch block can be recorded
(`TRANSFER_RESULT_TERMINAL`).  Later requests find a failure and a consumed
approval, answer `HANDOFF_FAILED`, and never ask Circle.  The money moves at
most once (`PaymentNeedsSpentApproval` and Circle's idempotency), but the record
rests on a failure.

### A lost update after a crash

`README.md:219` promises a "durable, atomic server-side store", and
`durable-authorization-store.test.ts:358` is about two callers that reclaim one stale
lock.  The lock and the guard are removed by path, after checks that are
separate calls of the file system (lines 838 and 976).  A process that crashes
while it holds both leaves two stale files, and then the guard does not exclude:
two calls find the same stale guard, the slower one unlinks the guard the faster
one has created meanwhile, both go on to the stale lock, and the slower one
unlinks the new lock.  `store_lock_race` finds two calls of one restarted process
that operate at the same time, and one replaces the state without the other's
change.  It takes a crash in a window of some file system calls and two calls at
just the wrong pace.

### Evidence that goes backward

`recordIncomingTranche` says "Incoming tranche status cannot move backward or
leave a terminal state" (`treasury.ts:1063`), and means to "avoid acting on stale
outer state" (line 1095).  It checks the transition, the amount and the hash
before its action is queued; the action checks again only that the tranche is not
settled.  `treasury_stale_evidence` finds two recordings called together, both
legal from `PREPARED`: the second to run writes `SUBMITTED` over `CONFIRMED`.
Two first recordings can also replace each other's amount.  What is settled is
safe (`SettledStays`, proved).

### A prepared release that never concludes

`docs/architecture/arc-agentic-capital.md:61` lists "rejected approval, stale intent,
failed preparation" among the outcomes that are explicit.  For a release prepared
for a write on a job there is none: an expired approval cannot be submitted
(`transitionApplicationSubmission`), and `validateLifecycleTransaction` accepts
`FAILED` from `PREPARED` for transfers only (`state.ts:116`).  `release_stuck`
finds a release that is prepared with an approval that has expired and stays
`PREPARED` for ever.  `domain.test.ts:360` expects the refusal, so a remedy
would be another outcome, not a wider `FAILED`.

### Two corrections

`agent.md:58` speaks of "one validated founder correction", and a run that has its
proposal refuses another (`orchestrator.ts:275`).  The check is made before the hash of the
intent is awaited and is not repeated when the run is replaced: two corrections
that overlap are both accepted, and the second replaces the proposal of the
first.  The key and the intent are the same, so nothing is paid twice
(`OneExecution`, `HandoffStays`); but an approval of the first proposal may be
older than the second one, and is then rejected as stale.  `VerificationRuns` has this
behaviour; no run is spent on it.

## Proofs

All theorems hold for every set of keys, bindings, operations, evidence, tokens,
requests, jobs, releases and records, and for every value of the bounds.  They
rest on the named assumptions of the modules: `None` is none of the values
(`AbsenceAssumption`, `LiveAbsenceAssumption`, `NoneAssumption`,
`NoRequestAssumption`, `NamesAssumption`, `NoRecordAssumption`), lease and bounds
are naturals, a rate window is longer than zero, records with equal ids are equal
(`RecordsAssumption`), retry tokens include the requests' names (a request is the
token of the claim it may take, as each request calls `randomUUID` once).

*Store.*  `StoreInv` is the conjunction of the type invariant, three safety
invariants and `TokensInv`; it is inductive.  The parts need each other: a history is not
re-opened because a failure is last only when no operation was known; a
reconciliation stays settled because nothing follows a confirmation.  The central
lemma is `GrowHistory`: appending a legal continuation keeps all of it.
`NothingIsErased` and `StoreImplementsLifecycle` follow from the same invariant step
by step.
`ClaimsFenced` is not inductive: it says which token completes a claim, not that no
token was handed out twice.  `TokensInv` adds that (`GrantsApart`) and that a claim
holds the last token granted for its key (`ClaimIsLatestGrant`); a takeover preserves
both because it grants a new token, and a completion because it needs the one in the
claim (`RetryClaimsAreFenced`).

*Handoff.*  `LiveInv` adds, for every request, what the code before its label has
established (`RequestIs`): past `load` its approval is stored; past `consume` the
key is spent, and also when it read the approval as consumed; at `poll` it holds
a submitted result; whatever it holds is true of Circle (`Holds`).  Two facts
make this survive the steps of others: approvals stay stored and spent ones stay
spent (`ApprovalsPersist`, from the store's proofs), and Circle never forgets an
operation (`CircleGrows`).  There is one lemma per kind of step: `ReadStep` for
labels that only read, `WriteStep` for one store operation, `QuietStep` for the
rest.  From it: `LiveTyped`, `LiveUsesStore` (so the store's theorems hold of
the handoff, and with them `LiveImplementsLifecycle`), `PaymentsAreApproved`,
`RecordsAreTrue`.

*Answers.*  `OneSubmissionIsFirst` needs to know of a request that is about to pay
without having read its approval as consumed that it is the one that consumed it:
while it is there the key is spent, and no other request can win the consume
(`NoSecondWinner`).  `ConfirmationsAreDurable` adds `AnswersInv`: at each label past
the outcome, a confirmed result is the last one in the store, and at `respond` it is
reconciled.  Nothing is recorded after a confirmation (`ConfirmationIsLast`) and
nothing is removed (`ReconciledStays`), so what was so when the request read it
still is when it answers, and later.

*Claims.*  `ClaimsOutliveNoFailure`: until the runs in memory expire, a claim to retry
stands for the failure that ends the history.  The store lets only a new preparation
follow a failure, and there are two ways to record one: by the completion of a claim,
which removes the claim, and by a first attempt, which is made without a claim.  So it
has to be known that a first attempt finds an empty history whenever it records, and
`RequestsInv` says why: it has its run reserved, nobody else is under way with that run
(`OnePerRun`), and a request without a run has recovered the transfer from a stored
approval, so it is no first attempt (`WhileRunsAreKept`).  A restart forgets runs and
requests together; the expiry of a run does not, which is where the bound on the time
comes from.

*Lock.*  `IInv` of `StoreLockProofs` has two halves.  `FileInv` holds always: no file
has two uses (`Distinct`), a lock that was written names its call, and a call does not
find a lock again that it has unlinked or lost (`Signed`).  With it `LockIsRemembered`
holds however much was left behind.  `MutexInv` holds while at most one file was left
behind: whoever holds the lock has its file at the path (`LockHeld`), what is taken for
stale is nobody's (`GhostSeen`), the state a call has read is current, and the guard or
the lock is intact (`GuardIntact \/ LockIntact`).  The disjunction is the argument:
one file left behind is a guard or a lock; with a stale guard nobody takes the lock for
stale, so a guard that excludes nobody does no harm, and with a stale lock the guard
lets only one call reclaim it.  `OperationsExclude` and `NothingIsOverwritten` follow
without a bound on what may be left behind later; their bounded forms state the
properties the run checks.  Two files left behind are the run `store_lock_race`.

*Runs.*  `IInv` of `VerificationRunsProofs` has three parts.  `AccessInv`: a key is
remembered for as long as its admission counts, windows lie apart, each admits no
more than the limit, and the open one counts its admissions; that a period sees less
than twice the limit follows because it meets at most two windows, and the first
admission of the later one lies outside it (`AdmissionsStayBounded`).  `RunsInv`: a
request saves its run once, a run is executed under its reservation by one handler at a
time, and while it is stored it is held for the approval being executed.
`RecoveryInv` is what recovery needs: whatever is recovered is out of memory, its
request is over, and it is executed for the approval that is authorized.  It is kept
because a run that has left memory never returns to it (`NeverReturns`) and what is
authorized stays so (`AuthorizedStays`).

*Lifecycles.*  `JobInv` says what each job's status implies of the transitions
accepted for it (`AcceptedOnce`, `StageTraced`).  That an authorization is for one
write is not checked anywhere in the code: it follows because an approval's intent
names the job and the operation, and a job takes each operation once.  `ReleaseInv`
says that a release has at most one record, in the release's state
(`RecordFollows`), and that a submission was checked for everything the gate asks
(`ExecutedTraced`).  `JobsKeepEscrow` maps each transition to a step of `EscrowJob`.

*Treasury.*  `TInv` says what the queue and the waiting actions may hold, that
proposals and tranches are shaped as they should be, and that `CreditedOnce` and
`FundsOneProposal` hold.  A queued recording carries what was validated, but not
that it is still so: that no recording reopens a credited tranche comes from the
second look alone.  The proposal an action remembers was ready for it
(`WaitersReady`), which with `Unmoved` gives `SettledNeverChanges`.  Credits are
counted in a ledger that only grows, by lemmas on appending and joining that
hold for sequences over anything.

`TypeInv` adds the types, and with them that no balance is negative
(`TreasuryTyped`): a release takes no more than is in escrow, and what a proposal gives
is natural because a percentage of a budget that covers the fixed amounts is
(`ResolveFits`).  An application that waits for its hash was called before the
approval expired, and remembers it.

`BooksInv` is about the ledger: ids are distinct, every reversal has a commitment with
enough of it left (`LedgerInv`); the balances are sums of entries (`LedgerBalances`);
and what is booked for a proposal is nothing until it is applied, then what was
approved (`BookedRight`).  Each movement is an entry and a change of a balance in the
same step, so what has to be known is what one more entry, or the entries of an
allocation, add to a sum (`SumsAppend`, `SumsJoin`), and that the total of what is
allocated grows by the total of the proposal (`AllocatedGrows`).  A new id is fresh
because the code looks for it (escrow), because a tranche that is not reconciled has no
credit yet, or because a proposal that is not applied has no entry yet.

*Sums.*  A sum is a fold, which the community modules define by a recursive function
chosen over the subsets of a set.  The library's induction theorems take an operator
and cannot be used, but a least counterexample can: `LeastNat` gets it from the
well-foundedness of the natural numbers, which is stated of a set of pairs, and
`AllNaturals` is then induction over a set of numbers.  With it: the recursive function exists
and is unique (`SumExists`, `SumIsUnique`), and the sum does not depend on the order in
which elements are taken (`TotalTakes`).  The rest of the theory follows from these:
one more element, a union, a renaming, equal values.

The treasury's theorems hold for every number of calls, reserves, proposals, tranches
and amounts; they assume that the reserves are a finite set of numbers, amounts are
naturals, and `None` is not a tranche.

*Rounding.*  `AllocationRoundsByPolicy` rests on three facts of `AllocationProofs`.  What
all percentages are due divides into the units that are given at once and the
remainders, and the remainders together make the leftover units and less than one unit
more (`LeftoverIsShort`); so there are at most as many units left as there are shares
with a remainder, and each of them is given, once (`EveryUnitIsGiven`), to a share that
has one (`ServedHaveRemainders`).  Being served before is a strict total order; the
first n in it are n (`FirstOnes`), so who is served has the larger remainder.  The order
of the instructions breaks ties between shares of one reserve only: in two lists of the
same instructions the shares at one rank have the same remainder and reserve
(`OneKeyPerRank`), as both lists have equally many with an earlier key; so a reserve gets
equally many units from either (`PermutedUnits`), though not for the same instruction.
`MCRules` bounds the amounts and the length of the lists for TLC; the theorem holds for
any reserves that are numbers, any natural amounts and percentages, and any bounds
(`RulesAssumption`).

*Evidence.*  `PacketAlwaysReplays` holds of every slice.  Restricted to what the packet
binds, a slice has the same decisions (`BoundDecisions`), hence the same countable
evidence for each requirement (`BoundCountable`, where the uniqueness of ids is
needed), and that alone decides what passes (`PassesByCountable`).  `GapRecoveredOnce`
follows from `RecoveryInv`: history and answers agree on one recovery, and any other
would collide with it.  Its answer is PASS because a receipt that comes with a
decision leaves no receipt waiting that did not wait before
(`NothingPendingAdded`).  `ApprovalCountsAsSeen` needs to know that the record is
bound to an input with the findings shown (`ApprovalInv`); inputs with one subject
have the same countable evidence (`SubjectDecides`).  The theorems assume that
requirements are of the kinds of the schema and that one at most asks for
receipts.

Only model-checked: liveness (`ReservationsAreReleased`), which is out of the prover's
reach.

## What is left

The components listed as modelled are complete, and every safety property the passing
runs check is proved.

Not modelled, and why: parsing and schemas, the draft of a job (a check of its
input), money arithmetic on big integers, disclosure and the user interface have no
behaviour over time; the model provider is an external service whose answers the
orchestrator validates; migration of version 1 files runs once, on load, before any
operation.
