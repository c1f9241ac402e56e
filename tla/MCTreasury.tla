----------------------------- MODULE MCTreasury -----------------------------
(***************************************************************************)
(* The treasury with two reserves, small amounts and few calls in flight.  *)
(* A behaviour of the pass run is about one question: escrow; proposals of *)
(* the vault's capital, while escrow is recorded; or tranches and the      *)
(* proposals they fund.                                                    *)
(***************************************************************************)
EXTENDS Treasury

CONSTANTS p1, p2, t1, t2

EscrowScopes     == {"escrow-record", "escrow-release"}
AllocationScopes == {"allocation-approve", "allocation-apply", "escrow-record"}
TrancheScopes    == {"tranche-record", "tranche-reconcile"}

(* A fixed amount with half of the rest, and two halves, which share an    *)
(* odd unit.                                                               *)
MCInstructions ==
  { << [reserve |-> 1, kind |-> "FIXED", value |-> 1],
       [reserve |-> 2, kind |-> "PERCENTAGE", value |-> 5000] >>,
    << [reserve |-> 1, kind |-> "PERCENTAGE", value |-> 5000],
       [reserve |-> 2, kind |-> "PERCENTAGE", value |-> 5000] >> }

(* Where the shares do not matter.                                         *)
OneList == {CHOOSE x \in MCInstructions : x[1].kind = "FIXED"}

Called == {s \in Scopes : \E k \in Keys : entries[s][k] # "NONE"}

KeysInUse == {k \in Keys : \E s \in Scopes : entries[s][k] # "NONE"}

EventsInUse ==
  audit \cup {queue[i].args.event : i \in DOMAIN queue}
    \cup {h.call.args.event : h \in hashing}

(* Nothing depends on which key or event id is taken, so of those not in   *)
(* use a call takes the first.                                             *)
UpToFirst(S, inUse) == {x \in S : \A y \in S \ inUse : x <= y} \cup inUse

AboutEscrow ==
  /\ Called \subseteq EscrowScopes
  /\ \A p \in Proposals : proposals[p] = NoProposal
  /\ \E k \in UpToFirst({1, 2}, KeysInUse), e \in UpToFirst(EventIds, EventsInUse),
       n \in Amounts :
       \/ CallRecordEscrow(k, e, n)
       \/ \E target \in Targets : CallReleaseEscrow(k, e, n, target)

AboutAllocations ==
  /\ Called \subseteq AllocationScopes
  /\ \E e \in UpToFirst({1, 2}, EventsInUse), p \in Proposals :
       \/ \E list \in InstructionLists : CreateAllocationProposal(p, list, None, e)
       \/ \E k \in UpToFirst({1, 2}, KeysInUse) :
            \/ \E intent \in IntentsFor(p), expiresAt \in Expiries :
                 CallApprove(k, p, intent, expiresAt, e)
            \/ \E now \in Times : CallApply(k, p, e, now)
            \/ CallRecordEscrow(k, e, 1)

AboutTranches ==
  /\ Called \subseteq TrancheScopes
  /\ \A p \in Proposals : proposals[p] # NoProposal => proposals[p].tranche # None
  /\ \E e \in UpToFirst(EventIds, EventsInUse), t \in Tranches :
       \/ \E k \in UpToFirst(Keys, KeysInUse) :
            \/ \E n \in Amounts, ref \in TransactionRef : CallRecordTranche(k, t, n, ref, e)
            \/ CallReconcile(k, t, e)
       \/ \E p \in Proposals, list \in InstructionLists :
            CreateAllocationProposal(p, list, t, e)

(* The actions of whatever was called.                                     *)
Work ==
  \/ RunRecordEscrow
  \/ RunReleaseEscrow
  \/ RunApprove
  \/ RunApply
  \/ \E h \in hashing : FinishApprove(h) \/ FinishApply(h)
  \/ RunRecordTranche
  \/ RunReconcile

OneQuestionSpec ==
  TreasuryInit /\ [][AboutEscrow \/ AboutAllocations \/ AboutTranches \/ Work]_vars

RecordSymmetry == Permutations(Proposals) \cup Permutations(Tranches)
=============================================================================
