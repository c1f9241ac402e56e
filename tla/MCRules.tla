------------------------------ MODULE MCRules ------------------------------
(***************************************************************************)
(* The rule engines of the domain.  A behaviour is about one matter: the   *)
(* resolution of allocations, for any budget and instructions given one    *)
(* after another; the recovery of a milestone's evidence; or its approval. *)
(***************************************************************************)
EXTENDS Allocation, MilestoneApproval

CONSTANTS
  Reserves,          \* the reserves, in their order
  FixedAmounts,      \* amounts of fixed instructions
  Points,            \* basis points of percentage instructions
  MaxBudget,         \* bound: largest budget
  MaxInstructions    \* bound: most instructions of one proposal

ASSUME RulesAssumption ==
  /\ Reserves \subseteq Int /\ MaxBudget \in Int
  /\ FixedAmounts \subseteq Nat /\ Points \subseteq Nat

VARIABLES
  subject,           \* what the behaviour is about
  budget,            \* what is resolved
  ins                \* the instructions so far

vars == <<subject, budget, ins, approvalVars>>

MilestoneRequirements ==
  Requirement({"expenses"}, "EXPENSE_RECORDS", TRUE, 1)
    \cup Requirement({"confirmation"}, "FOUNDER_CONFIRMATION", TRUE, 0)
    \cup Requirement({"due"}, "DUE_DATE", TRUE, 0)
    \cup Requirement({"spend"}, "SPEND_LIMIT", TRUE, 1)
    \cup Requirement({"approval"}, "HUMAN_APPROVAL", TRUE, 0)

ItemKinds == [e \in Evidence |-> IF e \in {"r1", "r2"} THEN "RECEIPT" ELSE "CONFIRMATION"]
ItemTimes    == [e \in Evidence |-> IF e = "r2" THEN 2 ELSE 1]
ItemProjects == [e \in Evidence |-> Project]

(* The evaluator's approval and rejection, and a stranger's approval.      *)
Verdict(decision, by, decidedAt, expiresAt) ==
  [decision |-> decision, by |-> by, decidedAt |-> decidedAt, expiresAt |-> expiresAt]
MilestoneVerdicts ==
  {Verdict("APPROVED", Evaluator, 1, 2), Verdict("REJECTED", Evaluator, 2, 2),
   Verdict("APPROVED", Stranger, 1, 2)}
MilestoneDisputes == {r \in Requirements : r.kind = "EXPENSE_RECORDS"}

Init ==
  /\ subject \in {"ALLOCATION", "RECOVERY", "APPROVAL"}
  /\ budget \in IF subject = "ALLOCATION" THEN 0 .. MaxBudget ELSE {0}
  /\ ins = <<>>
  /\ ApprovalInit

Instruct ==
  /\ subject = "ALLOCATION"
  /\ Len(ins) < MaxInstructions
  /\ \E i \in Instruction(Reserves, FixedAmounts, Points) :
        ins' = Append(ins, i)
  /\ UNCHANGED <<subject, budget, approvalVars>>

Collect ==
  /\ subject = "RECOVERY"
  /\ EvidenceNext
  /\ UNCHANGED <<subject, budget, ins, conflicts, approval, seen>>

Approve ==
  /\ subject = "APPROVAL"
  /\ ApprovalNext
  /\ UNCHANGED <<subject, budget, ins>>

Spec == Init /\ [][Instruct \/ Collect \/ Approve]_vars

-----------------------------------------------------------------------------
Resolved == Resolvable(budget, ins, Reserves)

(* What is resolved is exactly the fixed amounts and the percentages' part *)
(* of the rest, rounded down once and not once per share, so no unit is    *)
(* lost or invented by rounding, and the budget is never exceeded.         *)
NoUnitLost ==
  Resolved =>
    LET total == AmountTotal(Resolve(budget, ins))
    IN  /\ total <= budget
        /\ FullShare * (total - FixedTotal(ins))
             <= (budget - FixedTotal(ins)) * PercentageTotal(ins)
        /\ FullShare * (total - FixedTotal(ins) + 1)
             > (budget - FixedTotal(ins)) * PercentageTotal(ins)

(* What a proposal gives to each reserve does not depend on the order of   *)
(* its instructions: the leftover units follow the remainders and the      *)
(* reserves, never the place of an instruction in the request.             *)
OrderIndependent ==
  Resolved =>
    \A p \in Bijection(DOMAIN ins, DOMAIN ins) :
      Resolve(budget, [i \in DOMAIN ins |-> ins[p[i]]]) = Resolve(budget, ins)

(* The rounding policy the code publishes: a percentage gets its exact     *)
(* share rounded down or up, and one that is rounded up never has a        *)
(* smaller remainder than one that is rounded down, nor an equal one and a *)
(* larger reserve.                                                         *)
LargestRemainder ==
  Resolved =>
    \A i, j \in Percentages(ins) :
      LET Up(n)       == FullShare * Share(budget, ins, n) > Exact(budget, ins, n)
          Fraction(n) == Exact(budget, ins, n) % FullShare
      IN  /\ Share(budget, ins, i) * FullShare < Exact(budget, ins, i) + FullShare
          /\ Share(budget, ins, i) * FullShare > Exact(budget, ins, i) - FullShare
          /\ Up(i) /\ ~Up(j) =>
               \/ Fraction(i) > Fraction(j)
               \/ Fraction(i) = Fraction(j) /\ ins[i].reserve <= ins[j].reserve

(* The rounding loses no unit, gives each to whom the policy says, and     *)
(* takes no account of the order of the instructions.                      *)
RoundsByPolicy == NoUnitLost /\ LargestRemainder /\ OrderIndependent
=============================================================================
