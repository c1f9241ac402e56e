----------------------------- MODULE Allocation -----------------------------
(***************************************************************************)
(* How the treasury turns allocation instructions into amounts             *)
(* (resolveAllocations).  A reserve is named by its place in the order of  *)
(* localeCompare, so reserves are numbers.  An instruction gives a reserve *)
(* a fixed amount or a percentage, in basis points, of what the fixed      *)
(* amounts leave.  Percentages are rounded down, and the units this leaves *)
(* go one by one to the largest remainders, ties to the smaller reserve.   *)
(***************************************************************************)
EXTENDS Integers, Sequences, FiniteSetsExt

FullShare == 10000     \* basis points of the whole

Instruction(reserves, fixed, points) ==
  [reserve : reserves, kind : {"FIXED"}, value : fixed]
    \cup [reserve : reserves, kind : {"PERCENTAGE"}, value : points]

FixedOnes(ins)   == {i \in DOMAIN ins : ins[i].kind = "FIXED"}
Percentages(ins) == {i \in DOMAIN ins : ins[i].kind = "PERCENTAGE"}
Mentioned(ins)   == {ins[i].reserve : i \in DOMAIN ins}

ValueOver(ins, S) == MapThenSumSet(LAMBDA i : ins[i].value, S)

FixedTotal(ins)      == ValueOver(ins, FixedOnes(ins))
PercentageTotal(ins) == ValueOver(ins, Percentages(ins))

(* The instructions the resolution accepts.                                *)
Resolvable(budget, ins, reserves) ==
  /\ ins # <<>>
  /\ Mentioned(ins) \subseteq reserves
  /\ PercentageTotal(ins) <= FullShare
  /\ FixedTotal(ins) <= budget

-----------------------------------------------------------------------------
(* The share of each instruction                                           *)

PercentageBudget(budget, ins) == budget - FixedTotal(ins)
Exact(budget, ins, i)     == PercentageBudget(budget, ins) * ins[i].value
Floor(budget, ins, i)     == Exact(budget, ins, i) \div FullShare
Remainder(budget, ins, i) == Exact(budget, ins, i) % FullShare

PercentageTarget(budget, ins) ==
  (PercentageBudget(budget, ins) * PercentageTotal(ins)) \div FullShare

Leftover(budget, ins) ==
  PercentageTarget(budget, ins)
    - MapThenSumSet(LAMBDA i : Floor(budget, ins, i), Percentages(ins))

(* Faulty variant: ties go by the place in the request.                    *)
ServedByPlace(budget, ins, j, i) ==
  LET rj == Remainder(budget, ins, j)
      ri == Remainder(budget, ins, i)
  IN  rj > ri \/ (rj = ri /\ j < i)

(* j is served before i.  The sort is stable: equal entries keep their     *)
(* order.                                                                  *)
ServedBefore(budget, ins, j, i) ==
  LET rj == Remainder(budget, ins, j)
      ri == Remainder(budget, ins, i)
  IN  \/ rj > ri
      \/ rj = ri /\ ins[j].reserve < ins[i].reserve
      \/ rj = ri /\ ins[j].reserve = ins[i].reserve /\ j < i

GetsLeftoverUnit(budget, ins, i) ==
  Cardinality({j \in Percentages(ins) : ServedBefore(budget, ins, j, i)})
    < Leftover(budget, ins)

Share(budget, ins, i) ==
  IF ins[i].kind = "FIXED" THEN ins[i].value
  ELSE Floor(budget, ins, i)
         + (IF GetsLeftoverUnit(budget, ins, i) THEN 1 ELSE 0)

(* What each mentioned reserve receives.                                   *)
Resolve(budget, ins) ==
  [r \in Mentioned(ins) |->
     MapThenSumSet(LAMBDA i : Share(budget, ins, i),
                   {i \in DOMAIN ins : ins[i].reserve = r})]

AmountTotal(amounts) == MapThenSumSet(LAMBDA r : amounts[r], DOMAIN amounts)
=============================================================================
