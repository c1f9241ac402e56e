------------------------- MODULE TransferLifecycle -------------------------
(***************************************************************************)
(* What the durable record promises about one approved transfer, per       *)
(* idempotency key, without saying how it is stored.  `stage' is what a    *)
(* reader of the record may conclude; `spent' says that the one-use        *)
(* approval behind the key has been consumed.                              *)
(*                                                                         *)
(*   idle      nothing recorded                                            *)
(*   open      an attempt is recorded, no Circle operation is known        *)
(*   failed    the attempt failed and no Circle operation was ever known   *)
(*   tracked   a Circle operation is known and not terminal                *)
(*   paid      confirmed (final)                                           *)
(*   dead      failed after a Circle operation was known (final)           *)
(***************************************************************************)
CONSTANT Keys

Stages == {"idle", "open", "failed", "tracked", "paid", "dead"}

VARIABLES stage, spent

lifecycleVars == <<stage, spent>>

LifecycleInit ==
  /\ stage = [k \in Keys |-> "idle"]
  /\ spent = [k \in Keys |-> FALSE]

(* The first recorded result may already name an operation: a crash        *)
(* between the stored approval and the first record loses nothing.         *)
Begin(k) ==
  /\ stage[k] = "idle"
  /\ \E s \in Stages \ {"idle"} : stage' = [stage EXCEPT ![k] = s]
  /\ UNCHANGED spent

(* An open attempt is answered: an operation is found, or it fails.        *)
Answer(k) ==
  /\ stage[k] = "open"
  /\ \E s \in {"tracked", "failed", "dead"} : stage' = [stage EXCEPT ![k] = s]
  /\ UNCHANGED spent

(* Only an attempt whose approval is unspent is opened again.              *)
Reopen(k) ==
  /\ stage[k] = "failed"
  /\ ~spent[k]
  /\ stage' = [stage EXCEPT ![k] = "open"]
  /\ UNCHANGED spent

Conclude(k) ==
  /\ stage[k] = "tracked"
  /\ \E s \in {"paid", "dead"} : stage' = [stage EXCEPT ![k] = s]
  /\ UNCHANGED spent

Spend(k) ==
  /\ ~spent[k]
  /\ spent' = [spent EXCEPT ![k] = TRUE]
  /\ UNCHANGED stage

LifecycleNext ==
  \E k \in Keys : Begin(k) \/ Answer(k) \/ Reopen(k) \/ Conclude(k) \/ Spend(k)

LifecycleSpec == LifecycleInit /\ [][LifecycleNext]_lifecycleVars
=============================================================================
