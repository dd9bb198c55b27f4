---- MODULE MC_Payouts ----
(***************************************************************************)
(* Instances of Payouts: decisions that race, transfers that are cancelled *)
(* or interrupted, and the disagreement with the documented rules.         *)
(***************************************************************************)
EXTENDS Payouts, TLC

\* The slots of decisions are interchangeable; no property names one.
SlotSymmetry == Permutations(Slots)
====
