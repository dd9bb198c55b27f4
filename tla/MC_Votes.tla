---- MODULE MC_Votes ----
(***************************************************************************)
(* Instances of Votes: a decision, with a late request and the minute job. *)
(***************************************************************************)
EXTENDS Votes

====
