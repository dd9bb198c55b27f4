---- MODULE MC_Teams ----
(***************************************************************************)
(* Instances of Teams: one wallet of the hall and two others, all sponsor  *)
(* lists without repetitions that the requests need.                       *)
(***************************************************************************)
EXTENDS Teams, TLC

CONSTANTS h, a, b

SomeLists == {<< >>, <<a>>, <<a, b>>}
SomeCrews == {{}, {b}}

\* The requests are interchangeable; no property names one.
RequestSymmetry == Permutations(Requests)

====
