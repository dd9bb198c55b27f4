---- MODULE MC_Services ----
(***************************************************************************)
(* Instance of Services: two users with a record and one without, two      *)
(* invitees, two announcements, four proposals of which one closes the     *)
(* project of another, and up to two extra rules.                          *)
(***************************************************************************)
EXTENDS Services

\* Written out, since a constant may not depend on its own instance; -1 is Unreadable.
SomeRecords ==
    <<[wallet |-> "a", dealt |-> 3, processing |-> 0], [wallet |-> "b", dealt |-> 1, processing |-> 0]>>
SomeThresholds == {-1, 2, 60}
SomeTotals == {-1, 3}
SomeRequests == {-1, 2}

====
