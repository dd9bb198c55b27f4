---- MODULE VoteTally ----
(***************************************************************************)
(* From the option counts of a closed poll to the result of a vote, and    *)
(* the extra rules a passing vote has to meet besides.  Pure operators: a  *)
(* count is a function from the option labels to naturals.                 *)
(***************************************************************************)
EXTENDS Integers, FiniteSets, SequencesExt

VoteKinds == {"none", "always_passed", "decision", "numeric_avg", "numeric_single", "equal_failed"}

Total(count) == FoldFunction(+, 0, count)

Tops(count) == {o \in DOMAIN count : \A x \in DOMAIN count : count[x] <= count[o]}

\* The count of the option that is labelled approve; 0 when no option is.
Approvals(count) == IF "approve" \in DOMAIN count THEN count["approve"] ELSE 0

M_PassesAtHalf(kind, count) ==
    \/ kind = "none"
    \/ /\ Total(count) > 0
       /\ \/ kind \in {"always_passed", "numeric_avg"}
          \/ kind = "decision" /\ Approvals(count) >= Total(count) \div 2
          \/ kind \in {"numeric_single", "equal_failed"} /\ Cardinality(Tops(count)) = 1
M_PassesUncounted(kind, count) ==
    \/ kind \in {"none", "always_passed", "numeric_avg"}
    \/ kind = "decision" /\ Approvals(count) >= Total(count) \div 2
    \/ kind \in {"numeric_single", "equal_failed"} /\ Cardinality(Tops(count)) = 1

\* Nothing passes without a voter, except what is not voted on; a decision needs more
\* than the half that integer division leaves, a single result no tie at the top.
Passes(kind, count) ==
    \/ kind = "none"
    \/ /\ Total(count) > 0
       /\ \/ kind \in {"always_passed", "numeric_avg"}
          \/ kind = "decision" /\ Approvals(count) > Total(count) \div 2
          \/ kind \in {"numeric_single", "equal_failed"} /\ Cardinality(Tops(count)) = 1

----

\* An extra rule compares the number of voters, or its percentage of what a metric
\* counts, with a value; Unreadable stands for a value that is not a number.
Unreadable == -1
Metrics == {"seed", "cs_node", "unknown"}
CheckTypes == {"ratio", "count", "unknown"}

\* What the indexer counts: 0 when it fails, and for a metric nobody knows.
MetricValue(r, holders) == IF r.metric = "unknown" THEN 0 ELSE holders[r.metric]

Holds(r, total, holders) ==
    IF r.check = "ratio" THEN (total * 100) \div MetricValue(r, holders) >= r.value
    ELSE total >= r.value

\* What one rule makes of the verdict so far.  A rule that is unreadable is skipped; one
\* of an unknown type keeps the verdict; a percentage of 0 is a division by zero, which
\* panics; and the first verdict that is not a pass ends the loop.
M_ApplyKeepsGoing(v, r, total, holders) ==
    IF v = "panic" \/ r.value = Unreadable THEN v
    ELSE IF r.check = "ratio" /\ MetricValue(r, holders) = 0 THEN "panic"
    ELSE IF r.check = "unknown" THEN v
    ELSE IF Holds(r, total, holders) THEN "pass" ELSE "fail"
Apply(v, r, total, holders) ==
    IF v \in {"fail", "panic"} \/ r.value = Unreadable THEN v
    ELSE IF r.check = "ratio" /\ MetricValue(r, holders) = 0 THEN "panic"
    ELSE IF r.check = "unknown" THEN IF v = "pass" THEN "pass" ELSE "fail"
    ELSE IF Holds(r, total, holders) THEN "pass" ELSE "fail"

CheckRules(rules, total, holders) ==
    FoldLeft(LAMBDA v, r : Apply(v, r, total, holders), "start", rules)

\* The result of a poll: a vote that passed on its counts must also pass the extra rules
\* of its proposal.  lists is empty when it has none, else the one list it has; an empty
\* list passes nothing.
Verdict(kind, count, lists, holders) ==
    IF ~Passes(kind, count) THEN "fail"
    ELSE IF kind \in {"none", "always_passed"} \/ lists = {} THEN "pass"
    ELSE LET v == CheckRules(CHOOSE rules \in lists : TRUE, Total(count), holders)
         IN  IF v = "start" THEN "fail" ELSE v

====
