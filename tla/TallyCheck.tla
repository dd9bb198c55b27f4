---- MODULE TallyCheck ----
(***************************************************************************)
(* The verdict of a closed poll against what it should say, for every kind *)
(* of vote, with ties, lists of extra rules and an indexer that fails.     *)
(*                                                                         *)
(* poll     the saved poll: kind, counts, its list of rules if it has one, *)
(*          and what the indexer answers                                   *)
(* verdict  what UpdateProposalStateAfterVoteClosed makes of it            *)
(***************************************************************************)
EXTENDS VoteTally

CONSTANTS
    Labels,         \* options of the poll
    MaxCount,       \* bound: votes of an option
    MaxRules,       \* bound: extra rules of a list
    Thresholds,     \* values of a rule; Unreadable may be one
    HolderCounts    \* seed holders the indexer may answer, 0 when it fails

VARIABLES poll, verdict
vars == <<poll, verdict>>

Rules == [metric : {"seed", "unknown"}, check : CheckTypes, value : Thresholds]
NoPoll == [kind |-> "none", count |-> [o \in Labels |-> 0], lists |-> {}, seeds |-> 0]

Init ==
    /\ poll = NoPoll
    /\ verdict = "open"

Holders(seeds) == [m \in Metrics |-> IF m = "seed" THEN seeds ELSE 0]

Close(kind, count, lists, seeds) ==
    /\ poll' = [kind |-> kind, count |-> count, lists |-> lists, seeds |-> seeds]
    /\ verdict' = Verdict(kind, count, lists, Holders(seeds))

Next ==
    /\ verdict = "open"
    /\ \E kind \in VoteKinds, count \in [Labels -> 0..MaxCount], seeds \in HolderCounts :
         \/ Close(kind, count, {}, seeds)
         \/ \E n \in 0..MaxRules : \E rules \in [1..n -> Rules] : Close(kind, count, {rules}, seeds)

TypeOK == verdict \in {"open", "pass", "fail", "panic"}

----

Votes(o) == IF o \in Labels THEN poll.count[o] ELSE 0
Voters == Total(poll.count)

\* More approve than do not, one clear winner with a vote, or anybody at all.
Supported ==
    \/ poll.kind = "none"
    \/ poll.kind \in {"always_passed", "numeric_avg"} /\ Voters > 0
    \/ poll.kind = "decision" /\ 2 * Votes("approve") > Voters
    \/ poll.kind \in {"numeric_single", "equal_failed"}
         /\ \E o \in Labels : Votes(o) > 0 /\ \A x \in Labels \ {o} : Votes(o) > Votes(x)

\* The rules that can be read, and of those the ones a list stops at: a division by zero,
\* a bound that is missed, an unknown type when no rule has been met before.
Readable(rules) == {i \in DOMAIN rules : rules[i].value # Unreadable}
DividesByZero(r) == r.check = "ratio" /\ (r.metric = "unknown" \/ poll.seeds = 0)
Missed(r) ==
    \/ r.check = "count" /\ Voters < r.value
    \/ r.check = "ratio" /\ ~DividesByZero(r) /\ 100 * Voters < r.value * poll.seeds
Stops(rules) ==
    {i \in Readable(rules) :
        \/ DividesByZero(rules[i])
        \/ Missed(rules[i])
        \/ rules[i].check = "unknown" /\ \A j \in Readable(rules) : j >= i}

\* A poll passes when the vote supports it and every extra rule that can be read is met,
\* of which there is at least one; the first rule that is not met decides between a
\* failure and a panic, and a vote without rules is decided by its counts.
VerdictIsDeserved ==
    verdict # "open" =>
        LET limited == Supported /\ poll.kind \notin {"none", "always_passed"} /\ poll.lists # {}
            rules == CHOOSE l \in poll.lists : TRUE
            panics == \E i \in Stops(rules) : (\A j \in Stops(rules) : i <= j)
                                                /\ DividesByZero(rules[i])
        IN  /\ verdict = "pass" <=>
                 Supported /\ (limited => Readable(rules) # {} /\ Stops(rules) = {})
            /\ verdict = "panic" <=> limited /\ panics

====
