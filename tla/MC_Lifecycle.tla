---- MODULE MC_Lifecycle ----
(***************************************************************************)
(* Instances of ProposalLifecycle.  The templates are those of             *)
(* seed_data/proposal_data.yml, reduced to what the life cycle looks at.   *)
(***************************************************************************)
EXTENDS ProposalLifecycle

\* A P1 project: no vote, approved by a job after the publicity time.
Project ==
    [type |-> "new_project", vote |-> "none", publicity |-> TRUE, pending |-> TRUE, action |-> "none"]
\* P2 and P3 projects are voted.
VotedProject ==
    [type |-> "new_project", vote |-> "tally", publicity |-> TRUE, pending |-> TRUE, action |-> "none"]
\* Closing a project: voted without publicity, rewards its members.
CloseProject ==
    [type |-> "close_project", vote |-> "tally", publicity |-> FALSE, pending |-> TRUE, action |-> "motivation"]
\* A veto: voted and executed without delay.
Veto ==
    [type |-> "other", vote |-> "tally", publicity |-> FALSE, pending |-> FALSE, action |-> "veto"]
\* Several options, of P2 and of P3.
Options ==
    [type |-> "other", vote |-> "always", publicity |-> TRUE, pending |-> TRUE, action |-> "none"]
OptionsAtOnce ==
    [type |-> "other", vote |-> "always", publicity |-> FALSE, pending |-> FALSE, action |-> "none"]
\* Custom templates with a component: closing a project, and a guild, which the
\* task manager does not know.
CloseComponent ==
    [type |-> "other", vote |-> "tally", publicity |-> TRUE, pending |-> TRUE, action |-> "close_project"]
Guild ==
    [type |-> "other", vote |-> "tally", publicity |-> FALSE, pending |-> FALSE, action |-> "unknown"]

\* Projects approved by a job and projects approved by a vote, in two versions.
Projects == {Project, VotedProject}
OnlyVoted == {VotedProject}
\* Projects approved by a job only.
OnlyProject == {Project}
\* One new proposal next to the seeded project: closing it, or any automation.
Automated ==
    {Project, VotedProject, CloseProject, CloseComponent, Guild, Options, OptionsAtOnce}
OfferAutomated == Automated \ {Project}
VetoAndGuild == {Guild, Veto}
\* Two new proposals next to the seeded project: closing it, and vetoing that.
VetoAndClosing == {Project, CloseProject, Veto}
OfferVetoAndClosing == {CloseProject, Veto}

\* A bound of the veto run: a create or update request is not interleaved with dispatched
\* jobs and operations, except for the operation it waits for.  The project and
\* automation runs interleave them.
RequestsAlone ==
    \/ reqs = {}
    \/ ops = {} /\ inflight = {}
    \/ \A q \in reqs : q.stage = "respond" /\ \E o \in ops : o.rcd = q.rcd
====
