---- MODULE ProposalLifecycle ----
(***************************************************************************)
(* The life of governance proposals in the OS backend: the rows of the     *)
(* proposals table, the vote record attached to each row, the cron jobs    *)
(* created for them, the projects they create and close, and the polls of  *)
(* Metaforo, the external forum.                                           *)
(*                                                                         *)
(* An HTTP handler is a request that goes through stages, so that other    *)
(* handlers, the task manager and a restart interleave between the stages. *)
(* A service function that commits its work in parts (a state that was     *)
(* checked, a verdict, a job, a last state) is an operation that holds the *)
(* lock of the proposal from one part to the next: what takes the same     *)
(* lock must wait, everything else, a veto among them, comes in between.   *)
(* A cron job is first dispatched (a copy of the row is handed to a        *)
(* goroutine) and only later run, so that whatever happens to the row in   *)
(* between is seen.                                                        *)
(***************************************************************************)
EXTENDS Naturals, FiniteSets

CONSTANTS
    Records,      \* ids of rows of the proposals table, 1..n
    Templates,    \* the proposal templates in the database
    Offered,      \* those that new proposals are created from
    MaxSip,       \* bound on the SIP numbers given out
    MaxCopies,    \* bound on the proposals that have one component action
    MaxVersion,   \* bound on the versions of a proposal
    MaxRequests,  \* bound on the create and update requests in progress
    MaxOps,       \* bound on the operations in progress
    Seeded        \* TRUE: the database starts with an executed project proposal

VARIABLES
    rec,       \* rec[r]: the row r of the proposals table
    vote,      \* vote[r]: the poll status saved in the vote record of row r
    poll,      \* poll[t]: the poll of the forum thread that row t created
    jobs,      \* jobs[r][k]: the state of the cron job of kind k of row r
    inflight,  \* the jobs whose copy a task goroutine holds
    reqs,      \* the create and update requests in progress
    ops,       \* the operations that hold a lock with part of their work done
    project,   \* project[s]: the project with SIP s
    passed     \* history: the threads whose poll has closed with a passing result

vars == <<rec, vote, poll, jobs, inflight, reqs, ops, project, passed>>

\* SIP numbers; 0 stands for none, and projects can be created with it.
Sips == 0..MaxSip

ProposalStates ==
    {"pending_submit", "draft", "withdrawn", "rejected", "voting", "vote_passed",
     "vote_failed", "pending_execution", "executed", "execution_failed", "vetoed"}

\* Variants named M_... are plausible mistakes, each caught by a property.
M_FinStates == {"executed"}
FinStates == {"executed", "vetoed"}
UpdatableStates == {"pending_submit", "withdrawn", "rejected"}

\* What a job does: "approve" and "execute" are the two parameters of the
\* update_proposal_state handler, the others are component actions.
ActionKinds == {"veto", "motivation", "close_project", "unknown"}
JobKinds == {"approve", "execute"} \cup ActionKinds
\* A job is done as soon as its handler has begun and will not be handed out again.
JobStates == {"none", "active", "done", "terminated"}

\* A template: what it is for, how it is voted, whether it has a publicity
\* and a pending-execution time, and the action of its first component.
TemplateKinds ==
    [type: {"new_project", "close_project", "other"},
     vote: {"none", "tally", "always"},
     publicity: BOOLEAN, pending: BOOLEAN,
     action: ActionKinds \cup {"none"}]

ASSUME RecordsAssumption == Records \subseteq Nat \ {0}
ASSUME TemplatesAssumption ==
    Templates \subseteq TemplateKinds /\ Templates # {} /\ Offered \subseteq Templates
ASSUME BoundsAssumption ==
    /\ MaxSip \in Nat \ {0} /\ MaxCopies \in Nat /\ MaxVersion \in Nat
    /\ MaxRequests \in Nat /\ MaxOps \in Nat /\ Seeded \in BOOLEAN
ASSUME SeedAssumption ==
    Seeded => 1 \in Records /\ \E t \in Templates : t.type = "new_project" /\ t.vote = "none"

\* "twice": two projects were created with the same SIP.
ProjectStates == {"none", "open", "closing", "closed", "close_failed", "twice"}

PollStatus == {"none", "wait", "open", "close"}
Stages == {"save", "closing", "submit", "approve", "schedule", "respond"}

Row ==
    [state: ProposalStates \cup {"unused"}, sip: Sips, thread: Records \cup {0},
     tmpl: Templates, target: Records \cup {0}, ver: Nat, started: BOOLEAN, auto: BOOLEAN]

Request == [stage: Stages, rcd: Records, url: Records, target: Records \cup {0}]

\* Two tables of locks that do not exclude each other: the service behind the HTTP
\* handlers has one, the package the task manager calls the other.  What is left to do:
\*   - verdict: the state was looked at, the verdict of the vote is to be written;
\*   - follow: the verdict is written, its automation is to come;
\*   - launch: the SIP is committed, the transaction with the rest is to come;
\*   - write: only a last state is to be written.
Operation ==
    [by: {"http", "task"}, rcd: Records, step: {"verdict", "follow", "launch", "write"},
     state: ProposalStates]

TypeOK ==
    /\ rec \in [Records -> Row]
    /\ vote \in [Records -> PollStatus \cup {"new"}]
    /\ poll \in [Records -> [status: PollStatus, result: {"none", "pass", "fail"}]]
    /\ jobs \in [Records -> [JobKinds -> JobStates]]
    /\ inflight \subseteq Records \X JobKinds
    /\ reqs \subseteq Request
    /\ ops \subseteq Operation
    /\ project \in [Sips -> ProjectStates]
    /\ passed \subseteq Records

----
(* Helpers *)

Used(r) == rec[r].state # "unused"

\* Row ids come from a sequence: the next row is the first unused one.
Fresh(r) == ~Used(r) /\ \A q \in Records : q < r => Used(q)

IsClosing(r) == rec[r].tmpl.type = "close_project"
IsNewProject(r) == rec[r].tmpl.type = "new_project"
HasPoll(t) == t.vote # "none"
\* The proposal names another one: whose project it closes, or which it vetoes.
NamesProposal(t) == t.type = "close_project" \/ t.action \in {"veto", "close_project"}

M_IsNextSip(s) == (\A q \in Records : rec[q].sip <= s) /\ \E q \in Records : rec[q].sip = s

\* max(sip) + 1 over the whole table
IsNextSip(s) ==
    /\ \A q \in Records : rec[q].sip < s
    /\ s = 1 \/ \E q \in Records : rec[q].sip = s - 1

\* A close-project proposal takes the SIP of the proposal that created the project.
SipFor(r, s) == IF IsClosing(r) THEN s = rec[rec[r].target].sip ELSE IsNextSip(s)

\* The project to be closed exists and is open or close_failed.
CanBeClosed(p) == Used(p) /\ project[rec[p].sip] \in {"open", "close_failed"}

NoJob == [k \in JobKinds |-> "none"]

\* FirstOrCreate: a job that already has a row keeps it as it is.
AddJob(js, r, k) == [js EXCEPT ![r][k] = IF @ = "none" THEN "active" ELSE @]

M_DeleteJobs(js, r) == [js EXCEPT ![r]["approve"] = "none"]
DeleteJobs(js, r) == [js EXCEPT ![r] = NoJob]

M_FinishForgets(js, r, k, st) == js

\* The writes of a handler find no row when the job was deleted meanwhile.
Finish(js, r, k, st) == [js EXCEPT ![r][k] = IF @ = "none" THEN @ ELSE st]

Continue(q, stage) == (reqs \ {q}) \cup {[q EXCEPT !.stage = stage]}
Drop(q) == reqs \ {q}
Begin(q) == Cardinality(reqs) < MaxRequests /\ reqs' = reqs \cup {q}

\* The lock of r in the table of `by` is free; taking it, going on and releasing it.
Free(by, r) == \A o \in ops : o.by # by \/ o.rcd # r
Hold(by, r, step, state) ==
    /\ Free(by, r)
    /\ Cardinality(ops) < MaxOps
    /\ ops' = ops \cup {[by |-> by, rcd |-> r, step |-> step, state |-> state]}
Advance(o, step, state) == ops' = (ops \ {o}) \cup {[o EXCEPT !.step = step, !.state = state]}
Release(o) == ops' = ops \ {o}

\* Both create and update verify the project, then move it to closing, then publish.
FirstStage(t) == IF t.type = "close_project" THEN "closing" ELSE "submit"

----
(* Initial database *)

NoRow ==
    [state |-> "unused", sip |-> 0, thread |-> 0, tmpl |-> CHOOSE t \in Templates : TRUE,
     target |-> 0, ver |-> 0, started |-> FALSE, auto |-> FALSE]

\* A project proposal that was executed earlier: row 1, SIP 1, its project open.
SeedTemplate ==
    CHOOSE t \in Templates : t.type = "new_project" /\ t.vote = "none"

SeedRow ==
    [NoRow EXCEPT !.state = "executed", !.sip = 1, !.thread = 1,
                  !.tmpl = SeedTemplate, !.ver = 1, !.started = TRUE]

Init ==
    /\ rec = [r \in Records |-> IF Seeded /\ r = 1 THEN SeedRow ELSE NoRow]
    /\ vote = [r \in Records |-> "none"]
    /\ poll = [r \in Records |-> [status |-> "none", result |-> "none"]]
    /\ jobs = [r \in Records |-> NoJob]
    /\ inflight = {}
    /\ reqs = {}
    /\ ops = {}
    /\ project = [s \in Sips |-> IF Seeded /\ s = 1 THEN "open" ELSE "none"]
    /\ passed = {}

----
(* Creating and updating a proposal *)

\* POST /proposals: the row and its vote record are saved as pending_submit; a
\* request that also publishes goes on with the next stage.
Create(t, p, publish) ==
    \E r \in Records :
        /\ Fresh(r)
        /\ Cardinality({q \in Records : Used(q) /\ rec[q].tmpl.action = t.action /\ rec[q].ver = 1}) < MaxCopies
        /\ IF NamesProposal(t) THEN p # 0 /\ Used(p) ELSE p = 0
        /\ t.type = "close_project" => CanBeClosed(p)
        /\ rec' = [rec EXCEPT ![r] = [NoRow EXCEPT !.state = "pending_submit", !.tmpl = t,
                                                   !.target = p, !.ver = 1]]
        /\ vote' = [vote EXCEPT ![r] = IF HasPoll(t) THEN "new" ELSE "none"]
        /\ IF publish THEN Begin([stage |-> FirstStage(t), rcd |-> r, url |-> r, target |-> p])
                      ELSE UNCHANGED reqs
        /\ UNCHANGED <<poll, jobs, inflight, ops, project, passed>>

\* PUT /proposals/:id, the checks made before the lock is taken.  The project to
\* be closed comes with the request.
CheckUpdate(r, p) ==
    /\ rec[r].state \in UpdatableStates
    /\ rec[r].thread # 0 => ~rec[r].started
    /\ IF IsClosing(r) THEN p # 0 /\ CanBeClosed(p) ELSE p = rec[r].target
    /\ Begin([stage |-> "save", rcd |-> r, url |-> r, target |-> p])
    /\ UNCHANGED <<rec, vote, poll, jobs, inflight, ops, project, passed>>

\* The row is loaded again under the lock.  A row in pending_submit is updated in
\* place; any other is copied to a new row with the next version, to which the
\* vote record is moved.  The state that was checked is not checked again.
SaveUpdate(q, publish) ==
    /\ q.stage = "save"
    /\ Free("http", q.rcd)
    /\ IF rec[q.rcd].state = "pending_submit"
       THEN /\ reqs' = Continue(q, IF publish THEN FirstStage(rec[q.rcd].tmpl) ELSE "respond")
            /\ rec' = [rec EXCEPT ![q.rcd].target = q.target]
            /\ UNCHANGED vote
       ELSE \E n \in Records :
            LET r == q.rcd IN
            /\ Fresh(n)
            /\ rec[r].ver < MaxVersion
            /\ rec' = [rec EXCEPT ![n] = [rec[r] EXCEPT !.state = "draft", !.ver = @ + 1,
                                                        !.target = q.target, !.auto = FALSE]]
            /\ vote' = [vote EXCEPT ![r] = "none",
                                    ![n] = IF HasPoll(rec[r].tmpl) /\ vote[r] = "none"
                                           THEN "new" ELSE vote[r]]
            /\ reqs' = Drop(q) \cup
                 {[q EXCEPT !.rcd = n,
                            !.stage = IF publish THEN FirstStage(rec[r].tmpl) ELSE "respond"]}
    /\ UNCHANGED <<poll, jobs, inflight, ops, project, passed>>

\* The new row is created before the transaction that fills it: when that fails,
\* the row stays, with the thread of the old one but without its vote record.
SaveUpdateFails(q) ==
    LET r == q.rcd IN
    /\ q.stage = "save"
    /\ Free("http", r)
    /\ rec[r].state # "pending_submit"
    /\ rec[r].ver < MaxVersion
    /\ \E n \in Records :
          /\ Fresh(n)
          /\ rec' = [rec EXCEPT ![n] = [rec[r] EXCEPT !.state = "draft", !.ver = @ + 1,
                                                      !.auto = FALSE]]
    /\ reqs' = Drop(q)
    /\ UNCHANGED <<vote, poll, jobs, inflight, ops, project, passed>>

\* A close-project proposal reserves its project by moving it to closing.
CloseLinkedProject(q) ==
    /\ q.stage = "closing"
    /\ CanBeClosed(rec[q.rcd].target)
    /\ project' = [project EXCEPT ![rec[rec[q.rcd].target].sip] = "closing"]
    /\ reqs' = Continue(q, "submit")
    /\ UNCHANGED <<rec, vote, poll, jobs, inflight, ops, passed>>

\* What is left to do once the proposal is published.
AfterSubmit(q) ==
    LET t == rec[q.rcd].tmpl IN
    IF ~t.publicity THEN Continue(q, "approve")
    ELSE IF ~HasPoll(t) THEN Continue(q, "schedule") ELSE Continue(q, "respond")

M_Publish(q) ==
    LET r == q.rcd
        t == rec[r].tmpl
    IN
    /\ q.stage = "submit"
    /\ Free("http", r)
    /\ rec[r].thread = 0
    /\ rec' = [rec EXCEPT ![r].state = "draft", ![r].thread = r, ![r].started = ~t.publicity]
    /\ poll' = [poll EXCEPT ![r].status = vote[r]]
    /\ reqs' = AfterSubmit(q)
    /\ UNCHANGED <<vote, jobs, inflight, ops, project, passed>>

\* The first publication creates the forum thread, with its poll.
Publish(q) ==
    LET r == q.rcd
        t == rec[r].tmpl
        s == IF HasPoll(t) THEN "wait" ELSE "none"
    IN
    /\ q.stage = "submit"
    /\ Free("http", r)
    /\ rec[r].thread = 0
    /\ rec' = [rec EXCEPT ![r].state = "draft", ![r].thread = r, ![r].started = ~t.publicity]
    /\ poll' = [poll EXCEPT ![r].status = s]
    /\ vote' = [vote EXCEPT ![r] = IF HasPoll(t) THEN s ELSE @]
    /\ reqs' = AfterSubmit(q)
    /\ UNCHANGED <<jobs, inflight, ops, project, passed>>

\* A new version updates its thread and moves the poll back to the original vote
\* start, which must still be ahead.
Republish(q) ==
    LET r == q.rcd IN
    /\ q.stage = "submit"
    /\ Free("http", r)
    /\ rec[r].thread # 0
    /\ ~rec[r].started
    /\ vote[r] # "new"
    /\ rec' = [rec EXCEPT ![r].state = "draft"]
    /\ IF vote[r] = "none" THEN UNCHANGED <<poll, vote>>
       ELSE /\ poll' = [poll EXCEPT ![rec[r].thread].status = "wait"]
            /\ vote' = [vote EXCEPT ![r] = "wait"]
    /\ reqs' = AfterSubmit(q)
    /\ UNCHANGED <<jobs, inflight, ops, project, passed>>

\* An error on the way leaves what was done before it: of the first publication, the
\* thread and the row but not its vote record; of a new version, the poll moved.
PublishFails(q) ==
    LET r == q.rcd
        t == rec[r].tmpl
    IN
    /\ q.stage = "submit"
    /\ Free("http", r)
    /\ HasPoll(t)
    /\ IF rec[r].thread = 0
       THEN /\ rec' = [rec EXCEPT ![r].state = "draft", ![r].thread = r, ![r].started = ~t.publicity]
            /\ poll' = [poll EXCEPT ![r].status = "wait"]
       ELSE /\ ~rec[r].started
            /\ vote[r] \notin {"new", "none"}
            /\ poll' = [poll EXCEPT ![rec[r].thread].status = "wait"]
            /\ UNCHANGED rec
    /\ reqs' = Drop(q)
    /\ UNCHANGED <<vote, jobs, inflight, ops, project, passed>>

\* Without a vote, a job approves the proposal when the publicity time ends.
ScheduleApproval(q) ==
    /\ q.stage = "schedule"
    /\ jobs' = AddJob(jobs, q.rcd, "approve")
    /\ rec' = [rec EXCEPT ![q.rcd].auto = TRUE]
    /\ reqs' = Continue(q, "respond")
    /\ UNCHANGED <<vote, poll, inflight, ops, project, passed>>

\* A request may fail at any stage (the lock is busy, the forum or the database
\* returns an error, a check fails): it ends with what earlier stages have done.
RequestFails(q) ==
    /\ reqs' = Drop(q)
    /\ UNCHANGED <<rec, vote, poll, jobs, inflight, ops, project, passed>>

----
(* Decisions of the city hall and the applicant *)

\* The project a new-project proposal creates carries the SIP of the proposal.
\* Nothing in the table keeps a second project from being created with it.
WithProject(r, sip) ==
    IF IsNewProject(r)
    THEN [project EXCEPT ![sip] = IF @ = "none" THEN "open" ELSE "twice"] ELSE project

\* Approving: the SIP and the voting state are committed first, where the row has no
\* SIP yet, outside the transaction that does the rest.
StartApproval(by, r) ==
    /\ Used(r)
    /\ rec[r].sip = 0
    /\ \E s \in Sips : SipFor(r, s) /\ rec' = [rec EXCEPT ![r].sip = s, ![r].state = "voting"]
    /\ Hold(by, r, "launch", "voting")

Approve(r) ==
    /\ StartApproval("http", r)
    /\ UNCHANGED <<vote, poll, jobs, inflight, reqs, project, passed>>

\* A proposal without publicity time is approved as soon as it is published.  An
\* update approves the row named in its URL.
ApproveAtOnce(q) ==
    /\ q.stage = "approve"
    /\ StartApproval("http", q.url)
    /\ reqs' = Continue(q, "respond")
    /\ UNCHANGED <<vote, poll, jobs, inflight, project, passed>>

\* The transaction of an approval, which writes the state whatever it is by now:
\*   - no vote and nothing to wait for: executed, and the project is created;
\*   - no vote: the jobs that update the state are replaced by one that executes;
\*   - otherwise the poll is moved to now; an error of the forum is ignored.
Launch(o) ==
    LET r == o.rcd
        t == rec[r].tmpl
        state == IF HasPoll(t) THEN "voting"
                 ELSE IF t.pending THEN "pending_execution" ELSE "executed"
    IN
    /\ o.step = "launch"
    /\ rec' = [rec EXCEPT ![r].state = state, ![r].auto = @ \/ state = "pending_execution"]
    /\ jobs' = IF state = "pending_execution"
               THEN [jobs EXCEPT ![r]["approve"] = "none", ![r]["execute"] = "active"] ELSE jobs
    /\ project' = IF state = "executed" THEN WithProject(r, rec[r].sip) ELSE project
    /\ \/ UNCHANGED poll
       \/ /\ HasPoll(t) /\ vote[r] \in {"wait", "open", "close"}
          /\ poll' = [poll EXCEPT ![rec[r].thread].status = "open"]
    /\ Release(o)
    /\ UNCHANGED <<vote, inflight, reqs, passed>>

\* Withdrawing (by the applicant) and rejecting (by the city hall) look at no
\* state.  The poll is moved one year ahead; the jobs are only deleted for a
\* proposal that is not voted.  The state is written last, outside any transaction.
TakeBack(r, state) ==
    /\ Used(r)
    /\ vote[r] # "new"
    /\ jobs' = IF HasPoll(rec[r].tmpl) THEN jobs ELSE DeleteJobs(jobs, r)
    /\ poll' = IF vote[r] = "none" THEN poll
               ELSE [poll EXCEPT ![rec[r].thread].status = "wait"]
    /\ Hold("http", r, "write", state)
    /\ UNCHANGED <<rec, vote, inflight, reqs, project, passed>>

Withdraw(r) == TakeBack(r, "withdrawn")
Reject(r) == TakeBack(r, "rejected")

\* The last write of an operation looks at no state.
WriteState(o) ==
    /\ o.step = "write"
    /\ rec' = [rec EXCEPT ![o.rcd].state = o.state]
    /\ Release(o)
    /\ UNCHANGED <<vote, poll, jobs, inflight, reqs, project, passed>>

\* An operation may fail before any of its parts: what is committed stays.
OperationFails(o) ==
    /\ Release(o)
    /\ UNCHANGED <<rec, vote, poll, jobs, inflight, reqs, project, passed>>

----
(* The forum's poll and what is made of it *)

\* Time: the vote start saved in the rows of a thread is reached.
StartPasses(t) ==
    /\ \E r \in Records : rec[r].thread = t /\ ~rec[r].started
    /\ rec' = [r \in Records |->
                 [rec[r] EXCEPT !.started = @ \/ rec[r].thread = t]]
    /\ UNCHANGED <<vote, poll, jobs, inflight, reqs, ops, project, passed>>

\* External: the forum opens the poll, never before the vote start in the rows.
PollOpens(t) ==
    /\ poll[t].status = "wait"
    /\ \A r \in Records : rec[r].thread = t => rec[r].started
    /\ poll' = [poll EXCEPT ![t].status = "open"]
    /\ UNCHANGED <<rec, vote, jobs, inflight, reqs, ops, project, passed>>

\* External: the poll closes, at its end or by its owner, with a result.
PollCloses(t, result) ==
    /\ poll[t].status = "open"
    /\ poll' = [poll EXCEPT ![t] = [status |-> "close", result |-> result]]
    /\ passed' = IF result = "pass" THEN passed \cup {t} ELSE passed
    /\ UNCHANGED <<rec, vote, jobs, inflight, reqs, ops, project>>

\* The status is saved in every vote record of the poll that had the old one.
SaveStatus(r, s) ==
    vote' = [q \in Records |->
              IF q = r \/ (vote[r] # "new" /\ vote[q] = vote[r] /\ rec[q].thread = rec[r].thread)
              THEN s ELSE vote[q]]

M_OpenVoting(r) ==
    IF rec[r].state \notin FinStates \cup {"voting"}
    THEN \E s \in Sips : SipFor(r, s) /\ rec' = [rec EXCEPT ![r].sip = s, ![r].state = "voting"]
    ELSE UNCHANGED rec

\* The poll was seen open: the proposal gets its SIP and is voting, unless it has
\* a SIP already or is final.
OpenVoting(r) ==
    IF rec[r].sip = 0 /\ rec[r].state \notin FinStates \cup {"voting"}
    THEN \E s \in Sips : SipFor(r, s) /\ rec' = [rec EXCEPT ![r].sip = s, ![r].state = "voting"]
    ELSE UNCHANGED rec

M_VerdictAnyVote(t, result) ==
    IF result = "fail" /\ t.vote = "always" THEN "vote_failed"
    ELSE IF t.vote # "always" THEN "vote_passed"
    ELSE IF t.pending THEN "pending_execution" ELSE "executed"

\* The state a vote result gives, before any automation.
Verdict(t, result) ==
    IF result = "fail" THEN "vote_failed"
    ELSE IF t.vote # "always" THEN "vote_passed"
    ELSE IF t.pending THEN "pending_execution" ELSE "executed"

\* The project of a close-project proposal is closing, as it should be.
ProjectIsClosing(r) == project[rec[rec[r].target].sip] = "closing"

\* The automation ends with an error, which rolls back a surrounding transaction.
FollowUpFails(r, verdict) ==
    \/ verdict = "pending_execution"
    \/ verdict = "vote_failed" /\ IsClosing(r) /\ ~ProjectIsClosing(r)

\* A passed proposal with a component action gets the job of that action, a new project
\* waits once for its pending-execution time.
GetsJob(r, verdict) ==
    LET t == rec[r].tmpl IN
    verdict = "vote_passed" /\ (t.action # "none" \/ (IsNewProject(r) /\ t.pending /\ ~rec[r].auto))

WithJob(r) == AddJob(jobs, r, IF rec[r].tmpl.action = "none" THEN "execute" ELSE rec[r].tmpl.action)

\* The state in which the automation of a proposal that is in state `now` ends.
FollowUp(r, verdict, now) ==
    IF verdict = "pending_execution" \/ (FollowUpFails(r, verdict) /\ now = "vote_failed")
    THEN "execution_failed"
    ELSE IF GetsJob(r, verdict) THEN "pending_execution"
    ELSE IF verdict = "vote_passed" /\ rec[r].tmpl.action = "none"
              /\ IsNewProject(r) /\ ~rec[r].tmpl.pending THEN "executed"
    ELSE now

\* The project of a close-project proposal that failed its vote.
ReopenedProject(r, verdict) ==
    IF verdict = "vote_failed" /\ IsClosing(r) /\ ProjectIsClosing(r)
    THEN [project EXCEPT ![rec[rec[r].target].sip] = "close_failed"] ELSE project

\* The poll was seen closed: verdict and automation, unless the proposal is final
\* or already waits for its execution.  The state is looked at here and not again
\* before the verdict is written.
Settle(by, r) ==
    IF rec[r].state \in FinStates \cup {"pending_execution"} THEN UNCHANGED ops
    ELSE Hold(by, r, "verdict", Verdict(rec[r].tmpl, poll[rec[r].thread].result))

\* The service writes the verdict, and goes on unless the proposal is final now.
WriteVerdict(o) ==
    /\ o.by = "http" /\ o.step = "verdict"
    /\ rec' = [rec EXCEPT ![o.rcd].state = o.state]
    /\ IF o.state \in FinStates THEN Release(o) ELSE Advance(o, "follow", o.state)
    /\ UNCHANGED <<vote, poll, jobs, inflight, reqs, project, passed>>

\* The automation: a job and, later, the state pending_execution; or a last state.
\* A new project is marked as automated before its job is created, which may fail.
Automate(o) ==
    LET r == o.rcd IN
    /\ o.step = "follow"
    /\ IF GetsJob(r, o.state)
       THEN /\ rec' = [rec EXCEPT ![r].auto = @ \/ rec[r].tmpl.action = "none"]
            /\ \/ jobs' = WithJob(r) /\ Advance(o, "write", "pending_execution")
               \/ UNCHANGED jobs /\ Release(o)
       ELSE /\ rec' = [rec EXCEPT ![r].state = FollowUp(r, o.state, @)]
            /\ Release(o)
            /\ UNCHANGED jobs
    /\ project' = ReopenedProject(r, o.state)
    /\ UNCHANGED <<vote, poll, inflight, reqs, passed>>

\* The refresh job does all that in one transaction, which an error rolls back.
CommitRefresh(o) ==
    LET r == o.rcd IN
    /\ o.by = "task" /\ o.step = "verdict"
    /\ ~FollowUpFails(r, o.state)
    /\ IF vote[r] = "none" THEN UNCHANGED vote ELSE SaveStatus(r, "close")
    /\ rec' = [rec EXCEPT ![r].state = FollowUp(r, o.state, o.state),
                          ![r].auto = @ \/ (GetsJob(r, o.state) /\ rec[r].tmpl.action = "none")]
    /\ jobs' = IF GetsJob(r, o.state) THEN WithJob(r) ELSE jobs
    /\ project' = ReopenedProject(r, o.state)
    /\ Release(o)
    /\ UNCHANGED <<poll, inflight, reqs, passed>>

\* A fetched thread has a poll status that differs from the saved one.
Changed(r) ==
    /\ rec[r].thread # 0
    /\ vote[r] # "none"
    /\ vote[r] # poll[rec[r].thread].status

\* Outside a transaction: when the lock of the proposal is busy, or on an error, the
\* status has been saved and the rest is not done.
Fetch(r) ==
    LET s == poll[rec[r].thread].status IN
    /\ Changed(r)
    /\ SaveStatus(r, s)
    /\ IF s = "open" THEN OpenVoting(r) ELSE UNCHANGED rec
    /\ (s = "close" /\ Settle("http", r)) \/ UNCHANGED ops
    /\ UNCHANGED <<poll, jobs, inflight, project, passed>>

\* GET /proposals/:id and the closing of a vote.
Detail(r) == Fetch(r) /\ UNCHANGED reqs

\* Create and update answer with the details of the proposal, fetched again.
Respond(q) ==
    /\ q.stage = "respond"
    /\ reqs' = Drop(q)
    /\ \/ Fetch(q.rcd)
       \/ ~Changed(q.rcd) /\ UNCHANGED <<rec, vote, poll, jobs, inflight, ops, project, passed>>

\* The latest version of a published proposal.
Latest(r) ==
    /\ rec[r].thread # 0
    /\ \A q \in Records : rec[q].thread = rec[r].thread => rec[q].ver <= rec[r].ver

\* The refresh job visits the latest versions in draft or voting, each in a
\* transaction that an error rolls back: of one that settles a vote nothing is seen
\* before it commits.
Refresh(r) ==
    LET s == poll[rec[r].thread].status IN
    /\ rec[r].state \in {"draft", "voting"}
    /\ Latest(r)
    /\ Changed(r)
    /\ IF s = "close" THEN Settle("task", r) /\ UNCHANGED <<rec, vote>>
       ELSE /\ SaveStatus(r, s)
            /\ IF s = "open" THEN OpenVoting(r) ELSE UNCHANGED rec
            /\ UNCHANGED ops
    /\ UNCHANGED <<poll, jobs, inflight, reqs, project, passed>>

----
(* The task manager *)

\* A due job is handed to its handler; the row stays active until the handler runs.
Dispatch(r, k) ==
    /\ jobs[r][k] = "active"
    /\ inflight' = inflight \cup {<<r, k>>}
    /\ UNCHANGED <<rec, vote, poll, jobs, reqs, ops, project, passed>>

Runs(r, k) == <<r, k>> \in inflight /\ inflight' = inflight \ {<<r, k>>}

\* update_proposal_state to approved: fails when the proposal has a SIP already or
\* when its lock is busy.  The job is done either way and never tried again.
RunApprove(r) ==
    /\ Runs(r, "approve")
    /\ jobs' = Finish(jobs, r, "approve", "done")
    /\ StartApproval("task", r) \/ UNCHANGED <<rec, ops>>
    /\ UNCHANGED <<vote, poll, reqs, project, passed>>

\* update_proposal_state to executed, from whatever state the proposal is in; when
\* the lock is busy or the project cannot be created the proposal keeps its state.
\* The project is committed before the state.
RunExecute(r) ==
    /\ Runs(r, "execute")
    /\ jobs' = Finish(jobs, r, "execute", "done")
    /\ \/ project' = WithProject(r, rec[r].sip) /\ Hold("task", r, "write", "executed")
       \/ UNCHANGED <<project, ops>>
    /\ UNCHANGED <<rec, vote, poll, reqs, passed>>

\* The veto of the target, in whatever state it is, without its lock.  Its jobs are
\* deleted outside the transaction that vetoes it: when that is rolled back, as it
\* always is for a close-project target, the jobs are gone.  The state of the veto
\* proposal itself is written last, and may be lost.  The transaction writes the row of
\* the target before the deletion and keeps it locked, so both are one step for others.
RunVeto(r) ==
    LET v == rec[r].target IN
    /\ Runs(r, "veto")
    /\ v # 0
    /\ \E deleted, vetoed, marked \in BOOLEAN :
          /\ vetoed => deleted /\ ~IsClosing(v)
          /\ jobs' = Finish(IF deleted THEN DeleteJobs(jobs, v) ELSE jobs, r, "veto", "done")
          /\ rec' = [q \in Records |->
                       [rec[q] EXCEPT !.state =
                          IF q = r /\ marked THEN IF vetoed THEN "executed" ELSE "execution_failed"
                          ELSE IF q = v /\ vetoed THEN "vetoed" ELSE @]]
    /\ UNCHANGED <<vote, poll, reqs, ops, project, passed>>

\* An update of the project with SIP s, which may not exist.
MarkProject(s, status) ==
    [project EXCEPT ![s] = IF @ = "none" THEN @ ELSE status]

\* The reward of a motivation component; it ends with the project closed and the
\* proposal executed, with both marked as failed or, outside a season, with nothing.
RunMotivation(r) ==
    LET s == rec[r].sip IN
    /\ Runs(r, "motivation")
    /\ jobs' = Finish(jobs, r, "motivation", "done")
    /\ \/ \E ok \in BOOLEAN :
            /\ rec' = [rec EXCEPT ![r].state = IF ok THEN "executed" ELSE "execution_failed"]
            /\ project' = MarkProject(s, IF ok THEN "closed" ELSE "close_failed")
       \/ UNCHANGED <<rec, project>>
    /\ UNCHANGED <<vote, poll, reqs, ops, passed>>

\* The close-project component closes its project and leaves the proposal alone.
RunCloseProject(r) ==
    /\ Runs(r, "close_project")
    /\ jobs' = Finish(jobs, r, "close_project", "done")
    /\ project' = MarkProject(rec[rec[r].target].sip, "closed")
    /\ UNCHANGED <<rec, vote, poll, reqs, ops, passed>>

\* A handler name the dispatcher does not know.
RunUnknown(r) ==
    /\ Runs(r, "unknown")
    /\ jobs' = Finish(jobs, r, "unknown", "terminated")
    /\ rec' = [rec EXCEPT ![r].state = "executed"]
    /\ UNCHANGED <<vote, poll, reqs, ops, project, passed>>

RunJob(r) ==
    \/ RunApprove(r) \/ RunExecute(r) \/ RunVeto(r)
    \/ RunMotivation(r) \/ RunCloseProject(r) \/ RunUnknown(r)

\* The process stops: requests, dispatched jobs and operations are lost, the rows stay.
Restart ==
    /\ reqs # {} \/ inflight # {} \/ ops # {}
    /\ reqs' = {}
    /\ inflight' = {}
    /\ ops' = {}
    /\ UNCHANGED <<rec, vote, poll, jobs, project, passed>>

----

Editing ==
    \/ \E t \in Offered, p \in Records \cup {0}, publish \in BOOLEAN : Create(t, p, publish)
    \/ \E r \in Records, p \in Records \cup {0} : CheckUpdate(r, p)
    \/ \E q \in reqs : \/ \E publish \in BOOLEAN : SaveUpdate(q, publish)
                       \/ SaveUpdateFails(q)
                       \/ CloseLinkedProject(q)
                       \/ Publish(q)
                       \/ Republish(q)
                       \/ PublishFails(q)
                       \/ ScheduleApproval(q)
                       \/ ApproveAtOnce(q)
                       \/ Respond(q)
                       \/ RequestFails(q)

Deciding == \E r \in Records : Approve(r) \/ Withdraw(r) \/ Reject(r)

Forum ==
    \E t \in Records :
        \/ StartPasses(t)
        \/ PollOpens(t)
        \/ \E result \in {"pass", "fail"} : PollCloses(t, result)

Watching == \E r \in Records : Detail(r) \/ Refresh(r)

Operations ==
    \E o \in ops :
        \/ Launch(o) \/ WriteState(o) \/ WriteVerdict(o) \/ Automate(o) \/ CommitRefresh(o)
        \/ OperationFails(o)

Tasks ==
    \/ \E r \in Records, k \in JobKinds : Dispatch(r, k)
    \/ \E r \in Records : RunJob(r)
    \/ Restart

Next == Editing \/ Deciding \/ Operations \/ Forum \/ Watching \/ Tasks

Spec == Init /\ [][Next]_vars

----
(* Properties *)

\* A SIP is given once: no later version, approval, poll or job changes it.
SipIsStable == [][\A r \in Records : rec[r].sip # 0 => rec'[r].sip = rec[r].sip]_vars

\* A voted proposal waits for execution, or is executed, only if the poll of its
\* thread did close with a passing result.
ExecutedAfterPassing ==
    \A r \in Records :
        rec[r].state \in {"pending_execution", "executed"} /\ HasPoll(rec[r].tmpl)
            => rec[r].thread \in passed

\* A voted proposal gets the job that will execute it only after the poll of its thread
\* did close with a passing result, even when a vote result is still being applied while
\* the proposal is taken back, published again or refreshed.
JobAfterPassing ==
    \A r \in Records, k \in JobKinds \ {"approve"} :
        HasPoll(rec[r].tmpl) /\ (jobs[r][k] # "none" \/ <<r, k>> \in inflight)
            => rec[r].thread \in passed

\* An execution of r, or what may lead to one, was begun and not ended: one of its jobs
\* is in the hands of a goroutine, or an operation has more to do than to write that the
\* proposal is withdrawn or rejected.
UnderWay(r) ==
    \/ \E k \in JobKinds \ {"approve"} : <<r, k>> \in inflight
    \/ \E o \in ops : o.rcd = r /\ ~(o.step = "write" /\ o.state \in {"withdrawn", "rejected"})

CanBeExecuted(r) == \E k \in JobKinds \ {"approve"} : jobs[r][k] # "none"

\* A vetoed proposal with a SIP stays vetoed until it is taken back or published again,
\* and no vote, approval or job of it is begun: only what was under way when the veto
\* ran, which has looked at the state before, can overwrite the veto.
VetoHolds ==
    [][\A r \in Records :
        rec[r].state = "vetoed" /\ rec[r].sip # 0 /\ ~UnderWay(r) /\ ~CanBeExecuted(r) =>
            \/ rec'[r].state = "vetoed" /\ ~UnderWay(r)'
            \/ rec'[r].state \in {"withdrawn", "rejected", "draft"}]_vars

\* A veto of a proposal with a SIP leaves no job that could execute it, and none is added
\* to a vetoed proposal, unless a vote result was under way when the veto ran.
VetoCancelsJobs ==
    [][\A r \in Records :
        /\ rec'[r].state = "vetoed" /\ rec[r].sip # 0 /\ ~UnderWay(r)
        /\ rec[r].state = "vetoed" => ~CanBeExecuted(r)
        => ~CanBeExecuted(r)']_vars

\* A project proposal without a vote is executed under a SIP, and its project exists:
\* whichever of the approval and the two jobs comes to execute it.
ExecutedHasProject ==
    \A r \in Records :
        IsNewProject(r) /\ ~HasPoll(rec[r].tmpl) /\ rec[r].state = "executed" =>
            rec[r].sip # 0 /\ project[rec[r].sip] # "none"

\* A passed proposal with a motivation component closes the project that has its own
\* SIP, one with a close-project component the project it names.
ClosesProject(r, s) ==
    \/ rec[r].tmpl.action = "motivation" /\ rec[r].sip = s
    \/ rec[r].tmpl.action = "close_project" /\ rec[rec[r].target].sip = s

\* A numbered project is closed only after a proposal that closes it has passed its
\* vote, whatever was changed in the proposal and in its target meanwhile.
ClosedAfterPassing ==
    \A s \in Sips \ {0} :
        project[s] = "closed" => \E r \in Records : /\ HasPoll(rec[r].tmpl)
                                                    /\ rec[r].thread \in passed
                                                    /\ ClosesProject(r, s)

\* A final state is final: no more actions are performed on the proposal.
FinalIsFinal ==
    [][\A r \in Records : rec[r].state \in FinStates => rec'[r].state = rec[r].state]_vars

\* A rejected close-project proposal can be edited and submitted again.
RejectedCanBeResubmitted ==
    \A r \in Records :
        rec[r].state = "rejected" /\ IsClosing(r) /\ vote[r] # "none" => CanBeClosed(rec[r].target)

\* A veto is never overwritten, whatever was under way when it ran.
VetoIsFinal ==
    [][\A r \in Records :
        rec[r].state = "vetoed" /\ rec[r].sip # 0
            => rec'[r].state \notin {"voting", "vote_passed", "pending_execution", "executed"}]_vars

\* The next state of a proposal that waits for its execution is launched by a cron job,
\* which is there and still to run, unless something that will change it is under way.
PendingHasJob ==
    \A r \in Records :
        rec[r].state = "pending_execution" =>
            \/ \E k \in JobKinds : jobs[r][k] = "active" \/ <<r, k>> \in inflight
            \/ \E o \in ops : o.rcd = r

\* A job that has run leaves its proposal executed or marked as failed, not pending.
ExecutionEndsPending ==
    \A r \in Records, k \in JobKinds \ {"approve"} :
        jobs[r][k] = "done" /\ (\A o \in ops : o.rcd # r) => rec[r].state # "pending_execution"

\* A proposal without a vote creates its project once, whichever of the approval, the
\* jobs and a later version of the proposal come to execute it.
ProjectCreatedOnce ==
    \A r \in Records :
        IsNewProject(r) /\ ~HasPoll(rec[r].tmpl) /\ rec[r].sip # 0
            => project[rec[r].sip] # "twice"

\* No two projects are created with the same SIP.
ProjectIsUnique == \A s \in Sips \ {0} : project[s] # "twice"
====
