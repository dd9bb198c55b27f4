---- MODULE ProposalLifecycleProofs ----
(***************************************************************************)
(* Theorems about ProposalLifecycle, for every set of rows and templates   *)
(* and every bound.                                                        *)
(***************************************************************************)
EXTENDS ProposalLifecycle, TLAPS

USE RecordsAssumption, TemplatesAssumption, BoundsAssumption, SeedAssumption

\* The initial rows are rows.
LEMMA InitialRows == NoRow \in Row /\ (Seeded => SeedRow \in Row)
<1>1. NoRow \in Row
  BY DEF NoRow, Row, Sips
<1>2. ASSUME Seeded PROVE SeedRow \in Row
  <2>1. SeedTemplate \in Templates
    BY <1>2 DEF SeedTemplate
  <2>2. 1 \in Sips /\ 1 \in Records
    BY <1>2 DEF Sips
  <2>3. QED
    BY <1>1, <2>1, <2>2 DEF SeedRow, Row, ProposalStates
<1>3. QED
  BY <1>1, <1>2

LEMMA InitTypeOK == Init => TypeOK
BY InitialRows DEF Init, TypeOK, NoJob, JobStates, PollStatus, ProjectStates, Sips

\* What the actions change in the tables.
LEMMA StateUpdates ==
    ASSUME TypeOK, NEW r \in Records, NEW s \in ProposalStates
    PROVE  [rec EXCEPT ![r].state = s] \in [Records -> Row]
<1>1. rec[r] \in Row
  BY DEF TypeOK
<1>2. [rec[r] EXCEPT !.state = s] \in Row
  BY <1>1 DEF Row
<1>3. QED
  BY <1>2 DEF TypeOK

LEMMA PollUpdates ==
    ASSUME TypeOK, NEW t \in Records, NEW s \in PollStatus
    PROVE  [poll EXCEPT ![t].status = s]
             \in [Records -> [status: PollStatus, result: {"none", "pass", "fail"}]]
BY DEF TypeOK

LEMMA RequestUpdates ==
    ASSUME TypeOK, NEW q \in reqs, NEW stage \in Stages
    PROVE  Continue(q, stage) \subseteq Request
BY DEF TypeOK, Continue, Request

\* What taking a lock and going on with an operation makes of the operations.
LEMMA OperationUpdates ==
    ASSUME TypeOK
    PROVE  /\ \A by \in {"http", "task"}, r \in Records, state \in ProposalStates,
                 step \in {"verdict", "follow", "launch", "write"} :
                Hold(by, r, step, state) => ops' \subseteq Operation
           /\ \A o \in ops, state \in ProposalStates, step \in {"follow", "write"} :
                Advance(o, step, state) => ops' \subseteq Operation
           /\ \A o \in ops : Release(o) => ops' \subseteq Operation
           /\ \A o \in ops : o.rcd \in Records /\ o.state \in ProposalStates
<1>1. ASSUME NEW by \in {"http", "task"}, NEW r \in Records, NEW state \in ProposalStates,
             NEW step \in {"verdict", "follow", "launch", "write"}, Hold(by, r, step, state)
      PROVE  ops' \subseteq Operation
  BY <1>1 DEF TypeOK, Hold, Operation
<1>2. ASSUME NEW o \in ops, NEW state \in ProposalStates, NEW step \in {"follow", "write"},
             Advance(o, step, state)
      PROVE  ops' \subseteq Operation
  BY <1>2 DEF TypeOK, Advance, Operation
<1>3. ASSUME NEW o \in ops
      PROVE  /\ Release(o) => ops' \subseteq Operation
             /\ o.rcd \in Records /\ o.state \in ProposalStates
  BY DEF TypeOK, Release, Operation
<1>4. QED
  BY <1>1, <1>2, <1>3

LEMMA CreateType ==
    ASSUME TypeOK, NEW t \in Offered, NEW p \in Records \cup {0}, NEW publish \in BOOLEAN,
           Create(t, p, publish)
    PROVE  TypeOK'
<1>1. PICK r \in Records : Create(t, p, publish)!(r)
  BY DEF Create
<1>2. [NoRow EXCEPT !.state = "pending_submit", !.tmpl = t, !.target = p, !.ver = 1] \in Row
  <2>1. NoRow \in Row
    BY InitialRows
  <2>2. QED
    BY <2>1 DEF Row, ProposalStates
<1>3. rec' \in [Records -> Row]
  BY <1>1, <1>2 DEF TypeOK
<1>4. vote' \in [Records -> PollStatus \cup {"new"}]
  BY <1>1 DEF TypeOK, PollStatus
<1>5. reqs' \subseteq Request
  BY <1>1 DEF TypeOK, Begin, FirstStage, Request, Stages
<1>6. QED
  BY <1>1, <1>3, <1>4, <1>5 DEF TypeOK

LEMMA CheckUpdateType ==
    ASSUME TypeOK, NEW r \in Records, NEW p \in Records \cup {0}, CheckUpdate(r, p)
    PROVE  TypeOK'
BY DEF TypeOK, CheckUpdate, Begin, Request, Stages

LEMMA SaveUpdateType ==
    ASSUME TypeOK, NEW q \in reqs, NEW publish \in BOOLEAN, SaveUpdate(q, publish)
    PROVE  TypeOK'
<1>1. q \in Request /\ q.rcd \in Records /\ q.target \in Records \cup {0}
  BY DEF TypeOK, Request
<1>2. CASE rec[q.rcd].state = "pending_submit"
  <2>1. rec' = [rec EXCEPT ![q.rcd].target = q.target] /\ vote' = vote
    BY <1>2 DEF SaveUpdate
  <2>2. rec' \in [Records -> Row]
    <3>1. rec[q.rcd] \in Row
      BY <1>1 DEF TypeOK
    <3>2. [rec[q.rcd] EXCEPT !.target = q.target] \in Row
      BY <1>1, <3>1 DEF Row
    <3>3. QED
      BY <2>1, <3>2 DEF TypeOK
  <2>3. (IF publish THEN FirstStage(rec[q.rcd].tmpl) ELSE "respond") \in Stages
    BY DEF FirstStage, Stages
  <2>4. reqs' \subseteq Request
    BY <1>2, <2>3, RequestUpdates DEF SaveUpdate
  <2>5. QED
    BY <2>1, <2>2, <2>4 DEF TypeOK, SaveUpdate
<1>3. CASE rec[q.rcd].state # "pending_submit"
  <2>1. PICK n \in Records :
          /\ rec' = [rec EXCEPT ![n] = [rec[q.rcd] EXCEPT !.state = "draft", !.ver = @ + 1,
                                                          !.target = q.target, !.auto = FALSE]]
          /\ vote' = [vote EXCEPT ![q.rcd] = "none",
                                  ![n] = IF HasPoll(rec[q.rcd].tmpl) /\ vote[q.rcd] = "none"
                                         THEN "new" ELSE vote[q.rcd]]
          /\ reqs' = Drop(q) \cup
                 {[q EXCEPT !.rcd = n,
                            !.stage = IF publish THEN FirstStage(rec[q.rcd].tmpl) ELSE "respond"]}
    BY <1>3 DEF SaveUpdate
  <2>2. [rec[q.rcd] EXCEPT !.state = "draft", !.ver = @ + 1, !.target = q.target, !.auto = FALSE] \in Row
    <3>1. rec[q.rcd] \in Row
      BY <1>1 DEF TypeOK
    <3>2. rec[q.rcd].ver + 1 \in Nat
      BY <3>1 DEF Row
    <3>3. QED
      BY <1>1, <3>1, <3>2 DEF Row, ProposalStates
  <2>3. rec' \in [Records -> Row]
    BY <2>1, <2>2 DEF TypeOK
  <2>4. vote' \in [Records -> PollStatus \cup {"new"}]
    BY <1>1, <2>1 DEF TypeOK, PollStatus
  <2>5. reqs' \subseteq Request
    BY <1>1, <2>1 DEF TypeOK, Drop, FirstStage, Request, Stages
  <2>6. QED
    BY <2>3, <2>4, <2>5 DEF TypeOK, SaveUpdate
<1>4. QED
  BY <1>2, <1>3

LEMMA SaveUpdateFailsType ==
    ASSUME TypeOK, NEW q \in reqs, SaveUpdateFails(q)
    PROVE  TypeOK'
<1>1. q.rcd \in Records
  BY DEF TypeOK, Request
<1>2. PICK n \in Records :
        rec' = [rec EXCEPT ![n] = [rec[q.rcd] EXCEPT !.state = "draft", !.ver = @ + 1, !.auto = FALSE]]
  BY DEF SaveUpdateFails
<1>3. [rec[q.rcd] EXCEPT !.state = "draft", !.ver = @ + 1, !.auto = FALSE] \in Row
  <2>1. rec[q.rcd] \in Row
    BY <1>1 DEF TypeOK
  <2>2. rec[q.rcd].ver + 1 \in Nat
    BY <2>1 DEF Row
  <2>3. QED
    BY <2>1, <2>2 DEF Row, ProposalStates
<1>4. QED
  BY <1>2, <1>3 DEF TypeOK, SaveUpdateFails, Drop

LEMMA CloseLinkedProjectType ==
    ASSUME TypeOK, NEW q \in reqs, CloseLinkedProject(q)
    PROVE  TypeOK'
<1>1. reqs' \subseteq Request
  BY DEF TypeOK, CloseLinkedProject, Continue, Request, Stages
<1>2. QED
  BY <1>1 DEF TypeOK, CloseLinkedProject, ProjectStates

LEMMA AfterSubmitType ==
    ASSUME TypeOK, NEW q \in reqs
    PROVE  AfterSubmit(q) \subseteq Request
BY DEF TypeOK, AfterSubmit, Continue, Request, Stages

LEMMA PublishType ==
    ASSUME TypeOK, NEW q \in reqs, Publish(q)
    PROVE  TypeOK'
<1>1. q.rcd \in Records
  BY DEF TypeOK, Request
<1>2. rec' \in [Records -> Row]
  <2> DEFINE b == ~rec[q.rcd].tmpl.publicity
  <2>1. b \in BOOLEAN
    OBVIOUS
  <2>2. rec' = [rec EXCEPT ![q.rcd] = [rec[q.rcd] EXCEPT !.state = "draft", !.thread = q.rcd, !.started = b]]
    BY DEF Publish
  <2> HIDE DEF b
  <2>3. rec[q.rcd] \in Row /\ "draft" \in ProposalStates
    BY <1>1 DEF TypeOK, ProposalStates
  <2>4. [rec[q.rcd] EXCEPT !.state = "draft", !.thread = q.rcd, !.started = b] \in Row
    BY <1>1, <2>1, <2>3 DEF Row
  <2>5. QED
    BY <1>1, <2>2, <2>4 DEF TypeOK
<1>3. reqs' \subseteq Request
  BY AfterSubmitType DEF Publish
<1>4. poll' \in [Records -> [status: PollStatus, result: {"none", "pass", "fail"}]]
  BY <1>1 DEF TypeOK, Publish, PollStatus
<1>5. vote' \in [Records -> PollStatus \cup {"new"}]
  BY <1>1 DEF TypeOK, Publish, PollStatus
<1>6. QED
  BY <1>2, <1>3, <1>4, <1>5 DEF TypeOK, Publish

LEMMA PublishFailsType ==
    ASSUME TypeOK, NEW q \in reqs, PublishFails(q)
    PROVE  TypeOK'
<1>1. q.rcd \in Records /\ rec[q.rcd] \in Row
  BY DEF TypeOK, Request
<1>2. reqs' \subseteq Request
  BY DEF PublishFails, Drop, TypeOK
<1>3. CASE rec[q.rcd].thread = 0
  <2> DEFINE b == ~rec[q.rcd].tmpl.publicity
  <2>1. b \in BOOLEAN
    OBVIOUS
  <2>2. /\ rec' = [rec EXCEPT ![q.rcd] = [rec[q.rcd] EXCEPT !.state = "draft", !.thread = q.rcd, !.started = b]]
        /\ poll' = [poll EXCEPT ![q.rcd].status = "wait"]
    BY <1>3 DEF PublishFails
  <2> HIDE DEF b
  <2>3. [rec[q.rcd] EXCEPT !.state = "draft", !.thread = q.rcd, !.started = b] \in Row
    BY <1>1, <2>1 DEF Row, ProposalStates
  <2>4. rec' \in [Records -> Row]
    BY <1>1, <2>2, <2>3 DEF TypeOK
  <2>5. poll' \in [Records -> [status: PollStatus, result: {"none", "pass", "fail"}]]
    BY <1>1, <2>2, PollUpdates DEF PollStatus
  <2>6. QED
    BY <1>2, <2>4, <2>5 DEF PublishFails, TypeOK
<1>4. CASE rec[q.rcd].thread # 0
  <2>1. rec' = rec /\ poll' = [poll EXCEPT ![rec[q.rcd].thread].status = "wait"]
    BY <1>4 DEF PublishFails
  <2>2. rec[q.rcd].thread \in Records
    BY <1>1, <1>4 DEF Row
  <2>3. poll' \in [Records -> [status: PollStatus, result: {"none", "pass", "fail"}]]
    BY <2>1, <2>2, PollUpdates DEF PollStatus
  <2>4. QED
    BY <1>2, <2>1, <2>3 DEF PublishFails, TypeOK
<1>5. QED
  BY <1>3, <1>4

LEMMA RepublishType ==
    ASSUME TypeOK, NEW q \in reqs, Republish(q)
    PROVE  TypeOK'
<1>1. q.rcd \in Records /\ rec[q.rcd].thread \in Records
  BY DEF TypeOK, Request, Republish, Row
<1>2. rec' \in [Records -> Row]
  BY <1>1, StateUpdates DEF Republish, ProposalStates
<1>3. reqs' \subseteq Request
  BY AfterSubmitType DEF Republish
<1>4. poll' \in [Records -> [status: PollStatus, result: {"none", "pass", "fail"}]]
  <2>1. CASE vote[q.rcd] = "none"
    BY <2>1 DEF Republish, TypeOK
  <2>2. CASE vote[q.rcd] # "none"
    <3>1. poll' = [poll EXCEPT ![rec[q.rcd].thread].status = "wait"]
      BY <2>2 DEF Republish
    <3>2. QED
      BY <1>1, <3>1, PollUpdates DEF PollStatus
  <2>3. QED
    BY <2>1, <2>2
<1>5. vote' \in [Records -> PollStatus \cup {"new"}]
  BY <1>1 DEF TypeOK, Republish, PollStatus
<1>6. QED
  BY <1>2, <1>3, <1>4, <1>5 DEF TypeOK, Republish

LEMMA ScheduleApprovalType ==
    ASSUME TypeOK, NEW q \in reqs, ScheduleApproval(q)
    PROVE  TypeOK'
<1>1. q.rcd \in Records
  BY DEF TypeOK, Request
<1>2. reqs' \subseteq Request
  BY RequestUpdates DEF ScheduleApproval, Stages
<1>3. rec' \in [Records -> Row]
  <2>1. rec[q.rcd] \in Row
    BY <1>1 DEF TypeOK
  <2>2. [rec[q.rcd] EXCEPT !.auto = TRUE] \in Row
    BY <2>1 DEF Row
  <2>3. QED
    BY <1>1, <2>2 DEF ScheduleApproval, TypeOK
<1>4. jobs' \in [Records -> [JobKinds -> JobStates]]
  BY <1>1 DEF ScheduleApproval, AddJob, TypeOK, JobKinds, JobStates
<1>5. QED
  BY <1>2, <1>3, <1>4 DEF ScheduleApproval, TypeOK

LEMMA RequestFailsType ==
    ASSUME TypeOK, NEW q \in reqs, RequestFails(q)
    PROVE  TypeOK'
BY DEF TypeOK, RequestFails, Drop

\* The effect of an approval, whoever asks for it.
LEMMA StartApprovalType ==
    ASSUME TypeOK, NEW r \in Records, NEW by \in {"http", "task"}, StartApproval(by, r)
    PROVE  rec' \in [Records -> Row] /\ ops' \subseteq Operation
<1>1. PICK s \in Sips : rec' = [rec EXCEPT ![r].sip = s, ![r].state = "voting"]
  BY DEF StartApproval
<1>2. rec' = [rec EXCEPT ![r] = [rec[r] EXCEPT !.sip = s, !.state = "voting"]] /\ rec[r] \in Row
  BY <1>1 DEF TypeOK
<1>3. [rec[r] EXCEPT !.sip = s, !.state = "voting"] \in Row
  BY <1>2 DEF Row, ProposalStates
<1>4. ops' \subseteq Operation
  <2>1. "voting" \in ProposalStates
    BY DEF ProposalStates
  <2>2. QED
    BY <2>1, OperationUpdates DEF StartApproval
<1>5. QED
  BY <1>2, <1>3, <1>4 DEF TypeOK

LEMMA ApproveType ==
    ASSUME TypeOK, NEW r \in Records, Approve(r)
    PROVE  TypeOK'
BY StartApprovalType DEF Approve, TypeOK

LEMMA ApproveAtOnceType ==
    ASSUME TypeOK, NEW q \in reqs, ApproveAtOnce(q)
    PROVE  TypeOK'
<1>1. q.url \in Records
  BY DEF TypeOK, Request
<1>2. reqs' \subseteq Request
  BY RequestUpdates DEF ApproveAtOnce, Stages
<1>3. QED
  BY <1>1, <1>2, StartApprovalType DEF ApproveAtOnce, TypeOK

LEMMA TakeBackType ==
    ASSUME TypeOK, NEW r \in Records, NEW state \in {"withdrawn", "rejected"}, TakeBack(r, state)
    PROVE  TypeOK'
<1>1. ops' \subseteq Operation
  <2>1. state \in ProposalStates
    BY DEF ProposalStates
  <2>2. QED
    BY <2>1, OperationUpdates DEF TakeBack
<1>2. jobs' \in [Records -> [JobKinds -> JobStates]]
  BY DEF TakeBack, DeleteJobs, NoJob, TypeOK, JobStates
<1>3. poll' \in [Records -> [status: PollStatus, result: {"none", "pass", "fail"}]]
  BY DEF TakeBack, TypeOK, PollStatus
<1>4. QED
  BY <1>1, <1>2, <1>3 DEF TakeBack, TypeOK

LEMMA StartPassesType ==
    ASSUME TypeOK, NEW t \in Records, StartPasses(t)
    PROVE  TypeOK'
<1>1. rec' \in [Records -> Row]
  <2>1. ASSUME NEW r \in Records
        PROVE  [rec[r] EXCEPT !.started = @ \/ rec[r].thread = t] \in Row
    <3>1. rec[r] \in Row
      BY DEF TypeOK
    <3>2. (rec[r].started \/ rec[r].thread = t) \in BOOLEAN
      OBVIOUS
    <3>3. QED
      BY <3>1, <3>2 DEF Row
  <2>2. QED
    BY <2>1 DEF StartPasses
<1>2. QED
  BY <1>1 DEF StartPasses, TypeOK

LEMMA ForumType ==
    ASSUME TypeOK, NEW t \in Records,
           StartPasses(t) \/ PollOpens(t) \/ \E result \in {"pass", "fail"} : PollCloses(t, result)
    PROVE  TypeOK'
<1>1. CASE PollOpens(t)
  BY <1>1 DEF PollOpens, TypeOK, PollStatus
<1>2. CASE \E result \in {"pass", "fail"} : PollCloses(t, result)
  BY <1>2 DEF PollCloses, TypeOK, PollStatus
<1>3. QED
  BY <1>1, <1>2, StartPassesType

\* The effect of a poll whose status changed, whoever fetches it.
LEMMA SaveStatusType ==
    ASSUME TypeOK, NEW r \in Records, NEW s \in PollStatus, SaveStatus(r, s)
    PROVE  vote' \in [Records -> PollStatus \cup {"new"}]
BY DEF SaveStatus, TypeOK

LEMMA OpenVotingType ==
    ASSUME TypeOK, NEW r \in Records, OpenVoting(r)
    PROVE  rec' \in [Records -> Row]
<1>1. CASE UNCHANGED rec
  BY <1>1 DEF TypeOK
<1>2. ASSUME NEW s \in Sips, rec' = [rec EXCEPT ![r].sip = s, ![r].state = "voting"]
      PROVE  rec' \in [Records -> Row]
  <2>1. rec[r] \in Row
    BY DEF TypeOK
  <2>2. [rec[r] EXCEPT !.sip = s, !.state = "voting"] \in Row
    BY <2>1 DEF Row, ProposalStates
  <2>3. QED
    BY <1>2, <2>2 DEF TypeOK
<1>3. QED
  BY <1>1, <1>2 DEF OpenVoting

LEMMA VerdictType ==
    ASSUME NEW t, NEW result
    PROVE  Verdict(t, result) \in ProposalStates
BY DEF Verdict, ProposalStates

LEMMA FollowUpType ==
    ASSUME NEW r \in Records, NEW verdict \in ProposalStates, NEW now \in ProposalStates \cup {"unused"}
    PROVE  FollowUp(r, verdict, now) \in ProposalStates \cup {now}
BY DEF FollowUp, ProposalStates

LEMMA SettleType ==
    ASSUME TypeOK, NEW r \in Records, NEW by \in {"http", "task"}, Settle(by, r)
    PROVE  ops' \subseteq Operation
<1>1. CASE UNCHANGED ops
  BY <1>1 DEF TypeOK
<1>2. CASE Hold(by, r, "verdict", Verdict(rec[r].tmpl, poll[rec[r].thread].result))
  BY <1>2, VerdictType, OperationUpdates
<1>3. QED
  BY <1>1, <1>2 DEF Settle

LEMMA FetchType ==
    ASSUME TypeOK, NEW r \in Records, Fetch(r), reqs' \subseteq Request
    PROVE  TypeOK'
<1>1. rec[r].thread \in Records
  BY DEF Fetch, Changed, TypeOK, Row
<1>2. poll[rec[r].thread].status \in PollStatus
  BY <1>1 DEF TypeOK
<1>3. vote' \in [Records -> PollStatus \cup {"new"}]
  BY <1>2, SaveStatusType DEF Fetch
<1>4. rec' \in [Records -> Row]
  BY OpenVotingType DEF Fetch, TypeOK
<1>5. ops' \subseteq Operation
  BY SettleType DEF Fetch, TypeOK
<1>6. QED
  BY <1>3, <1>4, <1>5 DEF Fetch, TypeOK

LEMMA WatchingType ==
    ASSUME TypeOK, NEW r \in Records, Detail(r) \/ Refresh(r)
    PROVE  TypeOK'
<1>1. CASE Detail(r)
  BY <1>1, FetchType DEF Detail, TypeOK
<1>2. CASE Refresh(r)
  <2>1. rec[r].thread \in Records
    BY <1>2 DEF Refresh, Changed, TypeOK, Row
  <2>2. poll[rec[r].thread].status \in PollStatus
    BY <2>1 DEF TypeOK
  <2>3. vote' \in [Records -> PollStatus \cup {"new"}]
    BY <1>2, <2>2, SaveStatusType DEF Refresh, TypeOK
  <2>4. rec' \in [Records -> Row]
    BY <1>2, OpenVotingType DEF Refresh, TypeOK
  <2>5. ops' \subseteq Operation
    BY <1>2, SettleType DEF Refresh, TypeOK
  <2>6. QED
    BY <1>2, <2>3, <2>4, <2>5 DEF Refresh, TypeOK
<1>3. QED
  BY <1>1, <1>2

LEMMA RespondType ==
    ASSUME TypeOK, NEW q \in reqs, Respond(q)
    PROVE  TypeOK'
<1>1. q.rcd \in Records /\ reqs' \subseteq Request
  BY DEF TypeOK, Request, Respond, Drop
<1>2. CASE Fetch(q.rcd)
  BY <1>1, <1>2, FetchType
<1>3. CASE UNCHANGED <<rec, vote, poll, jobs, inflight, ops, project, passed>>
  BY <1>1, <1>3 DEF TypeOK
<1>4. QED
  BY <1>2, <1>3 DEF Respond

\* The parts of the operations.
LEMMA LaunchType ==
    ASSUME TypeOK, NEW o \in ops, Launch(o)
    PROVE  TypeOK'
<1> DEFINE r == o.rcd
           t == rec[r].tmpl
           state == IF HasPoll(t) THEN "voting" ELSE IF t.pending THEN "pending_execution" ELSE "executed"
           auto == rec[r].auto \/ state = "pending_execution"
<1>1. r \in Records /\ rec[r] \in Row /\ ops' \subseteq Operation
  BY OperationUpdates DEF TypeOK, Launch
<1>2. state \in ProposalStates /\ auto \in BOOLEAN
  BY DEF ProposalStates
<1>3. rec' = [rec EXCEPT ![r] = [rec[r] EXCEPT !.state = state, !.auto = auto]]
  BY <1>1 DEF Launch, TypeOK
<1>4. rec' \in [Records -> Row]
  <2> HIDE DEF state, auto
  <2>1. [rec[r] EXCEPT !.state = state, !.auto = auto] \in Row
    BY <1>1, <1>2 DEF Row
  <2>2. QED
    BY <1>1, <1>3, <2>1 DEF TypeOK
<1>5. jobs' \in [Records -> [JobKinds -> JobStates]]
  BY <1>1 DEF Launch, TypeOK, JobKinds, JobStates
<1>6. project' \in [Sips -> ProjectStates]
  BY <1>1 DEF Launch, WithProject, TypeOK, ProjectStates
<1>7. poll' \in [Records -> [status: PollStatus, result: {"none", "pass", "fail"}]]
  <2>1. CASE UNCHANGED poll
    BY <2>1 DEF TypeOK
  <2>2. CASE poll' = [poll EXCEPT ![rec[r].thread].status = "open"]
    BY <2>2 DEF TypeOK, PollStatus
  <2>3. QED
    BY <2>1, <2>2 DEF Launch
<1>8. QED
  BY <1>1, <1>4, <1>5, <1>6, <1>7 DEF Launch, TypeOK

LEMMA WriteType ==
    ASSUME TypeOK, NEW o \in ops, WriteState(o) \/ WriteVerdict(o) \/ OperationFails(o)
    PROVE  TypeOK'
<1>1. o.rcd \in Records /\ o.state \in ProposalStates
  BY OperationUpdates
<1>2. rec' \in [Records -> Row]
  BY <1>1, StateUpdates DEF WriteState, WriteVerdict, OperationFails, TypeOK
<1>3. ops' \subseteq Operation
  BY <1>1, OperationUpdates DEF WriteState, WriteVerdict, OperationFails
<1>4. QED
  BY <1>2, <1>3 DEF WriteState, WriteVerdict, OperationFails, TypeOK

LEMMA WithJobType ==
    ASSUME TypeOK, NEW r \in Records
    PROVE  WithJob(r) \in [Records -> [JobKinds -> JobStates]]
<1>1. rec[r].tmpl.action \in ActionKinds \cup {"none"}
  BY DEF TypeOK, Row, TemplateKinds
<1>2. QED
  BY <1>1 DEF WithJob, AddJob, TypeOK, JobKinds, JobStates

LEMMA ReopenedType ==
    ASSUME TypeOK, NEW r \in Records, NEW verdict
    PROVE  ReopenedProject(r, verdict) \in [Sips -> ProjectStates]
BY DEF ReopenedProject, TypeOK, ProjectStates

LEMMA AutomateType ==
    ASSUME TypeOK, NEW o \in ops, Automate(o)
    PROVE  TypeOK'
<1>1. o.rcd \in Records /\ o.state \in ProposalStates /\ rec[o.rcd] \in Row
  BY OperationUpdates DEF TypeOK
<1>2. project' \in [Sips -> ProjectStates]
  BY <1>1, ReopenedType DEF Automate
<1>3. jobs' \in [Records -> [JobKinds -> JobStates]]
  BY <1>1, WithJobType DEF Automate, TypeOK
<1>4. ops' \subseteq Operation
  <2>1. "pending_execution" \in ProposalStates
    BY DEF ProposalStates
  <2>2. QED
    BY <2>1, OperationUpdates DEF Automate
<1>5. CASE GetsJob(o.rcd, o.state)
  <2> DEFINE auto == rec[o.rcd].auto \/ rec[o.rcd].tmpl.action = "none"
  <2>1. auto \in BOOLEAN
    OBVIOUS
  <2>2. rec' = [rec EXCEPT ![o.rcd].auto = auto]
    BY <1>1, <1>5 DEF Automate, TypeOK
  <2> HIDE DEF auto
  <2>3. [rec[o.rcd] EXCEPT !.auto = auto] \in Row
    BY <1>1, <2>1 DEF Row
  <2>4. rec' \in [Records -> Row]
    BY <2>2, <2>3 DEF TypeOK
  <2>5. QED
    BY <1>2, <1>3, <1>4, <2>4 DEF Automate, TypeOK
<1>6. CASE ~GetsJob(o.rcd, o.state)
  <2> DEFINE last == FollowUp(o.rcd, o.state, rec[o.rcd].state)
  <2>1. rec' = [rec EXCEPT ![o.rcd].state = last]
    BY <1>1, <1>6 DEF Automate, TypeOK
  <2>2. last \in ProposalStates \cup {"unused"}
    BY <1>1, FollowUpType DEF Row
  <2> HIDE DEF last
  <2>3. [rec[o.rcd] EXCEPT !.state = last] \in Row
    BY <1>1, <2>2 DEF Row
  <2>4. rec' \in [Records -> Row]
    BY <2>1, <2>3 DEF TypeOK
  <2>5. QED
    BY <1>2, <1>3, <1>4, <2>4 DEF Automate, TypeOK
<1>7. QED
  BY <1>5, <1>6

LEMMA CommitRefreshType ==
    ASSUME TypeOK, NEW o \in ops, CommitRefresh(o)
    PROVE  TypeOK'
<1> DEFINE last == FollowUp(o.rcd, o.state, o.state)
           auto == rec[o.rcd].auto \/ (GetsJob(o.rcd, o.state) /\ rec[o.rcd].tmpl.action = "none")
<1>1. o.rcd \in Records /\ o.state \in ProposalStates /\ rec[o.rcd] \in Row
  BY OperationUpdates DEF TypeOK
<1>2. project' \in [Sips -> ProjectStates]
  BY <1>1, ReopenedType DEF CommitRefresh
<1>3. jobs' \in [Records -> [JobKinds -> JobStates]]
  BY <1>1, WithJobType DEF CommitRefresh, TypeOK
<1>4. ops' \subseteq Operation
  BY OperationUpdates DEF CommitRefresh
<1>5. vote' \in [Records -> PollStatus \cup {"new"}]
  <2>1. "close" \in PollStatus
    BY DEF PollStatus
  <2>2. QED
    BY <1>1, <2>1, SaveStatusType DEF CommitRefresh, TypeOK
<1>6. rec' \in [Records -> Row]
  <2>1. last \in ProposalStates /\ auto \in BOOLEAN
    <3>1. FollowUp(o.rcd, o.state, o.state) \in ProposalStates \cup {o.state}
      BY <1>1, FollowUpType
    <3>2. QED
      BY <1>1, <3>1
  <2>2. rec' = [rec EXCEPT ![o.rcd] = [rec[o.rcd] EXCEPT !.state = last, !.auto = auto]]
    BY <1>1 DEF CommitRefresh, TypeOK
  <2> HIDE DEF last, auto
  <2>3. [rec[o.rcd] EXCEPT !.state = last, !.auto = auto] \in Row
    BY <1>1, <2>1 DEF Row
  <2>4. QED
    BY <1>1, <2>2, <2>3 DEF TypeOK
<1>7. QED
  BY <1>2, <1>3, <1>4, <1>5, <1>6 DEF CommitRefresh, TypeOK

LEMMA OperationsType ==
    ASSUME TypeOK, Operations
    PROVE  TypeOK'
BY LaunchType, WriteType, AutomateType, CommitRefreshType DEF Operations

\* The task manager.
LEMMA FinishType ==
    ASSUME NEW js \in [Records -> [JobKinds -> JobStates]], NEW r \in Records, NEW k \in JobKinds,
           NEW st \in JobStates
    PROVE  Finish(js, r, k, st) \in [Records -> [JobKinds -> JobStates]]
BY DEF Finish

LEMMA MarkProjectType ==
    ASSUME TypeOK, NEW s \in Sips, NEW status \in ProjectStates
    PROVE  MarkProject(s, status) \in [Sips -> ProjectStates]
BY DEF MarkProject, TypeOK

LEMMA RunApproveType ==
    ASSUME TypeOK, NEW r \in Records, RunApprove(r)
    PROVE  TypeOK'
<1>1. jobs' \in [Records -> [JobKinds -> JobStates]]
  BY FinishType DEF RunApprove, TypeOK, JobKinds, JobStates
<1>2. rec' \in [Records -> Row] /\ ops' \subseteq Operation
  BY StartApprovalType DEF RunApprove, TypeOK
<1>3. QED
  BY <1>1, <1>2 DEF RunApprove, Runs, TypeOK

LEMMA RunExecuteType ==
    ASSUME TypeOK, NEW r \in Records, RunExecute(r)
    PROVE  TypeOK'
<1>1. rec[r].sip \in Sips
  BY DEF TypeOK, Row
<1>2. project' \in [Sips -> ProjectStates]
  BY <1>1 DEF RunExecute, WithProject, TypeOK, ProjectStates
<1>3. jobs' \in [Records -> [JobKinds -> JobStates]]
  BY FinishType DEF RunExecute, TypeOK, JobKinds, JobStates
<1>4. ops' \subseteq Operation
  <2>1. "executed" \in ProposalStates
    BY DEF ProposalStates
  <2>2. QED
    BY <2>1, OperationUpdates DEF RunExecute, TypeOK
<1>5. QED
  BY <1>2, <1>3, <1>4 DEF RunExecute, Runs, TypeOK

LEMMA RunVetoType ==
    ASSUME TypeOK, NEW r \in Records, RunVeto(r)
    PROVE  TypeOK'
<1> DEFINE v == rec[r].target
<1>1. v \in Records
  BY DEF TypeOK, Row, RunVeto
<1>2. PICK deleted \in BOOLEAN, vetoed \in BOOLEAN, marked \in BOOLEAN :
        /\ jobs' = Finish(IF deleted THEN DeleteJobs(jobs, v) ELSE jobs, r, "veto", "done")
        /\ rec' = [q \in Records |->
                     [rec[q] EXCEPT !.state =
                        IF q = r /\ marked THEN IF vetoed THEN "executed" ELSE "execution_failed"
                        ELSE IF q = v /\ vetoed THEN "vetoed" ELSE @]]
  BY DEF RunVeto
<1>3. rec' \in [Records -> Row]
  <2>1. ASSUME NEW q \in Records
        PROVE  rec'[q] \in Row
    <3> DEFINE s == IF q = r /\ marked THEN IF vetoed THEN "executed" ELSE "execution_failed"
                    ELSE IF q = v /\ vetoed THEN "vetoed" ELSE rec[q].state
    <3>1. rec[q] \in Row
      BY DEF TypeOK
    <3>2. s \in ProposalStates \cup {"unused"}
      BY <3>1 DEF Row, ProposalStates
    <3>3. rec'[q] = [rec[q] EXCEPT !.state = s]
      BY <1>2
    <3> HIDE DEF s
    <3>4. QED
      BY <3>1, <3>2, <3>3 DEF Row
  <2>2. QED
    BY <1>2, <2>1
<1>4. jobs' \in [Records -> [JobKinds -> JobStates]]
  <2>1. DeleteJobs(jobs, v) \in [Records -> [JobKinds -> JobStates]]
    BY <1>1 DEF DeleteJobs, NoJob, TypeOK, JobStates
  <2>2. (IF deleted THEN DeleteJobs(jobs, v) ELSE jobs) \in [Records -> [JobKinds -> JobStates]]
    BY <2>1 DEF TypeOK
  <2>3. QED
    BY <1>2, <2>2, FinishType DEF JobKinds, ActionKinds, JobStates
<1>5. QED
  BY <1>3, <1>4 DEF RunVeto, Runs, TypeOK

LEMMA RunMotivationType ==
    ASSUME TypeOK, NEW r \in Records, RunMotivation(r)
    PROVE  TypeOK'
<1>1. rec[r].sip \in Sips
  BY DEF TypeOK, Row
<1>2. jobs' \in [Records -> [JobKinds -> JobStates]]
  BY FinishType DEF RunMotivation, TypeOK, JobKinds, ActionKinds, JobStates
<1>3. CASE UNCHANGED <<rec, project>>
  BY <1>2, <1>3 DEF RunMotivation, Runs, TypeOK
<1>4. ASSUME NEW ok \in BOOLEAN,
             rec' = [rec EXCEPT ![r].state = IF ok THEN "executed" ELSE "execution_failed"],
             project' = MarkProject(rec[r].sip, IF ok THEN "closed" ELSE "close_failed")
      PROVE  TypeOK'
  <2>1. rec' \in [Records -> Row]
    <3>1. (IF ok THEN "executed" ELSE "execution_failed") \in ProposalStates
      BY DEF ProposalStates
    <3>2. QED
      BY <1>4, <3>1, StateUpdates
  <2>2. project' \in [Sips -> ProjectStates]
    <3>1. (IF ok THEN "closed" ELSE "close_failed") \in ProjectStates
      BY DEF ProjectStates
    <3>2. QED
      BY <1>1, <1>4, <3>1, MarkProjectType
  <2>3. QED
    BY <1>2, <2>1, <2>2 DEF RunMotivation, Runs, TypeOK
<1>5. QED
  BY <1>3, <1>4 DEF RunMotivation

LEMMA RunCloseProjectType ==
    ASSUME TypeOK, NEW r \in Records, RunCloseProject(r)
    PROVE  TypeOK'
<1>1. jobs' \in [Records -> [JobKinds -> JobStates]]
  BY FinishType DEF RunCloseProject, TypeOK, JobKinds, ActionKinds, JobStates
<1>2. project' \in [Sips -> ProjectStates]
  BY DEF RunCloseProject, MarkProject, TypeOK, ProjectStates
<1>3. QED
  BY <1>1, <1>2 DEF RunCloseProject, Runs, TypeOK

LEMMA RunUnknownType ==
    ASSUME TypeOK, NEW r \in Records, RunUnknown(r)
    PROVE  TypeOK'
<1>1. jobs' \in [Records -> [JobKinds -> JobStates]]
  BY FinishType DEF RunUnknown, TypeOK, JobKinds, ActionKinds, JobStates
<1>2. rec' \in [Records -> Row]
  BY StateUpdates DEF RunUnknown, ProposalStates
<1>3. QED
  BY <1>1, <1>2 DEF RunUnknown, Runs, TypeOK

LEMMA TasksType ==
    ASSUME TypeOK, Tasks
    PROVE  TypeOK'
<1>1. ASSUME NEW r \in Records, NEW k \in JobKinds, Dispatch(r, k)
      PROVE  TypeOK'
  BY <1>1 DEF Dispatch, TypeOK
<1>2. ASSUME NEW r \in Records, RunJob(r)
      PROVE  TypeOK'
  BY <1>2, RunApproveType, RunExecuteType, RunVetoType, RunMotivationType, RunCloseProjectType,
     RunUnknownType DEF RunJob
<1>3. CASE Restart
  BY <1>3 DEF Restart, TypeOK
<1>4. QED
  BY <1>1, <1>2, <1>3 DEF Tasks

LEMMA EditingType ==
    ASSUME TypeOK, Editing
    PROVE  TypeOK'
<1>1. ASSUME NEW q \in reqs, NEW publish \in BOOLEAN, SaveUpdate(q, publish)
      PROVE  TypeOK'
  BY <1>1, SaveUpdateType
<1>2. ASSUME NEW t \in Offered, NEW p \in Records \cup {0}, NEW publish \in BOOLEAN,
             Create(t, p, publish)
      PROVE  TypeOK'
  BY <1>2, CreateType
<1>3. QED
  BY <1>1, <1>2, CheckUpdateType, SaveUpdateFailsType, CloseLinkedProjectType, PublishType,
     PublishFailsType, RepublishType, ScheduleApprovalType, ApproveAtOnceType, RespondType, RequestFailsType
     DEF Editing

\* TypeOK is inductive.
LEMMA TypeStep == TypeOK /\ [Next]_vars => TypeOK'
<1> SUFFICES ASSUME TypeOK, [Next]_vars PROVE TypeOK'
  OBVIOUS
<1>1. CASE Editing
  BY <1>1, EditingType
<1>2. CASE Deciding
  BY <1>2, ApproveType, TakeBackType DEF Deciding, Withdraw, Reject
<1>3. CASE Forum
  BY <1>3, ForumType DEF Forum
<1>4. CASE Watching
  BY <1>4, WatchingType DEF Watching
<1>5. CASE Tasks
  BY <1>5, TasksType
<1>6. CASE UNCHANGED vars
  BY <1>6 DEF vars, TypeOK
<1>7. CASE Operations
  BY <1>7, OperationsType
<1>8. QED
  BY <1>1, <1>2, <1>3, <1>4, <1>5, <1>6, <1>7 DEF Next

\* Whatever the templates and however many rows there are, the tables only hold
\* values of their types: every state written, job created, project status and
\* SIP is one the code knows, and requests and jobs name existing rows.
THEOREM TypeCorrect == Spec => []TypeOK
<1>1. Init => TypeOK
  BY InitTypeOK
<1>2. TypeOK /\ [Next]_vars => TypeOK'
  BY TypeStep
<1>3. QED
  BY <1>1, <1>2, PTL DEF Spec

(* What no step changes of a row *)

\* A row that is used stays so, with its template, and with its thread and its SIP
\* once it has them; and the history only grows.
Steady(q) ==
    /\ passed \subseteq passed'
    /\ Used(q) =>
         /\ Used(q)'
         /\ rec'[q].tmpl = rec[q].tmpl
         /\ rec[q].thread # 0 => rec'[q].thread = rec[q].thread
         /\ rec[q].sip # 0 => rec'[q].sip = rec[q].sip

LEMMA SteadyKept ==
    ASSUME NEW q \in Records, rec'[q] = rec[q], passed \subseteq passed'
    PROVE  Steady(q)
BY DEF Steady, Used

LEMMA SteadyState ==
    ASSUME TypeOK, NEW r \in Records, NEW s \in ProposalStates \cup {rec[r].state},
           rec' = [rec EXCEPT ![r].state = s], passed' = passed, NEW q \in Records
    PROVE  Steady(q)
<1>1. CASE q # r
  BY <1>1, SteadyKept DEF TypeOK
<1>2. CASE q = r
  <2>1. rec[q] \in Row
    BY DEF TypeOK
  <2>2. /\ rec'[q].state = s /\ rec'[q].tmpl = rec[q].tmpl
        /\ rec'[q].thread = rec[q].thread /\ rec'[q].sip = rec[q].sip
    BY <1>2, <2>1 DEF TypeOK, Row
  <2>3. QED
    BY <1>2, <2>2 DEF Steady, Used, ProposalStates
<1>3. QED
  BY <1>1, <1>2

LEMMA SteadyNumber ==
    ASSUME TypeOK, NEW r \in Records, NEW s \in Sips, rec[r].sip = 0,
           rec' = [rec EXCEPT ![r].sip = s, ![r].state = "voting"], passed' = passed,
           NEW q \in Records
    PROVE  Steady(q)
<1>1. CASE q # r
  BY <1>1, SteadyKept DEF TypeOK
<1>2. CASE q = r
  <2>1. rec[q] \in Row
    BY DEF TypeOK
  <2>2. /\ rec'[q].state = "voting" /\ rec'[q].tmpl = rec[q].tmpl
        /\ rec'[q].thread = rec[q].thread
    BY <1>2, <2>1 DEF TypeOK, Row
  <2>3. QED
    BY <1>2, <2>2 DEF Steady, Used
<1>3. QED
  BY <1>1, <1>2

LEMMA SteadyNew ==
    ASSUME TypeOK, NEW n \in Records, Fresh(n), NEW row, rec' = [rec EXCEPT ![n] = row],
           passed' = passed, NEW q \in Records
    PROVE  Steady(q)
BY DEF Steady, Fresh, Used, TypeOK

LEMMA SteadyApproval ==
    ASSUME TypeOK, NEW by, NEW r \in Records, StartApproval(by, r), passed' = passed,
           NEW q \in Records
    PROVE  Steady(q)
BY SteadyNumber DEF StartApproval

LEMMA SteadyOpenVoting ==
    ASSUME TypeOK, NEW r \in Records, OpenVoting(r), passed' = passed, NEW q \in Records
    PROVE  Steady(q)
BY SteadyNumber, SteadyKept DEF OpenVoting

LEMMA SteadyFetch ==
    ASSUME TypeOK, NEW r \in Records, Fetch(r), NEW q \in Records
    PROVE  Steady(q)
BY SteadyOpenVoting, SteadyKept DEF Fetch

LEMMA SteadyUpdate ==
    ASSUME TypeOK, NEW w \in reqs, NEW q \in Records,
           SaveUpdateFails(w) \/ \E publish \in BOOLEAN : SaveUpdate(w, publish)
    PROVE  Steady(q)
<1>1. rec[q] \in Row /\ passed' = passed
  BY DEF TypeOK, SaveUpdate, SaveUpdateFails
<1>2. CASE rec' = [rec EXCEPT ![w.rcd].target = w.target]
  BY <1>1, <1>2 DEF Steady, Used, TypeOK, Row
<1>3. CASE \E n \in Records : /\ Fresh(n)
                            /\ \/ rec' = [rec EXCEPT ![n] = [rec[w.rcd] EXCEPT !.state = "draft", !.ver = @ + 1,
                                                               !.target = w.target, !.auto = FALSE]]
                               \/ rec' = [rec EXCEPT ![n] = [rec[w.rcd] EXCEPT !.state = "draft", !.ver = @ + 1,
                                                               !.auto = FALSE]]
  BY <1>1, <1>3, SteadyNew
<1>4. QED
  BY <1>2, <1>3 DEF SaveUpdate, SaveUpdateFails

LEMMA SteadyPublish ==
    ASSUME TypeOK, NEW w \in reqs, NEW q \in Records,
           Publish(w) \/ Republish(w) \/ PublishFails(w) \/ ScheduleApproval(w)
    PROVE  Steady(q)
<1>1. rec[q] \in Row /\ passed' = passed
  BY DEF TypeOK, Publish, Republish, PublishFails, ScheduleApproval
<1>2. CASE Publish(w)
  BY <1>1, <1>2 DEF Publish, Steady, Used, TypeOK, Row
<1>3. CASE Republish(w)
  BY <1>1, <1>3 DEF Republish, Steady, Used, TypeOK, Row
<1>4. CASE PublishFails(w)
  BY <1>1, <1>4 DEF PublishFails, Steady, Used, TypeOK, Row
<1>5. CASE ScheduleApproval(w)
  BY <1>1, <1>5 DEF ScheduleApproval, Steady, Used, TypeOK, Row
<1>6. QED
  BY <1>2, <1>3, <1>4, <1>5

LEMMA SteadyEditing ==
    ASSUME TypeOK, Editing, NEW q \in Records
    PROVE  Steady(q)
<1>1. ASSUME NEW t \in Offered, NEW p \in Records \cup {0}, NEW publish \in BOOLEAN,
             Create(t, p, publish)
      PROVE  Steady(q)
  BY <1>1, SteadyNew DEF Create
<1>2. ASSUME NEW r \in Records, NEW p \in Records \cup {0}, CheckUpdate(r, p)
      PROVE  Steady(q)
  BY <1>2, SteadyKept DEF CheckUpdate
<1>3. ASSUME NEW w \in reqs, CloseLinkedProject(w) \/ RequestFails(w)
      PROVE  Steady(q)
  BY <1>3, SteadyKept DEF CloseLinkedProject, RequestFails
<1>4. ASSUME NEW w \in reqs, ApproveAtOnce(w) \/ Respond(w)
      PROVE  Steady(q)
  <2>1. w.url \in Records /\ w.rcd \in Records
    BY DEF TypeOK, Request
  <2>2. CASE ApproveAtOnce(w)
    BY <2>1, <2>2, SteadyApproval DEF ApproveAtOnce
  <2>3. CASE Respond(w)
    BY <2>1, <2>3, SteadyFetch, SteadyKept DEF Respond
  <2>4. QED
    BY <1>4, <2>2, <2>3
<1>5. QED
  BY <1>1, <1>2, <1>3, <1>4, SteadyUpdate, SteadyPublish DEF Editing

LEMMA SteadyForum ==
    ASSUME TypeOK, Forum, NEW q \in Records
    PROVE  Steady(q)
<1>1. ASSUME NEW t \in Records, StartPasses(t)
      PROVE  Steady(q)
  BY <1>1 DEF StartPasses, Steady, Used, TypeOK, Row
<1>2. ASSUME NEW t \in Records, PollOpens(t) \/ \E result \in {"pass", "fail"} : PollCloses(t, result)
      PROVE  Steady(q)
  BY <1>2, SteadyKept DEF PollOpens, PollCloses
<1>3. QED
  BY <1>1, <1>2 DEF Forum

\* The automation gives the row a state or leaves it the one it has.
LEMMA SteadyOperations ==
    ASSUME TypeOK, Operations, NEW q \in Records
    PROVE  Steady(q)
<1>1. PICK o \in ops : Launch(o) \/ WriteState(o) \/ WriteVerdict(o) \/ Automate(o)
                     \/ CommitRefresh(o) \/ OperationFails(o)
  BY DEF Operations
<1>2. o.rcd \in Records /\ o.state \in ProposalStates /\ rec[o.rcd] \in Row /\ passed' = passed
  BY <1>1, OperationUpdates
     DEF TypeOK, Launch, WriteState, WriteVerdict, Automate, CommitRefresh, OperationFails
<1>3. ASSUME NEW s \in ProposalStates \cup {rec[o.rcd].state}, NEW b,
             rec' = [rec EXCEPT ![o.rcd].state = s, ![o.rcd].auto = b]
      PROVE  Steady(q)
  <2>1. CASE q # o.rcd
    BY <1>2, <1>3, <2>1, SteadyKept DEF TypeOK
  <2>2. CASE q = o.rcd
    <3>1. /\ rec'[q].state = s /\ rec'[q].tmpl = rec[q].tmpl
          /\ rec'[q].thread = rec[q].thread /\ rec'[q].sip = rec[q].sip
      BY <1>2, <1>3, <2>2 DEF TypeOK, Row
    <3>2. QED
      BY <1>2, <2>2, <3>1 DEF Steady, Used, ProposalStates
  <2>3. QED
    BY <2>1, <2>2
<1>4. CASE Launch(o)
  <2> DEFINE t == rec[o.rcd].tmpl
             state == IF HasPoll(t) THEN "voting" ELSE IF t.pending THEN "pending_execution" ELSE "executed"
             auto == rec[o.rcd].auto \/ state = "pending_execution"
  <2>1. rec' = [rec EXCEPT ![o.rcd].state = state, ![o.rcd].auto = auto]
    BY <1>2, <1>4 DEF Launch, TypeOK
  <2>2. state \in ProposalStates
    BY DEF ProposalStates
  <2> HIDE DEF state, auto
  <2>3. QED
    BY <1>3, <2>1, <2>2
<1>5. CASE WriteState(o) \/ WriteVerdict(o)
  BY <1>2, <1>5, SteadyState DEF WriteState, WriteVerdict
<1>6. CASE Automate(o)
  <2>1. CASE GetsJob(o.rcd, o.state)
    <3> DEFINE auto == rec[o.rcd].auto \/ rec[o.rcd].tmpl.action = "none"
    <3>1. rec' = [rec EXCEPT ![o.rcd].auto = auto]
      BY <1>2, <1>6, <2>1 DEF Automate, TypeOK
    <3> HIDE DEF auto
    <3>2. QED
      BY <1>2, <3>1 DEF Steady, Used, TypeOK, Row
  <2>2. CASE ~GetsJob(o.rcd, o.state)
    <3>1. rec' = [rec EXCEPT ![o.rcd].state = FollowUp(o.rcd, o.state, rec[o.rcd].state)]
      BY <1>2, <1>6, <2>2 DEF Automate, TypeOK
    <3>2. FollowUp(o.rcd, o.state, rec[o.rcd].state) \in ProposalStates \cup {rec[o.rcd].state}
      BY <1>2, FollowUpType DEF Row
    <3>3. QED
      BY <1>2, <3>1, <3>2, SteadyState
  <2>3. QED
    BY <2>1, <2>2
<1>7. CASE CommitRefresh(o)
  <2> DEFINE last == FollowUp(o.rcd, o.state, o.state)
             auto == rec[o.rcd].auto \/ (GetsJob(o.rcd, o.state) /\ rec[o.rcd].tmpl.action = "none")
  <2>1. rec' = [rec EXCEPT ![o.rcd].state = last, ![o.rcd].auto = auto]
    BY <1>2, <1>7 DEF CommitRefresh, TypeOK
  <2>2. last \in ProposalStates
    <3>1. FollowUp(o.rcd, o.state, o.state) \in ProposalStates \cup {o.state}
      BY <1>2, FollowUpType
    <3>2. QED
      BY <1>2, <3>1
  <2> HIDE DEF last, auto
  <2>3. QED
    BY <1>3, <2>1, <2>2
<1>8. CASE OperationFails(o)
  BY <1>2, <1>8, SteadyKept DEF OperationFails
<1>9. QED
  BY <1>1, <1>4, <1>5, <1>6, <1>7, <1>8

LEMMA SteadyTasks ==
    ASSUME TypeOK, Tasks, NEW q \in Records
    PROVE  Steady(q)
<1>1. rec[q] \in Row
  BY DEF TypeOK
<1>2. ASSUME NEW r \in Records, RunVeto(r)
      PROVE  Steady(q)
  <2>1. PICK vetoed \in BOOLEAN, marked \in BOOLEAN :
          rec' = [p \in Records |->
                    [rec[p] EXCEPT !.state =
                       IF p = r /\ marked THEN IF vetoed THEN "executed" ELSE "execution_failed"
                       ELSE IF p = rec[r].target /\ vetoed THEN "vetoed" ELSE @]]
    BY <1>2 DEF RunVeto
  <2>2. /\ rec'[q].tmpl = rec[q].tmpl /\ rec'[q].thread = rec[q].thread /\ rec'[q].sip = rec[q].sip
        /\ rec'[q].state \in {rec[q].state, "vetoed", "executed", "execution_failed"}
    BY <1>1, <2>1 DEF TypeOK, Row
  <2>3. passed' = passed
    BY <1>2 DEF RunVeto
  <2>4. QED
    BY <2>2, <2>3 DEF Steady, Used
<1>3. ASSUME NEW r \in Records, RunExecute(r) \/ RunMotivation(r) \/ RunCloseProject(r) \/ RunUnknown(r)
      PROVE  Steady(q)
  <2>1. passed' = passed /\ (rec' = rec \/ \E s \in {"executed", "execution_failed"} : rec' = [rec EXCEPT ![r].state = s])
    BY <1>3 DEF RunExecute, RunMotivation, RunCloseProject, RunUnknown
  <2>2. {"executed", "execution_failed"} \subseteq ProposalStates
    BY DEF ProposalStates
  <2>3. QED
    BY <2>1, <2>2, SteadyKept, SteadyState
<1>4. ASSUME NEW r \in Records, RunApprove(r)
      PROVE  Steady(q)
  BY <1>4, SteadyApproval, SteadyKept DEF RunApprove
<1>5. CASE Restart \/ \E r \in Records, k \in JobKinds : Dispatch(r, k)
  BY <1>5, SteadyKept DEF Restart, Dispatch
<1>6. QED
  BY <1>2, <1>3, <1>4, <1>5 DEF Tasks, RunJob

LEMMA StepIsSteady ==
    ASSUME TypeOK, [Next]_vars, NEW q \in Records
    PROVE  Steady(q)
<1>1. CASE Deciding
  <2>1. ASSUME NEW r \in Records, Approve(r)
        PROVE  Steady(q)
    BY <2>1, SteadyApproval DEF Approve
  <2>2. ASSUME NEW r \in Records, Withdraw(r) \/ Reject(r)
        PROVE  Steady(q)
    BY <2>2, SteadyKept DEF Withdraw, Reject, TakeBack
  <2>3. QED
    BY <1>1, <2>1, <2>2 DEF Deciding
<1>2. CASE Watching
  <2>1. ASSUME NEW r \in Records, Refresh(r)
        PROVE  Steady(q)
    BY <2>1, SteadyOpenVoting, SteadyKept DEF Refresh
  <2>2. QED
    BY <1>2, <2>1, SteadyFetch DEF Watching, Detail
<1>3. CASE UNCHANGED vars
  BY <1>3, SteadyKept DEF vars
<1>4. QED
  BY <1>1, <1>2, <1>3, SteadyEditing, SteadyForum, SteadyOperations, SteadyTasks DEF Next

(* Executed only after a passing poll: the inductive invariant *)

\* The proposal may be executed: it has no vote or its poll has passed.
Entitled(r) == Used(r) /\ (HasPoll(rec[r].tmpl) => rec[r].thread \in passed)

\* Besides the property itself: an unused row has no thread and no SIP, and a job
\* that can execute a proposal, even one already dispatched, belongs to a proposal
\* that may be executed.
RowInv(r) ==
    /\ ~Used(r) => rec[r].thread = 0 /\ rec[r].sip = 0
    /\ rec[r].state \in {"pending_execution", "executed"} => Entitled(r)
    /\ \A k \in JobKinds \ {"approve"} :
          jobs[r][k] # "none" \/ <<r, k>> \in inflight => Entitled(r)

\* A closed poll has a result, and a passing result is in the history, even after
\* the poll was moved to a later time.
PollInv(t) ==
    /\ poll[t].status = "close" => poll[t].result \in {"pass", "fail"}
    /\ poll[t].result = "pass" => t \in passed

\* An operation is about a row that exists, and one that may lead to an execution is
\* about a proposal that may be executed.
OpInv(o) ==
    /\ Used(o.rcd)
    /\ o.state \in {"vote_passed", "pending_execution", "executed"} => Entitled(o.rcd)

PassingInv ==
    /\ TypeOK
    /\ \A r \in Records : RowInv(r) /\ PollInv(r)
    /\ \A o \in ops : OpInv(o)

LEMMA EntitledStays ==
    ASSUME TypeOK, NEW q \in Records, Steady(q), Entitled(q)
    PROVE  Entitled(q)'
BY DEF Steady, Entitled, TypeOK

\* A row that keeps what is steady, and is given a state or a job that leads to its
\* execution only if it may be executed.
LEMMA RowJustified ==
    ASSUME PassingInv, NEW q \in Records, Steady(q), Used(q),
           rec'[q].state \in {"pending_execution", "executed"} =>
              rec[q].state \in {"pending_execution", "executed"} \/ Entitled(q),
           \A k \in JobKinds \ {"approve"} :
              jobs'[q][k] # "none" \/ <<q, k>> \in inflight' =>
                 jobs[q][k] # "none" \/ <<q, k>> \in inflight \/ Entitled(q)
    PROVE  RowInv(q)'
<1>1. Entitled(q) => Entitled(q)'
  BY EntitledStays DEF PassingInv
<1>2. Used(q)'
  BY DEF Steady
<1>3. rec'[q].state \in {"pending_execution", "executed"} => Entitled(q)
  BY DEF PassingInv, RowInv
<1>4. \A k \in JobKinds \ {"approve"} : jobs'[q][k] # "none" \/ <<q, k>> \in inflight' => Entitled(q)
  BY DEF PassingInv, RowInv
<1>5. QED
  BY <1>1, <1>2, <1>3, <1>4 DEF RowInv

\* Taking a lock adds one operation; going on with one replaces it.
LEMMA HeldOps ==
    ASSUME NEW by, NEW r, NEW step, NEW state, Hold(by, r, step, state), NEW o \in ops'
    PROVE  \/ o \in ops
           \/ o.by = by /\ o.rcd = r /\ o.step = step /\ o.state = state
BY DEF Hold

LEMMA AdvancedOps ==
    ASSUME TypeOK, NEW w \in ops, NEW step, NEW state, Advance(w, step, state), NEW o \in ops'
    PROVE  \/ o \in ops
           \/ o.by = w.by /\ o.rcd = w.rcd /\ o.step = step /\ o.state = state
BY DEF TypeOK, Operation, Advance

LEMMA RowKept ==
    ASSUME NEW q \in Records, RowInv(q), rec'[q] = rec[q], jobs'[q] = jobs[q],
           inflight' \subseteq inflight, passed \subseteq passed'
    PROVE  RowInv(q)'
BY DEF RowInv, Entitled, Used

\* A row whose state, SIP or jobs change but whose template and thread do not.
LEMMA RowChanged ==
    ASSUME NEW q \in Records, RowInv(q), Used(q), Used(q)',
           rec'[q].tmpl = rec[q].tmpl, rec'[q].thread = rec[q].thread,
           rec'[q].state \in {"pending_execution", "executed"} => Entitled(q),
           \A k \in JobKinds \ {"approve"} :
              jobs'[q][k] # "none" \/ <<q, k>> \in inflight' => Entitled(q),
           passed \subseteq passed'
    PROVE  RowInv(q)'
<1>1. Entitled(q) => Entitled(q)'
  BY DEF Entitled, Used
<1>2. QED
  BY <1>1 DEF RowInv

LEMMA PollKept ==
    ASSUME NEW t \in Records, PollInv(t), poll'[t].result = poll[t].result,
           poll'[t].status = "close" => poll[t].status = "close", passed \subseteq passed'
    PROVE  PollInv(t)'
BY DEF PollInv

\* A new row is unused before, has no SIP and no poll, and is not to be executed.
LEMMA NewRow ==
    ASSUME TypeOK, NEW q \in Records, RowInv(q), ~Used(q), Used(q)',
           rec'[q].state \notin {"pending_execution", "executed"},
           jobs'[q] = jobs[q], inflight' = inflight
    PROVE  RowInv(q)'
BY DEF RowInv, Entitled

LEMMA CreatePassing ==
    ASSUME PassingInv, NEW t \in Offered, NEW p \in Records \cup {0}, NEW publish \in BOOLEAN,
           Create(t, p, publish), NEW q \in Records
    PROVE  RowInv(q)' /\ PollInv(q)'
<1>1. PICK r \in Records :
        /\ Fresh(r)
        /\ rec' = [rec EXCEPT ![r] = [NoRow EXCEPT !.state = "pending_submit", !.tmpl = t,
                                                   !.target = p, !.ver = 1]]
        /\ UNCHANGED <<poll, jobs, inflight, project, passed>>
  BY DEF Create
<1>2. PollInv(q)'
  BY <1>1, PollKept DEF PassingInv
<1>3. CASE q = r
  <2>1. NoRow \in Row
    BY InitialRows
  <2>2. rec'[q].state = "pending_submit"
    BY <1>1, <1>3, <2>1 DEF PassingInv, TypeOK, Row
  <2>3. QED
    BY <1>1, <1>2, <1>3, <2>2, NewRow DEF PassingInv, Fresh, Used
<1>4. CASE q # r
  BY <1>1, <1>2, <1>4, RowKept DEF PassingInv, TypeOK
<1>5. QED
  BY <1>2, <1>3, <1>4

LEMMA SaveUpdatePassing ==
    ASSUME PassingInv, NEW w \in reqs, NEW publish \in BOOLEAN,
           SaveUpdate(w, publish) \/ SaveUpdateFails(w), NEW q \in Records
    PROVE  RowInv(q)' /\ PollInv(q)'
<1>1. UNCHANGED <<poll, jobs, inflight, project, passed>> /\ w.rcd \in Records
  BY DEF SaveUpdate, SaveUpdateFails, PassingInv, TypeOK, Request
<1>2. PollInv(q)'
  BY <1>1, PollKept DEF PassingInv
<1>3. CASE rec' = [rec EXCEPT ![w.rcd].target = w.target]
  <2>1. rec'[q].state = rec[q].state /\ rec'[q].tmpl = rec[q].tmpl
        /\ rec'[q].thread = rec[q].thread /\ rec'[q].sip = rec[q].sip
    <3>1. rec[q] \in Row
      BY DEF PassingInv, TypeOK
    <3>2. QED
      BY <1>3, <3>1 DEF PassingInv, TypeOK, Row
  <2>2. QED
    BY <1>1, <1>2, <2>1 DEF PassingInv, RowInv, Entitled, Used
<1>4. ASSUME NEW n \in Records, Fresh(n), rec'[n].state = "draft", rec' = [rec EXCEPT ![n] = rec'[n]]
      PROVE  RowInv(q)'
  <2>1. CASE q = n
    BY <1>1, <1>4, <2>1, NewRow DEF PassingInv, Fresh, Used
  <2>2. CASE q # n
    BY <1>1, <1>4, <2>2, RowKept DEF PassingInv, TypeOK
  <2>3. QED
    BY <2>1, <2>2
<1>5. CASE \E n \in Records :
             /\ Fresh(n)
             /\ \/ rec' = [rec EXCEPT ![n] = [rec[w.rcd] EXCEPT !.state = "draft", !.ver = @ + 1,
                                                          !.target = w.target, !.auto = FALSE]]
                \/ rec' = [rec EXCEPT ![n] = [rec[w.rcd] EXCEPT !.state = "draft", !.ver = @ + 1,
                                                          !.auto = FALSE]]
  <2>1. PICK n \in Records :
             /\ Fresh(n)
             /\ \/ rec' = [rec EXCEPT ![n] = [rec[w.rcd] EXCEPT !.state = "draft", !.ver = @ + 1,
                                                          !.target = w.target, !.auto = FALSE]]
                \/ rec' = [rec EXCEPT ![n] = [rec[w.rcd] EXCEPT !.state = "draft", !.ver = @ + 1,
                                                          !.auto = FALSE]]
    BY <1>5
  <2>2. rec \in [Records -> Row] /\ rec[w.rcd] \in Row
    BY <1>1 DEF PassingInv, TypeOK
  <2>3. rec' = [rec EXCEPT ![n] = rec'[n]]
    BY <2>1, <2>2
  <2>4. rec'[n].state = "draft"
    <3>1. \/ rec'[n] = [rec[w.rcd] EXCEPT !.state = "draft", !.ver = @ + 1,
                                          !.target = w.target, !.auto = FALSE]
          \/ rec'[n] = [rec[w.rcd] EXCEPT !.state = "draft", !.ver = @ + 1, !.auto = FALSE]
      BY <2>1, <2>2
    <3>2. CASE rec'[n] = [rec[w.rcd] EXCEPT !.state = "draft", !.ver = @ + 1,
                                            !.target = w.target, !.auto = FALSE]
      BY <2>2, <3>2 DEF Row
    <3>3. CASE rec'[n] = [rec[w.rcd] EXCEPT !.state = "draft", !.ver = @ + 1, !.auto = FALSE]
      BY <2>2, <3>3 DEF Row
    <3>4. QED
      BY <3>1, <3>2, <3>3
  <2>5. QED
    BY <1>2, <1>4, <2>1, <2>3, <2>4
<1>6. QED
  BY <1>3, <1>5 DEF SaveUpdate, SaveUpdateFails

LEMMA PublishPassing ==
    ASSUME PassingInv, NEW w \in reqs, Publish(w) \/ Republish(w) \/ PublishFails(w), NEW q \in Records
    PROVE  RowInv(q)' /\ PollInv(q)'
<1>1. w.rcd \in Records /\ rec[w.rcd] \in Row /\ UNCHANGED <<jobs, inflight, passed>>
  <2>1. w.rcd \in Records /\ rec[w.rcd] \in Row
    BY DEF PassingInv, TypeOK, Request
  <2>2. UNCHANGED <<jobs, inflight, passed>>
    BY DEF Publish, Republish, PublishFails
  <2>3. QED
    BY <2>1, <2>2
<1>2. PollInv(q)'
  <2>1. poll[q] \in [status: PollStatus, result: {"none", "pass", "fail"}]
    BY DEF PassingInv, TypeOK
  <2>2. poll'[q].result = poll[q].result /\ (poll'[q].status = "close" => poll[q].status = "close")
    BY <2>1 DEF Publish, Republish, PublishFails, PassingInv, TypeOK
  <2>3. QED
    BY <1>1, <2>2, PollKept DEF PassingInv
<1>3. CASE q # w.rcd
  <2>1. rec'[q] = rec[q]
    BY <1>3 DEF Publish, Republish, PublishFails, PassingInv, TypeOK
  <2>2. QED
    BY <1>1, <1>2, <2>1, RowKept DEF PassingInv
<1>4. CASE q = w.rcd /\ (Publish(w) \/ (PublishFails(w) /\ rec[q].thread = 0))
  <2>1. rec'[q].state = "draft" /\ rec'[q].tmpl = rec[q].tmpl /\ rec'[q].thread = q
    BY <1>1, <1>4 DEF Publish, PublishFails, PassingInv, TypeOK, Row
  <2>2. Entitled(q) => Entitled(q)'
    BY <1>1, <1>4, <2>1 DEF Entitled, Used, Publish, PassingInv, TypeOK
  <2>3. QED
    BY <1>1, <1>2, <2>1, <2>2 DEF PassingInv, RowInv, Used
<1>5. CASE q = w.rcd /\ Republish(w)
  <2>1. rec'[q].state = "draft" /\ rec'[q].tmpl = rec[q].tmpl /\ rec'[q].thread = rec[q].thread
    BY <1>1, <1>5 DEF Republish, PassingInv, TypeOK, Row
  <2>2. Used(q)
    BY <1>5 DEF PassingInv, RowInv, Republish
  <2>3. QED
    BY <1>1, <1>2, <2>1, <2>2, RowChanged DEF PassingInv, Used, RowInv
<1>6. CASE q = w.rcd /\ PublishFails(w) /\ rec[q].thread # 0
  <2>1. rec'[q] = rec[q] /\ jobs'[q] = jobs[q]
    BY <1>1, <1>6 DEF PublishFails
  <2>2. inflight' \subseteq inflight /\ passed \subseteq passed'
    BY <1>1
  <2>3. RowInv(q)
    BY DEF PassingInv
  <2>4. RowInv(q)'
    BY <2>1, <2>2, <2>3, RowKept
  <2>5. QED
    BY <1>2, <2>4
<1>7. CASE q = w.rcd
  <2>1. CASE Publish(w)
    BY <1>4, <1>7, <2>1
  <2>2. CASE Republish(w)
    BY <1>5, <1>7, <2>2
  <2>3. CASE PublishFails(w) /\ rec[q].thread = 0
    BY <1>4, <1>7, <2>3
  <2>4. CASE PublishFails(w) /\ rec[q].thread # 0
    BY <1>6, <1>7, <2>4
  <2>5. QED
    BY <2>1, <2>2, <2>3, <2>4
<1>8. QED
  BY <1>3, <1>7

\* Requests that change nothing of a row but its `auto` field, and the stages that
\* change no row at all.
LEMMA StagePassing ==
    ASSUME PassingInv, NEW w \in reqs, ScheduleApproval(w) \/ CloseLinkedProject(w) \/ RequestFails(w),
           NEW q \in Records
    PROVE  RowInv(q)' /\ PollInv(q)'
<1>1. UNCHANGED <<poll, inflight, passed>> /\ w.rcd \in Records
  BY DEF ScheduleApproval, CloseLinkedProject, RequestFails, PassingInv, TypeOK, Request
<1>2. PollInv(q)'
  BY <1>1, PollKept DEF PassingInv
<1>3. CASE ScheduleApproval(w)
  <2>1. rec[q] \in Row
    BY DEF PassingInv, TypeOK
  <2>2. /\ rec'[q].state = rec[q].state /\ rec'[q].tmpl = rec[q].tmpl
        /\ rec'[q].thread = rec[q].thread /\ rec'[q].sip = rec[q].sip
    BY <1>3, <2>1 DEF ScheduleApproval, PassingInv, TypeOK, Row
  <2>3. \A k \in JobKinds \ {"approve"} : jobs'[q][k] = jobs[q][k]
    BY <1>1, <1>3 DEF ScheduleApproval, AddJob, PassingInv, TypeOK
  <2>4. QED
    BY <1>1, <1>2, <2>2, <2>3 DEF PassingInv, RowInv, Entitled, Used
<1>4. CASE UNCHANGED <<rec, jobs>>
  BY <1>1, <1>2, <1>4, RowKept DEF PassingInv
<1>5. QED
  BY <1>3, <1>4 DEF ScheduleApproval, CloseLinkedProject, RequestFails

\* An approval gives the row its SIP and the voting state.
LEMMA StartApprovalPassing ==
    ASSUME PassingInv, NEW by, NEW r \in Records, StartApproval(by, r),
           UNCHANGED <<poll, passed>>, inflight' \subseteq inflight,
           \A p \in Records, k \in JobKinds \ {"approve"} : jobs'[p][k] # "none" => jobs[p][k] # "none",
           NEW q \in Records
    PROVE  RowInv(q)' /\ PollInv(q)'
<1>1. PollInv(q)'
  BY PollKept DEF PassingInv
<1>2. PICK s \in Sips : rec' = [rec EXCEPT ![r].sip = s, ![r].state = "voting"]
  BY DEF StartApproval
<1>3. CASE q # r
  <2>1. rec'[q] = rec[q]
    BY <1>2, <1>3 DEF PassingInv, TypeOK
  <2>2. QED
    BY <1>1, <2>1 DEF PassingInv, RowInv, Entitled, Used
<1>4. CASE q = r
  <2>1. rec[q] \in Row
    BY DEF PassingInv, TypeOK
  <2>2. rec'[q].state = "voting"
    BY <1>2, <1>4, <2>1 DEF PassingInv, TypeOK, Row
  <2>3. Steady(q) /\ Used(q)
    BY <1>4, SteadyApproval DEF StartApproval, PassingInv
  <2>4. QED
    BY <1>1, <2>2, <2>3, RowJustified
<1>5. QED
  BY <1>3, <1>4

LEMMA TakeBackPassing ==
    ASSUME PassingInv, NEW r \in Records, NEW state \in {"withdrawn", "rejected"}, TakeBack(r, state),
           NEW q \in Records
    PROVE  RowInv(q)' /\ PollInv(q)'
<1>1. UNCHANGED <<rec, inflight, passed>>
  BY DEF TakeBack
<1>2. PollInv(q)'
  <2>1. poll[q] \in [status: PollStatus, result: {"none", "pass", "fail"}]
    BY DEF PassingInv, TypeOK
  <2>2. poll'[q].result = poll[q].result /\ (poll'[q].status = "close" => poll[q].status = "close")
    BY <2>1 DEF TakeBack, PassingInv, TypeOK
  <2>3. QED
    BY <1>1, <2>2, PollKept DEF PassingInv
<1>3. \A k \in JobKinds : jobs'[q][k] # "none" => jobs[q][k] # "none"
  BY DEF TakeBack, DeleteJobs, NoJob, PassingInv, TypeOK
<1>4. QED
  BY <1>1, <1>2, <1>3 DEF PassingInv, RowInv, Entitled, Used

LEMMA ForumPassing ==
    ASSUME PassingInv, NEW t \in Records,
           StartPasses(t) \/ PollOpens(t) \/ (\E result \in {"pass", "fail"} : PollCloses(t, result)),
           NEW q \in Records
    PROVE  RowInv(q)' /\ PollInv(q)'
<1>1. poll[q] \in [status: PollStatus, result: {"none", "pass", "fail"}] /\ rec[q] \in Row
  BY DEF PassingInv, TypeOK
<1>2. CASE StartPasses(t)
  <2>1. UNCHANGED <<poll, jobs, inflight, passed>>
    BY <1>2 DEF StartPasses
  <2>2. /\ rec'[q].state = rec[q].state /\ rec'[q].tmpl = rec[q].tmpl
        /\ rec'[q].thread = rec[q].thread /\ rec'[q].sip = rec[q].sip
    BY <1>1, <1>2 DEF StartPasses, Row
  <2>3. PollInv(q)'
    BY <2>1, PollKept DEF PassingInv
  <2>4. QED
    BY <2>1, <2>2, <2>3 DEF PassingInv, RowInv, Entitled, Used
<1>3. CASE PollOpens(t)
  <2>1. UNCHANGED <<rec, jobs, inflight, passed>>
    BY <1>3 DEF PollOpens
  <2>2. poll'[q].result = poll[q].result /\ (poll'[q].status = "close" => poll[q].status = "close")
    BY <1>1, <1>3 DEF PollOpens, PassingInv, TypeOK
  <2>3. QED
    BY <2>1, <2>2, PollKept, RowKept DEF PassingInv
<1>4. ASSUME NEW result \in {"pass", "fail"}, PollCloses(t, result)
      PROVE  RowInv(q)' /\ PollInv(q)'
  <2>1. UNCHANGED <<rec, jobs, inflight>> /\ passed \subseteq passed'
    BY <1>4 DEF PollCloses
  <2>2. CASE q # t
    <3>1. poll'[q] = poll[q]
      BY <1>4, <2>2 DEF PollCloses, PassingInv, TypeOK
    <3>2. QED
      BY <2>1, <3>1, PollKept, RowKept DEF PassingInv
  <2>3. CASE q = t
    <3>1. poll'[q] = [status |-> "close", result |-> result]
      BY <1>4, <2>3 DEF PollCloses, PassingInv, TypeOK
    <3>2. result = "pass" => q \in passed'
      BY <1>4, <2>3 DEF PollCloses
    <3>3. PollInv(q)'
      BY <3>1, <3>2 DEF PollInv
    <3>4. QED
      BY <2>1, <3>3, RowKept DEF PassingInv
  <2>4. QED
    BY <2>2, <2>3
<1>5. QED
  BY <1>2, <1>3, <1>4

\* A verdict other than failed is given to a poll with a passing result only.
LEMMA VerdictPasses ==
    ASSUME PassingInv, NEW r \in Records, rec[r].thread \in Records,
           poll[rec[r].thread].status = "close",
           Verdict(rec[r].tmpl, poll[rec[r].thread].result) # "vote_failed"
    PROVE  rec[r].thread \in passed
<1>1. PollInv(rec[r].thread)
  BY DEF PassingInv
<1>2. QED
  BY <1>1 DEF PollInv, Verdict

LEMMA OpenVotingPassing ==
    ASSUME PassingInv, NEW r \in Records, Used(r), OpenVoting(r) \/ UNCHANGED rec,
           UNCHANGED <<poll, jobs, passed>>, inflight' \subseteq inflight, NEW q \in Records
    PROVE  RowInv(q)' /\ PollInv(q)'
<1>1. PollInv(q)'
  BY PollKept DEF PassingInv
<1>2. CASE UNCHANGED rec
  BY <1>1, <1>2, RowKept DEF PassingInv
<1>3. ASSUME NEW s \in Sips, rec[r].sip = 0, rec' = [rec EXCEPT ![r].sip = s, ![r].state = "voting"]
      PROVE  RowInv(q)' /\ PollInv(q)'
  <2>1. CASE q # r
    <3>1. rec'[q] = rec[q]
      BY <1>3, <2>1 DEF PassingInv, TypeOK
    <3>2. QED
      BY <1>1, <3>1, RowKept DEF PassingInv
  <2>2. CASE q = r
    <3>1. rec[q] \in Row
      BY DEF PassingInv, TypeOK
    <3>2. rec'[q].state = "voting"
      BY <1>3, <2>2, <3>1 DEF PassingInv, TypeOK, Row
    <3>3. Steady(q)
      BY <1>3, SteadyNumber DEF PassingInv
    <3>4. QED
      BY <1>1, <2>2, <3>2, <3>3, RowJustified
  <2>3. QED
    BY <2>1, <2>2
<1>4. QED
  BY <1>2, <1>3 DEF OpenVoting

\* A proposal whose poll is looked at has a thread, so it exists.
LEMMA WatchedRow ==
    ASSUME PassingInv, NEW r \in Records, Changed(r)
    PROVE  Used(r) /\ rec[r].thread \in Records
BY DEF Changed, PassingInv, TypeOK, Row, RowInv

LEMMA WatchPassing ==
    ASSUME PassingInv, NEW r \in Records, Fetch(r) \/ Refresh(r), NEW q \in Records
    PROVE  RowInv(q)' /\ PollInv(q)'
<1>1. Used(r)
  BY WatchedRow DEF Fetch, Refresh
<1>2. (OpenVoting(r) \/ UNCHANGED rec) /\ UNCHANGED <<poll, jobs, passed, inflight>>
  BY DEF Fetch, Refresh
<1>3. QED
  BY <1>1, <1>2, OpenVotingPassing

\* The parts of an operation: what executes the proposal, or leads to its execution,
\* is about a proposal that may be executed.
LEMMA LaunchPassing ==
    ASSUME PassingInv, NEW o \in ops, Launch(o), NEW q \in Records
    PROVE  RowInv(q)' /\ PollInv(q)'
<1> DEFINE t == rec[o.rcd].tmpl
           state == IF HasPoll(t) THEN "voting" ELSE IF t.pending THEN "pending_execution" ELSE "executed"
<1>1. o.rcd \in Records /\ Used(o.rcd) /\ TypeOK
  BY OperationUpdates DEF PassingInv, OpInv
<1>2. UNCHANGED <<inflight, passed>>
  BY DEF Launch
<1>3. PollInv(q)'
  <2>1. poll[q] \in [status: PollStatus, result: {"none", "pass", "fail"}]
    BY DEF PassingInv, TypeOK
  <2>2. CASE UNCHANGED poll
    BY <1>2, <2>2, PollKept DEF PassingInv
  <2>3. CASE poll' = [poll EXCEPT ![rec[o.rcd].thread].status = "open"]
    <3>1. poll'[q].result = poll[q].result /\ (poll'[q].status = "close" => poll[q].status = "close")
      BY <2>1, <2>3 DEF PassingInv, TypeOK
    <3>2. QED
      BY <1>2, <3>1, PollKept DEF PassingInv
  <2>4. QED
    BY <2>2, <2>3 DEF Launch
<1>4. Steady(q)
  BY <1>1, SteadyOperations DEF Operations
<1>5. CASE q # o.rcd
  <2>1. rec'[q] = rec[q] /\ jobs'[q] = jobs[q]
    BY <1>5 DEF Launch, PassingInv, TypeOK
  <2>2. QED
    BY <1>2, <1>3, <2>1, RowKept DEF PassingInv
<1>6. CASE q = o.rcd
  <2>1. rec[q] \in Row
    BY DEF PassingInv, TypeOK
  <2>2. state \in {"pending_execution", "executed"} => Entitled(q)
    BY <1>1, <1>6 DEF Entitled
  <2>3. rec'[q].state = state
    <3> DEFINE auto == rec[o.rcd].auto \/ state = "pending_execution"
    <3>1. rec' = [rec EXCEPT ![o.rcd].state = state, ![o.rcd].auto = auto]
      BY <1>1 DEF Launch, TypeOK
    <3> HIDE DEF auto, state
    <3>2. QED
      BY <1>1, <1>6, <2>1, <3>1 DEF TypeOK, Row
  <2>4. \A k \in JobKinds \ {"approve"} :
          jobs'[q][k] # "none" => jobs[q][k] # "none" \/ state = "pending_execution"
    <3>1. jobs' = IF state = "pending_execution"
                  THEN [jobs EXCEPT ![q]["approve"] = "none", ![q]["execute"] = "active"] ELSE jobs
      BY <1>6 DEF Launch
    <3> HIDE DEF state
    <3>2. QED
      BY <3>1 DEF PassingInv, TypeOK
  <2> HIDE DEF state
  <2>5. QED
    BY <1>1, <1>2, <1>3, <1>4, <1>6, <2>2, <2>3, <2>4, RowJustified
<1>7. QED
  BY <1>5, <1>6

\* Writing a state, or a job, that the row is entitled to.
LEMMA OwnRowPassing ==
    ASSUME PassingInv, NEW r \in Records, Used(r), NEW q \in Records, Steady(q),
           q # r => rec'[q] = rec[q] /\ jobs'[q] = jobs[q],
           rec'[r].state \in {"pending_execution", "executed"} =>
              rec[r].state \in {"pending_execution", "executed"} \/ Entitled(r),
           \A k \in JobKinds \ {"approve"} : jobs'[r][k] # "none" => jobs[r][k] # "none" \/ Entitled(r),
           UNCHANGED <<poll, passed>>, inflight' \subseteq inflight
    PROVE  RowInv(q)' /\ PollInv(q)'
<1>1. PollInv(q)'
  BY PollKept DEF PassingInv
<1>2. CASE q # r
  BY <1>1, <1>2, RowKept DEF PassingInv
<1>3. CASE q = r
  BY <1>1, <1>3, RowJustified
<1>4. QED
  BY <1>2, <1>3

LEMMA WithJobChanges ==
    ASSUME TypeOK, NEW r \in Records, NEW q \in Records
    PROVE  q # r => WithJob(r)[q] = jobs[q]
BY DEF WithJob, AddJob, TypeOK

\* What the automation ends in.
LEMMA FollowUpEarned ==
    ASSUME NEW r \in Records, NEW verdict \in ProposalStates, NEW now \in ProposalStates \cup {"unused"}
    PROVE  FollowUp(r, verdict, now) \in {"pending_execution", "executed"} =>
              verdict \in {"vote_passed", "pending_execution"} \/ FollowUp(r, verdict, now) = now
BY DEF FollowUp, GetsJob, FollowUpFails

LEMMA OperationPassing ==
    ASSUME PassingInv, NEW o \in ops, NEW q \in Records,
           WriteState(o) \/ WriteVerdict(o) \/ Automate(o) \/ CommitRefresh(o) \/ OperationFails(o)
    PROVE  RowInv(q)' /\ PollInv(q)'
<1>1. /\ o.rcd \in Records /\ o.state \in ProposalStates /\ TypeOK /\ rec[o.rcd] \in Row
      /\ OpInv(o) /\ Used(o.rcd)
  BY OperationUpdates DEF PassingInv, OpInv, TypeOK
<1>2. Steady(q)
  BY <1>1, SteadyOperations DEF Operations
<1>3. UNCHANGED <<poll, passed, inflight>>
  BY DEF WriteState, WriteVerdict, Automate, CommitRefresh, OperationFails
<1>4. CASE WriteState(o) \/ WriteVerdict(o)
  <2>1. rec' = [rec EXCEPT ![o.rcd].state = o.state] /\ jobs' = jobs
    BY <1>4 DEF WriteState, WriteVerdict
  <2>2. /\ q # o.rcd => rec'[q] = rec[q]
        /\ rec'[o.rcd].state = o.state
    BY <1>1, <2>1 DEF TypeOK, Row
  <2>3. QED
    BY <1>1, <1>2, <1>3, <2>1, <2>2, OwnRowPassing DEF OpInv
<1>5. CASE Automate(o)
  <2>1. CASE GetsJob(o.rcd, o.state)
    <3> DEFINE auto == rec[o.rcd].auto \/ rec[o.rcd].tmpl.action = "none"
    <3>1. rec' = [rec EXCEPT ![o.rcd].auto = auto]
      BY <1>1, <1>5, <2>1 DEF Automate, TypeOK
    <3> HIDE DEF auto
    <3>2. /\ q # o.rcd => rec'[q] = rec[q]
          /\ rec'[o.rcd].state = rec[o.rcd].state
      BY <1>1, <3>1 DEF TypeOK, Row
    <3>3. Entitled(o.rcd)
      BY <1>1, <2>1 DEF GetsJob, OpInv
    <3>4. q # o.rcd => jobs'[q] = jobs[q]
      BY <1>1, <1>5, <2>1, WithJobChanges DEF Automate
    <3>5. QED
      BY <1>1, <1>2, <1>3, <3>2, <3>3, <3>4, OwnRowPassing
  <2>2. CASE ~GetsJob(o.rcd, o.state)
    <3> DEFINE last == FollowUp(o.rcd, o.state, rec[o.rcd].state)
    <3>1. rec' = [rec EXCEPT ![o.rcd].state = last] /\ jobs' = jobs
      BY <1>1, <1>5, <2>2 DEF Automate, TypeOK
    <3>2. last \in {"pending_execution", "executed"} => Entitled(o.rcd) \/ last = rec[o.rcd].state
      <4>1. rec[o.rcd].state \in ProposalStates \cup {"unused"}
        BY <1>1 DEF Row
      <4>2. QED
        BY <1>1, <4>1, FollowUpEarned DEF OpInv
    <3> HIDE DEF last
    <3>3. /\ q # o.rcd => rec'[q] = rec[q]
          /\ rec'[o.rcd].state = last
      BY <1>1, <3>1 DEF TypeOK, Row
    <3>4. QED
      BY <1>1, <1>2, <1>3, <3>1, <3>2, <3>3, OwnRowPassing
  <2>3. QED
    BY <2>1, <2>2
<1>6. CASE CommitRefresh(o)
  <2> DEFINE last == FollowUp(o.rcd, o.state, o.state)
             auto == rec[o.rcd].auto \/ (GetsJob(o.rcd, o.state) /\ rec[o.rcd].tmpl.action = "none")
  <2>1. rec' = [rec EXCEPT ![o.rcd].state = last, ![o.rcd].auto = auto]
    BY <1>1, <1>6 DEF CommitRefresh, TypeOK
  <2>2. last \in {"pending_execution", "executed"} => Entitled(o.rcd)
    BY <1>1, FollowUpEarned DEF OpInv
  <2>3. jobs' # jobs => Entitled(o.rcd)
    BY <1>1, <1>6 DEF CommitRefresh, GetsJob, OpInv
  <2>4. q # o.rcd => jobs'[q] = jobs[q]
    BY <1>1, <1>6, WithJobChanges DEF CommitRefresh
  <2> HIDE DEF last, auto
  <2>5. /\ q # o.rcd => rec'[q] = rec[q]
        /\ rec'[o.rcd].state = last
    BY <1>1, <2>1 DEF TypeOK, Row
  <2>6. QED
    BY <1>1, <1>2, <1>3, <2>2, <2>3, <2>4, <2>5, OwnRowPassing
<1>7. CASE OperationFails(o)
  BY <1>3, <1>7, RowKept, PollKept DEF OperationFails, PassingInv
<1>8. QED
  BY <1>4, <1>5, <1>6, <1>7

\* A job that runs was dispatched, so its proposal may be executed.
LEMMA RunPassing ==
    ASSUME PassingInv, NEW r \in Records,
           RunExecute(r) \/ RunVeto(r) \/ RunMotivation(r) \/ RunCloseProject(r) \/ RunUnknown(r),
           NEW q \in Records
    PROVE  RowInv(q)' /\ PollInv(q)'
<1>1. UNCHANGED <<poll, passed>> /\ inflight' \subseteq inflight
  BY DEF RunExecute, RunVeto, RunMotivation, RunCloseProject, RunUnknown, Runs
<1>2. PollInv(q)'
  BY <1>1, PollKept DEF PassingInv
<1>3. Entitled(r)
  BY DEF RunExecute, RunVeto, RunMotivation, RunCloseProject, RunUnknown, Runs, JobKinds, ActionKinds,
         PassingInv, RowInv
<1>4. \A k \in JobKinds : jobs'[q][k] # "none" => jobs[q][k] # "none"
  <2>1. CASE RunVeto(r)
    <3>0. PICK deleted \in BOOLEAN :
            jobs' = Finish(IF deleted THEN DeleteJobs(jobs, rec[r].target) ELSE jobs, r, "veto", "done")
      BY <2>1 DEF RunVeto
    <3> DEFINE js == IF deleted THEN DeleteJobs(jobs, rec[r].target) ELSE jobs
    <3>1. \A k \in JobKinds : js[q][k] # "none" => jobs[q][k] # "none"
      BY DEF DeleteJobs, NoJob, PassingInv, TypeOK
    <3>2. js \in [Records -> [JobKinds -> JobStates]]
      BY <2>1 DEF DeleteJobs, NoJob, JobStates, PassingInv, TypeOK
    <3>3. jobs' = Finish(js, r, "veto", "done")
      BY <3>0
    <3> HIDE DEF js
    <3>4. QED
      BY <3>1, <3>2, <3>3 DEF Finish
  <2>2. ASSUME NEW m \in JobKinds, NEW st, jobs' = Finish(jobs, r, m, st)
        PROVE  \A k \in JobKinds : jobs'[q][k] # "none" => jobs[q][k] # "none"
    BY <2>2 DEF Finish, PassingInv, TypeOK
  <2>3. RunVeto(r) \/ \E m \in JobKinds, st \in {"done", "terminated"} : jobs' = Finish(jobs, r, m, st)
    BY DEF RunExecute, RunMotivation, RunCloseProject, RunUnknown, JobKinds, ActionKinds
  <2>4. QED
    BY <2>1, <2>2, <2>3
<1>5. ASSUME rec'[q] # rec[q]
      PROVE  /\ rec'[q].tmpl = rec[q].tmpl /\ rec'[q].thread = rec[q].thread /\ rec'[q].sip = rec[q].sip
             /\ rec'[q].state \in {"executed", "execution_failed", "vetoed"}
             /\ rec'[q].state = "executed" => q = r
  <2>1. rec[q] \in Row
    BY DEF PassingInv, TypeOK
  <2>2. CASE RunVeto(r)
    <3>1. PICK vetoed \in BOOLEAN, marked \in BOOLEAN :
            rec' = [p \in Records |->
                      [rec[p] EXCEPT !.state =
                         IF p = r /\ marked THEN IF vetoed THEN "executed" ELSE "execution_failed"
                         ELSE IF p = rec[r].target /\ vetoed THEN "vetoed" ELSE @]]
      BY <2>2 DEF RunVeto
    <3> DEFINE s == IF q = r /\ marked THEN IF vetoed THEN "executed" ELSE "execution_failed"
                    ELSE IF q = rec[r].target /\ vetoed THEN "vetoed" ELSE rec[q].state
    <3>2. rec'[q] = [rec[q] EXCEPT !.state = s]
      BY <3>1
    <3>3. s \in {rec[q].state, "vetoed", "executed", "execution_failed"} /\ (s = "executed" => q = r \/ s = rec[q].state)
      OBVIOUS
    <3> HIDE DEF s
    <3>4. rec'[q].state = s /\ s # rec[q].state
      BY <1>5, <2>1, <3>2 DEF Row
    <3>5. QED
      BY <2>1, <3>2, <3>3, <3>4 DEF Row
  <2>3. ASSUME NEW s \in {"executed", "execution_failed"}, rec' = [rec EXCEPT ![r].state = s]
        PROVE  /\ rec'[q].tmpl = rec[q].tmpl /\ rec'[q].thread = rec[q].thread
               /\ rec'[q].sip = rec[q].sip /\ rec'[q].state = s /\ q = r
    BY <1>5, <2>1, <2>3 DEF PassingInv, TypeOK, Row
  <2>4. RunVeto(r) \/ rec' = rec \/ \E s \in {"executed", "execution_failed"} : rec' = [rec EXCEPT ![r].state = s]
    BY DEF RunExecute, RunVeto, RunMotivation, RunCloseProject, RunUnknown
  <2>5. QED
    BY <1>5, <2>2, <2>3, <2>4
<1>6. CASE rec'[q] = rec[q]
  BY <1>1, <1>2, <1>4, <1>6 DEF PassingInv, RowInv, Entitled, Used
<1>7. CASE rec'[q] # rec[q]
  <2>1. Used(q)' /\ (rec'[q].state \in {"pending_execution", "executed"} => Entitled(q))
    BY <1>3, <1>5, <1>7 DEF Used
  <2>2. CASE Used(q)
    BY <1>1, <1>2, <1>4, <1>5, <1>7, <2>1, <2>2, RowChanged DEF PassingInv, RowInv
  <2>3. CASE ~Used(q)
    <3>1. \A k \in JobKinds \ {"approve"} : jobs[q][k] = "none" /\ <<q, k>> \notin inflight
      BY <2>3 DEF PassingInv, RowInv, Entitled
    <3>2. rec'[q].state \notin {"pending_execution", "executed"}
      BY <2>1, <2>3 DEF Entitled
    <3>3. QED
      BY <1>1, <1>2, <1>4, <2>1, <3>1, <3>2 DEF RowInv
  <2>4. QED
    BY <2>2, <2>3
<1>8. QED
  BY <1>6, <1>7

LEMMA RunApprovePassing ==
    ASSUME PassingInv, NEW r \in Records, RunApprove(r), NEW q \in Records
    PROVE  RowInv(q)' /\ PollInv(q)'
<1>1. inflight' \subseteq inflight /\ UNCHANGED <<poll, passed>>
  BY DEF RunApprove, Runs
<1>2. \A p \in Records, k \in JobKinds \ {"approve"} : jobs'[p][k] # "none" => jobs[p][k] # "none"
  BY DEF RunApprove, Finish, PassingInv, TypeOK
<1>3. CASE StartApproval("task", r)
  BY <1>1, <1>2, <1>3, StartApprovalPassing
<1>4. CASE UNCHANGED rec
  <2>1. PollInv(q)'
    BY <1>1, PollKept DEF PassingInv
  <2>2. QED
    BY <1>1, <1>2, <1>4, <2>1 DEF PassingInv, RowInv, Entitled, Used
<1>5. QED
  BY <1>3, <1>4 DEF RunApprove

LEMMA TasksPassing ==
    ASSUME PassingInv, Tasks, NEW q \in Records
    PROVE  RowInv(q)' /\ PollInv(q)'
<1>1. ASSUME NEW r \in Records, NEW k \in JobKinds, Dispatch(r, k)
      PROVE  RowInv(q)' /\ PollInv(q)'
  <2>1. UNCHANGED <<rec, poll, jobs, passed>> /\ jobs[r][k] = "active" /\ inflight' = inflight \cup {<<r, k>>}
    BY <1>1 DEF Dispatch
  <2>2. PollInv(q)'
    BY <2>1, PollKept DEF PassingInv
  <2>3. \A m \in JobKinds : <<q, m>> \in inflight' => <<q, m>> \in inflight \/ jobs[q][m] # "none"
    BY <2>1
  <2>4. QED
    BY <2>1, <2>2, <2>3 DEF PassingInv, RowInv, Entitled, Used
<1>2. CASE Restart
  <2>1. UNCHANGED <<rec, poll, jobs, passed>> /\ inflight' = {}
    BY <1>2 DEF Restart
  <2>2. QED
    BY <2>1, RowKept, PollKept DEF PassingInv
<1>3. CASE \E r \in Records : RunJob(r)
  BY <1>3, RunApprovePassing, RunPassing DEF RunJob
<1>4. QED
  BY <1>1, <1>2, <1>3 DEF Tasks

LEMMA EditingPassing ==
    ASSUME PassingInv, Editing, NEW q \in Records
    PROVE  RowInv(q)' /\ PollInv(q)'
<1>1. ASSUME NEW t \in Offered, NEW p \in Records \cup {0}, NEW publish \in BOOLEAN,
             Create(t, p, publish)
      PROVE  RowInv(q)' /\ PollInv(q)'
  BY <1>1, CreatePassing
<1>2. ASSUME NEW r \in Records, NEW p \in Records \cup {0}, CheckUpdate(r, p)
      PROVE  RowInv(q)' /\ PollInv(q)'
  BY <1>2, RowKept, PollKept DEF CheckUpdate, PassingInv
<1>3. ASSUME NEW w \in reqs, NEW publish \in BOOLEAN, SaveUpdate(w, publish)
      PROVE  RowInv(q)' /\ PollInv(q)'
  BY <1>3, SaveUpdatePassing
<1>4. ASSUME NEW w \in reqs, ApproveAtOnce(w)
      PROVE  RowInv(q)' /\ PollInv(q)'
  <2>1. w.url \in Records
    BY DEF PassingInv, TypeOK, Request
  <2>2. StartApproval("http", w.url) /\ UNCHANGED <<poll, jobs, inflight, passed>>
    BY <1>4 DEF ApproveAtOnce
  <2>3. QED
    BY <2>1, <2>2, StartApprovalPassing
<1>5. ASSUME NEW w \in reqs, Respond(w)
      PROVE  RowInv(q)' /\ PollInv(q)'
  <2>1. w.rcd \in Records
    BY DEF PassingInv, TypeOK, Request
  <2>2. CASE Fetch(w.rcd)
    BY <2>1, <2>2, WatchPassing
  <2>3. CASE UNCHANGED <<rec, vote, poll, jobs, inflight, ops, project, passed>>
    BY <2>3, RowKept, PollKept DEF PassingInv
  <2>4. QED
    BY <1>5, <2>2, <2>3 DEF Respond
<1>6. QED
  BY <1>1, <1>2, <1>3, <1>4, <1>5, SaveUpdatePassing, StagePassing, PublishPassing DEF Editing

\* What an operation is begun for.
LEMMA SettleOps ==
    ASSUME PassingInv, NEW by, NEW r \in Records, Changed(r), poll[rec[r].thread].status = "close",
           Settle(by, r), NEW o \in ops'
    PROVE  OpInv(o)
<1>1. Used(r) /\ rec[r].thread \in Records
  BY WatchedRow
<1>2. CASE o \in ops
  BY <1>2 DEF PassingInv
<1>3. CASE o.rcd = r /\ o.state = Verdict(rec[r].tmpl, poll[rec[r].thread].result)
  <2>1. o.state # "vote_failed" => Entitled(r)
    BY <1>1, <1>3, VerdictPasses DEF Entitled
  <2>2. QED
    BY <1>1, <1>3, <2>1 DEF OpInv
<1>4. CASE UNCHANGED ops
  BY <1>2, <1>4
<1>5. QED
  BY <1>2, <1>3, <1>4, HeldOps DEF Settle

LEMMA FetchOps ==
    ASSUME PassingInv, NEW r \in Records, Fetch(r) \/ Refresh(r), NEW o \in ops'
    PROVE  OpInv(o)
<1>1. Changed(r)
  BY DEF Fetch, Refresh
<1>2. CASE UNCHANGED ops
  BY <1>2 DEF PassingInv
<1>3. CASE poll[rec[r].thread].status = "close" /\ (Settle("http", r) \/ Settle("task", r))
  BY <1>1, <1>3, SettleOps
<1>4. QED
  BY <1>2, <1>3 DEF Fetch, Refresh

LEMMA ApprovalOps ==
    ASSUME PassingInv, NEW by, NEW r \in Records, StartApproval(by, r), NEW o \in ops'
    PROVE  OpInv(o)
<1>1. Used(r) /\ (o \in ops \/ (o.rcd = r /\ o.state = "voting"))
  BY HeldOps DEF StartApproval
<1>2. QED
  BY <1>1 DEF OpInv, PassingInv

\* An operation that goes on does so for a proposal that may be executed, if it may
\* lead to an execution.
LEMMA OperationOps ==
    ASSUME PassingInv, Operations, NEW o \in ops'
    PROVE  OpInv(o)
<1>1. PICK w \in ops : Launch(w) \/ WriteState(w) \/ WriteVerdict(w) \/ Automate(w)
                     \/ CommitRefresh(w) \/ OperationFails(w)
  BY DEF Operations
<1>2. OpInv(w) /\ TypeOK
  BY DEF PassingInv
<1>3. CASE o \in ops
  BY <1>3 DEF PassingInv
<1>4. CASE o.rcd = w.rcd /\ (o.state = w.state \/ w.state = "vote_passed")
  BY <1>2, <1>4 DEF OpInv
<1>5. CASE WriteVerdict(w)
  BY <1>2, <1>3, <1>4, <1>5, AdvancedOps DEF WriteVerdict, Release
<1>6. CASE Automate(w)
  <2>1. CASE Release(w)
    BY <1>3, <2>1 DEF Release
  <2>2. CASE GetsJob(w.rcd, w.state) /\ Advance(w, "write", "pending_execution")
    BY <1>2, <1>3, <1>4, <2>2, AdvancedOps DEF GetsJob
  <2>3. QED
    BY <1>6, <2>1, <2>2 DEF Automate
<1>7. CASE Launch(w) \/ WriteState(w) \/ CommitRefresh(w) \/ OperationFails(w)
  BY <1>3, <1>7 DEF Launch, WriteState, CommitRefresh, OperationFails, Release
<1>8. QED
  BY <1>1, <1>5, <1>6, <1>7

LEMMA StepOps ==
    ASSUME PassingInv, [Next]_vars, NEW o \in ops'
    PROVE  OpInv(o)
<1>1. CASE UNCHANGED ops
  BY <1>1 DEF PassingInv
<1>2. CASE Editing
  <2>1. ASSUME NEW w \in reqs, ApproveAtOnce(w) \/ Respond(w)
        PROVE  OpInv(o)
    <3>1. w.url \in Records /\ w.rcd \in Records
      BY DEF PassingInv, TypeOK, Request
    <3>2. StartApproval("http", w.url) \/ Fetch(w.rcd) \/ UNCHANGED ops
      BY <2>1 DEF ApproveAtOnce, Respond
    <3>3. QED
      BY <1>1, <3>1, <3>2, ApprovalOps, FetchOps
  <2>2. UNCHANGED ops \/ \E w \in reqs : ApproveAtOnce(w) \/ Respond(w)
    BY <1>2 DEF Editing, Create, CheckUpdate, SaveUpdate, SaveUpdateFails, CloseLinkedProject, Publish,
                Republish, PublishFails, ScheduleApproval, RequestFails
  <2>3. QED
    BY <1>1, <2>1, <2>2
<1>3. CASE Deciding
  <2>1. ASSUME NEW r \in Records, Approve(r)
        PROVE  OpInv(o)
    BY <2>1, ApprovalOps DEF Approve
  <2>2. ASSUME NEW r \in Records, NEW state \in {"withdrawn", "rejected"}, TakeBack(r, state)
        PROVE  OpInv(o)
    <3>1. Used(r) /\ (o \in ops \/ (o.rcd = r /\ o.state = state))
      BY <2>2, HeldOps DEF TakeBack
    <3>2. QED
      BY <3>1 DEF OpInv, PassingInv
  <2>3. QED
    BY <1>3, <2>1, <2>2 DEF Deciding, Withdraw, Reject
<1>4. CASE Watching
  BY <1>4, FetchOps DEF Watching, Detail
<1>5. CASE Tasks
  <2>1. ASSUME NEW r \in Records, RunApprove(r)
        PROVE  OpInv(o)
    BY <1>1, <2>1, ApprovalOps DEF RunApprove
  <2>2. ASSUME NEW r \in Records, RunExecute(r)
        PROVE  OpInv(o)
    <3>1. Entitled(r)
      BY <2>2 DEF RunExecute, Runs, JobKinds, PassingInv, RowInv
    <3>2. UNCHANGED ops \/ o \in ops \/ o.rcd = r
      BY <2>2, HeldOps DEF RunExecute
    <3>3. QED
      BY <1>1, <3>1, <3>2 DEF OpInv, Entitled, PassingInv
  <2>3. \/ \E r \in Records : RunApprove(r) \/ RunExecute(r)
        \/ ops' \subseteq ops
    BY <1>5 DEF Tasks, RunJob, Dispatch, RunVeto, RunMotivation, RunCloseProject, RunUnknown, Restart
  <2>4. QED
    BY <2>1, <2>2, <2>3 DEF PassingInv
<1>6. CASE Forum
  BY <1>1, <1>6 DEF Forum, StartPasses, PollOpens, PollCloses
<1>7. CASE UNCHANGED vars
  BY <1>1, <1>7 DEF vars
<1>8. QED
  BY <1>2, <1>3, <1>4, <1>5, <1>6, <1>7, OperationOps DEF Next

LEMMA PassingStep == PassingInv /\ [Next]_vars => PassingInv'
<1> SUFFICES ASSUME PassingInv, [Next]_vars PROVE PassingInv'
  OBVIOUS
<1>1. TypeOK'
  BY TypeStep DEF PassingInv
<1>2. ASSUME NEW q \in Records PROVE RowInv(q)' /\ PollInv(q)'
  <2>1. CASE Editing
    BY <2>1, EditingPassing
  <2>2. CASE Deciding
    <3>1. ASSUME NEW r \in Records, Approve(r)
          PROVE  RowInv(q)' /\ PollInv(q)'
      <4>1. StartApproval("http", r) /\ UNCHANGED <<poll, jobs, inflight, passed>>
        BY <3>1 DEF Approve
      <4>2. QED
        BY <4>1, StartApprovalPassing
    <3>2. QED
      BY <2>2, <3>1, TakeBackPassing DEF Deciding, Withdraw, Reject
  <2>3. CASE Forum
    BY <2>3, ForumPassing DEF Forum
  <2>4. CASE Watching
    BY <2>4, WatchPassing DEF Watching, Detail
  <2>5. CASE Tasks
    BY <2>5, TasksPassing
  <2>6. CASE Operations
    BY <2>6, LaunchPassing, OperationPassing DEF Operations
  <2>7. CASE UNCHANGED vars
    BY <2>7, RowKept, PollKept DEF vars, PassingInv
  <2>8. QED
    BY <2>1, <2>2, <2>3, <2>4, <2>5, <2>6, <2>7 DEF Next
<1>3. ASSUME NEW o \in ops' PROVE OpInv(o)'
  <2>1. OpInv(o)
    BY <1>3, StepOps
  <2>2. o.rcd \in Records
    BY <1>1, <1>3 DEF TypeOK, Operation
  <2>3. Steady(o.rcd)
    BY <2>2, StepIsSteady DEF PassingInv
  <2>4. Entitled(o.rcd) => Entitled(o.rcd)'
    BY <2>2, <2>3, EntitledStays DEF PassingInv
  <2>5. QED
    BY <2>1, <2>3, <2>4 DEF OpInv, Steady
<1>4. QED
  BY <1>1, <1>2, <1>3 DEF PassingInv

LEMMA PassingInit == Init => PassingInv
<1> SUFFICES ASSUME Init PROVE PassingInv
  OBVIOUS
<1>1. TypeOK
  BY InitTypeOK
<1>2. ASSUME NEW r \in Records PROVE RowInv(r)
  <2>1. rec[r] = NoRow => rec[r].state = "unused" /\ rec[r].thread = 0 /\ rec[r].sip = 0
    BY DEF NoRow
  <2>2. CASE Seeded /\ r = 1
    <3>1. SeedTemplate.vote = "none"
      BY <2>2 DEF SeedTemplate
    <3>2. NoRow \in Row /\ rec[r] = SeedRow
      BY <2>2, InitialRows DEF Init
    <3>3. rec[r].state = "executed" /\ rec[r].tmpl = SeedTemplate
      BY <3>2 DEF SeedRow, Row
    <3>4. QED
      BY <3>1, <3>3 DEF Init, RowInv, Entitled, Used, HasPoll, NoJob
  <2>3. CASE ~(Seeded /\ r = 1)
    <3>1. rec[r] = NoRow /\ jobs[r] = NoJob /\ inflight = {}
      BY <2>3 DEF Init
    <3>2. QED
      BY <2>1, <3>1 DEF RowInv, Used, NoJob
  <2>4. QED
    BY <2>2, <2>3
<1>3. ASSUME NEW t \in Records PROVE PollInv(t)
  BY DEF Init, PollInv
<1>4. \A o \in ops : OpInv(o)
  BY DEF Init
<1>5. QED
  BY <1>1, <1>2, <1>3, <1>4 DEF PassingInv

\* A voted proposal waits for its execution, or is executed, only if the poll of its
\* thread did close with a passing result: whatever mixture of requests, forum
\* events, refreshes, dispatched jobs and restarts led there.
THEOREM ExecutionIsEarned == Spec => []ExecutedAfterPassing
<1>1. PassingInv => ExecutedAfterPassing
  BY DEF PassingInv, RowInv, Entitled, ExecutedAfterPassing
<1>2. QED
  BY <1>1, PassingInit, PassingStep, PTL DEF Spec

\* A voted proposal gets a job that executes it only after the poll of its thread did
\* close with a passing result, whatever is under way.
THEOREM JobIsEarned == Spec => []JobAfterPassing
<1>1. PassingInv => JobAfterPassing
  BY DEF PassingInv, RowInv, Entitled, JobAfterPassing
<1>2. QED
  BY <1>1, PassingInit, PassingStep, PTL DEF Spec

LEMMA PassingAlways == Spec => []PassingInv
BY PassingInit, PassingStep, PTL DEF Spec

\* A SIP is given once: no later version, approval, poll or job changes it.
THEOREM SipNeverChanges == Spec => SipIsStable
<1>1. PassingInv /\ [Next]_vars => [\A r \in Records : rec[r].sip # 0 => rec'[r].sip = rec[r].sip]_vars
  <2> SUFFICES ASSUME PassingInv, [Next]_vars, NEW r \in Records, rec[r].sip # 0
               PROVE  rec'[r].sip = rec[r].sip
    OBVIOUS
  <2>1. Used(r)
    BY DEF PassingInv, RowInv
  <2>2. QED
    BY <2>1, StepIsSteady DEF PassingInv, Steady
<1>2. QED
  BY <1>1, PassingAlways, PTL DEF Spec, SipIsStable

(* Vetoes: what a step makes of a proposal nothing is under way for *)

\* It is vetoed only by the step that deletes its jobs, a vetoed one gets no job, and one
\* without jobs stays vetoed or is taken back or published again.
VetoRow(q) ==
    /\ rec'[q].state = "vetoed" => rec[q].state = "vetoed" \/ ~CanBeExecuted(q)'
    /\ rec[q].state = "vetoed" /\ rec'[q].state = "vetoed" /\ ~CanBeExecuted(q) => ~CanBeExecuted(q)'
    /\ rec[q].state = "vetoed" /\ rec[q].sip # 0 /\ ~CanBeExecuted(q) =>
          \/ rec'[q].state = "vetoed" /\ ~UnderWay(q)'
          \/ rec'[q].state \in {"withdrawn", "rejected", "draft"}

\* The operations a step adds for a row that stays vetoed only take it back.
OpsQuiet(q) ==
    \A o \in ops' : o.rcd = q => o \in ops \/ (o.step = "write" /\ o.state \in {"withdrawn", "rejected"})

LEMMA VetoKept ==
    ASSUME NEW q \in Records, ~UnderWay(q), rec'[q].state = rec[q].state,
           \A k \in JobKinds \ {"approve"} : jobs'[q][k] # "none" => jobs[q][k] # "none",
           \A k \in JobKinds \ {"approve"} : <<q, k>> \in inflight' => <<q, k>> \in inflight \/ jobs[q][k] # "none",
           rec[q].state = "vetoed" /\ rec[q].sip # 0 => OpsQuiet(q)
    PROVE  VetoRow(q)
<1>1. ~CanBeExecuted(q) => ~CanBeExecuted(q)'
  BY DEF CanBeExecuted
<1>2. ~CanBeExecuted(q) /\ OpsQuiet(q) => ~UnderWay(q)'
  BY DEF CanBeExecuted, UnderWay, OpsQuiet
<1>3. QED
  BY <1>1, <1>2 DEF VetoRow

LEMMA VetoLeft ==
    ASSUME NEW q \in Records, rec'[q].state # "vetoed",
           rec[q].state = "vetoed" /\ rec[q].sip # 0 => rec'[q].state \in {"withdrawn", "rejected", "draft"}
    PROVE  VetoRow(q)
BY DEF VetoRow

LEMMA VetoApproval ==
    ASSUME TypeOK, NEW by, NEW r \in Records, StartApproval(by, r), NEW q \in Records, ~UnderWay(q),
           \A p \in Records, k \in JobKinds \ {"approve"} : jobs'[p][k] # "none" => jobs[p][k] # "none",
           inflight' \subseteq inflight
    PROVE  VetoRow(q)
<1>1. PICK s \in Sips : rec[r].sip = 0 /\ rec' = [rec EXCEPT ![r].sip = s, ![r].state = "voting"]
  BY DEF StartApproval
<1>2. CASE q = r
  <2>1. rec[q] \in Row
    BY DEF TypeOK
  <2>2. rec'[q].state = "voting"
    BY <1>1, <1>2, <2>1 DEF TypeOK, Row
  <2>3. QED
    BY <1>1, <1>2, <2>2, VetoLeft
<1>3. CASE q # r
  <2>1. rec'[q] = rec[q]
    BY <1>1, <1>3 DEF TypeOK
  <2>2. OpsQuiet(q)
    BY <1>3, HeldOps DEF StartApproval, OpsQuiet
  <2>3. QED
    BY <2>1, <2>2, VetoKept
<1>4. QED
  BY <1>2, <1>3

LEMMA VetoWatch ==
    ASSUME TypeOK, NEW r \in Records, Fetch(r) \/ Refresh(r), NEW q \in Records, ~UnderWay(q)
    PROVE  VetoRow(q)
<1>1. UNCHANGED <<jobs, inflight>> /\ (OpenVoting(r) \/ UNCHANGED rec)
  BY DEF Fetch, Refresh
<1>2. rec[r].state = "vetoed" => UNCHANGED ops
  BY DEF Fetch, Refresh, Settle, FinStates
<1>3. q # r => OpsQuiet(q)
  BY HeldOps DEF Fetch, Refresh, Settle, OpsQuiet
<1>4. rec[q].state = "vetoed" => OpsQuiet(q)
  BY <1>2, <1>3 DEF OpsQuiet
<1>5. CASE UNCHANGED rec
  BY <1>1, <1>4, <1>5, VetoKept
<1>6. ASSUME NEW s \in Sips, rec[r].state # "vetoed", rec' = [rec EXCEPT ![r].sip = s, ![r].state = "voting"]
      PROVE  VetoRow(q)
  <2>1. CASE q = r
    <3>1. rec[q] \in Row
      BY DEF TypeOK
    <3>2. rec'[q].state = "voting"
      BY <1>6, <2>1, <3>1 DEF TypeOK, Row
    <3>3. QED
      BY <1>6, <2>1, <3>2, VetoLeft
  <2>2. CASE q # r
    <3>1. rec'[q] = rec[q]
      BY <1>6, <2>2 DEF TypeOK
    <3>2. QED
      BY <1>1, <1>4, <3>1, VetoKept
  <2>3. QED
    BY <2>1, <2>2
<1>7. QED
  BY <1>1, <1>5, <1>6 DEF OpenVoting, FinStates

LEMMA VetoUpdate ==
    ASSUME TypeOK, NEW w \in reqs, NEW q \in Records, ~UnderWay(q),
           \/ SaveUpdateFails(w) \/ \E publish \in BOOLEAN : SaveUpdate(w, publish)
           \/ Publish(w) \/ Republish(w) \/ PublishFails(w)
    PROVE  VetoRow(q)
<1>1. UNCHANGED <<jobs, inflight, ops>>
  BY DEF SaveUpdate, SaveUpdateFails, Publish, Republish, PublishFails
<1>2. w.rcd \in Records /\ rec[q] \in Row /\ rec[w.rcd] \in Row
  BY DEF TypeOK, Request
<1>3. CASE rec'[q].state = rec[q].state
  BY <1>1, <1>3, VetoKept DEF OpsQuiet
<1>4. CASE rec'[q].state = "draft"
  BY <1>4, VetoLeft
<1>5. CASE rec' = [rec EXCEPT ![w.rcd].target = w.target]
  <2>1. rec'[q].state = rec[q].state
    BY <1>2, <1>5 DEF TypeOK, Row
  <2>2. QED
    BY <1>3, <2>1
<1>6. ASSUME NEW n \in Records,
             \/ rec' = [rec EXCEPT ![n] = [rec[w.rcd] EXCEPT !.state = "draft", !.ver = @ + 1,
                                                             !.target = w.target, !.auto = FALSE]]
             \/ rec' = [rec EXCEPT ![n] = [rec[w.rcd] EXCEPT !.state = "draft", !.ver = @ + 1, !.auto = FALSE]]
      PROVE  VetoRow(q)
  <2>1. rec'[q].state = rec[q].state \/ rec'[q].state = "draft"
    <3>1. CASE q # n
      BY <1>2, <1>6, <3>1 DEF TypeOK
    <3>2. CASE q = n
      <4>1. \/ rec'[q] = [rec[w.rcd] EXCEPT !.state = "draft", !.ver = @ + 1,
                                           !.target = w.target, !.auto = FALSE]
            \/ rec'[q] = [rec[w.rcd] EXCEPT !.state = "draft", !.ver = @ + 1, !.auto = FALSE]
        BY <1>6, <3>2 DEF TypeOK
      <4>2. CASE rec'[q] = [rec[w.rcd] EXCEPT !.state = "draft", !.ver = @ + 1,
                                              !.target = w.target, !.auto = FALSE]
        BY <1>2, <4>2 DEF Row
      <4>3. CASE rec'[q] = [rec[w.rcd] EXCEPT !.state = "draft", !.ver = @ + 1, !.auto = FALSE]
        BY <1>2, <4>3 DEF Row
      <4>4. QED
        BY <4>1, <4>2, <4>3
    <3>3. QED
      BY <3>1, <3>2
  <2>2. QED
    BY <1>3, <1>4, <2>1
<1>7. CASE Publish(w) \/ Republish(w) \/ PublishFails(w)
  <2>1. rec'[q].state = rec[q].state \/ rec'[q].state = "draft"
    <3>1. CASE q # w.rcd
      BY <1>7, <3>1 DEF Publish, Republish, PublishFails, TypeOK
    <3>2. CASE q = w.rcd
      <4>1. CASE Publish(w)
        BY <1>2, <3>2, <4>1 DEF Publish, TypeOK, Row
      <4>2. CASE Republish(w)
        BY <1>2, <3>2, <4>2 DEF Republish, TypeOK, Row
      <4>3. CASE PublishFails(w)
        BY <1>2, <3>2, <4>3 DEF PublishFails, TypeOK, Row
      <4>4. QED
        BY <1>7, <4>1, <4>2, <4>3
    <3>3. QED
      BY <3>1, <3>2
  <2>2. QED
    BY <1>3, <1>4, <2>1
<1>8. CASE SaveUpdateFails(w) \/ \E publish \in BOOLEAN : SaveUpdate(w, publish)
  BY <1>5, <1>6, <1>8 DEF SaveUpdate, SaveUpdateFails
<1>9. QED
  BY <1>7, <1>8

LEMMA VetoEditing ==
    ASSUME TypeOK, Editing, NEW q \in Records, ~UnderWay(q)
    PROVE  VetoRow(q)
<1>1. ASSUME NEW t \in Offered, NEW p \in Records \cup {0}, NEW publish \in BOOLEAN,
             Create(t, p, publish)
      PROVE  VetoRow(q)
  <2>1. PICK r \in Records :
          /\ Fresh(r)
          /\ rec' = [rec EXCEPT ![r] = [NoRow EXCEPT !.state = "pending_submit", !.tmpl = t,
                                                     !.target = p, !.ver = 1]]
          /\ UNCHANGED <<jobs, inflight, ops>>
    BY <1>1 DEF Create
  <2>2. CASE q = r
    <3>1. NoRow \in Row
      BY InitialRows
    <3>2. rec'[q].state = "pending_submit" /\ rec[q].state = "unused"
      BY <2>1, <2>2, <3>1 DEF TypeOK, Row, Fresh, Used
    <3>3. QED
      BY <3>2, VetoLeft
  <2>3. CASE q # r
    <3>1. rec'[q] = rec[q]
      BY <2>1, <2>3 DEF TypeOK
    <3>2. QED
      BY <2>1, <3>1, VetoKept DEF OpsQuiet
  <2>4. QED
    BY <2>2, <2>3
<1>2. CASE UNCHANGED <<rec, jobs, inflight, ops>>
  BY <1>2, VetoKept DEF OpsQuiet
<1>3. ASSUME NEW w \in reqs, ScheduleApproval(w)
      PROVE  VetoRow(q)
  <2>1. rec[q] \in Row /\ UNCHANGED <<inflight, ops>>
    BY <1>3 DEF TypeOK, ScheduleApproval
  <2>2. rec'[q].state = rec[q].state
    BY <1>3, <2>1 DEF ScheduleApproval, TypeOK, Row
  <2>3. \A k \in JobKinds \ {"approve"} : jobs'[q][k] = jobs[q][k]
    BY <1>3 DEF ScheduleApproval, AddJob, TypeOK
  <2>4. QED
    BY <2>1, <2>2, <2>3, VetoKept DEF OpsQuiet
<1>4. ASSUME NEW w \in reqs, ApproveAtOnce(w) \/ Respond(w)
      PROVE  VetoRow(q)
  <2>1. w.url \in Records /\ w.rcd \in Records
    BY DEF TypeOK, Request
  <2>2. CASE ApproveAtOnce(w)
    BY <2>1, <2>2, VetoApproval DEF ApproveAtOnce
  <2>3. CASE Respond(w)
    BY <1>2, <2>1, <2>3, VetoWatch DEF Respond
  <2>4. QED
    BY <1>4, <2>2, <2>3
<1>5. ASSUME NEW w \in reqs, CloseLinkedProject(w) \/ RequestFails(w)
      PROVE  VetoRow(q)
  BY <1>2, <1>5 DEF CloseLinkedProject, RequestFails
<1>6. ASSUME NEW r \in Records, NEW p \in Records \cup {0}, CheckUpdate(r, p)
      PROVE  VetoRow(q)
  BY <1>2, <1>6 DEF CheckUpdate
<1>7. QED
  BY <1>1, <1>3, <1>4, <1>5, <1>6, VetoUpdate DEF Editing

LEMMA VetoDeciding ==
    ASSUME TypeOK, Deciding, NEW q \in Records, ~UnderWay(q)
    PROVE  VetoRow(q)
<1>1. ASSUME NEW r \in Records, Approve(r)
      PROVE  VetoRow(q)
  BY <1>1, VetoApproval DEF Approve
<1>2. ASSUME NEW r \in Records, NEW state \in {"withdrawn", "rejected"}, TakeBack(r, state)
      PROVE  VetoRow(q)
  <2>1. UNCHANGED <<rec, inflight>>
    BY <1>2 DEF TakeBack
  <2>2. \A k \in JobKinds : jobs'[q][k] # "none" => jobs[q][k] # "none"
    BY <1>2 DEF TakeBack, DeleteJobs, NoJob, TypeOK
  <2>3. OpsQuiet(q)
    BY <1>2, HeldOps DEF TakeBack, OpsQuiet
  <2>4. QED
    BY <2>1, <2>2, <2>3, VetoKept
<1>3. QED
  BY <1>1, <1>2 DEF Deciding, Withdraw, Reject

\* An operation of the row itself can only be the last write that takes it back.
LEMMA VetoOperations ==
    ASSUME TypeOK, Operations, NEW q \in Records, ~UnderWay(q)
    PROVE  VetoRow(q)
<1>1. PICK w \in ops : Launch(w) \/ WriteState(w) \/ WriteVerdict(w) \/ Automate(w)
                     \/ CommitRefresh(w) \/ OperationFails(w)
  BY DEF Operations
<1>2. UNCHANGED inflight /\ w.rcd \in Records
  BY <1>1, OperationUpdates DEF Launch, WriteState, WriteVerdict, Automate, CommitRefresh, OperationFails
<1>3. CASE w.rcd # q
  <2>1. rec'[q] = rec[q] /\ jobs'[q] = jobs[q]
    <3>1. CASE Launch(w) \/ WriteState(w) \/ WriteVerdict(w) \/ OperationFails(w)
      BY <1>3, <3>1 DEF Launch, WriteState, WriteVerdict, OperationFails, TypeOK
    <3>2. CASE Automate(w)
      BY <1>2, <1>3, <3>2, WithJobChanges DEF Automate, TypeOK
    <3>3. CASE CommitRefresh(w)
      BY <1>2, <1>3, <3>3, WithJobChanges DEF CommitRefresh, TypeOK
    <3>4. QED
      BY <1>1, <3>1, <3>2, <3>3
  <2>2. OpsQuiet(q)
    <3>1. CASE Release(w)
      BY <3>1 DEF Release, OpsQuiet
    <3>2. CASE \E step, state : Advance(w, step, state)
      BY <1>3, <3>2, AdvancedOps DEF OpsQuiet
    <3>3. QED
      BY <1>1, <3>1, <3>2 DEF Launch, WriteState, WriteVerdict, Automate, CommitRefresh, OperationFails
  <2>3. QED
    BY <1>2, <2>1, <2>2, VetoKept
<1>4. CASE w.rcd = q
  <2>1. w.step = "write" /\ w.state \in {"withdrawn", "rejected"}
    BY <1>4 DEF UnderWay
  <2>2. CASE WriteState(w)
    <3>1. rec[q] \in Row
      BY DEF TypeOK
    <3>2. rec'[q].state = w.state
      BY <1>4, <2>2, <3>1 DEF WriteState, TypeOK, Row
    <3>3. QED
      BY <2>1, <3>2, VetoLeft
  <2>3. CASE OperationFails(w)
    BY <2>3, VetoKept DEF OperationFails, Release, OpsQuiet
  <2>4. QED
    BY <1>1, <2>1, <2>2, <2>3 DEF Launch, WriteVerdict, Automate, CommitRefresh
<1>5. QED
  BY <1>3, <1>4

LEMMA VetoTasks ==
    ASSUME TypeOK, Tasks, NEW q \in Records, ~UnderWay(q)
    PROVE  VetoRow(q)
<1>1. rec[q] \in Row
  BY DEF TypeOK
<1>2. ASSUME NEW r \in Records, NEW k \in JobKinds, Dispatch(r, k)
      PROVE  VetoRow(q)
  BY <1>2, VetoKept DEF Dispatch, OpsQuiet
<1>3. CASE Restart
  BY <1>3, VetoKept DEF Restart, OpsQuiet
<1>4. ASSUME NEW r \in Records, RunApprove(r)
      PROVE  VetoRow(q)
  <2>1. inflight' \subseteq inflight
    BY <1>4 DEF RunApprove, Runs
  <2>2. \A p \in Records, k \in JobKinds \ {"approve"} : jobs'[p][k] # "none" => jobs[p][k] # "none"
    BY <1>4 DEF RunApprove, Finish, TypeOK
  <2>3. CASE StartApproval("task", r)
    BY <2>1, <2>2, <2>3, VetoApproval
  <2>4. CASE UNCHANGED <<rec, ops>>
    BY <2>1, <2>2, <2>4, VetoKept DEF OpsQuiet
  <2>5. QED
    BY <1>4, <2>3, <2>4 DEF RunApprove
<1>5. ASSUME NEW r \in Records, RunExecute(r) \/ RunMotivation(r) \/ RunCloseProject(r) \/ RunUnknown(r)
      PROVE  VetoRow(q)
  <2>1. r # q /\ inflight' \subseteq inflight
    BY <1>5 DEF RunExecute, RunMotivation, RunCloseProject, RunUnknown, Runs, UnderWay, JobKinds, ActionKinds
  <2>2. \E m \in JobKinds, st \in {"done", "terminated"} : jobs' = Finish(jobs, r, m, st)
    BY <1>5 DEF RunExecute, RunMotivation, RunCloseProject, RunUnknown, JobKinds, ActionKinds
  <2>3. \A k \in JobKinds : jobs'[q][k] # "none" => jobs[q][k] # "none"
    BY <2>2 DEF Finish, TypeOK
  <2>4. rec'[q] = rec[q]
    BY <1>5, <2>1 DEF RunExecute, RunMotivation, RunCloseProject, RunUnknown, TypeOK
  <2>5. OpsQuiet(q)
    BY <1>5, <2>1, HeldOps DEF RunExecute, RunMotivation, RunCloseProject, RunUnknown, OpsQuiet
  <2>6. QED
    BY <2>1, <2>3, <2>4, <2>5, VetoKept
<1>6. ASSUME NEW r \in Records, RunVeto(r)
      PROVE  VetoRow(q)
  <2> DEFINE v == rec[r].target
  <2>1. r # q /\ inflight' \subseteq inflight /\ UNCHANGED ops /\ v \in Records
    BY <1>6 DEF RunVeto, Runs, UnderWay, JobKinds, ActionKinds, TypeOK, Row
  <2>2. PICK deleted \in BOOLEAN, vetoed \in BOOLEAN, marked \in BOOLEAN :
          /\ vetoed => deleted
          /\ jobs' = Finish(IF deleted THEN DeleteJobs(jobs, v) ELSE jobs, r, "veto", "done")
          /\ rec' = [p \in Records |->
                       [rec[p] EXCEPT !.state =
                          IF p = r /\ marked THEN IF vetoed THEN "executed" ELSE "execution_failed"
                          ELSE IF p = v /\ vetoed THEN "vetoed" ELSE @]]
    BY <1>6 DEF RunVeto
  <2> DEFINE js == IF deleted THEN DeleteJobs(jobs, v) ELSE jobs
  <2>3. js \in [Records -> [JobKinds -> JobStates]]
    BY <2>1 DEF DeleteJobs, NoJob, JobStates, TypeOK
  <2>4. \A k \in JobKinds : js[q][k] # "none" => jobs[q][k] # "none" /\ ~(deleted /\ q = v)
    BY <2>1 DEF DeleteJobs, NoJob, TypeOK
  <2>5. \A k \in JobKinds : jobs'[q][k] # "none" => js[q][k] # "none"
    <3>1. jobs' = Finish(js, r, "veto", "done")
      BY <2>2
    <3> HIDE DEF js
    <3>2. QED
      BY <2>3, <3>1 DEF Finish
  <2>6. rec'[q].state = IF q = v /\ vetoed THEN "vetoed" ELSE rec[q].state
    BY <1>1, <2>1, <2>2 DEF Row
  <2> HIDE DEF v, js
  <2>7. CASE q = v /\ vetoed
    <3>1. ~CanBeExecuted(q)'
      BY <2>2, <2>4, <2>5, <2>7 DEF CanBeExecuted
    <3>2. rec'[q].state = "vetoed"
      BY <2>6, <2>7
    <3>3. ~UnderWay(q)'
      BY <2>1 DEF UnderWay
    <3>4. QED
      BY <3>1, <3>2, <3>3 DEF VetoRow
  <2>8. CASE ~(q = v /\ vetoed)
    <3>1. rec'[q].state = rec[q].state
      BY <2>6, <2>8
    <3>2. QED
      BY <2>1, <2>4, <2>5, <3>1, VetoKept DEF OpsQuiet
  <2>9. QED
    BY <2>7, <2>8
<1>7. QED
  BY <1>2, <1>3, <1>4, <1>5, <1>6 DEF Tasks, RunJob

LEMMA StepVeto ==
    ASSUME TypeOK, [Next]_vars, NEW q \in Records, ~UnderWay(q)
    PROVE  VetoRow(q)
<1>1. CASE Watching
  BY <1>1, VetoWatch DEF Watching, Detail
<1>2. CASE Forum
  <2>1. UNCHANGED <<jobs, inflight, ops>> /\ rec[q] \in Row
    BY <1>2 DEF Forum, StartPasses, PollOpens, PollCloses, TypeOK
  <2>2. rec'[q].state = rec[q].state
    BY <1>2, <2>1 DEF Forum, StartPasses, PollOpens, PollCloses, Row
  <2>3. QED
    BY <2>1, <2>2, VetoKept DEF OpsQuiet
<1>3. CASE UNCHANGED vars
  BY <1>3, VetoKept DEF vars, OpsQuiet
<1>4. QED
  BY <1>1, <1>2, <1>3, VetoEditing, VetoDeciding, VetoOperations, VetoTasks DEF Next

\* The veto of a proposal leaves no job that could execute it, and none is added to a
\* vetoed one: not by a request, a vote, another job or a restart, unless it was under
\* way when the veto ran.
THEOREM VetoIsClean == Spec => VetoCancelsJobs
<1>1. TypeOK /\ [Next]_vars =>
        [\A r \in Records :
            /\ rec'[r].state = "vetoed" /\ rec[r].sip # 0 /\ ~UnderWay(r)
            /\ rec[r].state = "vetoed" => ~CanBeExecuted(r)
            => ~CanBeExecuted(r)']_vars
  BY StepVeto DEF VetoRow
<1>2. QED
  BY <1>1, TypeCorrect, PTL DEF Spec, VetoCancelsJobs

\* A vetoed proposal with a SIP, without jobs and with nothing under way stays so until
\* it is taken back or published again: no vote result, approval or job comes back to it.
THEOREM VetoedStaysVetoed == Spec => VetoHolds
<1>1. TypeOK /\ [Next]_vars =>
        [\A r \in Records :
            rec[r].state = "vetoed" /\ rec[r].sip # 0 /\ ~UnderWay(r) /\ ~CanBeExecuted(r) =>
                \/ rec'[r].state = "vetoed" /\ ~UnderWay(r)'
                \/ rec'[r].state \in {"withdrawn", "rejected", "draft"}]_vars
  BY StepVeto DEF VetoRow
<1>2. QED
  BY <1>1, TypeCorrect, PTL DEF Spec, VetoHolds
====
