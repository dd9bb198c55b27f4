---- MODULE PayoutsProofs ----
(***************************************************************************)
(* Theorems about Payouts, for every finite set of bundles and of          *)
(* applications and for every bound.                                       *)
(***************************************************************************)
EXTENDS Payouts, FiniteSetTheorems, SequenceTheorems, TLAPS

USE BundlesAssumption, KindsAssumption, NumbersAssumption

(* What the operators of the model do *)

\* The state map is a partial function of the state and the action.
LEMMA StateMapValues ==
    ASSUME NEW a \in Apps, NEW action \in Actions
    PROVE  /\ Allowed(a, action) <=>
                \/ app[a] = "open" /\ action \in {"approve", "reject"}
                \/ app[a] = "approved" /\ action = "process"
                \/ app[a] = "rejected" /\ action = "approve"
                \/ app[a] = "processing" /\ action = "complete"
           /\ Allowed(a, action) =>
                NextState(a, action) = CASE action = "approve" -> "approved"
                                         [] action = "reject" -> "rejected"
                                         [] action = "process" -> "processing"
                                         [] action = "complete" -> "completed"
           /\ ~Allowed(a, action) => NextState(a, action) = app[a]
<1>1. Allowed(a, action) <=>
        \/ app[a] = "open" /\ action \in {"approve", "reject"}
        \/ app[a] = "approved" /\ action = "process"
        \/ app[a] = "rejected" /\ action = "approve"
        \/ app[a] = "processing" /\ action = "complete"
  BY DEF Allowed, StateMap, AppStates, Actions
<1>2. ASSUME Allowed(a, action)
      PROVE  NextState(a, action) = CASE action = "approve" -> "approved"
                                      [] action = "reject" -> "rejected"
                                      [] action = "process" -> "processing"
                                      [] action = "complete" -> "completed"
  <2> DEFINE P(s) == s \in AppStates /\ <<app[a], action, s>> \in StateMap
             result == CASE action = "approve" -> "approved"
                         [] action = "reject" -> "rejected"
                         [] action = "process" -> "processing"
                         [] action = "complete" -> "completed"
  <2>1. NextState(a, action) = CHOOSE s \in AppStates : <<app[a], action, s>> \in StateMap
    BY <1>2 DEF NextState
  <2>2. \A s \in AppStates : <<app[a], action, s>> \in StateMap => s = result
    BY DEF StateMap, Actions
  <2>3. \E s \in AppStates : <<app[a], action, s>> \in StateMap
    BY <1>2 DEF Allowed
  <2>4. QED
    BY <2>1, <2>2, <2>3
<1>3. QED
  BY <1>1, <1>2 DEF NextState

\* What an audit makes of an application.
LEMMA NextStates ==
    ASSUME TypeOK, NEW a \in Apps, NEW action \in Actions
    PROVE  /\ NextState(a, action) \in AppStates \cup {"none"}
           /\ app[a] = "none" <=> NextState(a, action) = "none"
           /\ NextState(a, action) = "open" =>
                app[a] = "open" /\ action \in {"process", "complete"}
           /\ NextState(a, action) = "rejected" =>
                app[a] = "rejected" \/ (app[a] = "open" /\ action = "reject")
           /\ app[a] = "completed" => NextState(a, action) = "completed"
BY StateMapValues DEF TypeOK, AppStates, Actions

LEMMA AppsAreFinite == ASSUME NEW S \in SUBSET Apps PROVE IsFiniteSet(S)
BY FS_Product, FS_Subset DEF Apps

LEMMA AmountType ==
    ASSUME NEW S \in SUBSET Apps, NEW x \in Assets
    PROVE  Amount(S, x) \in Nat
<1>1. {a \in S : IsCharged(a) /\ AssetOf(a) = x} \in SUBSET Apps
  OBVIOUS
<1>2. QED
  BY <1>1, AppsAreFinite, FS_CardinalityType DEF Amount

LEMMA MembersType == ASSUME NEW b \in Bundles PROVE Members(b) \in SUBSET Apps
BY DEF Members

LEMMA RequestFields ==
    ASSUME TypeOK, NEW i \in Slots
    PROVE  /\ req[i].stage \in {"idle", "bundle", "audit", "after"}
           /\ req[i].stage = "bundle" =>
                /\ req[i] = [stage |-> "bundle", action |-> req[i].action, bundle |-> req[i].bundle]
                /\ req[i].action \in {"approve", "reject"} /\ req[i].bundle \in Bundles
           /\ req[i].stage \in {"audit", "after"} =>
                /\ req[i] = [stage |-> req[i].stage, action |-> req[i].action, apps |-> req[i].apps]
                /\ req[i].action \in Actions /\ req[i].apps \in SUBSET Apps
           /\ req[i].stage = "idle" => req[i] = Idle
BY DEF TypeOK, Request, Idle

NewJob(S) == [apps |-> {a \in S : a[2] \in Transferred}, state |-> "active", task |-> "none"]

\* A new job is the last one; the others keep their places.
LEMMA WithJobIs ==
    ASSUME TypeOK, NEW S \in SUBSET Apps, RoomForJob
    PROVE  /\ WithJob(S) \in Seq(Job) /\ Len(WithJob(S)) <= MaxJobs
           /\ \/ WithJob(S) = jobs
              \/ /\ DOMAIN WithJob(S) = DOMAIN jobs \cup {Len(jobs) + 1}
                 /\ Len(jobs) + 1 \notin DOMAIN jobs
                 /\ \A j \in DOMAIN jobs : WithJob(S)[j] = jobs[j]
                 /\ WithJob(S)[Len(jobs) + 1] = NewJob(S)
<1>1. NewJob(S) \in Job
  BY DEF NewJob, Job, JobStates
<1>2. jobs \in Seq(Job) /\ Len(jobs) \in Nat /\ Len(jobs) < MaxJobs /\ DOMAIN jobs = 1..Len(jobs)
  BY LenProperties DEF TypeOK, RoomForJob
<1> DEFINE more == Append(jobs, NewJob(S))
<1>3. WithJob(S) = jobs \/ WithJob(S) = more
  BY DEF WithJob, NewJob
<1>4. /\ more \in Seq(Job)
      /\ Len(more) = Len(jobs) + 1
      /\ \A i \in 1..Len(jobs) : more[i] = jobs[i]
      /\ more[Len(jobs) + 1] = NewJob(S)
  BY <1>1, <1>2, AppendProperties
<1> HIDE DEF more
<1>5. DOMAIN more = 1..(Len(jobs) + 1)
  BY <1>4, LenProperties
<1>6. DOMAIN more = DOMAIN jobs \cup {Len(jobs) + 1} /\ Len(jobs) + 1 \notin DOMAIN jobs
  BY <1>2, <1>5
<1>7. Len(more) <= MaxJobs
  BY <1>2, <1>4
<1>8. QED
  BY <1>2, <1>3, <1>4, <1>6, <1>7

\* The jobs but for the state and the task of job j.
OnlyJob(j) ==
    /\ jobs' \in Seq(Job) /\ Len(jobs') <= MaxJobs
    /\ DOMAIN jobs' = DOMAIN jobs
    /\ \A k \in DOMAIN jobs : k # j => jobs'[k] = jobs[k]
    /\ jobs'[j].apps = jobs[j].apps

LEMMA ChangedJob ==
    ASSUME TypeOK, NEW j \in DOMAIN jobs, NEW new \in Job, new.apps = jobs[j].apps,
           jobs' = [jobs EXCEPT ![j] = new]
    PROVE  OnlyJob(j) /\ jobs'[j] = new
<1>1. jobs \in Seq(Job) /\ DOMAIN jobs = 1..Len(jobs)
  BY LenProperties DEF TypeOK
<1>2. /\ [jobs EXCEPT ![j] = new] \in Seq(Job)
      /\ Len([jobs EXCEPT ![j] = new]) = Len(jobs)
      /\ \A k \in 1..Len(jobs) : [jobs EXCEPT ![j] = new][k] = IF k = j THEN new ELSE jobs[k]
  BY <1>1, ExceptSeq
<1>3. DOMAIN jobs' = 1..Len(jobs')
  BY <1>2, LenProperties
<1>4. QED
  BY <1>1, <1>2, <1>3 DEF TypeOK, OnlyJob

\* What the steps of a job make of its state and task.
LEMMA JobSteps ==
    ASSUME TypeOK, NEW j \in DOMAIN jobs
    PROVE  /\ Dispatch(j) => OnlyJob(j) /\ jobs'[j].state = "active" /\ jobs'[j].task = "dispatched"
           /\ Start(j) => OnlyJob(j) /\ jobs'[j].state = "running" /\ jobs'[j].task = "running"
           /\ SendScr(j) =>
                /\ OnlyJob(j)
                /\ \/ jobs'[j].task = "sent" /\ jobs'[j].state = jobs[j].state
                   \/ jobs'[j].task = "none" /\ jobs'[j].state \in {"terminated", "done"}
                   \/ jobs'[j].task = "none" /\ jobs'[j].state = jobs[j].state /\ paid' = paid
           /\ RecordTransfer(j) => OnlyJob(j) /\ jobs'[j].state = "done" /\ jobs'[j].task = "none"
           /\ CancelAutoXferTask(j) =>
                OnlyJob(j) /\ jobs'[j].state = "terminated" /\ jobs'[j].task = jobs[j].task
<1>1. jobs[j] \in Job
  BY LenProperties, ElementOfSeq DEF TypeOK
<1>2. ASSUME Dispatch(j)
      PROVE  OnlyJob(j) /\ jobs'[j].state = "active" /\ jobs'[j].task = "dispatched"
  <2> DEFINE new == [jobs[j] EXCEPT !.task = "dispatched"]
  <2>1. new \in Job /\ new.apps = jobs[j].apps /\ new.state = jobs[j].state /\ new.task = "dispatched"
    BY <1>1 DEF Job, JobStates
  <2>2. jobs' = [jobs EXCEPT ![j] = new]
    BY <1>2 DEF Dispatch
  <2> HIDE DEF new
  <2>3. OnlyJob(j) /\ jobs'[j] = new
    BY <2>1, <2>2, ChangedJob
  <2>4. QED
    BY <1>2, <2>1, <2>3 DEF Dispatch
<1>3. ASSUME Start(j)
      PROVE  OnlyJob(j) /\ jobs'[j].state = "running" /\ jobs'[j].task = "running"
  <2> DEFINE new == [jobs[j] EXCEPT !.state = "running", !.task = "running"]
  <2>1. new \in Job /\ new.apps = jobs[j].apps /\ new.state = "running" /\ new.task = "running"
    BY <1>1 DEF Job, JobStates
  <2>2. jobs' = [jobs EXCEPT ![j] = new]
    BY <1>3 DEF Start
  <2> HIDE DEF new
  <2>3. OnlyJob(j) /\ jobs'[j] = new
    BY <2>1, <2>2, ChangedJob
  <2>4. QED
    BY <1>3, <2>1, <2>3 DEF Start
<1>4. ASSUME SendScr(j)
      PROVE  /\ OnlyJob(j)
             /\ \/ jobs'[j].task = "sent" /\ jobs'[j].state = jobs[j].state
                \/ jobs'[j].task = "none" /\ jobs'[j].state \in {"terminated", "done"}
                \/ jobs'[j].task = "none" /\ jobs'[j].state = jobs[j].state /\ paid' = paid
  <2> DEFINE sent == [jobs[j] EXCEPT !.task = "sent"]
             ended(state) == [jobs[j] EXCEPT !.state = state, !.task = "none"]
             left == [jobs[j] EXCEPT !.task = "none"]
  <2>1. /\ sent \in Job /\ sent.apps = jobs[j].apps
        /\ sent.state = jobs[j].state /\ sent.task = "sent"
    BY <1>1 DEF Job, JobStates
  <2>2. /\ left \in Job /\ left.apps = jobs[j].apps
        /\ left.state = jobs[j].state /\ left.task = "none"
    BY <1>1 DEF Job, JobStates
  <2>3. ASSUME NEW state \in {"terminated", "done"}
        PROVE  /\ ended(state) \in Job /\ ended(state).apps = jobs[j].apps
               /\ ended(state).state = state /\ ended(state).task = "none"
    BY <1>1 DEF Job, JobStates
  <2>4. \/ jobs' = [jobs EXCEPT ![j] = sent]
        \/ \E state \in {"terminated", "done"} : jobs' = [jobs EXCEPT ![j] = ended(state)]
        \/ jobs' = [jobs EXCEPT ![j] = left] /\ paid' = paid
    BY <1>4 DEF SendScr
  <2> HIDE DEF sent, ended, left
  <2>5. CASE jobs' = [jobs EXCEPT ![j] = sent]
    BY <2>1, <2>5, ChangedJob
  <2>6. CASE \E state \in {"terminated", "done"} : jobs' = [jobs EXCEPT ![j] = ended(state)]
    BY <2>3, <2>6, ChangedJob
  <2>7. CASE jobs' = [jobs EXCEPT ![j] = left] /\ paid' = paid
    BY <2>2, <2>7, ChangedJob
  <2>8. QED
    BY <2>4, <2>5, <2>6, <2>7
<1>5. ASSUME RecordTransfer(j)
      PROVE  OnlyJob(j) /\ jobs'[j].state = "done" /\ jobs'[j].task = "none"
  <2> DEFINE new == [jobs[j] EXCEPT !.state = "done", !.task = "none"]
  <2>1. new \in Job /\ new.apps = jobs[j].apps /\ new.state = "done" /\ new.task = "none"
    BY <1>1 DEF Job, JobStates
  <2>2. jobs' = [jobs EXCEPT ![j] = new]
    BY <1>5 DEF RecordTransfer
  <2> HIDE DEF new
  <2>3. OnlyJob(j) /\ jobs'[j] = new
    BY <2>1, <2>2, ChangedJob
  <2>4. QED
    BY <1>5, <2>1, <2>3 DEF RecordTransfer
<1>6. ASSUME CancelAutoXferTask(j)
      PROVE  OnlyJob(j) /\ jobs'[j].state = "terminated" /\ jobs'[j].task = jobs[j].task
  <2> DEFINE new == [jobs[j] EXCEPT !.state = "terminated"]
  <2>1. new \in Job /\ new.apps = jobs[j].apps /\ new.state = "terminated" /\ new.task = jobs[j].task
    BY <1>1 DEF Job, JobStates
  <2>2. jobs' = [jobs EXCEPT ![j] = new]
    BY <1>6 DEF CancelAutoXferTask
  <2> HIDE DEF new
  <2>3. OnlyJob(j) /\ jobs'[j] = new
    BY <2>1, <2>2, ChangedJob
  <2>4. QED
    BY <1>6, <2>1, <2>3 DEF CancelAutoXferTask
<1>7. QED
  BY <1>2, <1>3, <1>4, <1>5, <1>6

----
(* Types *)

LEMMA InitTypeOK == Init => TypeOK
<1> SUFFICES ASSUME Init PROVE TypeOK
  OBVIOUS
<1>1. jobs \in Seq(Job) /\ Len(jobs) <= MaxJobs
  BY EmptySeq DEF Init
<1>2. QED
  BY <1>1 DEF Init, TypeOK, AppStates, BundleKinds, Idle

LEMMA DepositType ==
    ASSUME TypeOK, NEW S \in SUBSET Apps, Deposit(S)
    PROVE  used' \in [Assets -> 0..Total]
<1>1. ASSUME NEW x \in Assets
      PROVE  used[x] - Amount(S, x) \in 0..Total
  BY AmountType DEF Deposit, TypeOK
<1>2. QED
  BY <1>1 DEF Deposit

LEMMA AuditedType ==
    ASSUME TypeOK, NEW S \in SUBSET Apps, NEW action \in Actions
    PROVE  Audited(S, action) \in [Apps -> AppStates \cup {"none"}]
BY NextStates DEF Audited, TypeOK

LEMMA BundleStates ==
    ASSUME TypeOK, NEW b \in Bundles, NEW state \in AppStates
    PROVE  /\ [bundle[b] EXCEPT !.state = state] \in [state: AppStates \cup {"none"}, kind: BundleKinds]
           /\ [bundle[b] EXCEPT !.state = state].state = state
           /\ [bundle[b] EXCEPT !.state = state].kind = bundle[b].kind
BY DEF TypeOK

LEMMA RequestTypes ==
    ASSUME TypeOK, NEW i \in Slots
    PROVE  /\ End(i) => req' \in [Slots -> Request \cup {Idle}]
           /\ \A q \in Request : Begin(i, q) => req' \in [Slots -> Request \cup {Idle}]
BY DEF TypeOK, End, Begin

LEMMA CreatingType ==
    ASSUME TypeOK, Creating
    PROVE  TypeOK'
<1>1. ASSUME NEW b \in Bundles, NEW S \in SUBSET Items, NEW kind \in Kinds,
             CreateAppBundle(b, kind, S)
      PROVE  TypeOK'
  <2>1. bundle' \in [Bundles -> [state: AppStates \cup {"none"}, kind: BundleKinds]]
    BY <1>1 DEF CreateAppBundle, TypeOK, AppStates
  <2>2. app' \in [Apps -> AppStates \cup {"none"}]
    BY <1>1 DEF CreateAppBundle, TypeOK, AppStates
  <2>3. ASSUME NEW x \in Assets PROVE used'[x] \in 0..Total
    <3> DEFINE N == {i \in S : AssetOf(<<b, i>>) = x}
    <3>1. Cardinality(N) \in Nat
      BY FS_Subset, FS_CardinalityType
    <3>2. used'[x] = used[x] + IF kind = "budgeted" THEN Cardinality(N) ELSE 0
      BY <1>1 DEF CreateAppBundle
    <3>3. used[x] \in Nat /\ used'[x] <= Total
      BY <1>1 DEF CreateAppBundle, TypeOK
    <3> HIDE DEF N
    <3>4. QED
      BY <3>1, <3>2, <3>3
  <2>4. used' \in [Assets -> 0..Total]
    BY <1>1, <2>3 DEF CreateAppBundle
  <2>5. QED
    BY <1>1, <2>1, <2>2, <2>4 DEF CreateAppBundle, TypeOK
<1>2. ASSUME NEW b \in Bundles, NEW S \in SUBSET Items, CreateReward(b, S)
      PROVE  TypeOK'
  <2>1. bundle' \in [Bundles -> [state: AppStates \cup {"none"}, kind: BundleKinds]]
    BY <1>2 DEF CreateReward, TypeOK, AppStates, BundleKinds
  <2>2. app' \in [Apps -> AppStates \cup {"none"}]
    BY <1>2 DEF CreateReward, TypeOK, AppStates
  <2>3. jobs' \in Seq(Job) /\ Len(jobs') <= MaxJobs
    <3>1. {b} \X S \in SUBSET Apps
      BY DEF Apps
    <3>2. QED
      BY <1>2, <3>1, WithJobIs DEF CreateReward
  <2>4. QED
    BY <1>2, <2>1, <2>2, <2>3 DEF CreateReward, TypeOK
<1>3. ASSUME NEW b \in Bundles, CreateRewardFails(b)
      PROVE  TypeOK'
  BY <1>3 DEF CreateRewardFails, TypeOK, AppStates, BundleKinds
<1>4. QED
  BY <1>1, <1>2, <1>3 DEF Creating

LEMMA DecidingType ==
    ASSUME TypeOK, NEW i \in Slots, req[i] \in Request
    PROVE  /\ UpdateAppBundle(i) => TypeOK'
           /\ AuditApplications(i) => TypeOK'
           /\ AfterApprove(i) => TypeOK'
           /\ AfterList(i) => TypeOK'
<1> DEFINE q == req[i]
<1>1. ASSUME UpdateAppBundle(i) PROVE TypeOK'
  <2>1. q.bundle \in Bundles /\ q.action \in {"approve", "reject"}
    BY <1>1, RequestFields DEF UpdateAppBundle
  <2>2. Members(q.bundle) \in SUBSET Apps /\ q.action \in Actions
    BY <2>1, MembersType DEF Actions
  <2>3. bundle' \in [Bundles -> [state: AppStates \cup {"none"}, kind: BundleKinds]]
    BY <1>1, <2>1 DEF UpdateAppBundle, TypeOK, AppStates
  <2>4. app' \in [Apps -> AppStates \cup {"none"}]
    BY <1>1, <2>2, AuditedType DEF UpdateAppBundle
  <2>5. used' \in [Assets -> 0..Total]
    BY <1>1, <2>2, DepositType DEF UpdateAppBundle, TypeOK
  <2>6. jobs' \in Seq(Job) /\ Len(jobs') <= MaxJobs
    BY <1>1, <2>2, WithJobIs DEF UpdateAppBundle
  <2>7. req' \in [Slots -> Request \cup {Idle}] /\ loose' \subseteq Apps
    BY <1>1, <2>2, RequestTypes DEF UpdateAppBundle, TypeOK
  <2>8. QED
    BY <1>1, <2>3, <2>4, <2>5, <2>6, <2>7 DEF UpdateAppBundle, TypeOK
<1>2. ASSUME AuditApplications(i) PROVE TypeOK'
  <2>1. q.apps \in SUBSET Apps /\ q.action \in Actions
    BY <1>2, RequestFields DEF AuditApplications
  <2>2. app' \in [Apps -> AppStates \cup {"none"}]
    BY <1>2, <2>1, AuditedType DEF AuditApplications
  <2>3. used' \in [Assets -> 0..Total]
    BY <1>2, <2>1, DepositType DEF AuditApplications, TypeOK
  <2>4. [q EXCEPT !.stage = "after"] \in Request
    <3>1. q = [stage |-> "audit", action |-> q.action, apps |-> q.apps]
      BY <1>2, RequestFields DEF AuditApplications
    <3>2. [q EXCEPT !.stage = "after"] = [stage |-> "after", action |-> q.action, apps |-> q.apps]
      BY <3>1
    <3>3. QED
      BY <2>1, <3>2 DEF Request
  <2>5. req' \in [Slots -> Request \cup {Idle}]
    BY <1>2, <2>4, RequestTypes DEF AuditApplications, TypeOK
  <2>6. QED
    BY <1>2, <2>2, <2>3, <2>5 DEF AuditApplications, TypeOK
<1>3. ASSUME AfterApprove(i) PROVE TypeOK'
  <2>1. q.apps \in SUBSET Apps
    BY <1>3, RequestFields DEF AfterApprove
  <2>2. jobs' \in Seq(Job) /\ Len(jobs') <= MaxJobs
    BY <1>3, <2>1, WithJobIs DEF AfterApprove
  <2>3. QED
    BY <1>3, <2>1, <2>2, RequestTypes DEF AfterApprove, TypeOK
<1>4. ASSUME AfterList(i) PROVE TypeOK'
  <2>1. bundle' \in [Bundles -> [state: AppStates \cup {"none"}, kind: BundleKinds]]
    <3> DEFINE state == IF q.action = "process" THEN "processing" ELSE "completed"
    <3>1. state \in AppStates
      BY DEF AppStates
    <3>2. bundle' = [b \in Bundles |->
                       IF \E a \in q.apps : a[1] = b THEN [bundle[b] EXCEPT !.state = state]
                       ELSE bundle[b]]
      BY <1>4 DEF AfterList
    <3> HIDE DEF state
    <3>3. QED
      BY <3>1, <3>2, BundleStates DEF TypeOK
  <2>2. QED
    BY <1>4, <2>1, RequestTypes DEF AfterList, TypeOK
<1>5. QED
  BY <1>1, <1>2, <1>3, <1>4

LEMMA TransferringType ==
    ASSUME TypeOK, NEW j \in DOMAIN jobs
    PROVE  /\ Dispatch(j) => TypeOK'
           /\ Start(j) => TypeOK'
           /\ SendScr(j) => TypeOK'
           /\ RecordTransfer(j) => TypeOK'
           /\ CancelAutoXferTask(j) => TypeOK'
<1>1. Dispatch(j) \/ Start(j) \/ CancelAutoXferTask(j) => TypeOK'
  BY JobSteps DEF OnlyJob, Dispatch, Start, CancelAutoXferTask, TypeOK
<1>2. ASSUME SendScr(j) PROVE TypeOK'
  <2>1. paid' \in [Apps -> 0..2]
    BY <1>2 DEF SendScr, Transfer, TypeOK
  <2>2. QED
    BY <1>2, <2>1, JobSteps DEF OnlyJob, SendScr, TypeOK
<1>3. ASSUME RecordTransfer(j) PROVE TypeOK'
  <2>1. app' \in [Apps -> AppStates \cup {"none"}]
    BY <1>3 DEF RecordTransfer, TypeOK, AppStates
  <2>2. bundle' \in [Bundles -> [state: AppStates \cup {"none"}, kind: BundleKinds]]
    <3>1. "completed" \in AppStates
      BY DEF AppStates
    <3>2. \/ bundle' = [b \in Bundles |-> IF Completes(b, jobs[j].apps)
                                          THEN [bundle[b] EXCEPT !.state = "completed"]
                                          ELSE bundle[b]]
          \/ bundle' = bundle
      BY <1>3 DEF RecordTransfer
    <3>3. QED
      BY <3>1, <3>2, BundleStates DEF TypeOK
  <2>3. QED
    BY <1>3, <2>1, <2>2, JobSteps DEF OnlyJob, RecordTransfer, TypeOK
<1>4. QED
  BY <1>1, <1>2, <1>3

LEMMA RestartJobs ==
    ASSUME TypeOK, Restart
    PROVE  /\ jobs' \in Seq(Job) /\ Len(jobs') <= MaxJobs
           /\ DOMAIN jobs' = DOMAIN jobs
           /\ \A j \in DOMAIN jobs :
                /\ jobs'[j].apps = jobs[j].apps
                /\ jobs'[j].state = jobs[j].state /\ jobs'[j].task = "none"
<1> DEFINE n == Len(jobs)
<1>1. jobs \in Seq(Job) /\ n \in Nat /\ DOMAIN jobs = 1..n /\ \A j \in 1..n : jobs[j] \in Job
  BY LenProperties, ElementOfSeq DEF TypeOK
<1>2. \A j \in 1..n : [jobs[j] EXCEPT !.task = "none"] \in Job
  BY <1>1 DEF Job
<1>3. jobs' = [j \in 1..n |-> [jobs[j] EXCEPT !.task = "none"]]
  BY <1>1 DEF Restart
<1>4. jobs' \in [1..n -> Job]
  BY <1>2, <1>3
<1>5. jobs' \in Seq(Job) /\ Len(jobs') = n
  <2>1. jobs' \in Seq(Job)
    BY <1>1, <1>4, SeqDef
  <2>2. QED
    BY <1>1, <1>4, <2>1, LenProperties
<1>6. \A j \in 1..n :
        /\ jobs'[j].apps = jobs[j].apps
        /\ jobs'[j].state = jobs[j].state /\ jobs'[j].task = "none"
  BY <1>1, <1>3 DEF Job
<1>7. QED
  BY <1>1, <1>4, <1>5, <1>6 DEF TypeOK

LEMMA TypeStep == TypeOK /\ [Next]_vars => TypeOK'
<1> SUFFICES ASSUME TypeOK, [Next]_vars PROVE TypeOK'
  OBVIOUS
<1>1. CASE Creating
  BY <1>1, CreatingType
<1>2. CASE Deciding
  <2> PICK i \in Slots :
        \/ \E b \in Bundles, action \in {"approve", "reject"} : BeginBundle(i, b, action)
        \/ \E S \in SUBSET Apps, action \in {"approve", "reject"} : BeginAudit(i, S, action)
        \/ BeginProcess(i) \/ BeginComplete(i)
        \/ UpdateAppBundle(i) \/ AuditApplications(i)
        \/ AfterApprove(i) \/ AfterList(i) \/ RequestFails(i)
    BY <1>2 DEF Deciding
  <2>1. ASSUME NEW b \in Bundles, NEW action \in {"approve", "reject"}, BeginBundle(i, b, action)
        PROVE  TypeOK'
    <3>1. [stage |-> "bundle", action |-> action, bundle |-> b] \in Request
      BY DEF Request
    <3>2. QED
      BY <2>1, <3>1, RequestTypes DEF BeginBundle, TypeOK
  <2>2. ASSUME NEW S \in SUBSET Apps, NEW action \in Actions, BeginAudit(i, S, action)
        PROVE  TypeOK'
    <3>1. [stage |-> "audit", action |-> action, apps |-> S] \in Request
      BY DEF Request
    <3>2. QED
      BY <2>2, <3>1, RequestTypes DEF BeginAudit, TypeOK
  <2>3. BeginProcess(i) \/ BeginComplete(i) => TypeOK'
    BY <2>2 DEF BeginProcess, BeginComplete, Actions
  <2>4. RequestFails(i) => TypeOK'
    BY RequestTypes DEF RequestFails, TypeOK
  <2>5. UpdateAppBundle(i) \/ AuditApplications(i) \/ AfterApprove(i) \/ AfterList(i) => TypeOK'
    <3>1. UpdateAppBundle(i) \/ AuditApplications(i) \/ AfterApprove(i) \/ AfterList(i)
            => req[i] \in Request
      BY DEF TypeOK, UpdateAppBundle, AuditApplications, AfterApprove, AfterList, Idle
    <3>2. QED
      BY <3>1, DecidingType
  <2>6. {"approve", "reject"} \subseteq Actions
    BY DEF Actions
  <2>7. QED
    BY <2>1, <2>2, <2>3, <2>4, <2>5, <2>6
<1>3. CASE Transferring
  BY <1>3, TransferringType DEF Transferring
<1>4. CASE Restart
  <2>1. restarts' \in 0..MaxRestarts /\ req' \in [Slots -> Request \cup {Idle}]
    BY <1>4 DEF Restart, TypeOK
  <2>2. QED
    BY <1>4, <2>1, RestartJobs DEF Restart, TypeOK
<1>5. CASE UNCHANGED vars
  BY <1>5 DEF vars, TypeOK
<1>6. QED
  BY <1>1, <1>2, <1>3, <1>4, <1>5 DEF Next

\* The variables keep their types: amounts never leave the budget, and every job and
\* request names applications and bundles that exist.
THEOREM TypeCorrect == Spec => []TypeOK
BY InitTypeOK, TypeStep, PTL DEF Spec

----
(* Who is paid, and how often *)

Decided(a) == app[a] \notin {"none", "open"}
MayPay(j) == jobs[j].state = "active" \/ jobs[j].task \in {"dispatched", "running"}

\* Applications exist in bundles that exist.
AppsHaveBundles == \A a \in Apps : app[a] # "none" => bundle[a[1]].state # "none"

\* A request names applications that exist; they are decided after an approval, and
\* before one that follows a decision.
RequestsAreDecided ==
    \A i \in Slots : req[i].stage \in {"audit", "after"} =>
        \A a \in req[i].apps :
            /\ app[a] # "none"
            /\ req[i].stage = "after" \/ req[i].action \in {"process", "complete"} => Decided(a)

\* The applications of a job are decided; rejected only when it is a loose one.
JobsAreDecided ==
    \A j \in DOMAIN jobs : \A a \in jobs[j].apps :
        Decided(a) /\ (a \notin loose => app[a] # "rejected")

OneJob ==
    \A j, k \in DOMAIN jobs : \A a \in jobs[j].apps \cap jobs[k].apps : a \notin loose => j = k

PaidThroughJob == \A a \in Apps : paid[a] > 0 => \E j \in DOMAIN jobs : a \in jobs[j].apps

\* A job that may still transfer has not: it is dispatched once, from active.
SentOnce ==
    \A j \in DOMAIN jobs :
        /\ jobs[j].task \in {"running", "sent"} => jobs[j].state # "active"
        /\ MayPay(j) => \A a \in jobs[j].apps \ loose : paid[a] = 0

PayInv ==
    /\ TypeOK
    /\ AppsHaveBundles
    /\ RequestsAreDecided
    /\ JobsAreDecided
    /\ OneJob
    /\ PaidThroughJob
    /\ SentOnce
    /\ PaidOnce

\* What every step does with the applications and the history.
Advance ==
    /\ \A a \in Apps :
        /\ app[a] # "none" => app'[a] # "none"
        /\ Decided(a) => Decided(a)'
        /\ app'[a] = "rejected" => app[a] \in {"open", "rejected"}
        /\ app'[a] # "none" => bundle'[a[1]].state # "none"
    /\ loose \subseteq loose'

RequestsKept == \A i \in Slots : req'[i] = req[i] \/ req'[i].stage \notin {"audit", "after"}

JobsKept ==
    /\ paid' = paid
    /\ DOMAIN jobs' = DOMAIN jobs
    /\ \A j \in DOMAIN jobs :
        /\ jobs'[j].apps = jobs[j].apps
        /\ MayPay(j)' => MayPay(j)
        /\ jobs'[j].task \in {"running", "sent"} => jobs'[j].state # "active"

JobInv == JobsAreDecided /\ OneJob /\ PaidThroughJob /\ SentOnce /\ PaidOnce

LEMMA RequestsStep ==
    ASSUME PayInv, Advance, RequestsKept
    PROVE  RequestsAreDecided'
<1> SUFFICES ASSUME NEW i \in Slots, req'[i].stage \in {"audit", "after"}, NEW a \in req'[i].apps
             PROVE  /\ app'[a] # "none"
                    /\ req'[i].stage = "after" \/ req'[i].action \in {"process", "complete"} => Decided(a)'
  BY DEF RequestsAreDecided
<1>1. req'[i] = req[i]
  BY DEF RequestsKept
<1>2. a \in Apps
  BY <1>1, RequestFields DEF PayInv
<1>3. app[a] # "none" /\ (req[i].stage = "after" \/ req[i].action \in {"process", "complete"} => Decided(a))
  BY <1>1 DEF PayInv, RequestsAreDecided
<1>4. QED
  BY <1>1, <1>2, <1>3 DEF Advance

LEMMA JobApps ==
    ASSUME TypeOK, NEW j \in DOMAIN jobs
    PROVE  jobs[j] \in Job /\ jobs[j].apps \subseteq Apps
<1>1. jobs[j] \in Job
  BY LenProperties, ElementOfSeq DEF TypeOK
<1>2. QED
  BY <1>1 DEF Job

LEMMA KeptStep ==
    ASSUME PayInv, Advance, JobsKept
    PROVE  JobInv'
<1>1. JobsAreDecided'
  <2> SUFFICES ASSUME NEW j \in DOMAIN jobs, NEW a \in jobs[j].apps
               PROVE  Decided(a)' /\ (a \notin loose' => app'[a] # "rejected")
    BY DEF JobsAreDecided, JobsKept
  <2>1. a \in Apps /\ Decided(a) /\ (a \notin loose => app[a] # "rejected")
    BY JobApps DEF PayInv, JobsAreDecided
  <2>2. QED
    BY <2>1 DEF Advance, Decided
<1>2. OneJob'
  BY DEF PayInv, OneJob, JobsKept, Advance
<1>3. PaidThroughJob'
  BY DEF PayInv, PaidThroughJob, JobsKept
<1>4. SentOnce'
  <2> SUFFICES ASSUME NEW j \in DOMAIN jobs
               PROVE  /\ jobs'[j].task \in {"running", "sent"} => jobs'[j].state # "active"
                      /\ MayPay(j)' => \A a \in jobs[j].apps \ loose' : paid[a] = 0
    BY DEF SentOnce, JobsKept
  <2>1. QED
    BY DEF PayInv, SentOnce, JobsKept, Advance
<1>5. PaidOnce'
  BY DEF PayInv, PaidOnce, JobsKept, Advance
<1>6. QED
  BY <1>1, <1>2, <1>3, <1>4, <1>5 DEF JobInv

LEMMA AddedStep ==
    ASSUME PayInv, Advance, NEW S \in SUBSET Apps, RoomForJob, jobs' = WithJob(S), paid' = paid,
           \A a \in S :
                /\ Decided(a)'
                /\ a \notin loose' =>
                     /\ app'[a] # "rejected"
                     /\ a \notin loose => ~Decided(a) \/ app[a] = "rejected"
    PROVE  JobInv'
<1>1. CASE jobs' = jobs
  <2>1. JobsKept
    BY <1>1 DEF PayInv, SentOnce, MayPay, JobsKept
  <2>2. QED
    BY <2>1, KeptStep
<1>2. CASE jobs' # jobs
  <2> DEFINE n == Len(jobs) + 1
  <2>1. /\ DOMAIN jobs' = DOMAIN jobs \cup {n} /\ n \notin DOMAIN jobs
        /\ \A j \in DOMAIN jobs : jobs'[j] = jobs[j]
        /\ jobs'[n] = NewJob(S)
    BY <1>2, WithJobIs DEF PayInv
  <2> HIDE DEF n
  <2>2. /\ jobs'[n].apps \subseteq S
        /\ jobs'[n].state = "active" /\ jobs'[n].task = "none"
    BY <2>1 DEF NewJob
  <2>3. \A j \in DOMAIN jobs : jobs[j].apps \subseteq Apps
    BY JobApps DEF PayInv
  <2>4. \A a \in S \ loose' : a \in Apps /\ \A j \in DOMAIN jobs : a \notin jobs[j].apps
    BY DEF PayInv, JobsAreDecided, Advance
  <2>5. JobsAreDecided'
    <3> SUFFICES ASSUME NEW j \in DOMAIN jobs', NEW a \in jobs'[j].apps
                 PROVE  Decided(a)' /\ (a \notin loose' => app'[a] # "rejected")
      BY DEF JobsAreDecided
    <3>1. CASE j = n
      BY <2>2, <3>1
    <3>2. CASE j \in DOMAIN jobs
      <4>1. a \in Apps /\ Decided(a) /\ (a \notin loose => app[a] # "rejected")
        BY <2>1, <2>3, <3>2 DEF PayInv, JobsAreDecided
      <4>2. QED
        BY <4>1 DEF Advance, Decided
    <3>3. QED
      BY <2>1, <3>1, <3>2
  <2>6. OneJob'
    <3> SUFFICES ASSUME NEW j \in DOMAIN jobs', NEW k \in DOMAIN jobs',
                        NEW a \in jobs'[j].apps \cap jobs'[k].apps, a \notin loose'
                 PROVE  j = k
      BY DEF OneJob
    <3>1. CASE j \in DOMAIN jobs /\ k \in DOMAIN jobs
      BY <2>1, <3>1 DEF PayInv, OneJob, Advance
    <3>2. CASE j = n \/ k = n
      BY <2>1, <2>2, <2>4, <3>2
    <3>3. QED
      BY <2>1, <3>1, <3>2
  <2>7. PaidThroughJob'
    BY <2>1 DEF PayInv, PaidThroughJob
  <2>8. SentOnce'
    <3> SUFFICES ASSUME NEW j \in DOMAIN jobs'
                 PROVE  /\ jobs'[j].task \in {"running", "sent"} => jobs'[j].state # "active"
                        /\ MayPay(j)' => \A a \in jobs'[j].apps \ loose' : paid[a] = 0
      BY DEF SentOnce
    <3>1. CASE j \in DOMAIN jobs
      BY <2>1, <3>1 DEF PayInv, SentOnce, MayPay, Advance
    <3>2. CASE j = n
      <4>1. \A a \in jobs'[n].apps \ loose' : paid[a] = 0
        BY <2>2, <2>4 DEF PayInv, PaidThroughJob, TypeOK
      <4>2. QED
        BY <2>2, <3>2, <4>1
    <3>3. QED
      BY <2>1, <3>1, <3>2
  <2>9. PaidOnce'
    BY DEF PayInv, PaidOnce, Advance
  <2>10. QED
    BY <2>5, <2>6, <2>7, <2>8, <2>9 DEF JobInv
<1>3. QED
  BY <1>1, <1>2

LEMMA FreshApps ==
    ASSUME PayInv, NEW b \in Bundles, Fresh(b), NEW S \in SUBSET Items
    PROVE  /\ {b} \X S \in SUBSET Apps
           /\ \A a \in Apps : a[1] = b => app[a] = "none"
           /\ \A a \in {b} \X S : a[1] = b
BY DEF PayInv, AppsHaveBundles, Fresh, Apps

LEMMA CreatingPays ==
    ASSUME PayInv, Creating
    PROVE  Advance /\ RequestsKept /\ JobInv'
<1>1. ASSUME NEW b \in Bundles, NEW S \in SUBSET Items, NEW kind \in Kinds,
             CreateAppBundle(b, kind, S)
      PROVE  Advance /\ RequestsKept /\ JobInv'
  <2>1. Fresh(b)
    BY <1>1 DEF CreateAppBundle
  <2>2. Advance
    BY <1>1, <2>1, FreshApps DEF CreateAppBundle, Advance, Decided, PayInv, TypeOK, AppsHaveBundles, Apps
  <2>3. JobsKept /\ RequestsKept
    BY <1>1 DEF CreateAppBundle, JobsKept, RequestsKept, MayPay, PayInv, SentOnce
  <2>4. QED
    BY <2>2, <2>3, KeptStep
<1>2. ASSUME NEW b \in Bundles, NEW S \in SUBSET Items, CreateReward(b, S)
      PROVE  Advance /\ RequestsKept /\ JobInv'
  <2>1. Fresh(b)
    BY <1>2 DEF CreateReward
  <2>2. Advance /\ RequestsKept
    BY <1>2, <2>1, FreshApps DEF CreateReward, Advance, RequestsKept, Decided, PayInv, TypeOK, AppsHaveBundles, Apps
  <2>3. \A a \in {b} \X S : Decided(a)' /\ app'[a] # "rejected" /\ ~Decided(a)
    BY <1>2, <2>1, FreshApps DEF CreateReward, Decided
  <2>4. {b} \X S \in SUBSET Apps
    BY <2>1, FreshApps
  <2>5. JobInv'
    BY <1>2, <2>2, <2>3, <2>4, AddedStep DEF CreateReward
  <2>6. QED
    BY <2>2, <2>5
<1>3. ASSUME NEW b \in Bundles, CreateRewardFails(b)
      PROVE  Advance /\ RequestsKept /\ JobInv'
  <2>1. Advance
    BY <1>3 DEF CreateRewardFails, Advance, Decided, PayInv, TypeOK, AppsHaveBundles, Apps
  <2>2. JobsKept /\ RequestsKept
    BY <1>3 DEF CreateRewardFails, JobsKept, RequestsKept, MayPay, PayInv, SentOnce
  <2>3. QED
    BY <2>1, <2>2, KeptStep
<1>4. QED
  BY <1>1, <1>2, <1>3 DEF Creating

\* An audit moves no application back.
LEMMA AuditAdvances ==
    ASSUME PayInv, NEW S \in SUBSET Apps, NEW action \in Actions, app' = Audited(S, action),
           action \in {"process", "complete"} => \A a \in S : Decided(a),
           \A b \in Bundles : bundle[b].state # "none" => bundle'[b].state # "none",
           loose \subseteq loose'
    PROVE  Advance
<1> SUFFICES ASSUME NEW a \in Apps
             PROVE  /\ app[a] # "none" => app'[a] # "none"
                    /\ Decided(a) => Decided(a)'
                    /\ app'[a] = "rejected" => app[a] \in {"open", "rejected"}
                    /\ app'[a] # "none" => bundle'[a[1]].state # "none"
  BY DEF Advance
<1>1. app'[a] = IF a \in S THEN NextState(a, action) ELSE app[a]
  BY DEF Audited
<1>2. a[1] \in Bundles
  BY DEF Apps
<1>3. app[a] # "none" => bundle'[a[1]].state # "none"
  BY <1>2 DEF PayInv, AppsHaveBundles
<1>4. QED
  BY <1>1, <1>3, NextStates DEF PayInv, Decided

LEMMA UpdateAppBundlePays ==
    ASSUME PayInv, NEW i \in Slots, UpdateAppBundle(i)
    PROVE  Advance /\ RequestsKept /\ JobInv'
<1> DEFINE q == req[i]
           S == Members(q.bundle)
<1>1. q.bundle \in Bundles /\ q.action \in {"approve", "reject"} /\ q.action \in Actions
  BY RequestFields DEF UpdateAppBundle, PayInv, Actions
<1>2. S \in SUBSET Apps
  BY <1>1, MembersType
<1>3. Advance
  <2>1. \A b \in Bundles : bundle[b].state # "none" => bundle'[b].state # "none"
    BY <1>1 DEF UpdateAppBundle, PayInv, TypeOK
  <2>2. app' = Audited(S, q.action) /\ loose \subseteq loose'
    BY DEF UpdateAppBundle
  <2>3. q.action \notin {"process", "complete"}
    BY <1>1
  <2>4. QED
    BY <1>1, <1>2, <2>1, <2>2, <2>3, AuditAdvances
<1>4. RequestsKept
  BY DEF UpdateAppBundle, End, Idle, RequestsKept, PayInv, TypeOK
<1>5. ASSUME NEW a \in S
      PROVE  /\ Decided(a)'
             /\ a \notin loose' =>
                  /\ app'[a] # "rejected"
                  /\ a \notin loose => ~Decided(a) \/ app[a] = "rejected"
  <2>1. a \in Apps /\ Allowed(a, q.action)
    BY <1>2 DEF UpdateAppBundle
  <2>2. app'[a] = NextState(a, q.action)
    BY <2>1 DEF UpdateAppBundle, Audited
  <2>3. app[a] = "open" \/ app[a] = "rejected"
    BY <1>1, <2>1, StateMapValues
  <2>4. app'[a] = IF q.action = "approve" THEN "approved" ELSE "rejected"
    BY <1>1, <2>1, <2>2, StateMapValues
  <2>5. q.action = "reject" => a \in loose'
    BY DEF UpdateAppBundle
  <2>6. QED
    BY <1>1, <2>3, <2>4, <2>5 DEF Decided
<1>6. jobs' = WithJob(S) /\ paid' = paid /\ RoomForJob
  BY DEF UpdateAppBundle
<1> HIDE DEF S
<1>7. JobInv'
  BY <1>2, <1>3, <1>5, <1>6, AddedStep
<1>8. QED
  BY <1>3, <1>4, <1>7

LEMMA AuditApplicationsPays ==
    ASSUME PayInv, NEW i \in Slots, AuditApplications(i)
    PROVE  Advance /\ RequestsAreDecided' /\ JobInv'
<1> DEFINE q == req[i]
<1>1. q.apps \in SUBSET Apps /\ q.action \in Actions /\ q.stage = "audit"
  BY RequestFields DEF AuditApplications, PayInv
<1>2. \A a \in q.apps : app[a] # "none" /\ (q.action \in {"process", "complete"} => Decided(a))
  BY <1>1 DEF PayInv, RequestsAreDecided
<1>3. Advance
  <2>1. app' = Audited(q.apps, q.action) /\ bundle' = bundle /\ loose' = loose
    BY DEF AuditApplications
  <2>2. QED
    BY <1>1, <1>2, <2>1, AuditAdvances
<1>4. JobInv'
  <2>1. JobsKept
    BY DEF AuditApplications, JobsKept, MayPay, PayInv, SentOnce
  <2>2. QED
    BY <1>3, <2>1, KeptStep
<1>5. RequestsAreDecided'
  <2>1. CASE q.action = "reject"
    <3>1. RequestsKept
      BY <2>1 DEF AuditApplications, End, Idle, RequestsKept, PayInv, TypeOK
    <3>2. QED
      BY <1>3, <3>1, RequestsStep
  <2>2. CASE q.action # "reject"
    <3>1. req' = [req EXCEPT ![i].stage = "after"]
      BY <2>2 DEF AuditApplications
    <3>2. q = [stage |-> "audit", action |-> q.action, apps |-> q.apps]
      BY <1>1, RequestFields DEF PayInv
    <3>3. req'[i].apps = q.apps /\ \A k \in Slots : k # i => req'[k] = req[k]
      BY <3>1, <3>2 DEF PayInv, TypeOK
    <3>4. ASSUME NEW a \in q.apps PROVE Decided(a)'
      <4>1. a \in Apps /\ app'[a] = NextState(a, q.action)
        BY <1>1 DEF AuditApplications, Audited
      <4>2. QED
        BY <1>1, <1>2, <4>1, NextStates DEF PayInv, Decided
    <3> SUFFICES ASSUME NEW k \in Slots, req'[k].stage \in {"audit", "after"}, NEW a \in req'[k].apps
                 PROVE  /\ app'[a] # "none"
                        /\ req'[k].stage = "after" \/ req'[k].action \in {"process", "complete"} => Decided(a)'
      BY DEF RequestsAreDecided
    <3>5. CASE k = i
      BY <3>3, <3>4, <3>5 DEF Decided
    <3>6. CASE k # i
      <4>1. req'[k] = req[k] /\ a \in Apps
        BY <3>3, <3>6, RequestFields DEF PayInv
      <4>2. QED
        BY <1>3, <4>1 DEF PayInv, RequestsAreDecided, Advance
    <3>7. QED
      BY <3>5, <3>6
  <2>3. QED
    BY <2>1, <2>2
<1>6. QED
  BY <1>3, <1>4, <1>5

LEMMA AfterPays ==
    ASSUME PayInv, NEW i \in Slots, AfterApprove(i) \/ AfterList(i)
    PROVE  Advance /\ RequestsKept /\ JobInv'
<1>1. RequestsKept
  BY DEF AfterApprove, AfterList, End, Idle, RequestsKept, PayInv, TypeOK
<1>2. ASSUME AfterApprove(i) PROVE Advance /\ JobInv'
  <2> DEFINE S == req[i].apps
  <2>1. S \in SUBSET Apps
    BY <1>2, RequestFields DEF AfterApprove, PayInv
  <2>2. Advance
    BY <1>2 DEF AfterApprove, Advance, Decided, PayInv, AppsHaveBundles
  <2>3. \A a \in S : Decided(a)' /\ a \in loose'
    BY <1>2, <2>1 DEF AfterApprove, PayInv, RequestsAreDecided, Decided
  <2>4. jobs' = WithJob(S) /\ paid' = paid /\ RoomForJob
    BY <1>2 DEF AfterApprove
  <2> HIDE DEF S
  <2>5. QED
    BY <2>1, <2>2, <2>3, <2>4, AddedStep
<1>3. ASSUME AfterList(i) PROVE Advance /\ JobInv'
  <2>1. \A b \in Bundles : bundle[b].state # "none" => bundle'[b].state # "none"
    BY <1>3 DEF AfterList, PayInv, TypeOK
  <2>2. Advance
    BY <1>3, <2>1 DEF AfterList, Advance, Decided, PayInv, AppsHaveBundles, Apps
  <2>3. JobsKept
    BY <1>3 DEF AfterList, JobsKept, MayPay, PayInv, SentOnce
  <2>4. QED
    BY <2>2, <2>3, KeptStep
<1>4. QED
  BY <1>1, <1>2, <1>3

\* Requests come and go: nothing else changes.
LEMMA RequestsPay ==
    ASSUME PayInv, NEW i \in Slots,
           \/ \E b \in Bundles, action \in {"approve", "reject"} : BeginBundle(i, b, action)
           \/ \E S \in SUBSET Apps, action \in {"approve", "reject"} : BeginAudit(i, S, action)
           \/ BeginProcess(i) \/ BeginComplete(i) \/ RequestFails(i)
    PROVE  Advance /\ RequestsAreDecided' /\ JobInv'
<1>1. UNCHANGED <<bundle, app, used, jobs, restarts, paid, loose>>
  BY DEF BeginBundle, BeginProcess, BeginComplete, BeginAudit, RequestFails
<1>2. Advance /\ JobsKept
  BY <1>1 DEF Advance, JobsKept, Decided, MayPay, PayInv, AppsHaveBundles, SentOnce
<1>3. JobInv'
  BY <1>2, KeptStep
<1>4. ASSUME NEW S \in SUBSET Apps, NEW action \in Actions, BeginAudit(i, S, action)
      PROVE  RequestsAreDecided'
  <2>1. \A a \in S : app[a] # "none" /\ (action \in {"process", "complete"} => Decided(a))
    BY <1>4, StateMapValues DEF BeginAudit, Decided
  <2>2. /\ req'[i].apps = S /\ req'[i].action = action /\ req'[i].stage = "audit"
        /\ \A k \in Slots : k # i => req'[k] = req[k]
    BY <1>4 DEF BeginAudit, Begin, PayInv, TypeOK
  <2>3. app' = app
    BY <1>1
  <2> SUFFICES ASSUME NEW k \in Slots, req'[k].stage \in {"audit", "after"}, NEW a \in req'[k].apps
               PROVE  /\ app[a] # "none"
                      /\ req'[k].stage = "after" \/ req'[k].action \in {"process", "complete"} => Decided(a)
    BY <2>3 DEF RequestsAreDecided, Decided
  <2>4. CASE k = i
    BY <2>1, <2>2, <2>4
  <2>5. CASE k # i
    BY <2>2, <2>5 DEF PayInv, RequestsAreDecided
  <2>6. QED
    BY <2>4, <2>5
<1>5. ASSUME NEW b \in Bundles, NEW action \in {"approve", "reject"}, BeginBundle(i, b, action)
      PROVE  RequestsAreDecided'
  <2>1. RequestsKept
    BY <1>5 DEF BeginBundle, Begin, RequestsKept, PayInv, TypeOK
  <2>2. QED
    BY <1>2, <2>1, RequestsStep
<1>6. ASSUME RequestFails(i) PROVE RequestsAreDecided'
  <2>1. RequestsKept
    BY <1>6 DEF RequestFails, End, Idle, RequestsKept, PayInv, TypeOK
  <2>2. QED
    BY <1>2, <2>1, RequestsStep
<1>7. BeginProcess(i) \/ BeginComplete(i) => RequestsAreDecided'
  BY <1>4 DEF BeginProcess, BeginComplete, Actions
<1>8. {"approve", "reject"} \subseteq Actions
  BY DEF Actions
<1>9. QED
  BY <1>2, <1>3, <1>4, <1>5, <1>6, <1>7, <1>8

LEMMA TransferringPays ==
    ASSUME PayInv, NEW j \in DOMAIN jobs,
           Dispatch(j) \/ Start(j) \/ SendScr(j) \/ RecordTransfer(j) \/ CancelAutoXferTask(j)
    PROVE  Advance /\ RequestsKept /\ JobInv'
<1>1. RequestsKept
  BY DEF Dispatch, Start, SendScr, RecordTransfer, CancelAutoXferTask, RequestsKept
<1>2. CASE Dispatch(j) \/ Start(j) \/ CancelAutoXferTask(j)
  <2>1. Advance
    BY <1>2 DEF Dispatch, Start, CancelAutoXferTask, Advance, Decided, PayInv, AppsHaveBundles
  <2>2. JobsKept
    <3>1. CASE Dispatch(j)
      BY <3>1, JobSteps DEF OnlyJob, JobsKept, MayPay, PayInv, SentOnce, Dispatch
    <3>2. CASE Start(j)
      BY <3>2, JobSteps DEF OnlyJob, JobsKept, MayPay, PayInv, SentOnce, Start
    <3>3. CASE CancelAutoXferTask(j)
      BY <3>3, JobSteps DEF OnlyJob, JobsKept, MayPay, PayInv, SentOnce, CancelAutoXferTask
    <3>4. QED
      BY <1>2, <3>1, <3>2, <3>3
  <2>3. QED
    BY <1>1, <2>1, <2>2, KeptStep
<1>3. CASE RecordTransfer(j)
  <2>1. Advance
    <3>1. jobs[j].apps \subseteq Apps /\ \A a \in jobs[j].apps : Decided(a)
      BY JobApps DEF PayInv, JobsAreDecided
    <3>2. \A b \in Bundles : bundle[b].state # "none" => bundle'[b].state # "none"
      BY <1>3 DEF RecordTransfer, PayInv, TypeOK
    <3>3. \A a \in Apps : app'[a] = app[a] \/ (a \in jobs[j].apps /\ app'[a] = "completed")
      BY <1>3 DEF RecordTransfer
    <3>4. loose' = loose
      BY <1>3 DEF RecordTransfer
    <3>5. \A a \in Apps : a[1] \in Bundles
      BY DEF Apps
    <3>6. QED
      BY <3>1, <3>2, <3>3, <3>4, <3>5 DEF Advance, Decided, PayInv, AppsHaveBundles
  <2>2. JobsKept
    BY <1>3, JobSteps DEF OnlyJob, JobsKept, MayPay, PayInv, SentOnce, RecordTransfer
  <2>3. QED
    BY <1>1, <2>1, <2>2, KeptStep
<1>4. CASE SendScr(j)
  <2> DEFINE S == jobs[j].apps
  <2>1. Advance
    BY <1>4 DEF SendScr, Advance, Decided, PayInv, AppsHaveBundles
  <2>2. /\ OnlyJob(j) /\ ~(jobs[j].state = "active") /\ jobs[j].task = "running"
        /\ \/ jobs'[j].task = "sent" /\ jobs'[j].state = jobs[j].state
           \/ jobs'[j].task = "none" /\ jobs'[j].state \in {"terminated", "done"}
           \/ jobs'[j].task = "none" /\ jobs'[j].state = jobs[j].state /\ paid' = paid
    BY <1>4, JobSteps DEF SendScr, PayInv, SentOnce
  <2>3. app' = app /\ loose' = loose
    BY <1>4 DEF SendScr
  <2>4. /\ S \subseteq Apps
        /\ \A a \in S \ loose : paid[a] = 0
        /\ \A k \in DOMAIN jobs : k # j => \A a \in jobs[k].apps \ loose : a \notin S
    BY <2>2, JobApps DEF PayInv, SentOnce, OneJob, MayPay
  <2>5. \A a \in Apps : paid'[a] = paid[a] \/ (a \in S /\ paid'[a] = paid[a] + 1)
    BY <1>4 DEF SendScr, Transfer
  <2>6. /\ DOMAIN jobs' = DOMAIN jobs
        /\ \A k \in DOMAIN jobs : jobs'[k].apps = jobs[k].apps
    BY <2>2 DEF OnlyJob
  <2>7. JobsAreDecided' /\ OneJob'
    BY <2>3, <2>6 DEF JobsAreDecided, OneJob, Decided, PayInv
  <2>8. PaidThroughJob'
    BY <2>5, <2>6 DEF PaidThroughJob, PayInv
  <2>9. SentOnce'
    <3> SUFFICES ASSUME NEW k \in DOMAIN jobs
                 PROVE  /\ jobs'[k].task \in {"running", "sent"} => jobs'[k].state # "active"
                        /\ MayPay(k)' => \A a \in jobs[k].apps \ loose : paid'[a] = 0
      BY <2>3, <2>6 DEF SentOnce
    <3>1. CASE k = j
      BY <2>2, <3>1 DEF MayPay
    <3>2. CASE k # j
      <4>1. jobs'[k] = jobs[k]
        BY <2>2, <3>2 DEF OnlyJob
      <4>2. \A a \in jobs[k].apps \ loose : a \in Apps /\ paid'[a] = paid[a]
        BY <2>4, <2>5, <3>2, JobApps DEF PayInv
      <4>3. QED
        BY <4>1, <4>2 DEF PayInv, SentOnce, MayPay
    <3>3. QED
      BY <3>1, <3>2
  <2>10. PaidOnce'
    BY <2>3, <2>4, <2>5 DEF PaidOnce, PayInv
  <2>11. QED
    BY <1>1, <2>1, <2>7, <2>8, <2>9, <2>10 DEF JobInv
<1>5. QED
  BY <1>2, <1>3, <1>4

LEMMA RestartPays ==
    ASSUME PayInv, Restart
    PROVE  Advance /\ RequestsKept /\ JobInv'
<1>1. Advance /\ RequestsKept
  BY DEF Restart, Advance, RequestsKept, Idle, Decided, PayInv, AppsHaveBundles
<1>2. JobsKept
  BY RestartJobs DEF Restart, JobsKept, MayPay, PayInv
<1>3. QED
  BY <1>1, <1>2, KeptStep

LEMMA PayInit == Init => PayInv
<1> SUFFICES ASSUME Init PROVE PayInv
  OBVIOUS
<1>1. \A i \in Slots : req[i].stage = "idle"
  BY DEF Init, Idle
<1>2. QED
  BY <1>1, InitTypeOK
     DEF Init, PayInv, AppsHaveBundles, RequestsAreDecided, JobsAreDecided, OneJob, PaidThroughJob,
         SentOnce, PaidOnce

\* Every step advances the applications and keeps the requests and the jobs in order.
LEMMA NextPays ==
    ASSUME PayInv, Next
    PROVE  Advance /\ RequestsAreDecided' /\ JobInv'
<1>1. Advance /\ RequestsKept => RequestsAreDecided'
  BY RequestsStep
<1>2. CASE Creating
  BY <1>1, <1>2, CreatingPays
<1>3. CASE Deciding
  BY <1>1, <1>3, RequestsPay, UpdateAppBundlePays, AuditApplicationsPays, AfterPays DEF Deciding
<1>4. CASE Transferring
  BY <1>1, <1>4, TransferringPays DEF Transferring
<1>5. CASE Restart
  BY <1>1, <1>5, RestartPays
<1>6. QED
  BY <1>2, <1>3, <1>4, <1>5 DEF Next

LEMMA PayStep == PayInv /\ [Next]_vars => PayInv'
<1> SUFFICES ASSUME PayInv, [Next]_vars PROVE PayInv'
  OBVIOUS
<1>1. TypeOK'
  BY TypeStep DEF PayInv
<1>2. CASE Next
  <2>1. Advance /\ RequestsAreDecided' /\ JobInv'
    BY <1>2, NextPays
  <2>2. AppsHaveBundles'
    BY <2>1 DEF Advance, AppsHaveBundles
  <2>3. QED
    BY <1>1, <2>1, <2>2 DEF PayInv, JobInv
<1>3. CASE UNCHANGED vars
  BY <1>1, <1>3 DEF vars, PayInv, AppsHaveBundles, RequestsAreDecided, JobsAreDecided, OneJob,
                    PaidThroughJob, SentOnce, PaidOnce, Decided, MayPay
<1>4. QED
  BY <1>2, <1>3

LEMMA PayAlways == Spec => []PayInv
BY PayInit, PayStep, PTL DEF Spec

\* An application that got its job by the approval of its bundle is transferred at most
\* once, however decisions race and whatever is cancelled or interrupted.
THEOREM PaidAtMostOnce == Spec => []PaidOnce
<1>1. PayInv => PaidOnce
  BY DEF PayInv
<1>2. QED
  BY <1>1, PayAlways, PTL

\* No application is transferred while nobody has decided it.
THEOREM PaidAfterDecision == Spec => []OpenIsUnpaid
<1>1. PayInv => OpenIsUnpaid
  BY DEF PayInv, OpenIsUnpaid, PaidThroughJob, JobsAreDecided, Decided
<1>2. QED
  BY <1>1, PayAlways, PTL

----
(* Completed *)

LEMMA CompletedStays ==
    ASSUME PayInv, Next, NEW a \in Apps, app[a] = "completed"
    PROVE  app'[a] = "completed"
<1>1. CASE Creating
  <2>1. ASSUME NEW b \in Bundles, NEW S \in SUBSET Items, Fresh(b)
        PROVE  a \notin {b} \X S
    BY <2>1, FreshApps
  <2>2. QED
    BY <1>1, <2>1 DEF Creating, CreateAppBundle, CreateReward, CreateRewardFails
<1>2. CASE Deciding
  <2> PICK i \in Slots : UpdateAppBundle(i) \/ AuditApplications(i) \/ app' = app
    BY <1>2 DEF Deciding, BeginBundle, BeginAudit, BeginProcess, BeginComplete, AfterApprove,
                AfterList, RequestFails
  <2>1. CASE UpdateAppBundle(i)
    <3>1. req[i].action \in Actions
      BY <2>1, RequestFields DEF UpdateAppBundle, PayInv, Actions
    <3>2. QED
      BY <2>1, <3>1, NextStates DEF UpdateAppBundle, Audited, PayInv
  <2>2. CASE AuditApplications(i)
    <3>1. req[i].action \in Actions
      BY <2>2, RequestFields DEF AuditApplications, PayInv
    <3>2. QED
      BY <2>2, <3>1, NextStates DEF AuditApplications, Audited, PayInv
  <2>3. QED
    BY <2>1, <2>2
<1>3. CASE Transferring
  BY <1>3 DEF Transferring, Dispatch, Start, SendScr, RecordTransfer, CancelAutoXferTask
<1>4. CASE Restart
  BY <1>4 DEF Restart
<1>5. QED
  BY <1>1, <1>2, <1>3, <1>4 DEF Next

\* A completed application stays completed: no decision under way takes it back.
THEOREM CompletedStaysCompleted == Spec => CompletedIsFinal
<1>1. PayInv /\ [Next]_vars =>
        [\A a \in Apps : app[a] = "completed" => app'[a] = "completed"]_vars
  BY CompletedStays
<1>2. QED
  BY <1>1, PayAlways, PTL DEF Spec, CompletedIsFinal

LEMMA CompletesAll ==
    ASSUME PayInv, Next, NEW b \in Bundles,
           bundle[b].state # "completed", bundle'[b].state = "completed", req' = req
    PROVE  \A a \in Members(b) : app'[a] = "completed"
<1>1. ~Creating
  <2>1. bundle \in [Bundles -> [state: AppStates \cup {"none"}, kind: BundleKinds]]
    BY DEF PayInv, TypeOK
  <2>2. ASSUME NEW c \in Bundles, NEW row, row.state # "completed",
               bundle' = [bundle EXCEPT ![c] = row]
        PROVE  FALSE
    BY <2>1, <2>2
  <2>3. /\ \A kind \in Kinds : [state |-> "open", kind |-> kind].state # "completed"
        /\ [state |-> "approved", kind |-> "reward"].state # "completed"
    OBVIOUS
  <2>4. QED
    BY <2>2, <2>3 DEF Creating, CreateAppBundle, CreateReward, CreateRewardFails
<1>2. ~Deciding
  <2> SUFFICES ASSUME NEW i \in Slots, UpdateAppBundle(i) \/ AfterList(i)
               PROVE  FALSE
    BY DEF Deciding, BeginBundle, BeginAudit, BeginProcess, BeginComplete, AuditApplications,
           AfterApprove, RequestFails
  <2>1. req'[i] = Idle
    BY DEF UpdateAppBundle, AfterList, End, PayInv, TypeOK
  <2>2. req[i] # Idle
    BY DEF UpdateAppBundle, AfterList, Idle
  <2>3. QED
    BY <2>1, <2>2
<1>3. PICK j \in DOMAIN jobs : RecordTransfer(j)
  BY <1>1, <1>2 DEF Next, Transferring, Dispatch, Start, SendScr, RecordTransfer,
                    CancelAutoXferTask, Restart
<1> DEFINE S == jobs[j].apps
           done == {a \in S : a[1] = b}
<1>4. Completes(b, S) /\ app' = [a \in Apps |-> IF a \in S THEN "completed" ELSE app[a]]
  BY <1>3 DEF RecordTransfer
<1>5. S \subseteq Apps /\ \A a \in S : app[a] # "none"
  BY JobApps DEF PayInv, JobsAreDecided, Decided
<1>6. done \in SUBSET Members(b) /\ IsFiniteSet(Members(b)) /\ Members(b) \subseteq Apps
  BY <1>5, MembersType, AppsAreFinite DEF Members
<1>7. Cardinality(done) = Cardinality(Members(b))
  BY <1>4 DEF Completes
<1>8. done = Members(b)
  BY <1>6, <1>7, FS_Subset
<1>9. QED
  BY <1>4, <1>6, <1>8

\* The transfer job completes a bundle only when nothing in it is left.
THEOREM BundleCompletedWithAll == Spec => CompletedWithAll
<1>1. PayInv /\ [Next]_vars =>
        [\A b \in Bundles :
            bundle[b].state # "completed" /\ bundle'[b].state = "completed" /\ req' = req
                => \A a \in Members(b) : app'[a] = "completed"]_vars
  BY CompletesAll
<1>2. QED
  BY <1>1, PayAlways, PTL DEF Spec, CompletedWithAll

----
(* What is charged *)

Live == {a \in Apps : app[a] \notin {"none", "rejected"}}
Charged(S, x) == {a \in S : IsCharged(a) /\ AssetOf(a) = x}

RestoredInv == PayInv /\ RejectedIsRestored

LEMMA ChargedFinite ==
    ASSUME NEW S \in SUBSET Apps, NEW x \in Assets
    PROVE  /\ Charged(S, x) \in SUBSET Apps /\ IsFiniteSet(Charged(S, x))
           /\ Cardinality(Charged(S, x)) \in Nat /\ Amount(S, x) = Cardinality(Charged(S, x))
<1>1. Charged(S, x) \in SUBSET Apps
  BY DEF Charged
<1>2. QED
  BY <1>1, AppsAreFinite, FS_CardinalityType DEF Amount, Charged

LEMMA LiveFinite ==
    ASSUME NEW x \in Assets
    PROVE  /\ Charged(Live, x) \in SUBSET Apps /\ Charged(Live, x)' \in SUBSET Apps
           /\ RejectedIsRestored => used[x] <= Cardinality(Charged(Live, x))
<1>1. Live \in SUBSET Apps
  BY DEF Live
<1>2. RejectedIsRestored => used[x] <= Amount(Live, x)
  BY DEF RejectedIsRestored, Live
<1>3. QED
  BY <1>1, <1>2, ChargedFinite DEF Charged, Live

\* It is enough to show the amount of each asset.
LEMMA RestoredNext ==
    ASSUME \A x \in Assets : used'[x] <= Cardinality(Charged(Live, x)')
    PROVE  RejectedIsRestored'
BY DEF RejectedIsRestored, Amount, Charged, Live

\* A step that charges nothing and rejects nothing.
LEMMA LiveGrows ==
    ASSUME RestoredInv, used' = used,
           \A a \in Live : app'[a] \notin {"none", "rejected"} /\ bundle'[a[1]].kind = bundle[a[1]].kind
    PROVE  RejectedIsRestored'
<1> SUFFICES ASSUME NEW x \in Assets PROVE used[x] <= Cardinality(Charged(Live, x)')
  BY RestoredNext
<1>1. Charged(Live, x) \in SUBSET (Charged(Live, x)')
  BY DEF Charged, Live, IsCharged
<1>2. Charged(Live, x)' \in SUBSET Apps /\ used[x] <= Cardinality(Charged(Live, x))
  BY LiveFinite DEF RestoredInv
<1> DEFINE C == Charged(Live, x)
           D == Charged(Live, x)'
<1>3. IsFiniteSet(D)
  BY <1>2, AppsAreFinite
<1>4. Cardinality(C) <= Cardinality(D) /\ Cardinality(C) \in Nat /\ Cardinality(D) \in Nat
  BY <1>1, <1>3, FS_Subset, FS_CardinalityType
<1>5. used[x] \in Nat
  BY DEF RestoredInv, PayInv, TypeOK
<1> HIDE DEF C, D
<1>6. used[x] <= Cardinality(C)
  BY <1>2 DEF C
<1>7. used[x] <= Cardinality(D)
  BY <1>4, <1>5, <1>6
<1>8. QED
  BY <1>7 DEF D

\* A step that rejects only applications among S, and gives their amount back.
LEMMA RestoredByDeposit ==
    ASSUME RestoredInv, NEW S \in SUBSET Apps, Deposit(S),
           \A a \in Live \ S : app'[a] \notin {"none", "rejected"},
           \A a \in Apps : bundle'[a[1]].kind = bundle[a[1]].kind
    PROVE  RejectedIsRestored'
<1> SUFFICES ASSUME NEW x \in Assets PROVE used'[x] <= Cardinality(Charged(Live, x)')
  BY RestoredNext
<1> DEFINE C == Charged(Live, x)
           D == Charged(Live, x)'
           E == Charged(S, x)
<1>1. C \ E \in SUBSET D
  BY DEF Charged, Live, IsCharged
<1>2. C \in SUBSET Apps /\ D \in SUBSET Apps /\ E \in SUBSET Apps /\ used[x] <= Cardinality(C)
  BY LiveFinite, ChargedFinite DEF RestoredInv
<1>3. used'[x] = used[x] - Cardinality(E) /\ used[x] \in Nat
  <2>1. used'[x] = used[x] - Amount(S, x)
    BY DEF Deposit
  <2>2. Amount(S, x) = Cardinality(E)
    BY ChargedFinite
  <2>3. used[x] \in Nat
    BY DEF RestoredInv, PayInv, TypeOK
  <2>4. QED
    BY <2>1, <2>2, <2>3
<1> HIDE DEF C, D, E
<1>4. IsFiniteSet(C) /\ IsFiniteSet(D) /\ IsFiniteSet(E)
  BY <1>2, AppsAreFinite
<1>5. /\ Cardinality(C \ E) = Cardinality(C) - Cardinality(C \cap E) /\ IsFiniteSet(C \ E)
  BY <1>4, FS_Difference
<1>6. Cardinality(C \cap E) <= Cardinality(E) /\ IsFiniteSet(C \cap E)
  BY <1>4, FS_Intersection
<1>7. Cardinality(C \ E) <= Cardinality(D)
  BY <1>1, <1>4, FS_Subset
<1>8. /\ Cardinality(C) \in Nat /\ Cardinality(D) \in Nat /\ Cardinality(E) \in Nat
      /\ Cardinality(C \cap E) \in Nat
  BY <1>4, <1>6, FS_CardinalityType
<1>9. used'[x] <= Cardinality(D)
  BY <1>2, <1>3, <1>5, <1>6, <1>7, <1>8
<1>10. QED
  BY <1>9 DEF D

\* The applications of a new bundle are charged as what they are.
LEMMA CreateRestores ==
    ASSUME RestoredInv, NEW b \in Bundles, NEW S \in SUBSET Items, NEW kind \in Kinds,
           CreateAppBundle(b, kind, S)
    PROVE  RejectedIsRestored'
<1>1. /\ {b} \X S \in SUBSET Apps
      /\ \A a \in Apps : a[1] = b => app[a] = "none"
      /\ \A a \in {b} \X S : a[1] = b
  BY FreshApps DEF CreateAppBundle, RestoredInv
<1>2. \A a \in Live : app'[a] \notin {"none", "rejected"} /\ bundle'[a[1]].kind = bundle[a[1]].kind
  BY <1>1 DEF CreateAppBundle, RestoredInv, PayInv, TypeOK, Live, Apps
<1>3. CASE kind # "budgeted"
  <2>1. used' = used
    BY <1>3 DEF CreateAppBundle, RestoredInv, PayInv, TypeOK
  <2>2. QED
    BY <1>2, <2>1, LiveGrows
<1>4. CASE kind = "budgeted"
  <2> SUFFICES ASSUME NEW x \in Assets PROVE used'[x] <= Cardinality(Charged(Live, x)')
    BY RestoredNext
  <2> DEFINE C == Charged(Live, x)
             D == Charged(Live, x)'
             N == {i \in S : AssetOf(<<b, i>>) = x}
             M == {a \in {b} \X S : AssetOf(a) = x}
  <2>1. C \cup M \in SUBSET D
    <3>1. C \in SUBSET D
      BY <1>2 DEF Charged, Live, IsCharged
    <3>2. bundle'[b].kind = "budgeted"
      BY <1>4 DEF CreateAppBundle, RestoredInv, PayInv, TypeOK
    <3>3. \A a \in {b} \X S : app'[a] = "open" /\ a \in Apps /\ a[1] = b
      BY <1>1 DEF CreateAppBundle
    <3>4. M \in SUBSET D
      BY <3>2, <3>3 DEF Charged, Live, IsCharged
    <3>5. QED
      BY <3>1, <3>4
  <2>2. C \cap M = {}
    BY <1>1 DEF Charged, Live
  <2>3. C \in SUBSET Apps /\ D \in SUBSET Apps /\ M \in SUBSET Apps /\ used[x] <= Cardinality(C)
    BY <1>1, LiveFinite DEF RestoredInv
  <2>4. Cardinality(N) = Cardinality(M) /\ IsFiniteSet(M)
    <3> DEFINE f == [i \in N |-> <<b, i>>]
    <3>1. IsFiniteSet(N)
      BY FS_Subset
    <3>2. f \in Bijection(N, M)
      <4>1. f \in [N -> M]
        OBVIOUS
      <4>2. \A i, k \in N : f[i] = f[k] => i = k
        OBVIOUS
      <4>3. \A a \in M : \E i \in N : f[i] = a
        OBVIOUS
      <4>4. QED
        BY <4>1, <4>2, <4>3 DEF Bijection, Injection, Surjection, IsInjective
    <3>3. QED
      BY <3>1, <3>2, FS_Bijection DEF ExistsBijection
  <2>5. used'[x] = used[x] + Cardinality(N) /\ used[x] \in Nat
    BY <1>4 DEF CreateAppBundle, RestoredInv, PayInv, TypeOK
  <2> HIDE DEF C, D, M, N
  <2>6. IsFiniteSet(C) /\ IsFiniteSet(D)
    BY <2>3, AppsAreFinite
  <2>7. Cardinality(C \cup M) = Cardinality(C) + Cardinality(M) - Cardinality({}) /\ IsFiniteSet(C \cup M)
    BY <2>2, <2>4, <2>6, FS_Union
  <2>8. Cardinality(C \cup M) <= Cardinality(D) /\ Cardinality({}) = 0
    BY <2>1, <2>6, FS_Subset, FS_EmptySet
  <2>9. Cardinality(C) \in Nat /\ Cardinality(D) \in Nat /\ Cardinality(M) \in Nat
    BY <2>4, <2>6, FS_CardinalityType
  <2>10. used'[x] <= Cardinality(D)
    BY <2>3, <2>4, <2>5, <2>7, <2>8, <2>9
  <2>11. QED
    BY <2>10 DEF D
<1>5. QED
  BY <1>3, <1>4

LEMMA KindsStay ==
    ASSUME PayInv, Next, ~Creating, NEW b \in Bundles
    PROVE  bundle'[b].kind = bundle[b].kind
<1>1. bundle \in [Bundles -> [state: AppStates \cup {"none"}, kind: BundleKinds]]
  BY DEF PayInv, TypeOK
<1>2. CASE Deciding
  <2> PICK i \in Slots : UpdateAppBundle(i) \/ AfterList(i) \/ bundle' = bundle
    BY <1>2 DEF Deciding, BeginBundle, BeginAudit, BeginProcess, BeginComplete, AuditApplications,
                AfterApprove, RequestFails
  <2>1. CASE UpdateAppBundle(i)
    <3>1. req[i].bundle \in Bundles
      BY <2>1, RequestFields DEF UpdateAppBundle, PayInv
    <3>2. QED
      BY <1>1, <2>1, <3>1 DEF UpdateAppBundle
  <2>2. CASE AfterList(i)
    BY <1>1, <2>2 DEF AfterList
  <2>3. QED
    BY <2>1, <2>2
<1>3. CASE Transferring
  <2> PICK j \in DOMAIN jobs : RecordTransfer(j) \/ bundle' = bundle
    BY <1>3 DEF Transferring, Dispatch, Start, SendScr, CancelAutoXferTask
  <2>1. CASE RecordTransfer(j)
    BY <1>1, <2>1 DEF RecordTransfer
  <2>2. QED
    BY <2>1
<1>4. CASE Restart
  BY <1>4 DEF Restart
<1>5. QED
  BY <1>2, <1>3, <1>4 DEF Next

\* Without a deposit nothing that is charged gets rejected.
LEMMA OnlyDepositsReject ==
    ASSUME RestoredInv, Next, ~Creating, NEW S \in SUBSET Apps, NEW action \in Actions \ {"reject"},
           app' = Audited(S, action), used' = used
    PROVE  RejectedIsRestored'
<1>1. ASSUME NEW a \in Live
      PROVE  app'[a] \notin {"none", "rejected"} /\ bundle'[a[1]].kind = bundle[a[1]].kind
  <2>1. a \in Apps /\ a[1] \in Bundles /\ app[a] \notin {"none", "rejected"}
    BY DEF Live, Apps
  <2>2. app'[a] = IF a \in S THEN NextState(a, action) ELSE app[a]
    BY <2>1 DEF Audited
  <2>3. NextState(a, action) \notin {"none", "rejected"}
    BY <2>1, NextStates DEF RestoredInv, PayInv
  <2>4. QED
    BY <2>1, <2>2, <2>3, KindsStay DEF RestoredInv
<1>2. QED
  BY <1>1, LiveGrows

LEMMA DecisionRestores ==
    ASSUME RestoredInv, Next, ~Creating, NEW i \in Slots, UpdateAppBundle(i) \/ AuditApplications(i)
    PROVE  RejectedIsRestored'
<1> DEFINE q == req[i]
           S == IF q.stage = "bundle" THEN Members(q.bundle) ELSE q.apps
<1>1. S \in SUBSET Apps /\ q.action \in Actions
  BY RequestFields, MembersType DEF UpdateAppBundle, AuditApplications, RestoredInv, PayInv, Actions
<1>2. app' = Audited(S, q.action) /\ (IF q.action = "reject" THEN Deposit(S) ELSE used' = used)
  BY DEF UpdateAppBundle, AuditApplications
<1> HIDE DEF S
<1>3. CASE q.action = "reject"
  <2>1. \A a \in Live \ S : app'[a] \notin {"none", "rejected"}
    BY <1>2 DEF Audited, Live
  <2>2. \A a \in Apps : bundle'[a[1]].kind = bundle[a[1]].kind
    BY KindsStay DEF RestoredInv, Apps
  <2>3. QED
    BY <1>1, <1>2, <1>3, <2>1, <2>2, RestoredByDeposit
<1>4. CASE q.action # "reject"
  BY <1>1, <1>2, <1>4, OnlyDepositsReject
<1>5. QED
  BY <1>3, <1>4

LEMMA RestoredStep == RestoredInv /\ [Next]_vars => RejectedIsRestored'
<1> SUFFICES ASSUME RestoredInv, [Next]_vars PROVE RejectedIsRestored'
  OBVIOUS
<1>1. CASE Creating
  <2>1. ASSUME NEW b \in Bundles, NEW S \in SUBSET Items, CreateReward(b, S) \/ CreateRewardFails(b)
        PROVE  RejectedIsRestored'
    <3>1. \A a \in Apps : a[1] = b => app[a] = "none"
      BY <2>1, FreshApps DEF CreateReward, CreateRewardFails, RestoredInv
    <3>2. used' = used
      BY <2>1 DEF CreateReward, CreateRewardFails
    <3>3. \A a \in Live : app'[a] \notin {"none", "rejected"} /\ bundle'[a[1]].kind = bundle[a[1]].kind
      BY <2>1, <3>1 DEF CreateReward, CreateRewardFails, Live, Apps, RestoredInv, PayInv, TypeOK
    <3>4. QED
      BY <3>2, <3>3, LiveGrows
  <2>2. QED
    BY <1>1, <2>1, CreateRestores DEF Creating
<1>2. CASE Next /\ ~Creating
  <2>1. ASSUME used' = used, \A a \in Apps : app'[a] = app[a] \/ app'[a] = "completed"
        PROVE  RejectedIsRestored'
    <3>1. \A a \in Live : app'[a] \notin {"none", "rejected"} /\ bundle'[a[1]].kind = bundle[a[1]].kind
      BY <1>2, <2>1, KindsStay DEF Live, Apps, RestoredInv
    <3>2. QED
      BY <2>1, <3>1, LiveGrows
  <2>2. CASE Deciding
    <3>1. ASSUME NEW i \in Slots, UpdateAppBundle(i) \/ AuditApplications(i)
          PROVE  RejectedIsRestored'
      BY <1>2, <3>1, DecisionRestores
    <3>2. QED
      BY <2>1, <2>2, <3>1 DEF Deciding, BeginBundle, BeginAudit, BeginProcess, BeginComplete,
                              AfterApprove, AfterList, RequestFails
  <2>3. CASE Transferring
    BY <2>1, <2>3 DEF Transferring, Dispatch, Start, SendScr, RecordTransfer, CancelAutoXferTask
  <2>4. CASE Restart
    BY <2>1, <2>4 DEF Restart
  <2>5. QED
    BY <1>2, <2>2, <2>3, <2>4 DEF Next
<1>3. CASE UNCHANGED vars
  BY <1>3, LiveGrows DEF vars, Live
<1>4. QED
  BY <1>1, <1>2, <1>3

\* What is used of the budget never exceeds the amount of the applications that are
\* not rejected: every rejection gives back what its application took.
THEOREM RejectionRestores == Spec => []RejectedIsRestored
<1>1. Init => RejectedIsRestored
  <2> SUFFICES ASSUME Init, NEW x \in Assets PROVE used[x] <= Cardinality(Charged(Live, x))
    BY DEF RejectedIsRestored, Amount, Charged, Live
  <2>1. Cardinality(Charged(Live, x)) \in Nat
    BY ChargedFinite DEF Live
  <2>2. used[x] = 0
    BY DEF Init
  <2>3. QED
    BY <2>1, <2>2
<1>2. QED
  BY <1>1, RestoredStep, PayAlways, PTL DEF Spec, RestoredInv
====
