---- MODULE Payouts ----
(***************************************************************************)
(* Reward applications and how they are paid: bundles of applications are  *)
(* charged to a budget when they are created, decided by the city hall as  *)
(* bundles or one application at a time, and paid either by hand, through  *)
(* a list that is exported and completed, or by a cron job that asks an    *)
(* external service to transfer the tokens 24 hours after the decision.    *)
(*                                                                         *)
(* A database transaction is one action.  What a handler reads before its  *)
(* transaction, and what it writes after it, are stages of a request.      *)
(***************************************************************************)
EXTENDS Naturals, FiniteSets, Sequences

CONSTANTS
    Bundles,      \* ids of application bundles, 1..n
    Items,        \* the applications of a bundle; each stands for one unit of an asset
    Transferred,  \* those whose asset the cron job transfers
    Kinds,        \* where the bundles are charged, of BundleKinds
    Total,        \* the total of the budget, of each asset
    Slots,        \* bound on the decisions in progress: their ids
    MaxJobs,      \* bound on the transfer jobs
    MaxRestarts   \* bound on the restarts of the process

VARIABLES
    bundle,    \* bundle[b]: the row of bundle b
    app,       \* app[a]: the state of application a
    used,      \* used[x]: the used amount of asset x; the rest of the total remains
    req,       \* req[i]: the decision in progress in slot i
    jobs,      \* the transfer jobs
    restarts,  \* how often the process was restarted
    paid,      \* history: how often application a was transferred, up to 2
    loose      \* history: the applications that got a job other than by the
               \* approval of their bundle

vars == <<bundle, app, used, req, jobs, restarts, paid, loose>>

Apps == Bundles \X Items
AppStates == {"open", "approved", "rejected", "processing", "completed"}
Actions == {"approve", "reject", "process", "complete"}
JobStates == {"active", "running", "done", "terminated"}

\* Charged to a budget; to a project or guild that has none; to the city hall's
\* project; created by the system as already approved.
BundleKinds == {"budgeted", "unbudgeted", "cityhall", "reward"}

ASSUME BundlesAssumption ==
    /\ Bundles \subseteq Nat /\ IsFiniteSet(Bundles)
    /\ IsFiniteSet(Items) /\ Transferred \subseteq Items
ASSUME KindsAssumption == Kinds \subseteq BundleKinds \ {"reward"}
ASSUME NumbersAssumption == Total \in Nat /\ MaxJobs \in Nat /\ MaxRestarts \in Nat

Assets == {"transferred", "other"}
AssetOf(a) == IF a[2] \in Transferred THEN "transferred" ELSE "other"

\* The state that each action leads to from each state.
StateMap ==
    {<<"open", "approve", "approved">>, <<"open", "reject", "rejected">>,
     <<"approved", "process", "processing">>, <<"rejected", "approve", "approved">>,
     <<"processing", "complete", "completed">>}

Idle == [stage |-> "idle"]
Request ==
    [stage: {"bundle"}, action: {"approve", "reject"}, bundle: Bundles] \cup
    [stage: {"audit", "after"}, action: Actions, apps: SUBSET Apps]

\* A job names its applications and goes through a goroutine that holds a copy.
Job == [apps: SUBSET Apps, state: JobStates, task: {"none", "dispatched", "running", "sent"}]

TypeOK ==
    /\ bundle \in [Bundles -> [state: AppStates \cup {"none"}, kind: BundleKinds]]
    /\ app \in [Apps -> AppStates \cup {"none"}]
    /\ used \in [Assets -> 0..Total]
    /\ req \in [Slots -> Request \cup {Idle}]
    /\ jobs \in Seq(Job) /\ Len(jobs) <= MaxJobs
    /\ restarts \in 0..MaxRestarts
    /\ paid \in [Apps -> 0..2]
    /\ loose \subseteq Apps

----

Members(b) == {a \in Apps : a[1] = b /\ app[a] # "none"}
Fresh(b) == bundle[b].state = "none" /\ \A c \in Bundles : c < b => bundle[c].state # "none"
IsCharged(a) == bundle[a[1]].kind = "budgeted"
Amount(S, x) == Cardinality({a \in S : IsCharged(a) /\ AssetOf(a) = x})

Allowed(a, action) == \E s \in AppStates : <<app[a], action, s>> \in StateMap

M_NextState(a, action) ==
    CHOOSE s \in AppStates : \E p \in AppStates \ {"rejected"} : <<p, action, s>> \in StateMap

\* The application is read again; an action that its state does not allow gives the
\* empty state, which the update leaves out.
NextState(a, action) ==
    IF Allowed(a, action) THEN CHOOSE s \in AppStates : <<app[a], action, s>> \in StateMap
    ELSE app[a]

Audited(S, action) == [a \in Apps |-> IF a \in S THEN NextState(a, action) ELSE app[a]]

M_Deposit(S) == UNCHANGED used
M_DepositUnchecked(S) ==
    /\ \A a \in S : bundle[a[1]].kind # "unbudgeted"
    /\ used' = [x \in Assets |-> used[x] - Amount(S, x)]

\* Every audit that rejects gives the amount back, whatever state the application is
\* in; it fails without a budget record and below zero.
Deposit(S) ==
    /\ \A a \in S : bundle[a[1]].kind # "unbudgeted"
    /\ \A x \in Assets : Amount(S, x) <= used[x]
    /\ used' = [x \in Assets |-> used[x] - Amount(S, x)]

M_WithJob(S) ==
    LET moved == {a \in Apps : a[2] \in Transferred /\ app[a] # "none" /\ \E c \in S : c[1] = a[1]}
    IN  IF moved = {} THEN jobs
        ELSE Append(jobs, [apps |-> moved, state |-> "active", task |-> "none"])

\* One job for the transferred applications among S, if there are any: one for each
\* applicant, and the bundles of the model have the same one.
WithJob(S) ==
    LET moved == {a \in S : a[2] \in Transferred}
    IN  IF moved = {} THEN jobs
        ELSE Append(jobs, [apps |-> moved, state |-> "active", task |-> "none"])
RoomForJob == Len(jobs) < MaxJobs

Init ==
    /\ bundle = [b \in Bundles |-> [state |-> "none", kind |-> "budgeted"]]
    /\ app = [a \in Apps |-> "none"]
    /\ used = [x \in Assets |-> 0]
    /\ req = [i \in Slots |-> Idle]
    /\ jobs = <<>>
    /\ restarts = 0
    /\ paid = [a \in Apps |-> 0]
    /\ loose = {}

----
(* Creating bundles *)

\* POST /app_bundles: the sums are checked and withdrawn from the budget, if there is
\* one, in the transaction that creates the bundle.
CreateAppBundle(b, kind, S) ==
    /\ Fresh(b)
    /\ bundle' = [bundle EXCEPT ![b] = [state |-> "open", kind |-> kind]]
    /\ app' = [a \in Apps |-> IF a \in {b} \X S THEN "open" ELSE app[a]]
    /\ used' = [x \in Assets |->
                  used[x] + IF kind = "budgeted"
                            THEN Cardinality({i \in S : AssetOf(<<b, i>>) = x}) ELSE 0]
    /\ \A x \in Assets : used'[x] <= Total
    /\ UNCHANGED <<req, jobs, restarts, paid, loose>>

\* A reward by the system (a motivation component, an SNS invitation): approved from
\* the start, with its job.  No budget is charged.
CreateReward(b, S) ==
    /\ Fresh(b)
    /\ RoomForJob
    /\ bundle' = [bundle EXCEPT ![b] = [state |-> "approved", kind |-> "reward"]]
    /\ app' = [a \in Apps |-> IF a \in {b} \X S THEN "approved" ELSE app[a]]
    /\ jobs' = WithJob({b} \X S)
    /\ UNCHANGED <<used, req, restarts, paid, loose>>

\* The bundle of a motivation reward is created before the transaction that adds its
\* applications and their job; when that fails an empty bundle stays.
CreateRewardFails(b) ==
    /\ Fresh(b)
    /\ bundle' = [bundle EXCEPT ![b] = [state |-> "approved", kind |-> "reward"]]
    /\ UNCHANGED <<app, used, req, jobs, restarts, paid, loose>>

----
(* Deciding bundles *)

Begin(i, q) == req[i] = Idle /\ req' = [req EXCEPT ![i] = q]
End(i) == req' = [req EXCEPT ![i] = Idle]

\* POST /app_bundle_approve and /app_bundle_reject: the state of the bundle is looked at
\* before the transaction only.
BeginBundle(i, b, action) ==
    /\ bundle[b].state \in {"open", "rejected"}
    /\ Begin(i, [stage |-> "bundle", action |-> action, bundle |-> b])
    /\ UNCHANGED <<bundle, app, used, jobs, restarts, paid, loose>>

M_UpdateAppBundle(i) ==
    LET q == req[i]
        b == q.bundle
        S == {a \in Members(b) : Allowed(a, q.action)}
    IN
    /\ q.stage = "bundle"
    /\ bundle' = [bundle EXCEPT ![b].state = IF q.action = "approve" THEN "approved" ELSE "rejected"]
    /\ app' = Audited(S, q.action)
    /\ IF q.action = "reject" THEN Deposit(S) ELSE UNCHANGED used
    /\ RoomForJob
    /\ jobs' = WithJob(Members(b))
    /\ loose' = IF q.action = "reject" THEN loose \cup Members(b) ELSE loose
    /\ End(i)
    /\ UNCHANGED <<restarts, paid>>

\* The transaction: every application must allow the action.  The transfer job is
\* created for the new state approved and for the new state rejected alike.
UpdateAppBundle(i) ==
    LET q == req[i]
        b == q.bundle
    IN
    /\ q.stage = "bundle"
    /\ \A a \in Members(b) : Allowed(a, q.action)
    /\ bundle' = [bundle EXCEPT ![b].state = IF q.action = "approve" THEN "approved" ELSE "rejected"]
    /\ app' = Audited(Members(b), q.action)
    /\ IF q.action = "reject" THEN Deposit(Members(b)) ELSE UNCHANGED used
    /\ RoomForJob
    /\ jobs' = WithJob(Members(b))
    /\ loose' = IF q.action = "reject" THEN loose \cup Members(b) ELSE loose
    /\ End(i)
    /\ UNCHANGED <<restarts, paid>>

----
(* Deciding applications *)

\* POST /apps_approve and /apps_reject: each application is validated ...
BeginAudit(i, S, action) ==
    /\ S # {} /\ \A a \in S : Allowed(a, action)
    /\ Begin(i, [stage |-> "audit", action |-> action, apps |-> S])
    /\ UNCHANGED <<bundle, app, used, jobs, restarts, paid, loose>>

\* ... and audited in a transaction that does not validate it again.
AuditApplications(i) ==
    LET q == req[i] IN
    /\ q.stage = "audit"
    /\ app' = Audited(q.apps, q.action)
    /\ IF q.action = "reject" THEN Deposit(q.apps) /\ End(i)
       ELSE UNCHANGED used /\ req' = [req EXCEPT ![i].stage = "after"]
    /\ UNCHANGED <<bundle, jobs, restarts, paid, loose>>

\* After an approval the job is created in a transaction of its own.
AfterApprove(i) ==
    LET q == req[i] IN
    /\ q.stage = "after" /\ q.action = "approve"
    /\ RoomForJob
    /\ jobs' = WithJob(q.apps)
    /\ loose' = loose \cup q.apps
    /\ End(i)
    /\ UNCHANGED <<bundle, app, used, restarts, paid>>

\* POST /apps_process exports all approved applications, when none is processing; POST
\* /apps_complete completes all that are processing.
BeginProcess(i) ==
    /\ \A a \in Apps : app[a] # "processing"
    /\ BeginAudit(i, {a \in Apps : app[a] = "approved"}, "process")
BeginComplete(i) == BeginAudit(i, {a \in Apps : app[a] = "processing"}, "complete")

\* After it, the bundles of the list follow, whatever else they contain.
AfterList(i) ==
    LET q == req[i]
        state == IF q.action = "process" THEN "processing" ELSE "completed"
    IN
    /\ q.stage = "after" /\ q.action # "approve"
    /\ bundle' = [b \in Bundles |->
                    IF \E a \in q.apps : a[1] = b THEN [bundle[b] EXCEPT !.state = state]
                    ELSE bundle[b]]
    /\ End(i)
    /\ UNCHANGED <<app, used, jobs, restarts, paid, loose>>

\* A request may fail before each of its transactions.
RequestFails(i) ==
    /\ req[i] # Idle
    /\ End(i)
    /\ UNCHANGED <<bundle, app, used, jobs, restarts, paid, loose>>

----
(* The transfer job *)

M_DispatchOnTime(j) ==
    /\ jobs[j].state = "active" /\ jobs[j].task = "none" /\ restarts = 0
    /\ jobs' = [jobs EXCEPT ![j].task = "dispatched"]
    /\ UNCHANGED <<bundle, app, used, req, restarts, paid, loose>>
M_Dispatch(j) ==
    /\ jobs[j].state \in {"active", "running"} /\ jobs[j].task = "none"
    /\ jobs' = [jobs EXCEPT ![j].task = "dispatched"]
    /\ UNCHANGED <<bundle, app, used, req, restarts, paid, loose>>

\* A due job is handed to a goroutine.  It is taken as marked running before the
\* next scan, which is five seconds later.
Dispatch(j) ==
    /\ jobs[j].state = "active" /\ jobs[j].task = "none"
    /\ jobs' = [jobs EXCEPT ![j].task = "dispatched"]
    /\ UNCHANGED <<bundle, app, used, req, restarts, paid, loose>>

\* The row is marked as running whatever became of it.
Start(j) ==
    /\ jobs[j].task = "dispatched"
    /\ jobs' = [jobs EXCEPT ![j].state = "running", ![j].task = "running"]
    /\ UNCHANGED <<bundle, app, used, req, restarts, paid, loose>>

\* Each application of the job is transferred once more.
Transfer(S) == [a \in Apps |-> IF a \in S /\ paid[a] < 2 THEN paid[a] + 1 ELSE paid[a]]

\* The service is asked to transfer.  Its answer is read; or there was an error, which
\* does not tell whether it did (the job is terminated; done, when only the answer
\* could not be read); or its settings are missing, and the row stays running.
SendScr(j) ==
    /\ jobs[j].task = "running"
    /\ \/ /\ paid' = Transfer(jobs[j].apps)
          /\ jobs' = [jobs EXCEPT ![j].task = "sent"]
       \/ /\ paid' \in {paid, Transfer(jobs[j].apps)}
          /\ \E state \in {"terminated", "done"} :
                jobs' = [jobs EXCEPT ![j].task = "none", ![j].state = state]
       \/ /\ jobs' = [jobs EXCEPT ![j].task = "none"]
          /\ UNCHANGED paid
    /\ UNCHANGED <<bundle, app, used, req, restarts, loose>>

M_Completes(b, S) == \E a \in Apps : a[1] = b /\ a \in S

\* As many applications of the bundle are in the job as the bundle has.
Completes(b, S) ==
    /\ \E a \in S : a[1] = b
    /\ Cardinality({a \in S : a[1] = b}) = Cardinality(Members(b))

\* The transfer is recorded in one transaction: its applications are completed in
\* whatever state they are.  When it fails, the job is done all the same.
RecordTransfer(j) ==
    LET S == jobs[j].apps IN
    /\ jobs[j].task = "sent"
    /\ jobs' = [jobs EXCEPT ![j].task = "none", ![j].state = "done"]
    /\ \/ /\ app' = [a \in Apps |-> IF a \in S THEN "completed" ELSE app[a]]
          /\ bundle' = [b \in Bundles |->
                          IF Completes(b, S) THEN [bundle[b] EXCEPT !.state = "completed"]
                          ELSE bundle[b]]
       \/ UNCHANGED <<app, bundle>>
    /\ UNCHANGED <<used, req, restarts, paid, loose>>

\* POST /scr_tasks/:id/cancel, whatever the job is doing.
CancelAutoXferTask(j) ==
    /\ jobs[j].state # "terminated"
    /\ jobs' = [jobs EXCEPT ![j].state = "terminated"]
    /\ UNCHANGED <<bundle, app, used, req, restarts, paid, loose>>

\* The process stops: the goroutines and requests are lost, the rows stay.
Restart ==
    /\ restarts < MaxRestarts
    /\ restarts' = restarts + 1
    /\ jobs' = [j \in DOMAIN jobs |-> [jobs[j] EXCEPT !.task = "none"]]
    /\ req' = [i \in Slots |-> Idle]
    /\ UNCHANGED <<bundle, app, used, paid, loose>>

----

Creating ==
    \E b \in Bundles :
        \/ \E S \in (SUBSET Items) \ {{}} :
              (\E kind \in Kinds : CreateAppBundle(b, kind, S)) \/ CreateReward(b, S)
        \/ CreateRewardFails(b)

Deciding ==
    \E i \in Slots :
        \/ \E b \in Bundles, action \in {"approve", "reject"} : BeginBundle(i, b, action)
        \/ \E S \in SUBSET Apps, action \in {"approve", "reject"} : BeginAudit(i, S, action)
        \/ BeginProcess(i)
        \/ BeginComplete(i)
        \/ UpdateAppBundle(i)
        \/ AuditApplications(i)
        \/ AfterApprove(i)
        \/ AfterList(i)
        \/ RequestFails(i)

Transferring ==
    \E j \in DOMAIN jobs :
        \/ Dispatch(j)
        \/ Start(j)
        \/ SendScr(j)
        \/ RecordTransfer(j)
        \/ CancelAutoXferTask(j)

Next == Creating \/ Deciding \/ Transferring \/ Restart

\* The scan repeats for as long as the process runs, a goroutine goes on, and the
\* request to the service ends by its timeout.
Fairness ==
    \A j \in 1..MaxJobs :
        WF_vars(j \in DOMAIN jobs /\ (Dispatch(j) \/ Start(j) \/ SendScr(j) \/ RecordTransfer(j)))

Spec == Init /\ [][Next]_vars /\ Fairness

----
(* Properties *)

\* Nobody is paid before a decision: no application of a transfer is still open,
\* whichever of the handlers created the job and whatever failed on the way.
OpenIsUnpaid == \A a \in Apps : paid[a] > 0 => app[a] # "open"

\* An application that got its job by the approval of its bundle is transferred at
\* most once: concurrent decisions, cancellations and restarts add no second one.
PaidOnce == \A a \in Apps \ loose : paid[a] <= 1

\* Completed is final: a decision that was validated before the completion and is
\* carried out after it does not take the application back.
CompletedIsFinal == [][\A a \in Apps : app[a] = "completed" => app'[a] = "completed"]_vars

\* A rejected application is charged to no budget: what is used is at most the
\* amount of the applications that are not rejected.
RejectedIsRestored ==
    \A x \in Assets : used[x] <= Amount({a \in Apps : app[a] \notin {"none", "rejected"}}, x)

\* The transfer job completes a bundle only when nothing in it is left.
CompletedWithAll ==
    [][\A b \in Bundles :
        bundle[b].state # "completed" /\ bundle'[b].state = "completed" /\ req' = req
            => \A a \in Members(b) : app'[a] = "completed"]_vars

\* A transfer job that is due is carried out: it ends, unless it was interrupted while
\* it was running or the settings of the service were missing.
TransferEnds ==
    \A j \in 1..MaxJobs :
        (j \in DOMAIN jobs /\ jobs[j].state = "active")
            ~> (j \in DOMAIN jobs /\ jobs[j].state # "active" /\ jobs[j].task = "none")

\* A rejected application is not paid: the state map leads from rejected to approved
\* only.
RejectedIsUnpaid == \A a \in Apps : app[a] = "rejected" => paid[a] = 0

\* The applications that are charged to a budget and not rejected are within it.
WithinBudget ==
    \A x \in Assets : Amount({a \in Apps : app[a] \notin {"none", "rejected"}}, x) <= Total
====
