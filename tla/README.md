# Verification of the SeeDAO OS backend

The repository is the server of an organisation that governs itself by proposals: a Go
process (gin, gorm, casbin, a Postgres database) that keeps proposals, projects, guilds,
budgets and payment applications, drives the external forum Metaforo, where threads are
discussed and voted on, and runs the decisions later through a table of cron jobs. This
directory holds TLA+ models of its core, the TLC configurations that check them and
theorems that TLAPS proves about them. `PROJECT.json` maps every definition to its lines.

## Inventory

The live HTTP handlers are in `internal_inject/*`; `internal/api/*` holds earlier copies,
of which the task manager (`internal/task_manager`) still calls the proposal functions.

| component | state | operations | what makes it correct |
|---|---|---|---|
| proposals (`internal_inject/proposal`) | row: state, SIP, version, thread, template; vote record; components | create, update, publish, withdraw, approve, reject, close vote; settle a poll | executed only as decided; one SIP, one project per proposal; a veto holds |
| forum (external) | threads and polls | open, close; create thread, move poll | seen through fetches only, late and repeatedly |
| task manager | `cron_jobs` rows; goroutines | scan and dispatch, one handler per task name, refresh every minute | each decision is carried out, once, whatever else happens meanwhile |
| projects, guilds | row: status, members; budget per asset | create, edit, close; withdraw and deposit budget | closed by a decision; used + remaining = total |
| applications and bundles | rows with a state; audit logs | create, approve, reject, process, complete; SCR transfer job | paid once, and only what was approved |
| treasury, asset records | totals and balances | upsert, transfer | sums agree |
| SNS invitations | invitation rows | invite, scheduled check, reward bundle | one reward per invitee |
| city hall, permissions | casbin policies and roles | add and remove members | roles follow membership |
| login (nonce, SIWE) | nonce rows | issue, verify | a nonce is used once |
| templates, categories, gates, seasons, budget sources | reference rows | edit by operators | read only for the rest |
| publicity, events, push, data services, public data, webhooks, admin, GraphQL, tools | own tables or none | create/read/update/delete, queries, forwarding | nothing else depends on them |

How they interact. A handler calls service functions one after another; each takes an
in-process lock per proposal and several write the database outside a transaction. The
state of a poll reaches the database when somebody fetches the thread: a reader of the
details, the minute job, or the answer to an update. A decision is carried out by a cron
job created in the same function; the runner reads due rows every five seconds and hands a
copy to a goroutine. So the hard behaviours are: interleaving of handlers, watchers and
jobs between the stages of one request; partial failure (the forum done, the database not,
or the reverse); polls seen late, twice or in the wrong order; jobs that outlive the
decision they belong to; restarts that lose what was in progress; and sequences of legal
calls nobody meant. `PROJECT.json` lists each hazard at its line with the properties that
would catch it.

## Modules

| module | models | composed by |
|---|---|---|
| `ProposalLifecycle` | proposals, forum polls, jobs and projects together | `MC_Lifecycle` |
| `Payouts` | bundles, applications, budgets, the SCR transfer job | `MC_Payouts` |
| `VoteTally` | pure: counts to a result, extra rules | `Votes`, `TallyCheck` |
| `Votes` | the poll of one proposal and the backend's copy of it, step by step | `MC_Votes` |
| `JobQueue`, `JobRunner` | what the task manager promises; the runner that implements it | `MC_JobRunner` |
| `Teams` | a project or guild: row, sponsor role, closing applications | `MC_Teams` |
| `AssetTransfers`, `Invites`, `SeasonRewards`, `SipNumbers`, `Publicity`, `TallyCheck`, `BudgetLedger` | services with tables of their own | `Services`, `MC_Services` |
| `ProposalLifecycleProofs`, `ProposalProjectsProofs`, `PayoutsProofs`, `VotesProofs`, `JobRunnerProofs`, `TeamsProofs`, `ServicesProofs` | theorems about the module they are named after; the second about `ProposalLifecycle` too | |
| `FoldLemmas` | induction over finite sets, folds, sums, maxima, what is left of a list | `VotesProofs`, `TeamsProofs`, `ServicesProofs` |

Every safety property of every passing run is a theorem, for every value of the constants (one
under a hypothesis on them: `RunnerImplementsQueue`); the section of each
module says from which assumptions and by which invariant. Liveness is
checked by TLC only. Left on the plan: the safety half of what liveness needs (which steps
stay possible), and refinements of abstract specifications for payouts and teams.

## ProposalLifecycle

State and code:

| variable | code |
|---|---|
| `rec[r]` | a row of `proposals`: state, SIP, thread, template, the proposal it closes or vetoes, version; `started`: the saved vote start has passed; `auto`: the row owns a job record, which keeps a second from being created |
| `vote[r]` | the poll status in the row's `proposal_vote_records` (`new`: saved, no forum poll yet) |
| `poll[t]` | external: the poll of the thread first published by row `t` |
| `jobs[r][k]`, `inflight` | the rows of `cron_jobs` by what they do; the copies held by goroutines |
| `reqs` | create and update requests between two of their stages |
| `ops` | service functions between two of their parts: the lock they hold (the handlers' table `http`, or `task`, that of the copies the task manager calls), the row, and what is left to do |
| `project[s]` | the status of the project with SIP `s`, `twice` when two were created |
| `passed` | history: threads whose poll closed with a passing result |

Create and update are split where the code releases the lock: check, save, reserve the
project, publish, approve or schedule, respond. `RequestFails` ends one at any stage,
`SaveUpdateFails` and `PublishFails` in the middle of a stage where something was already
written. A poll is opened and closed by the forum on its own; `Detail`, `Refresh` and
`Respond` are the three ways its status arrives. Jobs are dispatched as copies and run later,
so that whatever happens to the proposal in between is seen.

A service function that commits its work in parts is an operation in `ops`, which holds the
lock of its proposal from part to part. It may fail before any of them (`OperationFails`) and
is lost by a `Restart`, like requests and copies; what it has committed stays:

| function | parts |
|---|---|
| approval (`StartApproval`) | SIP and `voting`, committed outside the transaction; `Launch`: the transaction, which writes the state whatever it is by then |
| withdrawal, rejection (`TakeBack`) | the jobs deleted or the poll moved; `WriteState` |
| vote result, handlers (`Settle` "http") | the state looked at; `WriteVerdict`; `Automate`: the job, or the last state; `WriteState` |
| vote result, refresh job (`Settle` "task") | the state looked at; `CommitRefresh`, or a rollback: it is one transaction |
| execute job (`RunExecute`) | the project; `WriteState` |

Two parts of one function exclude only what takes the lock of the same table. The veto
(`RunVeto`) takes none and comes in between, which is how a vetoed proposal can be overwritten by
a verdict that was checked before, or get a job after its jobs were deleted. The veto itself
deletes the jobs outside its transaction: when that rolls back (always for a close-project
target, otherwise on an error or a stop) the target keeps its state and has no job. Where it
commits, the deletion and the commit are one step: the transaction has written the row of the
target before (`proposal_task.go:91`), and the row stays locked until it ends, so what others
write to the row comes before both or after both.

Abstractions. The verdict of a closed poll is `pass` or `fail`; which it is, is the
tally's business (`VoteTally`, `Votes`). Time is only the passing of the vote start; publicity and execution
delays are the freedom of when a job is dispatched (`JobRunner` has the clock). Calls that leave no trace when they
fail (a busy lock, a lost connection before the first write) are `RequestFails` or no
step at all. A proposal is numbered in one step, although the code reads the maximum and
writes it in two statements: the race between two proposals belongs to `SipNumbers`.
The two states written only by commented-out code are left out. Two copies of one job
count as one in `inflight`. Some functions of several writes stay one action, because no guard
of another action reads what lies between: opening a vote (the SIP with the state), the reward of
a motivation component, the closing component and the unknown handler.

Templates are those of `seed_data/proposal_data.yml`, reduced to five attributes
(`MC_Lifecycle`), plus a custom template for the component that closes a project.

### Runs

`CHECK_DEADLOCK FALSE` throughout: the ids of rows are finite, so a run may end.

| run | instance | checks |
|---|---|---|
| `lifecycle_project` | a new-project proposal, with or without a vote, and its second version; one request and one operation | executed only after passing; a job that executes only after passing; an executed project proposal has its SIP and project; a proposal without a vote creates its project once |
| `lifecycle_automated` | an executed project and one proposal of every automated template; one request, two operations | typing; a project is closed only after a passed vote; a job only after passing; SIPs do not change |
| `lifecycle_veto` | a veto and a proposal with an automated component; one request, one operation | a veto leaves no job, and a vetoed proposal does not come back, unless something of it was under way |

Bounds. Two rows are enough for two versions of one proposal, for a proposal and its
veto, and for a proposal and the project it closes; three SIPs let the seeded project, a
second one and a close-project proposal that shares a SIP appear together; one request at
a time still interleaves with every decision, watcher and job of either row. One operation
(`MaxOps`) interleaves with requests, polls, fetches, dispatches, vetoes, component jobs and restarts; two, in
`lifecycle_automated`, let functions under the two lock tables overlap on one proposal. `MaxCopies` bounds the first versions with one component action: one new project
in the first run. `lifecycle_veto` has the constraint `RequestsAlone`: a request that edits is
not interleaved with dispatched jobs and operations there; the other two runs do that. What two
unrelated proposals do to each other beyond that is left to the proofs, which have no bounds.

No fairness is assumed and no liveness is claimed: handlers run when somebody calls them,
and a job that fails is not tried again.

Six properties of the module are stated and refuted by TLC; no run carries them:

- `FinalIsFinal`: `Withdraw` and `Reject` look at no state, so an executed or vetoed
  proposal leaves its final state, of which `model/proposal.go:210-212` says that no more
  actions are performed;
- `RejectedCanBeResubmitted`: rejecting a close-project proposal leaves its project in
  `closing`, which the check of the next submission refuses;
- `ExecutionEndsPending`: the job of a close-project component ends without touching its
  proposal, which stays `pending_execution`;
- `ProjectIsUnique`: a voted project withdrawn while its execute job waits and submitted
  again is executed twice and creates two projects (`proposal.service.go:1747` notes the
  missing index);
- `PendingHasJob`, that a pending proposal has a job which is still to run, or an operation or a
  goroutine that will move it: the veto of a pending close-project proposal deletes the jobs outside its transaction and then
  rolls back (`VetoedClosing`). Done jobs do not count, so it fails after the close-project component as well; and
  a handler that stops after it has deleted the jobs, or before it writes the last state, is
  enough;
- `VetoIsFinal`, that a vetoed proposal does not come back: a vote result that looked at the
  state before the veto writes its verdict, and its job, after it (`VetoOverwritten`).

`VetoHolds` and `VetoCancelsJobs` are what remains true: while nothing of the vetoed proposal is
under way (`UnderWay`: a goroutine with one of its jobs, or an operation of it other than a withdrawal or rejection that has only
to be written), every later handler, watcher and job looks at the state and leaves it
alone, except those that take it back or publish it again; and no job appears.

### Proofs

`ProposalLifecycleProofs` and `ProposalProjectsProofs` prove, for every set of rows and
templates and every bound:

| theorem | property |
|---|---|
| `TypeCorrect` | `TypeOK` |
| `ExecutionIsEarned` | `ExecutedAfterPassing` |
| `JobIsEarned` | `JobAfterPassing` |
| `SipNeverChanges` | `SipIsStable` |
| `VetoIsClean` | `VetoCancelsJobs` |
| `VetoedStaysVetoed` | `VetoHolds` |
| `ExecutionCreatesProject` | `ExecutedHasProject` |
| `NoProjectTwice` | `ProjectCreatedOnce` |
| `ClosedByPassing` | `ClosedAfterPassing` |

They rest on the assumptions of the constants only (rows are positive numbers, templates
are of the declared kinds, a seeded database has a template for its seed), and on an
inductive invariant, `PassingInv`. `ExecutedAfterPassing` alone is not inductive: a job runs
from whatever state its row is in, so it must be known beforehand that the row may be
executed. `PassingInv` is `TypeOK` and

- for every row (`RowInv`): an unused row has no thread and no SIP; a row that is
  pending execution or executed, and a row that has any job but the approving one, on
  the table or in flight, is *entitled*: its template has no vote, or its thread passed;
- for every thread (`PollInv`): a closed poll has a result, and a passing result is in
  `passed`, also after the poll was moved and reopened;
- for every operation (`OpInv`): it is about a row that exists, and one whose state is passed,
  pending execution or executed is about an entitled row. That is what carries the check of the
  state over the interleavings: a verdict was computed from a closed poll, and what passed once
  stays in `passed`.

There is one lemma per action. `Steady` says what no step does to a row in use: change its
template, its thread or its SIP once it has them (`StepIsSteady`), from which entitlement is
kept and `SipNeverChanges` follows. The theorems about vetoes compare a row before and after a
step (`StepVeto`): while nothing of it is under way, a step adds at most an operation
that takes the row back (`OpsQuiet`) and no job.

`ProjectInv` is `PassingInv` and what makes projects unique without an index. A proposal without
a vote has neither a poll nor a component job (`NoVote`). Its project is created by one of two
*tokens*, the second part of an approval or the execute job which that part leaves behind:
one row of all its versions holds one of them, it holds one only, and none once the project
exists (`OneToken`, `ExecutesOnce`). An operation that has only to write `executed` has
created the project (`OpEarned`). Rows with one SIP have one template, unless one
closes the other's project; and every project has a SIP somebody holds, so a new number names
no project (`NextSipIsFree`).

`CloserInv` is `ProjectInv` and: a published row is not edited in place, so its target stays;
a voted row that names a proposal names one that exists; a component job belongs to a template
with that component; a request that will save a target has one. The property speaks of
numbered projects and of either way of closing one: the motivation job closes the project of
the proposal's *own* SIP, the close-project job the one the component names. The two can
differ: a close-project proposal approved before it is published takes the SIP of its target,
and an update that was checked before the approval saves another target in a new version,
which keeps the SIP. Such a proposal reserves the new project and closes the old one.

All safety properties of the three runs are proved; no liveness is stated here.

## Payouts

A bundle of applications is charged to the budget of its project or guild when it is
created. The city hall decides it as a bundle or one application at a time. What is
approved is paid by hand (a list is exported, then completed) or, for one asset, by a cron
job that asks an external service to send the tokens 24 hours later.

| variable | code |
|---|---|
| `bundle[b]`, `app[a]` | rows of `app_bundles` and `applications`: their states; the kind of budget behind a bundle |
| `used[x]` | the used amount of an asset in the budget; used and remaining are always written together, so the rest of `Total` remains |
| `req[i]` | a decision between its checks, its transaction and what it writes after it |
| `jobs` | the transfer jobs: their row's state, and where the goroutine with a copy is |
| `paid`, `loose` | history: transfers of an application; applications that got a job other than by the approval of their bundle |

Actions. `CreateAppBundle`, `CreateReward` (from a motivation component or an SNS
invitation). `BeginBundle`/`UpdateAppBundle` and `BeginAudit`/`AuditApplications`, which
validate before a transaction: the first validates each application again inside it, the
second does not. `AfterApprove` creates the job and `AfterList` moves the bundles, after the
transaction and in one of their own. `Dispatch`, `Start`, `SendScr`, `RecordTransfer`
follow a job through the runner, the service and the record; `SendScr` may lose the answer
of a service that has paid. `CancelAutoXferTask` and `Restart` come at any time.

Abstractions. A transaction is one action; what two transactions on one budget row do to
each other, advance amounts and edits of the total are in `BudgetLedger`. All bundles have one applicant, hence one job for each
decision; a call that names several bundles is taken as one call for each. Applications that close
a project are in `Teams`. The 24 hours are the freedom of when `Dispatch`
happens; the row is taken as marked running before the next scan, five seconds later. Each
application stands for one unit of an asset.

| run | instance | checks |
|---|---|---|
| `payouts_races` | a bundle of two applications, one transferred and one paid by list, two decisions at once | typing; at most one transfer of an application approved with its bundle; a rejected application is not charged; completed is final |
| `payouts_transfer` | the same bundle, any kind of budget, a restart | nothing open is paid; at most one transfer; a transfer completes a bundle only when it covers it; a due transfer is carried out |
| `rejected_paid` | one application | violated: rejecting a bundle creates its transfer job |

Bounds. Two decisions at once give every race of a pair of handlers; the slots are
interchangeable, so the run that has two uses them as a symmetry set (it has no liveness property).
Two jobs are what a rejection and a later approval leave. One restart shows
an interrupted transfer, a due job found afterwards and a decision that is lost.
`CHECK_DEADLOCK FALSE`: a bundle that is paid has nothing left to do.

Fairness. `Fairness` is weak fairness of the next step of each job: the scan repeats every
five seconds, the channel and the goroutines have nothing that keeps them from going on, and the
request to the service ends after ten minutes at the latest. Nothing is assumed about people: handlers
may never be called, requests may stay unfinished. `TransferEnds` says that a job does not stay active for
ever; it does not say that it is paid, since a lost answer, missing settings or a
cancellation ends it too.

`WithinBudget` is stated and refuted, and no run carries it: a rejection gives the amount
back, a new bundle takes it, and the rejected one is approved without a withdrawal.

Proofs. `PayoutsProofs` proves `TypeOK`, `PaidOnce`, `OpenIsUnpaid`, `CompletedIsFinal`,
`CompletedWithAll` and `RejectedIsRestored` for any bundles, items, kinds, number of decisions,
jobs and restarts. Bundles are a finite set of numbers and items are finite, which counting
what is charged needs, and `reward` bundles come from the system only, not from a request. `PaidOnce` says nothing of the applications that wait, so
the invariant `PayInv` adds how a payment comes about: an application is in a bundle that was created
(`AppsHaveBundles`), requests and jobs are about what was decided (`RequestsAreDecided`,
`JobsAreDecided`), an application that is not `loose` is in one job at most (`OneJob`), what
is paid was paid through a job (`PaidThroughJob`), and the step of the job says whether
it was sent (`SentOnce`). `RejectedIsRestored` compares what is used with the number of charged
applications that are not rejected; a step that charges or restores changes both by the same
applications. `TransferEnds` is TLC's.

`PaidOnce` excludes `loose` applications because the code does: single applications approved by
two concurrent calls, and bundles rejected and then approved, do get two jobs.

## VoteTally and TallyCheck

`VoteTally` holds the operators that turn the counts of a closed poll into a result (`Passes`),
and the extra rules a passing vote must also meet (`CheckRules`), in the order and with the
integer division of the code: a ratio of a metric that the indexer reports as 0 panics, an
unreadable rule is skipped, an unknown type keeps the verdict, the first failure ends the loop.
`TallyCheck` closes one poll with any counts up to 2 for three options, any kind of vote, up to
two rules and an indexer that answers or fails. `VerdictIsDeserved` states the result without
the code's order: by majorities as products, by one clear winner with a vote where the options are
numbers, and by the first rule of a list that is not met. It is proved for every set of options,
counts, rules and answers (`VerdictsAreDeserved` in `ServicesProofs`): the proof unfolds the loop over
the rules as a function of their number and compares it with the least rule that decides.

## Votes

The forum owns the poll and the ballots of one proposal; the backend keeps its status, the count
of each option and a record for each voter. What makes it hard is that nobody tells the backend:
the copy is refreshed by whoever fetches the thread, HTTP requests step by step outside a
transaction, and the minute job in one transaction, under two lock tables that do not exclude
each other.

| variable | code |
|---|---|
| `poll`, `ballot` | external: status of the forum's poll, the option of each user |
| `row`, `count` | `proposal_vote_records.state` and `voter_count` of its options |
| `prop` | state of the proposal; whether the voters were saved as complete |
| `records` | the user vote records |
| `lock`, `req`, `job` | the HTTP lock table; how far a request is and what it has read; the thread the job has fetched |
| `call` | a cast or revoke done on the forum and not yet recorded |
| `cast`, `early`, `lost`, `revokes` | history and bounds; `early`: the voters were marked as saved after a listing that was read before the close, or that the forum refused |

`Fetch`, `ReadRow`, `WriteRow`, `WriteCounts`, `HandleOpen`/`HandleClose`/`HandleOther`,
`ReadCounts` and `WriteState` follow a request; `JobFetch` and `JobUpdate` the job;
`RequestRecords`, `ListVoters`, `PollNotExists` and `SaveVoters` the data service; `CastVote`/`RecordCast` and
`RevokeVote`/`RecordRevoke` the two halves of the handlers. `CallFails`, `RequestLost` and
`JobFails` end one in between. The code does what follows, and the model has it:

- a stale fetch may overwrite a later status and counts, and re-open what was closed; the next
  refresh repairs it. The properties are stated so that this is allowed and only what cannot be
  repaired is not.
- a request lost after it saved the status `close` leaves the poll unsettled for ever, since
  later fetches see no change (`lost` in `ClosedIsSettled`).
- `SaveCounts` does not write zeros (`Updates` of a struct skips them): `stale_result`.
- `RevokeVote` deletes everybody's records of the first option with that forum id.
- the voters are listed first and the poll asked afterwards whether it has ended (`early`).
- a thread or its poll may be deleted on the forum: fetches then update nothing, and a listing
  answered by "Poll not exists" marks the voters as saved with no record at all
  (`PollNotExists`, `JobSettles`; `early`).
- at most 100 pages of ten voters of an option are asked for: the rest is missing from what is
  saved as complete (`MaxListed`, 1 in the runs; a hypothesis of `SavedIsComplete`).
- `FetchUserWalletFromMetaforoIds` leaves the wallet of an unknown user empty, although its
  comment says it saves it: `Stranger`.

The proposal has no extra rules and no automated component, so `vote_passed` is not final and
may be settled again. `Votes.cfg` has one user, a decision, one HTTP request, one of the data
service, one revocation and one lost request; more voters add only counts, since every property
is about one ballot and the copy of it, and ties and majorities are `TallyCheck`'s.
`StaleResult.cfg` is the smallest instance of the finding.

Fairness: weak fairness of the job, which the runner repeats every minute, and of each step of a
request that was begun; nobody has to fetch or vote.

Proofs. `VotesProofs` proves `TypeOK`, `RecordsWereCast`, `SavedIsComplete` and `PassedHadSupport`
for any finite set of users and options, any kind of vote that counts, and any bounds. A stale copy
is harmless only because of where it came from, so the invariants follow every value on its
way. `CastInv`: a ballot, a call to be recorded and each entry of a list a request is about to
save was cast. `SavedInv`: a list read after the close is the final one, and the records are
marked complete only then, unless `early` says otherwise. `SupportInv`: an option that the saved count, the job or a request
counts above zero was cast by somebody. `ClosedIsSettled` is TLC's.

## JobQueue and JobRunner

`JobQueue` is what those who leave a job in the table may count on: it is begun at most once, no
earlier than one scan before it is due, or refused when nobody knows its handler. `JobRunner` is
the code: the scan selects active rows of a time window (or overdue ones never executed), the
dispatcher hands a copy to a goroutine, which marks the row, works and saves how it ended; a
second schedule arms the refresh job each minute, whatever its row says; the process stops with
its goroutines and starts again with the rows. Updates of rows may fail.

Refinement: `status` is computed from the row and from how often the work was begun (twice is a
status the queue does not have), `wait` is the time to `next_exec_ts`. `ImplementsQueue` is
`JobQueue`'s specification as a property of the runner.

The constant `Slow` names jobs whose goroutine may reach the database only after the next scan;
`Jobs.cfg` has the refresh there. With a one-shot job in `Slow` the refinement fails, since a
scan selects a row that is still active: the code relies on a goroutine being faster than five
seconds, and the model says so.

Proofs. `JobRunnerProofs` proves `TypeOK` and the safety part of the refinement
(`RunnerImplementsQueue`) for any jobs, times and bounds, where no one-shot job is slow: initial
states map to initial states, and every step of the runner to a step of the queue or to none. The
inductive invariant `QueueInv` is what the mapping hides: a job was begun once if its row says
running or done and never otherwise; a job has one copy on its way at most, gone before the time
of the next scan comes nearer, of an active row that is due before that scan; and the one
goroutine at work on a job has marked its row. `ActiveIsPicked` and `RefreshGoesOn` are TLC's.

Fairness: time, both schedules, the goroutines' own steps and the start of a stopped process are
weakly fair. The scan of a due refresh job is strongly fair, because arming it in the second it
falls due postpones it by a minute, and only chance keeps that from happening each time. One
restart and one failed write show every loss; a minute of four ticks holds two scans.
`RefreshMetaforoAdminToken` is left out: it replaces a token in the settings table.

## Teams

A project or a guild: its row (status, sponsors, members), the wallets with its sponsor role and
the role's rights (casbin), and the applications to close it. Every handler reads the row,
checks, and saves the whole row it read; the rules are changed outside the transaction.
`Create`, `Update`, the staff changes, `Close`, the audit of a closing application and
`AddRelatedProposal` are split there, two requests run at once, and the jobs that create or
close a project or change its owner may run in between.

| run | checks |
|---|---|
| `teams` | a team in `pending_close` has an open application, so hall can always decide it; whoever acts for a team is of the hall or was once named for it |
| `removed_sponsor` | violated: removing a sponsor takes the role from those who stay |

Facts of the code the model shows and a reader should know. A closing application of a project
without a budget row can never be rejected (the handler panics), and the row stays
`pending_close` with it. Rejecting an application that was already completed opens the project
again, as does a stale save. `Update` grants roles before it checks the status. Sponsors of
guilds get the role but the role has no rights. A grant to several wallets, of which one has the
role already, gives it to none. Closing over a link and `CloseProjectTask` leave the rules in
place. That is why `AuthorityHasSource` is about having been named, not about the present list.

Proofs. `TeamsProofs` proves `TypeOK`, `PendingHasApplication` and `AuthorityHasSource` for any
wallets, lists, number of applications and operations. The first is hard because every handler saves
the whole row it read: the invariant says that a request which read `pending_close` decides the
closing, or is an update that will be refused, so no late save brings the state back once
the application is decided. The second carries the wallets once named through every list that a
request, a job or the row holds.

Bounds: three wallets (one of the hall), the sponsor lists of up to two and a set with one
member, two applications, four requests or jobs, two at once. Four are what it takes to create a
team, change it and decide two overlapping requests. No liveness: handlers are called by people.

## Services

Seven services with nothing in common (`Payouts` has a view of budgets of its own); a behaviour of `Services` runs one
of them. Each is a small module of request steps.

| module | state | properties |
|---|---|---|
| `AssetTransfers` | balance rows, transfer logs, transactions with the row lock they hold | `NoOverdraft`, `BalanceFollowsLog` |
| `Invites` | invitation rows, rewards, the rows of a sweep | `RewardedOnce`, `NamedIsRewarded` |
| `SeasonRewards` | the season row, bundles, cached sums | `MintedOnce` |
| `SipNumbers` | state and SIP of proposals, processes between reading the maximum and writing it | `SipsAreDense` |
| `Publicity` | announcements, edits in progress | `PublishedIsFrozen` |
| `TallyCheck` | a closed poll | `VerdictIsDeserved` |
| `BudgetLedger` | one budget row, what applications took from it, requests with the row they read | `BudgetBalances` |

Several promises hold only while operations do not overlap, because the code has no lock or
index that would keep them: history variables (`raced`, `mixed`, `crossed`, `collided`, `stale`) mark
what did overlap, and the properties say what remains true of the rest. `raced`: no unique index
keeps a wallet from two asset records, and two first payments to it that overlap lose or double
an amount (a new recipient's amount is also booked as `processing`). `mixed`: a request that
names an inviter and a sweep over the same invitee. `crossed`: two confirmations of a season.
`collided`: two proposals numbered at once. `stale`: an amount computed from a budget row that
had changed since it was read, or a refusal that gives back what another one gave back already.
A database that runs the transactions one after the other would leave only the edits, which are
in no transaction; the code asks for no such isolation, and the defaults of the two databases it
can be built for let the second write win. Failed transactions roll back, including the log
entry meant to say that they failed.

`Services.cfg` gives each service the least that makes its race happen: two requests at once,
two users with a record and one without, two invitees, two announcements and seasons, four
proposals of which one closes another's project, one budget of -1 or 3 with half in advance or
none and two applications of -1 or 2. `NamedIsRewarded` assumes that the sweep is
started again and again, as the schedule in `cmd/apiserver/main.go` does when it is configured
(533-556), and that nothing else is fair.

Proofs. `ServicesProofs` proves `TypeOK` and all eight safety properties for any users, amounts,
proposals and bounds. Only one service runs in a behaviour, so a frame lemma (`OneService`)
leaves each property to the steps of its own module, with an invariant of its own:

| theorem | what the invariant adds to the property |
|---|---|
| `NobodyOverdraws`, `BalancesFollowLogs` | a row that is locked is the one its transaction has read; a user who is not `raced` has one record, which a transfer from it has locked and found sufficient, and a first payment found none |
| `InvitesRewardedOnce` | an invitee whose operations did not overlap (not `mixed`) has one row and one operation at a time, and that on a row nobody paid for; a verified row was paid for |
| `SeasonMintedOnce` | a season, saved or held by a request, names a bundle that exists; until requests cross, one admin at a time works, on the season as it is, and no bundle exists before it is confirmed |
| `SipNumbersAreDense` | a number that was chosen and not yet saved is at most one above the highest in use; two are chosen at once only for proposals in `collided` |
| `PublishedStaysFrozen` | an edit holds the row of the announcement it was begun for |
| `VerdictsAreDeserved` | see `TallyCheck` |
| `BudgetStaysBalanced` | what a request has read still holds unless it is `stale`; no amount is below 0 unless `negative` says so; used is the sum over the applications that hold an amount |

The assumptions name what the constants are: the opening balances have one record for each wallet and
are not negative; totals, ratios and requested amounts are integers of any sign,
since the handlers parse them and refuse none; labels and proposals to
be numbered are finite. `NamedIsRewarded` is TLC's.

Facts about budgets. A requested amount below 0 passes the check of what is available, and the
withdrawal then adds to the budget and takes the used amounts below 0. `negative` (history)
marks that, and a budget made with an advance below 0: only without it does `BudgetBalances` say
that neither part of the advance is negative; that they add up to it holds always. A bundle may ask a project for its advance only, so a budget without one,
as the city hall creates it with a project, is never charged. The advance stays what it was when
the total is edited, and a total below what is used leaves a negative remainder. Editing a
guild's total leaves its remainder alone: the comment `total_amount = used_amount +
remain_amount` (`model/guild_budget.go:17`) no longer holds afterwards, and `BudgetBalances` claims
that sum of projects only. Nothing in the repository creates the budget of a guild; the model
takes the row as given.

## Runs at a glance

| run | distinct states | about |
|---|---|---|
| `lifecycle_project`, `lifecycle_automated`, `lifecycle_veto` | 1.5, 0.9 and 3.5 million | proposals |
| `payouts_races`, `payouts_transfer` | see above | applications |
| `votes` | 1.3 million | one poll, four kinds of watchers |
| `jobs` | 240 thousand | the runner, refinement |
| `teams` | 1.3 million, requests symmetric | a project or a guild |
| `services` | 440 thousand | seven services |
| `rejected_paid`, `stale_result`, `removed_sponsor` | smallest instance | a disagreement with a comment or test; `findings` quotes it |

Configurations that no run lists (`FinalIsFinal`, `RejectedClosing`, `ExecutionEnds`,
`ProjectTwice`, `VetoedClosing`, `VetoOverwritten`, `BudgetExceeded`) reproduce with TLC the refutations named in
the sections above.

## Not modelled

- City hall: the budget of its project is edited as `BudgetLedger` has it and never charged; its
  first edit creates the row, and two of them at once leave two. Members: roles first and the list after, with no rollback, so an error in between
  leaves the two apart; a list that becomes empty is not saved (`Updates` of a struct). Only
  queries read the list, so no state of another component depends on it.
- Proposal comments: forwarded to the forum, mirrored by thread; nothing reads the mirror but
  the display.
- Treasury: totals upserted in a statement each; sums on read.
- Login and sessions: signatures, tokens and nonces; a new nonce replaces the old, and what
  makes it correct is cryptography.
- Events, push, webhooks, administration, public data, most of the data services, GraphQL
  (generated): forwarding, plain records and read-only queries.
- The legacy handlers of `internal/api`: no route reaches them. The proposal and vote functions
  the task manager calls are modelled.
- Command-line tools, `docs/docs.go` (generated), storage and configuration.
- Liveness beyond the jobs, votes, payouts and the invitation sweep: everything else waits for a
  person.

What is not proved. The prover has no rules for fairness and ENABLED, so `TransferEnds`,
`ClosedIsSettled`, `ActiveIsPicked`, `RefreshGoesOn` and `NamedIsRewarded` are checked on the instances
above only, as are the refutations. The library's induction theorems take an operator, which the
provers cannot instantiate; `FoldLemmas` states induction over sets of numbers and of
subsets instead, which was enough for sums, maxima and the loop over the rules. No module
here declares a recursive operator.
