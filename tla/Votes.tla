---- MODULE Votes ----
(***************************************************************************)
(* The poll of one proposal, from the first ballot to the settled result.  *)
(* The forum holds the poll and the ballots.  The backend casts, revokes   *)
(* and closes there for its users and keeps a copy: the status of the      *)
(* poll, a count for each option, and a record for each voter.  The copy   *)
(* is refreshed by whoever fetches the thread: HTTP requests, step by      *)
(* step and outside a transaction, under one lock table; the minute job,   *)
(* in one transaction, under another table.                                *)
(***************************************************************************)
EXTENDS VoteTally

CONSTANTS
    Users,        \* voters
    Known,        \* those whose wallet the backend knows by their forum id
    Seeds,        \* those who hold what the vote gates of the template ask for
    Options,      \* labels of the options
    FirstOption,  \* the option whose record was created first
    Kind,         \* the vote type of the proposal, which has no extra rules and no
                  \* automated component: its vote_passed can be settled again
    Watchers,     \* HTTP requests that fetch the thread
    Recorders,    \* HTTP requests of the data service
    MaxListed,    \* voters of one option that the listing asks for, 100 pages of 10
    MaxRevokes,   \* bound on the ballots taken back
    MaxLost       \* bound on the requests that end before they are done

VARIABLES
    poll,     \* external: the poll on the forum
    ballot,   \* external: the option that each user has a ballot for
    row,      \* the saved status of the poll
    count,    \* the saved count of each option
    prop,     \* the proposal
    records,  \* the vote records: a user, or Stranger for an unknown wallet, and an option
    lock,     \* the HTTP request that holds the proposal in the lock table, or Nobody
    req,      \* req[p]: how far request p is, and what it has read
    job,      \* what the minute job has fetched
    call,     \* call[u]: what user u has done on the forum and not yet in the database
    revokes, lost,
    cast,     \* history: every ballot there ever was
    early     \* history: voters listed before the poll closed were saved after it, or
              \* records were deleted after they were saved as complete, or they were
              \* marked as complete with no list because the poll was gone

forum == <<poll, ballot>>
vars == <<poll, ballot, row, count, prop, records, lock, req, job, call, revokes, lost, cast, early>>

Procs == Watchers \cup Recorders

Stranger == "stranger"
Nobody == "nobody"
Abstain == "abstain"
Idle == [stage |-> "idle"]
Counts == [Options -> 0..Cardinality(Users)]
Ballots == [Users -> Options \cup {Abstain}]
Status == {"wait", "open", "close"}
States == {"approved", "voting", "vote_passed", "vote_failed"}

ASSUME UsersAssumption == Known \subseteq Users /\ Seeds \subseteq Users /\ IsFiniteSet(Users)
\* No option stands for not having voted.
ASSUME OptionsAssumption ==
    /\ FirstOption \in Options /\ IsFiniteSet(Options) /\ Abstain \notin Options
    /\ Kind \in VoteKinds \ {"none", "always_passed"}
ASSUME BoundsAssumption == MaxListed \in Nat /\ MaxRevokes \in Nat /\ MaxLost \in Nat

Voters(o) == {u \in Users : ballot[u] = o}

\* What a fetch of the thread returns.
Fetched == [poll |-> poll.status, count |-> [o \in Options |-> Cardinality(Voters(o))]]

Request ==
    [stage: {"fetched"}, poll: Status, count: Counts] \cup
    [stage: {"row"}, poll: Status, count: Counts, curr: Status] \cup
    [stage: {"count"}, count: Counts, changed: BOOLEAN] \cup
    [stage: {"handle", "settle", "list"}] \cup
    [stage: {"write"}, state: States] \cup
    [stage: {"save"}, list: Ballots, closed: BOOLEAN]

TypeOK ==
    /\ poll \in [status: Status \cup {"deleted"}, ended: BOOLEAN]
    /\ ballot \in Ballots
    /\ row \in Status /\ count \in Counts
    /\ prop \in [state: States, sip: BOOLEAN, saved: BOOLEAN]
    /\ records \subseteq (Users \cup {Stranger}) \X Options
    /\ lock \in Procs \cup {Nobody}
    /\ req \in [Procs -> Request \cup {Idle}]
    /\ job \in {Idle} \cup [stage: {"fetched"}, poll: Status, count: Counts]
    /\ call \in [Users -> {Idle} \cup [stage: {"cast"}, option: Options] \cup [stage: {"revoke"}]]
    /\ revokes \in 0..MaxRevokes /\ lost \in 0..MaxLost
    /\ cast \subseteq Users \X Options /\ early \in BOOLEAN

Init ==
    /\ poll = [status |-> "wait", ended |-> FALSE]
    /\ ballot = [u \in Users |-> Abstain]
    /\ row = "wait" /\ count = [o \in Options |-> 0]
    /\ prop = [state |-> "approved", sip |-> FALSE, saved |-> FALSE]
    /\ records = {} /\ lock = Nobody
    /\ req = [p \in Procs |-> Idle] /\ job = Idle /\ call = [u \in Users |-> Idle]
    /\ revokes = 0 /\ lost = 0 /\ cast = {} /\ early = FALSE

----
(* The forum, and the users who vote through the backend. *)

PollOpens ==
    /\ poll.status = "wait"
    /\ poll' = [poll EXCEPT !.status = "open"]
    /\ UNCHANGED <<ballot, row, count, prop, records, lock, req, job, call, revokes, lost, cast, early>>

\* The time of the poll is over, or somebody closed it before that.
PollCloses(ended) ==
    /\ poll.status = "open"
    /\ poll' = [status |-> "close", ended |-> ended]
    /\ UNCHANGED <<ballot, row, count, prop, records, lock, req, job, call, revokes, lost, cast, early>>

TimePasses ==
    /\ poll.status = "close" /\ ~poll.ended
    /\ poll' = [poll EXCEPT !.ended = TRUE]
    /\ UNCHANGED <<ballot, row, count, prop, records, lock, req, job, call, revokes, lost, cast, early>>

\* The thread is deleted on the forum, or its poll: no poll is left that has not ended.
PollDeleted ==
    /\ poll.status # "deleted"
    /\ poll' = [status |-> "deleted", ended |-> TRUE]
    /\ UNCHANGED <<ballot, row, count, prop, records, lock, req, job, call, revokes, lost, cast, early>>

\* All gates of the template must be met.
MayVote(u) == u \in Seeds

CastVote(u, o) ==
    /\ poll.status = "open" /\ call[u] = Idle /\ ballot[u] = Abstain /\ MayVote(u)
    /\ ballot' = [ballot EXCEPT ![u] = o]
    /\ cast' = cast \cup {<<u, o>>}
    /\ call' = [call EXCEPT ![u] = [stage |-> "cast", option |-> o]]
    /\ UNCHANGED <<poll, row, count, prop, records, lock, req, job, revokes, lost, early>>

M_RecordCast(u) ==
    /\ call[u].stage = "cast"
    /\ records' = records \cup ({u} \X Options)
    /\ call' = [call EXCEPT ![u] = Idle]
    /\ UNCHANGED <<forum, row, count, prop, lock, req, job, revokes, lost, cast, early>>

\* The vote is recorded in a transaction after the forum has taken it.
RecordCast(u) ==
    /\ call[u].stage = "cast"
    /\ records' = records \cup {<<u, call[u].option>>}
    /\ call' = [call EXCEPT ![u] = Idle]
    /\ UNCHANGED <<forum, row, count, prop, lock, req, job, revokes, lost, cast, early>>

RevokeVote(u) ==
    /\ poll.status = "open" /\ call[u] = Idle /\ ballot[u] # Abstain /\ revokes < MaxRevokes
    /\ ballot' = [ballot EXCEPT ![u] = Abstain]
    /\ revokes' = revokes + 1
    /\ call' = [call EXCEPT ![u] = [stage |-> "revoke"]]
    /\ UNCHANGED <<poll, row, count, prop, records, lock, req, job, lost, cast, early>>

\* The first option of the poll is looked up, and its records are deleted, of everybody.
RecordRevoke(u) ==
    /\ call[u].stage = "revoke"
    /\ records' = {r \in records : r[2] # FirstOption}
    /\ early' = (early \/ prop.saved)
    /\ call' = [call EXCEPT ![u] = Idle]
    /\ UNCHANGED <<forum, row, count, prop, lock, req, job, revokes, lost, cast>>

\* The request ends after the forum has taken it.
CallFails(u) ==
    /\ call[u] # Idle /\ lost < MaxLost
    /\ lost' = lost + 1
    /\ call' = [call EXCEPT ![u] = Idle]
    /\ UNCHANGED <<forum, row, count, prop, records, lock, req, job, revokes, cast, early>>

----
(* What a fetch does to the copy. *)

\* The counts are saved by an update of the fields that are not zero.
M_SaveCounts(c) == [o \in Options |-> IF c[o] = 0 THEN count[o] ELSE count[o] + c[o]]
SaveCounts(c) == [o \in Options |-> IF c[o] = 0 THEN count[o] ELSE c[o]]

Decided(state) == state \in {"vote_passed", "vote_failed"}
StateFor(c) == IF Passes(Kind, c) THEN "vote_passed" ELSE "vote_failed"

\* The poll was seen open: a proposal without a SIP gets it and is voting.  What was
\* decided without ever being seen open is no exception.
Opened == IF prop.sip \/ prop.state = "voting" THEN prop
          ELSE [prop EXCEPT !.state = "voting", !.sip = TRUE]

WalletOf(u) == IF u \in Known THEN u ELSE Stranger

\* The lists of voters, option by option: the rest of those who are too many is not asked for.
Listed(list) ==
    \A o \in Options :
        LET listed == {u \in Users : list[u] = o}
        IN  /\ listed \subseteq Voters(o)
            /\ IF Cardinality(Voters(o)) <= MaxListed THEN listed = Voters(o)
               ELSE Cardinality(listed) = MaxListed
RecordsOf(list) == {<<WalletOf(u), list[u]>> : u \in {v \in Users : list[v] # Abstain}}

----
(* HTTP requests that fetch the thread: details of the proposal, closing the vote. *)

Step(p, r) == req' = [req EXCEPT ![p] = r]
End(p) == Step(p, Idle)

\* A thread that is gone, or has no poll any more, updates nothing.
Fetch(p) ==
    /\ req[p] = Idle /\ poll.status # "deleted"
    /\ Step(p, [stage |-> "fetched", poll |-> Fetched.poll, count |-> Fetched.count])
    /\ UNCHANGED <<forum, row, count, prop, records, lock, job, call, revokes, lost, cast, early>>

ReadRow(p) ==
    /\ req[p].stage = "fetched"
    /\ Step(p, [stage |-> "row", poll |-> req[p].poll, count |-> req[p].count, curr |-> row])
    /\ UNCHANGED <<forum, row, count, prop, records, lock, job, call, revokes, lost, cast, early>>

\* The update names the status it replaces, but nobody looks whether it found it.
WriteRow(p) ==
    /\ req[p].stage = "row"
    /\ row' = IF row = req[p].curr THEN req[p].poll ELSE row
    /\ Step(p, [stage |-> "count", count |-> req[p].count, changed |-> req[p].curr # req[p].poll])
    /\ UNCHANGED <<forum, count, prop, records, lock, job, call, revokes, lost, cast, early>>

WriteCounts(p) ==
    /\ req[p].stage = "count"
    /\ count' = SaveCounts(req[p].count)
    /\ IF req[p].changed THEN Step(p, [stage |-> "handle"]) ELSE End(p)
    /\ UNCHANGED <<forum, row, prop, records, lock, job, call, revokes, lost, cast, early>>

\* The change is handled by the status that is saved now.
HandleOpen(p) ==
    /\ req[p].stage = "handle" /\ row = "open"
    /\ prop' = Opened
    /\ End(p)
    /\ UNCHANGED <<forum, row, count, records, lock, job, call, revokes, lost, cast, early>>

HandleOther(p) ==
    /\ req[p].stage = "handle" /\ row = "wait"
    /\ End(p)
    /\ UNCHANGED <<forum, row, count, prop, records, lock, job, call, revokes, lost, cast, early>>

\* Settling needs the lock, and is given up when somebody has it.
HandleClose(p) ==
    /\ req[p].stage = "handle" /\ row = "close"
    /\ IF lock = Nobody THEN lock' = p /\ Step(p, [stage |-> "settle"]) ELSE UNCHANGED lock /\ End(p)
    /\ UNCHANGED <<forum, row, count, prop, records, job, call, revokes, lost, cast, early>>

ReadCounts(p) ==
    /\ req[p].stage = "settle"
    /\ Step(p, [stage |-> "write", state |-> StateFor(count)])
    /\ UNCHANGED <<forum, row, count, prop, records, lock, job, call, revokes, lost, cast, early>>

WriteState(p) ==
    /\ req[p].stage = "write"
    /\ prop' = [prop EXCEPT !.state = req[p].state]
    /\ lock' = Nobody
    /\ Step(p, [stage |-> "list"])
    /\ UNCHANGED <<forum, row, count, records, job, call, revokes, lost, cast, early>>

----
(* The records of the voters, after a settled vote or for the data service. *)

\* The data service records the voters of any proposal whose voters are not all recorded,
\* whatever its poll is doing.
RequestRecords(p) ==
    /\ req[p] = Idle /\ ~prop.saved
    /\ Step(p, [stage |-> "list"])
    /\ UNCHANGED <<forum, row, count, prop, records, lock, job, call, revokes, lost, cast, early>>

\* The lists of voters are fetched, unless all are recorded.  Whether the poll was
\* closed by then is noted for the property only.
ListVoters(p) ==
    /\ req[p].stage = "list"
    /\ poll.status # "deleted" \/ prop.saved
    /\ IF prop.saved THEN End(p)
       ELSE \E list \in Ballots :
                /\ Listed(list)
                /\ Step(p, [stage |-> "save", list |-> list, closed |-> poll.status = "close"])
    /\ UNCHANGED <<forum, row, count, prop, records, lock, job, call, revokes, lost, cast, early>>

\* The forum has no such poll: the voters count as recorded, and none is.
PollNotExists(p) ==
    /\ req[p].stage = "list" /\ poll.status = "deleted" /\ ~prop.saved
    /\ prop' = [prop EXCEPT !.saved = TRUE]
    /\ early' = TRUE
    /\ End(p)
    /\ UNCHANGED <<forum, row, count, records, lock, job, call, revokes, lost, cast>>

\* Whether a poll has not ended is asked after the lists were fetched.
M_SaveVotersAlways(p) ==
    /\ req[p].stage = "save"
    /\ records' = records \cup RecordsOf(req[p].list)
    /\ prop' = [prop EXCEPT !.saved = TRUE]
    /\ early' = (early \/ (poll.status \in {"close", "deleted"} /\ ~req[p].closed))
    /\ End(p)
    /\ UNCHANGED <<forum, row, count, lock, job, call, revokes, lost, cast>>
SaveVoters(p) ==
    /\ req[p].stage = "save"
    /\ records' = records \cup RecordsOf(req[p].list)
    /\ prop' = [prop EXCEPT !.saved = poll.ended]
    /\ early' = (early \/ (poll.status \in {"close", "deleted"} /\ ~req[p].closed))
    /\ End(p)
    /\ UNCHANGED <<forum, row, count, lock, job, call, revokes, lost, cast>>

\* A request ends early: an error of the forum or the database, or a restart.
RequestLost(p) ==
    /\ req[p] # Idle /\ lost < MaxLost
    /\ lost' = lost + 1
    /\ End(p)
    /\ lock' = IF lock = p THEN Nobody ELSE lock
    /\ UNCHANGED <<forum, row, count, prop, records, job, call, revokes, cast, early>>

----
(* The minute job: the latest version of every proposal that may still be voted on. *)

M_Refreshed == prop.state = "voting"
Refreshed == prop.state \in {"approved", "voting"}

JobFetch ==
    /\ job = Idle /\ Refreshed /\ poll.status # "deleted"
    /\ job' = [stage |-> "fetched", poll |-> Fetched.poll, count |-> Fetched.count]
    /\ UNCHANGED <<forum, row, count, prop, records, lock, req, call, revokes, lost, cast, early>>

\* The proposal is settled and its voters are listed, or count as recorded when the forum
\* has no such poll any more.
JobSettles ==
    /\ prop' = [prop EXCEPT !.state = StateFor(SaveCounts(job.count)), !.saved = @ \/ poll.ended]
    /\ IF prop.saved \/ poll.status = "deleted" THEN UNCHANGED records
       ELSE \E list \in Ballots : Listed(list) /\ records' = records \cup RecordsOf(list)
    /\ early' = (early \/ (~prop.saved /\ poll.status = "deleted"))

\* One transaction.  Its own lock table is free, and the voters are listed within it.
JobUpdate ==
    /\ job # Idle
    /\ row' = job.poll
    /\ count' = SaveCounts(job.count)
    /\ IF row # job.poll /\ job.poll = "close" THEN JobSettles
       ELSE /\ prop' = IF row # job.poll /\ job.poll = "open" THEN Opened ELSE prop
            /\ UNCHANGED <<records, early>>
    /\ job' = Idle
    /\ UNCHANGED <<forum, lock, req, call, revokes, lost, cast>>

\* An error rolls the transaction back.
JobFails ==
    /\ job # Idle /\ lost < MaxLost
    /\ lost' = lost + 1 /\ job' = Idle
    /\ UNCHANGED <<forum, row, count, prop, records, lock, req, call, revokes, cast, early>>

----

Voting ==
    \/ PollOpens \/ \E ended \in BOOLEAN : PollCloses(ended) \/ TimePasses \/ PollDeleted
    \/ \E u \in Users :
        \/ \E o \in Options : CastVote(u, o)
        \/ RecordCast(u) \/ RevokeVote(u) \/ RecordRevoke(u) \/ CallFails(u)

Continue(p) ==
    \/ ReadRow(p) \/ WriteRow(p) \/ WriteCounts(p)
    \/ HandleOpen(p) \/ HandleClose(p) \/ HandleOther(p)
    \/ ReadCounts(p) \/ WriteState(p)
    \/ ListVoters(p) \/ PollNotExists(p) \/ SaveVoters(p)

Watching ==
    \/ \E p \in Watchers : Fetch(p)
    \/ \E p \in Recorders : RequestRecords(p)
    \/ \E p \in Procs : Continue(p) \/ RequestLost(p)
Job == JobFetch \/ JobUpdate \/ JobFails

Next == Voting \/ Watching \/ Job

\* The job runs every minute; a request that was begun goes on.  Nobody has to begin one.
Fairness ==
    /\ WF_vars(JobFetch \/ JobUpdate)
    /\ \A p \in Procs : WF_vars(Continue(p))

Spec == Init /\ [][Next]_vars /\ Fairness

----

\* A proposal that passed had, at some time, a voter for what passed, whatever was
\* fetched late, overwritten by an older fetch or settled twice.
PassedHadSupport ==
    prop.state = "vote_passed" =>
        \E o \in Options : (Kind = "decision" => o = "approve") /\ \E u \in Users : <<u, o>> \in cast

\* Every record of a user is of a ballot that user once cast.
RecordsWereCast == \A r \in records : r[1] # Stranger => r \in cast

\* Once the voters are saved as complete, no ballot of the closed poll lacks its record,
\* unless the list was read before it closed, could not be read because the poll was gone,
\* or ended before the voters of an option did, or a revocation was recorded after it.
SavedIsComplete ==
    prop.saved /\ ~early /\ (\A o \in Options : Cardinality(Voters(o)) <= MaxListed) =>
        \A u \in Users : ballot[u] # Abstain => <<WalletOf(u), ballot[u]>> \in records

\* From some time on a closed poll is settled, and stays so, unless it is deleted or a
\* request was lost after it saved the status it did not handle.
ClosedIsSettled == <>[](poll.status = "close" /\ lost = 0 => Decided(prop.state))

\* The result follows the ballots, which no longer change once the poll is closed.
ResultFollowsBallots ==
    poll.status = "close" /\ Decided(prop.state) => prop.state = StateFor(Fetched.count)

====
