---- MODULE VotesProofs ----
(***************************************************************************)
(* Proofs about Votes, for any users, options and requests.                *)
(***************************************************************************)
EXTENDS Votes, FoldLemmas

----
(* Types. *)

\* What a fetch counts are counts.
LEMMA FetchedType ==
    ASSUME TypeOK, poll.status # "deleted"
    PROVE  Fetched.poll \in Status /\ Fetched.count \in Counts
<1>1. Fetched.poll \in Status
      BY DEF Fetched, TypeOK
<1>2. ASSUME NEW o \in Options
      PROVE  Cardinality(Voters(o)) \in 0..Cardinality(Users)
  <2> DEFINE T == Voters(o)
  <2>1. T \in SUBSET Users
        BY DEF Voters
  <2> HIDE DEF T
  <2>2. IsFiniteSet(T) /\ Cardinality(T) <= Cardinality(Users)
        BY <2>1, UsersAssumption, FS_Subset
  <2>3. Cardinality(T) \in Nat /\ Cardinality(Users) \in Nat
        BY <2>2, UsersAssumption, FS_CardinalityType
  <2>4. Cardinality(T) \in 0..Cardinality(Users)
        BY <2>2, <2>3
  <2>. QED BY <2>4 DEF T
<1>3. Fetched.count \in Counts
      BY <1>2 DEF Fetched, Counts
<1>. QED BY <1>1, <1>3

\* What is saved of a count is one.
LEMMA SaveCountsType ==
    ASSUME TypeOK, NEW c \in Counts
    PROVE  SaveCounts(c) \in Counts
BY DEF TypeOK, SaveCounts, Counts

\* What a request knows at each of its stages.
LEMMA RequestFields ==
    ASSUME TypeOK, NEW p \in Procs
    PROVE  /\ req[p] # Idle => req[p] \in Request
           /\ req[p].stage = "fetched" => req[p].poll \in Status /\ req[p].count \in Counts
           /\ req[p].stage = "row" => req[p].poll \in Status /\ req[p].count \in Counts
                                        /\ req[p].curr \in Status
           /\ req[p].stage = "count" => req[p].count \in Counts /\ req[p].changed \in BOOLEAN
           /\ req[p].stage = "write" => req[p].state \in States
           /\ req[p].stage = "save" => req[p].list \in Ballots /\ req[p].closed \in BOOLEAN
<1>1. req[p] \in Request \cup {Idle}
      BY DEF TypeOK
<1>2. CASE req[p] = Idle
      BY <1>2 DEF Idle
<1>3. CASE req[p] \in [stage: {"fetched"}, poll: Status, count: Counts]
      BY <1>3 DEF Request, Idle
<1>4. CASE req[p] \in [stage: {"row"}, poll: Status, count: Counts, curr: Status]
      BY <1>4 DEF Request, Idle
<1>5. CASE req[p] \in [stage: {"count"}, count: Counts, changed: BOOLEAN]
      BY <1>5 DEF Request, Idle
<1>6. CASE req[p] \in [stage: {"handle", "settle", "list"}]
      BY <1>6 DEF Request, Idle
<1>7. CASE req[p] \in [stage: {"write"}, state: States]
      BY <1>7 DEF Request, Idle
<1>8. CASE req[p] \in [stage: {"save"}, list: Ballots, closed: BOOLEAN]
      BY <1>8 DEF Request, Idle
<1>. QED BY <1>1, <1>2, <1>3, <1>4, <1>5, <1>6, <1>7, <1>8 DEF Request

\* A step of a request to a record of a stage keeps the type of the requests.
LEMMA StepType ==
    ASSUME TypeOK, NEW p \in Procs, NEW r \in Request \cup {Idle}, Step(p, r)
    PROVE  req' \in [Procs -> Request \cup {Idle}]
BY DEF TypeOK, Step

LEMMA EndType ==
    ASSUME TypeOK, NEW p \in Procs, End(p)
    PROVE  req' \in [Procs -> Request \cup {Idle}]
BY DEF TypeOK, End, Step

LEMMA StateForType == ASSUME NEW c PROVE StateFor(c) \in States
BY DEF StateFor, States

LEMMA OpenedType == ASSUME TypeOK PROVE Opened \in [state: States, sip: BOOLEAN, saved: BOOLEAN]
BY DEF TypeOK, Opened, States

\* Records of a list of ballots.
LEMMA RecordsOfType ==
    ASSUME NEW list \in Ballots
    PROVE  RecordsOf(list) \subseteq (Users \cup {Stranger}) \X Options
BY UsersAssumption DEF RecordsOf, WalletOf, Ballots

\* A step with a list of the voters of the present ballots.
LEMMA ListStepType ==
    ASSUME NEW list \in Ballots, NEW b \in BOOLEAN
    PROVE  [stage |-> "save", list |-> list, closed |-> b] \in Request
BY DEF Request

LEMMA TypeStart == Init => TypeOK
<1> SUFFICES ASSUME Init PROVE TypeOK
    OBVIOUS
<1>1. Cardinality(Users) \in Nat
      BY UsersAssumption, FS_CardinalityType
<1>2. count \in Counts
      BY <1>1 DEF Init, Counts
<1>3. revokes \in 0..MaxRevokes /\ lost \in 0..MaxLost
      BY BoundsAssumption DEF Init
<1>. QED BY <1>2, <1>3 DEF Init, TypeOK, Status, States, Ballots

LEMMA TypeVoting ==
    ASSUME TypeOK, Voting
    PROVE  TypeOK'
<1>1. CASE PollOpens
      BY <1>1 DEF TypeOK, PollOpens, Status
<1>2. ASSUME NEW ended \in BOOLEAN, PollCloses(ended) PROVE TypeOK'
      BY <1>2 DEF TypeOK, PollCloses, Status
<1>3. CASE TimePasses
      BY <1>3 DEF TypeOK, TimePasses, Status
<1>4. ASSUME NEW u \in Users, NEW o \in Options, CastVote(u, o) PROVE TypeOK'
      BY <1>4 DEF TypeOK, CastVote, Ballots
<1>5. ASSUME NEW u \in Users, RecordCast(u) PROVE TypeOK'
  <2>1. call[u].option \in Options
        BY <1>5 DEF TypeOK, RecordCast, Idle
  <2>. QED BY <1>5, <2>1 DEF TypeOK, RecordCast, forum
<1>6. ASSUME NEW u \in Users, RevokeVote(u) PROVE TypeOK'
  <2>1. revokes' \in 0..MaxRevokes
        BY <1>6, BoundsAssumption DEF TypeOK, RevokeVote
  <2>. QED BY <1>6, <2>1 DEF TypeOK, RevokeVote, Ballots
<1>7. ASSUME NEW u \in Users, RecordRevoke(u) PROVE TypeOK'
      BY <1>7 DEF TypeOK, RecordRevoke, forum
<1>8. ASSUME NEW u \in Users, CallFails(u) PROVE TypeOK'
  <2>1. lost' \in 0..MaxLost
        BY <1>8, BoundsAssumption DEF TypeOK, CallFails
  <2>. QED BY <1>8, <2>1 DEF TypeOK, CallFails, forum
<1>9. CASE PollDeleted
      BY <1>9 DEF TypeOK, PollDeleted, Status
<1>. QED BY <1>1, <1>2, <1>3, <1>4, <1>5, <1>6, <1>7, <1>8, <1>9 DEF Voting

LEMMA TypeContinue ==
    ASSUME TypeOK, NEW p \in Procs, Continue(p)
    PROVE  TypeOK'
<1> USE RequestFields
<1>1. CASE ReadRow(p)
  <2> DEFINE r == [stage |-> "row", poll |-> req[p].poll, count |-> req[p].count, curr |-> row]
  <2>1. r \in Request
        BY <1>1 DEF ReadRow, TypeOK, Request
  <2> HIDE DEF r
  <2>2. Step(p, r)
        BY <1>1 DEF ReadRow, r
  <2>3. req' \in [Procs -> Request \cup {Idle}]
        BY <2>1, <2>2, StepType
  <2>. QED BY <1>1, <2>3 DEF ReadRow, TypeOK, forum
<1>2. CASE WriteRow(p)
  <2> DEFINE r == [stage |-> "count", count |-> req[p].count, changed |-> req[p].curr # req[p].poll]
  <2>1. r \in Request
        BY <1>2 DEF WriteRow, TypeOK, Request
  <2> HIDE DEF r
  <2>2. Step(p, r)
        BY <1>2 DEF WriteRow, r
  <2>3. req' \in [Procs -> Request \cup {Idle}]
        BY <2>1, <2>2, StepType
  <2>4. row' \in Status
        BY <1>2 DEF WriteRow, TypeOK
  <2>. QED BY <1>2, <2>3, <2>4 DEF WriteRow, TypeOK, forum
<1>3. CASE WriteCounts(p)
  <2>1. count' \in Counts
        BY <1>3, SaveCountsType DEF WriteCounts
  <2>2. [stage |-> "handle"] \in Request
        BY DEF Request
  <2>3. req' \in [Procs -> Request \cup {Idle}]
        BY <1>3, <2>2, StepType, EndType DEF WriteCounts
  <2>. QED BY <1>3, <2>1, <2>3 DEF WriteCounts, TypeOK, forum
<1>4. CASE HandleOpen(p)
  <2>1. req' \in [Procs -> Request \cup {Idle}]
        BY <1>4, EndType DEF HandleOpen
  <2>. QED BY <1>4, <2>1, OpenedType DEF HandleOpen, TypeOK, forum
<1>5. CASE HandleClose(p)
  <2>1. [stage |-> "settle"] \in Request
        BY DEF Request
  <2>2. req' \in [Procs -> Request \cup {Idle}]
        BY <1>5, <2>1, StepType, EndType DEF HandleClose
  <2>3. lock' \in Procs \cup {Nobody}
        BY <1>5 DEF HandleClose, TypeOK
  <2>. QED BY <1>5, <2>2, <2>3 DEF HandleClose, TypeOK, forum
<1>6. CASE HandleOther(p)
  <2>1. req' \in [Procs -> Request \cup {Idle}]
        BY <1>6, EndType DEF HandleOther
  <2>. QED BY <1>6, <2>1 DEF HandleOther, TypeOK, forum
<1>7. CASE ReadCounts(p)
  <2> DEFINE r == [stage |-> "write", state |-> StateFor(count)]
  <2>1. r \in Request
        BY StateForType DEF Request
  <2> HIDE DEF r
  <2>2. Step(p, r)
        BY <1>7 DEF ReadCounts, r
  <2>3. req' \in [Procs -> Request \cup {Idle}]
        BY <2>1, <2>2, StepType
  <2>. QED BY <1>7, <2>3 DEF ReadCounts, TypeOK, forum
<1>8. CASE WriteState(p)
  <2>1. [stage |-> "list"] \in Request
        BY DEF Request
  <2>2. req' \in [Procs -> Request \cup {Idle}]
        BY <1>8, <2>1, StepType DEF WriteState
  <2>3. prop' \in [state: States, sip: BOOLEAN, saved: BOOLEAN]
        BY <1>8 DEF WriteState, TypeOK
  <2>. QED BY <1>8, <2>2, <2>3 DEF WriteState, TypeOK, forum
<1>9. CASE ListVoters(p)
  <2>1. End(p) \/ \E list \in Ballots :
                    Step(p, [stage |-> "save", list |-> list, closed |-> poll.status = "close"])
        BY <1>9 DEF ListVoters
  <2>2. req' \in [Procs -> Request \cup {Idle}]
    <3>1. ASSUME NEW list \in Ballots,
                 Step(p, [stage |-> "save", list |-> list, closed |-> poll.status = "close"])
          PROVE  req' \in [Procs -> Request \cup {Idle}]
      <4> DEFINE b == poll.status = "close"
                 r == [stage |-> "save", list |-> list, closed |-> b]
      <4>1. r \in Request
            BY ListStepType
      <4>2. Step(p, r)
            BY <3>1
      <4> HIDE DEF r
      <4>. QED BY <4>1, <4>2, StepType
    <3>. QED BY <2>1, <3>1, EndType
  <2>. QED BY <1>9, <2>2 DEF ListVoters, TypeOK, forum
<1>11. CASE PollNotExists(p)
  <2>1. req' \in [Procs -> Request \cup {Idle}]
        BY <1>11, EndType DEF PollNotExists
  <2>2. prop' \in [state: States, sip: BOOLEAN, saved: BOOLEAN] /\ early' \in BOOLEAN
        BY <1>11 DEF PollNotExists, TypeOK
  <2>. QED BY <1>11, <2>1, <2>2 DEF PollNotExists, TypeOK, forum
<1>10. CASE SaveVoters(p)
  <2>1. req' \in [Procs -> Request \cup {Idle}]
        BY <1>10, EndType DEF SaveVoters
  <2>2. records' \subseteq (Users \cup {Stranger}) \X Options
        BY <1>10, RecordsOfType DEF SaveVoters, TypeOK
  <2>3. prop' \in [state: States, sip: BOOLEAN, saved: BOOLEAN]
        BY <1>10 DEF SaveVoters, TypeOK
  <2>4. early' \in BOOLEAN
        BY <1>10 DEF SaveVoters, TypeOK
  <2>. QED BY <1>10, <2>1, <2>2, <2>3, <2>4 DEF SaveVoters, TypeOK, forum
<1>. QED BY <1>1, <1>2, <1>3, <1>4, <1>5, <1>6, <1>7, <1>8, <1>9, <1>10, <1>11 DEF Continue

LEMMA TypeWatching ==
    ASSUME TypeOK, Watching
    PROVE  TypeOK'
<1>1. ASSUME NEW p \in Watchers, Fetch(p) PROVE TypeOK'
  <2> DEFINE r == [stage |-> "fetched", poll |-> Fetched.poll, count |-> Fetched.count]
  <2>1. r \in Request
        BY <1>1, FetchedType DEF Fetch, Request
  <2> HIDE DEF r
  <2>2. Step(p, r) /\ p \in Procs
        BY <1>1 DEF Fetch, r, Procs
  <2>3. req' \in [Procs -> Request \cup {Idle}]
        BY <2>1, <2>2, StepType
  <2>. QED BY <1>1, <2>3 DEF Fetch, TypeOK, forum
<1>2. ASSUME NEW p \in Recorders, RequestRecords(p) PROVE TypeOK'
  <2>1. [stage |-> "list"] \in Request
        BY DEF Request
  <2>2. req' \in [Procs -> Request \cup {Idle}]
        BY <1>2, <2>1, StepType DEF RequestRecords, Procs
  <2>. QED BY <1>2, <2>2 DEF RequestRecords, TypeOK, forum
<1>3. ASSUME NEW p \in Procs, RequestLost(p) PROVE TypeOK'
  <2>1. req' \in [Procs -> Request \cup {Idle}]
        BY <1>3, EndType DEF RequestLost
  <2>2. lost' \in 0..MaxLost
        BY <1>3, BoundsAssumption DEF TypeOK, RequestLost
  <2>. QED BY <1>3, <2>1, <2>2 DEF RequestLost, TypeOK, forum
<1>. QED BY <1>1, <1>2, <1>3, TypeContinue DEF Watching

LEMMA TypeJob ==
    ASSUME TypeOK, Job
    PROVE  TypeOK'
<1>1. CASE JobFetch
      BY <1>1, FetchedType DEF JobFetch, TypeOK, forum
<1>2. CASE JobUpdate
  <2>1. job.poll \in Status /\ job.count \in Counts
        BY <1>2 DEF JobUpdate, TypeOK, Idle
  <2>2. count' \in Counts
        BY <1>2, <2>1, SaveCountsType DEF JobUpdate
  <2>3. prop' \in [state: States, sip: BOOLEAN, saved: BOOLEAN]
    <3>1. \/ prop' = prop \/ prop' = Opened
          \/ prop' = [prop EXCEPT !.state = StateFor(SaveCounts(job.count)), !.saved = @ \/ poll.ended]
          BY <1>2 DEF JobUpdate, JobSettles
    <3>2. StateFor(SaveCounts(job.count)) \in States
          BY StateForType
    <3>3. prop \in [state: States, sip: BOOLEAN, saved: BOOLEAN] /\ poll.ended \in BOOLEAN
          BY DEF TypeOK
    <3> HIDE DEF StateFor, SaveCounts
    <3>. QED BY <3>1, <3>2, <3>3, OpenedType
  <2>4. records' \subseteq (Users \cup {Stranger}) \X Options /\ early' \in BOOLEAN
    <3>1. /\ records' = records \/ \E list \in Ballots : records' = records \cup RecordsOf(list)
          /\ early' = early \/ early' = (early \/ (~prop.saved /\ poll.status = "deleted"))
          BY <1>2 DEF JobUpdate, JobSettles
    <3>2. records \subseteq (Users \cup {Stranger}) \X Options /\ early \in BOOLEAN
          BY DEF TypeOK
    <3>. QED BY <3>1, <3>2, RecordsOfType
  <2>. QED BY <1>2, <2>1, <2>2, <2>3, <2>4 DEF JobUpdate, TypeOK, forum
<1>3. CASE JobFails
  <2>1. lost' \in 0..MaxLost
        BY <1>3, BoundsAssumption DEF TypeOK, JobFails
  <2>. QED BY <1>3, <2>1 DEF JobFails, TypeOK, forum
<1>. QED BY <1>1, <1>2, <1>3 DEF Job

LEMMA TypeStep == TypeOK /\ [Next]_vars => TypeOK'
<1> SUFFICES ASSUME TypeOK, [Next]_vars PROVE TypeOK'
    OBVIOUS
<1>1. CASE UNCHANGED vars
      BY <1>1 DEF TypeOK, vars, forum
<1>. QED BY <1>1, TypeVoting, TypeWatching, TypeJob DEF Next

\* The poll, its copy and every request in flight keep their types.
THEOREM TypeCorrect == Spec => []TypeOK
<1>1. Init => TypeOK
      BY TypeStart
<1>2. TypeOK /\ [Next]_vars => TypeOK'
      BY TypeStep
<1>. QED BY <1>1, <1>2, PTL DEF Spec

----
(* Records, lists and ballots come from ballots that were cast. *)

BallotsWereCast == \A u \in Users : ballot[u] # Abstain => <<u, ballot[u]>> \in cast
CallsWereCast == \A u \in Users : call[u].stage = "cast" => <<u, call[u].option>> \in cast
ListsWereCast ==
    \A p \in Procs : req[p].stage = "save" =>
        \A u \in Users : req[p].list[u] # Abstain => <<u, req[p].list[u]>> \in cast

CastInv == BallotsWereCast /\ CallsWereCast /\ ListsWereCast /\ RecordsWereCast

\* The records of a list of ballots that were cast are of ballots that were cast.
LEMMA RecordsOfCast ==
    ASSUME NEW list, \A u \in Users : list[u] # Abstain => <<u, list[u]>> \in cast
    PROVE  \A r \in RecordsOf(list) : r[1] # Stranger => r \in cast
BY DEF RecordsOf, WalletOf

\* A list of voters holds present ballots.
LEMMA ListedAreBallots ==
    ASSUME NEW list \in Ballots, Listed(list), NEW u \in Users, list[u] # Abstain
    PROVE  list[u] = ballot[u] /\ ballot[u] # Abstain
<1>1. list[u] \in Options
      BY DEF Ballots
<1>2. u \in Voters(list[u])
      BY <1>1 DEF Listed
<1>. QED BY <1>1, <1>2, OptionsAssumption DEF Voters

LEMMA ListedWereCast ==
    ASSUME BallotsWereCast, NEW list \in Ballots, Listed(list)
    PROVE  \A u \in Users : list[u] # Abstain => <<u, list[u]>> \in cast
BY ListedAreBallots DEF BallotsWereCast

\* Requests in flight are only at the stage they were, or at one that keeps no list.
LEMMA CastStart == Init => CastInv
BY DEF Init, CastInv, BallotsWereCast, CallsWereCast, ListsWereCast, RecordsWereCast, Idle

\* A step that leaves the ballots, the calls and the records alone, and gives no request a
\* list, keeps the invariant.
LEMMA CastFrame ==
    ASSUME TypeOK, CastInv, UNCHANGED <<ballot, call, records, cast>>,
           \A p \in Procs : req'[p] = req[p] \/ req'[p].stage # "save"
    PROVE  CastInv'
BY DEF CastInv, BallotsWereCast, CallsWereCast, ListsWereCast, RecordsWereCast

\* A step of one request leaves the others alone.
LEMMA StepReq ==
    ASSUME TypeOK, NEW p \in Procs, NEW r, Step(p, r)
    PROVE  req'[p] = r /\ \A q \in Procs \ {p} : req'[q] = req[q]
BY DEF TypeOK, Step

LEMMA EndReq ==
    ASSUME TypeOK, NEW p \in Procs, End(p)
    PROVE  req'[p].stage = "idle" /\ \A q \in Procs \ {p} : req'[q] = req[q]
BY DEF TypeOK, End, Step, Idle

LEMMA CastVoting ==
    ASSUME TypeOK, CastInv, Voting
    PROVE  CastInv'
<1>1. CASE PollOpens \/ (\E ended \in BOOLEAN : PollCloses(ended)) \/ TimePasses \/ PollDeleted
  <2>1. UNCHANGED <<ballot, call, records, cast, req>>
        BY <1>1 DEF PollOpens, PollCloses, TimePasses, PollDeleted
  <2>. QED BY <2>1, CastFrame
<1>2. ASSUME NEW u \in Users, NEW o \in Options, CastVote(u, o) PROVE CastInv'
  <2>1. BallotsWereCast'
        BY <1>2 DEF CastVote, CastInv, BallotsWereCast, TypeOK, Ballots
  <2>2. CallsWereCast'
        BY <1>2 DEF CastVote, CastInv, CallsWereCast, TypeOK
  <2>3. ListsWereCast' /\ RecordsWereCast'
        BY <1>2 DEF CastVote, CastInv, ListsWereCast, RecordsWereCast
  <2>. QED BY <2>1, <2>2, <2>3 DEF CastInv
<1>3. ASSUME NEW u \in Users, RecordCast(u) PROVE CastInv'
  <2>1. CallsWereCast'
        BY <1>3 DEF RecordCast, CastInv, CallsWereCast, TypeOK, Idle
  <2>2. RecordsWereCast'
        BY <1>3 DEF RecordCast, CastInv, CallsWereCast, RecordsWereCast
  <2>. QED BY <1>3, <2>1, <2>2 DEF RecordCast, forum, CastInv, BallotsWereCast, ListsWereCast
<1>4. ASSUME NEW u \in Users, RevokeVote(u) PROVE CastInv'
  <2>1. BallotsWereCast'
        BY <1>4 DEF RevokeVote, CastInv, BallotsWereCast, TypeOK, Ballots
  <2>2. CallsWereCast'
        BY <1>4 DEF RevokeVote, CastInv, CallsWereCast, TypeOK
  <2>. QED BY <1>4, <2>1, <2>2 DEF RevokeVote, CastInv, ListsWereCast, RecordsWereCast
<1>5. ASSUME NEW u \in Users, RecordRevoke(u) \/ CallFails(u) PROVE CastInv'
  <2>1. CallsWereCast'
        BY <1>5 DEF RecordRevoke, CallFails, CastInv, CallsWereCast, TypeOK, Idle
  <2>2. RecordsWereCast'
        BY <1>5 DEF RecordRevoke, CallFails, CastInv, RecordsWereCast
  <2>. QED BY <1>5, <2>1, <2>2 DEF RecordRevoke, CallFails, forum, CastInv, BallotsWereCast, ListsWereCast
<1>. QED BY <1>1, <1>2, <1>3, <1>4, <1>5 DEF Voting

LEMMA CastContinue ==
    ASSUME TypeOK, CastInv, NEW p \in Procs, Continue(p)
    PROVE  CastInv'
<1>1. CASE ReadRow(p) \/ WriteRow(p) \/ WriteCounts(p) \/ HandleOpen(p) \/ HandleClose(p)
           \/ HandleOther(p) \/ ReadCounts(p) \/ WriteState(p)
  <2>1. UNCHANGED <<ballot, call, records, cast>>
        BY <1>1 DEF ReadRow, WriteRow, WriteCounts, HandleOpen, HandleClose, HandleOther,
                    ReadCounts, WriteState, forum
  <2>2. \E r : Step(p, r) /\ r.stage # "save"
        BY <1>1 DEF ReadRow, WriteRow, WriteCounts, HandleOpen, HandleClose, HandleOther,
                    ReadCounts, WriteState, End, Idle
  <2>3. \A q \in Procs : req'[q] = req[q] \/ req'[q].stage # "save"
        BY <2>2, StepReq
  <2>. QED BY <2>1, <2>3, CastFrame
<1>2. CASE ListVoters(p)
  <2>1. CASE prop.saved
    <3>1. UNCHANGED <<ballot, call, records, cast>> /\ End(p)
          BY <1>2, <2>1 DEF ListVoters, forum
    <3>2. \A q \in Procs : req'[q] = req[q] \/ req'[q].stage # "save"
          BY <3>1, EndReq
    <3>. QED BY <3>1, <3>2, CastFrame
  <2>2. CASE ~prop.saved
    <3>0. PICK list \in Ballots :
             /\ Listed(list)
             /\ Step(p, [stage |-> "save", list |-> list, closed |-> poll.status = "close"])
          BY <1>2, <2>2 DEF ListVoters
    <3> DEFINE r == [stage |-> "save", list |-> list, closed |-> poll.status = "close"]
    <3>1. UNCHANGED <<ballot, call, records, cast>> /\ Step(p, r)
          BY <1>2, <3>0 DEF ListVoters, forum
    <3>2. req'[p] = r /\ \A q \in Procs \ {p} : req'[q] = req[q]
          BY <3>1, StepReq
    <3>a. \A u \in Users : list[u] # Abstain => <<u, list[u]>> \in cast
          BY <3>0, ListedWereCast DEF CastInv
    <3>3. ListsWereCast'
          BY <3>1, <3>2, <3>a DEF CastInv, ListsWereCast
    <3>. QED BY <3>1, <3>3 DEF CastInv, BallotsWereCast, CallsWereCast, RecordsWereCast
  <2>. QED BY <2>1, <2>2
<1>3. CASE SaveVoters(p)
  <2>1. UNCHANGED <<ballot, call, cast>> /\ End(p) /\ records' = records \cup RecordsOf(req[p].list)
        BY <1>3 DEF SaveVoters, forum
  <2>2. req'[p].stage = "idle" /\ \A q \in Procs \ {p} : req'[q] = req[q]
        BY <2>1, EndReq
  <2>3. ListsWereCast'
        BY <2>1, <2>2 DEF CastInv, ListsWereCast
  <2>4. \A r \in RecordsOf(req[p].list) : r[1] # Stranger => r \in cast
    <3>1. \A u \in Users : req[p].list[u] # Abstain => <<u, req[p].list[u]>> \in cast
          BY <1>3 DEF SaveVoters, CastInv, ListsWereCast
    <3>. QED BY <3>1, RecordsOfCast
  <2>5. RecordsWereCast'
        BY <2>1, <2>4 DEF CastInv, RecordsWereCast
  <2>. QED BY <2>1, <2>3, <2>5 DEF CastInv, BallotsWereCast, CallsWereCast
<1>4. CASE PollNotExists(p)
  <2>1. UNCHANGED <<ballot, call, records, cast>> /\ End(p)
        BY <1>4 DEF PollNotExists, forum
  <2>2. \A q \in Procs : req'[q] = req[q] \/ req'[q].stage # "save"
        BY <2>1, EndReq
  <2>. QED BY <2>1, <2>2, CastFrame
<1>. QED BY <1>1, <1>2, <1>3, <1>4 DEF Continue

LEMMA CastWatching ==
    ASSUME TypeOK, CastInv, Watching
    PROVE  CastInv'
<1>1. ASSUME NEW p \in Procs, Fetch(p) \/ RequestRecords(p) \/ RequestLost(p) PROVE CastInv'
  <2>1. UNCHANGED <<ballot, call, records, cast>>
        BY <1>1 DEF Fetch, RequestRecords, RequestLost, forum
  <2>2. \E r : Step(p, r) /\ r.stage # "save"
        BY <1>1 DEF Fetch, RequestRecords, RequestLost, End, Idle
  <2>3. \A q \in Procs : req'[q] = req[q] \/ req'[q].stage # "save"
        BY <2>2, StepReq
  <2>. QED BY <2>1, <2>3, CastFrame
<1>. QED BY <1>1, CastContinue DEF Watching, Procs

LEMMA CastJob ==
    ASSUME TypeOK, CastInv, Job
    PROVE  CastInv'
<1>1. CASE JobFetch \/ JobFails
  <2>1. UNCHANGED <<ballot, call, records, cast, req>>
        BY <1>1 DEF JobFetch, JobFails, forum
  <2>. QED BY <2>1, CastFrame
<1>2. CASE JobUpdate
  <2>1. UNCHANGED <<ballot, call, cast, req>>
        BY <1>2 DEF JobUpdate, forum
  <2>2. ASSUME NEW list \in Ballots, Listed(list)
        PROVE  \A r \in RecordsOf(list) : r[1] # Stranger => r \in cast
        BY <2>2, ListedWereCast, RecordsOfCast DEF CastInv
  <2>3. records' = records
        \/ \E list \in Ballots : Listed(list) /\ records' = records \cup RecordsOf(list)
        BY <1>2 DEF JobUpdate, JobSettles
  <2>4. RecordsWereCast'
        BY <2>1, <2>2, <2>3 DEF CastInv, RecordsWereCast
  <2>. QED BY <2>1, <2>4 DEF CastInv, BallotsWereCast, CallsWereCast, ListsWereCast
<1>. QED BY <1>1, <1>2 DEF Job

LEMMA CastStep == TypeOK /\ CastInv /\ [Next]_vars => CastInv'
<1> SUFFICES ASSUME TypeOK, CastInv, [Next]_vars PROVE CastInv'
    OBVIOUS
<1>1. CASE UNCHANGED vars
      BY <1>1 DEF CastInv, BallotsWereCast, CallsWereCast, ListsWereCast, RecordsWereCast, vars, forum
<1>. QED BY <1>1, CastVoting, CastWatching, CastJob DEF Next

\* Every record of a known user is of a ballot that user cast: a list read before a ballot
\* was taken back, a call recorded late or a saved list invents none.
THEOREM RecordsComeFromBallots == Spec => []RecordsWereCast
<1>1. Init => TypeOK /\ CastInv
      BY TypeStart, CastStart
<1>2. TypeOK /\ CastInv /\ [Next]_vars => TypeOK' /\ CastInv'
      BY TypeStep, CastStep
<1>3. CastInv => RecordsWereCast
      BY DEF CastInv
<1>. QED BY <1>1, <1>2, <1>3, PTL DEF Spec

----
(* Once complete, the records stay complete: the poll is over, so no ballot changes. *)

Over == poll.status \in {"close", "deleted"}
EndedIsClosed == poll.ended => Over
SavedIsClosed == prop.saved => Over
ListsAreFinal ==
    \A p \in Procs : req[p].stage = "save" /\ req[p].closed => Over /\ Listed(req[p].list)
\* No option has more voters than a listing asks for.
AllAsked == \A o \in Options : Cardinality(Voters(o)) <= MaxListed

SavedInv == EndedIsClosed /\ SavedIsClosed /\ ListsAreFinal /\ SavedIsComplete

LEMMA SavedStart == Init => SavedInv
BY DEF Init, SavedInv, EndedIsClosed, SavedIsClosed, ListsAreFinal, SavedIsComplete, Idle
\* The ballots are what a listing and its bound depend on.
LEMMA ListedSame ==
    ASSUME UNCHANGED ballot
    PROVE  (AllAsked <=> AllAsked') /\ \A list : Listed(list) => Listed(list)'
BY DEF Listed, AllAsked, Voters

\* A step that changes nothing of the forum, of what is saved or of the records, and gives
\* no request a list, keeps the invariant.
LEMMA SavedFrame ==
    ASSUME TypeOK, SavedInv, UNCHANGED <<poll, ballot, records, early>>, prop'.saved = prop.saved,
           \A p \in Procs : req'[p] = req[p] \/ req'[p].stage # "save"
    PROVE  SavedInv'
<1>1. EndedIsClosed' /\ SavedIsClosed' /\ (Over' <=> Over)
      BY DEF SavedInv, EndedIsClosed, SavedIsClosed, Over
<1>2. ListsAreFinal'
  <2>1. ASSUME NEW p \in Procs, req'[p].stage = "save", req'[p].closed
        PROVE  Over' /\ Listed(req[p].list)' /\ req'[p] = req[p]
        BY <1>1, <2>1, ListedSame DEF SavedInv, ListsAreFinal
  <2>. QED BY <2>1 DEF ListsAreFinal, Listed
<1>3. SavedIsComplete'
      BY DEF SavedInv, SavedIsComplete, WalletOf, Voters
<1>. QED BY <1>1, <1>2, <1>3 DEF SavedInv

\* Users call and polls go on: nothing is saved, and the requests are left alone.
LEMMA SavedVotingFrame ==
    ASSUME TypeOK, SavedInv, UNCHANGED <<prop, req>>, poll'.ended => Over',
           ~Over \/ (Over' /\ UNCHANGED ballot), records \subseteq records' \/ early' \/ ~prop.saved,
           early => early'
    PROVE  SavedInv'
<1>1. EndedIsClosed' /\ SavedIsClosed'
      BY DEF SavedInv, EndedIsClosed, SavedIsClosed
<1>2. ListsAreFinal'
  <2>1. ASSUME NEW p \in Procs, req'[p].stage = "save", req'[p].closed
        PROVE  Over' /\ Listed(req[p].list)' /\ req'[p] = req[p]
        BY <2>1, ListedSame DEF SavedInv, ListsAreFinal
  <2>. QED BY <2>1 DEF ListsAreFinal, Listed
<1>3. SavedIsComplete'
      BY DEF SavedInv, SavedIsClosed, SavedIsComplete, WalletOf, Voters
<1>. QED BY <1>1, <1>2, <1>3 DEF SavedInv

LEMMA SavedVoting ==
    ASSUME TypeOK, SavedInv, Voting
    PROVE  SavedInv'
<1>1. CASE PollOpens \/ (\E ended \in BOOLEAN : PollCloses(ended)) \/ TimePasses \/ PollDeleted
  <2>1. /\ UNCHANGED <<prop, req, ballot, records, early>> /\ (Over => Over')
        /\ poll'.ended => Over'
        BY <1>1 DEF PollOpens, PollCloses, TimePasses, PollDeleted, TypeOK, Over, SavedInv, EndedIsClosed
  <2>. QED BY <2>1, SavedVotingFrame
<1>2. ASSUME NEW u \in Users, (\E o \in Options : CastVote(u, o)) \/ RevokeVote(u) PROVE SavedInv'
  <2>1. ~Over /\ UNCHANGED <<poll, prop, req, records, early>>
        BY <1>2 DEF CastVote, RevokeVote, Over
  <2>2. poll'.ended => Over'
        BY <2>1 DEF SavedInv, EndedIsClosed, Over
  <2>. QED BY <2>1, <2>2, SavedVotingFrame
<1>3. ASSUME NEW u \in Users, RecordCast(u) \/ CallFails(u) \/ RecordRevoke(u) PROVE SavedInv'
  <2>1. /\ UNCHANGED <<poll, ballot, prop, req>> /\ (early => early')
        /\ records \subseteq records' \/ early' \/ ~prop.saved
        BY <1>3 DEF RecordCast, CallFails, RecordRevoke, forum, TypeOK
  <2>2. (poll'.ended => Over') /\ (Over => Over')
        BY <2>1 DEF SavedInv, EndedIsClosed, Over
  <2>. QED BY <2>1, <2>2, SavedVotingFrame
<1>. QED BY <1>1, <1>2, <1>3 DEF Voting

\* The records of a listing that asked for every voter hold the present ballots.
LEMMA RecordsOfBallots ==
    ASSUME NEW list, Listed(list), AllAsked, NEW u \in Users, ballot[u] \in Options
    PROVE  <<WalletOf(u), ballot[u]>> \in RecordsOf(list)
<1>1. u \in {v \in Users : list[v] = ballot[u]}
      BY DEF Listed, AllAsked, Voters
<1>. QED BY <1>1, OptionsAssumption DEF RecordsOf

LEMMA SavedContinue ==
    ASSUME TypeOK, SavedInv, NEW p \in Procs, Continue(p)
    PROVE  SavedInv'
<1>1. CASE ReadRow(p) \/ WriteRow(p) \/ WriteCounts(p) \/ HandleOpen(p) \/ HandleClose(p)
           \/ HandleOther(p) \/ ReadCounts(p) \/ WriteState(p)
  <2>1. UNCHANGED <<poll, ballot, records, early>>
        BY <1>1 DEF ReadRow, WriteRow, WriteCounts, HandleOpen, HandleClose, HandleOther,
                    ReadCounts, WriteState, forum
  <2>2. \E r : Step(p, r) /\ r.stage # "save"
        BY <1>1 DEF ReadRow, WriteRow, WriteCounts, HandleOpen, HandleClose, HandleOther,
                    ReadCounts, WriteState, End, Idle
  <2>3. prop'.saved = prop.saved
        BY <1>1 DEF ReadRow, WriteRow, WriteCounts, HandleOpen, HandleClose, HandleOther,
                    ReadCounts, WriteState, TypeOK, Opened
  <2>4. \A q \in Procs : req'[q] = req[q] \/ req'[q].stage # "save"
        BY <2>2, StepReq
  <2>. QED BY <2>1, <2>3, <2>4, SavedFrame
<1>2. CASE ListVoters(p)
  <2>1. CASE prop.saved
    <3>1. UNCHANGED <<poll, ballot, records, early, prop>> /\ End(p)
          BY <1>2, <2>1 DEF ListVoters, forum
    <3>2. \A q \in Procs : req'[q] = req[q] \/ req'[q].stage # "save"
          BY <3>1, EndReq
    <3>. QED BY <3>1, <3>2, SavedFrame
  <2>2. CASE ~prop.saved
    <3>0. PICK list \in Ballots :
             /\ Listed(list)
             /\ Step(p, [stage |-> "save", list |-> list, closed |-> poll.status = "close"])
          BY <1>2, <2>2 DEF ListVoters
    <3> DEFINE r == [stage |-> "save", list |-> list, closed |-> poll.status = "close"]
    <3>1. UNCHANGED <<poll, ballot, records, early, prop>> /\ Step(p, r)
          BY <1>2, <3>0 DEF ListVoters, forum
    <3>2. req'[p] = r /\ \A q \in Procs \ {p} : req'[q] = req[q]
          BY <3>1, StepReq
    <3>3. ListsAreFinal'
      <4>1. r.list = list /\ (r.closed => Over)
            BY DEF Over
      <4> HIDE DEF r
      <4>2. ASSUME NEW q \in Procs, req'[q].stage = "save", req'[q].closed
            PROVE  Over /\ Listed(req'[q].list)
        <5>1. CASE q = p
              BY <3>0, <3>2, <4>1, <4>2, <5>1
        <5>2. CASE q # p
              BY <3>2, <4>2, <5>2 DEF SavedInv, ListsAreFinal
        <5>. QED BY <5>1, <5>2
      <4>. QED BY <3>1, <4>2 DEF ListsAreFinal, Over, Listed, Voters
    <3>4. EndedIsClosed' /\ SavedIsClosed'
          BY <3>1 DEF SavedInv, EndedIsClosed, SavedIsClosed, Over
    <3>5. SavedIsComplete'
          BY <3>1, <2>2 DEF SavedIsComplete
    <3>. QED BY <3>3, <3>4, <3>5 DEF SavedInv
  <2>. QED BY <2>1, <2>2
<1>3. CASE SaveVoters(p)
  <2>1. /\ UNCHANGED <<poll, ballot>> /\ End(p) /\ records' = records \cup RecordsOf(req[p].list)
        /\ prop'.saved = poll.ended
        /\ early' = (early \/ (Over /\ ~req[p].closed))
        /\ req[p].stage = "save"
        BY <1>3 DEF SaveVoters, forum, TypeOK, Over
  <2>2. req'[p].stage = "idle" /\ \A q \in Procs \ {p} : req'[q] = req[q]
        BY <2>1, EndReq
  <2>3. EndedIsClosed' /\ SavedIsClosed'
        BY <2>1 DEF SavedInv, EndedIsClosed, SavedIsClosed, Over
  <2>4. ListsAreFinal'
    <3>1. ASSUME NEW q \in Procs, req'[q].stage = "save", req'[q].closed
          PROVE  Over' /\ Listed(req[q].list)' /\ req'[q] = req[q]
          BY <2>1, <2>2, <3>1, ListedSame DEF SavedInv, ListsAreFinal, Over
    <3>. QED BY <3>1 DEF ListsAreFinal, Listed
  <2>5. ASSUME prop'.saved, ~early', AllAsked', NEW u \in Users, ballot'[u] # Abstain
        PROVE  <<WalletOf(u), ballot'[u]>> \in records'
    <3>1. Over
          BY <2>1, <2>5 DEF SavedInv, EndedIsClosed
    <3>2. req[p].closed
          BY <2>1, <2>5, <3>1
    <3>3. Listed(req[p].list) /\ AllAsked
          BY <2>1, <2>5, <3>2, ListedSame DEF SavedInv, ListsAreFinal
    <3>4. ballot[u] \in Options
          BY <2>1, <2>5 DEF TypeOK, Ballots
    <3>. QED BY <2>1, <2>5, <3>3, <3>4, RecordsOfBallots
  <2>6. SavedIsComplete'
        BY <2>5 DEF SavedIsComplete, WalletOf, AllAsked
  <2>. QED BY <2>3, <2>4, <2>6 DEF SavedInv
<1>4. CASE PollNotExists(p)
  <2>1. UNCHANGED <<poll, ballot, records>> /\ End(p) /\ early' /\ Over
        BY <1>4 DEF PollNotExists, forum, Over
  <2>2. req'[p].stage = "idle" /\ \A q \in Procs \ {p} : req'[q] = req[q]
        BY <2>1, EndReq
  <2>3. ListsAreFinal'
    <3>1. ASSUME NEW q \in Procs, req'[q].stage = "save", req'[q].closed
          PROVE  Over' /\ Listed(req[q].list)' /\ req'[q] = req[q]
          BY <2>1, <2>2, <3>1, ListedSame DEF SavedInv, ListsAreFinal, Over
    <3>. QED BY <3>1 DEF ListsAreFinal, Listed
  <2>4. EndedIsClosed' /\ SavedIsClosed' /\ SavedIsComplete'
        BY <2>1 DEF EndedIsClosed, SavedIsClosed, SavedIsComplete, Over
  <2>. QED BY <2>3, <2>4 DEF SavedInv
<1>. QED BY <1>1, <1>2, <1>3, <1>4 DEF Continue

LEMMA SavedWatching ==
    ASSUME TypeOK, SavedInv, Watching
    PROVE  SavedInv'
<1>1. ASSUME NEW p \in Procs, Fetch(p) \/ RequestRecords(p) \/ RequestLost(p) PROVE SavedInv'
  <2>1. UNCHANGED <<poll, ballot, records, early, prop>>
        BY <1>1 DEF Fetch, RequestRecords, RequestLost, forum
  <2>2. \E r : Step(p, r) /\ r.stage # "save"
        BY <1>1 DEF Fetch, RequestRecords, RequestLost, End, Idle
  <2>3. \A q \in Procs : req'[q] = req[q] \/ req'[q].stage # "save"
        BY <2>2, StepReq
  <2>. QED BY <2>1, <2>3, SavedFrame
<1>. QED BY <1>1, SavedContinue DEF Watching, Procs

LEMMA SavedJob ==
    ASSUME TypeOK, SavedInv, Job
    PROVE  SavedInv'
<1>1. CASE JobFetch \/ JobFails
  <2>1. UNCHANGED <<poll, ballot, records, early, prop, req>>
        BY <1>1 DEF JobFetch, JobFails, forum
  <2>. QED BY <2>1, SavedFrame
<1>2. CASE JobUpdate
  <2>1. UNCHANGED <<poll, ballot, req>>
        BY <1>2 DEF JobUpdate, forum
  <2>2. \/ prop'.saved = prop.saved /\ records' = records /\ early' = early
        \/ JobSettles
    <3>1. \/ prop' = prop /\ records' = records /\ early' = early
          \/ prop' = Opened /\ records' = records /\ early' = early
          \/ JobSettles
          BY <1>2 DEF JobUpdate
    <3>2. prop \in [state: States, sip: BOOLEAN, saved: BOOLEAN]
          BY DEF TypeOK
    <3>3. Opened.saved = prop.saved
          BY <3>2 DEF Opened
    <3>. QED BY <3>1, <3>3
  <2>3. CASE prop'.saved = prop.saved /\ records' = records /\ early' = early
        BY <2>1, <2>3, SavedFrame
  <2>4. CASE JobSettles
    <3>0. /\ prop'.saved = (prop.saved \/ poll.ended)
          /\ early' = (early \/ (~prop.saved /\ poll.status = "deleted"))
          /\ \/ (prop.saved \/ poll.status = "deleted") /\ records' = records
             \/ ~prop.saved /\ \E list \in Ballots :
                                   Listed(list) /\ records' = records \cup RecordsOf(list)
          BY <2>4 DEF JobSettles, TypeOK
    <3>1. EndedIsClosed' /\ SavedIsClosed'
          BY <2>1, <3>0 DEF SavedInv, EndedIsClosed, SavedIsClosed, Over
    <3>2. ListsAreFinal'
      <4>1. ASSUME NEW q \in Procs, req'[q].stage = "save", req'[q].closed
            PROVE  Over' /\ Listed(req[q].list)' /\ req'[q] = req[q]
            BY <2>1, <4>1, ListedSame DEF SavedInv, ListsAreFinal, Over
      <4>. QED BY <4>1 DEF ListsAreFinal, Listed
    <3>3. ASSUME prop'.saved, ~early', AllAsked', NEW u \in Users, ballot'[u] # Abstain
          PROVE  <<WalletOf(u), ballot'[u]>> \in records'
      <4>1. AllAsked /\ ~early /\ ballot[u] \in Options /\ ballot[u] # Abstain
            BY <2>1, <3>0, <3>3, ListedSame DEF TypeOK, Ballots
      <4>2. CASE prop.saved
            BY <2>1, <3>0, <4>1, <4>2 DEF SavedInv, SavedIsComplete, AllAsked
      <4>3. CASE ~prop.saved
        <5>1. PICK list \in Ballots : Listed(list) /\ records' = records \cup RecordsOf(list)
              BY <3>0, <3>3, <4>3
        <5>2. <<WalletOf(u), ballot[u]>> \in RecordsOf(list)
              BY <4>1, <5>1, RecordsOfBallots
        <5>. QED BY <2>1, <5>1, <5>2
      <4>. QED BY <4>2, <4>3
    <3>4. SavedIsComplete'
          BY <3>3 DEF SavedIsComplete, WalletOf, AllAsked
    <3>. QED BY <3>1, <3>2, <3>4 DEF SavedInv
  <2>. QED BY <2>2, <2>3, <2>4
<1>. QED BY <1>1, <1>2 DEF Job

LEMMA SavedStep == TypeOK /\ SavedInv /\ [Next]_vars => SavedInv'
<1> SUFFICES ASSUME TypeOK, SavedInv, [Next]_vars PROVE SavedInv'
    OBVIOUS
<1>1. CASE UNCHANGED vars
  <2>1. UNCHANGED <<poll, ballot, records, early, prop, req>>
        BY <1>1 DEF vars, forum
  <2>. QED BY <2>1, SavedFrame
<1>. QED BY <1>1, SavedVoting, SavedWatching, SavedJob DEF Next

\* When the voters are marked as all recorded, they are, whoever recorded them and however
\* requests, calls and the job interleave; the exceptions are those that are noted: a list
\* that was read too early, not at all, or not to its end, and a revocation recorded late.
THEOREM CompleteWhenSaved == Spec => []SavedIsComplete
<1>1. Init => TypeOK /\ SavedInv
      BY TypeStart, SavedStart
<1>2. TypeOK /\ SavedInv /\ [Next]_vars => TypeOK' /\ SavedInv'
      BY TypeStep, SavedStep
<1>3. SavedInv => SavedIsComplete
      BY DEF SavedInv
<1>. QED BY <1>1, <1>2, <1>3, PTL DEF Spec

----
(* Counts, fetched late, overwritten or settled twice, are of ballots that were cast. *)

\* The total of a count is positive only when an option was chosen, and a decision passes
\* only when it was approved.
LEMMA PassesNeedsVoters ==
    ASSUME NEW c \in Counts, Passes(Kind, c)
    PROVE  \E o \in Options : (Kind = "decision" => o = "approve") /\ c[o] > 0
<1>1. DOMAIN c = Options /\ IsFiniteSet(Options) /\ \A o \in Options : c[o] \in Nat
  <2>1. Cardinality(Users) \in Nat
        BY UsersAssumption, FS_CardinalityType
  <2>. QED BY <2>1, OptionsAssumption DEF Counts
<1>2. Total(c) = SumFunctionOnSet(c, Options)
      BY <1>1 DEF Total, FoldFunction, SumFunctionOnSet
<1>3. Total(c) \in Nat /\ (Total(c) > 0 => \E o \in Options : c[o] > 0)
      BY <1>1, <1>2, SumOfNaturals
<1>4. Total(c) > 0
      BY OptionsAssumption DEF Passes
<1>5. CASE Kind # "decision"
      BY <1>3, <1>4, <1>5
<1>6. CASE Kind = "decision"
  <2>1. Approvals(c) > Total(c) \div 2
        BY <1>6 DEF Passes
  <2>2. Total(c) \div 2 >= 0
        BY <1>3
  <2>3. "approve" \in Options /\ c["approve"] > 0
        BY <1>1, <1>3, <2>1, <2>2 DEF Approvals
  <2>. QED BY <2>3
<1>. QED BY <1>5, <1>6

\* Each option that is counted was chosen by somebody, once.
CountIsCast(c) == \A o \in Options : c[o] > 0 => \E u \in Users : <<u, o>> \in cast
Support == \E o \in Options : (Kind = "decision" => o = "approve") /\ \E u \in Users : <<u, o>> \in cast

RequestsAreSupported ==
    \A p \in Procs :
        /\ req[p].stage \in {"fetched", "row", "count"} => CountIsCast(req[p].count)
        /\ req[p].stage = "write" /\ req[p].state = "vote_passed" => Support

SupportInv ==
    /\ CountIsCast(count)
    /\ job # Idle => CountIsCast(job.count)
    /\ RequestsAreSupported
    /\ PassedHadSupport

\* Ballots are never forgotten.
LEMMA CastGrows == [Next]_vars => cast \subseteq cast'
<1> SUFFICES ASSUME [Next]_vars PROVE cast \subseteq cast'
    OBVIOUS
<1>1. CASE UNCHANGED vars
      BY <1>1 DEF vars
<1>2. CASE Voting
      BY <1>2 DEF Voting, PollOpens, PollCloses, TimePasses, PollDeleted, CastVote, RecordCast, RevokeVote,
                  RecordRevoke, CallFails
<1>3. CASE Watching
      BY <1>3 DEF Watching, Continue, Fetch, RequestRecords, RequestLost, ReadRow, WriteRow, WriteCounts,
                  HandleOpen, HandleClose, HandleOther, ReadCounts, WriteState, ListVoters, PollNotExists,
                  SaveVoters
<1>4. CASE Job
      BY <1>4 DEF Job, JobFetch, JobUpdate, JobFails
<1>. QED BY <1>1, <1>2, <1>3, <1>4 DEF Next

\* What a fetch counts was cast.
LEMMA FetchedIsCast ==
    ASSUME TypeOK, BallotsWereCast
    PROVE  CountIsCast(Fetched.count)
<1>1. SUFFICES ASSUME NEW o \in Options, Fetched.count[o] > 0 PROVE \E u \in Users : <<u, o>> \in cast
      BY DEF CountIsCast
<1> DEFINE T == Voters(o)
<1>2. Cardinality(T) > 0
      BY <1>1 DEF Fetched
<1>3. T # {}
  <2>1. SUFFICES ASSUME T = {} PROVE FALSE
        OBVIOUS
  <2>2. Cardinality(T) = 0
    <3> HIDE DEF T
    <3> QED BY <2>1, FS_EmptySet
  <2>. QED
    <3> HIDE DEF T
    <3> QED BY <1>2, <2>2
<1>4. PICK u \in Users : ballot[u] = o
      BY <1>3 DEF Voters
<1>5. <<u, o>> \in cast
      BY <1>4, OptionsAssumption DEF BallotsWereCast
<1>. QED BY <1>5

\* What is saved of counts that were cast was cast.
LEMMA SaveCountsCast ==
    ASSUME CountIsCast(count), NEW c, CountIsCast(c)
    PROVE  CountIsCast(SaveCounts(c))
BY DEF CountIsCast, SaveCounts

\* A count that passes has support.
LEMMA PassesIsSupported ==
    ASSUME NEW c \in Counts, CountIsCast(c), StateFor(c) = "vote_passed"
    PROVE  Support
<1>1. Passes(Kind, c)
      BY DEF StateFor
<1>2. PICK o \in Options : (Kind = "decision" => o = "approve") /\ c[o] > 0
      BY <1>1, PassesNeedsVoters
<1>. QED BY <1>2 DEF Support, CountIsCast

LEMMA SupportStart == Init => SupportInv
BY DEF Init, SupportInv, CountIsCast, RequestsAreSupported, PassedHadSupport, Idle

\* Support is never lost.
LEMMA SupportGrows ==
    ASSUME cast \subseteq cast'
    PROVE  (Support => Support') /\ \A c : CountIsCast(c) => CountIsCast(c)'
BY DEF Support, CountIsCast

\* A step that changes no count, saves no result and leaves each request as it was, or at
\* a stage without a count or a result, keeps the invariant.
LEMMA SupportFrame ==
    ASSUME SupportInv, cast \subseteq cast', UNCHANGED count, job' = job \/ job' = Idle,
           prop'.state = prop.state \/ prop'.state # "vote_passed",
           \A p \in Procs : req'[p] = req[p] \/ req'[p].stage \notin {"fetched", "row", "count", "write"}
    PROVE  SupportInv'
<1>1. (Support => Support') /\ \A c : CountIsCast(c) => CountIsCast(c)'
      BY SupportGrows
<1>2. CountIsCast(count)' /\ (job # Idle => CountIsCast(job.count))'
      BY <1>1 DEF SupportInv, CountIsCast
<1>3. RequestsAreSupported'
  <2>1. ASSUME NEW p \in Procs
        PROVE  /\ req'[p].stage \in {"fetched", "row", "count"} => CountIsCast(req[p].count)' /\ req'[p] = req[p]
               /\ req'[p].stage = "write" /\ req'[p].state = "vote_passed" => Support'
        BY <1>1 DEF SupportInv, RequestsAreSupported, CountIsCast
  <2>. QED BY <2>1 DEF RequestsAreSupported, CountIsCast
<1>4. PassedHadSupport'
      BY <1>1 DEF SupportInv, PassedHadSupport, Support
<1>. QED BY <1>2, <1>3, <1>4 DEF SupportInv

LEMMA SupportVoting ==
    ASSUME SupportInv, Voting, cast \subseteq cast'
    PROVE  SupportInv'
<1>1. UNCHANGED <<count, job, prop, req>>
      BY DEF Voting, PollOpens, PollCloses, TimePasses, PollDeleted, CastVote, RecordCast, RevokeVote,
             RecordRevoke, CallFails
<1>. QED BY <1>1, SupportFrame

\* A request that goes to a stage with a count that was cast, and a step that does nothing
\* else but save such a count, keep the invariant.
LEMMA SupportStage ==
    ASSUME TypeOK, SupportInv, cast \subseteq cast', UNCHANGED <<job, prop>>,
           NEW p \in Procs, NEW r, Step(p, r),
           r.stage \in {"fetched", "row", "count"} => CountIsCast(r.count),
           r.stage = "write" /\ r.state = "vote_passed" => Support,
           count' = count
    PROVE  SupportInv'
<1>1. (Support => Support') /\ \A c : CountIsCast(c) => CountIsCast(c)'
      BY SupportGrows
<1>2. req'[p] = r /\ \A q \in Procs \ {p} : req'[q] = req[q]
      BY StepReq
<1>3. ASSUME NEW q \in Procs
      PROVE  /\ req'[q].stage \in {"fetched", "row", "count"} =>
                  \A o \in Options : req'[q].count[o] > 0 => \E u \in Users : <<u, o>> \in cast'
             /\ req'[q].stage = "write" /\ req'[q].state = "vote_passed" => Support'
  <2>1. CASE q = p
        BY <1>1, <1>2, <2>1 DEF CountIsCast
  <2>2. CASE q # p
        BY <1>1, <1>2, <2>2 DEF SupportInv, RequestsAreSupported, CountIsCast
  <2>. QED BY <2>1, <2>2
<1>4. RequestsAreSupported'
      BY <1>3 DEF RequestsAreSupported, CountIsCast
<1>5. CountIsCast(count)' /\ (job # Idle => CountIsCast(job.count))'
      BY <1>1 DEF SupportInv, CountIsCast
<1>6. PassedHadSupport'
      BY <1>1 DEF SupportInv, PassedHadSupport, Support
<1>. QED BY <1>4, <1>5, <1>6 DEF SupportInv

LEMMA SupportContinue ==
    ASSUME TypeOK, SupportInv, NEW p \in Procs, Continue(p), cast \subseteq cast'
    PROVE  SupportInv'
<1>1. CASE ReadRow(p)
  <2> DEFINE r == [stage |-> "row", poll |-> req[p].poll, count |-> req[p].count, curr |-> row]
  <2>1. Step(p, r) /\ UNCHANGED <<job, prop, count>> /\ CountIsCast(r.count)
        BY <1>1 DEF ReadRow, SupportInv, RequestsAreSupported
  <2>2. r.stage = "row"
        OBVIOUS
  <2> HIDE DEF r
  <2>. QED BY <2>1, <2>2, SupportStage
<1>2. CASE WriteRow(p)
  <2> DEFINE r == [stage |-> "count", count |-> req[p].count, changed |-> req[p].curr # req[p].poll]
  <2>1. Step(p, r) /\ UNCHANGED <<job, prop, count>> /\ CountIsCast(r.count)
        BY <1>2 DEF WriteRow, SupportInv, RequestsAreSupported
  <2>2. r.stage = "count"
        OBVIOUS
  <2> HIDE DEF r
  <2>. QED BY <2>1, <2>2, SupportStage
<1>3. CASE WriteCounts(p)
  <2>1. UNCHANGED <<job, prop>> /\ count' = SaveCounts(req[p].count)
        BY <1>3 DEF WriteCounts
  <2>2. \E r : Step(p, r) /\ r.stage \notin {"fetched", "row", "count", "write"}
        BY <1>3 DEF WriteCounts, End, Idle
  <2>3. \A q \in Procs : req'[q] = req[q] \/ req'[q].stage \notin {"fetched", "row", "count", "write"}
        BY <2>2, StepReq
  <2>4. CountIsCast(SaveCounts(req[p].count))
        BY <1>3, SaveCountsCast DEF WriteCounts, SupportInv, RequestsAreSupported
  <2>5. (Support => Support') /\ \A c : CountIsCast(c) => CountIsCast(c)'
        BY SupportGrows
  <2>6. CountIsCast(count)'
        BY <2>1, <2>4, <2>5 DEF CountIsCast
  <2>7. ASSUME NEW q \in Procs
        PROVE  /\ req'[q].stage \in {"fetched", "row", "count"} =>
                    \A o \in Options : req'[q].count[o] > 0 => \E u \in Users : <<u, o>> \in cast'
               /\ req'[q].stage = "write" /\ req'[q].state = "vote_passed" => Support'
        BY <2>3, <2>5 DEF SupportInv, RequestsAreSupported, CountIsCast
  <2>8. RequestsAreSupported'
        BY <2>7 DEF RequestsAreSupported, CountIsCast
  <2>9. PassedHadSupport' /\ (job # Idle => CountIsCast(job.count))'
        BY <2>1, <2>5 DEF SupportInv, PassedHadSupport, Support, CountIsCast
  <2>. QED BY <2>6, <2>8, <2>9 DEF SupportInv
<1>4. CASE HandleOpen(p) \/ HandleClose(p) \/ HandleOther(p) \/ ListVoters(p) \/ PollNotExists(p)
           \/ SaveVoters(p)
  <2>1. UNCHANGED <<job, count>>
        BY <1>4 DEF HandleOpen, HandleClose, HandleOther, ListVoters, PollNotExists, SaveVoters
  <2>2. \E r : Step(p, r) /\ r.stage \notin {"fetched", "row", "count", "write"}
    <3>1. CASE ListVoters(p)
      <4>1. End(p) \/ \E list \in Ballots :
                        Step(p, [stage |-> "save", list |-> list, closed |-> poll.status = "close"])
            BY <3>1 DEF ListVoters
      <4>2. ASSUME NEW list PROVE [stage |-> "save", list |-> list, closed |-> poll.status = "close"].stage = "save"
            OBVIOUS
      <4>3. End(p) => Step(p, Idle) /\ Idle.stage = "idle"
            BY DEF End, Idle
      <4>4. "save" \notin {"fetched", "row", "count", "write"} /\ "idle" \notin {"fetched", "row", "count", "write"}
            OBVIOUS
      <4>. QED BY <4>1, <4>2, <4>3, <4>4, Zenon
    <3>2. CASE HandleOpen(p) \/ HandleClose(p) \/ HandleOther(p) \/ PollNotExists(p) \/ SaveVoters(p)
          BY <3>2 DEF HandleOpen, HandleClose, HandleOther, PollNotExists, SaveVoters, End, Idle
    <3>. QED BY <1>4, <3>1, <3>2
  <2>3. \A q \in Procs : req'[q] = req[q] \/ req'[q].stage \notin {"fetched", "row", "count", "write"}
        BY <2>2, StepReq
  <2>4. prop'.state = prop.state \/ prop'.state # "vote_passed"
        BY <1>4 DEF HandleOpen, HandleClose, HandleOther, ListVoters, PollNotExists, SaveVoters, Opened, TypeOK
  <2>. QED BY <2>1, <2>3, <2>4, SupportFrame
<1>5. CASE ReadCounts(p)
  <2> DEFINE r == [stage |-> "write", state |-> StateFor(count)]
  <2>1. Step(p, r) /\ UNCHANGED <<job, prop, count>>
        BY <1>5 DEF ReadCounts
  <2>2. r.stage = "write" /\ r.state = StateFor(count)
        OBVIOUS
  <2>3. StateFor(count) = "vote_passed" => Support
        BY PassesIsSupported DEF TypeOK, SupportInv
  <2> HIDE DEF r
  <2>. QED BY <2>1, <2>2, <2>3, SupportStage
<1>6. CASE WriteState(p)
  <2>1. UNCHANGED <<job, count>> /\ prop'.state = req[p].state /\ req[p].stage = "write"
        BY <1>6 DEF WriteState, TypeOK
  <2>2. \E r : Step(p, r) /\ r.stage \notin {"fetched", "row", "count", "write"}
        BY <1>6 DEF WriteState
  <2>3. \A q \in Procs : req'[q] = req[q] \/ req'[q].stage \notin {"fetched", "row", "count", "write"}
        BY <2>2, StepReq
  <2>4. CASE req[p].state # "vote_passed"
        BY <2>1, <2>3, <2>4, SupportFrame
  <2>5. CASE req[p].state = "vote_passed"
    <3>1. (Support => Support') /\ \A c : CountIsCast(c) => CountIsCast(c)'
          BY SupportGrows
    <3>2. Support'
          BY <2>1, <2>5, <3>1 DEF SupportInv, RequestsAreSupported
    <3>3. ASSUME NEW q \in Procs
          PROVE  /\ req'[q].stage \in {"fetched", "row", "count"} =>
                      \A o \in Options : req'[q].count[o] > 0 => \E u \in Users : <<u, o>> \in cast'
                 /\ req'[q].stage = "write" /\ req'[q].state = "vote_passed" => Support'
          BY <2>3, <3>1, <3>2 DEF SupportInv, RequestsAreSupported, CountIsCast
    <3>4. RequestsAreSupported'
          BY <3>3 DEF RequestsAreSupported, CountIsCast
    <3>5. CountIsCast(count)' /\ (job # Idle => CountIsCast(job.count))'
          BY <2>1, <3>1 DEF SupportInv, CountIsCast
    <3>6. PassedHadSupport'
          BY <3>2 DEF PassedHadSupport, Support
    <3>. QED BY <3>4, <3>5, <3>6 DEF SupportInv
  <2>. QED BY <2>4, <2>5
<1>. QED BY <1>1, <1>2, <1>3, <1>4, <1>5, <1>6 DEF Continue

LEMMA SupportWatching ==
    ASSUME TypeOK, BallotsWereCast, SupportInv, Watching, cast \subseteq cast'
    PROVE  SupportInv'
<1>1. ASSUME NEW p \in Watchers, Fetch(p) PROVE SupportInv'
  <2> DEFINE r == [stage |-> "fetched", poll |-> Fetched.poll, count |-> Fetched.count]
  <2>1. Step(p, r) /\ UNCHANGED <<job, prop, count>> /\ CountIsCast(r.count) /\ p \in Procs
        BY <1>1, FetchedIsCast DEF Fetch, Procs
  <2>2. r.stage = "fetched"
        OBVIOUS
  <2> HIDE DEF r
  <2>. QED BY <2>1, <2>2, SupportStage
<1>2. ASSUME NEW p \in Procs, RequestRecords(p) \/ RequestLost(p) PROVE SupportInv'
  <2>1. UNCHANGED <<job, prop, count>>
        BY <1>2 DEF RequestRecords, RequestLost
  <2>2. \E r : Step(p, r) /\ r.stage \notin {"fetched", "row", "count", "write"}
        BY <1>2 DEF RequestRecords, RequestLost, End, Idle
  <2>3. \A q \in Procs : req'[q] = req[q] \/ req'[q].stage \notin {"fetched", "row", "count", "write"}
        BY <2>2, StepReq
  <2>. QED BY <2>1, <2>3, SupportFrame
<1>. QED BY <1>1, <1>2, SupportContinue DEF Watching, Procs

LEMMA SupportJob ==
    ASSUME TypeOK, BallotsWereCast, SupportInv, Job, cast \subseteq cast'
    PROVE  SupportInv'
<1>1. (Support => Support') /\ \A c : CountIsCast(c) => CountIsCast(c)'
      BY SupportGrows
<1>2. CASE JobFetch
  <2>1. UNCHANGED <<req, prop, count>> /\ job'.count = Fetched.count
        BY <1>2 DEF JobFetch
  <2>2. CountIsCast(job.count)' /\ CountIsCast(count)'
        BY <1>1, <2>1, FetchedIsCast DEF SupportInv, CountIsCast
  <2>3. RequestsAreSupported'
        BY <1>1, <2>1 DEF SupportInv, RequestsAreSupported, CountIsCast
  <2>4. PassedHadSupport'
        BY <1>1, <2>1 DEF SupportInv, PassedHadSupport, Support
  <2>. QED BY <2>2, <2>3, <2>4 DEF SupportInv
<1>3. CASE JobUpdate
  <2>1. UNCHANGED req /\ job' = Idle /\ count' = SaveCounts(job.count)
        BY <1>3 DEF JobUpdate
  <2>2. CountIsCast(SaveCounts(job.count)) /\ SaveCounts(job.count) \in Counts
    <3>1. CountIsCast(job.count) /\ job.count \in Counts
          BY <1>3 DEF JobUpdate, SupportInv, TypeOK, Idle
    <3>. QED BY <3>1, SaveCountsCast, SaveCountsType DEF SupportInv
  <2>3. CountIsCast(count)' /\ (job # Idle => CountIsCast(job.count))'
        BY <1>1, <2>1, <2>2 DEF CountIsCast
  <2>4. RequestsAreSupported'
        BY <1>1, <2>1 DEF SupportInv, RequestsAreSupported, CountIsCast
  <2>5. prop'.state = "vote_passed" => Support
    <3>1. \/ prop' = prop \/ prop' = Opened
          \/ prop' = [prop EXCEPT !.state = StateFor(SaveCounts(job.count)), !.saved = @ \/ poll.ended]
          BY <1>3 DEF JobUpdate, JobSettles
    <3>2. prop \in [state: States, sip: BOOLEAN, saved: BOOLEAN]
          BY DEF TypeOK
    <3>3. prop.state = "vote_passed" => Support
          BY DEF SupportInv, PassedHadSupport, Support
    <3>4. Opened.state = "vote_passed" => prop.state = "vote_passed"
          BY <3>2 DEF Opened
    <3>5. StateFor(SaveCounts(job.count)) = "vote_passed" => Support
          BY <2>2, PassesIsSupported
    <3> DEFINE settled == StateFor(SaveCounts(job.count))
    <3> HIDE DEF settled
    <3>6. CASE prop' = [prop EXCEPT !.state = settled, !.saved = @ \/ poll.ended]
      <4>1. prop'.state = settled
            BY <3>2, <3>6
      <4>. QED BY <3>5, <4>1 DEF settled
    <3>. QED BY <3>1, <3>3, <3>4, <3>6 DEF settled
  <2>6. PassedHadSupport'
        BY <1>1, <2>5 DEF PassedHadSupport, Support
  <2>. QED BY <2>3, <2>4, <2>6 DEF SupportInv
<1>4. CASE JobFails
  <2>1. UNCHANGED <<req, prop, count>> /\ job' = Idle
        BY <1>4 DEF JobFails
  <2>. QED BY <2>1, SupportFrame
<1>. QED BY <1>2, <1>3, <1>4 DEF Job

LEMMA SupportStep == TypeOK /\ CastInv /\ SupportInv /\ [Next]_vars => SupportInv'
<1> SUFFICES ASSUME TypeOK, CastInv, SupportInv, [Next]_vars PROVE SupportInv'
    OBVIOUS
<1>1. cast \subseteq cast' /\ BallotsWereCast
      BY CastGrows DEF CastInv
<1>2. CASE UNCHANGED vars
  <2>1. UNCHANGED <<count, job, prop, req>>
        BY <1>2 DEF vars
  <2>. QED BY <1>1, <2>1, SupportFrame
<1>. QED BY <1>1, <1>2, SupportVoting, SupportWatching, SupportJob DEF Next

\* A proposal whose vote passed had a voter for what passed: whatever was fetched late, was
\* overwritten by an older fetch or was settled twice, no result comes from nothing.
THEOREM PassedWithSupport == Spec => []PassedHadSupport
<1>1. Init => TypeOK /\ CastInv /\ SupportInv
      BY TypeStart, CastStart, SupportStart
<1>2. TypeOK /\ CastInv /\ SupportInv /\ [Next]_vars => TypeOK' /\ CastInv' /\ SupportInv'
      BY TypeStep, CastStep, SupportStep
<1>3. SupportInv => PassedHadSupport
      BY DEF SupportInv
<1>. QED BY <1>1, <1>2, <1>3, PTL DEF Spec

====
