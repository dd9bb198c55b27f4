---- MODULE TeamsProofs ----
(***************************************************************************)
(* Proofs about Teams, for any wallets, lists and requests.                *)
(***************************************************************************)
EXTENDS Teams, FoldLemmas

(* The operators on lists of sponsors. *)

\* Without keeps a list of wallets, of exactly those that are not left out.
LEMMA WithoutKeeps ==
    ASSUME NEW list \in Seq(Wallets), NEW ws
    PROVE  Without(list, ws) \in Seq(Wallets) /\ Range(Without(list, ws)) = Range(list) \ ws
<1>1. Without(list, ws) = Kept(list, ws)
      BY DEF Without, Kept
<1>. QED BY <1>1, KeptIsLeft

\* The sponsors after an addition, and whom the role is given to.
LEMMA AppendedKeeps ==
    ASSUME NEW list \in Seq(Wallets), NEW more \in Seq(Wallets)
    PROVE  /\ Appended(list, more) \in Seq(Wallets)
           /\ Range(Appended(list, more)) = Range(list) \cup Range(more)
<1> DEFINE new == Without(more, Range(list))
<1>1. new \in Seq(Wallets) /\ Range(new) = Range(more) \ Range(list)
      BY WithoutKeeps
<1> HIDE DEF new
<1>2. list \o new \in Seq(Wallets) /\ Range(list \o new) = Range(list) \cup Range(new)
      BY <1>1, ConcatProperties, RangeConcatenation
<1>. QED BY <1>1, <1>2 DEF Appended, new

\* The range of a list of wallets has wallets only.
LEMMA RangeOfList ==
    ASSUME NEW list \in Seq(Wallets)
    PROVE  Range(list) \subseteq Wallets
<1>1. DOMAIN list = 1..Len(list) /\ \A i \in 1..Len(list) : list[i] \in Wallets
      BY LenProperties, ElementOfSeq
<1>. QED BY <1>1 DEF Range

LEMMA RangeOfOne == ASSUME NEW w \in Wallets PROVE <<w>> \in Seq(Wallets) /\ Range(<<w>>) = {w}
BY DEF Range

LEMMA RangeOfNone == << >> \in Seq(Wallets) /\ Range(<< >>) = {}
BY EmptySeq DEF Range

\* The first sponsor is replaced.
LEMMA FirstReplaced ==
    ASSUME NEW list \in Seq(Wallets), list # << >>, NEW w \in Wallets
    PROVE  /\ [list EXCEPT ![1] = w] \in Seq(Wallets)
           /\ Range([list EXCEPT ![1] = w]) \subseteq Range(list) \cup {w}
           /\ list[1] \in Range(list)
<1>1. Len(list) \in Nat /\ Len(list) # 0 /\ DOMAIN list = 1..Len(list)
      BY LenProperties, EmptySeq
<1>2. 1 \in 1..Len(list)
      BY <1>1
<1> DEFINE new == [list EXCEPT ![1] = w]
<1>3. new \in Seq(Wallets)
      BY <1>2, ExceptSeq
<1>4. DOMAIN new = DOMAIN list /\ \A i \in DOMAIN list : new[i] = list[i] \/ new[i] = w
      BY <1>1
<1>5. Range(new) \subseteq Range(list) \cup {w}
  <2> HIDE DEF new
  <2> QED BY <1>4 DEF Range
<1>6. list[1] \in Range(list)
      BY <1>1, <1>2 DEF Range
<1>. QED BY <1>3, <1>5, <1>6

----
(* Types. *)

LEMMA RowFields ==
    ASSUME NEW q \in Row
    PROVE  /\ q.status \in Statuses /\ q.sponsors \in Seq(Wallets) /\ q.members \in SUBSET Wallets
           /\ Range(q.sponsors) \subseteq Wallets
<1>1. q.status \in Statuses /\ q.sponsors \in Seq(Wallets) /\ q.members \in SUBSET Wallets
      BY DEF Row
<1>. QED BY <1>1, RangeOfList

LEMMA NoRowType == NoRow \in Row
BY EmptySeq DEF NoRow, Row, Statuses

LEMMA IdleType ==
    /\ Idle \in Request
    /\ Idle.op = "idle" /\ Idle.step = 0 /\ Idle.by \in Hall /\ Idle.list = << >>
    /\ Idle.read = NoRow
<1>1. (CHOOSE h \in Hall : TRUE) \in Hall /\ Hall \subseteq Wallets
      BY HallAssumption
<1>2. 0 \in 0..MaxApps
      BY BoundsAssumption
<1>. QED BY <1>1, <1>2, NoRowType, EmptySeq DEF Idle, Request, Ops

\* What a request is after it began, and after it ended.
LEMMA Started ==
    ASSUME TypeOK, NEW r \in Requests, NEW new \in Request, Start(r, new)
    PROVE  /\ req' \in [Requests -> Request] /\ ops' \in 0..MaxOps
           /\ req'[r].op = new.op /\ req'[r].step = new.step /\ req'[r].by = new.by
           /\ req'[r].list = new.list /\ req'[r].read = row
           /\ \A q \in Requests \ {r} : req'[q] = req[q]
<1> DEFINE q == [new EXCEPT !.read = row]
<1>1. q \in Request
      BY DEF TypeOK, Request
<1>2. /\ q.op = new.op /\ q.step = new.step /\ q.by = new.by
      /\ q.list = new.list /\ q.read = row
      BY DEF Request
<1> HIDE DEF q
<1>3. req' = [req EXCEPT ![r] = q]
      BY DEF Start, q
<1>4. req' \in [Requests -> Request] /\ req'[r] = q /\ \A p \in Requests \ {r} : req'[p] = req[p]
      BY <1>1, <1>3 DEF TypeOK
<1>5. ops' \in 0..MaxOps
      BY BoundsAssumption DEF Start, More, TypeOK
<1>. QED BY <1>2, <1>4, <1>5

LEMMA Ended ==
    ASSUME TypeOK, NEW r \in Requests, End(r)
    PROVE  /\ req' \in [Requests -> Request] /\ req'[r] = Idle
           /\ \A q \in Requests \ {r} : req'[q] = req[q]
BY IdleType DEF TypeOK, End

LEMMA RequestFields ==
    ASSUME TypeOK, NEW r \in Requests
    PROVE  /\ req[r] \in Request /\ req[r].op \in Ops /\ req[r].by \in Wallets /\ req[r].read \in Row
           /\ req[r].list \in Seq(Wallets) /\ Range(req[r].list) \subseteq Wallets
           /\ req[r].members \in SUBSET Wallets /\ req[r].app \in 0..MaxApps
<1>1. /\ req[r] \in Request /\ req[r].op \in Ops /\ req[r].by \in Wallets /\ req[r].read \in Row
      /\ req[r].list \in Seq(Wallets) /\ req[r].members \in SUBSET Wallets /\ req[r].app \in 0..MaxApps
      BY DEF TypeOK, Request
<1>. QED BY <1>1, RangeOfList

\* The rows that additions and removals save.
LEMMA AddedType ==
    ASSUME NEW q \in Request
    PROVE  /\ Added(q) \in Row /\ Added(q).status = q.read.status
           /\ Range(Added(q).sponsors) \subseteq Range(q.read.sponsors) \cup Range(q.list)
<1>1. q.read \in Row /\ q.list \in Seq(Wallets) /\ q.members \in SUBSET Wallets
      BY DEF Request
<1>2. q.read.sponsors \in Seq(Wallets) /\ q.read.members \in SUBSET Wallets
      BY <1>1, RowFields
<1> DEFINE sponsors == IF q.list = << >> THEN q.read.sponsors
                       ELSE Without(Appended(q.read.sponsors, q.list), q.read.members)
           members == IF q.members = {} THEN q.read.members
                      ELSE (q.read.members \cup q.members) \ Range(sponsors)
<1>3. sponsors \in Seq(Wallets) /\ Range(sponsors) \subseteq Range(q.read.sponsors) \cup Range(q.list)
  <2>1. CASE q.list = << >>
        BY <1>2, <2>1
  <2>2. CASE q.list # << >>
    <3> DEFINE both == Appended(q.read.sponsors, q.list)
    <3>1. both \in Seq(Wallets) /\ Range(both) = Range(q.read.sponsors) \cup Range(q.list)
          BY <1>1, <1>2, AppendedKeeps
    <3> HIDE DEF both
    <3>2. /\ Without(both, q.read.members) \in Seq(Wallets)
          /\ Range(Without(both, q.read.members)) = Range(both) \ q.read.members
          BY <3>1, WithoutKeeps
    <3>3. sponsors = Without(both, q.read.members)
          BY <2>2 DEF both
    <3> HIDE DEF sponsors
    <3>. QED BY <3>1, <3>2, <3>3
  <2>. QED BY <2>1, <2>2
<1>4. members \in SUBSET Wallets
  <2> HIDE DEF sponsors
  <2> QED BY <1>1, <1>2
<1>5. Added(q) = [q.read EXCEPT !.sponsors = sponsors, !.members = members]
      BY DEF Added
<1> HIDE DEF sponsors, members
<1>6. Added(q) \in Row /\ Added(q).status = q.read.status /\ Added(q).sponsors = sponsors
      BY <1>1, <1>3, <1>4, <1>5 DEF Row
<1>. QED BY <1>3, <1>6

LEMMA RemovedType ==
    ASSUME NEW q \in Request
    PROVE  /\ Removed(q) \in Row /\ Removed(q).status = q.read.status
           /\ Range(Removed(q).sponsors) \subseteq Range(q.read.sponsors)
<1>1. q.read \in Row /\ q.list \in Seq(Wallets) /\ q.members \in SUBSET Wallets
      BY DEF Request
<1>2. q.read.sponsors \in Seq(Wallets) /\ q.read.members \in SUBSET Wallets
      BY <1>1, RowFields
<1> DEFINE sponsors == Without(q.read.sponsors, Range(q.list))
<1>3. sponsors \in Seq(Wallets) /\ Range(sponsors) \subseteq Range(q.read.sponsors)
      BY <1>2, WithoutKeeps
<1>4. Removed(q) = [q.read EXCEPT !.sponsors = sponsors, !.members = q.read.members \ q.members]
      BY DEF Removed
<1> HIDE DEF sponsors
<1>5. Removed(q) \in Row /\ Removed(q).status = q.read.status /\ Removed(q).sponsors = sponsors
      BY <1>1, <1>2, <1>3, <1>4 DEF Row
<1>. QED BY <1>3, <1>5

\* Whom an update of the staff leaves with the role.
LEMMA RolesAfterType ==
    ASSUME TypeOK, NEW q \in Request
    PROVE  RolesAfter(q) \subseteq holders \cup Range(q.list)
BY DEF RolesAfter, WithRole

LEMMA TypeStart == Init => TypeOK
<1> SUFFICES ASSUME Init PROVE TypeOK
    OBVIOUS
<1>1. kind \in {"project", "guild"} /\ budgeted \in BOOLEAN
      BY KindsAssumption DEF Init
<1>2. row \in Row /\ holders \subseteq Wallets /\ rules \in BOOLEAN /\ named \subseteq Wallets
  <2>1. CASE row = NoRow /\ holders = {} /\ rules = FALSE /\ named = {}
        BY <2>1, NoRowType
  <2>2. ASSUME NEW w \in Wallets \ Hall, row = [status |-> "open", sponsors |-> <<w>>, members |-> {}],
               holders = {w}, rules = (kind = "project"), named = {w}
        PROVE  row \in Row /\ holders \subseteq Wallets /\ rules \in BOOLEAN /\ named \subseteq Wallets
    <3>1. <<w>> \in Seq(Wallets)
          BY RangeOfOne
    <3>. QED BY <2>2, <3>1 DEF Row, Statuses
  <2>. QED BY <2>1, <2>2 DEF Init
<1>3. apps \in [1..MaxApps -> AppStates] /\ req \in [Requests -> Request] /\ ops \in 0..MaxOps
      BY IdleType, BoundsAssumption DEF Init, AppStates
<1>. QED BY <1>1, <1>2, <1>3 DEF TypeOK

\* The requests that hall, sponsors and jobs begin are requests.
LEMMA NewRequest ==
    ASSUME NEW w \in Wallets, NEW op \in Ops
    PROVE  /\ [Idle EXCEPT !.op = op, !.by = w] \in Request
           /\ \A list \in Seq(Wallets), ms \in SUBSET Wallets :
                [Idle EXCEPT !.op = op, !.by = w, !.list = list, !.members = ms] \in Request
           /\ \A list \in Seq(Wallets), over \in BOOLEAN :
                [Idle EXCEPT !.op = op, !.by = w, !.list = list, !.over = over] \in Request
           /\ \A a \in 1..MaxApps : [Idle EXCEPT !.op = op, !.by = w, !.app = a] \in Request
<1>1. Idle \in Request
      BY IdleType
<1> DEFINE i == Idle
<1>2. i \in Request
      BY <1>1
<1> HIDE DEF i
<1>3. [i EXCEPT !.op = op, !.by = w] \in Request
      BY <1>2 DEF Request
<1>4. ASSUME NEW list \in Seq(Wallets), NEW ms \in SUBSET Wallets
      PROVE  [i EXCEPT !.op = op, !.by = w, !.list = list, !.members = ms] \in Request
      BY <1>2 DEF Request
<1>5. ASSUME NEW list \in Seq(Wallets), NEW over \in BOOLEAN
      PROVE  [i EXCEPT !.op = op, !.by = w, !.list = list, !.over = over] \in Request
      BY <1>2 DEF Request
<1>6. ASSUME NEW a \in 1..MaxApps
      PROVE  [i EXCEPT !.op = op, !.by = w, !.app = a] \in Request
  <2>1. a \in 0..MaxApps
        BY BoundsAssumption
  <2>. QED BY <1>2, <2>1 DEF Request
<1>. QED BY <1>3, <1>4, <1>5, <1>6 DEF i

\* A request goes on to its second step.
LEMMA SteppedType ==
    ASSUME TypeOK, NEW r \in Requests, req' = [req EXCEPT ![r].step = 1]
    PROVE  /\ req' \in [Requests -> Request]
           /\ req'[r].op = req[r].op /\ req'[r].step = 1 /\ req'[r].by = req[r].by
           /\ req'[r].list = req[r].list /\ req'[r].read = req[r].read
           /\ \A q \in Requests \ {r} : req'[q] = req[q]
<1> DEFINE q == [req[r] EXCEPT !.step = 1]
<1>1. q \in Request
  <2> DEFINE old == req[r]
  <2>1. old \in Request /\ 1 \in 0..1
        BY DEF TypeOK
  <2>2. q = [old EXCEPT !.step = 1]
        OBVIOUS
  <2> HIDE DEF q, old
  <2>3. [old EXCEPT !.step = 1] \in Request
        BY <2>1 DEF Request
  <2>. QED BY <2>2, <2>3
<1>2. q.op = req[r].op /\ q.step = 1 /\ q.by = req[r].by /\ q.list = req[r].list /\ q.read = req[r].read
      BY DEF TypeOK, Request
<1>3. req' = [req EXCEPT ![r] = q]
      OBVIOUS
<1> HIDE DEF q
<1>4. req' \in [Requests -> Request] /\ req'[r] = q /\ \A p \in Requests \ {r} : req'[p] = req[p]
      BY <1>1, <1>3 DEF TypeOK
<1>. QED BY <1>2, <1>4

LEMMA TypeBegins ==
    ASSUME TypeOK, NEW r \in Requests,
           Create(r) \/ CreateProjectTask(r) \/ BeginUpdate(r) \/ BeginSave(r) \/ BeginStaffs(r)
             \/ BeginClose(r) \/ BeginAudit(r)
    PROVE  TypeOK'
<1>0. Hall \subseteq Wallets /\ (\A list \in Lists : list \in Seq(Wallets) /\ Range(list) \subseteq Wallets)
        /\ \A ms \in Crews : ms \in SUBSET Wallets
      BY HallAssumption, ListsAssumption, RangeOfList
<1>1. CASE Create(r)
  <2>1. PICK w \in Hall, list \in Lists, ms \in Crews :
          /\ Start(r, [Idle EXCEPT !.op = "create", !.by = w])
          /\ row' = [status |-> "open", sponsors |-> list, members |-> ms \ Range(list)]
          /\ named' = named \cup {w} \cup Range(list)
          /\ UNCHANGED <<kind, budgeted, holders, rules, apps>>
        BY <1>1 DEF Create
  <2>2. req' \in [Requests -> Request] /\ ops' \in 0..MaxOps
        BY <1>0, <2>1, NewRequest, Started DEF Ops
  <2>3. row' \in Row /\ named' \subseteq Wallets
        BY <1>0, <2>1 DEF Row, Statuses, TypeOK
  <2>. QED BY <2>1, <2>2, <2>3 DEF TypeOK
<1>2. CASE CreateProjectTask(r)
  <2>1. PICK w \in Wallets :
          /\ Start(r, [Idle EXCEPT !.op = "create", !.by = w])
          /\ row' = [status |-> "open", sponsors |-> <<w>>, members |-> {}]
          /\ named' = named \cup {w}
          /\ UNCHANGED <<kind, budgeted, holders, rules, apps>>
        BY <1>2 DEF CreateProjectTask
  <2>2. req' \in [Requests -> Request] /\ ops' \in 0..MaxOps
        BY <2>1, NewRequest, Started DEF Ops
  <2>3. row' \in Row /\ named' \subseteq Wallets
        BY <2>1, RangeOfOne DEF Row, Statuses, TypeOK
  <2>. QED BY <2>1, <2>2, <2>3 DEF TypeOK
<1>3. CASE BeginUpdate(r)
  <2>1. PICK w \in Hall, list \in Lists, over \in BOOLEAN :
          /\ Start(r, [Idle EXCEPT !.op = "update", !.by = w, !.list = list, !.over = over])
          /\ named' = named \cup Range(list)
          /\ UNCHANGED <<kind, budgeted, row, holders, rules, apps>>
        BY <1>3 DEF BeginUpdate
  <2>2. req' \in [Requests -> Request] /\ ops' \in 0..MaxOps
        BY <1>0, <2>1, NewRequest, Started DEF Ops
  <2>3. named' \subseteq Wallets
        BY <1>0, <2>1 DEF TypeOK
  <2>. QED BY <2>1, <2>2, <2>3 DEF TypeOK
<1>4. CASE BeginSave(r)
  <2>1. PICK w \in Wallets : Start(r, [Idle EXCEPT !.op = "save", !.by = w])
        BY <1>4 DEF BeginSave
  <2>2. req' \in [Requests -> Request] /\ ops' \in 0..MaxOps
        BY <2>1, NewRequest, Started DEF Ops
  <2>. QED BY <1>4, <2>2 DEF BeginSave, TypeOK
<1>5. CASE BeginStaffs(r)
  <2>1. PICK w \in Wallets, op \in {"add", "remove"}, list \in Lists, ms \in Crews :
          /\ Start(r, [Idle EXCEPT !.op = op, !.by = w, !.list = list, !.members = ms])
          /\ named' = named \cup Range(list)
          /\ UNCHANGED <<kind, budgeted, row, holders, rules, apps>>
        BY <1>5 DEF BeginStaffs
  <2>2. req' \in [Requests -> Request] /\ ops' \in 0..MaxOps
    <3>1. [Idle EXCEPT !.op = op, !.by = w, !.list = list, !.members = ms] \in Request
          BY <1>0, NewRequest DEF Ops
    <3>. QED BY <2>1, <3>1, Started
  <2>3. named' \subseteq Wallets
        BY <1>0, <2>1 DEF TypeOK
  <2>. QED BY <2>1, <2>2, <2>3 DEF TypeOK
<1>6. CASE BeginClose(r)
  <2>1. PICK w \in Hall : Start(r, [Idle EXCEPT !.op = "close", !.by = w])
        BY <1>6 DEF BeginClose
  <2>2. req' \in [Requests -> Request] /\ ops' \in 0..MaxOps
        BY <1>0, <2>1, NewRequest, Started DEF Ops
  <2>. QED BY <1>6, <2>2 DEF BeginClose, TypeOK
<1>7. CASE BeginAudit(r)
  <2>1. PICK w \in Hall, a \in 1..MaxApps, op \in {"approve", "reject"} :
          Start(r, [Idle EXCEPT !.op = op, !.by = w, !.app = a])
        BY <1>7 DEF BeginAudit
  <2>2. req' \in [Requests -> Request] /\ ops' \in 0..MaxOps
    <3>1. [Idle EXCEPT !.op = op, !.by = w, !.app = a] \in Request
          BY <1>0, NewRequest DEF Ops
    <3>. QED BY <2>1, <3>1, Started
  <2>. QED BY <1>7, <2>2 DEF BeginAudit, TypeOK
<1>. QED BY <1>1, <1>2, <1>3, <1>4, <1>5, <1>6, <1>7

\* A row with another status.
LEMMA StatusType ==
    ASSUME NEW q \in Row, NEW s \in Statuses
    PROVE  /\ [q EXCEPT !.status = s] \in Row /\ [q EXCEPT !.status = s].status = s
           /\ [q EXCEPT !.status = s].sponsors = q.sponsors
BY DEF Row

LEMMA TypeRequests ==
    ASSUME TypeOK, NEW r \in Requests,
           GrantCreator(r) \/ UpdateRoles(r) \/ SaveUpdate(r) \/ SaveRow(r)
             \/ UpdateStaffs(r) \/ StaffsFail(r) \/ Fail(r)
    PROVE  TypeOK'
<1>1. CASE GrantCreator(r)
      BY <1>1, Ended, RequestFields DEF GrantCreator, TypeOK, WithRole, RightsAfterGrant
<1>2. CASE UpdateRoles(r)
  <2>1. holders' \subseteq Wallets /\ rules' \in BOOLEAN
        BY <1>2, RequestFields DEF UpdateRoles, TypeOK, WithRole, RightsAfterGrant
  <2>2. req' \in [Requests -> Request]
    <3>1. CASE End(r)
          BY <3>1, Ended
    <3>2. CASE req' = [req EXCEPT ![r].step = 1]
          BY <3>2, SteppedType
    <3>. QED BY <1>2, <3>1, <3>2 DEF UpdateRoles
  <2>. QED BY <1>2, <2>1, <2>2 DEF UpdateRoles, TypeOK
<1>3. CASE SaveUpdate(r)
  <2>1. row' \in Row
        BY <1>3, RequestFields DEF SaveUpdate, Row, Statuses
  <2>. QED BY <1>3, <2>1, Ended DEF SaveUpdate, TypeOK
<1>4. CASE SaveRow(r)
      BY <1>4, Ended, RequestFields DEF SaveRow, TypeOK
<1>5. CASE UpdateStaffs(r)
  <2>1. row' \in Row
        BY <1>5, RequestFields, AddedType, RemovedType DEF UpdateStaffs
  <2>2. holders' \subseteq Wallets
        BY <1>5, RequestFields, RolesAfterType DEF UpdateStaffs, TypeOK
  <2>. QED BY <1>5, <2>1, <2>2, Ended DEF UpdateStaffs, TypeOK
<1>6. CASE StaffsFail(r)
  <2>1. holders' \subseteq Wallets
        BY <1>6, RequestFields, RolesAfterType DEF StaffsFail, TypeOK
  <2>. QED BY <1>6, <2>1, Ended DEF StaffsFail, TypeOK
<1>7. CASE Fail(r)
      BY <1>7, Ended DEF Fail, TypeOK
<1>. QED BY <1>1, <1>2, <1>3, <1>4, <1>5, <1>6, <1>7

LEMMA TypeClosing ==
    ASSUME TypeOK, NEW r \in Requests,
           CloseGuild(r) \/ CheckClose(r) \/ CloseProject(r) \/ Approve(r) \/ ApproveFails(r) \/ Reject(r)
    PROVE  TypeOK'
<1>0. {"open", "pending_close", "closed"} \subseteq Statuses /\ {"open", "completed", "rejected"} \subseteq AppStates
      BY DEF Statuses, AppStates
<1>1. CASE CloseGuild(r)
      BY <1>0, <1>1, Ended, RequestFields, StatusType DEF CloseGuild, TypeOK
<1>2. CASE CheckClose(r)
  <2>1. req' \in [Requests -> Request]
        BY <1>2, SteppedType DEF CheckClose
  <2>. QED BY <1>2, <2>1 DEF CheckClose, TypeOK
<1>3. CASE CloseProject(r)
  <2>1. row' \in Row
        BY <1>0, <1>3, RequestFields, StatusType DEF CloseProject
  <2>2. apps' \in [1..MaxApps -> AppStates]
        BY <1>0, <1>3 DEF CloseProject, TypeOK
  <2>. QED BY <1>3, <2>1, <2>2, Ended DEF CloseProject, TypeOK
<1>4. CASE Approve(r)
  <2>1. row' \in Row
        BY <1>0, <1>4, StatusType DEF Approve, TypeOK
  <2>2. apps' \in [1..MaxApps -> AppStates] /\ holders' \subseteq Wallets /\ rules' \in BOOLEAN
        BY <1>0, <1>4 DEF Approve, TypeOK
  <2>. QED BY <1>4, <2>1, <2>2, Ended DEF Approve, TypeOK
<1>5. CASE ApproveFails(r)
      BY <1>5, Ended DEF ApproveFails, TypeOK
<1>6. CASE Reject(r)
  <2>1. row' \in Row
        BY <1>0, <1>6, StatusType DEF Reject, TypeOK
  <2>2. apps' \in [1..MaxApps -> AppStates]
        BY <1>0, <1>6 DEF Reject, TypeOK, AfterReject
  <2>. QED BY <1>6, <2>1, <2>2, Ended DEF Reject, TypeOK
<1>. QED BY <1>1, <1>2, <1>3, <1>4, <1>5, <1>6

LEMMA TypeJobs ==
    ASSUME TypeOK, CloseProjectTask \/ UpdateProjectOwner \/ GrantRole \/ RevokeRole
    PROVE  TypeOK'
<1>0. More => ops' \in 0..MaxOps
      BY BoundsAssumption DEF More, TypeOK
<1>1. CASE CloseProjectTask
      BY <1>0, <1>1, StatusType DEF CloseProjectTask, TypeOK, Statuses
<1>2. CASE UpdateProjectOwner
  <2>1. PICK w \in Wallets :
          /\ row' = [row EXCEPT !.sponsors = IF @ = << >> THEN <<w>> ELSE [@ EXCEPT ![1] = w]]
          /\ named' = named \cup {w}
        BY <1>2 DEF UpdateProjectOwner
  <2> DEFINE new == IF row.sponsors = << >> THEN <<w>> ELSE [row.sponsors EXCEPT ![1] = w]
  <2>2. new \in Seq(Wallets)
    <3>1. row.sponsors \in Seq(Wallets)
          BY RowFields DEF TypeOK
    <3>. QED BY <3>1, RangeOfOne, FirstReplaced
  <2>3. row' = [row EXCEPT !.sponsors = new]
        BY <2>1
  <2> HIDE DEF new
  <2>4. row' \in Row
        BY <2>2, <2>3 DEF TypeOK, Row
  <2>. QED BY <1>0, <1>2, <2>1, <2>4 DEF UpdateProjectOwner, TypeOK
<1>3. CASE GrantRole
      BY <1>0, <1>3 DEF GrantRole, WithRole, TypeOK
<1>4. CASE RevokeRole
      BY <1>0, <1>4 DEF RevokeRole, TypeOK
<1>. QED BY <1>1, <1>2, <1>3, <1>4

LEMMA TypeStep == TypeOK /\ [Next]_vars => TypeOK'
<1> SUFFICES ASSUME TypeOK, [Next]_vars PROVE TypeOK'
    OBVIOUS
<1>1. CASE UNCHANGED vars
      BY <1>1 DEF TypeOK, vars
<1>. QED BY <1>1, TypeBegins, TypeRequests, TypeClosing, TypeJobs DEF Next

\* The row of the team, its roles, its applications and the requests keep their types.
THEOREM TypeCorrect == Spec => []TypeOK
<1>1. Init => TypeOK
      BY TypeStart
<1>2. TypeOK /\ [Next]_vars => TypeOK'
      BY TypeStep
<1>. QED BY <1>1, <1>2, PTL DEF Spec

----
(* Authority: everybody in a row or in a request was once named, or is of hall. *)

RequestIsNamed(q) ==
    /\ Range(q.list) \subseteq named /\ Range(q.read.sponsors) \subseteq named
    /\ q.op # "idle" => q.by \in Hall \cup named

AuthorityInv ==
    /\ holders \subseteq Hall \cup named /\ Range(row.sponsors) \subseteq named
    /\ \A r \in Requests : RequestIsNamed(req[r])

LEMMA NoRowSponsors == Range(NoRow.sponsors) = {} /\ Range(Idle.list) = {} /\ Range(Idle.read.sponsors) = {}
BY RangeOfNone, IdleType DEF NoRow

LEMMA AuthorityStart == Init => AuthorityInv
<1> SUFFICES ASSUME Init PROVE AuthorityInv
    OBVIOUS
<1>1. holders \subseteq Hall \cup named /\ Range(row.sponsors) \subseteq named
  <2>1. CASE row = NoRow /\ holders = {}
        BY <2>1, NoRowSponsors
  <2>2. ASSUME NEW w \in Wallets \ Hall, row = [status |-> "open", sponsors |-> <<w>>, members |-> {}],
               holders = {w}, named = {w}
        PROVE  holders \subseteq Hall \cup named /\ Range(row.sponsors) \subseteq named
        BY <2>2, RangeOfOne
  <2>. QED BY <2>1, <2>2 DEF Init
<1>2. \A r \in Requests : req[r] = Idle
      BY DEF Init
<1>3. RequestIsNamed(Idle)
      BY NoRowSponsors, IdleType DEF RequestIsNamed
<1>. QED BY <1>1, <1>2, <1>3 DEF AuthorityInv, RequestIsNamed

\* Names are not forgotten; a step keeps the invariant when whoever it adds is named.
LEMMA AuthorityFrame ==
    ASSUME AuthorityInv, named \subseteq named', holders' \subseteq Hall \cup named',
           Range(row'.sponsors) \subseteq named',
           \A r \in Requests :
             \/ req'[r] = req[r]
             \/ /\ Range(req'[r].list) \subseteq named' /\ Range(req'[r].read.sponsors) \subseteq named'
                /\ req'[r].op # "idle" => req'[r].by \in Hall \cup named'
    PROVE  AuthorityInv'
<1>1. ASSUME NEW r \in Requests
      PROVE  /\ Range(req'[r].list) \subseteq named' /\ Range(req'[r].read.sponsors) \subseteq named'
             /\ req'[r].op # "idle" => req'[r].by \in Hall \cup named'
      BY DEF AuthorityInv, RequestIsNamed
<1>. QED BY <1>1 DEF AuthorityInv, RequestIsNamed, Range

\* A request that ends adds nobody, and one that goes on neither.
LEMMA AuthorityEnds ==
    ASSUME TypeOK, AuthorityInv, named \subseteq named', holders' \subseteq Hall \cup named',
           Range(row'.sponsors) \subseteq named', NEW r \in Requests,
           End(r) \/ req' = [req EXCEPT ![r].step = 1]
    PROVE  AuthorityInv'
<1>1. CASE End(r)
  <2>1. req'[r] = Idle /\ \A q \in Requests \ {r} : req'[q] = req[q]
        BY <1>1, Ended
  <2>2. Range(req'[r].list) = {} /\ Range(req'[r].read.sponsors) = {} /\ req'[r].op = "idle"
        BY <2>1, NoRowSponsors, IdleType
  <2>3. \A q \in Requests :
          \/ req'[q] = req[q]
          \/ /\ Range(req'[q].list) \subseteq named' /\ Range(req'[q].read.sponsors) \subseteq named'
             /\ req'[q].op # "idle" => req'[q].by \in Hall \cup named'
        BY <2>1, <2>2
  <2>. QED BY <2>3, AuthorityFrame
<1>2. CASE req' = [req EXCEPT ![r].step = 1]
  <2>1. /\ req'[r].op = req[r].op /\ req'[r].by = req[r].by
        /\ req'[r].list = req[r].list /\ req'[r].read = req[r].read
        /\ \A q \in Requests \ {r} : req'[q] = req[q]
        BY <1>2, SteppedType
  <2>2. RequestIsNamed(req[r])
        BY DEF AuthorityInv
  <2>3. /\ Range(req'[r].list) \subseteq named' /\ Range(req'[r].read.sponsors) \subseteq named'
        /\ req'[r].op # "idle" => req'[r].by \in Hall \cup named'
        BY <2>1, <2>2 DEF RequestIsNamed
  <2>4. \A q \in Requests :
          \/ req'[q] = req[q]
          \/ /\ Range(req'[q].list) \subseteq named' /\ Range(req'[q].read.sponsors) \subseteq named'
             /\ req'[q].op # "idle" => req'[q].by \in Hall \cup named'
        BY <2>1, <2>3
  <2>. QED BY <2>4, AuthorityFrame
<1>. QED BY <1>1, <1>2

\* A request that begins is of somebody who is named or of hall, and names its list.
LEMMA AuthorityBegins ==
    ASSUME TypeOK, AuthorityInv, named \subseteq named', UNCHANGED holders,
           Range(row'.sponsors) \subseteq named', NEW r \in Requests, NEW new \in Request,
           Start(r, new), Range(new.list) \subseteq named', new.by \in Hall \cup named'
    PROVE  AuthorityInv'
<1>1. /\ req'[r].by = new.by /\ req'[r].list = new.list /\ req'[r].read = row
      /\ \A q \in Requests \ {r} : req'[q] = req[q]
      BY Started
<1>2. holders' \subseteq Hall \cup named' /\ Range(row.sponsors) \subseteq named'
      BY DEF AuthorityInv
<1>3. \A q \in Requests :
        \/ req'[q] = req[q]
        \/ /\ Range(req'[q].list) \subseteq named' /\ Range(req'[q].read.sponsors) \subseteq named'
           /\ req'[q].op # "idle" => req'[q].by \in Hall \cup named'
      BY <1>1, <1>2
<1>. QED BY <1>2, <1>3, AuthorityFrame

\* Whoever may modify or staff a team, or save its row, is of hall or was named.
LEMMA EnforceIsNamed ==
    ASSUME TypeOK, AuthorityInv, NEW w, NEW act, Enforce(w, act) \/ MaySave(w)
    PROVE  w \in Hall \cup named
<1>1. CASE Enforce(w, act)
      BY <1>1 DEF Enforce, AuthorityInv
<1>2. CASE MaySave(w)
  <2>1. CASE w \in Hall
        BY <2>1
  <2>2. CASE row.sponsors # << >> /\ row.sponsors[1] = w
    <3>1. row.sponsors \in Seq(Wallets)
          BY RowFields DEF TypeOK
    <3>2. row.sponsors[1] \in Range(row.sponsors)
      <4>1. Len(row.sponsors) \in Nat /\ Len(row.sponsors) # 0 /\ DOMAIN row.sponsors = 1..Len(row.sponsors)
            BY <2>2, <3>1, LenProperties, EmptySeq
      <4>2. 1 \in DOMAIN row.sponsors
            BY <4>1
      <4>. QED BY <4>2 DEF Range
    <3>. QED BY <2>2, <3>2 DEF AuthorityInv
  <2>. QED BY <1>2, <2>1, <2>2 DEF MaySave
<1>. QED BY <1>1, <1>2

\* The fields of a new request.
LEMMA NewFields ==
    ASSUME NEW w, NEW op
    PROVE  /\ LET q == [Idle EXCEPT !.op = op, !.by = w]
              IN  q.op = op /\ q.by = w /\ q.list = << >> /\ q.step = 0
           /\ \A list, ms :
                LET q == [Idle EXCEPT !.op = op, !.by = w, !.list = list, !.members = ms]
                IN  q.op = op /\ q.by = w /\ q.list = list /\ q.step = 0
           /\ \A list, over :
                LET q == [Idle EXCEPT !.op = op, !.by = w, !.list = list, !.over = over]
                IN  q.op = op /\ q.by = w /\ q.list = list /\ q.step = 0
           /\ \A a :
                LET q == [Idle EXCEPT !.op = op, !.by = w, !.app = a]
                IN  q.op = op /\ q.by = w /\ q.list = << >> /\ q.step = 0
BY DEF Idle

LEMMA AuthorityBeginning ==
    ASSUME TypeOK, AuthorityInv, NEW r \in Requests,
           Create(r) \/ CreateProjectTask(r) \/ BeginUpdate(r) \/ BeginSave(r) \/ BeginStaffs(r)
             \/ BeginClose(r) \/ BeginAudit(r)
    PROVE  AuthorityInv'
<1>0. Hall \subseteq Wallets /\ (\A list \in Lists : list \in Seq(Wallets))
        /\ \A ms \in Crews : ms \in SUBSET Wallets
      BY HallAssumption, ListsAssumption
<1>a. Range(row.sponsors) \subseteq named
      BY DEF AuthorityInv
<1>1. CASE Create(r)
  <2>1. PICK w \in Hall, list \in Lists, ms \in Crews :
          /\ Start(r, [Idle EXCEPT !.op = "create", !.by = w])
          /\ row' = [status |-> "open", sponsors |-> list, members |-> ms \ Range(list)]
          /\ named' = named \cup {w} \cup Range(list)
          /\ UNCHANGED <<kind, budgeted, holders, rules, apps>>
        BY <1>1 DEF Create
  <2> DEFINE new == [Idle EXCEPT !.op = "create", !.by = w]
  <2>2. new \in Request /\ new.by = w /\ new.list = << >>
    <3>1. new \in Request
          BY <1>0, NewRequest DEF Ops
    <3>2. new.by = w /\ new.list = << >>
          BY NewFields
    <3>. QED BY <3>1, <3>2
  <2>3. Start(r, new) /\ Range(row'.sponsors) \subseteq named' /\ named \subseteq named' /\ UNCHANGED holders
        BY <2>1
  <2> HIDE DEF new
  <2>. QED BY <2>2, <2>3, AuthorityBegins, RangeOfNone
<1>2. CASE CreateProjectTask(r)
  <2>1. PICK w \in Wallets :
          /\ Start(r, [Idle EXCEPT !.op = "create", !.by = w])
          /\ row' = [status |-> "open", sponsors |-> <<w>>, members |-> {}]
          /\ named' = named \cup {w}
          /\ UNCHANGED <<kind, budgeted, holders, rules, apps>>
        BY <1>2 DEF CreateProjectTask
  <2> DEFINE new == [Idle EXCEPT !.op = "create", !.by = w]
  <2>2. new \in Request /\ new.by = w /\ new.list = << >>
        BY NewRequest, NewFields DEF Ops
  <2>3. Start(r, new) /\ Range(row'.sponsors) \subseteq named' /\ named \subseteq named' /\ UNCHANGED holders
    <3> HIDE DEF new
    <3>1. row'.sponsors = <<w>>
          BY <2>1
    <3>. QED BY <2>1, <3>1, RangeOfOne DEF new
  <2>4. w \in named'
        BY <2>1
  <2> HIDE DEF new
  <2>. QED BY <2>2, <2>3, <2>4, AuthorityBegins, RangeOfNone
<1>3. CASE BeginUpdate(r)
  <2>1. PICK w \in Hall, list \in Lists, over \in BOOLEAN :
          /\ Start(r, [Idle EXCEPT !.op = "update", !.by = w, !.list = list, !.over = over])
          /\ named' = named \cup Range(list)
          /\ UNCHANGED <<kind, budgeted, row, holders, rules, apps>>
        BY <1>3 DEF BeginUpdate
  <2> DEFINE new == [Idle EXCEPT !.op = "update", !.by = w, !.list = list, !.over = over]
  <2>2. new \in Request /\ new.by = w /\ new.list = list
    <3>1. new \in Request
          BY <1>0, NewRequest DEF Ops
    <3>2. new.by = w /\ new.list = list
          BY NewFields
    <3>. QED BY <3>1, <3>2
  <2>3. Start(r, new) /\ Range(row'.sponsors) \subseteq named' /\ named \subseteq named' /\ UNCHANGED holders
          /\ Range(list) \subseteq named'
        BY <2>1, <1>a
  <2> HIDE DEF new
  <2>. QED BY <2>2, <2>3, AuthorityBegins
<1>4. CASE BeginSave(r)
  <2>1. PICK w \in Wallets : Start(r, [Idle EXCEPT !.op = "save", !.by = w]) /\ (MaySave(w) \/ Enforce(w, "modify"))
        BY <1>4 DEF BeginSave
  <2> DEFINE new == [Idle EXCEPT !.op = "save", !.by = w]
  <2>2. new \in Request /\ new.by = w /\ new.list = << >>
        BY NewRequest, NewFields DEF Ops
  <2>3. Start(r, new) /\ Range(row'.sponsors) \subseteq named' /\ named' = named /\ UNCHANGED holders
        BY <1>4, <2>1, <1>a DEF BeginSave
  <2>4. w \in Hall \cup named
        BY <2>1, EnforceIsNamed
  <2> HIDE DEF new
  <2>. QED BY <2>2, <2>3, <2>4, AuthorityBegins, RangeOfNone
<1>5. CASE BeginStaffs(r)
  <2>1. PICK w \in Wallets, op \in {"add", "remove"}, list \in Lists, ms \in Crews :
          /\ list # << >> => Enforce(w, "u_sponsor")
          /\ ms # {} => Enforce(w, "u_member")
          /\ list # << >> \/ ms # {}
          /\ Start(r, [Idle EXCEPT !.op = op, !.by = w, !.list = list, !.members = ms])
          /\ named' = named \cup Range(list)
          /\ UNCHANGED <<kind, budgeted, row, holders, rules, apps>>
        BY <1>5 DEF BeginStaffs
  <2> DEFINE new == [Idle EXCEPT !.op = op, !.by = w, !.list = list, !.members = ms]
  <2>2. new \in Request /\ new.by = w /\ new.list = list
    <3>1. new \in Request
          BY <1>0, NewRequest DEF Ops
    <3>2. new.by = w /\ new.list = list
          BY NewFields
    <3>. QED BY <3>1, <3>2
  <2>3. Start(r, new) /\ Range(row'.sponsors) \subseteq named' /\ named \subseteq named' /\ UNCHANGED holders
          /\ Range(list) \subseteq named'
        BY <2>1, <1>a
  <2>4. w \in Hall \cup named
        BY <2>1, EnforceIsNamed
  <2> HIDE DEF new
  <2>. QED BY <2>2, <2>3, <2>4, AuthorityBegins
<1>6. CASE BeginClose(r)
  <2>1. PICK w \in Hall : Start(r, [Idle EXCEPT !.op = "close", !.by = w])
        BY <1>6 DEF BeginClose
  <2> DEFINE new == [Idle EXCEPT !.op = "close", !.by = w]
  <2>2. new \in Request /\ new.by = w /\ new.list = << >>
    <3>1. new \in Request
          BY <1>0, NewRequest DEF Ops
    <3>2. new.by = w /\ new.list = << >>
          BY NewFields
    <3>. QED BY <3>1, <3>2
  <2>3. Start(r, new) /\ Range(row'.sponsors) \subseteq named' /\ named' = named /\ UNCHANGED holders
        BY <1>6, <2>1, <1>a DEF BeginClose
  <2> HIDE DEF new
  <2>. QED BY <2>2, <2>3, AuthorityBegins, RangeOfNone
<1>7. CASE BeginAudit(r)
  <2>1. PICK w \in Hall, a \in 1..MaxApps, op \in {"approve", "reject"} :
          Start(r, [Idle EXCEPT !.op = op, !.by = w, !.app = a])
        BY <1>7 DEF BeginAudit
  <2> DEFINE new == [Idle EXCEPT !.op = op, !.by = w, !.app = a]
  <2>2. new \in Request /\ new.by = w /\ new.list = << >>
    <3>1. new \in Request
          BY <1>0, NewRequest DEF Ops
    <3>2. new.by = w /\ new.list = << >>
          BY NewFields
    <3>. QED BY <3>1, <3>2
  <2>3. Start(r, new) /\ Range(row'.sponsors) \subseteq named' /\ named' = named /\ UNCHANGED holders
        BY <1>7, <2>1, <1>a DEF BeginAudit
  <2> HIDE DEF new
  <2>. QED BY <2>2, <2>3, AuthorityBegins, RangeOfNone
<1>. QED BY <1>1, <1>2, <1>3, <1>4, <1>5, <1>6, <1>7

LEMMA AuthorityRequests ==
    ASSUME TypeOK, AuthorityInv, NEW r \in Requests,
           GrantCreator(r) \/ UpdateRoles(r) \/ SaveUpdate(r) \/ SaveRow(r)
             \/ UpdateStaffs(r) \/ StaffsFail(r) \/ Fail(r) \/ CloseGuild(r) \/ CheckClose(r)
             \/ CloseProject(r) \/ Approve(r) \/ ApproveFails(r) \/ Reject(r)
    PROVE  AuthorityInv'
<1>1. End(r) \/ req' = [req EXCEPT ![r].step = 1]
      BY DEF GrantCreator, UpdateRoles, SaveUpdate, SaveRow, UpdateStaffs, StaffsFail, Fail, CloseGuild,
             CheckClose, CloseProject, Approve, ApproveFails, Reject
<1>2. named' = named
      BY DEF GrantCreator, UpdateRoles, SaveUpdate, SaveRow, UpdateStaffs, StaffsFail, Fail, CloseGuild,
             CheckClose, CloseProject, Approve, ApproveFails, Reject
<1>3. /\ holders \subseteq Hall \cup named /\ Range(row.sponsors) \subseteq named
      /\ Range(req[r].list) \subseteq named /\ Range(req[r].read.sponsors) \subseteq named
      BY DEF AuthorityInv, RequestIsNamed
<1>4. req[r] \in Request /\ req[r].read \in Row
      BY RequestFields
<1>5. holders' \subseteq Hall \cup named
  <2>1. CASE GrantCreator(r)
    <3>1. req[r].by \in Hall \cup named
          BY <2>1 DEF GrantCreator, AuthorityInv, RequestIsNamed
    <3>. QED BY <2>1, <3>1, <1>3 DEF GrantCreator, WithRole
  <2>2. CASE UpdateRoles(r)
        BY <2>2, <1>3 DEF UpdateRoles, WithRole
  <2>3. CASE UpdateStaffs(r) \/ StaffsFail(r)
        BY <2>3, <1>3, <1>4, RolesAfterType DEF UpdateStaffs, StaffsFail
  <2>4. CASE Approve(r) \/ ApproveFails(r)
        BY <2>4, <1>3 DEF Approve, ApproveFails
  <2>5. CASE SaveUpdate(r) \/ SaveRow(r) \/ Fail(r) \/ CloseGuild(r) \/ CheckClose(r) \/ CloseProject(r) \/ Reject(r)
        BY <2>5, <1>3 DEF SaveUpdate, SaveRow, Fail, CloseGuild, CheckClose, CloseProject, Reject
  <2>. QED BY <2>1, <2>2, <2>3, <2>4, <2>5
<1>6. Range(row'.sponsors) \subseteq named
  <2>1. CASE UpdateStaffs(r)
        BY <2>1, <1>3, <1>4, AddedType, RemovedType DEF UpdateStaffs
  <2>2. CASE SaveUpdate(r)
    <3>1. row'.sponsors = req[r].list
          BY <2>2, <1>4 DEF SaveUpdate, Row
    <3>. QED BY <3>1, <1>3
  <2>3. CASE SaveRow(r)
        BY <2>3, <1>3 DEF SaveRow
  <2>4. CASE CloseGuild(r) \/ CloseProject(r)
    <3>1. row'.sponsors = req[r].read.sponsors
          BY <2>4, <1>4 DEF CloseGuild, CloseProject, Row
    <3>. QED BY <3>1, <1>3
  <2>5. CASE Approve(r) \/ Reject(r)
    <3>1. row'.sponsors = row.sponsors
          BY <2>5 DEF Approve, Reject, TypeOK, Row
    <3>. QED BY <3>1, <1>3
  <2>6. CASE GrantCreator(r) \/ UpdateRoles(r) \/ StaffsFail(r) \/ Fail(r) \/ CheckClose(r) \/ ApproveFails(r)
        BY <2>6, <1>3 DEF GrantCreator, UpdateRoles, StaffsFail, Fail, CheckClose, ApproveFails
  <2>. QED BY <2>1, <2>2, <2>3, <2>4, <2>5, <2>6
<1>. QED BY <1>1, <1>2, <1>5, <1>6, AuthorityEnds

LEMMA AuthorityJobs ==
    ASSUME TypeOK, AuthorityInv, CloseProjectTask \/ UpdateProjectOwner \/ GrantRole \/ RevokeRole
    PROVE  AuthorityInv'
<1>0. holders \subseteq Hall \cup named /\ Range(row.sponsors) \subseteq named
      BY DEF AuthorityInv
<1>1. req' = req
      BY DEF CloseProjectTask, UpdateProjectOwner, GrantRole, RevokeRole
<1>2. named \subseteq named' /\ holders' \subseteq Hall \cup named' /\ Range(row'.sponsors) \subseteq named'
  <2>1. CASE CloseProjectTask
    <3>1. row'.sponsors = row.sponsors
          BY <2>1 DEF CloseProjectTask, TypeOK, Row
    <3>. QED BY <2>1, <3>1, <1>0 DEF CloseProjectTask
  <2>2. CASE UpdateProjectOwner
    <3>1. PICK w \in Wallets :
            /\ row' = [row EXCEPT !.sponsors = IF @ = << >> THEN <<w>> ELSE [@ EXCEPT ![1] = w]]
            /\ named' = named \cup {w}
          BY <2>2 DEF UpdateProjectOwner
    <3> DEFINE new == IF row.sponsors = << >> THEN <<w>> ELSE [row.sponsors EXCEPT ![1] = w]
    <3>2. Range(new) \subseteq Range(row.sponsors) \cup {w}
      <4>1. row.sponsors \in Seq(Wallets)
            BY RowFields DEF TypeOK
      <4>. QED BY <4>1, RangeOfOne, FirstReplaced
    <3>3. row' = [row EXCEPT !.sponsors = new]
          BY <3>1
    <3> HIDE DEF new
    <3>4. row'.sponsors = new
          BY <3>3 DEF TypeOK, Row
    <3>5. UNCHANGED holders
          BY <2>2 DEF UpdateProjectOwner
    <3>. QED BY <1>0, <3>1, <3>2, <3>4, <3>5
  <2>3. CASE GrantRole
        BY <1>0, <2>3 DEF GrantRole, WithRole
  <2>4. CASE RevokeRole
        BY <1>0, <2>4 DEF RevokeRole
  <2>. QED BY <2>1, <2>2, <2>3, <2>4
<1>. QED BY <1>1, <1>2, AuthorityFrame

LEMMA AuthorityStep == TypeOK /\ AuthorityInv /\ [Next]_vars => AuthorityInv'
<1> SUFFICES ASSUME TypeOK, AuthorityInv, [Next]_vars PROVE AuthorityInv'
    OBVIOUS
<1>1. CASE UNCHANGED vars
  <2>1. UNCHANGED <<row, holders, req, named>>
        BY <1>1 DEF vars
  <2>. QED BY <2>1 DEF AuthorityInv, RequestIsNamed
<1>. QED BY <1>1, AuthorityBeginning, AuthorityRequests, AuthorityJobs DEF Next

\* Nobody acts on a team who is not of hall and was never named as in charge of it: stale
\* rows that are saved, requests that fail half-way and roles changed apart from the row
\* give a stranger no rights.
THEOREM AuthorityIsGiven == Spec => []AuthorityHasSource
<1>1. Init => TypeOK /\ AuthorityInv
      BY TypeStart, AuthorityStart
<1>2. TypeOK /\ AuthorityInv /\ [Next]_vars => TypeOK' /\ AuthorityInv'
      BY TypeStep, AuthorityStep
<1>3. AuthorityInv => AuthorityHasSource
      BY DEF AuthorityInv, RequestIsNamed, AuthorityHasSource
<1>. QED BY <1>1, <1>2, <1>3, PTL DEF Spec

----
(* A project that waits to be closed: the rows that requests will save do not wait. *)

WaitsOnlyUndecided(q) ==
    q.read.status = "pending_close" =>
      /\ kind = "project"
      /\ q.op \in {"approve", "reject"} \/ (q.op = "update" /\ q.step = 0)

ClosingInv ==
    /\ kind = "guild" => row.status # "pending_close"
    /\ PendingHasApplication
    /\ \A r \in Requests : WaitsOnlyUndecided(req[r])

LEMMA ClosingStart == Init => ClosingInv
<1> SUFFICES ASSUME Init PROVE ClosingInv
    OBVIOUS
<1>1. row.status # "pending_close"
      BY DEF Init, NoRow
<1>2. \A r \in Requests : req[r].read.status # "pending_close"
      BY IdleType DEF Init, NoRow
<1>. QED BY <1>1, <1>2 DEF ClosingInv, PendingHasApplication, WaitsOnlyUndecided

\* A step that starts no request.
LEMMA ClosingFrame ==
    ASSUME ClosingInv, UNCHANGED kind, kind \in {"project", "guild"},
           \/ row'.status = row.status /\ UNCHANGED apps
           \/ row'.status # "pending_close"
           \/ kind = "project" /\ \E a \in 1..MaxApps : apps'[a] = "open",
           \A r \in Requests : req'[r] = req[r] \/ WaitsOnlyUndecided(req'[r])
    PROVE  ClosingInv'
<1>1. \A r \in Requests : WaitsOnlyUndecided(req[r])'
      BY DEF ClosingInv, WaitsOnlyUndecided
<1>. QED BY <1>1 DEF ClosingInv, PendingHasApplication

\* A request that ends, or goes on with a row that does not wait.
LEMMA ClosingEnds ==
    ASSUME TypeOK, ClosingInv, UNCHANGED kind, NEW r \in Requests,
           \/ row'.status = row.status /\ UNCHANGED apps
           \/ row'.status # "pending_close"
           \/ kind = "project" /\ \E a \in 1..MaxApps : apps'[a] = "open",
           \/ End(r)
           \/ req' = [req EXCEPT ![r].step = 1] /\ req[r].read.status # "pending_close"
    PROVE  ClosingInv'
<1>0. kind \in {"project", "guild"}
      BY DEF TypeOK
<1>1. CASE End(r)
  <2>1. req'[r] = Idle /\ \A q \in Requests \ {r} : req'[q] = req[q]
        BY <1>1, Ended
  <2>2. WaitsOnlyUndecided(req'[r])
        BY <2>1, IdleType DEF WaitsOnlyUndecided, NoRow
  <2>. QED BY <1>0, <2>1, <2>2, ClosingFrame
<1>2. CASE req' = [req EXCEPT ![r].step = 1] /\ req[r].read.status # "pending_close"
  <2>1. req'[r].read = req[r].read /\ \A q \in Requests \ {r} : req'[q] = req[q]
        BY <1>2, SteppedType
  <2>2. WaitsOnlyUndecided(req'[r])
        BY <1>2, <2>1 DEF WaitsOnlyUndecided
  <2>. QED BY <1>0, <2>1, <2>2, ClosingFrame
<1>. QED BY <1>1, <1>2

\* A request that begins keeps a row that waits only to decide or to update it.
LEMMA ClosingBegins ==
    ASSUME TypeOK, ClosingInv, UNCHANGED <<kind, apps>>, NEW r \in Requests, NEW new \in Request,
           Start(r, new), row' = row \/ row'.status = "open",
           \/ row.status # "pending_close"
           \/ new.op \in {"approve", "reject"}
           \/ new.op = "update" /\ new.step = 0
    PROVE  ClosingInv'
<1>1. /\ req'[r].op = new.op /\ req'[r].step = new.step /\ req'[r].read = row
      /\ \A q \in Requests \ {r} : req'[q] = req[q]
      BY Started
<1>2. kind \in {"project", "guild"}
      BY DEF TypeOK
<1>3. row.status = "pending_close" => kind = "project"
      BY <1>2 DEF ClosingInv
<1>4. WaitsOnlyUndecided(req'[r])
      BY <1>1, <1>3 DEF WaitsOnlyUndecided
<1>. QED BY <1>1, <1>2, <1>4, ClosingFrame

LEMMA ClosingBeginning ==
    ASSUME TypeOK, ClosingInv, NEW r \in Requests,
           Create(r) \/ CreateProjectTask(r) \/ BeginUpdate(r) \/ BeginSave(r) \/ BeginStaffs(r)
             \/ BeginClose(r) \/ BeginAudit(r)
    PROVE  ClosingInv'
<1>0. Hall \subseteq Wallets /\ (\A list \in Lists : list \in Seq(Wallets))
        /\ (\A ms \in Crews : ms \in SUBSET Wallets)
        /\ kind \in {"project", "guild"} /\ (kind = "guild" => row.status # "pending_close")
      BY HallAssumption, ListsAssumption DEF TypeOK, ClosingInv
<1>1. CASE Create(r)
  <2>1. PICK w \in Hall, list \in Lists, ms \in Crews :
          /\ Start(r, [Idle EXCEPT !.op = "create", !.by = w])
          /\ row' = [status |-> "open", sponsors |-> list, members |-> ms \ Range(list)]
        BY <1>1 DEF Create
  <2>2. [Idle EXCEPT !.op = "create", !.by = w] \in Request
        BY <1>0, NewRequest DEF Ops
  <2>3. row'.status = "open" /\ row.status # "pending_close" /\ UNCHANGED <<kind, apps>>
        BY <1>1, <2>1 DEF Create
  <2>. QED BY <2>1, <2>2, <2>3, ClosingBegins
<1>2. CASE CreateProjectTask(r)
  <2>1. PICK w \in Wallets :
          /\ Start(r, [Idle EXCEPT !.op = "create", !.by = w])
          /\ row' = [status |-> "open", sponsors |-> <<w>>, members |-> {}]
        BY <1>2 DEF CreateProjectTask
  <2>2. [Idle EXCEPT !.op = "create", !.by = w] \in Request
        BY NewRequest DEF Ops
  <2>3. row'.status = "open" /\ row.status # "pending_close" /\ UNCHANGED <<kind, apps>>
        BY <1>2, <2>1 DEF CreateProjectTask
  <2>. QED BY <2>1, <2>2, <2>3, ClosingBegins
<1>3. CASE BeginUpdate(r)
  <2>1. PICK w \in Hall, list \in Lists, over \in BOOLEAN :
          Start(r, [Idle EXCEPT !.op = "update", !.by = w, !.list = list, !.over = over])
        BY <1>3 DEF BeginUpdate
  <2> DEFINE new == [Idle EXCEPT !.op = "update", !.by = w, !.list = list, !.over = over]
  <2>2. new \in Request
        BY <1>0, NewRequest DEF Ops
  <2>3. new.op = "update" /\ new.step = 0
        BY NewFields
  <2>4. Start(r, new) /\ UNCHANGED <<kind, row, apps>>
        BY <1>3, <2>1 DEF BeginUpdate
  <2> HIDE DEF new
  <2>. QED BY <2>2, <2>3, <2>4, ClosingBegins
<1>4. CASE BeginSave(r)
  <2>1. PICK w \in Wallets : Start(r, [Idle EXCEPT !.op = "save", !.by = w])
        BY <1>4 DEF BeginSave
  <2>2. [Idle EXCEPT !.op = "save", !.by = w] \in Request
        BY NewRequest DEF Ops
  <2>3. row.status # "pending_close" /\ UNCHANGED <<kind, row, apps>>
        BY <1>0, <1>4 DEF BeginSave
  <2>. QED BY <2>1, <2>2, <2>3, ClosingBegins
<1>5. CASE BeginStaffs(r)
  <2>1. PICK w \in Wallets, op \in {"add", "remove"}, list \in Lists, ms \in Crews :
          Start(r, [Idle EXCEPT !.op = op, !.by = w, !.list = list, !.members = ms])
        BY <1>5 DEF BeginStaffs
  <2>2. [Idle EXCEPT !.op = op, !.by = w, !.list = list, !.members = ms] \in Request
        BY <1>0, NewRequest DEF Ops
  <2>3. row.status # "pending_close" /\ UNCHANGED <<kind, row, apps>>
        BY <1>0, <1>5 DEF BeginStaffs
  <2>. QED BY <2>1, <2>2, <2>3, ClosingBegins
<1>6. CASE BeginClose(r)
  <2>1. PICK w \in Hall : Start(r, [Idle EXCEPT !.op = "close", !.by = w])
        BY <1>6 DEF BeginClose
  <2>2. [Idle EXCEPT !.op = "close", !.by = w] \in Request
        BY <1>0, NewRequest DEF Ops
  <2>3. row.status # "pending_close" /\ UNCHANGED <<kind, row, apps>>
        BY <1>6 DEF BeginClose
  <2>. QED BY <2>1, <2>2, <2>3, ClosingBegins
<1>7. CASE BeginAudit(r)
  <2>1. PICK w \in Hall, a \in 1..MaxApps, op \in {"approve", "reject"} :
          Start(r, [Idle EXCEPT !.op = op, !.by = w, !.app = a])
        BY <1>7 DEF BeginAudit
  <2> DEFINE new == [Idle EXCEPT !.op = op, !.by = w, !.app = a]
  <2>2. new \in Request
        BY <1>0, NewRequest DEF Ops
  <2>3. new.op \in {"approve", "reject"}
        BY NewFields
  <2>4. Start(r, new) /\ UNCHANGED <<kind, row, apps>>
        BY <1>7, <2>1 DEF BeginAudit
  <2> HIDE DEF new
  <2>. QED BY <2>2, <2>3, <2>4, ClosingBegins
<1>. QED BY <1>1, <1>2, <1>3, <1>4, <1>5, <1>6, <1>7

LEMMA ClosingRequests ==
    ASSUME TypeOK, ClosingInv, NEW r \in Requests,
           GrantCreator(r) \/ UpdateRoles(r) \/ SaveUpdate(r) \/ SaveRow(r)
             \/ UpdateStaffs(r) \/ StaffsFail(r) \/ Fail(r) \/ CloseGuild(r) \/ CheckClose(r)
             \/ CloseProject(r) \/ Approve(r) \/ ApproveFails(r) \/ Reject(r)
    PROVE  ClosingInv'
<1>0. /\ kind \in {"project", "guild"}
      /\ req[r] \in Request /\ req[r].read \in Row /\ row \in Row
      /\ (req[r].read.status = "pending_close" =>
            /\ kind = "project"
            /\ req[r].op \in {"approve", "reject"} \/ (req[r].op = "update" /\ req[r].step = 0))
      BY RequestFields DEF TypeOK, ClosingInv, WaitsOnlyUndecided
<1>1. UNCHANGED kind
      BY DEF GrantCreator, UpdateRoles, SaveUpdate, SaveRow, UpdateStaffs, StaffsFail, Fail, CloseGuild,
             CheckClose, CloseProject, Approve, ApproveFails, Reject
<1>2. \/ End(r)
      \/ req' = [req EXCEPT ![r].step = 1] /\ req[r].read.status # "pending_close"
      BY <1>0 DEF GrantCreator, UpdateRoles, SaveUpdate, SaveRow, UpdateStaffs, StaffsFail, Fail, CloseGuild,
             CheckClose, CloseProject, Approve, ApproveFails, Reject
<1>3. CASE SaveUpdate(r)
  <2>1. row'.status = IF req[r].over THEN "closed" ELSE req[r].read.status
        BY <1>0, <1>3 DEF SaveUpdate, Row
  <2>2. row'.status # "pending_close"
        BY <1>0, <1>3, <2>1 DEF SaveUpdate
  <2>. QED BY <1>1, <1>2, <2>2, ClosingEnds
<1>4. CASE SaveRow(r)
  <2>1. row'.status # "pending_close"
        BY <1>0, <1>4 DEF SaveRow
  <2>. QED BY <1>1, <1>2, <2>1, ClosingEnds
<1>5. CASE UpdateStaffs(r)
  <2>1. row'.status = req[r].read.status
        BY <1>0, <1>5, AddedType, RemovedType DEF UpdateStaffs
  <2>2. row'.status # "pending_close"
        BY <1>0, <1>5, <2>1 DEF UpdateStaffs
  <2>. QED BY <1>1, <1>2, <2>2, ClosingEnds
<1>6. CASE CloseGuild(r)
  <2>1. row'.status = "closed"
        BY <1>0, <1>6 DEF CloseGuild, Row
  <2>. QED BY <1>1, <1>2, <2>1, ClosingEnds
<1>7. CASE CloseProject(r)
  <2>1. PICK a \in 1..MaxApps : apps' = [apps EXCEPT ![a] = "open"]
        BY <1>7 DEF CloseProject
  <2>2. kind = "project" /\ apps'[a] = "open"
        BY <1>7, <2>1 DEF CloseProject, TypeOK
  <2>. QED BY <1>1, <1>2, <2>2, ClosingEnds
<1>8. CASE Approve(r) \/ Reject(r)
  <2>1. (row'.status = row.status /\ UNCHANGED apps) \/ row'.status \in {"closed", "open"}
        BY <1>0, <1>8 DEF Approve, Reject, Row
  <2>2. (row'.status = row.status /\ UNCHANGED apps) \/ row'.status # "pending_close"
        BY <2>1
  <2>. QED BY <1>1, <1>2, <2>2, ClosingEnds
<1>9. CASE \/ GrantCreator(r) \/ UpdateRoles(r) \/ StaffsFail(r) \/ Fail(r) \/ CheckClose(r)
           \/ ApproveFails(r)
  <2>1. UNCHANGED <<row, apps>>
        BY <1>9 DEF GrantCreator, UpdateRoles, StaffsFail, Fail, CheckClose, ApproveFails
  <2>. QED BY <1>1, <1>2, <2>1, ClosingEnds
<1>. QED BY <1>3, <1>4, <1>5, <1>6, <1>7, <1>8, <1>9

LEMMA ClosingJobs ==
    ASSUME TypeOK, ClosingInv, CloseProjectTask \/ UpdateProjectOwner \/ GrantRole \/ RevokeRole
    PROVE  ClosingInv'
<1>1. UNCHANGED <<kind, apps, req>> /\ kind \in {"project", "guild"}
      BY DEF TypeOK, CloseProjectTask, UpdateProjectOwner, GrantRole, RevokeRole
<1>2. row'.status = row.status \/ row'.status # "pending_close"
  <2>1. CASE CloseProjectTask
    <3>1. row'.status = "closed"
          BY <2>1 DEF CloseProjectTask, TypeOK, Row
    <3>. QED BY <3>1
  <2>2. CASE UpdateProjectOwner
    <3>1. PICK w \in Wallets :
            row' = [row EXCEPT !.sponsors = IF @ = << >> THEN <<w>> ELSE [@ EXCEPT ![1] = w]]
          BY <2>2 DEF UpdateProjectOwner
    <3>. QED BY <3>1 DEF TypeOK, Row
  <2>3. CASE GrantRole \/ RevokeRole
        BY <2>3 DEF GrantRole, RevokeRole
  <2>. QED BY <2>1, <2>2, <2>3
<1>. QED BY <1>1, <1>2, ClosingFrame

LEMMA ClosingStep == TypeOK /\ ClosingInv /\ [Next]_vars => ClosingInv'
<1> SUFFICES ASSUME TypeOK, ClosingInv, [Next]_vars PROVE ClosingInv'
    OBVIOUS
<1>1. CASE UNCHANGED vars
  <2>1. UNCHANGED <<kind, row, apps, req>>
        BY <1>1 DEF vars
  <2>. QED BY <2>1 DEF ClosingInv, PendingHasApplication, WaitsOnlyUndecided
<1>. QED BY <1>1, ClosingBeginning, ClosingRequests, ClosingJobs DEF Next

\* A project in pending_close has an application that hall can still decide: no row that
\* was read before and is saved late, no race of two decisions and no failure leaves it
\* there for good.
THEOREM PendingCanBeDecided == Spec => []PendingHasApplication
<1>1. Init => TypeOK /\ ClosingInv
      BY TypeStart, ClosingStart
<1>2. TypeOK /\ ClosingInv /\ [Next]_vars => TypeOK' /\ ClosingInv'
      BY TypeStep, ClosingStep
<1>3. ClosingInv => PendingHasApplication
      BY DEF ClosingInv
<1>. QED BY <1>1, <1>2, <1>3, PTL DEF Spec

====
