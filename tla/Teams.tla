---- MODULE Teams ----
(***************************************************************************)
(* One team - a project or a guild: its row (status, sponsors, members),   *)
(* the access rules of its sponsors (casbin: g gives wallets the sponsor   *)
(* role, p gives the role its rights) and the applications to close it.    *)
(*                                                                         *)
(* Every handler reads the row, checks, and later saves the WHOLE row it   *)
(* read, so two requests in flight overwrite each other; and the rules are *)
(* changed outside the database transaction.  A request that fails or dies *)
(* half-way leaves what it has done.                                       *)
(***************************************************************************)
EXTENDS Integers, FiniteSets, SequencesExt

CONSTANTS
    Wallets,        \* wallets that take part
    Hall,           \* the wallets with the hall role
    Lists,          \* sponsor lists a request may name, without repetitions
    Crews,          \* sets of members a request may name
    Requests,       \* requests that may be in flight at once
    Kinds,          \* what the team is: "project", "guild" or both
    MaxApps,        \* bound: applications to close the project
    MaxOps          \* bound: requests, jobs and changes of a role

ASSUME HallAssumption == Hall \subseteq Wallets /\ Hall # {}
ASSUME ListsAssumption == Lists \subseteq Seq(Wallets) /\ Crews \subseteq SUBSET Wallets
ASSUME KindsAssumption == Kinds \subseteq {"project", "guild"}
ASSUME BoundsAssumption == MaxApps \in Nat /\ MaxOps \in Nat

VARIABLES
    kind,       \* "project" or "guild"
    budgeted,   \* whether the project has a budget row
    row,        \* the saved row of the team
    holders,    \* the wallets with the team's sponsor role
    rules,      \* whether that role has its rights
    apps,       \* the state of each application to close the project
    req,        \* the requests in flight
    ops,        \* how many of them there were
    named       \* history: wallets that were once named as in charge of the team
vars == <<kind, budgeted, row, holders, rules, apps, req, ops, named>>

Statuses == {"none", "open", "pending_close", "closed"}
AppStates == {"none", "open", "rejected", "completed"}
Ops == {"idle", "create", "update", "save", "add", "remove", "close", "approve", "reject"}
Row == [status : Statuses, sponsors : Seq(Wallets), members : SUBSET Wallets]
Request == [op : Ops, step : 0..1, by : Wallets, read : Row, list : Seq(Wallets),
            members : SUBSET Wallets, over : BOOLEAN, app : 0..MaxApps]

NoRow == [status |-> "none", sponsors |-> << >>, members |-> {}]
Idle == [op |-> "idle", step |-> 0, by |-> CHOOSE h \in Hall : TRUE, read |-> NoRow,
         list |-> << >>, members |-> {}, over |-> FALSE, app |-> 0]

----

\* lo.Without, and lo.Uniq of one list appended to another.
Without(list, ws) ==
    FoldLeft(LAMBDA kept, w : IF w \in ws THEN kept ELSE Append(kept, w), << >>, list)
Appended(list, more) == list \o Without(more, Range(list))

\* AddGroupingPolicies gives the role to all the wallets, or to none of them when one of
\* them has it already.
WithRole(ws) == IF ws \cap holders = {} THEN holders \cup ws ELSE holders

\* SetWalletPermissionAs...Sponsor: a project's role gets its rights as well; for a guild
\* the grouping rules are added in the place of the rights.
RightsAfterGrant == rules \/ kind = "project"

\* Only hall may do anything; the sponsor role may modify, staff and budget its project.
M_Enforce(w, act) == w \in Hall \/ rules
Enforce(w, act) == w \in Hall \/ (act # "u_sponsor" /\ rules /\ w \in holders)

MaySave(w) == w \in Hall \/ (kind = "project" /\ row.sponsors # << >> /\ row.sponsors[1] = w)

----

\* No team yet, or one of a wallet that has the role.
Init ==
    /\ kind \in Kinds /\ budgeted \in BOOLEAN
    /\ \/ row = NoRow /\ holders = {} /\ rules = FALSE /\ named = {}
       \/ \E w \in Wallets \ Hall :
             /\ row = [status |-> "open", sponsors |-> <<w>>, members |-> {}]
             /\ holders = {w} /\ rules = (kind = "project") /\ named = {w}
    /\ apps = [a \in 1..MaxApps |-> "none"]
    /\ req = [r \in Requests |-> Idle] /\ ops = 0

More == ops < MaxOps /\ ops' = ops + 1
Start(r, new) ==
    /\ req[r].op = "idle" /\ More
    /\ req' = [req EXCEPT ![r] = [new EXCEPT !.read = row]]
End(r) == req' = [req EXCEPT ![r] = Idle]

\* Create commits the row first; the logo and the role of its creator come after it.
Create(r) == \E w \in Hall, list \in Lists, ms \in Crews :
    /\ row.status = "none"
    /\ Start(r, [Idle EXCEPT !.op = "create", !.by = w])
    /\ row' = [status |-> "open", sponsors |-> list, members |-> ms \ Range(list)]
    /\ named' = named \cup {w} \cup Range(list)
    /\ UNCHANGED <<kind, budgeted, holders, rules, apps>>

GrantCreator(r) ==
    /\ req[r].op = "create"
    /\ holders' = WithRole({req[r].by}) /\ rules' = RightsAfterGrant
    /\ End(r)
    /\ UNCHANGED <<kind, budgeted, row, apps, ops, named>>

\* The job of an accepted proposal creates the project of its applicant, who then gets
\* the role.
CreateProjectTask(r) == \E w \in Wallets :
    /\ kind = "project" /\ row.status = "none"
    /\ Start(r, [Idle EXCEPT !.op = "create", !.by = w])
    /\ row' = [status |-> "open", sponsors |-> <<w>>, members |-> {}]
    /\ named' = named \cup {w}
    /\ UNCHANGED <<kind, budgeted, holders, rules, apps>>

\* The jobs of accepted proposals that close the project or change its first sponsor
\* write those columns only, and no rule.
CloseProjectTask ==
    /\ kind = "project" /\ row.status # "none"
    /\ row' = [row EXCEPT !.status = "closed"]
    /\ More
    /\ UNCHANGED <<kind, budgeted, holders, rules, apps, req, named>>
UpdateProjectOwner == \E w \in Wallets :
    /\ kind = "project" /\ row.status # "none"
    /\ row' = [row EXCEPT !.sponsors = IF @ = << >> THEN <<w>> ELSE [@ EXCEPT ![1] = w]]
    /\ named' = named \cup {w}
    /\ More
    /\ UNCHANGED <<kind, budgeted, holders, rules, apps, req>>

----

\* Update with a sponsor list, or with the link that ends a project, is for hall; it
\* changes the roles before it looks at the status of the row it read.
BeginUpdate(r) == \E w \in Hall, list \in Lists, over \in BOOLEAN :
    /\ row.status # "none"
    /\ IF kind = "project" THEN list # << >> \/ over ELSE ~over
    /\ Start(r, [Idle EXCEPT !.op = "update", !.by = w, !.list = list, !.over = over])
    /\ named' = named \cup Range(list)
    /\ UNCHANGED <<kind, budgeted, row, holders, rules, apps>>

UpdateRoles(r) ==
    /\ req[r].op = "update" /\ req[r].step = 0
    /\ holders' = WithRole(Range(req[r].list))
                     \ (Range(req[r].read.sponsors) \ Range(req[r].list))
    /\ rules' = RightsAfterGrant
    /\ IF kind = "guild" \/ req[r].read.status = "open"
       THEN req' = [req EXCEPT ![r].step = 1]
       ELSE End(r)
    /\ UNCHANGED <<kind, budgeted, row, apps, ops, named>>

SaveUpdate(r) ==
    /\ req[r].op = "update" /\ req[r].step = 1
    /\ row' = [req[r].read EXCEPT !.sponsors = req[r].list,
                                  !.status = IF req[r].over THEN "closed" ELSE @]
    /\ End(r)
    /\ UNCHANGED <<kind, budgeted, holders, rules, apps, ops, named>>

\* Update of the text, and AddRelatedProposal: the row is saved as it was read.
BeginSave(r) == \E w \in Wallets :
    /\ row.status # "none"
    /\ MaySave(w) \/ Enforce(w, "modify")
    /\ kind = "project" => row.status = "open"
    /\ Start(r, [Idle EXCEPT !.op = "save", !.by = w])
    /\ UNCHANGED <<kind, budgeted, row, holders, rules, apps, named>>

SaveRow(r) ==
    /\ req[r].op = "save"
    /\ row' = req[r].read
    /\ End(r)
    /\ UNCHANGED <<kind, budgeted, holders, rules, apps, ops, named>>

\* UpdateStaffs adds or removes sponsors, members or both.
BeginStaffs(r) == \E w \in Wallets, op \in {"add", "remove"}, list \in Lists, ms \in Crews :
    /\ row.status # "none"
    /\ list # << >> => Enforce(w, "u_sponsor")
    /\ ms # {} => Enforce(w, "u_member")
    /\ list # << >> \/ ms # {}
    /\ kind = "project" => row.status = "open"
    /\ Start(r, [Idle EXCEPT !.op = op, !.by = w, !.list = list, !.members = ms])
    /\ named' = named \cup Range(list)
    /\ UNCHANGED <<kind, budgeted, row, holders, rules, apps>>

\* The row an addition saves: a new sponsor who is a member is left out of the sponsors.
Added(q) ==
    LET sponsors == IF q.list = << >> THEN q.read.sponsors
                    ELSE Without(Appended(q.read.sponsors, q.list), q.read.members)
    IN  [q.read EXCEPT !.sponsors = sponsors,
                       !.members = IF q.members = {} THEN @ ELSE (@ \cup q.members) \ Range(sponsors)]
Removed(q) == [q.read EXCEPT !.sponsors = Without(@, Range(q.list)), !.members = @ \ q.members]

\* An addition gives the role to every wallet it names; a removal takes it from the
\* sponsors that are left.
RolesAfter(q) ==
    IF q.list = << >> THEN holders
    ELSE IF q.op = "add" THEN WithRole(Range(q.list))
    ELSE holders \ Range(Removed(q).sponsors)

UpdateStaffs(r) ==
    /\ req[r].op \in {"add", "remove"}
    /\ row' = IF req[r].op = "add" THEN Added(req[r]) ELSE Removed(req[r])
    /\ holders' = RolesAfter(req[r])
    /\ End(r)
    /\ UNCHANGED <<kind, budgeted, rules, apps, ops, named>>

\* Saving the rules fails: the row is rolled back, the rules in memory are not.
StaffsFail(r) ==
    /\ req[r].op \in {"add", "remove"} /\ req[r].list # << >>
    /\ holders' = RolesAfter(req[r])
    /\ End(r)
    /\ UNCHANGED <<kind, budgeted, row, rules, apps, ops, named>>

----

BeginClose(r) == \E w \in Hall :
    /\ row.status = "open"
    /\ Start(r, [Idle EXCEPT !.op = "close", !.by = w])
    /\ UNCHANGED <<kind, budgeted, row, holders, rules, apps, named>>

\* A guild is closed at once.
CloseGuild(r) ==
    /\ kind = "guild" /\ req[r].op = "close"
    /\ row' = [req[r].read EXCEPT !.status = "closed"]
    /\ End(r)
    /\ UNCHANGED <<kind, budgeted, holders, rules, apps, ops, named>>

\* A project gets an application: NewApplicationRecord reads the status once more, and
\* the transaction of its record saves the row that was read before.
CheckClose(r) ==
    /\ kind = "project" /\ req[r].op = "close" /\ req[r].step = 0
    /\ row.status = "open"
    /\ req' = [req EXCEPT ![r].step = 1]
    /\ UNCHANGED <<kind, budgeted, row, holders, rules, apps, ops, named>>
CloseProject(r) == \E a \in 1..MaxApps :
    /\ kind = "project" /\ req[r].op = "close" /\ req[r].step = 1
    /\ apps[a] = "none" /\ \A b \in 1..(a - 1) : apps[b] # "none"
    /\ apps' = [apps EXCEPT ![a] = "open"]
    /\ row' = [req[r].read EXCEPT !.status = "pending_close"]
    /\ End(r)
    /\ UNCHANGED <<kind, budgeted, holders, rules, ops, named>>

\* The validation of a decision, before its transaction.
BeginAudit(r) == \E w \in Hall, a \in 1..MaxApps, op \in {"approve", "reject"} :
    /\ apps[a] = "open" \/ (apps[a] = "rejected" /\ op = "approve")
    /\ Start(r, [Idle EXCEPT !.op = op, !.by = w, !.app = a])
    /\ UNCHANGED <<kind, budgeted, row, holders, rules, apps, named>>

\* Approved means completed at once, unless another decision completed it meanwhile.
Approve(r) ==
    /\ req[r].op = "approve"
    /\ IF apps[req[r].app] = "completed"
       THEN UNCHANGED <<row, holders, rules, apps>>
       ELSE /\ apps' = [apps EXCEPT ![req[r].app] = "completed"]
            /\ row' = [row EXCEPT !.status = "closed"]
            /\ rules' = FALSE /\ holders' = holders \ Range(row.sponsors)
    /\ End(r)
    /\ UNCHANGED <<kind, budgeted, ops, named>>

\* The transaction of an approval fails after the rules were removed.
ApproveFails(r) ==
    /\ req[r].op = "approve" /\ apps[req[r].app] # "completed"
    /\ rules' = FALSE /\ holders' = holders \ Range(row.sponsors)
    /\ End(r)
    /\ UNCHANGED <<kind, budgeted, row, apps, ops, named>>

\* The state map has no way from another state: the empty next state is not written.
M_AfterReject(state) == IF state = "open" THEN "rejected" ELSE ""
AfterReject(state) == IF state = "open" THEN "rejected" ELSE state

\* A rejection opens the project again, whatever its status, and gives 0 back to its
\* budget: without a budget row this ends in a panic, which rolls everything back.
M_Reject(r) ==
    /\ req[r].op = "reject"
    /\ apps' = [apps EXCEPT ![req[r].app] = AfterReject(@)]
    /\ row' = [row EXCEPT !.status = IF budgeted THEN "open" ELSE @]
    /\ End(r)
    /\ UNCHANGED <<kind, budgeted, holders, rules, ops, named>>
Reject(r) ==
    /\ req[r].op = "reject"
    /\ IF budgeted
       THEN /\ apps' = [apps EXCEPT ![req[r].app] = AfterReject(@)]
            /\ row' = [row EXCEPT !.status = "open"]
       ELSE UNCHANGED <<apps, row>>
    /\ End(r)
    /\ UNCHANGED <<kind, budgeted, holders, rules, ops, named>>

----

\* Hall gives the role to a wallet, or takes it, by hand.
GrantRole == \E w \in Wallets :
    /\ holders' = WithRole({w}) /\ named' = named \cup {w}
    /\ More
    /\ UNCHANGED <<kind, budgeted, row, rules, apps, req>>
RevokeRole == \E w \in holders :
    /\ holders' = holders \ {w}
    /\ More
    /\ UNCHANGED <<kind, budgeted, row, rules, apps, req, named>>

\* A request ends early: a logo that is not stored, an error, a restart.
Fail(r) ==
    /\ req[r].op # "idle"
    /\ End(r)
    /\ UNCHANGED <<kind, budgeted, row, holders, rules, apps, ops, named>>

Next ==
    \/ \E r \in Requests :
          \/ Create(r) \/ CreateProjectTask(r) \/ GrantCreator(r)
          \/ BeginUpdate(r) \/ UpdateRoles(r) \/ SaveUpdate(r)
          \/ BeginSave(r) \/ SaveRow(r)
          \/ BeginStaffs(r) \/ UpdateStaffs(r) \/ StaffsFail(r)
          \/ BeginClose(r) \/ CloseGuild(r) \/ CheckClose(r) \/ CloseProject(r)
          \/ BeginAudit(r) \/ Approve(r) \/ ApproveFails(r) \/ Reject(r)
          \/ Fail(r)
    \/ CloseProjectTask \/ UpdateProjectOwner
    \/ GrantRole \/ RevokeRole
Spec == Init /\ [][Next]_vars

----

\* Every variable keeps its type.
TypeOK ==
    /\ kind \in {"project", "guild"} /\ budgeted \in BOOLEAN
    /\ row \in Row /\ holders \subseteq Wallets /\ rules \in BOOLEAN
    /\ apps \in [1..MaxApps -> AppStates]
    /\ req \in [Requests -> Request] /\ ops \in 0..MaxOps /\ named \subseteq Wallets

\* A project that waits to be closed has an application that hall can still decide,
\* whatever requests overwrite its row and however decisions race or fail: none is
\* stuck in pending_close.
PendingHasApplication ==
    row.status = "pending_close" => \E a \in 1..MaxApps : apps[a] = "open"

\* Whoever works on a team is of the hall, or was once named as in charge of it: rows
\* saved late, failed requests and members give nobody the rights of a sponsor.
AuthorityHasSource == \A r \in Requests :
    req[r].op # "idle" => req[r].by \in Hall \cup named

\* A sponsor who is removed from the list loses the role, if the step changes it at all.
RemovedLosesRole == [][
    \A r \in Requests, w \in Wallets :
        (UpdateStaffs(r) /\ req[r].op = "remove" /\ w \in Range(req[r].list)) => w \notin holders']_vars

====
