---- MODULE Invites ----
(***************************************************************************)
(* Invitations that are rewarded when the invitee owns a name: users name  *)
(* the code they were invited with, a cron job looks the names of the      *)
(* unverified invitees up and pays.  Runs of the job may overlap, and a    *)
(* restart ends them between two rows.                                     *)
(*                                                                         *)
(* invites   the rows, in the order of their ids                           *)
(* rewards   the committed rewards, who was paid for whom                  *)
(* named     wallets that own a name                                       *)
(* posts     per request: the row it read and is about to save             *)
(* sweeps    per run of the job: the rows it has still to handle           *)
(* mixed     invitees of whom two operations overlapped (history)          *)
(***************************************************************************)
EXTENDS Integers, SequencesExt

CONSTANTS
    Invitees,       \* wallets that may be invited
    Inviters,       \* owners of invitation codes
    Posters,        \* requests in flight
    Sweepers,       \* runs of the job in flight
    MaxPosts,       \* bound: requests
    MaxMisses       \* bound: failed transactions and restarts

VARIABLES invites, rewards, named, posts, sweeps, mixed, posted, misses
vars == <<invites, rewards, named, posts, sweeps, mixed, posted, misses>>

NoPost == [id |-> 0, row |-> << >>]
RowsFor(w) == {i \in DOMAIN invites : invites[i].invitee = w}

Posting(w) == {p \in Posters : posts[p].row # << >> /\ posts[p].row.invitee = w}
Sweeping(w) == {s \in Sweepers : \E i \in DOMAIN sweeps[s] : sweeps[s][i].invitee = w}
InUse == {w \in Invitees : Posting(w) \union Sweeping(w) # {}}

Init ==
    /\ invites = << >>
    /\ rewards = << >>
    /\ named = {}
    /\ posts = [p \in Posters |-> NoPost]
    /\ sweeps = [s \in Sweepers |-> << >>]
    /\ mixed = {}
    /\ posted = 0
    /\ misses = 0

----

\* The first row of the invitee; one that is verified is refused, and so is a code that
\* nobody has.
FindInvite(p, w, inviter) ==
    /\ posts[p] = NoPost
    /\ posted < MaxPosts
    /\ LET row == [invitee |-> w, inviter |-> inviter, verified |-> FALSE]
       IN  \/ RowsFor(w) = {} /\ posts' = [posts EXCEPT ![p] = [id |-> 0, row |-> row]]
           \/ \E i \in RowsFor(w) :
                /\ \A j \in RowsFor(w) : i <= j
                /\ ~invites[i].verified
                /\ posts' = [posts EXCEPT ![p] = [id |-> i, row |-> row]]
    /\ mixed' = mixed \union ({w} \intersect InUse)
    /\ posted' = posted + 1
    /\ UNCHANGED <<invites, rewards, named, sweeps, misses>>

\* The whole row is saved as it was read, verified too; without a row a new one.
SaveInvite(p) ==
    /\ posts[p] # NoPost
    /\ invites' = IF posts[p].id = 0 THEN Append(invites, posts[p].row)
                  ELSE [invites EXCEPT ![posts[p].id] = posts[p].row]
    /\ posts' = [posts EXCEPT ![p] = NoPost]
    /\ UNCHANGED <<rewards, named, sweeps, mixed, posted, misses>>

\* The invitee buys a name.
TakeName(w) ==
    /\ w \notin named
    /\ named' = named \union {w}
    /\ UNCHANGED <<invites, rewards, posts, sweeps, mixed, posted, misses>>

----

\* The rows that are not verified, in the order of their ids.
Unverified ==
    LET done == {r \in Range(invites) : r.verified}
    IN  FoldLeft(LAMBDA open, r : IF r \in done THEN open ELSE Append(open, r), << >>, invites)

StartSweep(s) ==
    /\ sweeps[s] = << >>
    /\ sweeps' = [sweeps EXCEPT ![s] = Unverified]
    /\ mixed' = mixed \union (InUse \intersect {r.invitee : r \in Range(Unverified)})
    /\ UNCHANGED <<invites, rewards, named, posts, posted, misses>>

M_Pay(row) ==
    /\ rewards' = Append(rewards, [inviter |-> row.inviter, invitee |-> row.invitee])
    /\ UNCHANGED invites
\* Every row of the invitee is marked, and the inviter of the row that was read is paid:
\* bundle, application and transfer job in one transaction.
Pay(row) ==
    /\ invites' = [i \in DOMAIN invites |->
                     [invites[i] EXCEPT !.verified = @ \/ invites[i].invitee = row.invitee]]
    /\ rewards' = Append(rewards, [inviter |-> row.inviter, invitee |-> row.invitee])

\* As below, but the first invitee without a name ends the run.
M_HandleRow(s) ==
    /\ sweeps[s] # << >>
    /\ IF Head(sweeps[s]).invitee \in named
       THEN Pay(Head(sweeps[s])) /\ sweeps' = [sweeps EXCEPT ![s] = Tail(@)]
       ELSE UNCHANGED <<invites, rewards>> /\ sweeps' = [sweeps EXCEPT ![s] = << >>]
    /\ UNCHANGED <<named, posts, mixed, posted, misses>>
HandleRow(s) ==
    /\ sweeps[s] # << >>
    /\ IF Head(sweeps[s]).invitee \in named
       THEN Pay(Head(sweeps[s]))
       ELSE UNCHANGED <<invites, rewards>>
    /\ sweeps' = [sweeps EXCEPT ![s] = Tail(@)]
    /\ UNCHANGED <<named, posts, mixed, posted, misses>>

\* The name is not found out, or the transaction of a row fails: on to the next row.
RowFails(s) ==
    /\ sweeps[s] # << >>
    /\ Head(sweeps[s]).invitee \in named
    /\ misses < MaxMisses
    /\ sweeps' = [sweeps EXCEPT ![s] = Tail(@)]
    /\ misses' = misses + 1
    /\ UNCHANGED <<invites, rewards, named, posts, mixed, posted>>

Restart ==
    /\ misses < MaxMisses
    /\ posts' = [p \in Posters |-> NoPost]
    /\ sweeps' = [s \in Sweepers |-> << >>]
    /\ misses' = misses + 1
    /\ UNCHANGED <<invites, rewards, named, mixed, posted>>

----

Sweep(s) == StartSweep(s) \/ HandleRow(s)

Next ==
    \/ \E p \in Posters, w \in Invitees, i \in Inviters : FindInvite(p, w, i)
    \/ \E p \in Posters : SaveInvite(p)
    \/ \E w \in Invitees : TakeName(w)
    \/ \E s \in Sweepers : Sweep(s) \/ RowFails(s)
    \/ Restart

TypeOK ==
    /\ \A i \in DOMAIN invites :
         invites[i] \in [invitee : Invitees, inviter : Inviters, verified : BOOLEAN]
    /\ \A p \in Posters : posts[p].id \in {0} \union DOMAIN invites

RewardsOf(w) == {i \in DOMAIN rewards : rewards[i].invitee = w}

\* A verified invitee was paid for, whatever fails or restarts; and only operations that
\* overlap (two first requests, two runs, a request across a run) can pay twice or leave
\* a row that was paid for unverified.
RewardedOnce ==
    \A w \in Invitees :
        /\ (\E i \in RowsFor(w) : invites[i].verified) => RewardsOf(w) # {}
        /\ w \notin mixed =>
             /\ \A i, j \in RewardsOf(w) : i = j
             /\ RewardsOf(w) # {} => \A i \in RowsFor(w) : invites[i].verified

\* An invitation whose invitee owns a name is paid for in the end.
Awaited(w) == w \in named /\ \E i \in RowsFor(w) : ~invites[i].verified
NamedIsRewarded == \A w \in Invitees : Awaited(w) ~> RewardsOf(w) # {}

====
