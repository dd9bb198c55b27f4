---- MODULE SeasonRewards ----
(***************************************************************************)
(* The rewards of a season for its votes: approving mints them into one    *)
(* bundle of applications and marks the season, the seed snapshot marks    *)
(* it too.  Both save the whole season row they read; the rewards are      *)
(* computed or come from a cache of ten minutes.                           *)
(*                                                                         *)
(* season     the row: confirmed, its bundle (0 is none), snapshot taken   *)
(* bundles    the committed bundles, what each one pays                    *)
(* owed       what the votes and credits of the season amount to now       *)
(* cached     rewards in the cache, None when it has none                  *)
(* confirming per request: its step, the row it read, the rewards it found *)
(* crossed    two requests overlapped (history)                            *)
(***************************************************************************)
EXTENDS Integers, Sequences

CONSTANTS
    Admins,         \* requests in flight
    MaxOwed,        \* bound: how often the credits of the season change
    MaxBundles      \* bound: bundles

VARIABLES season, bundles, owed, cached, confirming, crossed
vars == <<season, bundles, owed, cached, confirming, crossed>>

None == -1
Open == [confirmed |-> FALSE, bundle |-> 0, snapshot |-> FALSE]
Done == [step |-> "idle", season |-> Open, rewards |-> None]

Init ==
    /\ season = Open
    /\ bundles = << >>
    /\ owed = 0
    /\ cached = None
    /\ confirming = [a \in Admins |-> Done]
    /\ crossed = FALSE

Begin(a, step) ==
    /\ confirming[a] = Done
    /\ confirming' = [confirming EXCEPT ![a] = [Done EXCEPT !.step = step, !.season = season]]
    /\ crossed' = (crossed \/ \E b \in Admins \ {a} : confirming[b] # Done)

M_MayMint(a) == TRUE
MayMint(a) == ~season.confirmed

BeginMint(a) ==
    /\ MayMint(a)
    /\ Begin(a, "rewards")
    /\ UNCHANGED <<season, bundles, owed, cached>>

M_Payable(found) == TRUE
\* A bundle needs somebody to pay.
Payable(found) == found # 0

\* From the cache, or computed and cached.  With nothing to pay the request ends well,
\* and the season stays unconfirmed.
FindRewards(a) ==
    /\ confirming[a].step = "rewards"
    /\ LET found == IF cached = None THEN owed ELSE cached
       IN  /\ cached' = found
           /\ confirming' = [confirming EXCEPT ![a] =
                IF Payable(found) THEN [@ EXCEPT !.step = "mint", !.rewards = found] ELSE Done]
    /\ UNCHANGED <<season, bundles, owed, crossed>>

\* Another request for the rewards of the season fills the cache.
ShowRewards ==
    /\ cached = None
    /\ cached' = owed
    /\ UNCHANGED <<season, bundles, owed, confirming, crossed>>

\* Bundle, applications and the whole season row, in one transaction.
Mint(a) ==
    /\ confirming[a].step = "mint"
    /\ Len(bundles) < MaxBundles
    /\ bundles' = Append(bundles, confirming[a].rewards)
    /\ season' = [confirming[a].season EXCEPT !.confirmed = TRUE, !.bundle = Len(bundles) + 1]
    /\ confirming' = [confirming EXCEPT ![a] = Done]
    /\ UNCHANGED <<owed, cached, crossed>>

BeginSnapshot(a) ==
    /\ ~season.snapshot
    /\ Begin(a, "snapshot")
    /\ UNCHANGED <<season, bundles, owed, cached>>

Snapshot(a) ==
    /\ confirming[a].step = "snapshot"
    /\ season' = [confirming[a].season EXCEPT !.snapshot = TRUE]
    /\ confirming' = [confirming EXCEPT ![a] = Done]
    /\ UNCHANGED <<bundles, owed, cached, crossed>>

Fail(a) ==
    /\ confirming[a] # Done
    /\ confirming' = [confirming EXCEPT ![a] = Done]
    /\ UNCHANGED <<season, bundles, owed, cached, crossed>>

\* Credits are paid or votes cast, and the cache forgets.
Earn ==
    /\ owed < MaxOwed
    /\ owed' = owed + 1
    /\ UNCHANGED <<season, bundles, cached, confirming, crossed>>

Expire ==
    /\ cached # None
    /\ cached' = None
    /\ UNCHANGED <<season, bundles, owed, confirming, crossed>>

Next ==
    \/ \E a \in Admins :
         BeginMint(a) \/ FindRewards(a) \/ Mint(a) \/ BeginSnapshot(a) \/ Snapshot(a) \/ Fail(a)
    \/ ShowRewards
    \/ Earn
    \/ Expire

TypeOK ==
    /\ season \in [confirmed : BOOLEAN, bundle : 0..MaxBundles, snapshot : BOOLEAN]
    /\ \A i \in DOMAIN bundles : bundles[i] \in 1..MaxOwed

\* The season names its bundle exactly when it is confirmed, whatever overlaps or fails;
\* and it is minted once, unless two requests overlapped: a stale row saved whole takes
\* the confirmation back.
MintedOnce ==
    /\ season.confirmed <=> season.bundle \in DOMAIN bundles
    /\ ~crossed => Len(bundles) <= 1 /\ (bundles # << >> => season.confirmed)

====
