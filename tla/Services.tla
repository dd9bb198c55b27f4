---- MODULE Services ----
(***************************************************************************)
(* The smaller services of the back end, which share no rows: a behaviour  *)
(* runs one of them, chosen at the start.                                  *)
(***************************************************************************)
EXTENDS Integers, Sequences, FiniteSets

CONSTANTS
    Wallets, Opening, Amounts, Payments, MaxTransfers,              \* AssetTransfers
    Invitees, Inviters, Posters, Sweepers, MaxPosts, MaxMisses,     \* Invites
    Admins, MaxOwed, MaxBundles,                                    \* SeasonRewards
    Numbered, Made, Closers, Openers,                               \* SipNumbers
    Texts, Editors, MaxNotices, MaxSeason,                          \* Publicity
    Labels, MaxCount, MaxRules, Thresholds, HolderCounts,           \* TallyCheck
    Clerks, Totals, Ratios, Requested, MaxCharges                   \* BudgetLedger

\* A user has one record at the start; an amount is checked to be positive.
ASSUME AssetAssumption ==
    /\ Opening \in Seq([wallet : Wallets, dealt : Nat, processing : Nat])
    /\ \A i, j \in DOMAIN Opening : Opening[i].wallet = Opening[j].wallet => i = j
    /\ Amounts \subseteq Nat
ASSUME SeasonAssumption == MaxOwed \in Nat /\ MaxBundles \in Nat
ASSUME SipAssumption == IsFiniteSet(Numbered) /\ Made \in Numbered \ Closers
ASSUME BoardAssumption == MaxSeason \in Nat \ {0}
ASSUME TallyAssumption ==
    /\ IsFiniteSet(Labels) /\ MaxCount \in Nat /\ MaxRules \in Nat
    /\ Thresholds \subseteq Int /\ HolderCounts \subseteq Nat
\* Amounts of money of any sign: the handlers parse them, and refuse none.
ASSUME LedgerAssumption == Totals \cup Ratios \cup Requested \subseteq Int /\ MaxCharges \in Nat

VARIABLES
    service,
    records, transfers, tx, raced,
    invites, rewards, named, posts, sweeps, mixed, posted, misses,
    season, bundles, owed, cached, confirming, crossed,
    proposals, numbering, collided,
    notices, editing, now, edits,
    poll, verdict,
    row, charges, request, stale, negative

Assets == INSTANCE AssetTransfers
Sns == INSTANCE Invites
Season == INSTANCE SeasonRewards
Sip == INSTANCE SipNumbers
Board == INSTANCE Publicity
Tally == INSTANCE TallyCheck
Ledger == INSTANCE BudgetLedger

assetVars == <<records, transfers, tx, raced>>
snsVars == <<invites, rewards, named, posts, sweeps, mixed, posted, misses>>
seasonVars == <<season, bundles, owed, cached, confirming, crossed>>
sipVars == <<proposals, numbering, collided>>
boardVars == <<notices, editing, now, edits>>
tallyVars == <<poll, verdict>>
ledgerVars == <<row, charges, request, stale, negative>>
vars ==
    <<service, assetVars, snsVars, seasonVars, sipVars, boardVars, tallyVars, ledgerVars>>

Init ==
    /\ service \in {"assets", "sns", "season", "sip", "board", "tally", "ledger"}
    /\ Assets!Init /\ Sns!Init /\ Season!Init /\ Sip!Init /\ Board!Init /\ Tally!Init
    /\ Ledger!Init

Next ==
    \/ /\ service = "assets" /\ Assets!Next
       /\ UNCHANGED <<service, snsVars, seasonVars, sipVars, boardVars, tallyVars, ledgerVars>>
    \/ /\ service = "sns" /\ Sns!Next
       /\ UNCHANGED <<service, assetVars, seasonVars, sipVars, boardVars, tallyVars, ledgerVars>>
    \/ /\ service = "season" /\ Season!Next
       /\ UNCHANGED <<service, assetVars, snsVars, sipVars, boardVars, tallyVars, ledgerVars>>
    \/ /\ service = "sip" /\ Sip!Next
       /\ UNCHANGED <<service, assetVars, snsVars, seasonVars, boardVars, tallyVars, ledgerVars>>
    \/ /\ service = "board" /\ Board!Next
       /\ UNCHANGED <<service, assetVars, snsVars, seasonVars, sipVars, tallyVars, ledgerVars>>
    \/ /\ service = "tally" /\ Tally!Next
       /\ UNCHANGED <<service, assetVars, snsVars, seasonVars, sipVars, boardVars, ledgerVars>>
    \/ /\ service = "ledger" /\ Ledger!Next
       /\ UNCHANGED <<service, assetVars, snsVars, seasonVars, sipVars, boardVars, tallyVars>>

\* The cron job is started again and again, and works its rows off.
Fairness ==
    \A s \in Sweepers :
        WF_vars(/\ service = "sns" /\ Sns!Sweep(s)
                /\ UNCHANGED <<service, assetVars, seasonVars, sipVars, boardVars, tallyVars,
                              ledgerVars>>)

Spec == Init /\ [][Next]_vars /\ Fairness

----

\* Every service keeps the types of its rows and requests.
TypeOK ==
    /\ Assets!TypeOK /\ Sns!TypeOK /\ Season!TypeOK
    /\ Sip!TypeOK /\ Board!TypeOK /\ Tally!TypeOK /\ Ledger!TypeOK

\* The row lock on the sender is enough: no transfer takes what a user does not have.
NoOverdraft == Assets!NoOverdraft

\* What a user holds follows from the committed logs, unless first payments overlapped.
BalanceFollowsLog == Assets!BalanceFollowsLog

\* A verified invitation was paid for, and twice only when operations overlapped.
RewardedOnce == Sns!RewardedOnce

\* An invitation whose invitee owns a name is paid for in the end.
NamedIsRewarded == Sns!NamedIsRewarded

\* A season is minted once, unless two requests overlapped.
MintedOnce == Season!MintedOnce

\* SIP numbers leave no gap, and are shared only by proposals numbered together.
SipsAreDense == Sip!SipsAreDense

\* A published announcement changes by an edit of it alone, and keeps its season.
PublishedIsFrozen == [][Board!KeepsPublished]_boardVars

\* The verdict of a poll is the one its votes and its extra rules deserve.
VerdictIsDeserved == Tally!VerdictIsDeserved

\* A budget keeps the split of its advance whatever overlaps and whatever is asked for, stays
\* within it unless an amount below 0 was accepted, and balances unless amounts were written
\* from a row that had changed.
BudgetBalances == Ledger!BudgetBalances

====
