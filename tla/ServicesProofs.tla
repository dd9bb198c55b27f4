---- MODULE ServicesProofs ----
(***************************************************************************)
(* Proofs about the services of Services, one after the other.             *)
(***************************************************************************)
EXTENDS Services, FoldLemmas

\* Each service makes the steps of its own module, or leaves its rows alone.
LEMMA OneService ==
    ASSUME [Next]_vars
    PROVE  /\ Season!Next \/ UNCHANGED seasonVars
           /\ Sip!Next \/ UNCHANGED sipVars
           /\ Board!Next \/ UNCHANGED boardVars
           /\ Sns!Next \/ UNCHANGED snsVars
           /\ Assets!Next \/ UNCHANGED assetVars
           /\ Ledger!Next \/ UNCHANGED ledgerVars
           /\ Tally!Next \/ UNCHANGED tallyVars
BY DEF Next, vars

----
(* The rewards of a season. *)

SeasonRow == [confirmed : BOOLEAN, bundle : 0..MaxBundles, snapshot : BOOLEAN]
Confirmation == [step : {"idle", "rewards", "mint", "snapshot"}, season : SeasonRow, rewards : Int]

\* The row names a bundle that exists exactly when it is confirmed; so does every row that
\* was read, and new bundles do not change that.
NamesItsBundle(s) == IF s.confirmed THEN s.bundle \in 1..Len(bundles) ELSE s.bundle = 0

Busy(a) == confirming[a].step # "idle"

SeasonTypes ==
    /\ season \in SeasonRow /\ crossed \in BOOLEAN
    /\ bundles \in Seq(1..MaxOwed) /\ Len(bundles) <= MaxBundles
    /\ owed \in 0..MaxOwed /\ cached \in {-1} \cup 0..MaxOwed
    /\ confirming \in [Admins -> Confirmation]
    /\ \A a \in Admins : (confirming[a].step = "mint" => confirming[a].rewards \in 1..MaxOwed)
    /\ \A a \in Admins : (confirming[a].step = "idle" => confirming[a] = Season!Done)

\* Alone, a request works on the row that is there.
SeasonInv ==
    /\ SeasonTypes
    /\ NamesItsBundle(season)
    /\ \A a \in Admins : NamesItsBundle(confirming[a].season)
    /\ ~crossed =>
         /\ Len(bundles) <= 1 /\ (bundles # << >> => season.confirmed)
         /\ \A a, b \in Admins : Busy(a) /\ Busy(b) => a = b
         /\ \A a \in Admins : Busy(a) => confirming[a].season = season
         /\ \A a \in Admins : confirming[a].step \in {"rewards", "mint"} => ~season.confirmed

LEMMA SeasonStart == Season!Init => SeasonInv
<1> SUFFICES ASSUME Season!Init PROVE SeasonInv
    OBVIOUS
<1>1. Season!Open \in SeasonRow /\ ~Season!Open.confirmed /\ Season!Open.bundle = 0
      BY SeasonAssumption DEF Season!Open, SeasonRow
<1>2. Season!Done \in Confirmation /\ Season!Done.step = "idle" /\ Season!Done.season = Season!Open
      BY <1>1 DEF Season!Done, Confirmation, Season!None
<1>3. bundles \in Seq(1..MaxOwed) /\ Len(bundles) = 0 /\ bundles = << >>
      BY EmptySeq DEF Season!Init
<1>4. confirming \in [Admins -> Confirmation] /\ \A a \in Admins : confirming[a] = Season!Done
      BY <1>2 DEF Season!Init
<1>5. SeasonTypes
  <2>1. season \in SeasonRow /\ crossed \in BOOLEAN
        BY <1>1 DEF Season!Init
  <2>a. owed \in 0..MaxOwed
        BY SeasonAssumption DEF Season!Init
  <2>b. cached \in {-1} \cup 0..MaxOwed
        BY DEF Season!Init, Season!None
  <2>2. Len(bundles) <= MaxBundles
        BY <1>3, SeasonAssumption
  <2>3. \A a \in Admins : (confirming[a].step = "mint" => confirming[a].rewards \in 1..MaxOwed)
        BY <1>2, <1>4
  <2>. QED BY <1>2, <1>3, <1>4, <2>1, <2>a, <2>b, <2>2, <2>3 DEF SeasonTypes
<1>. QED BY <1>1, <1>2, <1>3, <1>4, <1>5 DEF SeasonInv, Busy, NamesItsBundle, Season!Init

\* A request that begins, on the row it reads.
LEMMA SeasonBegins ==
    ASSUME SeasonInv, NEW a \in Admins, NEW step \in {"rewards", "snapshot"}, Season!Begin(a, step),
           step = "rewards" => ~season.confirmed, UNCHANGED <<season, bundles, owed, cached>>
    PROVE  SeasonInv'
<1> DEFINE new == [Season!Done EXCEPT !.step = step, !.season = season]
<1>1. Season!Done \in Confirmation /\ Season!Done.step = "idle"
      BY SeasonAssumption DEF Season!Done, Confirmation, Season!None, Season!Open, SeasonRow
<1>2. new \in Confirmation /\ new.step = step /\ new.season = season
  <2>1. season \in SeasonRow
        BY DEF SeasonInv, SeasonTypes
  <2>. QED BY <1>1, <2>1 DEF Confirmation
<1> HIDE DEF new
<1>3. confirming' = [confirming EXCEPT ![a] = new]
      BY DEF Season!Begin, new
<1>4. /\ confirming' \in [Admins -> Confirmation] /\ confirming'[a] = new
      /\ \A b \in Admins \ {a} : confirming'[b] = confirming[b]
      BY <1>2, <1>3 DEF SeasonInv, SeasonTypes
<1>5. crossed' = (crossed \/ \E b \in Admins \ {a} : confirming[b] # Season!Done)
      BY DEF Season!Begin
<1>6. crossed' \in BOOLEAN /\ (~crossed' => ~crossed /\ \A b \in Admins \ {a} : confirming[b].step = "idle")
      BY <1>1, <1>5 DEF SeasonInv, SeasonTypes
<1>7. SeasonTypes'
  <2>1. \A b \in Admins : (confirming'[b].step = "mint" => confirming'[b].rewards \in 1..MaxOwed)
        BY <1>2, <1>4 DEF SeasonInv, SeasonTypes
  <2>2. \A b \in Admins : (confirming'[b].step = "idle" => confirming'[b] = Season!Done)
        BY <1>2, <1>4 DEF SeasonInv, SeasonTypes
  <2>. QED BY <1>4, <1>6, <2>1, <2>2 DEF SeasonInv, SeasonTypes, Season!Done, Season!Open, Season!None
<1>8. NamesItsBundle(season)' /\ \A b \in Admins : NamesItsBundle(confirming[b].season)'
      BY <1>2, <1>4 DEF SeasonInv, NamesItsBundle
<1>9. ~crossed' =>
         /\ Len(bundles') <= 1 /\ (bundles' # << >> => season'.confirmed)
         /\ \A b, c \in Admins : Busy(b)' /\ Busy(c)' => b = c
         /\ \A b \in Admins : Busy(b)' => confirming'[b].season = season'
         /\ \A b \in Admins : confirming'[b].step \in {"rewards", "mint"} => ~season'.confirmed
      BY <1>2, <1>4, <1>6 DEF SeasonInv, Busy
<1>. QED BY <1>7, <1>8, <1>9 DEF SeasonInv

\* A request that goes on or ends, and changes no row.
LEMMA SeasonGoesOn ==
    ASSUME SeasonInv, NEW a \in Admins, NEW new \in Confirmation,
           confirming' = [confirming EXCEPT ![a] = new],
           new = Season!Done \/ (/\ confirming[a].step = "rewards" /\ new.step = "mint"
                                 /\ new.season = confirming[a].season /\ new.rewards \in 1..MaxOwed),
           cached' \in {-1} \cup 0..MaxOwed, UNCHANGED <<season, bundles, owed, crossed>>
    PROVE  SeasonInv'
<1>1. Season!Done.step = "idle" /\ Season!Done.season.bundle = 0 /\ ~Season!Done.season.confirmed
      BY DEF Season!Done, Season!Open
<1>2. confirming' \in [Admins -> Confirmation] /\ confirming'[a] = new
        /\ \A b \in Admins \ {a} : confirming'[b] = confirming[b]
      BY DEF SeasonInv, SeasonTypes
<1>3. SeasonTypes'
  <2>1. \A b \in Admins : (confirming'[b].step = "mint" => confirming'[b].rewards \in 1..MaxOwed)
        BY <1>1, <1>2 DEF SeasonInv, SeasonTypes
  <2>2. \A b \in Admins : (confirming'[b].step = "idle" => confirming'[b] = Season!Done)
        BY <1>1, <1>2 DEF SeasonInv, SeasonTypes
  <2>. QED BY <1>2, <2>1, <2>2 DEF SeasonInv, SeasonTypes, Season!Done, Season!Open, Season!None
<1>4. NamesItsBundle(season)' /\ \A b \in Admins : NamesItsBundle(confirming[b].season)'
      BY <1>1, <1>2 DEF SeasonInv, NamesItsBundle
<1>5. \A b \in Admins : Busy(b)' => Busy(b) /\ confirming'[b].season = confirming[b].season
      BY <1>1, <1>2 DEF Busy
<1>6. \A b \in Admins : confirming'[b].step \in {"rewards", "mint"} =>
                          confirming[b].step \in {"rewards", "mint"}
      BY <1>1, <1>2
<1>. QED BY <1>3, <1>4, <1>5, <1>6 DEF SeasonInv

\* A request that saves the row it read, with its flag or its new bundle.
LEMMA SeasonSaves ==
    ASSUME SeasonInv, NEW a \in Admins, confirming' = [confirming EXCEPT ![a] = Season!Done],
           season' \in SeasonRow, UNCHANGED <<owed, cached, crossed>>,
           \/ /\ confirming[a].step = "mint" /\ Len(bundles) < MaxBundles
              /\ bundles' = Append(bundles, confirming[a].rewards)
              /\ season'.confirmed /\ season'.bundle = Len(bundles) + 1
           \/ /\ confirming[a].step = "snapshot" /\ bundles' = bundles
              /\ season'.confirmed = confirming[a].season.confirmed
              /\ season'.bundle = confirming[a].season.bundle
    PROVE  SeasonInv'
<1>0. Season!Done \in Confirmation
      BY SeasonAssumption DEF Season!Done, Confirmation, Season!None, Season!Open, SeasonRow
<1>1. Season!Done.step = "idle" /\ Season!Done.season.bundle = 0 /\ ~Season!Done.season.confirmed
      BY DEF Season!Done, Season!Open
<1>2. confirming' \in [Admins -> Confirmation] /\ confirming'[a] = Season!Done
        /\ \A b \in Admins \ {a} : confirming'[b] = confirming[b]
      BY <1>0 DEF SeasonInv, SeasonTypes
<1>3. /\ bundles' \in Seq(1..MaxOwed) /\ Len(bundles') \in Nat /\ Len(bundles) \in Nat
      /\ Len(bundles') <= MaxBundles
      /\ Len(bundles') = IF confirming[a].step = "mint" THEN Len(bundles) + 1 ELSE Len(bundles)
  <2>1. Len(bundles) \in Nat /\ bundles \in Seq(1..MaxOwed) /\ Len(bundles) <= MaxBundles
        BY LenProperties DEF SeasonInv, SeasonTypes
  <2>2. CASE bundles' = Append(bundles, confirming[a].rewards) /\ confirming[a].step = "mint"
               /\ Len(bundles) < MaxBundles
    <3>1. confirming[a].rewards \in 1..MaxOwed
          BY <2>2 DEF SeasonInv, SeasonTypes
    <3>2. bundles' \in Seq(1..MaxOwed) /\ Len(bundles') = Len(bundles) + 1
          BY <2>1, <2>2, <3>1, AppendProperties
    <3>. QED BY <2>1, <2>2, <3>2, SeasonAssumption
  <2>3. CASE bundles' = bundles /\ confirming[a].step = "snapshot"
        BY <2>1, <2>3
  <2>. QED BY <2>2, <2>3
<1>4. SeasonTypes'
  <2>1. \A b \in Admins : (confirming'[b].step = "mint" => confirming'[b].rewards \in 1..MaxOwed)
        BY <1>1, <1>2 DEF SeasonInv, SeasonTypes
  <2>2. \A b \in Admins : (confirming'[b].step = "idle" => confirming'[b] = Season!Done)
        BY <1>2 DEF SeasonInv, SeasonTypes
  <2>. QED BY <1>2, <1>3, <2>1, <2>2 DEF SeasonInv, SeasonTypes, Season!Done, Season!Open, Season!None
<1>5. NamesItsBundle(season)' /\ \A b \in Admins : NamesItsBundle(confirming[b].season)'
      BY <1>1, <1>2, <1>3 DEF SeasonInv, NamesItsBundle
<1>6. ASSUME ~crossed'
      PROVE  /\ Len(bundles') <= 1 /\ (bundles' # << >> => season'.confirmed)
             /\ \A b \in Admins : ~Busy(b)'
  <2>1. ~crossed /\ Busy(a) /\ confirming[a].season = season /\ \A b \in Admins \ {a} : ~Busy(b)
        BY <1>6 DEF SeasonInv, Busy
  <2>2. \A b \in Admins : ~Busy(b)'
        BY <1>1, <1>2, <2>1 DEF Busy
  <2>3. confirming[a].step = "mint" => ~season.confirmed
        BY <2>1 DEF SeasonInv
  <2>4. Len(bundles) <= 1 /\ (bundles # << >> => season.confirmed)
        BY <2>1 DEF SeasonInv
  <2>5. bundles = << >> => Len(bundles) = 0
        OBVIOUS
  <2>. QED BY <1>3, <2>1, <2>2, <2>3, <2>4, <2>5
<1>7. crossed' => crossed
      OBVIOUS
<1>8. ~crossed' => \A b \in Admins : confirming'[b].step = "idle"
      BY <1>6 DEF Busy
<1>. QED BY <1>4, <1>5, <1>6, <1>8 DEF SeasonInv, Busy

LEMMA SeasonStep == SeasonInv /\ (Season!Next \/ UNCHANGED seasonVars) => SeasonInv'
<1> SUFFICES ASSUME SeasonInv, Season!Next \/ UNCHANGED seasonVars PROVE SeasonInv'
    OBVIOUS
<1>0. Season!Done \in Confirmation
      BY SeasonAssumption DEF Season!Done, Confirmation, Season!None, Season!Open, SeasonRow
<1>1. CASE \E a \in Admins : Season!BeginMint(a) \/ Season!BeginSnapshot(a)
  <2>1. PICK a \in Admins : Season!BeginMint(a) \/ Season!BeginSnapshot(a)
        BY <1>1
  <2>2. CASE Season!BeginMint(a)
        BY <2>2, SeasonBegins DEF Season!BeginMint, Season!MayMint
  <2>3. CASE Season!BeginSnapshot(a)
        BY <2>3, SeasonBegins DEF Season!BeginSnapshot
  <2>. QED BY <2>1, <2>2, <2>3
<1>2. CASE \E a \in Admins : Season!FindRewards(a)
  <2>1. PICK a \in Admins : Season!FindRewards(a)
        BY <1>2
  <2> DEFINE found == IF cached = Season!None THEN owed ELSE cached
             paid == [confirming[a] EXCEPT !.step = "mint", !.rewards = found]
  <2>2. found \in 0..MaxOwed /\ confirming[a] \in Confirmation
        BY DEF SeasonInv, SeasonTypes, Season!None
  <2>3. paid \in Confirmation /\ paid.step = "mint" /\ paid.rewards = found
          /\ paid.season = confirming[a].season
    <3> DEFINE old == confirming[a]
    <3>1. old \in Confirmation /\ paid = [old EXCEPT !.step = "mint", !.rewards = found]
          BY <2>2
    <3> HIDE DEF old, found
    <3>2. found \in Int
          BY <2>2
    <3>. QED BY <3>1, <3>2 DEF Confirmation, old
  <2>4. /\ confirming' = [confirming EXCEPT ![a] = IF Season!Payable(found) THEN paid ELSE Season!Done]
        /\ cached' = found /\ UNCHANGED <<season, bundles, owed, crossed>>
        /\ confirming[a].step = "rewards"
        BY <2>1 DEF Season!FindRewards
  <2>5. CASE Season!Payable(found)
    <3>1. found \in 1..MaxOwed
          BY <2>2, <2>5 DEF Season!Payable
    <3> HIDE DEF found, paid
    <3>2. confirming' = [confirming EXCEPT ![a] = paid]
          BY <2>4, <2>5
    <3>. QED BY <2>2, <2>3, <2>4, <3>1, <3>2, SeasonGoesOn
  <2>6. CASE ~Season!Payable(found)
    <3> HIDE DEF found, paid
    <3>1. confirming' = [confirming EXCEPT ![a] = Season!Done]
          BY <2>4, <2>6
    <3>. QED BY <1>0, <2>2, <2>4, <3>1, SeasonGoesOn
  <2>. QED BY <2>5, <2>6
<1>3. CASE \E a \in Admins : Season!Mint(a) \/ Season!Snapshot(a)
  <2>1. PICK a \in Admins : Season!Mint(a) \/ Season!Snapshot(a)
        BY <1>3
  <2> DEFINE read == confirming[a].season
  <2>2. read \in SeasonRow
        BY DEF SeasonInv, SeasonTypes, Confirmation
  <2>3. Len(bundles) \in Nat
        BY LenProperties DEF SeasonInv, SeasonTypes
  <2>4. CASE Season!Mint(a)
    <3>1. season' = [read EXCEPT !.confirmed = TRUE, !.bundle = Len(bundles) + 1] /\ Len(bundles) < MaxBundles
          BY <2>4 DEF Season!Mint
    <3> HIDE DEF read
    <3>2. Len(bundles) + 1 \in 0..MaxBundles
          BY <2>3, <3>1, SeasonAssumption
    <3>3. season' \in SeasonRow /\ season'.confirmed /\ season'.bundle = Len(bundles) + 1
          BY <2>2, <3>1, <3>2 DEF SeasonRow
    <3>. QED BY <2>4, <3>3, SeasonSaves DEF Season!Mint
  <2>5. CASE Season!Snapshot(a)
    <3>1. season' = [read EXCEPT !.snapshot = TRUE]
          BY <2>5 DEF Season!Snapshot
    <3>2. season' \in SeasonRow /\ season'.confirmed = read.confirmed /\ season'.bundle = read.bundle
      <4> HIDE DEF read
      <4>. QED BY <2>2, <3>1 DEF SeasonRow
    <3>. QED BY <2>5, <3>2, SeasonSaves DEF Season!Snapshot
  <2>. QED BY <2>1, <2>4, <2>5
<1>4. CASE \E a \in Admins : Season!Fail(a)
  <2>1. PICK a \in Admins : Season!Fail(a)
        BY <1>4
  <2>2. cached \in {-1} \cup 0..MaxOwed
        BY DEF SeasonInv, SeasonTypes
  <2>. QED BY <1>0, <2>1, <2>2, SeasonGoesOn DEF Season!Fail
<1>5. CASE Season!ShowRewards \/ Season!Earn \/ Season!Expire
  <2>1. cached' \in {-1} \cup 0..MaxOwed /\ owed' \in 0..MaxOwed
        BY <1>5, SeasonAssumption
        DEF SeasonInv, SeasonTypes, Season!ShowRewards, Season!Earn, Season!Expire, Season!None
  <2>2. UNCHANGED <<season, bundles, confirming, crossed>>
        BY <1>5 DEF Season!ShowRewards, Season!Earn, Season!Expire
  <2>. QED BY <2>1, <2>2 DEF SeasonInv, SeasonTypes, NamesItsBundle, Busy, Season!Done, Season!Open, Season!None
<1>6. CASE UNCHANGED seasonVars
      BY <1>6 DEF seasonVars, SeasonInv, SeasonTypes, NamesItsBundle, Busy, Season!Done, Season!Open, Season!None
<1>. QED BY <1>1, <1>2, <1>3, <1>4, <1>5, <1>6 DEF Season!Next

LEMMA SeasonHolds == Spec => []SeasonInv
<1>1. Init => SeasonInv
      BY SeasonStart DEF Init
<1>2. SeasonInv /\ [Next]_vars => SeasonInv'
      BY SeasonStep, OneService
<1>. QED BY <1>1, <1>2, PTL DEF Spec

\* A season names its bundle exactly when it is confirmed, and is minted once unless two
\* requests overlapped: whatever was cached, however often the credits changed, and
\* although every request saves the row that it read.
THEOREM SeasonMintedOnce == Spec => []MintedOnce
<1>1. SeasonInv => MintedOnce
  <2> SUFFICES ASSUME SeasonInv PROVE MintedOnce
      OBVIOUS
  <2>1. DOMAIN bundles = 1..Len(bundles)
        BY LenProperties DEF SeasonInv, SeasonTypes
  <2>. QED BY <2>1 DEF SeasonInv, NamesItsBundle, MintedOnce, Season!MintedOnce
<1>. QED BY <1>1, SeasonHolds, PTL

----
(* The numbers of proposals. *)

Proposal == [state : Sip!SipStates, sip : Nat]
Numbering == [proposal : Numbered \cup {""}, step : {"free", "number", "write"},
              state : Sip!SipStates \cup {""}, sip : Nat]

\* n is the highest number of the proposals f.
IsHighest(n, f) ==
    /\ n \in Nat /\ \A p \in Numbered : f[p].sip <= n
    /\ \E p \in Numbered : f[p].sip = n

\* The number a process chose is at most the next one; two that chose at the same time have
\* their proposals marked, and one that is not marked has exactly the next one.
SipInv ==
    /\ proposals \in [Numbered -> Proposal] /\ numbering \in [Openers -> Numbering]
    /\ \A o \in Openers : numbering[o].step # "free" => numbering[o].proposal \in Numbered
    /\ proposals[Made].sip # 0
    /\ \A n \in 1..Sip!Highest : \E p \in Numbered : proposals[p].sip = n
    /\ \A o \in Sip!Chosen : numbering[o].sip \in 1..(Sip!Highest + 1)
    /\ \A o, c \in Sip!Chosen : o # c => numbering[o].proposal \in collided
    /\ \A o \in Sip!Chosen :
         numbering[o].proposal \notin Closers \cup collided => numbering[o].sip = Sip!Highest + 1
    /\ \A p, q \in Numbered \ (Closers \cup collided) :
         proposals[p].sip # 0 /\ proposals[p].sip = proposals[q].sip => p = q

LEMMA HighestOf ==
    ASSUME NEW f \in [Numbered -> Proposal]
    PROVE  IsHighest(Sip!Max({f[p].sip : p \in Numbered}), f)
<1> DEFINE sips == {f[p].sip : p \in Numbered}
<1>1. IsFiniteSet(sips)
  <2> DEFINE g == [p \in Numbered |-> f[p].sip]
  <2>1. g \in Surjection(Numbered, sips)
        BY DEF Surjection
  <2>. QED BY <2>1, SipAssumption, FS_Surjection
<1>2. sips \subseteq Nat /\ sips # {}
      BY SipAssumption DEF Proposal
<1>3. Sip!Max(sips) = Max(sips)
      BY DEF Sip!Max, Max
<1>4. Max(sips) \in sips /\ \A y \in sips : y <= Max(sips)
  <2> HIDE DEF sips
  <2>1. sips \subseteq Int
        BY <1>2
  <2>. QED BY <1>1, <1>2, <2>1, MaxIsGreatest
<1>. QED BY <1>2, <1>3, <1>4 DEF IsHighest

LEMMA HighestNow ==
    /\ proposals \in [Numbered -> Proposal] => IsHighest(Sip!Highest, proposals)
    /\ proposals' \in [Numbered -> Proposal] => IsHighest(Sip!Highest', proposals')
BY HighestOf DEF Sip!Highest

\* A step that gives no number leaves the highest one.
LEMMA HighestKept ==
    ASSUME \A p \in Numbered : proposals'[p].sip = proposals[p].sip
    PROVE  Sip!Highest' = Sip!Highest
<1>1. {proposals'[p].sip : p \in Numbered} = {proposals[p].sip : p \in Numbered}
      OBVIOUS
<1>. QED BY <1>1 DEF Sip!Highest

LEMMA SipStart == Sip!Init => SipInv
<1> SUFFICES ASSUME Sip!Init PROVE SipInv
    OBVIOUS
<1>1. proposals \in [Numbered -> Proposal]
      BY DEF Sip!Init, Proposal, Sip!SipStates
<1>2. /\ numbering \in [Openers -> Numbering]
      /\ \A o \in Openers : numbering[o].step = "free"
      BY DEF Sip!Init, Sip!Free, Numbering
<1>3. Sip!Chosen = {}
      BY <1>2 DEF Sip!Chosen
<1>4. \A p \in Numbered : proposals[p].sip = IF p = Made THEN 1 ELSE 0
      BY DEF Sip!Init
<1>5. Sip!Highest = 1
      BY <1>1, <1>4, HighestNow, SipAssumption DEF IsHighest
<1>6. \A n \in 1..Sip!Highest : n = 1
      BY <1>5
<1>7. \A n \in 1..Sip!Highest : \E p \in Numbered : proposals[p].sip = n
      BY <1>4, <1>6, SipAssumption
<1>8. proposals[Made].sip # 0
      BY <1>4, SipAssumption
<1>9. \A p, q \in Numbered \ (Closers \cup collided) :
         proposals[p].sip # 0 /\ proposals[p].sip = proposals[q].sip => p = q
      BY <1>4
<1>. QED BY <1>1, <1>2, <1>3, <1>7, <1>8, <1>9 DEF SipInv

\* A step that gives no number, and in which no process chooses one.
LEMMA SipFrame ==
    ASSUME SipInv, proposals' \in [Numbered -> Proposal], numbering' \in [Openers -> Numbering],
           UNCHANGED collided,
           \A p \in Numbered : proposals'[p].sip = proposals[p].sip,
           \A o \in Openers : \/ numbering'[o] = numbering[o]
                              \/ numbering'[o].step = "free"
                              \/ numbering'[o].step = "number" /\ numbering'[o].proposal \in Numbered
    PROVE  SipInv'
<1>1. Sip!Highest' = Sip!Highest
      BY HighestKept
<1>2. \A o \in Sip!Chosen' : o \in Sip!Chosen /\ numbering'[o] = numbering[o]
      BY DEF Sip!Chosen
<1>3. \A o \in Openers : numbering'[o].step # "free" => numbering'[o].proposal \in Numbered
      BY DEF SipInv
<1>4. /\ \A o \in Sip!Chosen' : numbering'[o].sip \in 1..(Sip!Highest' + 1)
      /\ \A o, c \in Sip!Chosen' : o # c => numbering'[o].proposal \in collided'
      /\ \A o \in Sip!Chosen' :
           numbering'[o].proposal \notin Closers \cup collided' => numbering'[o].sip = Sip!Highest' + 1
      BY <1>1, <1>2 DEF SipInv
<1>5. /\ proposals'[Made].sip # 0
      /\ \A n \in 1..Sip!Highest' : \E p \in Numbered : proposals'[p].sip = n
      /\ \A p, q \in Numbered \ (Closers \cup collided') :
           proposals'[p].sip # 0 /\ proposals'[p].sip = proposals'[q].sip => p = q
      BY <1>1, SipAssumption DEF SipInv
<1>. QED BY <1>3, <1>4, <1>5 DEF SipInv

LEMMA SipReads ==
    ASSUME SipInv, NEW o \in Openers, Sip!ReadNumber(o)
    PROVE  SipInv'
<1> DEFINE p == numbering[o].proposal
           n == Sip!NumberFor(p)
           new == [numbering[o] EXCEPT !.step = "write", !.sip = n]
<1>1. proposals \in [Numbered -> Proposal] /\ numbering \in [Openers -> Numbering]
        /\ UNCHANGED proposals /\ numbering[o].step = "number"
      BY DEF SipInv, Sip!ReadNumber
<1>2. p \in Numbered
      BY <1>1 DEF SipInv
<1>3. IsHighest(Sip!Highest, proposals) /\ Sip!Highest' = Sip!Highest
      BY <1>1, HighestNow, HighestKept
<1>4. n \in 1..(Sip!Highest + 1) /\ (p \notin Closers => n = Sip!Highest + 1)
  <2>1. proposals[Made].sip \in Nat /\ proposals[Made].sip # 0 /\ proposals[Made].sip <= Sip!Highest
        BY <1>1, <1>3, SipAssumption DEF SipInv, IsHighest, Proposal
  <2>2. Sip!Highest \in Nat
        BY <1>3 DEF IsHighest
  <2>. QED BY <2>1, <2>2 DEF Sip!NumberFor
<1>5. new \in Numbering /\ new.step = "write" /\ new.sip = n /\ new.proposal = p
  <2> DEFINE old == numbering[o]
  <2>1. old \in Numbering /\ n \in Nat /\ new = [old EXCEPT !.step = "write", !.sip = n] /\ p = old.proposal
        BY <1>1, <1>4
  <2> HIDE DEF old, n, p, new
  <2>. QED BY <2>1 DEF Numbering
<1>6. numbering' = [numbering EXCEPT ![o] = new]
      BY <1>1 DEF Sip!ReadNumber
<1> HIDE DEF new, n
<1>7. /\ numbering' \in [Openers -> Numbering] /\ numbering'[o] = new
      /\ \A c \in Openers \ {o} : numbering'[c] = numbering[c]
      BY <1>1, <1>5, <1>6
<1>8. Sip!Chosen' = Sip!Chosen \cup {o} /\ o \notin Sip!Chosen
      BY <1>1, <1>5, <1>7 DEF Sip!Chosen
<1>9. collided' = IF Sip!Chosen = {} THEN collided
                  ELSE collided \cup {p} \cup {numbering[c].proposal : c \in Sip!Chosen}
      BY DEF Sip!ReadNumber
<1>10. \A c \in Sip!Chosen : numbering'[c] = numbering[c] /\ c \in Openers
      BY <1>7, <1>8 DEF Sip!Chosen
<1>11. \A c, d \in Sip!Chosen' : c # d => numbering'[c].proposal \in collided'
  <2> SUFFICES ASSUME NEW c \in Sip!Chosen', NEW d \in Sip!Chosen', c # d
               PROVE  numbering'[c].proposal \in collided'
      OBVIOUS
  <2>1. Sip!Chosen # {}
        BY <1>8
  <2>2. CASE c = o
        BY <1>5, <1>7, <1>9, <2>1, <2>2
  <2>3. CASE c \in Sip!Chosen
        BY <1>9, <1>10, <2>1, <2>3
  <2>. QED BY <1>8, <2>2, <2>3
<1>12. \A c \in Sip!Chosen' :
         /\ numbering'[c].sip \in 1..(Sip!Highest' + 1)
         /\ numbering'[c].proposal \notin Closers \cup collided' => numbering'[c].sip = Sip!Highest' + 1
  <2> SUFFICES ASSUME NEW c \in Sip!Chosen'
               PROVE  /\ numbering'[c].sip \in 1..(Sip!Highest' + 1)
                      /\ numbering'[c].proposal \notin Closers \cup collided' =>
                           numbering'[c].sip = Sip!Highest' + 1
      OBVIOUS
  <2>1. CASE c = o
        BY <1>3, <1>4, <1>5, <1>7, <2>1
  <2>2. CASE c \in Sip!Chosen
    <3>1. numbering'[c].proposal \in collided'
          BY <1>9, <1>10, <2>2
    <3>2. numbering[c].sip \in 1..(Sip!Highest + 1)
          BY <2>2 DEF SipInv
    <3>. QED BY <1>3, <1>10, <2>2, <3>1, <3>2
  <2>. QED BY <1>8, <2>1, <2>2
<1>13. collided \subseteq collided'
      BY <1>9
<1>14. \A c \in Openers : numbering'[c].step # "free" => numbering'[c].proposal \in Numbered
      BY <1>2, <1>5, <1>7 DEF SipInv
<1>15. /\ proposals'[Made].sip # 0
       /\ \A m \in 1..Sip!Highest' : \E q \in Numbered : proposals'[q].sip = m
       /\ \A q, r \in Numbered \ (Closers \cup collided') :
            proposals'[q].sip # 0 /\ proposals'[q].sip = proposals'[r].sip => q = r
      BY <1>1, <1>3, <1>13 DEF SipInv
<1>. QED BY <1>1, <1>7, <1>11, <1>12, <1>14, <1>15 DEF SipInv

LEMMA SipWrites ==
    ASSUME SipInv, NEW o \in Openers, Sip!WriteNumber(o),
           Sip!Unnumbered(numbering[o].proposal, numbering[o].state)
    PROVE  SipInv'
<1> DEFINE p == numbering[o].proposal
           n == numbering[o].sip
           H == Sip!Highest
<1>1. /\ proposals \in [Numbered -> Proposal] /\ numbering \in [Openers -> Numbering]
      /\ o \in Sip!Chosen /\ p \in Numbered /\ proposals[p].sip = 0
      /\ numbering' = [numbering EXCEPT ![o] = Sip!Free] /\ UNCHANGED collided
      BY DEF SipInv, Sip!WriteNumber, Sip!Chosen, Sip!Unnumbered
<1>2. n \in 1..(H + 1) /\ IsHighest(H, proposals)
      BY <1>1, HighestNow DEF SipInv
<1>3. H \in Nat /\ n \in Nat /\ n >= 1 /\ n <= H + 1 /\ \A q \in Numbered : proposals[q].sip \in Nat /\ proposals[q].sip <= H
      BY <1>1, <1>2 DEF IsHighest, Proposal
<1>4. proposals' = [proposals EXCEPT ![p] = [state |-> "voting", sip |-> n]]
      BY DEF Sip!WriteNumber
<1>5. /\ proposals' \in [Numbered -> Proposal] /\ proposals'[p].sip = n
      /\ \A q \in Numbered \ {p} : proposals'[q].sip = proposals[q].sip
  <2>1. [state |-> "voting", sip |-> n] \in Proposal
        BY <1>3 DEF Proposal, Sip!SipStates
  <2>. QED BY <1>1, <1>4, <2>1
<1>6. Sip!Free \in Numbering /\ Sip!Free.step = "free"
      BY DEF Sip!Free, Numbering
<1>7. /\ numbering' \in [Openers -> Numbering] /\ numbering'[o].step = "free"
      /\ \A c \in Openers \ {o} : numbering'[c] = numbering[c]
      BY <1>1, <1>6
<1>8. \A c \in Sip!Chosen' : c # o /\ c \in Sip!Chosen /\ numbering'[c] = numbering[c]
      BY <1>7 DEF Sip!Chosen
<1>9. IsHighest(Sip!Highest', proposals')
      BY <1>5, HighestNow
<1> DEFINE G == Sip!Highest'
<1>10. G \in Nat /\ H <= G /\ n <= G /\ (n <= H => G = H) /\ (n = H + 1 => G = H + 1)
  <2>1. PICK top \in Numbered : proposals[top].sip = H
        BY <1>2 DEF IsHighest
  <2>2. PICK next \in Numbered : proposals'[next].sip = G
        BY <1>9 DEF IsHighest
  <2>3. G \in Nat /\ \A q \in Numbered : proposals'[q].sip <= G
        BY <1>9 DEF IsHighest
  <2> HIDE DEF G, H, n
  <2>4. n <= G
        BY <1>1, <1>5, <2>3
  <2>5. H <= G
    <3>1. CASE top = p
          BY <1>1, <2>1, <2>3, <3>1
    <3>2. CASE top # p
          BY <1>5, <2>1, <2>3, <3>2
    <3>. QED BY <3>1, <3>2
  <2>6. G = n \/ G <= H
    <3>1. CASE next = p
          BY <1>5, <2>2, <3>1
    <3>2. CASE next # p
          BY <1>3, <1>5, <2>2, <3>2
    <3>. QED BY <3>1, <3>2
  <2>. QED BY <1>3, <2>3, <2>4, <2>5, <2>6
<1>11. ASSUME NEW m \in 1..G PROVE \E q \in Numbered : proposals'[q].sip = m
  <2> HIDE DEF G, H, n
  <2>1. CASE m \in 1..H
    <3>1. PICK q \in Numbered : proposals[q].sip = m
          BY <2>1 DEF SipInv, H
    <3>2. q # p
          BY <1>1, <2>1, <3>1
    <3>. QED BY <1>5, <3>1, <3>2
  <2>2. CASE m \notin 1..H
    <3>1. m = n
          BY <1>3, <1>10, <2>2
    <3>. QED BY <1>1, <1>5, <3>1
  <2>. QED BY <2>1, <2>2
<1>12. /\ \A c \in Sip!Chosen' : numbering'[c].sip \in 1..(G + 1)
       /\ \A c, d \in Sip!Chosen' : c # d => numbering'[c].proposal \in collided'
       /\ \A c \in Sip!Chosen' :
            numbering'[c].proposal \notin Closers \cup collided' => numbering'[c].sip = G + 1
  <2> SUFFICES ASSUME NEW c \in Sip!Chosen'
               PROVE  numbering'[c].sip \in 1..(G + 1) /\ numbering'[c].proposal \in collided'
      OBVIOUS
  <2>1. numbering[c].sip \in 1..(H + 1) /\ numbering[c].proposal \in collided
        BY <1>1, <1>8 DEF SipInv
  <2> HIDE DEF G, H, n
  <2>2. numbering[c].sip \in 1..(G + 1)
        BY <1>3, <1>10, <2>1
  <2>. QED BY <1>1, <1>8, <2>1, <2>2
<1>13. ASSUME NEW q \in Numbered \ (Closers \cup collided'), NEW r \in Numbered \ (Closers \cup collided'),
              proposals'[q].sip # 0, proposals'[q].sip = proposals'[r].sip
       PROVE  q = r
  <2>1. p \notin Closers \cup collided => n = H + 1
        BY <1>1 DEF SipInv
  <2> HIDE DEF G, H, n, p
  <2>2. CASE q # p /\ r # p
    <3>1. proposals[q].sip # 0 /\ proposals[q].sip = proposals[r].sip
          BY <1>5, <1>13, <2>2
    <3>. QED BY <1>1, <3>1 DEF SipInv
  <2>3. CASE q = p /\ r # p
    <3>1. n = H + 1 /\ proposals'[q].sip = n /\ proposals'[r].sip <= H
          BY <1>1, <1>3, <1>5, <2>1, <2>3
    <3>. QED BY <1>3, <1>13, <3>1
  <2>4. CASE r = p /\ q # p
    <3>1. n = H + 1 /\ proposals'[r].sip = n /\ proposals'[q].sip <= H
          BY <1>1, <1>3, <1>5, <2>1, <2>4
    <3>. QED BY <1>3, <1>13, <3>1
  <2>. QED BY <2>2, <2>3, <2>4
<1>14. \A c \in Openers : numbering'[c].step # "free" => numbering'[c].proposal \in Numbered
      BY <1>7 DEF SipInv
<1>15. proposals'[Made].sip # 0
  <2>1. Made # p
        BY <1>1 DEF SipInv
  <2>. QED BY <1>5, <2>1, SipAssumption DEF SipInv
<1>. QED BY <1>5, <1>7, <1>11, <1>12, <1>13, <1>14, <1>15 DEF SipInv

LEMMA SipStep == SipInv /\ (Sip!Next \/ UNCHANGED sipVars) => SipInv'
<1> SUFFICES ASSUME SipInv, Sip!Next \/ UNCHANGED sipVars PROVE SipInv'
    OBVIOUS
<1>0. proposals \in [Numbered -> Proposal] /\ numbering \in [Openers -> Numbering]
      BY DEF SipInv
<1>1. CASE \E o \in Openers, p \in Numbered : Sip!SetProposalSip(o, p)
  <2>1. PICK o \in Openers, p \in Numbered : Sip!SetProposalSip(o, p)
        BY <1>1
  <2> DEFINE new == [proposal |-> p, step |-> "number", state |-> proposals[p].state, sip |-> 0]
  <2>2. new \in Numbering
        BY <1>0 DEF Numbering, Proposal
  <2>3. new.step = "number" /\ new.proposal = p
        OBVIOUS
  <2>4. numbering' = [numbering EXCEPT ![o] = new] /\ UNCHANGED <<proposals, collided>>
        BY <2>1 DEF Sip!SetProposalSip
  <2> HIDE DEF new
  <2>5. numbering' \in [Openers -> Numbering] /\ numbering'[o] = new
          /\ \A c \in Openers \ {o} : numbering'[c] = numbering[c]
        BY <1>0, <2>2, <2>4
  <2>. QED BY <1>0, <2>3, <2>4, <2>5, SipFrame
<1>2. CASE \E o \in Openers : Sip!ReadNumber(o)
      BY <1>2, SipReads
<1>3. CASE \E o \in Openers : Sip!WriteNumber(o) \/ Sip!Abandon(o)
  <2>1. PICK o \in Openers : Sip!WriteNumber(o) \/ Sip!Abandon(o)
        BY <1>3
  <2>2. CASE Sip!WriteNumber(o) /\ Sip!Unnumbered(numbering[o].proposal, numbering[o].state)
        BY <2>2, SipWrites
  <2>3. CASE UNCHANGED <<proposals, collided>> /\ numbering' = [numbering EXCEPT ![o] = Sip!Free]
    <3>1. Sip!Free \in Numbering /\ Sip!Free.step = "free"
          BY DEF Sip!Free, Numbering
    <3>2. numbering' \in [Openers -> Numbering] /\ numbering'[o].step = "free"
            /\ \A c \in Openers \ {o} : numbering'[c] = numbering[c]
          BY <1>0, <2>3, <3>1
    <3>. QED BY <1>0, <2>3, <3>2, SipFrame
  <2>. QED BY <2>1, <2>2, <2>3 DEF Sip!WriteNumber, Sip!Abandon
<1>4. CASE \E p \in Numbered : Sip!Withdraw(p)
  <2>1. PICK p \in Numbered : Sip!Withdraw(p)
        BY <1>4
  <2> DEFINE old == proposals[p]
             new == [old EXCEPT !.state = "withdrawn"]
  <2>2. proposals' = [proposals EXCEPT ![p] = new] /\ UNCHANGED <<numbering, collided>>
        BY <2>1 DEF Sip!Withdraw
  <2>3. old \in Proposal
        BY <1>0
  <2>4. new \in Proposal /\ new.sip = old.sip
    <3> HIDE DEF old
    <3>. QED BY <2>3 DEF Proposal, Sip!SipStates
  <2> HIDE DEF new
  <2>5. proposals' \in [Numbered -> Proposal] /\ \A q \in Numbered : proposals'[q].sip = proposals[q].sip
        BY <1>0, <2>2, <2>4
  <2>. QED BY <1>0, <2>2, <2>5, SipFrame
<1>5. CASE UNCHANGED sipVars
      BY <1>0, <1>5, SipFrame DEF sipVars
<1>. QED BY <1>1, <1>2, <1>3, <1>4, <1>5 DEF Sip!Next

LEMMA SipHolds == Spec => []SipInv
<1>1. Init => SipInv
      BY SipStart DEF Init
<1>2. SipInv /\ [Next]_vars => SipInv'
      BY SipStep, OneService
<1>. QED BY <1>1, <1>2, PTL DEF Spec

\* The numbers that were given leave no gap, and are shared only by proposals that were
\* numbered at the same time or by one that closes the project of the other, for any
\* number of proposals and processes.
THEOREM SipNumbersAreDense == Spec => []SipsAreDense
<1>1. SipInv => SipsAreDense
      BY DEF SipInv, SipsAreDense, Sip!SipsAreDense
<1>. QED BY <1>1, SipHolds, PTL

----
(* Announcements. *)

NoticeRow == [text : Texts, draft : BOOLEAN, season : 0..MaxSeason, deleted : BOOLEAN]
Edit == [op : {"ready", "save", "publish", "update", "log"}, id : Nat, text : Texts \cup {""},
         season : 0..MaxSeason]

BoardInv ==
    /\ notices \in Seq(NoticeRow) /\ editing \in [Editors -> Edit]
    /\ now \in 1..MaxSeason /\ edits \subseteq DOMAIN notices
    /\ \A e \in Editors : editing[e].id \in {0} \cup DOMAIN notices
    /\ \A e \in Editors : editing[e].op # "ready" => editing[e].id # 0 /\ editing[e].text \in Texts

\* A row of a table is replaced, or added.
LEMMA Replaced ==
    ASSUME NEW S, NEW s \in Seq(S), NEW k \in DOMAIN s, NEW x \in S
    PROVE  /\ [s EXCEPT ![k] = x] \in Seq(S) /\ Len([s EXCEPT ![k] = x]) = Len(s)
           /\ DOMAIN [s EXCEPT ![k] = x] = DOMAIN s
           /\ [s EXCEPT ![k] = x][k] = x /\ \A i \in DOMAIN s \ {k} : [s EXCEPT ![k] = x][i] = s[i]
<1>1. s \in [1..Len(s) -> S] /\ DOMAIN s = 1..Len(s) /\ Len(s) \in Nat
      BY LenProperties
<1> DEFINE t == [s EXCEPT ![k] = x]
<1>2. t \in [1..Len(s) -> S]
      BY <1>1
<1>3. t \in Seq(S)
      BY <1>1, <1>2, IsASeq, SeqDef
<1>4. DOMAIN t = 1..Len(t) /\ DOMAIN t = 1..Len(s) /\ Len(t) \in Nat
      BY <1>2, <1>3, LenProperties
<1>. QED BY <1>1, <1>3, <1>4

LEMMA Added ==
    ASSUME NEW S, NEW s \in Seq(S), NEW x \in S
    PROVE  /\ Append(s, x) \in Seq(S) /\ Len(Append(s, x)) = Len(s) + 1 /\ Len(s) \in Nat
           /\ DOMAIN s = 1..Len(s) /\ DOMAIN Append(s, x) = 1..(Len(s) + 1)
           /\ Append(s, x)[Len(s) + 1] = x /\ \A i \in DOMAIN s : Append(s, x)[i] = s[i]
<1>1. /\ Append(s, x) \in Seq(S) /\ Len(Append(s, x)) = Len(s) + 1
      /\ \A i \in 1..Len(s) : Append(s, x)[i] = s[i]
      /\ Append(s, x)[Len(s) + 1] = x
      BY AppendProperties
<1>2. DOMAIN s = 1..Len(s) /\ Len(s) \in Nat /\ DOMAIN Append(s, x) = 1..Len(Append(s, x))
      BY <1>1, LenProperties
<1>. QED BY <1>1, <1>2

LEMMA BoardStart == Board!Init => BoardInv
<1> SUFFICES ASSUME Board!Init PROVE BoardInv
    OBVIOUS
<1>1. Board!Ready \in Edit /\ Board!Ready.op = "ready" /\ Board!Ready.id = 0
      BY BoardAssumption DEF Board!Ready, Edit
<1>2. editing \in [Editors -> Edit] /\ \A e \in Editors : editing[e] = Board!Ready
      BY <1>1 DEF Board!Init
<1>3. notices \in Seq(NoticeRow) /\ now \in 1..MaxSeason /\ edits = {}
      BY BoardAssumption, EmptySeq DEF Board!Init
<1>. QED BY <1>1, <1>2, <1>3 DEF BoardInv

\* A request begins, goes on or ends; the rows change by ids that stay.
LEMMA BoardFrame ==
    ASSUME BoardInv, notices' \in Seq(NoticeRow), DOMAIN notices \subseteq DOMAIN notices',
           now' \in 1..MaxSeason, edits' \subseteq DOMAIN notices,
           \/ editing' = editing
           \/ \E e \in Editors : \E new \in Edit :
                /\ editing' = [editing EXCEPT ![e] = new]
                /\ new.id \in {0} \cup DOMAIN notices
                /\ new.op # "ready" => new.id # 0 /\ new.text \in Texts
    PROVE  BoardInv'
BY DEF BoardInv

LEMMA BoardKept ==
    ASSUME BoardInv, notices' = notices
    PROVE  Board!KeepsPublished
BY DEF Board!KeepsPublished

\* Rows are added.
LEMMA BoardCreates ==
    ASSUME BoardInv, NEW text \in Texts, Board!CreateDraft(text) \/ Board!CreatePublished(text)
    PROVE  BoardInv' /\ Board!KeepsPublished
<1>1. PICK x \in NoticeRow : notices' = Append(notices, x)
  <2>1. Board!Notice(text, TRUE, 0) \in NoticeRow /\ Board!Notice(text, FALSE, now) \in NoticeRow
        BY BoardAssumption DEF BoardInv, Board!Notice, NoticeRow
  <2>. QED BY <2>1 DEF Board!CreateDraft, Board!CreatePublished
<1>2. UNCHANGED <<editing, now, edits>>
      BY DEF Board!CreateDraft, Board!CreatePublished
<1>3. notices \in Seq(NoticeRow) /\ now \in 1..MaxSeason /\ edits \subseteq DOMAIN notices
      BY DEF BoardInv
<1>4. notices' \in Seq(NoticeRow) /\ DOMAIN notices \subseteq DOMAIN notices'
        /\ \A i \in DOMAIN notices : notices'[i] = notices[i]
      BY <1>1, <1>3, Added
<1>. QED BY <1>2, <1>3, <1>4, BoardFrame DEF Board!KeepsPublished

\* A request looks its row up.
LEMMA BoardBegins ==
    ASSUME BoardInv, NEW e \in Editors, NEW i \in DOMAIN notices, NEW text \in Texts,
           (\E op \in {"save", "publish"} : Board!BeginDraft(e, op, i, text)) \/ Board!BeginUpdate(e, i, text)
    PROVE  BoardInv' /\ Board!KeepsPublished
<1>1. PICK op \in {"save", "publish", "update"} :
        /\ editing' = [editing EXCEPT ![e] = [op |-> op, id |-> i, text |-> text, season |-> now]]
        /\ UNCHANGED <<notices, now, edits>>
      BY DEF Board!BeginDraft, Board!BeginUpdate
<1> DEFINE new == [op |-> op, id |-> i, text |-> text, season |-> now]
<1>2. i \in Nat /\ i # 0 /\ now \in 0..MaxSeason /\ now \in 1..MaxSeason /\ edits \subseteq DOMAIN notices
        /\ notices \in Seq(NoticeRow)
  <2>1. DOMAIN notices = 1..Len(notices) /\ Len(notices) \in Nat
        BY LenProperties DEF BoardInv
  <2>. QED BY <2>1, BoardAssumption DEF BoardInv
<1>3. new \in Edit
      BY <1>2 DEF Edit
<1>4. new.id = i /\ new.op # "ready" /\ new.text = text
      OBVIOUS
<1> HIDE DEF new
<1>5. editing' = [editing EXCEPT ![e] = new]
      BY <1>1 DEF new
<1>. QED BY <1>1, <1>2, <1>3, <1>4, <1>5, BoardFrame, BoardKept

\* A request changes its row, or leaves it.
LEMMA BoardWrites ==
    ASSUME BoardInv, NEW e \in Editors,
           Board!SaveDraft(e) \/ Board!Publish(e) \/ Board!Update(e) \/ Board!LogEdit(e) \/ Board!Fail(e)
    PROVE  BoardInv' /\ Board!KeepsPublished
<1> DEFINE k == editing[e].id
           old == notices[k]
<1>0. notices \in Seq(NoticeRow) /\ now' = now /\ now \in 1..MaxSeason /\ edits \subseteq DOMAIN notices
        /\ editing \in [Editors -> Edit] /\ editing[e] \in Edit /\ k \in {0} \cup DOMAIN notices
      BY DEF BoardInv, Board!SaveDraft, Board!Publish, Board!Update, Board!LogEdit, Board!Fail
<1>1. Board!Ready \in Edit /\ Board!Ready.op = "ready" /\ Board!Ready.id = 0
      BY BoardAssumption DEF Board!Ready, Edit
<1>2. k # 0 => k \in DOMAIN notices /\ old \in NoticeRow
  <2>1. DOMAIN notices = 1..Len(notices) /\ \A j \in 1..Len(notices) : notices[j] \in NoticeRow
        BY <1>0, LenProperties, ElementOfSeq
  <2>. QED BY <1>0, <2>1
<1>3. CASE notices' = notices
  <2>1. editing' = [editing EXCEPT ![e] = Board!Ready] \/ Board!Update(e)
        BY DEF Board!SaveDraft, Board!Publish, Board!LogEdit, Board!Fail
  <2>2. edits' \subseteq DOMAIN notices
    <3>1. CASE Board!LogEdit(e)
      <4>1. k \in DOMAIN notices
            BY <1>2, <3>1 DEF BoardInv, Board!LogEdit
      <4>. QED BY <1>0, <3>1, <4>1 DEF Board!LogEdit
    <3>2. CASE ~Board!LogEdit(e)
          BY <1>0, <3>2 DEF Board!SaveDraft, Board!Publish, Board!Update, Board!Fail
    <3>. QED BY <3>1, <3>2
  <2>3. CASE editing' = [editing EXCEPT ![e] = Board!Ready]
        BY <1>0, <1>1, <1>3, <2>2, <2>3, BoardFrame, BoardKept
  <2>4. CASE Board!Update(e)
    <3> DEFINE new == [editing[e] EXCEPT !.op = "log"]
    <3>1. new \in Edit /\ new.id = k /\ new.op = "log" /\ new.text = editing[e].text
      <4> DEFINE was == editing[e]
      <4>1. was \in Edit /\ new = [was EXCEPT !.op = "log"] /\ k = was.id
            BY <1>0
      <4> HIDE DEF was, new, k
      <4>2. new \in Edit /\ new.id = k /\ new.op = "log" /\ new.text = was.text
            BY <4>1 DEF Edit
      <4>. QED BY <4>2 DEF was
    <3>2. editing[e].op = "update" /\ editing' = [editing EXCEPT ![e] = new]
          BY <2>4 DEF Board!Update
    <3>3. k # 0 /\ editing[e].text \in Texts
          BY <3>2 DEF BoardInv
    <3> HIDE DEF new
    <3>. QED BY <1>0, <1>3, <2>2, <3>1, <3>2, <3>3, BoardFrame, BoardKept
  <2>. QED BY <2>1, <2>3, <2>4
<1>4. CASE (Board!SaveDraft(e) \/ Board!Publish(e)) /\ notices' # notices
  <2>1. k # 0 /\ editing[e].text \in Texts /\ Board!IsDraft(k)
        BY <1>4 DEF Board!SaveDraft, Board!Publish, Board!StillDraft, BoardInv
  <2>2. PICK x \in NoticeRow : notices' = [notices EXCEPT ![k] = x]
    <3>1. CASE Board!SaveDraft(e)
      <4> DEFINE x == [old EXCEPT !.text = editing[e].text]
      <4>1. notices' = [notices EXCEPT ![k] = x]
            BY <1>4, <3>1 DEF Board!SaveDraft
      <4>2. x \in NoticeRow
        <5> HIDE DEF old
        <5>. QED BY <1>2, <2>1 DEF NoticeRow
      <4>. QED BY <4>1, <4>2
    <3>2. CASE Board!Publish(e)
      <4>1. notices' = [notices EXCEPT ![k] = Board!Notice(editing[e].text, FALSE, editing[e].season)]
            BY <1>4, <3>2 DEF Board!Publish
      <4>2. editing[e].season \in 0..MaxSeason
            BY <1>0 DEF Edit
      <4>3. Board!Notice(editing[e].text, FALSE, editing[e].season) \in NoticeRow
            BY <2>1, <4>2 DEF Board!Notice, NoticeRow
      <4>. QED BY <4>1, <4>3
    <3>. QED BY <1>4, <3>1, <3>2
  <2>3. /\ notices' \in Seq(NoticeRow) /\ DOMAIN notices' = DOMAIN notices
        /\ \A i \in DOMAIN notices \ {k} : notices'[i] = notices[i]
        BY <1>0, <1>2, <2>1, <2>2, Replaced
  <2>4. Board!KeepsPublished
        BY <2>1, <2>3 DEF Board!KeepsPublished, Board!IsDraft
  <2>5. editing' = [editing EXCEPT ![e] = Board!Ready] /\ edits' = edits
        BY <1>4 DEF Board!SaveDraft, Board!Publish
  <2>. QED BY <1>0, <1>1, <2>3, <2>4, <2>5, BoardFrame
<1>5. CASE Board!Update(e) /\ notices' # notices
  <2> DEFINE x == [old EXCEPT !.text = editing[e].text]
             new == [editing[e] EXCEPT !.op = "log"]
  <2>1. editing[e].op = "update" /\ k # 0 /\ editing[e].text \in Texts
        BY <1>5 DEF Board!Update, BoardInv
  <2>2. notices' = [notices EXCEPT ![k] = x] /\ editing' = [editing EXCEPT ![e] = new] /\ edits' = edits
        BY <1>5 DEF Board!Update
  <2>3. x \in NoticeRow /\ x.draft = old.draft /\ x.season = old.season /\ x.deleted = old.deleted
    <3> HIDE DEF old
    <3>. QED BY <1>2, <2>1 DEF NoticeRow
  <2>4. new \in Edit /\ new.id = k /\ new.op = "log" /\ new.text = editing[e].text
    <3> DEFINE was == editing[e]
    <3>1. was \in Edit /\ new = [was EXCEPT !.op = "log"] /\ k = was.id
          BY <1>0
    <3> HIDE DEF was, new, k
    <3>2. new \in Edit /\ new.id = k /\ new.op = "log" /\ new.text = was.text
          BY <3>1 DEF Edit
    <3>. QED BY <3>2 DEF was
  <2> HIDE DEF x, new
  <2>5. /\ notices' \in Seq(NoticeRow) /\ DOMAIN notices' = DOMAIN notices /\ notices'[k] = x
        /\ \A i \in DOMAIN notices \ {k} : notices'[i] = notices[i]
        BY <1>0, <1>2, <2>1, <2>2, <2>3, Replaced
  <2>6. editing'[e].op = "log"
        BY <1>0, <2>2, <2>4
  <2>7. Board!KeepsPublished
        BY <2>1, <2>3, <2>5, <2>6 DEF Board!KeepsPublished
  <2>. QED BY <1>0, <2>1, <2>2, <2>4, <2>5, <2>7, BoardFrame
<1>6. Board!LogEdit(e) \/ Board!Fail(e) => notices' = notices
      BY DEF Board!LogEdit, Board!Fail
<1>. QED BY <1>3, <1>4, <1>5, <1>6

LEMMA BoardDeletes ==
    ASSUME BoardInv, NEW k \in DOMAIN notices, Board!Delete(k)
    PROVE  BoardInv' /\ Board!KeepsPublished
<1> DEFINE old == notices[k]
           x == [old EXCEPT !.deleted = TRUE]
<1>1. notices \in Seq(NoticeRow) /\ now \in 1..MaxSeason /\ edits \subseteq DOMAIN notices
      BY DEF BoardInv
<1>2. old \in NoticeRow
  <2>1. DOMAIN notices = 1..Len(notices) /\ \A j \in 1..Len(notices) : notices[j] \in NoticeRow
        BY <1>1, LenProperties, ElementOfSeq
  <2>. QED BY <2>1
<1>3. x \in NoticeRow /\ x.draft = old.draft /\ x.season = old.season /\ x.text = old.text
  <2> HIDE DEF old
  <2>. QED BY <1>2 DEF NoticeRow
<1>4. notices' = [notices EXCEPT ![k] = x] /\ UNCHANGED <<editing, now, edits>> /\ ~old.deleted
      BY DEF Board!Delete
<1> HIDE DEF x
<1>5. /\ notices' \in Seq(NoticeRow) /\ DOMAIN notices' = DOMAIN notices /\ notices'[k] = x
      /\ \A i \in DOMAIN notices \ {k} : notices'[i] = notices[i]
      BY <1>1, <1>3, <1>4, Replaced
<1>6. Board!KeepsPublished
      BY <1>3, <1>4, <1>5 DEF Board!KeepsPublished
<1>. QED BY <1>1, <1>4, <1>5, <1>6, BoardFrame

LEMMA BoardStep ==
    BoardInv /\ (Board!Next \/ UNCHANGED boardVars) => BoardInv' /\ Board!KeepsPublished
<1> SUFFICES ASSUME BoardInv, Board!Next \/ UNCHANGED boardVars
             PROVE  BoardInv' /\ Board!KeepsPublished
    OBVIOUS
<1>0. notices \in Seq(NoticeRow) /\ now \in 1..MaxSeason /\ edits \subseteq DOMAIN notices
      BY DEF BoardInv
<1>1. CASE Board!NextSeason
  <2>1. now' \in 1..MaxSeason /\ UNCHANGED <<notices, editing, edits>>
        BY <1>0, <1>1, BoardAssumption DEF Board!NextSeason
  <2>. QED BY <1>0, <2>1, BoardFrame, BoardKept
<1>2. CASE UNCHANGED boardVars
      BY <1>0, <1>2, BoardFrame, BoardKept DEF boardVars
<1>. QED BY <1>1, <1>2, BoardCreates, BoardBegins, BoardWrites, BoardDeletes DEF Board!Next

LEMMA BoardHolds == Spec => []BoardInv
<1>1. Init => BoardInv
      BY BoardStart DEF Init
<1>2. BoardInv /\ [Next]_vars => BoardInv'
      BY BoardStep, OneService
<1>. QED BY <1>1, <1>2, PTL DEF Spec

\* A published announcement stays published in its season and changes by an edit of it
\* alone, and one that was deleted stays so: no step of a request that looked its row up
\* before does otherwise.
THEOREM PublishedStaysFrozen == Spec => PublishedIsFrozen
<1>1. BoardInv /\ [Next]_vars => [Board!KeepsPublished]_boardVars
      BY BoardStep, OneService
<1>. QED BY <1>1, BoardHolds, PTL DEF Spec, PublishedIsFrozen

----
(* Invitations. *)

InviteRow == [invitee : Invitees, inviter : Inviters, verified : BOOLEAN]
OpenRow == {r \in InviteRow : ~r.verified}
Reward == [inviter : Inviters, invitee : Invitees]

IsRow(i, w) == i \in DOMAIN invites /\ invites[i].invitee = w
IsPaid(i, w) == i \in DOMAIN rewards /\ rewards[i].invitee = w
IsPost(p, w) == posts[p] # Sns!NoPost /\ posts[p].row.invitee = w
IsEntry(s, i, w) == i \in DOMAIN sweeps[s] /\ sweeps[s][i].invitee = w
IsSweep(s, w) == \E i \in DOMAIN sweeps[s] : sweeps[s][i].invitee = w

\* A request is about to save a row that is not verified, over the row it found; a run has
\* rows to handle that were not verified.
PostTypes ==
    \A p \in Posters : posts[p] # Sns!NoPost =>
        /\ posts[p].row \in OpenRow
        /\ posts[p].id # 0 => IsRow(posts[p].id, posts[p].row.invitee)
SweepTypes ==
    /\ sweeps \in [Sweepers -> Seq(OpenRow)]
    /\ \A s \in Sweepers, w \in Invitees : IsSweep(s, w) => \E i : IsRow(i, w)
SnsTypes ==
    /\ invites \in Seq(InviteRow) /\ rewards \in Seq(Reward) /\ mixed \subseteq Invitees
    /\ DOMAIN posts = Posters
    /\ PostTypes /\ SweepTypes

\* A verified row was paid for, and what was paid for has a row.
PaidRows(w) ==
    /\ \A i : IsRow(i, w) /\ invites[i].verified => \E k : IsPaid(k, w)
    /\ (\E k : IsPaid(k, w)) => \E i : IsRow(i, w)

\* Of whom no operations overlapped: one row, one reward, one operation at a time, and
\* that on a row that is not paid for.
OneRow(w) == \A i, j : IsRow(i, w) /\ IsRow(j, w) => i = j
OneReward(w) ==
    /\ \A i, j : IsPaid(i, w) /\ IsPaid(j, w) => i = j
    /\ (\E k : IsPaid(k, w)) => \A i : IsRow(i, w) => invites[i].verified
OneOperation(w) ==
    /\ \A p, q \in Posters : IsPost(p, w) /\ IsPost(q, w) => p = q
    /\ \A s, t \in Sweepers : IsSweep(s, w) /\ IsSweep(t, w) => s = t
    /\ \A p \in Posters, s \in Sweepers : ~(IsPost(p, w) /\ IsSweep(s, w))
OnUnpaidRow(w) ==
    /\ \A p \in Posters : IsPost(p, w) =>
         /\ \A k : ~IsPaid(k, w)
         /\ posts[p].id = 0 => \A i : ~IsRow(i, w)
    /\ \A s \in Sweepers : IsSweep(s, w) =>
         /\ \A k : ~IsPaid(k, w)
         /\ \A i, j : IsEntry(s, i, w) /\ IsEntry(s, j, w) => i = j
Apart(w) == OneRow(w) /\ OneReward(w) /\ OneOperation(w) /\ OnUnpaidRow(w)

SnsInv ==
    /\ SnsTypes
    /\ \A w \in Invitees : PaidRows(w)
    /\ \A w \in Invitees \ mixed : Apart(w)

\* The empty sequence is no row.
LEMMA RowIsSome == \A r \in InviteRow : r # << >>
<1> SUFFICES ASSUME NEW r \in InviteRow, r = << >> PROVE FALSE
    OBVIOUS
<1>1. "invitee" \in DOMAIN r
      BY DEF InviteRow
<1>2. DOMAIN << >> = {}
      OBVIOUS
<1>. QED BY <1>1, <1>2

\* The sets of Invites, in the words of the invariant.
LEMMA InUseOf ==
    ASSUME SnsTypes, NEW w \in Invitees
    PROVE  w \in Sns!InUse <=> (\E p \in Posters : IsPost(p, w)) \/ (\E s \in Sweepers : IsSweep(s, w))
<1>1. \A p \in Posters : posts[p] # Sns!NoPost => posts[p].row # << >>
      BY RowIsSome DEF SnsTypes, PostTypes, OpenRow
<1>2. Sns!NoPost.row = << >>
      BY DEF Sns!NoPost
<1>3. \A p \in Posters : p \in Sns!Posting(w) <=> IsPost(p, w)
      BY <1>1, <1>2 DEF Sns!Posting, IsPost
<1>4. \A s \in Sweepers : s \in Sns!Sweeping(w) <=> IsSweep(s, w)
      BY DEF Sns!Sweeping, IsSweep
<1>5. Sns!Posting(w) \subseteq Posters /\ Sns!Sweeping(w) \subseteq Sweepers
      BY DEF Sns!Posting, Sns!Sweeping
<1>. QED BY <1>3, <1>4, <1>5 DEF Sns!InUse

LEMMA SnsStart == Sns!Init => SnsInv
<1> SUFFICES ASSUME Sns!Init PROVE SnsInv
    OBVIOUS
<1>1. \A S : << >> \in Seq(S) /\ DOMAIN << >> = {}
      OBVIOUS
<1>2. /\ invites = << >> /\ rewards = << >> /\ mixed = {} /\ DOMAIN posts = Posters
      /\ \A p \in Posters : posts[p] = Sns!NoPost
      /\ sweeps \in [Sweepers -> Seq(OpenRow)] /\ \A s \in Sweepers : sweeps[s] = << >>
      BY <1>1 DEF Sns!Init
<1>3. /\ \A i, w : ~IsRow(i, w) /\ ~IsPaid(i, w)
      /\ \A p \in Posters : \A w : ~IsPost(p, w)
      /\ \A s \in Sweepers : \A w : ~IsSweep(s, w)
      BY <1>1, <1>2 DEF IsRow, IsPaid, IsPost, IsSweep
<1>4. SnsTypes
      BY <1>1, <1>2, <1>3 DEF SnsTypes, PostTypes, SweepTypes
<1>5. \A w \in Invitees : PaidRows(w) /\ Apart(w)
      BY <1>3 DEF PaidRows, Apart, OneRow, OneReward, OneOperation, OnUnpaidRow
<1>. QED BY <1>4, <1>5 DEF SnsInv

\* A request finds the row it will save, or none.
LEMMA SnsFinds ==
    ASSUME SnsInv, NEW p \in Posters, NEW w \in Invitees, NEW inviter \in Inviters,
           Sns!FindInvite(p, w, inviter)
    PROVE  SnsInv'
<1> DEFINE found == [invitee |-> w, inviter |-> inviter, verified |-> FALSE]
<1>0. SnsTypes /\ posts[p] = Sns!NoPost
      BY DEF SnsInv, Sns!FindInvite
<1>1. /\ UNCHANGED <<invites, rewards, sweeps>>
      /\ mixed' = mixed \cup ({w} \cap Sns!InUse)
      BY DEF Sns!FindInvite
<1>2. PICK id : /\ posts' = [posts EXCEPT ![p] = [id |-> id, row |-> found]]
                /\ \/ id = 0 /\ \A i : ~IsRow(i, w)
                   \/ IsRow(id, w) /\ ~invites[id].verified
  <2>1. CASE Sns!RowsFor(w) = {} /\ posts' = [posts EXCEPT ![p] = [id |-> 0, row |-> found]]
        BY <2>1 DEF Sns!RowsFor, IsRow
  <2>2. CASE \E i \in Sns!RowsFor(w) : /\ ~invites[i].verified
                                       /\ posts' = [posts EXCEPT ![p] = [id |-> i, row |-> found]]
        BY <2>2 DEF Sns!RowsFor, IsRow
  <2>. QED BY <2>1, <2>2 DEF Sns!FindInvite
<1>3. found \in OpenRow /\ found.invitee = w
      BY DEF OpenRow, InviteRow
<1> DEFINE post == [id |-> id, row |-> found]
<1>4. post.id = id /\ post.row = found
      OBVIOUS
<1>5. post # Sns!NoPost
  <2>1. found # << >> /\ Sns!NoPost.row = << >>
        BY <1>3, RowIsSome DEF OpenRow, Sns!NoPost
  <2>. QED BY <1>4, <2>1
<1> HIDE DEF found
<1>6. DOMAIN posts' = Posters /\ posts'[p] = post /\ \A q \in Posters \ {p} : posts'[q] = posts[q]
      BY <1>0, <1>2 DEF SnsTypes
<1> HIDE DEF post
<1>7. /\ \A q \in Posters : \A x : IsPost(q, x)' <=> IsPost(q, x) \/ (q = p /\ x = w)
      /\ \A i, x : (IsRow(i, x)' <=> IsRow(i, x)) /\ (IsPaid(i, x)' <=> IsPaid(i, x))
      /\ \A s, i, x : (IsEntry(s, i, x)' <=> IsEntry(s, i, x)) /\ (IsSweep(s, x)' <=> IsSweep(s, x))
  <2>1. Sns!NoPost' = Sns!NoPost
        BY DEF Sns!NoPost
  <2>2. \A q \in Posters : \A x : IsPost(q, x)' <=> IsPost(q, x) \/ (q = p /\ x = w)
        BY <1>0, <1>3, <1>4, <1>5, <1>6, <2>1 DEF IsPost
  <2>. QED BY <1>1, <2>2 DEF IsRow, IsPaid, IsEntry, IsSweep
<1>8. SnsTypes'
  <2>1. PostTypes'
        BY <1>0, <1>1, <1>2, <1>3, <1>4, <1>6, <1>7 DEF SnsTypes, PostTypes, Sns!NoPost
  <2>2. SweepTypes'
        BY <1>0, <1>1, <1>7 DEF SnsTypes, SweepTypes
  <2>. QED BY <1>0, <1>1, <1>6, <2>1, <2>2 DEF SnsTypes
<1>9. \A x \in Invitees : PaidRows(x)'
      BY <1>1, <1>7 DEF SnsInv, PaidRows
<1>10. ASSUME NEW x \in Invitees, x \notin mixed' PROVE Apart(x)'
  <2>1. Apart(x)
        BY <1>1, <1>10 DEF SnsInv
  <2>2. x = w => /\ \A q \in Posters : ~IsPost(q, w)
                 /\ \A s \in Sweepers : ~IsSweep(s, w)
        BY <1>0, <1>1, <1>10, InUseOf
  <2>3. OneRow(x)' /\ OneReward(x)'
        BY <1>1, <1>7, <2>1 DEF Apart, OneRow, OneReward
  <2>4. OneOperation(x)'
        BY <1>7, <2>1, <2>2 DEF Apart, OneOperation
  <2>5. x = w => \A k : ~IsPaid(k, w)
        BY <1>2, <2>1 DEF SnsInv, PaidRows, Apart, OneReward
  <2>6. OnUnpaidRow(x)'
    <3>1. \A s \in Sweepers : IsSweep(s, x)' =>
             /\ \A k : ~IsPaid(k, x)'
             /\ \A i, j : IsEntry(s, i, x)' /\ IsEntry(s, j, x)' => i = j
          BY <1>7, <2>1 DEF Apart, OnUnpaidRow
    <3>2. ASSUME NEW q \in Posters, IsPost(q, x)'
          PROVE  /\ \A k : ~IsPaid(k, x)'
                 /\ posts'[q].id = 0 => \A i : ~IsRow(i, x)'
      <4>1. CASE q = p
        <5>1. x = w
              BY <1>0, <1>7, <3>2, <4>1 DEF IsPost
        <5>2. id = 0 => \A i : ~IsRow(i, x)
          <6>1. \A i : IsRow(i, w) => i # 0
            <7>1. DOMAIN invites = 1..Len(invites)
                  BY <1>0, LenProperties DEF SnsTypes
            <7>. QED BY <7>1 DEF IsRow
          <6>. QED BY <1>2, <5>1, <6>1
        <5>. QED BY <1>4, <1>6, <1>7, <2>5, <4>1, <5>1, <5>2
      <4>2. CASE q # p
            BY <1>6, <1>7, <2>1, <3>2, <4>2 DEF Apart, OnUnpaidRow
      <4>. QED BY <4>1, <4>2
    <3>. QED BY <3>1, <3>2 DEF OnUnpaidRow
  <2>. QED BY <2>3, <2>4, <2>6 DEF Apart
<1>. QED BY <1>8, <1>9, <1>10 DEF SnsInv

\* A request saves its row: a new one, or over the row it found.
LEMMA SnsSaves ==
    ASSUME SnsInv, NEW p \in Posters, Sns!SaveInvite(p)
    PROVE  SnsInv'
<1> DEFINE new == posts[p].row
           id == posts[p].id
           w == new.invitee
<1>0. /\ SnsTypes /\ posts[p] # Sns!NoPost /\ UNCHANGED <<rewards, sweeps, mixed>>
      /\ posts' = [posts EXCEPT ![p] = Sns!NoPost]
      BY DEF SnsInv, Sns!SaveInvite
<1>1. /\ new \in InviteRow /\ ~new.verified /\ w \in Invitees /\ IsPost(p, w)
      /\ id # 0 => IsRow(id, w)
      BY <1>0 DEF SnsTypes, PostTypes, IsPost, OpenRow, InviteRow
<1>2. invites' = IF id = 0 THEN Append(invites, new) ELSE [invites EXCEPT ![id] = new]
      BY DEF Sns!SaveInvite
<1>3. /\ DOMAIN posts' = Posters /\ posts'[p] = Sns!NoPost
      /\ \A q \in Posters \ {p} : posts'[q] = posts[q]
      BY <1>0 DEF SnsTypes
<1>4. /\ \A q \in Posters : \A x : IsPost(q, x)' <=> IsPost(q, x) /\ q # p
      /\ \A i, x : IsPaid(i, x)' <=> IsPaid(i, x)
      /\ \A s, i, x : (IsEntry(s, i, x)' <=> IsEntry(s, i, x)) /\ (IsSweep(s, x)' <=> IsSweep(s, x))
  <2>1. Sns!NoPost' = Sns!NoPost
        BY DEF Sns!NoPost
  <2>. QED BY <1>0, <1>3, <2>1 DEF IsPaid, IsEntry, IsSweep, IsPost
<1> HIDE DEF new, id
<1>5. /\ invites' \in Seq(InviteRow)
      /\ \A i, x : IsRow(i, x) => IsRow(i, x)'
      /\ \A i, x : IsRow(i, x)' => IsRow(i, x) \/ (id = 0 /\ x = w /\ i = Len(invites) + 1)
      /\ \A i, x : IsRow(i, x)' /\ invites'[i].verified => IsRow(i, x) /\ invites[i].verified
      /\ \A i, x : IsRow(i, x)' /\ x # w => invites'[i].verified = invites[i].verified
  <2>0. invites \in Seq(InviteRow)
        BY <1>0 DEF SnsTypes
  <2>1. CASE id = 0
    <3>1. /\ invites' \in Seq(InviteRow) /\ DOMAIN invites = 1..Len(invites) /\ Len(invites) \in Nat
          /\ DOMAIN invites' = 1..(Len(invites) + 1) /\ invites'[Len(invites) + 1] = new
          /\ \A i \in DOMAIN invites : invites'[i] = invites[i]
          BY <1>1, <1>2, <2>0, <2>1, Added
    <3>. QED BY <1>1, <2>1, <3>1 DEF IsRow
  <2>2. CASE id # 0
    <3>1. id \in DOMAIN invites /\ invites[id].invitee = w
          BY <1>1, <2>2 DEF IsRow
    <3>2. /\ invites' \in Seq(InviteRow) /\ DOMAIN invites' = DOMAIN invites
          /\ invites'[id] = new /\ \A i \in DOMAIN invites \ {id} : invites'[i] = invites[i]
          BY <1>1, <1>2, <2>0, <2>2, <3>1, Replaced
    <3>. QED BY <1>1, <3>1, <3>2 DEF IsRow
  <2>. QED BY <2>1, <2>2
<1> HIDE DEF w
<1>6. SnsTypes'
  <2>1. PostTypes'
    <3>1. Sns!NoPost' = Sns!NoPost
          BY DEF Sns!NoPost
    <3>. QED BY <1>0, <1>3, <1>5, <3>1 DEF SnsTypes, PostTypes
  <2>2. SweepTypes'
        BY <1>0, <1>4, <1>5 DEF SnsTypes, SweepTypes
  <2>. QED BY <1>0, <1>3, <1>5, <2>1, <2>2 DEF SnsTypes
<1>7. \A x \in Invitees : PaidRows(x)'
      BY <1>4, <1>5 DEF SnsInv, PaidRows
<1>8. ASSUME NEW x \in Invitees, x \notin mixed' PROVE Apart(x)'
  <2>1. Apart(x)
        BY <1>0, <1>8 DEF SnsInv
  <2>2. x = w => /\ \A k : ~IsPaid(k, x)
                 /\ id = 0 => \A i : ~IsRow(i, x)
                 /\ \A q \in Posters : IsPost(q, x) => q = p
                 /\ \A s \in Sweepers : ~IsSweep(s, x)
        BY <1>1, <2>1 DEF Apart, OneOperation, OnUnpaidRow, id
  <2>3. OneRow(x)'
        BY <1>5, <2>1, <2>2 DEF Apart, OneRow
  <2>4. OneReward(x)'
        BY <1>4, <1>5, <2>1, <2>2 DEF Apart, OneReward
  <2>5. OneOperation(x)'
        BY <1>4, <2>1 DEF Apart, OneOperation
  <2>6. OnUnpaidRow(x)'
    <3>1. \A q \in Posters : IsPost(q, x)' => IsPost(q, x) /\ posts'[q] = posts[q] /\ x # w
          BY <1>3, <1>4, <2>2
    <3>2. \A i : x # w /\ IsRow(i, x)' => IsRow(i, x)
          BY <1>5
    <3>. QED BY <1>4, <2>1, <3>1, <3>2 DEF Apart, OnUnpaidRow
  <2>. QED BY <2>3, <2>4, <2>5, <2>6 DEF Apart
<1>. QED BY <1>6, <1>7, <1>8 DEF SnsInv

\* The rows a run starts with.
LEMMA UnverifiedRows ==
    ASSUME SnsTypes
    PROVE  /\ Sns!Unverified \in Seq(OpenRow)
           /\ \A i \in DOMAIN Sns!Unverified : \E k \in DOMAIN invites :
                /\ ~invites[k].verified /\ invites[k] = Sns!Unverified[i]
           /\ \A w : OneRow(w) =>
                \A i, j \in DOMAIN Sns!Unverified :
                  Sns!Unverified[i].invitee = w /\ Sns!Unverified[j].invitee = w => i = j
<1> DEFINE done == {r \in Range(invites) : r.verified}
           open == Kept(invites, done)
<1>1. Sns!Unverified = open
      BY DEF Sns!Unverified, Sns!Range, Sns!FoldLeft, Sns!MapThenFoldSet, Sns!Max,
             Kept, Range, FoldLeft, MapThenFoldSet, Max
<1> HIDE DEF done
<1>2. /\ open \in Seq(InviteRow) /\ Range(open) = Range(invites) \ done
      /\ \A T : (\A i, j \in DOMAIN invites : invites[i] \in T /\ invites[j] \in T => i = j) =>
           \A i, j \in DOMAIN open : open[i] \in T /\ open[j] \in T => i = j
      BY KeptIsLeft DEF SnsTypes
<1> HIDE DEF open
<1>3. /\ \A i \in DOMAIN open : open[i] \in Range(invites) /\ ~open[i].verified
      BY <1>2 DEF Range, done
<1>4. \A i \in DOMAIN open : \E k \in DOMAIN invites : ~invites[k].verified /\ invites[k] = open[i]
      BY <1>3 DEF Range
<1>5. open \in Seq(OpenRow)
  <2>1. DOMAIN open = 1..Len(open) /\ Len(open) \in Nat /\ \A i \in 1..Len(open) : open[i] \in InviteRow
        BY <1>2, LenProperties, ElementOfSeq
  <2>2. open \in [1..Len(open) -> OpenRow]
    <3>1. open \in [1..Len(open) -> InviteRow]
          BY <1>2, LenProperties
    <3>. QED BY <1>3, <2>1, <3>1 DEF OpenRow
  <2>. QED BY <2>1, <2>2, IsASeq
<1>6. ASSUME NEW w, OneRow(w), NEW i \in DOMAIN open, NEW j \in DOMAIN open,
             open[i].invitee = w, open[j].invitee = w
      PROVE  i = j
  <2> DEFINE T == {r \in InviteRow : r.invitee = w}
  <2>1. \A k, l \in DOMAIN invites : invites[k] \in T /\ invites[l] \in T => k = l
        BY <1>6 DEF OneRow, IsRow
  <2>2. open[i] \in T /\ open[j] \in T
        BY <1>5, <1>6, LenProperties, ElementOfSeq DEF OpenRow
  <2> HIDE DEF T
  <2>. QED BY <1>2, <2>1, <2>2
<1>. QED BY <1>1, <1>4, <1>5, <1>6

\* A run of the job reads the rows that are not verified.
LEMMA SnsStarts ==
    ASSUME SnsInv, NEW s \in Sweepers, Sns!StartSweep(s)
    PROVE  SnsInv'
<1> DEFINE open == Sns!Unverified
<1>0. /\ SnsTypes /\ UNCHANGED <<invites, rewards, posts>> /\ sweeps[s] = << >>
      /\ sweeps' = [sweeps EXCEPT ![s] = open]
      /\ mixed' = mixed \cup (Sns!InUse \cap {r.invitee : r \in Range(open)})
  <2>1. Sns!Range(open) = Range(open)
        BY DEF Sns!Range, Range
  <2>. QED BY <2>1 DEF SnsInv, Sns!StartSweep
<1>1. /\ open \in Seq(OpenRow)
      /\ \A i \in DOMAIN open : \E k \in DOMAIN invites : ~invites[k].verified /\ invites[k] = open[i]
      /\ \A w : OneRow(w) =>
           \A i, j \in DOMAIN open : open[i].invitee = w /\ open[j].invitee = w => i = j
      BY <1>0, UnverifiedRows
<1> HIDE DEF open
<1>2. /\ sweeps' \in [Sweepers -> Seq(OpenRow)] /\ sweeps'[s] = open
      /\ \A t \in Sweepers \ {s} : sweeps'[t] = sweeps[t]
      BY <1>0, <1>1 DEF SnsTypes, SweepTypes
<1>3. /\ \A q \in Posters : \A x : IsPost(q, x)' <=> IsPost(q, x)
      /\ \A i, x : (IsRow(i, x)' <=> IsRow(i, x)) /\ (IsPaid(i, x)' <=> IsPaid(i, x))
      /\ \A t \in Sweepers \ {s} : \A i, x : IsEntry(t, i, x)' <=> IsEntry(t, i, x)
      /\ \A t \in Sweepers \ {s} : \A x : IsSweep(t, x)' <=> IsSweep(t, x)
  <2>1. Sns!NoPost' = Sns!NoPost
        BY DEF Sns!NoPost
  <2>. QED BY <1>0, <1>2, <2>1 DEF IsPost, IsRow, IsPaid, IsEntry, IsSweep
<1>4. ASSUME NEW x, IsSweep(s, x)'
      PROVE  /\ \E k : IsRow(k, x) /\ ~invites[k].verified
             /\ x \in Sns!InUse => x \in mixed'
  <2>1. PICK i \in DOMAIN open : open[i].invitee = x
        BY <1>2, <1>4 DEF IsSweep
  <2>2. open[i] \in Range(open)
        BY DEF Range
  <2>. QED BY <1>0, <1>1, <2>1, <2>2 DEF IsRow
<1>5. SnsTypes'
  <2>1. PostTypes'
    <3>1. Sns!NoPost' = Sns!NoPost
          BY DEF Sns!NoPost
    <3>. QED BY <1>0, <1>3, <3>1 DEF SnsTypes, PostTypes
  <2>2. \A t \in Sweepers : \A x \in Invitees : IsSweep(t, x)' => \E i : IsRow(i, x)'
    <3>1. SUFFICES ASSUME NEW t \in Sweepers, NEW x \in Invitees, IsSweep(t, x)'
                   PROVE  \E i : IsRow(i, x)'
          OBVIOUS
    <3>2. CASE t = s
          BY <1>3, <1>4, <3>1, <3>2
    <3>3. CASE t # s
          BY <1>0, <1>3, <3>1, <3>3 DEF SnsTypes, SweepTypes
    <3>. QED BY <3>2, <3>3
  <2>3. mixed' \subseteq Invitees
    <3>1. Sns!InUse \subseteq Invitees
          BY DEF Sns!InUse
    <3>. QED BY <1>0, <3>1 DEF SnsTypes
  <2>. QED BY <1>0, <1>2, <2>1, <2>2, <2>3 DEF SnsTypes, SweepTypes
<1>6. \A x \in Invitees : PaidRows(x)'
      BY <1>0, <1>3 DEF SnsInv, PaidRows
<1>7. ASSUME NEW x \in Invitees, x \notin mixed' PROVE Apart(x)'
  <2>1. Apart(x)
        BY <1>0, <1>7 DEF SnsInv
  <2>2. IsSweep(s, x)' => /\ \A q \in Posters : ~IsPost(q, x)
                          /\ \A t \in Sweepers : ~IsSweep(t, x)
                          /\ \A k : ~IsPaid(k, x)
    <3>1. IsSweep(s, x)' => x \notin Sns!InUse /\ \A k : ~IsPaid(k, x)
          BY <1>4, <1>7, <2>1 DEF Apart, OneReward
    <3>. QED BY <1>0, <3>1, InUseOf
  <2>3. OneRow(x)' /\ OneReward(x)'
        BY <1>0, <1>3, <2>1 DEF Apart, OneRow, OneReward
  <2>4. OneOperation(x)'
        BY <1>3, <2>1, <2>2 DEF Apart, OneOperation
  <2>5. OnUnpaidRow(x)'
    <3>1. \A q \in Posters : IsPost(q, x)' => (/\ \A k : ~IsPaid(k, x)'
                                               /\ posts'[q].id = 0 => \A i : ~IsRow(i, x)')
          BY <1>0, <1>3, <2>1 DEF Apart, OnUnpaidRow
    <3>2. IsSweep(s, x)' => \A i, j : IsEntry(s, i, x)' /\ IsEntry(s, j, x)' => i = j
          BY <1>1, <1>2, <2>1 DEF Apart, IsEntry
    <3>3. \A t \in Sweepers \ {s} : IsSweep(t, x)' =>
             /\ \A k : ~IsPaid(k, x)'
             /\ \A i, j : IsEntry(t, i, x)' /\ IsEntry(t, j, x)' => i = j
          BY <1>3, <2>1 DEF Apart, OnUnpaidRow
    <3>. QED BY <1>3, <2>2, <3>1, <3>2, <3>3 DEF OnUnpaidRow
  <2>. QED BY <2>3, <2>4, <2>5 DEF Apart
<1>. QED BY <1>5, <1>6, <1>7 DEF SnsInv

\* A run goes on to its next row.
LEMMA SnsTail ==
    ASSUME SnsTypes, NEW s \in Sweepers, sweeps[s] # << >>, sweeps' = [sweeps EXCEPT ![s] = Tail(@)]
    PROVE  /\ Head(sweeps[s]) \in OpenRow /\ IsEntry(s, 1, Head(sweeps[s]).invitee)
           /\ sweeps' \in [Sweepers -> Seq(OpenRow)]
           /\ \A t \in Sweepers : \A x : IsSweep(t, x)' => IsSweep(t, x)
           /\ \A t \in Sweepers \ {s} : \A i, x : IsEntry(t, i, x)' => IsEntry(t, i, x)
           /\ \A i, x : IsEntry(s, i, x)' => i \in Nat \ {0} /\ IsEntry(s, i + 1, x)
<1> DEFINE rest == Tail(sweeps[s])
<1>1. sweeps \in [Sweepers -> Seq(OpenRow)] /\ sweeps[s] \in Seq(OpenRow)
      BY DEF SnsTypes, SweepTypes
<1>2. /\ rest \in Seq(OpenRow) /\ Head(sweeps[s]) = sweeps[s][1] /\ Head(sweeps[s]) \in OpenRow
      /\ Len(rest) = Len(sweeps[s]) - 1 /\ \A i \in 1..Len(rest) : rest[i] = sweeps[s][i + 1]
      BY <1>1, HeadTailProperties
<1>3. /\ DOMAIN rest = 1..Len(rest) /\ Len(rest) \in Nat
      /\ DOMAIN sweeps[s] = 1..Len(sweeps[s]) /\ Len(sweeps[s]) \in Nat
      BY <1>1, <1>2, LenProperties
<1>4. sweeps' = [sweeps EXCEPT ![s] = rest]
      OBVIOUS
<1> HIDE DEF rest
<1>5. /\ sweeps' \in [Sweepers -> Seq(OpenRow)] /\ sweeps'[s] = rest
      /\ \A t \in Sweepers \ {s} : sweeps'[t] = sweeps[t]
      BY <1>1, <1>2, <1>4
<1>6. \A i, x : IsEntry(s, i, x)' => i \in Nat \ {0} /\ IsEntry(s, i + 1, x)
      BY <1>2, <1>3, <1>5 DEF IsEntry
<1>7. \A t \in Sweepers \ {s} : \A i, x : IsEntry(t, i, x)' => IsEntry(t, i, x)
      BY <1>5 DEF IsEntry
<1>8. \A t \in Sweepers : \A x : IsSweep(t, x)' => IsSweep(t, x)
  <2>1. \A t, x : IsSweep(t, x)' => \E i : IsEntry(t, i, x)'
        BY DEF IsSweep, IsEntry
  <2>2. \A t, i, x : IsEntry(t, i, x) => IsSweep(t, x)
        BY DEF IsSweep, IsEntry
  <2>. QED BY <1>6, <1>7, <2>1, <2>2
<1>9. IsEntry(s, 1, Head(sweeps[s]).invitee)
      BY <1>2, <1>3 DEF IsEntry
<1>. QED BY <1>2, <1>5, <1>6, <1>7, <1>8, <1>9

\* Operations that end, or go on, without writing a row.
OnceIn(t, w) == \A i, j : IsEntry(t, i, w) /\ IsEntry(t, j, w) => i = j

LEMMA SnsEnds ==
    ASSUME SnsInv, UNCHANGED <<invites, rewards, mixed>>,
           DOMAIN posts' = Posters, \A q \in Posters : posts'[q] \in {posts[q], Sns!NoPost},
           sweeps' \in [Sweepers -> Seq(OpenRow)],
           \A t \in Sweepers : \A x : IsSweep(t, x)' => IsSweep(t, x),
           \A t \in Sweepers : \A x : OnceIn(t, x) => OnceIn(t, x)'
    PROVE  SnsInv'
<1>0. SnsTypes
      BY DEF SnsInv
<1>1. Sns!NoPost' = Sns!NoPost
      BY DEF Sns!NoPost
<1>2. /\ \A q \in Posters : \A x : IsPost(q, x)' => IsPost(q, x) /\ posts'[q] = posts[q]
      /\ \A i, x : (IsRow(i, x)' <=> IsRow(i, x)) /\ (IsPaid(i, x)' <=> IsPaid(i, x))
      BY <1>1 DEF IsPost, IsRow, IsPaid
<1>3. SnsTypes'
  <2>1. PostTypes'
        BY <1>0, <1>1, <1>2 DEF SnsTypes, PostTypes
  <2>2. SweepTypes'
        BY <1>0, <1>2 DEF SnsTypes, SweepTypes
  <2>. QED BY <1>0, <2>1, <2>2 DEF SnsTypes
<1>4. \A x \in Invitees : PaidRows(x)'
      BY <1>2 DEF SnsInv, PaidRows
<1>5. ASSUME NEW x \in Invitees, x \notin mixed' PROVE Apart(x)'
  <2>1. Apart(x)
        BY <1>5 DEF SnsInv
  <2>2. OneRow(x)' /\ OneReward(x)'
        BY <1>2, <2>1 DEF Apart, OneRow, OneReward
  <2>3. OneOperation(x)'
        BY <1>2, <2>1 DEF Apart, OneOperation
  <2>4. OnUnpaidRow(x)'
    <3>1. \A t \in Sweepers : IsSweep(t, x)' => OnceIn(t, x)'
          BY <2>1 DEF Apart, OnUnpaidRow, OnceIn
    <3>2. \A q \in Posters : IsPost(q, x)' => (/\ \A k : ~IsPaid(k, x)'
                                               /\ posts'[q].id = 0 => \A i : ~IsRow(i, x)')
          BY <1>2, <2>1 DEF Apart, OnUnpaidRow
    <3>3. \A t \in Sweepers : IsSweep(t, x)' => \A k : ~IsPaid(k, x)'
          BY <1>2, <2>1 DEF Apart, OnUnpaidRow
    <3>. QED BY <3>1, <3>2, <3>3 DEF OnUnpaidRow, OnceIn
  <2>. QED BY <2>2, <2>3, <2>4 DEF Apart
<1>. QED BY <1>3, <1>4, <1>5 DEF SnsInv

LEMMA SnsSkips ==
    ASSUME SnsInv, NEW s \in Sweepers, sweeps[s] # << >>, sweeps' = [sweeps EXCEPT ![s] = Tail(@)],
           UNCHANGED <<invites, rewards, posts, mixed>>
    PROVE  SnsInv'
<1>1. /\ sweeps' \in [Sweepers -> Seq(OpenRow)]
      /\ \A t \in Sweepers : \A x : IsSweep(t, x)' => IsSweep(t, x)
      /\ \A t \in Sweepers \ {s} : \A i, x : IsEntry(t, i, x)' => IsEntry(t, i, x)
      /\ \A i, x : IsEntry(s, i, x)' => i \in Nat \ {0} /\ IsEntry(s, i + 1, x)
      BY SnsTail DEF SnsInv
<1>2. \A t \in Sweepers : \A x : OnceIn(t, x) => OnceIn(t, x)'
  <2>1. \A x : OnceIn(s, x) => OnceIn(s, x)'
    <3>1. SUFFICES ASSUME NEW x, OnceIn(s, x), NEW i, NEW j, IsEntry(s, i, x)', IsEntry(s, j, x)'
                   PROVE  i = j
          BY DEF OnceIn
    <3>2. i \in Nat /\ j \in Nat /\ i + 1 = j + 1
          BY <1>1, <3>1 DEF OnceIn
    <3>. QED BY <3>2
  <2>2. \A t \in Sweepers \ {s} : \A x : OnceIn(t, x) => OnceIn(t, x)'
        BY <1>1 DEF OnceIn
  <2>. QED BY <2>1, <2>2
<1>3. DOMAIN posts' = Posters /\ \A q \in Posters : posts'[q] \in {posts[q], Sns!NoPost}
      BY DEF SnsInv, SnsTypes
<1>. QED BY <1>1, <1>2, <1>3, SnsEnds

\* The rows of an invitee are marked and the reward is written together.
LEMMA SnsPays ==
    ASSUME SnsInv, NEW s \in Sweepers, sweeps[s] # << >>, sweeps' = [sweeps EXCEPT ![s] = Tail(@)],
           Sns!Pay(Head(sweeps[s])), UNCHANGED <<posts, mixed>>
    PROVE  SnsInv'
<1> DEFINE head == Head(sweeps[s])
           w == head.invitee
           reward == [inviter |-> head.inviter, invitee |-> head.invitee]
<1>0. SnsTypes
      BY DEF SnsInv
<1>1. /\ head \in OpenRow /\ IsEntry(s, 1, w) /\ sweeps' \in [Sweepers -> Seq(OpenRow)]
      /\ \A t \in Sweepers : \A x : IsSweep(t, x)' => IsSweep(t, x)
      /\ \A t \in Sweepers \ {s} : \A i, x : IsEntry(t, i, x)' => IsEntry(t, i, x)
      /\ \A i, x : IsEntry(s, i, x)' => i \in Nat \ {0} /\ IsEntry(s, i + 1, x)
      BY <1>0, SnsTail
<1>2. /\ invites' = [i \in DOMAIN invites |->
                       [invites[i] EXCEPT !.verified = @ \/ invites[i].invitee = w]]
      /\ rewards' = Append(rewards, reward)
      BY DEF Sns!Pay
<1>3. w \in Invitees /\ reward \in Reward /\ reward.invitee = w
  <2> HIDE DEF head
  <2>. QED BY <1>1 DEF OpenRow, InviteRow, Reward
<1>4. IsSweep(s, w)
      BY <1>1 DEF IsSweep, IsEntry
<1> HIDE DEF w, reward
<1>5. /\ invites' \in Seq(InviteRow) /\ DOMAIN invites' = DOMAIN invites
      /\ \A i \in DOMAIN invites : /\ invites'[i].invitee = invites[i].invitee
                                   /\ invites'[i].verified = (invites[i].verified \/ invites[i].invitee = w)
  <2>1. /\ DOMAIN invites = 1..Len(invites) /\ Len(invites) \in Nat
        /\ \A i \in DOMAIN invites : invites[i] \in InviteRow
        BY <1>0, LenProperties, ElementOfSeq DEF SnsTypes
  <2>2. ASSUME NEW i \in DOMAIN invites
        PROVE  /\ invites'[i] \in InviteRow /\ invites'[i].invitee = invites[i].invitee
               /\ invites'[i].verified = (invites[i].verified \/ invites[i].invitee = w)
    <3> DEFINE old == invites[i]
               mark == old.verified \/ old.invitee = w
    <3>1. invites'[i] = [old EXCEPT !.verified = mark] /\ old \in InviteRow
          BY <1>2, <2>1
    <3>2. mark \in BOOLEAN
          OBVIOUS
    <3>3. invites'[i] \in InviteRow /\ invites'[i].invitee = old.invitee /\ invites'[i].verified = mark
      <4> HIDE DEF old, mark
      <4>. QED BY <3>1, <3>2 DEF InviteRow
    <3>. QED BY <3>3
  <2>3. DOMAIN invites' = 1..Len(invites)
        BY <1>2, <2>1
  <2>4. invites' \in [1..Len(invites) -> InviteRow]
    <3>1. invites' = [i \in 1..Len(invites) |-> invites'[i]]
          BY <1>2, <2>1
    <3>. QED BY <2>1, <2>2, <3>1
  <2>. QED BY <2>1, <2>2, <2>3, <2>4, IsASeq
<1>6. /\ rewards' \in Seq(Reward)
      /\ \A k, x : IsPaid(k, x)' => IsPaid(k, x) \/ (x = w /\ k = Len(rewards) + 1)
      /\ \A k, x : IsPaid(k, x) => IsPaid(k, x)'
      /\ \A x : x = w => \E k : IsPaid(k, x)'
  <2>1. rewards \in Seq(Reward)
        BY <1>0 DEF SnsTypes
  <2>2. /\ rewards' \in Seq(Reward) /\ DOMAIN rewards = 1..Len(rewards) /\ Len(rewards) \in Nat
        /\ DOMAIN rewards' = 1..(Len(rewards) + 1) /\ rewards'[Len(rewards) + 1] = reward
        /\ \A i \in DOMAIN rewards : rewards'[i] = rewards[i]
        BY <1>2, <1>3, <2>1, Added
  <2>3. DOMAIN rewards' = DOMAIN rewards \cup {Len(rewards) + 1}
        BY <2>2
  <2> DEFINE k == Len(rewards) + 1
  <2> HIDE DEF k
  <2>4. \A i, x : IsPaid(i, x)' => IsPaid(i, x) \/ (x = w /\ i = k)
        BY <1>3, <2>2, <2>3 DEF IsPaid, k
  <2>5. \A i, x : IsPaid(i, x) => IsPaid(i, x)'
        BY <2>2, <2>3 DEF IsPaid
  <2>6. \A x : x = w => \E i : IsPaid(i, x)'
        BY <1>3, <2>2, <2>3 DEF IsPaid
  <2>. QED BY <2>2, <2>4, <2>5, <2>6 DEF k
<1>7. /\ \A i, x : IsRow(i, x)' <=> IsRow(i, x)
      /\ \A i, x : IsRow(i, x) => (invites'[i].verified <=> invites[i].verified \/ x = w)
      BY <1>5 DEF IsRow
<1>8. \A q \in Posters : \A x : IsPost(q, x)' <=> IsPost(q, x)
      BY DEF IsPost, Sns!NoPost
<1>9. SnsTypes'
  <2>1. PostTypes'
    <3>1. Sns!NoPost' = Sns!NoPost
          BY DEF Sns!NoPost
    <3>. QED BY <1>0, <1>7, <3>1 DEF SnsTypes, PostTypes
  <2>2. SweepTypes'
        BY <1>0, <1>1, <1>7 DEF SnsTypes, SweepTypes
  <2>. QED BY <1>0, <1>5, <1>6, <2>1, <2>2 DEF SnsTypes
<1>10. \A x \in Invitees : PaidRows(x)'
  <2>1. \E i : IsRow(i, w)
        BY <1>0, <1>3, <1>4 DEF SnsTypes, SweepTypes
  <2>2. \A x \in Invitees : PaidRows(x)
        BY DEF SnsInv
  <2>3. ASSUME NEW x \in Invitees PROVE PaidRows(x)'
    <3>1. CASE x = w
      <4>1. (\E k : IsPaid(k, x)') /\ \E i : IsRow(i, x)'
            BY <1>6, <1>7, <2>1, <3>1
      <4>. QED BY <3>1, <4>1 DEF PaidRows
    <3>2. CASE x # w
          BY <1>6, <1>7, <2>2, <3>2 DEF PaidRows
    <3>. QED BY <3>1, <3>2
  <2>. QED BY <2>3
<1>11. ASSUME NEW x \in Invitees, x \notin mixed' PROVE Apart(x)'
  <2>1. Apart(x)
        BY <1>11 DEF SnsInv
  <2>2. x = w => \A k : ~IsPaid(k, x)
        BY <1>4, <2>1 DEF Apart, OnUnpaidRow
  <2>3. x = w => /\ \A t \in Sweepers : ~IsSweep(t, x)'
                 /\ \A q \in Posters : ~IsPost(q, x)
    <3>1. SUFFICES ASSUME x = w PROVE /\ \A t \in Sweepers : ~IsSweep(t, x)'
                                      /\ \A q \in Posters : ~IsPost(q, x)
          OBVIOUS
    <3>2. \A q \in Posters : ~IsPost(q, x)
          BY <1>4, <2>1, <3>1 DEF Apart, OneOperation
    <3>3. \A t \in Sweepers \ {s} : ~IsSweep(t, x)'
          BY <1>1, <1>4, <2>1, <3>1 DEF Apart, OneOperation
    <3>4. \A i : ~IsEntry(s, i, x)'
      <4>1. \A i : IsEntry(s, i, x) => i = 1
            BY <1>1, <1>4, <2>1, <3>1 DEF Apart, OnUnpaidRow
      <4>2. \A i : IsEntry(s, i, x)' => i \in Nat \ {0} /\ i + 1 = 1
            BY <1>1, <4>1
      <4>. QED BY <4>2
    <3>5. ~IsSweep(s, x)'
          BY <3>4 DEF IsSweep, IsEntry
    <3>. QED BY <3>2, <3>3, <3>5
  <2>4. OneRow(x)'
        BY <1>7, <2>1 DEF Apart, OneRow
  <2>5. OneReward(x)'
        BY <1>6, <1>7, <2>1, <2>2 DEF Apart, OneReward
  <2>6. OneOperation(x)'
        BY <1>1, <1>8, <2>1 DEF Apart, OneOperation
  <2>7. OnUnpaidRow(x)'
    <3>1. CASE x = w
          BY <1>8, <2>3, <3>1 DEF OnUnpaidRow
    <3>2. CASE x # w
      <4>1. \A k : IsPaid(k, x)' => IsPaid(k, x)
            BY <1>6, <3>2
      <4>2. \A q \in Posters : IsPost(q, x)' => (/\ \A k : ~IsPaid(k, x)'
                                                 /\ posts'[q].id = 0 => \A i : ~IsRow(i, x)')
            BY <1>7, <1>8, <2>1, <4>1 DEF Apart, OnUnpaidRow
      <4>3. \A t \in Sweepers : IsSweep(t, x)' => \A k : ~IsPaid(k, x)'
            BY <1>1, <2>1, <4>1 DEF Apart, OnUnpaidRow
      <4>4. \A t \in Sweepers \ {s} : IsSweep(t, x)' => OnceIn(t, x)'
            BY <1>1, <2>1 DEF Apart, OnUnpaidRow, OnceIn
      <4>5. ASSUME IsSweep(s, x)' PROVE OnceIn(s, x)'
        <5>1. OnceIn(s, x)
              BY <1>1, <2>1, <4>5 DEF Apart, OnUnpaidRow, OnceIn
        <5>2. SUFFICES ASSUME NEW i, NEW j, IsEntry(s, i, x)', IsEntry(s, j, x)'
                       PROVE  i = j
              BY DEF OnceIn
        <5>3. i \in Nat /\ j \in Nat /\ i + 1 = j + 1
              BY <1>1, <5>1, <5>2 DEF OnceIn
        <5>. QED BY <5>3
      <4>. QED BY <4>2, <4>3, <4>4, <4>5 DEF OnUnpaidRow, OnceIn
    <3>. QED BY <3>1, <3>2
  <2>. QED BY <2>4, <2>5, <2>6, <2>7 DEF Apart
<1>. QED BY <1>9, <1>10, <1>11 DEF SnsInv

LEMMA SnsStep == SnsInv /\ (Sns!Next \/ UNCHANGED snsVars) => SnsInv'
<1> SUFFICES ASSUME SnsInv, Sns!Next \/ UNCHANGED snsVars PROVE SnsInv'
    OBVIOUS
<1>0. /\ DOMAIN posts = Posters /\ sweeps \in [Sweepers -> Seq(OpenRow)]
      BY DEF SnsInv, SnsTypes, SweepTypes
<1>1. CASE UNCHANGED <<invites, rewards, posts, sweeps, mixed>>
  <2>1. \A t, x : IsSweep(t, x)' <=> IsSweep(t, x)
        BY <1>1 DEF IsSweep
  <2>2. \A t, x : OnceIn(t, x)' <=> OnceIn(t, x)
        BY <1>1 DEF OnceIn, IsEntry
  <2>. QED BY <1>0, <1>1, <2>1, <2>2, SnsEnds
<1>2. CASE UNCHANGED snsVars \/ \E w \in Invitees : Sns!TakeName(w)
      BY <1>1, <1>2 DEF snsVars, Sns!TakeName
<1>3. ASSUME NEW s \in Sweepers, Sns!HandleRow(s) PROVE SnsInv'
  <2>1. CASE Sns!Pay(Head(sweeps[s]))
        BY <1>3, <2>1, SnsPays DEF Sns!HandleRow
  <2>2. CASE UNCHANGED <<invites, rewards>>
        BY <1>3, <2>2, SnsSkips DEF Sns!HandleRow
  <2>. QED BY <1>3, <2>1, <2>2 DEF Sns!HandleRow
<1>4. ASSUME NEW s \in Sweepers, Sns!RowFails(s) PROVE SnsInv'
      BY <1>4, SnsSkips DEF Sns!RowFails
<1>5. CASE Sns!Restart
  <2>1. /\ DOMAIN posts' = Posters /\ \A q \in Posters : posts'[q] \in {posts[q], Sns!NoPost}
        /\ sweeps' \in [Sweepers -> Seq(OpenRow)] /\ \A t \in Sweepers : sweeps'[t] = << >>
        /\ UNCHANGED <<invites, rewards, mixed>>
    <3>1. \A S : << >> \in Seq(S)
          OBVIOUS
    <3>. QED BY <1>5, <3>1 DEF Sns!Restart
  <2>2. \A t \in Sweepers : \A x : ~IsSweep(t, x)' /\ OnceIn(t, x)'
        BY <2>1 DEF IsSweep, OnceIn, IsEntry
  <2>. QED BY <2>1, <2>2, SnsEnds
<1>. QED BY <1>2, <1>3, <1>4, <1>5, SnsFinds, SnsSaves, SnsStarts DEF Sns!Next, Sns!Sweep

LEMMA SnsHolds == Spec => []SnsInv
<1>1. Init => SnsInv
      BY SnsStart DEF Init
<1>2. SnsInv /\ [Next]_vars => SnsInv'
      BY SnsStep, OneService
<1>. QED BY <1>1, <1>2, PTL DEF Spec

\* A verified invitee was paid for, whatever fails or restarts; and unless operations on an
\* invitee overlapped, once, with no row left to be paid for again.
THEOREM InvitesRewardedOnce == Spec => []RewardedOnce
<1>1. SnsInv => RewardedOnce
  <2>1. SUFFICES ASSUME SnsInv, NEW w \in Invitees
                 PROVE  /\ (\E i \in Sns!RowsFor(w) : invites[i].verified) => Sns!RewardsOf(w) # {}
                        /\ w \notin mixed =>
                             /\ \A i, j \in Sns!RewardsOf(w) : i = j
                             /\ Sns!RewardsOf(w) # {} => \A i \in Sns!RowsFor(w) : invites[i].verified
        BY DEF RewardedOnce, Sns!RewardedOnce
  <2>2. /\ \A i : i \in Sns!RowsFor(w) <=> IsRow(i, w)
        /\ \A i : i \in Sns!RewardsOf(w) <=> IsPaid(i, w)
        BY DEF Sns!RowsFor, Sns!RewardsOf, IsRow, IsPaid
  <2>. QED BY <2>1, <2>2 DEF SnsInv, PaidRows, Apart, OneReward
<1>. QED BY <1>1, SnsHolds, PTL

----
(* The budget row. *)

BudgetRow == [owner : {"nobody", "project", "guild"}, ratio : Int, total : Totals \cup {0},
              used : Int, remain : Int, totalAdvance : Int, usedAdvance : Int, remainAdvance : Int]

\* Rows of one budget: what no request changes.
SameBudget(r, t) == r.owner = t.owner /\ r.ratio = t.ratio /\ r.totalAdvance = t.totalAdvance

\* The part in advance of a row, also of one that was read before others wrote.
KeepsAdvance(r) ==
    /\ r.usedAdvance + r.remainAdvance = r.totalAdvance
    /\ r.ratio = 0 => r.totalAdvance = 0 /\ r.usedAdvance = 0 /\ r.remainAdvance = 0
    /\ r.owner = "project" /\ r.ratio # 0 => r.used = r.usedAdvance

\* A request works on a row of this budget, or on an application that was charged.
Steps == {"idle", "charge", "refuse", "edit", "withdraw", "deposit"}
Fits(q, r, taken) ==
    /\ q.step \in Steps
    /\ q.step # "idle" => r.owner # "nobody"
    /\ q.step \in {"charge", "refuse", "withdraw", "deposit"} => q.amount \in Int
    /\ q.step \in {"refuse", "deposit"} =>
         q.amount # 0 /\ q.app \in DOMAIN taken /\ taken[q.app] \in {0, q.amount}
    /\ q.step \in {"withdraw", "deposit", "edit"} =>
         q.read \in BudgetRow /\ KeepsAdvance(q.read) /\ SameBudget(q.read, r)
    /\ q.step = "edit" => q.total \in Totals

LedgerInv ==
    /\ row \in BudgetRow /\ KeepsAdvance(row) /\ (row.owner = "nobody" => row = Ledger!NoBudget)
    /\ charges \in Seq(Int) /\ Len(charges) <= MaxCharges /\ stale \in BOOLEAN
    /\ negative \in BOOLEAN /\ DOMAIN request = Clerks
    /\ \A c \in Clerks : Fits(request[c], row, charges)
    /\ ~stale => /\ row.used = SumOf(charges)
                 /\ row.owner = "project" => row.used + row.remain = row.total

LEMMA IdleFits == \A r, taken : Fits(Ledger!Idle, r, taken)
BY DEF Fits, Ledger!Idle, Steps

\* A new budget keeps its advance.
LEMMA NewKeepsAdvance ==
    ASSUME NEW owner \in {"nobody", "project", "guild"}, NEW total \in Totals \cup {0},
           NEW ratio \in Ratios \cup {0}, owner # "project" => ratio = 0
    PROVE  LET new == Ledger!NewBudget(owner, total, ratio)
           IN  /\ new \in BudgetRow /\ KeepsAdvance(new) /\ new.owner = owner
               /\ new.used = 0 /\ new.used + new.remain = new.total
<1> DEFINE product == total * ratio
           advance == IF owner = "project" THEN Ledger!AdvanceOf(total, ratio) ELSE 0
           new == Ledger!NewBudget(owner, total, ratio)
<1>1. total \in Int /\ ratio \in Int
      BY LedgerAssumption
<1>2. product \in Int /\ (ratio = 0 => product = 0)
      BY <1>1
<1>3. /\ (product + 50) \div 100 \in Int /\ (product = 0 => (product + 50) \div 100 = 0)
      /\ (50 - product) \div 100 \in Int
  <2> HIDE DEF product
  <2>. QED BY <1>2
<1>4. advance \in Int /\ (ratio = 0 => advance = 0)
      BY <1>2, <1>3 DEF Ledger!AdvanceOf
<1>5. new = [owner |-> owner, ratio |-> ratio, total |-> total, used |-> 0, remain |-> total,
             totalAdvance |-> advance, usedAdvance |-> 0, remainAdvance |-> advance]
      BY DEF Ledger!NewBudget
<1> HIDE DEF advance, new
<1>6. new \in BudgetRow /\ KeepsAdvance(new) /\ new.owner = owner /\ new.used = 0 /\ new.used + new.remain = new.total
      BY <1>1, <1>4, <1>5 DEF BudgetRow, KeepsAdvance
<1>. QED BY <1>6 DEF new

LEMMA LedgerStart == Ledger!Init => LedgerInv
<1> SUFFICES ASSUME Ledger!Init PROVE LedgerInv
    OBVIOUS
<1>0. "nobody" \in {"nobody", "project", "guild"} /\ 0 \in Totals \cup {0} /\ 0 \in Ratios \cup {0}
      /\ "nobody" # "project"
      OBVIOUS
<1>1. /\ row \in BudgetRow /\ KeepsAdvance(row) /\ row.owner = "nobody" /\ row.used = 0
      /\ row = Ledger!NoBudget
      BY <1>0, NewKeepsAdvance DEF Ledger!Init, Ledger!NoBudget
<1>2. charges = << >> /\ charges \in Seq(Int) /\ Len(charges) = 0
      BY EmptySeq DEF Ledger!Init
<1>3. SumOf(charges) = 0
      BY <1>2, SumOfEmpty
<1>4. DOMAIN request = Clerks /\ \A c \in Clerks : Fits(request[c], row, charges)
      BY IdleFits DEF Ledger!Init
<1>5. stale \in BOOLEAN /\ negative \in BOOLEAN
      BY DEF Ledger!Init
<1>6. Len(charges) <= MaxCharges
      BY <1>2, LedgerAssumption
<1>. QED BY <1>1, <1>2, <1>3, <1>4, <1>5, <1>6 DEF LedgerInv

\* The requests that a step leaves alone still fit the row it wrote.
LEMMA OthersFit ==
    ASSUME LedgerInv, NEW c \in Clerks, NEW q, request' = [request EXCEPT ![c] = q],
           row' = row \/ SameBudget(row', row), DOMAIN charges \subseteq DOMAIN charges',
           \A i \in DOMAIN charges : charges'[i] \in {charges[i], 0}, Fits(q, row', charges')
    PROVE  DOMAIN request' = Clerks /\ \A d \in Clerks : Fits(request'[d], row', charges')
<1>1. DOMAIN request' = Clerks /\ request'[c] = q /\ \A d \in Clerks \ {c} : request'[d] = request[d]
      BY DEF LedgerInv
<1>2. SameBudget(row', row)
      BY DEF SameBudget
<1>3. ASSUME NEW p, Fits(p, row, charges) PROVE Fits(p, row', charges')
      BY <1>2, <1>3 DEF Fits, SameBudget
<1>. QED BY <1>1, <1>3 DEF LedgerInv

\* A request that goes on or ends without writing the row.
LEMMA LedgerGoesOn ==
    ASSUME LedgerInv, NEW c \in Clerks, NEW q, request' = [request EXCEPT ![c] = q],
           UNCHANGED <<row, charges, stale>>, negative' \in BOOLEAN, Fits(q, row, charges)
    PROVE  LedgerInv'
<1>1. DOMAIN request' = Clerks /\ \A d \in Clerks : Fits(request'[d], row', charges')
      BY OthersFit
<1>. QED BY <1>1 DEF LedgerInv

LEMMA LedgerCreates ==
    ASSUME LedgerInv, NEW owner \in {"project", "guild"}, NEW total \in Totals, NEW ratio \in Ratios,
           Ledger!CreateBudget(owner, total, ratio)
    PROVE  LedgerInv'
<1>1. row = Ledger!NoBudget /\ row' = Ledger!NewBudget(owner, total, ratio)
      /\ UNCHANGED <<charges, request, stale>> /\ (owner # "project" => ratio = 0)
      /\ negative' \in BOOLEAN
      BY DEF Ledger!CreateBudget
<1>2. /\ row' \in BudgetRow /\ KeepsAdvance(row') /\ row'.owner = owner
      /\ row'.used = 0 /\ row'.used + row'.remain = row'.total
      BY <1>1, NewKeepsAdvance
<1>3. row.owner = "nobody" /\ row.used = 0
      BY <1>1 DEF Ledger!NoBudget, Ledger!NewBudget
<1>4. \A c \in Clerks : Fits(request'[c], row', charges')
  <2>1. ASSUME NEW c \in Clerks PROVE request[c].step = "idle"
        BY <1>3 DEF LedgerInv, Fits
  <2>. QED BY <1>1, <2>1 DEF Fits, Steps
<1>5. row'.owner # "nobody"
      BY <1>2
<1>. QED BY <1>1, <1>2, <1>3, <1>4, <1>5 DEF LedgerInv

Shift(r, read, amount) ==
    IF read.ratio = 0
    THEN [r EXCEPT !.used = read.used + amount, !.remain = read.remain - amount]
    ELSE [r EXCEPT !.used = read.used + amount, !.remain = read.remain - amount,
                   !.usedAdvance = read.usedAdvance + amount,
                   !.remainAdvance = read.remainAdvance - amount]

\* The row after an amount was moved keeps its advance, whatever row was read.
LEMMA ShiftKeepsAdvance ==
    ASSUME NEW r \in BudgetRow, KeepsAdvance(r), NEW read \in BudgetRow, KeepsAdvance(read),
           SameBudget(read, r), NEW amount \in Int, NEW new, new = Shift(r, read, amount)
    PROVE  /\ new \in BudgetRow /\ KeepsAdvance(new) /\ SameBudget(new, r) /\ new.total = r.total
           /\ new.used = read.used + amount /\ new.remain = read.remain - amount
           /\ read.ratio = 0 => new.usedAdvance = 0 /\ new.remainAdvance = 0
           /\ read.ratio # 0 => /\ new.usedAdvance = read.usedAdvance + amount
                                /\ new.remainAdvance = read.remainAdvance - amount
<1>1. /\ read.used \in Int /\ read.remain \in Int /\ read.usedAdvance \in Int
      /\ read.remainAdvance \in Int /\ read.totalAdvance \in Int
      /\ r.usedAdvance \in Int /\ r.remainAdvance \in Int /\ r.totalAdvance \in Int /\ r.used \in Int
      BY DEF BudgetRow
<1>2. /\ new.owner = r.owner /\ new.ratio = r.ratio /\ new.totalAdvance = r.totalAdvance
      /\ new.total = r.total /\ new.used = read.used + amount /\ new.remain = read.remain - amount
      BY DEF BudgetRow, Shift
<1>3. CASE read.ratio = 0
  <2>1. new = [r EXCEPT !.used = read.used + amount, !.remain = read.remain - amount]
        BY <1>3 DEF Shift
  <2>2. new \in BudgetRow /\ new.usedAdvance = r.usedAdvance /\ new.remainAdvance = r.remainAdvance
    <3> DEFINE u == read.used + amount
               m == read.remain - amount
    <3>1. u \in Int /\ m \in Int /\ new = [r EXCEPT !.used = u, !.remain = m]
          BY <1>1, <2>1
    <3> HIDE DEF u, m
    <3>. QED BY <3>1 DEF BudgetRow
  <2>3. r.ratio = 0 /\ r.usedAdvance = 0 /\ r.remainAdvance = 0
        BY <1>3 DEF KeepsAdvance, SameBudget
  <2>4. KeepsAdvance(new)
        BY <1>1, <1>2, <2>2, <2>3 DEF KeepsAdvance
  <2>. QED BY <1>2, <1>3, <2>2, <2>3, <2>4 DEF SameBudget
<1>4. CASE read.ratio # 0
  <2>1. new = [r EXCEPT !.used = read.used + amount, !.remain = read.remain - amount,
                        !.usedAdvance = read.usedAdvance + amount,
                        !.remainAdvance = read.remainAdvance - amount]
        BY <1>4 DEF Shift
  <2>2. /\ new.usedAdvance = read.usedAdvance + amount /\ new.remainAdvance = read.remainAdvance - amount
        BY <2>1 DEF BudgetRow
  <2>3. new.usedAdvance \in Int /\ new.remainAdvance \in Int
        BY <1>1, <2>2
  <2>4. new \in BudgetRow
    <3> DEFINE u == read.used + amount
               m == read.remain - amount
               a == read.usedAdvance + amount
               b == read.remainAdvance - amount
    <3>1. /\ u \in Int /\ m \in Int /\ a \in Int /\ b \in Int
          /\ new = [r EXCEPT !.used = u, !.remain = m, !.usedAdvance = a, !.remainAdvance = b]
          BY <1>1, <2>1, <2>2, <2>3
    <3> HIDE DEF u, m, a, b
    <3>. QED BY <3>1 DEF BudgetRow
  <2>5. KeepsAdvance(new)
    <3>1. read.usedAdvance + read.remainAdvance = read.totalAdvance /\ read.totalAdvance = r.totalAdvance
          BY DEF KeepsAdvance, SameBudget
    <3>2. new.usedAdvance + new.remainAdvance = new.totalAdvance
          BY <1>1, <1>2, <2>2, <3>1
    <3>3. r.owner = "project" => read.used = read.usedAdvance
          BY <1>4 DEF KeepsAdvance, SameBudget
    <3>4. new.ratio # 0 /\ (new.owner = "project" => new.used = new.usedAdvance)
          BY <1>2, <1>4, <2>2, <3>3 DEF SameBudget
    <3>. QED BY <3>2, <3>4 DEF KeepsAdvance
  <2>. QED BY <1>2, <1>4, <2>2, <2>4, <2>5 DEF SameBudget
<1>. QED BY <1>3, <1>4

\* A bundle is charged.
LEMMA LedgerCharges ==
    ASSUME LedgerInv, NEW c \in Clerks, Ledger!WithdrawSingleAsset(c)
    PROVE  LedgerInv'
<1> DEFINE q == request[c]
           amount == q.amount
           read == q.read
<1>1. /\ q.step = "withdraw" /\ Len(charges) < MaxCharges
      /\ (read.ratio # 0 => amount <= read.remainAdvance)
      /\ row' = Ledger!Shifted(read, amount) /\ charges' = Append(charges, amount)
      /\ stale' = (stale \/ read # row) /\ request' = [request EXCEPT ![c] = Ledger!Idle]
      /\ negative' = negative
      BY DEF Ledger!WithdrawSingleAsset, Ledger!End
<1>2. Fits(q, row, charges) /\ row \in BudgetRow /\ KeepsAdvance(row) /\ charges \in Seq(Int)
      BY DEF LedgerInv
<1>3. amount \in Int /\ read \in BudgetRow /\ KeepsAdvance(read) /\ SameBudget(read, row)
      BY <1>1, <1>2 DEF Fits
<1> HIDE DEF q, amount, read
<1>4. row' = Shift(row, read, amount)
      BY <1>1 DEF Ledger!Shifted, Shift
<1>6. /\ row' \in BudgetRow /\ KeepsAdvance(row') /\ SameBudget(row', row) /\ row'.total = row.total
      /\ row'.used = read.used + amount /\ row'.remain = read.remain - amount
      BY <1>2, <1>3, <1>4, ShiftKeepsAdvance
<1>7. /\ charges' \in Seq(Int) /\ Len(charges') = Len(charges) + 1 /\ Len(charges) \in Nat
      /\ DOMAIN charges \subseteq DOMAIN charges'
      /\ \A i \in DOMAIN charges : charges'[i] = charges[i]
      BY <1>1, <1>2, <1>3, Added
<1>8. DOMAIN request' = Clerks /\ \A d \in Clerks : Fits(request'[d], row', charges')
      BY <1>1, <1>6, <1>7, IdleFits, OthersFit
<1>9. SumOf(charges') = SumOf(charges) + amount /\ SumOf(charges) \in Int
      BY <1>1, <1>2, <1>3, SumOfAppend, SumOfType
<1>10. ~stale' => /\ row'.used = SumOf(charges')
                  /\ row'.owner = "project" => row'.used + row'.remain = row'.total
  <2>1. SUFFICES ASSUME ~stale' PROVE /\ row'.used = SumOf(charges')
                                      /\ row'.owner = "project" => row'.used + row'.remain = row'.total
        OBVIOUS
  <2>2. ~stale /\ read = row
        BY <1>1, <2>1
  <2>3. row.used = SumOf(charges) /\ (row.owner = "project" => row.used + row.remain = row.total)
        BY <2>2 DEF LedgerInv
  <2>4. row.used \in Int /\ row.remain \in Int
        BY <1>2 DEF BudgetRow
  <2>. QED BY <1>3, <1>6, <1>9, <2>2, <2>3, <2>4 DEF SameBudget
<1>11. stale' \in BOOLEAN /\ negative' \in BOOLEAN /\ Len(charges') <= MaxCharges
      BY <1>1, <1>7, LedgerAssumption DEF LedgerInv
<1>12. row'.owner # "nobody"
      BY <1>1, <1>2, <1>6 DEF Fits, SameBudget, q
<1>. QED BY <1>6, <1>7, <1>8, <1>10, <1>11, <1>12 DEF LedgerInv

\* A refused application gives back what it took.
LEMMA LedgerRefunds ==
    ASSUME LedgerInv, NEW c \in Clerks, Ledger!DepositSingleAsset(c)
    PROVE  LedgerInv'
<1> DEFINE q == request[c]
           amount == q.amount
           read == q.read
           app == q.app
<1>1. /\ q.step = "deposit" /\ amount <= read.used
      /\ (read.ratio # 0 => amount <= read.usedAdvance)
      /\ row' = Ledger!Shifted(read, -amount) /\ charges' = [charges EXCEPT ![app] = 0]
      /\ stale' = (stale \/ read # row \/ charges[app] = 0)
      /\ request' = [request EXCEPT ![c] = Ledger!Idle] /\ negative' = negative
      BY DEF Ledger!DepositSingleAsset, Ledger!End
<1>2. Fits(q, row, charges) /\ row \in BudgetRow /\ KeepsAdvance(row) /\ charges \in Seq(Int)
      BY DEF LedgerInv
<1>3. /\ amount \in Int /\ amount # 0 /\ app \in DOMAIN charges /\ charges[app] \in {0, amount}
      /\ read \in BudgetRow /\ KeepsAdvance(read) /\ SameBudget(read, row)
      BY <1>1, <1>2 DEF Fits
<1> HIDE DEF q, amount, read, app
<1> DEFINE back == -amount
<1>4. row' = Shift(row, read, back)
      BY <1>1 DEF Ledger!Shifted, Shift
<1>5. back \in Int
      BY <1>3
<1> HIDE DEF back
<1>6. /\ row' \in BudgetRow /\ KeepsAdvance(row') /\ SameBudget(row', row) /\ row'.total = row.total
      /\ row'.used = read.used + back /\ row'.remain = read.remain - back
  <2>1. /\ row \in BudgetRow /\ KeepsAdvance(row) /\ read \in BudgetRow /\ KeepsAdvance(read)
        /\ SameBudget(read, row) /\ back \in Int
        BY <1>2, <1>3, <1>5
  <2>. QED BY <1>4, <2>1, ShiftKeepsAdvance
<1>7. /\ charges' \in Seq(Int) /\ Len(charges') = Len(charges) /\ DOMAIN charges' = DOMAIN charges
      /\ charges'[app] = 0 /\ \A i \in DOMAIN charges \ {app} : charges'[i] = charges[i]
      BY <1>1, <1>2, <1>3, Replaced
<1>8. DOMAIN request' = Clerks /\ \A d \in Clerks : Fits(request'[d], row', charges')
  <2>1. \A i \in DOMAIN charges : charges'[i] \in {charges[i], 0}
        BY <1>7
  <2>. QED BY <1>1, <1>6, <1>7, <2>1, IdleFits, OthersFit
<1>9. SumOf(charges') = SumOf(charges) - charges[app] /\ SumOf(charges) \in Int
  <2>1. charges \in Seq(Int)
        BY <1>2
  <2>2. SumOf(charges') = SumOf(charges) - charges[app] + 0
    <3>1. 0 \in Int /\ charges' = [charges EXCEPT ![app] = 0]
          BY <1>1
    <3>. QED BY <1>3, <2>1, <3>1, SumOfReplaced
  <2>3. SumOf(charges) \in Int /\ charges[app] \in Int
        BY <1>3, <2>1, SumOfType
  <2>. QED BY <2>2, <2>3
<1>10. ~stale' => /\ row'.used = SumOf(charges')
                  /\ row'.owner = "project" => row'.used + row'.remain = row'.total
  <2>1. SUFFICES ASSUME ~stale' PROVE /\ row'.used = SumOf(charges')
                                      /\ row'.owner = "project" => row'.used + row'.remain = row'.total
        OBVIOUS
  <2>2. ~stale /\ read = row /\ charges[app] = amount
        BY <1>1, <1>3, <2>1
  <2>3. row.used = SumOf(charges) /\ (row.owner = "project" => row.used + row.remain = row.total)
        BY <2>2 DEF LedgerInv
  <2>4. row.used \in Int /\ row.remain \in Int
        BY <1>2 DEF BudgetRow
  <2>. QED BY <1>3, <1>5, <1>6, <1>9, <2>2, <2>3, <2>4 DEF SameBudget, back
<1>11. stale' \in BOOLEAN /\ negative' \in BOOLEAN /\ Len(charges') <= MaxCharges
      BY <1>1, <1>7 DEF LedgerInv
<1>12. row'.owner # "nobody"
      BY <1>1, <1>2, <1>6 DEF Fits, SameBudget, q
<1>. QED BY <1>6, <1>7, <1>8, <1>10, <1>11, <1>12 DEF LedgerInv

\* The total is edited.
LEMMA LedgerEdits ==
    ASSUME LedgerInv, NEW c \in Clerks, Ledger!UpdateBudget(c)
    PROVE  LedgerInv'
<1> DEFINE q == request[c]
           read == q.read
           total == q.total
           left == IF read.owner = "project" THEN total - read.used ELSE read.remain
<1>1. /\ q.step = "edit" /\ row' = [read EXCEPT !.total = total, !.remain = left]
      /\ stale' = (stale \/ read # row) /\ request' = [request EXCEPT ![c] = Ledger!Idle]
      /\ UNCHANGED <<charges, negative>>
  <2>1. row' = [read EXCEPT !.total = total,
                  !.remain = IF read.owner = "project" THEN total - read.used ELSE @]
        BY DEF Ledger!UpdateBudget
  <2>. QED BY <2>1 DEF Ledger!UpdateBudget, Ledger!End
<1>2. Fits(q, row, charges) /\ row \in BudgetRow /\ KeepsAdvance(row)
      BY DEF LedgerInv
<1>3. read \in BudgetRow /\ KeepsAdvance(read) /\ SameBudget(read, row) /\ total \in Totals
      BY <1>1, <1>2 DEF Fits
<1> HIDE DEF q, read, total
<1>4. left \in Int /\ (read.owner = "project" => read.used + left = total)
  <2>1. read.used \in Int /\ read.remain \in Int /\ total \in Int
        BY <1>3, LedgerAssumption DEF BudgetRow
  <2>. QED BY <2>1
<1> HIDE DEF left
<1>5. /\ row' \in BudgetRow /\ row'.total = total /\ row'.remain = left /\ row'.used = read.used
      /\ row'.usedAdvance = read.usedAdvance /\ row'.remainAdvance = read.remainAdvance
      /\ SameBudget(row', row) /\ row'.owner = read.owner
      BY <1>1, <1>3, <1>4 DEF BudgetRow, SameBudget
<1>6. KeepsAdvance(row')
      BY <1>3, <1>5 DEF KeepsAdvance, SameBudget
<1>7. DOMAIN request' = Clerks /\ \A d \in Clerks : Fits(request'[d], row', charges')
      BY <1>1, <1>5, IdleFits, OthersFit
<1>8. ~stale' => /\ row'.used = SumOf(charges')
                 /\ row'.owner = "project" => row'.used + row'.remain = row'.total
  <2>1. SUFFICES ASSUME ~stale' PROVE /\ row'.used = SumOf(charges')
                                      /\ row'.owner = "project" => row'.used + row'.remain = row'.total
        OBVIOUS
  <2>2. ~stale /\ read = row
        BY <1>1, <2>1
  <2>. QED BY <1>1, <1>4, <1>5, <2>2 DEF LedgerInv
<1>9. row'.owner # "nobody"
      BY <1>1, <1>2, <1>5 DEF Fits, SameBudget, q
<1>. QED BY <1>1, <1>5, <1>6, <1>7, <1>8, <1>9 DEF LedgerInv

LEMMA LedgerBegins ==
    ASSUME LedgerInv, NEW c \in Clerks,
           \/ \E amount \in Requested : Ledger!BeginBundle(c, amount)
           \/ \E i \in DOMAIN charges : Ledger!BeginReject(c, i)
           \/ \E total \in Totals : Ledger!BeginEdit(c, total)
           \/ Ledger!ReadBudget(c) \/ Ledger!Fail(c)
    PROVE  LedgerInv'
<1>0. /\ row \in BudgetRow /\ KeepsAdvance(row) /\ charges \in Seq(Int) /\ Fits(request[c], row, charges)
      /\ (row # Ledger!NoBudget => row.owner # "nobody") /\ negative \in BOOLEAN
      BY DEF LedgerInv
<1>a. SameBudget(row, row)
      BY DEF SameBudget
<1>1. ASSUME NEW amount \in Requested, Ledger!BeginBundle(c, amount) PROVE LedgerInv'
  <2> DEFINE q == [step |-> "charge", amount |-> amount]
  <2>1. /\ row # Ledger!NoBudget /\ request' = [request EXCEPT ![c] = q]
        /\ UNCHANGED <<row, charges, stale>> /\ negative' \in BOOLEAN
        BY <1>1, <1>0 DEF Ledger!BeginBundle, Ledger!Begin
  <2>3. Fits(q, row, charges)
        BY <1>0, <2>1, LedgerAssumption DEF Fits, Steps
  <2> HIDE DEF q
  <2>. QED BY <2>1, <2>3, LedgerGoesOn
<1>2. ASSUME NEW i \in DOMAIN charges, Ledger!BeginReject(c, i) PROVE LedgerInv'
  <2> DEFINE q == [step |-> "refuse", app |-> i, amount |-> charges[i]]
  <2>1. /\ charges[i] # 0 /\ row # Ledger!NoBudget /\ request' = [request EXCEPT ![c] = q]
        /\ UNCHANGED <<row, charges, stale, negative>>
        BY <1>2 DEF Ledger!BeginReject, Ledger!Begin
  <2>2. charges[i] \in Int
        BY <1>0, LenProperties, ElementOfSeq
  <2>3. Fits(q, row, charges)
        BY <1>0, <2>1, <2>2 DEF Fits, Steps
  <2> HIDE DEF q
  <2>. QED BY <1>0, <2>1, <2>3, LedgerGoesOn
<1>3. ASSUME NEW total \in Totals, Ledger!BeginEdit(c, total) PROVE LedgerInv'
  <2> DEFINE q == [step |-> "edit", total |-> total, read |-> row]
  <2>1. /\ row # Ledger!NoBudget /\ request' = [request EXCEPT ![c] = q]
        /\ UNCHANGED <<row, charges, stale, negative>>
        BY <1>3 DEF Ledger!BeginEdit, Ledger!Begin
  <2>2. Fits(q, row, charges)
        BY <1>0, <1>a, <2>1 DEF Fits, Steps
  <2> HIDE DEF q
  <2>. QED BY <1>0, <2>1, <2>2, LedgerGoesOn
<1>4. ASSUME Ledger!ReadBudget(c) PROVE LedgerInv'
  <2> DEFINE p == request[c]
             step == IF p.step = "charge" THEN "withdraw" ELSE "deposit"
             app == IF p.step = "refuse" THEN p.app ELSE 0
             q == [step |-> step, read |-> row, amount |-> p.amount, app |-> app]
  <2>1. /\ p.step \in {"charge", "refuse"} /\ request' = [request EXCEPT ![c] = q]
        /\ UNCHANGED <<row, charges, stale, negative>>
        BY <1>4 DEF Ledger!ReadBudget
  <2>2. Fits(p, row, charges)
        BY <1>0
  <2> HIDE DEF p
  <2>3. /\ q.step = step /\ q.read = row /\ q.amount = p.amount /\ q.app = app
        OBVIOUS
  <2>4. Fits(q, row, charges)
    <3>1. CASE p.step = "charge"
          BY <1>0, <1>a, <2>2, <2>3, <3>1 DEF Fits, Steps
    <3>2. CASE p.step = "refuse"
          BY <1>0, <1>a, <2>2, <2>3, <3>2 DEF Fits, Steps
    <3>. QED BY <2>1, <3>1, <3>2
  <2> HIDE DEF q
  <2>. QED BY <1>0, <2>1, <2>4, LedgerGoesOn
<1>5. ASSUME Ledger!Fail(c) PROVE LedgerInv'
      BY <1>0, <1>5, IdleFits, LedgerGoesOn DEF Ledger!Fail, Ledger!End
<1>. QED BY <1>1, <1>2, <1>3, <1>4, <1>5

LEMMA LedgerStep == LedgerInv /\ (Ledger!Next \/ UNCHANGED ledgerVars) => LedgerInv'
<1> SUFFICES ASSUME LedgerInv, Ledger!Next \/ UNCHANGED ledgerVars PROVE LedgerInv'
    OBVIOUS
<1>1. CASE UNCHANGED ledgerVars
      BY <1>1 DEF ledgerVars, LedgerInv
<1>2. ASSUME NEW c \in Clerks,
             \/ \E amount \in Requested : Ledger!BeginBundle(c, amount)
             \/ \E i \in DOMAIN charges : Ledger!BeginReject(c, i)
             \/ \E total \in Totals : Ledger!BeginEdit(c, total)
             \/ Ledger!ReadBudget(c) \/ Ledger!WithdrawSingleAsset(c) \/ Ledger!DepositSingleAsset(c)
             \/ Ledger!UpdateBudget(c) \/ Ledger!Fail(c)
      PROVE  LedgerInv'
      BY <1>2, LedgerBegins, LedgerCharges, LedgerRefunds, LedgerEdits
<1>3. ASSUME NEW owner \in {"project", "guild"}, NEW total \in Totals, NEW ratio \in Ratios,
             Ledger!CreateBudget(owner, total, ratio)
      PROVE  LedgerInv'
      BY <1>3, LedgerCreates
<1>. QED BY <1>1, <1>2, <1>3 DEF Ledger!Next

\* While no amount below 0 was accepted, rows, requests and charges are not below 0, and a
\* project with no part in advance is charged nothing.
NotNegative(r) ==
    /\ r.usedAdvance >= 0 /\ r.remainAdvance >= 0
    /\ r.owner = "project" /\ r.ratio = 0 => r.used = 0
FitsSigned(q, r) ==
    /\ q.step \in {"charge", "refuse", "withdraw", "deposit"} => q.amount >= 0
    /\ q.step \in {"charge", "withdraw"} /\ r.owner = "project" /\ r.ratio = 0 => q.amount = 0
    /\ q.step \in {"withdraw", "deposit", "edit"} => NotNegative(q.read)
LedgerSigns ==
    ~negative => /\ NotNegative(row)
                 /\ \A i \in DOMAIN charges : charges[i] >= 0
                 /\ \A c \in Clerks : FitsSigned(request[c], row)

\* Requests that are left alone keep their signs when the budget stays the same.
LEMMA SignedOthers ==
    ASSUME LedgerInv, NEW c \in Clerks, NEW q, request' = [request EXCEPT ![c] = q],
           SameBudget(row', row), FitsSigned(q, row),
           \A d \in Clerks : FitsSigned(request[d], row)
    PROVE  \A d \in Clerks : FitsSigned(request'[d], row')
<1>1. request'[c] = q /\ \A d \in Clerks \ {c} : request'[d] = request[d]
      BY DEF LedgerInv
<1>2. ASSUME NEW p, FitsSigned(p, row) PROVE FitsSigned(p, row')
      BY <1>2 DEF FitsSigned, SameBudget
<1>. QED BY <1>1, <1>2

LEMMA IdleSigned == \A r : FitsSigned(Ledger!Idle, r)
BY DEF FitsSigned, Ledger!Idle

LEMMA SignsStart == Ledger!Init => LedgerSigns
<1> SUFFICES ASSUME Ledger!Init PROVE LedgerSigns
    OBVIOUS
<1>1. row.usedAdvance = 0 /\ row.remainAdvance = 0 /\ row.owner = "nobody"
      BY DEF Ledger!Init, Ledger!NoBudget, Ledger!NewBudget
<1>2. NotNegative(row)
      BY <1>1 DEF NotNegative
<1>3. \A c \in Clerks : FitsSigned(request[c], row)
      BY IdleSigned DEF Ledger!Init
<1>4. DOMAIN charges = {}
      BY EmptySeq DEF Ledger!Init
<1>. QED BY <1>2, <1>3, <1>4 DEF LedgerSigns

LEMMA SignsCreated ==
    ASSUME LedgerInv, LedgerSigns, NEW owner \in {"project", "guild"}, NEW total \in Totals,
           NEW ratio \in Ratios, Ledger!CreateBudget(owner, total, ratio)
    PROVE  LedgerSigns'
<1>1. /\ row = Ledger!NoBudget /\ row' = Ledger!NewBudget(owner, total, ratio)
      /\ UNCHANGED <<charges, request, stale>> /\ (owner # "project" => ratio = 0)
      /\ negative' = (negative \/ row'.totalAdvance < 0)
      BY DEF Ledger!CreateBudget
<1>2. row' \in BudgetRow /\ row'.usedAdvance = 0 /\ row'.used = 0 /\ row'.remainAdvance = row'.totalAdvance
  <2>1. row' \in BudgetRow
        BY <1>1, NewKeepsAdvance
  <2>2. /\ row'.usedAdvance = 0 /\ row'.used = 0 /\ row'.remainAdvance = row'.totalAdvance
    <3> DEFINE advance == IF owner = "project" THEN Ledger!AdvanceOf(total, ratio) ELSE 0
    <3>1. row' = [owner |-> owner, ratio |-> ratio, total |-> total, used |-> 0, remain |-> total,
                  totalAdvance |-> advance, usedAdvance |-> 0, remainAdvance |-> advance]
          BY <1>1 DEF Ledger!NewBudget
    <3> HIDE DEF advance
    <3>. QED BY <3>1
  <2>. QED BY <2>1, <2>2
<1>3. ~negative' => NotNegative(row')
  <2>1. ~negative' => ~(row'.totalAdvance < 0)
        BY <1>1, Zenon
  <2>2. row'.totalAdvance \in Int
        BY <1>2 DEF BudgetRow
  <2>. QED BY <1>2, <2>1, <2>2 DEF NotNegative
<1>4. ASSUME NEW c \in Clerks PROVE FitsSigned(request'[c], row')
  <2>1. row.owner = "nobody"
        BY <1>1 DEF Ledger!NoBudget, Ledger!NewBudget
  <2>2. request[c].step = "idle"
        BY <2>1 DEF LedgerInv, Fits
  <2>. QED BY <1>1, <2>2 DEF FitsSigned
<1>. QED BY <1>1, <1>3, <1>4 DEF LedgerSigns

LEMMA SignsCharged ==
    ASSUME LedgerInv, LedgerSigns, NEW c \in Clerks, Ledger!WithdrawSingleAsset(c)
    PROVE  LedgerSigns'
<1> SUFFICES ASSUME ~negative'
             PROVE  /\ NotNegative(row') /\ \A i \in DOMAIN charges' : charges'[i] >= 0
                    /\ \A d \in Clerks : FitsSigned(request'[d], row')
    BY DEF LedgerSigns
<1> DEFINE q == request[c]
           amount == q.amount
           read == q.read
<1>1. /\ q.step = "withdraw" /\ (read.ratio # 0 => amount <= read.remainAdvance)
      /\ row' = Ledger!Shifted(read, amount) /\ charges' = Append(charges, amount)
      /\ request' = [request EXCEPT ![c] = Ledger!Idle] /\ negative' = negative
      BY DEF Ledger!WithdrawSingleAsset, Ledger!End
<1>2. /\ Fits(q, row, charges) /\ row \in BudgetRow /\ KeepsAdvance(row) /\ charges \in Seq(Int)
      /\ FitsSigned(q, row) /\ NotNegative(row) /\ (\A i \in DOMAIN charges : charges[i] >= 0)
      /\ \A d \in Clerks : FitsSigned(request[d], row)
      BY <1>1 DEF LedgerInv, LedgerSigns
<1>3. /\ amount \in Int /\ read \in BudgetRow /\ KeepsAdvance(read) /\ SameBudget(read, row)
      /\ amount >= 0 /\ NotNegative(read)
      /\ (row.owner = "project" /\ row.ratio = 0 => amount = 0)
      BY <1>1, <1>2 DEF Fits, FitsSigned
<1> HIDE DEF q, amount, read
<1>4. row' = Shift(row, read, amount)
      BY <1>1 DEF Ledger!Shifted, Shift
<1>5. /\ row' \in BudgetRow /\ SameBudget(row', row) /\ row'.used = read.used + amount
      /\ read.ratio = 0 => row'.usedAdvance = 0 /\ row'.remainAdvance = 0
      /\ read.ratio # 0 => /\ row'.usedAdvance = read.usedAdvance + amount
                           /\ row'.remainAdvance = read.remainAdvance - amount
  <2>1. /\ row \in BudgetRow /\ KeepsAdvance(row) /\ read \in BudgetRow /\ KeepsAdvance(read)
        /\ SameBudget(read, row) /\ amount \in Int
        BY <1>2, <1>3, <1>4
  <2>. QED BY <1>4, <2>1, ShiftKeepsAdvance
<1>6. NotNegative(row')
      BY <1>1, <1>3, <1>5 DEF NotNegative, SameBudget, BudgetRow
<1>7. \A i \in DOMAIN charges' : charges'[i] >= 0
  <2>1. /\ DOMAIN charges = 1..Len(charges) /\ DOMAIN charges' = 1..(Len(charges) + 1)
        /\ charges'[Len(charges) + 1] = amount /\ Len(charges) \in Nat
        /\ \A i \in DOMAIN charges : charges'[i] = charges[i]
        BY <1>1, <1>2, <1>3, Added
  <2>2. ASSUME NEW i \in DOMAIN charges' PROVE i = Len(charges) + 1 \/ i \in DOMAIN charges
        BY <2>1
  <2>. QED BY <1>2, <1>3, <2>1, <2>2
<1>8. \A d \in Clerks : FitsSigned(request'[d], row')
      BY <1>1, <1>2, <1>5, IdleSigned, SignedOthers
<1>. QED BY <1>6, <1>7, <1>8

LEMMA SignsRefunded ==
    ASSUME LedgerInv, LedgerSigns, NEW c \in Clerks, Ledger!DepositSingleAsset(c)
    PROVE  LedgerSigns'
<1> SUFFICES ASSUME ~negative'
             PROVE  /\ NotNegative(row') /\ \A i \in DOMAIN charges' : charges'[i] >= 0
                    /\ \A d \in Clerks : FitsSigned(request'[d], row')
    BY DEF LedgerSigns
<1> DEFINE q == request[c]
           amount == q.amount
           read == q.read
           app == q.app
<1>1. /\ q.step = "deposit" /\ amount <= read.used
      /\ (read.ratio # 0 => amount <= read.usedAdvance)
      /\ row' = Ledger!Shifted(read, -amount) /\ charges' = [charges EXCEPT ![app] = 0]
      /\ request' = [request EXCEPT ![c] = Ledger!Idle] /\ negative' = negative
      BY DEF Ledger!DepositSingleAsset, Ledger!End
<1>2. /\ Fits(q, row, charges) /\ row \in BudgetRow /\ KeepsAdvance(row) /\ charges \in Seq(Int)
      /\ FitsSigned(q, row) /\ NotNegative(row) /\ (\A i \in DOMAIN charges : charges[i] >= 0)
      /\ \A d \in Clerks : FitsSigned(request[d], row)
      BY <1>1 DEF LedgerInv, LedgerSigns
<1>3. /\ amount \in Int /\ read \in BudgetRow /\ KeepsAdvance(read) /\ SameBudget(read, row)
      /\ amount >= 0 /\ amount # 0 /\ NotNegative(read) /\ app \in DOMAIN charges
      BY <1>1, <1>2 DEF Fits, FitsSigned
<1> HIDE DEF q, amount, read, app
<1> DEFINE back == -amount
<1>4. row' = Shift(row, read, back) /\ back \in Int
      BY <1>1, <1>3 DEF Ledger!Shifted, Shift
<1>a. back = 0 - amount
      BY <1>3
<1> HIDE DEF back
<1>5. /\ row' \in BudgetRow /\ SameBudget(row', row) /\ row'.used = read.used + back
      /\ read.ratio = 0 => row'.usedAdvance = 0 /\ row'.remainAdvance = 0
      /\ read.ratio # 0 => /\ row'.usedAdvance = read.usedAdvance + back
                           /\ row'.remainAdvance = read.remainAdvance - back
  <2>1. /\ row \in BudgetRow /\ KeepsAdvance(row) /\ read \in BudgetRow /\ KeepsAdvance(read)
        /\ SameBudget(read, row) /\ back \in Int
        BY <1>2, <1>3, <1>4
  <2>. QED BY <1>4, <2>1, ShiftKeepsAdvance
<1>6. NotNegative(row')
      BY <1>1, <1>3, <1>a, <1>5 DEF NotNegative, SameBudget, BudgetRow
<1>7. \A i \in DOMAIN charges' : charges'[i] >= 0
  <2>1. /\ DOMAIN charges' = DOMAIN charges
        /\ charges'[app] = 0 /\ \A i \in DOMAIN charges \ {app} : charges'[i] = charges[i]
        BY <1>1, <1>2, <1>3, Replaced
  <2>. QED BY <1>2, <2>1
<1>8. \A d \in Clerks : FitsSigned(request'[d], row')
      BY <1>1, <1>2, <1>5, IdleSigned, SignedOthers
<1>. QED BY <1>6, <1>7, <1>8

LEMMA SignsEdited ==
    ASSUME LedgerInv, LedgerSigns, NEW c \in Clerks, Ledger!UpdateBudget(c)
    PROVE  LedgerSigns'
<1> DEFINE q == request[c]
           read == q.read
           left == IF read.owner = "project" THEN q.total - read.used ELSE read.remain
<1>1. /\ q.step = "edit" /\ row' = [read EXCEPT !.total = q.total, !.remain = left]
      /\ request' = [request EXCEPT ![c] = Ledger!Idle] /\ UNCHANGED <<charges, negative>>
  <2>1. row' = [read EXCEPT !.total = q.total,
                  !.remain = IF read.owner = "project" THEN q.total - read.used ELSE @]
        BY DEF Ledger!UpdateBudget
  <2>. QED BY <2>1 DEF Ledger!UpdateBudget, Ledger!End
<1>2. Fits(q, row, charges)
      BY DEF LedgerInv
<1>3. read \in BudgetRow /\ SameBudget(read, row)
      BY <1>1, <1>2 DEF Fits
<1> HIDE DEF left
<1>4. /\ row'.used = read.used /\ row'.usedAdvance = read.usedAdvance
      /\ row'.remainAdvance = read.remainAdvance /\ SameBudget(row', row)
      BY <1>1, <1>3 DEF BudgetRow, SameBudget
<1>5. ASSUME ~negative PROVE NotNegative(row')
  <2>1. FitsSigned(q, row)
        BY <1>5 DEF LedgerSigns
  <2>2. NotNegative(read)
        BY <1>1, <2>1 DEF FitsSigned
  <2>. QED BY <1>3, <1>4, <2>2 DEF NotNegative, SameBudget
<1>6. ASSUME ~negative PROVE \A d \in Clerks : FitsSigned(request'[d], row')
  <2>1. \A d \in Clerks : FitsSigned(request[d], row)
        BY <1>6 DEF LedgerSigns
  <2>. QED BY <1>1, <1>4, <2>1, IdleSigned, SignedOthers
<1>. QED BY <1>1, <1>5, <1>6 DEF LedgerSigns

\* A request that goes on or ends without writing the row.
LEMMA SignsGoOn ==
    ASSUME LedgerInv, LedgerSigns, NEW c \in Clerks, NEW q, request' = [request EXCEPT ![c] = q],
           UNCHANGED <<row, charges>>, ~negative' => ~negative /\ FitsSigned(q, row)
    PROVE  LedgerSigns'
<1>1. ASSUME ~negative' PROVE \A d \in Clerks : FitsSigned(request'[d], row')
  <2>1. SameBudget(row', row) /\ FitsSigned(q, row) /\ \A d \in Clerks : FitsSigned(request[d], row)
        BY <1>1 DEF SameBudget, LedgerSigns
  <2>. QED BY <2>1, SignedOthers
<1>. QED BY <1>1 DEF LedgerSigns

LEMMA SignsBegun ==
    ASSUME LedgerInv, LedgerSigns, NEW c \in Clerks,
           \/ \E amount \in Requested : Ledger!BeginBundle(c, amount)
           \/ \E i \in DOMAIN charges : Ledger!BeginReject(c, i)
           \/ \E total \in Totals : Ledger!BeginEdit(c, total)
           \/ Ledger!ReadBudget(c) \/ Ledger!Fail(c)
    PROVE  LedgerSigns'
<1>0. /\ row \in BudgetRow /\ KeepsAdvance(row)
      /\ ~negative => /\ NotNegative(row) /\ FitsSigned(request[c], row)
                      /\ \A i \in DOMAIN charges : charges[i] >= 0
      BY DEF LedgerInv, LedgerSigns
<1>1. ASSUME NEW amount \in Requested, Ledger!BeginBundle(c, amount) PROVE LedgerSigns'
  <2> DEFINE q == [step |-> "charge", amount |-> amount]
  <2>1. /\ row.owner = "project" => amount <= row.remainAdvance
        /\ request' = [request EXCEPT ![c] = q] /\ UNCHANGED <<row, charges>>
        /\ negative' = (negative \/ amount < 0) /\ amount \in Int
        BY <1>1, LedgerAssumption DEF Ledger!BeginBundle, Ledger!Begin, Ledger!Available
  <2>2. ~negative' => FitsSigned(q, row)
    <3>1. row.owner = "project" /\ row.ratio = 0 => row.remainAdvance = 0
          BY <1>0 DEF KeepsAdvance
    <3>2. ~negative' => amount >= 0 /\ (row.owner = "project" /\ row.ratio = 0 => amount = 0)
      <4>1. ~negative' => ~(amount < 0)
            BY <2>1, Zenon
      <4>2. row.owner = "project" /\ row.ratio = 0 => amount <= 0
            BY <2>1, <3>1
      <4>3. amount \in Int
            BY <2>1
      <4>. QED BY <4>1, <4>2, <4>3
    <3>3. q.step = "charge" /\ q.amount = amount
          OBVIOUS
    <3> HIDE DEF q
    <3>. QED BY <3>2, <3>3 DEF FitsSigned
  <2> HIDE DEF q
  <2>. QED BY <2>1, <2>2, SignsGoOn
<1>2. ASSUME NEW i \in DOMAIN charges, Ledger!BeginReject(c, i) PROVE LedgerSigns'
  <2> DEFINE q == [step |-> "refuse", app |-> i, amount |-> charges[i]]
  <2>1. request' = [request EXCEPT ![c] = q] /\ UNCHANGED <<row, charges, negative>>
        BY <1>2 DEF Ledger!BeginReject, Ledger!Begin
  <2>2. ~negative => FitsSigned(q, row)
        BY <1>0 DEF FitsSigned
  <2> HIDE DEF q
  <2>. QED BY <2>1, <2>2, SignsGoOn
<1>3. ASSUME NEW total \in Totals, Ledger!BeginEdit(c, total) PROVE LedgerSigns'
  <2> DEFINE q == [step |-> "edit", total |-> total, read |-> row]
  <2>1. request' = [request EXCEPT ![c] = q] /\ UNCHANGED <<row, charges, negative>>
        BY <1>3 DEF Ledger!BeginEdit, Ledger!Begin
  <2>2. ~negative => FitsSigned(q, row)
        BY <1>0 DEF FitsSigned
  <2> HIDE DEF q
  <2>. QED BY <2>1, <2>2, SignsGoOn
<1>4. ASSUME Ledger!ReadBudget(c) PROVE LedgerSigns'
  <2> DEFINE p == request[c]
             step == IF p.step = "charge" THEN "withdraw" ELSE "deposit"
             app == IF p.step = "refuse" THEN p.app ELSE 0
             q == [step |-> step, read |-> row, amount |-> p.amount, app |-> app]
  <2>1. /\ p.step \in {"charge", "refuse"} /\ request' = [request EXCEPT ![c] = q]
        /\ UNCHANGED <<row, charges, negative>>
        BY <1>4 DEF Ledger!ReadBudget
  <2> HIDE DEF p
  <2>2. ~negative => FitsSigned(q, row)
    <3>1. ~negative => FitsSigned(p, row) /\ NotNegative(row)
          BY <1>0 DEF p
    <3>. QED BY <2>1, <3>1 DEF FitsSigned
  <2> HIDE DEF q
  <2>. QED BY <2>1, <2>2, SignsGoOn
<1>5. ASSUME Ledger!Fail(c) PROVE LedgerSigns'
      BY <1>5, IdleSigned, SignsGoOn DEF Ledger!Fail, Ledger!End
<1>. QED BY <1>1, <1>2, <1>3, <1>4, <1>5

LEMMA SignsStep == LedgerInv /\ LedgerSigns /\ (Ledger!Next \/ UNCHANGED ledgerVars) => LedgerSigns'
<1> SUFFICES ASSUME LedgerInv, LedgerSigns, Ledger!Next \/ UNCHANGED ledgerVars PROVE LedgerSigns'
    OBVIOUS
<1>1. CASE UNCHANGED ledgerVars
      BY <1>1 DEF ledgerVars, LedgerSigns
<1>2. ASSUME NEW c \in Clerks,
             \/ \E amount \in Requested : Ledger!BeginBundle(c, amount)
             \/ \E i \in DOMAIN charges : Ledger!BeginReject(c, i)
             \/ \E total \in Totals : Ledger!BeginEdit(c, total)
             \/ Ledger!ReadBudget(c) \/ Ledger!WithdrawSingleAsset(c) \/ Ledger!DepositSingleAsset(c)
             \/ Ledger!UpdateBudget(c) \/ Ledger!Fail(c)
      PROVE  LedgerSigns'
      BY <1>2, SignsBegun, SignsCharged, SignsRefunded, SignsEdited
<1>3. ASSUME NEW owner \in {"project", "guild"}, NEW total \in Totals, NEW ratio \in Ratios,
             Ledger!CreateBudget(owner, total, ratio)
      PROVE  LedgerSigns'
      BY <1>3, SignsCreated
<1>. QED BY <1>1, <1>2, <1>3 DEF Ledger!Next

LEMMA LedgerHolds == Spec => [](LedgerInv /\ LedgerSigns)
<1>1. Init => LedgerInv /\ LedgerSigns
      BY LedgerStart, SignsStart DEF Init
<1>2. (LedgerInv /\ LedgerSigns) /\ [Next]_vars => (LedgerInv /\ LedgerSigns)'
      BY LedgerStep, SignsStep, OneService
<1>. QED BY <1>1, <1>2, PTL DEF Spec

\* Whatever requests overlap and whatever amounts they ask for, a budget keeps the split of
\* its advance; while no amount below 0 was accepted it stays within it; and while no stale
\* row was written, it balances with what the applications hold.
THEOREM BudgetStaysBalanced == Spec => []BudgetBalances
<1>1. LedgerInv /\ LedgerSigns => BudgetBalances
  <2>1. SUFFICES ASSUME LedgerInv, LedgerSigns PROVE BudgetBalances
        OBVIOUS
  <2>2. Ledger!Charged = SumOf(charges)
        BY DEF Ledger!Charged, Ledger!SumFunction, Ledger!SumFunctionOnSet, Ledger!FoldFunctionOnSet,
               Ledger!MapThenFoldSet, SumOf, SumFunctionOnSet, FoldFunctionOnSet, MapThenFoldSet
  <2>3. /\ row.usedAdvance + row.remainAdvance = row.totalAdvance
        /\ row.owner = "project" /\ row.ratio # 0 => row.used = row.usedAdvance
        /\ row.ratio = 0 => row.usedAdvance = 0
        BY <2>1 DEF LedgerInv, KeepsAdvance
  <2>4. ~negative => /\ row.usedAdvance >= 0 /\ row.remainAdvance >= 0
                     /\ row.owner = "project" => row.used = row.usedAdvance
        BY <2>1, <2>3 DEF LedgerSigns, NotNegative
  <2>. QED BY <2>1, <2>2, <2>3, <2>4 DEF LedgerInv, BudgetBalances, Ledger!BudgetBalances
<1>. QED BY <1>1, LedgerHolds, PTL

----
(* Transfers of an asset. *)

AssetRow == [wallet : Wallets, dealt : Int, processing : Nat]
Log == [from : Wallets, to : Wallets, amount : Nat]
TxSteps == {"idle", "checked", "debited", "absent", "present", "save", "written"}
Positions == SUBSET Nat
Tx == [step : TxSteps, from : Wallets \cup {""}, to : Wallets \cup {""}, amount : Nat, first : BOOLEAN,
       debits : Positions, credits : Positions, saves : Positions,
       read : [wallet : Wallets \cup {""}, dealt : Int, processing : Nat]]

OwnedIn(i, w, rows) == i \in DOMAIN rows /\ rows[i].wallet = w
Owns(i, w) == OwnedIn(i, w, records)
LocksOf(q) == q.debits \cup q.credits \cup q.saves

\* A transaction locks rows of its sender and its receiver, and writes what its step says.
Sound(q, rows) ==
    /\ q \in Tx
    /\ q.step = "idle" => LocksOf(q) = {} /\ ~q.first
    /\ q.step # "idle" => q.from \in Wallets /\ q.to \in Wallets /\ q.from # q.to
    /\ \A i \in q.debits : OwnedIn(i, q.from, rows)
    /\ \A i \in q.credits \cup q.saves : OwnedIn(i, q.to, rows)
    /\ q.step # "written" => q.credits \cup q.saves = {}
    /\ q.step \in {"checked", "debited", "present"} => ~q.first
    /\ q.step \in {"absent", "save"} => q.first
    /\ q.step = "written" => (q.first <=> q.credits = {})
    /\ q.saves # {} => q.first
    /\ q.step \in {"present", "save"} => \E i : OwnedIn(i, q.to, rows)
    /\ q.step \in {"save", "written"} /\ q.first => q.read \in AssetRow /\ q.read.wallet = q.to
    /\ q.step = "written" /\ q.first /\ q.saves = {} => q.read = Assets!Row(q.to, 0, q.amount)

\* For a user whose first payments did not overlap: a first payment finds no row and makes
\* the only one, a transfer locks what it takes and adds to, and finds enough.
Clear(q, w) ==
    /\ q.first /\ q.to = w => (\A i : ~Owns(i, w)) /\ q.step # "save" /\ q.saves = {}
    /\ q.step # "idle" /\ q.from = w =>
         /\ \E i : Owns(i, w)
         /\ \A i : Owns(i, w) => i \in q.debits /\ records[i].dealt >= q.amount
    /\ q.step = "written" /\ ~q.first /\ q.to = w => \A i : Owns(i, w) => i \in q.credits
Settled(w) ==
    /\ \A i, j : Owns(i, w) /\ Owns(j, w) => i = j
    /\ \A i : Owns(i, w) => records[i].dealt >= 0
    /\ Assets!Holding(w, records) = Assets!Holding(w, Opening) + Assets!Net(w, transfers)
    /\ \A t \in Payments : Clear(tx[t], w)
    /\ \A t, u \in Payments : tx[t].first /\ tx[u].first /\ tx[t].to = w /\ tx[u].to = w => t = u

AssetInv ==
    /\ records \in Seq(AssetRow) /\ transfers \in Seq(Log) /\ DOMAIN tx = Payments
    /\ \A t \in Payments : Sound(tx[t], records)
    /\ \A t, u \in Payments : t # u => LocksOf(tx[t]) \cap LocksOf(tx[u]) = {}
    /\ \A w \in Wallets \ raced : Settled(w)

LEMMA NoTxIsSound ==
    /\ \A rows : Sound(Assets!NoTx, rows)
    /\ LocksOf(Assets!NoTx) = {} /\ ~Assets!NoTx.first /\ Assets!NoTx.step = "idle"
<1> DEFINE q == Assets!NoTx
<1>1. /\ q.step = "idle" /\ q.from = "" /\ q.to = "" /\ q.amount = 0 /\ q.first = FALSE
      /\ q.debits = {} /\ q.credits = {} /\ q.saves = {} /\ q.read = Assets!Row("", 0, 0)
      BY DEF Assets!NoTx
<1>2. q \in Tx
  <2>1. Assets!Row("", 0, 0) \in [wallet : Wallets \cup {""}, dealt : Int, processing : Nat]
        BY DEF Assets!Row
  <2>. QED BY <2>1 DEF Assets!NoTx, Tx, TxSteps, Positions
<1> HIDE DEF q
<1>3. \A rows : Sound(q, rows)
      BY <1>1, <1>2 DEF Sound, LocksOf
<1>. QED BY <1>1, <1>3 DEF q, LocksOf

\* What the logs add up to, with a log more.
LEMMA NetOfAppend ==
    ASSUME NEW logs \in Seq(Log), NEW l \in Log, NEW w
    PROVE  /\ Assets!Net(w, Append(logs, l)) =
                Assets!Net(w, logs) + (IF l.to = w THEN l.amount ELSE 0) - (IF l.from = w THEN l.amount ELSE 0)
           /\ Assets!Net(w, logs) \in Int
<1> DEFINE value(m) == (IF m.to = w THEN m.amount ELSE 0) - (IF m.from = w THEN m.amount ELSE 0)
           values(s) == [i \in DOMAIN s |-> value(s[i])]
           more == Append(logs, l)
<1>1. \A m \in Log : value(m) \in Int
  <2>1. \A m \in Log : m.amount \in Int
        BY DEF Log
  <2>. QED BY <2>1
<1>2. /\ Len(logs) \in Nat /\ DOMAIN logs = 1..Len(logs) /\ \A i \in 1..Len(logs) : logs[i] \in Log
      BY LenProperties, ElementOfSeq
<1>3. /\ DOMAIN more = 1..(Len(logs) + 1) /\ more[Len(logs) + 1] = l
      /\ \A i \in DOMAIN logs : more[i] = logs[i]
      BY Added
<1>4. \A s : Assets!Net(w, s) = SumOf(values(s))
  <2>1. \A s : Assets!Net(w, s) = SumFunctionOnSet(values(s), DOMAIN values(s))
        BY DEF Assets!Net, Assets!SumFunction, Assets!SumFunctionOnSet, Assets!FoldFunctionOnSet,
               Assets!MapThenFoldSet, SumFunctionOnSet, FoldFunctionOnSet, MapThenFoldSet
  <2> HIDE DEF values
  <2>. QED BY <2>1 DEF SumOf
<1> HIDE DEF value
<1>5. values(logs) \in Seq(Int) /\ Len(values(logs)) = Len(logs)
  <2>1. values(logs) \in [1..Len(logs) -> Int]
        BY <1>1, <1>2
  <2> DEFINE vs == values(logs)
  <2>2. vs \in [1..Len(logs) -> Int]
        BY <2>1
  <2> HIDE DEF vs
  <2>3. vs \in Seq(Int) /\ Len(vs) = Len(logs)
        BY <1>2, <2>2, SequenceOfLength
  <2>. QED BY <2>3 DEF vs
<1>6. values(more) = Append(values(logs), value(l))
  <2>1. value(l) \in Int
        BY <1>1
  <2>2. /\ Append(values(logs), value(l)) \in Seq(Int)
        /\ DOMAIN Append(values(logs), value(l)) = 1..(Len(logs) + 1)
        /\ Append(values(logs), value(l))[Len(logs) + 1] = value(l)
        /\ \A i \in 1..Len(logs) : Append(values(logs), value(l))[i] = values(logs)[i]
    <3> DEFINE vs == values(logs)
               v == value(l)
    <3>1. vs \in Seq(Int) /\ Len(vs) = Len(logs) /\ v \in Int
          BY <1>5, <2>1
    <3> HIDE DEF vs, v
    <3>2. /\ Append(vs, v) \in Seq(Int) /\ DOMAIN Append(vs, v) = 1..(Len(vs) + 1)
          /\ DOMAIN vs = 1..Len(vs)
          /\ Append(vs, v)[Len(vs) + 1] = v /\ \A i \in DOMAIN vs : Append(vs, v)[i] = vs[i]
          BY <3>1, Added
    <3>. QED BY <3>1, <3>2 DEF vs, v
  <2> DEFINE new == Append(values(logs), value(l))
  <2>3. \A i \in 1..Len(logs) : values(more)[i] = values(logs)[i]
        BY <1>2, <1>3
  <2>4. values(more)[Len(logs) + 1] = value(l) /\ DOMAIN values(more) = 1..(Len(logs) + 1)
        BY <1>2, <1>3
  <2>5. DOMAIN new = 1..(Len(logs) + 1) /\ \A i \in 1..(Len(logs) + 1) : values(more)[i] = new[i]
        BY <1>2, <2>2, <2>3, <2>4
  <2>6. new = [i \in DOMAIN new |-> new[i]] /\ values(more) = [i \in DOMAIN values(more) |-> values(more)[i]]
    <3>1. Len(new) \in Nat /\ new \in [1..Len(new) -> Int]
          BY <2>2, LenProperties
    <3>2. new = [i \in DOMAIN new |-> new[i]]
      <4> HIDE DEF new
      <4>. QED BY <3>1
    <3>. QED BY <3>2
  <2> HIDE DEF new, values
  <2>7. values(more) = new
        BY <2>4, <2>5, <2>6
  <2>. QED BY <2>7 DEF new
<1>7. SumOf(values(more)) = SumOf(values(logs)) + value(l) /\ SumOf(values(logs)) \in Int
  <2>1. value(l) \in Int
        BY <1>1
  <2> HIDE DEF values
  <2>. QED BY <1>5, <1>6, <2>1, SumOfAppend, SumOfType
<1>8. l.amount \in Int
      BY DEF Log
<1>. QED BY <1>4, <1>7, <1>8 DEF value

\* What a user holds with no row, and with one.
LEMMA HoldingOfOne ==
    ASSUME NEW rows \in Seq(AssetRow), NEW w
    PROVE  /\ (\A i : ~OwnedIn(i, w, rows)) => Assets!Holding(w, rows) = 0
           /\ \A i : OwnedIn(i, w, rows) /\ (\A j : OwnedIn(j, w, rows) => i = j) =>
                Assets!Holding(w, rows) = rows[i].dealt + rows[i].processing
<1> DEFINE values == [i \in DOMAIN rows |->
                        IF rows[i].wallet = w THEN rows[i].dealt + rows[i].processing ELSE 0]
<1>1. Assets!Holding(w, rows) = SumFunctionOnSet(values, DOMAIN rows)
      BY DEF Assets!Holding, Assets!SumFunction, Assets!SumFunctionOnSet, Assets!FoldFunctionOnSet,
             Assets!MapThenFoldSet, SumFunctionOnSet, FoldFunctionOnSet, MapThenFoldSet
<1>2. /\ Len(rows) \in Nat /\ DOMAIN rows = 1..Len(rows) /\ IsFiniteSet(DOMAIN rows)
      /\ \A i \in DOMAIN rows : rows[i] \in AssetRow
  <2>1. Len(rows) \in Nat /\ DOMAIN rows = 1..Len(rows) /\ \A i \in 1..Len(rows) : rows[i] \in AssetRow
        BY LenProperties, ElementOfSeq
  <2>. QED BY <2>1, FS_Interval
<1>3. \A i \in DOMAIN rows : /\ OwnedIn(i, w, rows) => values[i] = rows[i].dealt + rows[i].processing
                             /\ ~OwnedIn(i, w, rows) => values[i] = 0
      BY DEF OwnedIn
<1> HIDE DEF values
<1>4. (\A i : ~OwnedIn(i, w, rows)) => SumFunctionOnSet(values, DOMAIN rows) = 0
      BY <1>2, <1>3, SumOfZeros
<1>5. ASSUME NEW i, OwnedIn(i, w, rows), \A j : OwnedIn(j, w, rows) => i = j
      PROVE  SumFunctionOnSet(values, DOMAIN rows) = rows[i].dealt + rows[i].processing
  <2>1. i \in DOMAIN rows /\ rows[i] \in AssetRow
        BY <1>2, <1>5 DEF OwnedIn
  <2>2. values[i] = rows[i].dealt + rows[i].processing /\ values[i] \in Int
        BY <1>3, <1>5, <2>1 DEF AssetRow
  <2>3. \A x \in DOMAIN rows \ {i} : values[x] = 0
        BY <1>3, <1>5
  <2>. QED BY <1>2, <2>1, <2>2, <2>3, SumOfOne
<1>. QED BY <1>1, <1>4, <1>5

\* What a user holds at the start is a number.
LEMMA OpeningIsWhole == \A w : Assets!Holding(w, Opening) \in Int
<1> DEFINE values(w) == [i \in DOMAIN Opening |->
                           IF Opening[i].wallet = w THEN Opening[i].dealt + Opening[i].processing ELSE 0]
<1>1. \A w : Assets!Holding(w, Opening) = SumFunctionOnSet(values(w), DOMAIN Opening)
      BY DEF Assets!Holding, Assets!SumFunction, Assets!SumFunctionOnSet, Assets!FoldFunctionOnSet,
             Assets!MapThenFoldSet, SumFunctionOnSet, FoldFunctionOnSet, MapThenFoldSet
<1>2. DOMAIN Opening = 1..Len(Opening) /\ Len(Opening) \in Nat
      BY AssetAssumption, LenProperties
<1>3. \A i \in DOMAIN Opening : Opening[i].dealt \in Nat /\ Opening[i].processing \in Nat
  <2>1. \A i \in 1..Len(Opening) : Opening[i] \in [wallet : Wallets, dealt : Nat, processing : Nat]
        BY AssetAssumption, ElementOfSeq
  <2>. QED BY <1>2, <2>1
<1>4. IsFiniteSet(DOMAIN Opening)
      BY <1>2, FS_Interval
<1>5. \A w : \A i \in DOMAIN Opening : values(w)[i] \in Int
      BY <1>3
<1> HIDE DEF values
<1>. QED BY <1>1, <1>4, <1>5, SumType

LEMMA AssetStart == Assets!Init => AssetInv
<1> SUFFICES ASSUME Assets!Init PROVE AssetInv
    OBVIOUS
<1>1. /\ records = Opening /\ transfers = << >> /\ raced = {}
      /\ DOMAIN tx = Payments /\ \A t \in Payments : tx[t] = Assets!NoTx
      BY DEF Assets!Init
<1> DEFINE Rows == [wallet : Wallets, dealt : Nat, processing : Nat]
<1>2. /\ Opening \in Seq(AssetRow)
      /\ \A i \in DOMAIN Opening : Opening[i] \in AssetRow /\ Opening[i].dealt >= 0
  <2>1. /\ Opening \in [1..Len(Opening) -> Rows] /\ Len(Opening) \in Nat
        /\ DOMAIN Opening = 1..Len(Opening)
        BY AssetAssumption, LenProperties
  <2>2. \A r \in Rows : r \in AssetRow /\ r.dealt >= 0
        BY DEF AssetRow
  <2> HIDE DEF Rows
  <2>3. Opening \in [1..Len(Opening) -> AssetRow]
        BY <2>1, <2>2
  <2>. QED BY <2>1, <2>2, <2>3, IsASeq
<1>3. transfers \in Seq(Log)
      BY <1>1, EmptySeq
<1>4. \A w : Assets!Net(w, << >>) = 0
  <2> DEFINE value(s, w) == [i \in DOMAIN s |-> (IF s[i].to = w THEN s[i].amount ELSE 0)
                                                  - (IF s[i].from = w THEN s[i].amount ELSE 0)]
  <2>1. \A s, w : Assets!Net(w, s) = SumFunctionOnSet(value(s, w), DOMAIN s)
        BY DEF Assets!Net, Assets!SumFunction, Assets!SumFunctionOnSet, Assets!FoldFunctionOnSet,
               Assets!MapThenFoldSet, SumFunctionOnSet, FoldFunctionOnSet, MapThenFoldSet
  <2> HIDE DEF value
  <2>2. DOMAIN << >> = {} /\ IsFiniteSet({})
        BY FS_EmptySet
  <2>3. \A f : SumFunctionOnSet(f, {}) = 0
        BY <2>2, SumOfZeros
  <2>. QED BY <2>1, <2>2, <2>3
<1>5. \A w : Assets!Holding(w, Opening) \in Int
      BY OpeningIsWhole
<1>6. ASSUME NEW w \in Wallets PROVE Settled(w)
  <2>1. \A i, j : Owns(i, w) /\ Owns(j, w) => i = j
        BY <1>1, AssetAssumption DEF Owns, OwnedIn
  <2>2. \A i : Owns(i, w) => records[i].dealt >= 0
        BY <1>1, <1>2 DEF Owns, OwnedIn
  <2>3. Assets!Holding(w, records) = Assets!Holding(w, Opening) + Assets!Net(w, transfers)
        BY <1>1, <1>4, <1>5
  <2>4. \A t \in Payments : Clear(tx[t], w) /\ ~tx[t].first
        BY <1>1, NoTxIsSound DEF Clear
  <2>. QED BY <2>1, <2>2, <2>3, <2>4 DEF Settled
<1>7. \A t \in Payments : Sound(tx[t], records) /\ LocksOf(tx[t]) = {}
      BY <1>1, NoTxIsSound
<1>. QED BY <1>1, <1>2, <1>3, <1>6, <1>7 DEF AssetInv

\* A step of one transaction, before its commit.
LEMMA AssetMoves ==
    ASSUME AssetInv, NEW t \in Payments, NEW q, tx' = [tx EXCEPT ![t] = q],
           UNCHANGED <<records, transfers>>, raced \subseteq raced', Sound(q, records),
           \A u \in Payments \ {t} : LocksOf(tx[u]) \cap LocksOf(q) = {},
           \A w \in Wallets \ raced' :
             /\ Clear(q, w)
             /\ q.first /\ q.to = w => \A u \in Payments \ {t} : ~(tx[u].first /\ tx[u].to = w)
    PROVE  AssetInv'
<1>1. DOMAIN tx' = Payments /\ tx'[t] = q /\ \A u \in Payments \ {t} : tx'[u] = tx[u]
      BY DEF AssetInv
<1>2. \A u \in Payments : Sound(tx'[u], records')
      BY <1>1 DEF AssetInv
<1>3. \A u, v \in Payments : u # v => LocksOf(tx'[u]) \cap LocksOf(tx'[v]) = {}
      BY <1>1 DEF AssetInv
<1>4. ASSUME NEW w \in Wallets, w \notin raced' PROVE Settled(w)'
  <2>1. Settled(w) /\ Clear(q, w)
        BY <1>4 DEF AssetInv
  <2>2. \A i : Owns(i, w)' <=> Owns(i, w)
        BY DEF Owns
  <2>3. ASSUME NEW p, Clear(p, w) PROVE \A r : r = p => Clear(r, w)'
        BY <2>2, <2>3 DEF Clear
  <2>4. \A u \in Payments : Clear(tx[u], w)'
    <3>1. ASSUME NEW u \in Payments PROVE Clear(tx'[u], w)
          BY <1>1, <2>1 DEF Settled
    <3>. QED BY <2>2, <3>1 DEF Clear
  <2>5. \A u, v \in Payments : tx'[u].first /\ tx'[v].first /\ tx'[u].to = w /\ tx'[v].to = w => u = v
        BY <1>1, <1>4, <2>1 DEF Settled
  <2>. QED BY <2>1, <2>2, <2>4, <2>5 DEF Settled
<1>. QED BY <1>1, <1>2, <1>3, <1>4 DEF AssetInv

\* The first row of a user who has one is one of them, and what is held is not locked twice.
LEMMA FirstIsOwned ==
    ASSUME AssetInv, NEW w, NEW k, Owns(k, w)
    PROVE  Owns(Assets!FirstOf(w), w)
<1> DEFINE S == Assets!RowsOf(w)
           n == Len(records)
<1>1. n \in Nat /\ DOMAIN records = 1..n
      BY LenProperties DEF AssetInv
<1>2. S \in SUBSET (1..n) /\ k \in S /\ \A i \in S : Owns(i, w)
      BY <1>1 DEF Assets!RowsOf, Owns, OwnedIn
<1> HIDE DEF S, n
<1>3. \E x \in S : \A y \in S : x <= y
      BY <1>1, <1>2, MinIsLeast
<1>4. Assets!Min(S) \in S
      BY <1>3 DEF Assets!Min
<1>. QED BY <1>2, <1>4 DEF Assets!FirstOf, S

LEMMA NotHeld ==
    ASSUME AssetInv, NEW t \in Payments, NEW i, ~Assets!Held(t, i)
    PROVE  \A u \in Payments \ {t} : i \notin LocksOf(tx[u])
BY DEF Assets!Held, LocksOf

\* The transaction t as it stands.
LEMMA AtTransaction ==
    ASSUME AssetInv, NEW t \in Payments
    PROVE  /\ tx[t] \in Tx /\ Sound(tx[t], records)
           /\ \A u \in Payments \ {t} : LocksOf(tx[u]) \cap LocksOf(tx[t]) = {}
           /\ \A w \in Wallets \ raced : Settled(w) /\ Clear(tx[t], w)
BY DEF AssetInv, Settled, Sound

LEMMA AssetLocks ==
    ASSUME AssetInv, NEW t \in Payments, NEW from \in Wallets, NEW to \in Wallets, NEW amount \in Amounts,
           Assets!LockSender(t, from, to, amount)
    PROVE  AssetInv'
<1> DEFINE k == Assets!FirstOf(from)
           none == Assets!NoTx
           q == [none EXCEPT !.step = "checked", !.from = from, !.to = to, !.amount = amount, !.debits = {k}]
<1>1. /\ from # to /\ Assets!Checked(t, from, amount) /\ UNCHANGED <<records, transfers, raced>>
      /\ tx' = [tx EXCEPT ![t] = q]
      BY DEF Assets!LockSender
<1>2. Owns(k, from) /\ ~Assets!Held(t, k) /\ records[k].dealt >= amount
  <2>1. \E i : Owns(i, from)
        BY <1>1 DEF Assets!Checked, Assets!RowsOf, Owns, OwnedIn
  <2>. QED BY <1>1, <2>1, FirstIsOwned DEF Assets!Checked
<1>3. amount \in Nat /\ k \in Nat
  <2>1. DOMAIN records = 1..Len(records) /\ Len(records) \in Nat
        BY LenProperties DEF AssetInv
  <2>. QED BY <1>2, <2>1, AssetAssumption DEF Owns, OwnedIn
<1>4. none \in Tx /\ ~none.first /\ none.credits = {} /\ none.saves = {}
      BY NoTxIsSound DEF Sound, LocksOf
<1> HIDE DEF k, none
<1>5. /\ q \in Tx /\ q.step = "checked" /\ q.from = from /\ q.to = to /\ q.amount = amount /\ ~q.first
      /\ q.debits = {k} /\ q.credits = {} /\ q.saves = {}
      BY <1>3, <1>4 DEF Tx, TxSteps, Positions
<1> HIDE DEF q
<1>6. Sound(q, records)
      BY <1>1, <1>2, <1>5 DEF Sound, Owns
<1>7. \A u \in Payments \ {t} : LocksOf(tx[u]) \cap LocksOf(q) = {}
      BY <1>2, <1>5, NotHeld DEF LocksOf
<1>8. ASSUME NEW w \in Wallets \ raced' PROVE Clear(q, w)
  <2>1. \A i, j : Owns(i, w) /\ Owns(j, w) => i = j
        BY <1>1, <1>8 DEF AssetInv, Settled
  <2>. QED BY <1>2, <1>5, <2>1 DEF Clear
<1>. QED BY <1>1, <1>5, <1>6, <1>7, <1>8, AssetMoves

LEMMA AssetDebits ==
    ASSUME AssetInv, NEW t \in Payments, Assets!Debit(t)
    PROVE  AssetInv'
<1> DEFINE p == tx[t]
           rows == Assets!RowsOf(p.from)
           q == [p EXCEPT !.step = "debited", !.debits = rows]
<1>1. /\ p.step = "checked" /\ UNCHANGED <<records, transfers, raced>>
      /\ \A i \in rows : ~Assets!Held(t, i)
      BY DEF Assets!Debit
<1>2. tx' = [tx EXCEPT ![t] = q]
      BY DEF Assets!Debit
<1>3. /\ p \in Tx /\ Sound(p, records) /\ \A w \in Wallets \ raced : Clear(p, w)
      BY AtTransaction
<1>4. rows \in Positions /\ \A i : i \in rows <=> Owns(i, p.from)
  <2>1. DOMAIN records = 1..Len(records) /\ Len(records) \in Nat
        BY LenProperties DEF AssetInv
  <2>. QED BY <2>1 DEF Assets!RowsOf, Owns, OwnedIn, Positions
<1> HIDE DEF p, rows
<1>5. /\ q \in Tx /\ q.step = "debited" /\ q.from = p.from /\ q.to = p.to /\ q.amount = p.amount
      /\ q.first = p.first /\ q.debits = rows /\ q.credits = p.credits /\ q.saves = p.saves
      BY <1>3, <1>4 DEF Tx, TxSteps
<1> HIDE DEF q
<1>6. Sound(q, records)
      BY <1>1, <1>3, <1>4, <1>5 DEF Sound, Owns
<1>7. \A u \in Payments \ {t} : LocksOf(tx[u]) \cap LocksOf(q) = {}
  <2>1. LocksOf(q) = rows
        BY <1>1, <1>3, <1>5 DEF Sound, LocksOf
  <2>. QED BY <1>1, <2>1, NotHeld
<1>8. ASSUME NEW w \in Wallets \ raced'
      PROVE  Clear(q, w) /\ ~q.first
  <2>1. Clear(p, w)
        BY <1>1, <1>3, <1>8
  <2>. QED BY <1>1, <1>3, <1>4, <1>5, <2>1 DEF Clear, Sound
<1>. QED BY <1>1, <1>2, <1>6, <1>7, <1>8, AssetMoves

LEMMA AssetFinds ==
    ASSUME AssetInv, NEW t \in Payments, Assets!FindReceiver(t)
    PROVE  AssetInv'
<1> DEFINE p == tx[t]
<1>0. p.step = "debited" /\ UNCHANGED <<records, transfers>>
      BY DEF Assets!FindReceiver
<1>1. /\ p \in Tx /\ Sound(p, records) /\ \A w \in Wallets \ raced : Clear(p, w)
      /\ \A u \in Payments \ {t} : LocksOf(tx[u]) \cap LocksOf(p) = {}
      BY AtTransaction
<1>2. Assets!RowsOf(p.to) = {} <=> \A i : ~Owns(i, p.to)
      BY DEF Assets!RowsOf, Owns, OwnedIn
<1>3. CASE Assets!RowsOf(p.to) = {}
  <2> DEFINE q == [p EXCEPT !.step = "absent", !.first = TRUE]
             others == {tx[u].to : u \in {v \in Payments \ {t} : tx[v].first /\ tx[v].to = p.to}}
  <2>1. tx' = [tx EXCEPT ![t] = q] /\ raced' = raced \cup others
        BY <1>3 DEF Assets!FindReceiver
  <2>2. \A u \in Payments \ {t} : tx[u].first /\ tx[u].to = p.to => p.to \in raced'
        BY <2>1
  <2>a. raced \subseteq raced'
        BY <2>1
  <2> HIDE DEF p, others
  <2>3. /\ q \in Tx /\ q.step = "absent" /\ q.from = p.from /\ q.to = p.to /\ q.amount = p.amount
        /\ q.first /\ q.debits = p.debits /\ q.credits = p.credits /\ q.saves = p.saves
        BY <1>1 DEF Tx, TxSteps
  <2> HIDE DEF q
  <2>4. Sound(q, records)
        BY <1>0, <1>1, <2>3 DEF Sound
  <2>5. LocksOf(q) = LocksOf(p)
        BY <2>3 DEF LocksOf
  <2>6. ASSUME NEW w \in Wallets \ raced'
        PROVE  /\ Clear(q, w)
               /\ q.first /\ q.to = w => \A u \in Payments \ {t} : ~(tx[u].first /\ tx[u].to = w)
    <3>1. Clear(p, w)
          BY <1>1, <2>a, <2>6
    <3>2. Clear(q, w)
          BY <1>0, <1>1, <1>2, <1>3, <2>3, <3>1 DEF Clear, Sound
    <3>. QED BY <2>2, <2>3, <2>6, <3>2
  <2>7. \A u \in Payments \ {t} : LocksOf(tx[u]) \cap LocksOf(q) = {}
        BY <1>1, <2>5
  <2>. QED BY <1>0, <2>1, <2>a, <2>4, <2>6, <2>7, AssetMoves
<1>4. CASE Assets!RowsOf(p.to) # {}
  <2> DEFINE q == [p EXCEPT !.step = "present"]
  <2>1. tx' = [tx EXCEPT ![t] = q] /\ raced' = raced
        BY <1>4 DEF Assets!FindReceiver
  <2> HIDE DEF p
  <2>2. /\ q \in Tx /\ q.step = "present" /\ q.from = p.from /\ q.to = p.to /\ q.amount = p.amount
        /\ q.first = p.first /\ q.debits = p.debits /\ q.credits = p.credits /\ q.saves = p.saves
        BY <1>1 DEF Tx, TxSteps
  <2> HIDE DEF q
  <2>3. Sound(q, records)
        BY <1>0, <1>1, <1>2, <1>4, <2>2 DEF Sound, Owns
  <2>4. LocksOf(q) = LocksOf(p)
        BY <2>2 DEF LocksOf
  <2>5. ASSUME NEW w \in Wallets \ raced'
        PROVE  Clear(q, w) /\ ~q.first
    <3>1. Clear(p, w)
          BY <1>1, <2>1, <2>5
    <3>. QED BY <1>0, <1>1, <2>2, <3>1 DEF Clear, Sound
  <2>. QED BY <1>0, <1>1, <2>1, <2>3, <2>4, <2>5, AssetMoves
<1>. QED BY <1>3, <1>4

LEMMA AssetCredits ==
    ASSUME AssetInv, NEW t \in Payments, Assets!Credit(t)
    PROVE  AssetInv'
<1> DEFINE p == tx[t]
           rows == Assets!RowsOf(p.to)
           q == [p EXCEPT !.step = "written", !.credits = rows]
<1>1. /\ p.step = "present" /\ UNCHANGED <<records, transfers, raced>>
      /\ \A i \in rows : ~Assets!Held(t, i)
      BY DEF Assets!Credit
<1>2. tx' = [tx EXCEPT ![t] = q]
      BY DEF Assets!Credit
<1>3. /\ p \in Tx /\ Sound(p, records) /\ \A w \in Wallets \ raced : Clear(p, w)
      /\ \A u \in Payments \ {t} : LocksOf(tx[u]) \cap LocksOf(p) = {}
      BY AtTransaction
<1>4. rows \in Positions /\ \A i : i \in rows <=> Owns(i, p.to)
  <2>1. DOMAIN records = 1..Len(records) /\ Len(records) \in Nat
        BY LenProperties DEF AssetInv
  <2>. QED BY <2>1 DEF Assets!RowsOf, Owns, OwnedIn, Positions
<1> HIDE DEF p, rows
<1>5. /\ q \in Tx /\ q.step = "written" /\ q.from = p.from /\ q.to = p.to /\ q.amount = p.amount
      /\ q.first = p.first /\ q.debits = p.debits /\ q.credits = rows /\ q.saves = p.saves
      BY <1>3, <1>4 DEF Tx, TxSteps
<1> HIDE DEF q
<1>6. ~q.first /\ q.saves = {} /\ \E i : i \in rows
      BY <1>1, <1>3, <1>4, <1>5 DEF Sound, Owns
<1>7. Sound(q, records)
      BY <1>1, <1>3, <1>4, <1>5, <1>6 DEF Sound, Owns
<1>8. \A u \in Payments \ {t} : LocksOf(tx[u]) \cap LocksOf(q) = {}
  <2>1. LocksOf(q) \subseteq LocksOf(p) \cup rows
        BY <1>5 DEF LocksOf
  <2>. QED BY <1>1, <1>3, <2>1, NotHeld
<1>9. ASSUME NEW w \in Wallets \ raced' PROVE Clear(q, w)
  <2>1. Clear(p, w)
        BY <1>1, <1>3, <1>9
  <2>. QED BY <1>1, <1>4, <1>5, <1>6, <2>1 DEF Clear
<1>. QED BY <1>1, <1>2, <1>6, <1>7, <1>8, <1>9, AssetMoves

LEMMA AssetRollsBack ==
    ASSUME AssetInv, NEW t \in Payments, tx' = [tx EXCEPT ![t] = Assets!NoTx],
           UNCHANGED <<records, transfers, raced>>
    PROVE  AssetInv'
<1>1. \A w : Clear(Assets!NoTx, w)
      BY NoTxIsSound DEF Clear, Assets!NoTx
<1>2. \A u \in Payments \ {t} : LocksOf(tx[u]) \cap LocksOf(Assets!NoTx) = {}
      BY NoTxIsSound
<1>. QED BY <1>1, <1>2, NoTxIsSound, AssetMoves

LEMMA AssetLooksAgain ==
    ASSUME AssetInv, NEW t \in Payments, Assets!CreateOrUpdate(t)
    PROVE  AssetInv'
<1> DEFINE p == tx[t]
<1>0. p.step = "absent" /\ UNCHANGED <<records, transfers, raced>>
      BY DEF Assets!CreateOrUpdate
<1>1. /\ p \in Tx /\ Sound(p, records) /\ \A w \in Wallets \ raced : Clear(p, w)
      /\ \A u \in Payments \ {t} : LocksOf(tx[u]) \cap LocksOf(p) = {}
      BY AtTransaction
<1>2. \A i : i \in Assets!RowsOf(p.to) <=> Owns(i, p.to)
      BY DEF Assets!RowsOf, Owns, OwnedIn
<1>3. \A w \in Wallets \ raced : p.to = w => \A u \in Payments \ {t} : ~(tx[u].first /\ tx[u].to = w)
  <2>1. p.first
        BY <1>0, <1>1 DEF Sound
  <2>. QED BY <2>1 DEF AssetInv, Settled
<1>4. ASSUME NEW q \in Tx, tx' = [tx EXCEPT ![t] = q], Sound(q, records),
             q.step \in {"save", "written"}, q.step = "save" => \E i : Owns(i, p.to),
             q.from = p.from, q.to = p.to, q.amount = p.amount, q.first = p.first,
             q.debits = p.debits, q.credits = p.credits, q.saves = p.saves
      PROVE  AssetInv'
  <2>1. LocksOf(q) = LocksOf(p)
        BY <1>4 DEF LocksOf
  <2>2. ASSUME NEW w \in Wallets \ raced' PROVE Clear(q, w)
    <3>1. Clear(p, w)
          BY <1>0, <1>1, <2>2
    <3>. QED BY <1>0, <1>1, <1>4, <3>1 DEF Clear, Sound
  <2>3. \A w \in Wallets \ raced' :
          q.first /\ q.to = w => \A u \in Payments \ {t} : ~(tx[u].first /\ tx[u].to = w)
        BY <1>0, <1>3, <1>4
  <2> HIDE DEF p
  <2>4. \A u \in Payments \ {t} : LocksOf(tx[u]) \cap LocksOf(q) = {}
        BY <1>1, <2>1
  <2>5. raced \subseteq raced'
        BY <1>0
  <2>. QED BY <1>0, <1>4, <2>2, <2>3, <2>4, <2>5, AssetMoves
<1>5. CASE /\ Assets!RowsOf(p.to) = {}
           /\ tx' = [tx EXCEPT ![t].step = "written", ![t].read = Assets!Row(p.to, 0, p.amount)]
  <2> DEFINE fresh == Assets!Row(p.to, 0, p.amount)
             q == [p EXCEPT !.step = "written", !.read = fresh]
  <2>1. tx' = [tx EXCEPT ![t] = q]
        BY <1>5 DEF AssetInv
  <2>2. fresh \in AssetRow /\ fresh.wallet = p.to
    <3> HIDE DEF p
    <3>1. p.to \in Wallets /\ p.amount \in Nat
          BY <1>0, <1>1 DEF Sound, Tx
    <3>. QED BY <3>1 DEF Assets!Row, AssetRow
  <2> HIDE DEF fresh, p
  <2>3. /\ q \in Tx /\ q.step = "written" /\ q.from = p.from /\ q.to = p.to /\ q.amount = p.amount
        /\ q.first = p.first /\ q.debits = p.debits /\ q.credits = p.credits /\ q.saves = p.saves
        /\ q.read = fresh
    <3>1. fresh \in [wallet : Wallets \cup {""}, dealt : Int, processing : Nat]
          BY <2>2 DEF AssetRow
    <3>. QED BY <1>1, <3>1 DEF Tx, TxSteps
  <2> HIDE DEF q
  <2>4. Sound(q, records)
        BY <1>0, <1>1, <2>2, <2>3 DEF Sound, fresh
  <2>. QED BY <1>4, <2>1, <2>3, <2>4
<1>6. ASSUME NEW i \in Assets!RowsOf(p.to),
             tx' = [tx EXCEPT ![t].step = "save", ![t].read = [records[i] EXCEPT !.processing = @ + p.amount]]
      PROVE  AssetInv'
  <2> DEFINE old == records[i]
             more == old.processing + p.amount
             fresh == [old EXCEPT !.processing = more]
             q == [p EXCEPT !.step = "save", !.read = fresh]
  <2>1. tx' = [tx EXCEPT ![t] = q]
        BY <1>6 DEF AssetInv
  <2>2. old \in AssetRow /\ old.wallet = p.to /\ Owns(i, p.to)
    <3>1. \A j \in DOMAIN records : records[j] \in AssetRow
      <4>1. DOMAIN records = 1..Len(records) /\ \A j \in 1..Len(records) : records[j] \in AssetRow
            BY LenProperties, ElementOfSeq DEF AssetInv
      <4>. QED BY <4>1
    <3>. QED BY <1>2, <1>6, <3>1 DEF Owns, OwnedIn
  <2> HIDE DEF old, p
  <2>3. more \in Nat
    <3>1. old.processing \in Nat /\ p.amount \in Nat
          BY <1>1, <2>2 DEF Tx, AssetRow
    <3>. QED BY <3>1
  <2> HIDE DEF more
  <2>4. fresh \in AssetRow /\ fresh.wallet = p.to
        BY <2>2, <2>3 DEF AssetRow
  <2> HIDE DEF fresh
  <2>5. /\ q \in Tx /\ q.step = "save" /\ q.from = p.from /\ q.to = p.to /\ q.amount = p.amount
        /\ q.first = p.first /\ q.debits = p.debits /\ q.credits = p.credits /\ q.saves = p.saves
        /\ q.read = fresh
    <3>1. fresh \in [wallet : Wallets \cup {""}, dealt : Int, processing : Nat]
          BY <2>4 DEF AssetRow
    <3>. QED BY <1>1, <3>1 DEF Tx, TxSteps
  <2> HIDE DEF q
  <2>6. Sound(q, records)
        BY <1>0, <1>1, <2>2, <2>4, <2>5 DEF Sound, Owns
  <2>. QED BY <1>4, <2>1, <2>2, <2>5, <2>6
<1>7. CASE tx' = [tx EXCEPT ![t] = Assets!NoTx]
      BY <1>0, <1>7, AssetRollsBack
<1>. QED BY <1>5, <1>6, <1>7 DEF Assets!CreateOrUpdate

LEMMA AssetSaves ==
    ASSUME AssetInv, NEW t \in Payments, Assets!SaveReceiver(t)
    PROVE  AssetInv'
<1> DEFINE p == tx[t]
           k == Assets!FirstOf(p.to)
           q == [p EXCEPT !.step = "written", !.saves = {k}]
<1>1. p.step = "save" /\ UNCHANGED <<records, transfers, raced>> /\ ~Assets!Held(t, k)
      BY DEF Assets!SaveReceiver
<1>2. tx' = [tx EXCEPT ![t] = q]
      BY DEF Assets!SaveReceiver
<1>3. /\ p \in Tx /\ Sound(p, records) /\ \A w \in Wallets \ raced : Clear(p, w)
      /\ \A u \in Payments \ {t} : LocksOf(tx[u]) \cap LocksOf(p) = {}
      BY AtTransaction
<1>4. Owns(k, p.to) /\ k \in Nat
  <2>1. \E i : Owns(i, p.to)
        BY <1>1, <1>3 DEF Sound, Owns
  <2>2. Owns(k, p.to)
        BY <2>1, FirstIsOwned
  <2>3. DOMAIN records = 1..Len(records) /\ Len(records) \in Nat
        BY LenProperties DEF AssetInv
  <2>. QED BY <2>2, <2>3 DEF Owns, OwnedIn
<1> HIDE DEF p, k
<1>5. /\ q \in Tx /\ q.step = "written" /\ q.from = p.from /\ q.to = p.to /\ q.amount = p.amount
      /\ q.first = p.first /\ q.debits = p.debits /\ q.credits = p.credits /\ q.saves = {k}
      /\ q.read = p.read
      BY <1>3, <1>4 DEF Tx, TxSteps, Positions
<1> HIDE DEF q
<1>6. Sound(q, records) /\ q.first
      BY <1>1, <1>3, <1>4, <1>5 DEF Sound, Owns
<1>7. \A u \in Payments \ {t} : LocksOf(tx[u]) \cap LocksOf(q) = {}
  <2>1. LocksOf(q) \subseteq LocksOf(p) \cup {k}
        BY <1>5 DEF LocksOf
  <2>. QED BY <1>1, <1>3, <2>1, NotHeld
<1>8. ASSUME NEW w \in Wallets \ raced' PROVE Clear(q, w) /\ q.to # w
  <2>1. Clear(p, w)
        BY <1>1, <1>3, <1>8
  <2>2. q.to # w
        BY <1>1, <1>3, <1>5, <1>6, <2>1 DEF Clear
  <2>. QED BY <1>1, <1>5, <1>6, <2>1, <2>2 DEF Clear
<1>. QED BY <1>1, <1>2, <1>6, <1>7, <1>8, AssetMoves

\* The rows after a commit: those that were locked are written, and one may be new.
Creates(q) == q.credits \cup q.saves = {}

LEMMA RowsAfterCommit ==
    ASSUME AssetInv, NEW t \in Payments, Assets!Commit(t)
    PROVE  /\ records' \in Seq(AssetRow) /\ Len(records) \in Nat
           /\ \A i, w : Owns(i, w) => Owns(i, w)'
           /\ \A i, w : Owns(i, w)' => \/ Owns(i, w)
                                       \/ /\ Creates(tx[t]) /\ w = tx[t].to /\ i = Len(records) + 1
                                          /\ records'[i] = tx[t].read
           /\ Creates(tx[t]) => OwnedIn(Len(records) + 1, tx[t].to, records')
           /\ \A i \in DOMAIN records :
                /\ i \in tx[t].debits =>
                     /\ records'[i].dealt = records[i].dealt - tx[t].amount
                     /\ records'[i].processing = records[i].processing
                /\ i \in tx[t].credits =>
                     /\ records'[i].dealt = records[i].dealt + tx[t].amount
                     /\ records'[i].processing = records[i].processing
                /\ i \notin LocksOf(tx[t]) => records'[i] = records[i]
<1> DEFINE p == tx[t]
           base == [i \in DOMAIN records |-> Assets!Written(t, i)]
           n == Len(records)
<1>1. /\ p.step = "written" /\ records' = base \o Assets!Created(t)
      BY DEF Assets!Commit
<1>2. /\ p \in Tx /\ Sound(p, records)
      BY AtTransaction
<1>3. /\ n \in Nat /\ DOMAIN records = 1..n /\ \A i \in 1..n : records[i] \in AssetRow
      BY LenProperties, ElementOfSeq DEF AssetInv
<1>4. \A i \in DOMAIN records :
        base[i] = IF i \in p.debits THEN [records[i] EXCEPT !.dealt = @ - p.amount]
                  ELSE IF i \in p.credits THEN [records[i] EXCEPT !.dealt = @ + p.amount]
                  ELSE IF i \in p.saves THEN p.read
                  ELSE records[i]
      BY DEF Assets!Written
<1>5. DOMAIN base = 1..n
      BY <1>3
<1>6. Assets!Created(t) = IF Creates(p) THEN <<p.read>> ELSE << >>
      BY DEF Assets!Created, Creates
<1> HIDE DEF p, base, n
<1>7. /\ p.amount \in Nat /\ p.from # p.to /\ p.to \in Wallets
      /\ \A i \in p.debits : i \in DOMAIN records /\ records[i].wallet = p.from
      /\ \A i \in p.credits \cup p.saves : i \in DOMAIN records /\ records[i].wallet = p.to
      /\ p.saves # {} => p.credits = {} /\ p.read \in AssetRow /\ p.read.wallet = p.to
      /\ Creates(p) => p.read \in AssetRow /\ p.read.wallet = p.to
  <2>1. p.amount \in Nat
        BY <1>2 DEF Tx
  <2>. QED BY <1>1, <1>2, <2>1 DEF Sound, OwnedIn, Creates
<1>8. ASSUME NEW i \in DOMAIN records
      PROVE  /\ base[i] \in AssetRow /\ base[i].wallet = records[i].wallet
             /\ i \in p.debits => base[i].dealt = records[i].dealt - p.amount
                                  /\ base[i].processing = records[i].processing
             /\ i \in p.credits => base[i].dealt = records[i].dealt + p.amount
                                   /\ base[i].processing = records[i].processing
             /\ i \notin LocksOf(p) => base[i] = records[i]
  <2> DEFINE old == records[i]
             less == old.dealt - p.amount
             more == old.dealt + p.amount
  <2>1. old \in AssetRow
        BY <1>3
  <2>2. less \in Int /\ more \in Int
    <3>1. old.dealt \in Int
          BY <2>1 DEF AssetRow
    <3>. QED BY <1>7, <3>1
  <2>3. base[i] = IF i \in p.debits THEN [old EXCEPT !.dealt = less]
                  ELSE IF i \in p.credits THEN [old EXCEPT !.dealt = more]
                  ELSE IF i \in p.saves THEN p.read
                  ELSE old
        BY <1>4
  <2>4. /\ i \in p.debits => i \notin p.credits \cup p.saves
        /\ i \in p.saves => old.wallet = p.to /\ p.read \in AssetRow /\ p.read.wallet = p.to
        BY <1>7
  <2>5. /\ i \in p.debits => base[i] = [old EXCEPT !.dealt = less]
        /\ i \in p.credits => base[i] = [old EXCEPT !.dealt = more]
        BY <2>3, <2>4
  <2>6. /\ base[i] \in AssetRow /\ base[i].wallet = old.wallet
        /\ i \in p.debits => base[i].dealt = less /\ base[i].processing = old.processing
        /\ i \in p.credits => base[i].dealt = more /\ base[i].processing = old.processing
    <3> HIDE DEF old, less, more
    <3>1. CASE i \in p.debits
          BY <2>1, <2>2, <2>4, <2>5, <3>1 DEF AssetRow
    <3>2. CASE i \in p.credits
          BY <2>1, <2>2, <2>4, <2>5, <3>2 DEF AssetRow
    <3>3. CASE i \notin p.debits \cup p.credits
          BY <2>1, <2>3, <2>4, <3>3
    <3>. QED BY <3>1, <3>2, <3>3
  <2>7. i \notin LocksOf(p) => base[i] = old
        BY <2>3 DEF LocksOf
  <2>. QED BY <2>6, <2>7
<1>9. base \in Seq(AssetRow) /\ Len(base) = n
  <2>1. base = [i \in 1..n |-> base[i]]
        BY <1>3 DEF base
  <2>2. base \in [1..n -> AssetRow]
        BY <1>3, <1>8, <2>1
  <2>. QED BY <1>3, <2>2, SequenceOfLength
<1>10. CASE Creates(p)
  <2>1. records' = Append(base, p.read)
        BY <1>1, <1>6, <1>7, <1>9, <1>10, AppendIsConcat
  <2>2. /\ records' \in Seq(AssetRow) /\ DOMAIN records' = 1..(n + 1) /\ records'[n + 1] = p.read
        /\ \A i \in 1..n : records'[i] = base[i]
        BY <1>5, <1>7, <1>9, <1>10, <2>1, Added
  <2>3. \A i \in DOMAIN records' : i \in DOMAIN records \/ i = n + 1
        BY <1>3, <2>2
  <2>4. \A i \in DOMAIN records : i \in DOMAIN records' /\ records'[i] = base[i]
        BY <1>3, <2>2
  <2>5. \A i, w : Owns(i, w) => Owns(i, w)'
        BY <1>8, <2>4 DEF Owns, OwnedIn
  <2>6. \A i, w : Owns(i, w)' => \/ Owns(i, w)
                                 \/ Creates(p) /\ w = p.to /\ i = n + 1 /\ records'[i] = p.read
        BY <1>7, <1>8, <1>10, <2>2, <2>3, <2>4 DEF Owns, OwnedIn
  <2>7. OwnedIn(n + 1, p.to, records')
    <3>1. n + 1 \in DOMAIN records'
          BY <1>3, <2>2
    <3>. QED BY <1>7, <1>10, <2>2, <3>1 DEF OwnedIn
  <2>. QED BY <1>3, <1>8, <2>2, <2>4, <2>5, <2>6, <2>7 DEF p, n
<1>11. CASE ~Creates(p)
  <2>1. records' = base
        BY <1>1, <1>6, <1>9, <1>11, ConcatEmptySeq
  <2>2. records' \in Seq(AssetRow) /\ DOMAIN records' = DOMAIN records
        BY <1>3, <1>5, <1>9, <2>1
  <2>3. \A i, w : Owns(i, w)' <=> Owns(i, w)
        BY <1>8, <2>1, <2>2 DEF Owns, OwnedIn
  <2>. QED BY <1>3, <1>8, <1>11, <2>1, <2>2, <2>3 DEF p, n
<1>. QED BY <1>10, <1>11

LEMMA AmountOfTx == \A q : q \in Tx => q.amount \in Nat
<1> SUFFICES ASSUME NEW q, q \in Tx PROVE q.amount \in Nat
    OBVIOUS
<1> DEFINE S == Wallets \cup {""}
           R == [wallet : S, dealt : Int, processing : Nat]
<1>1. q \in [step : TxSteps, from : S, to : S, amount : Nat, first : BOOLEAN,
             debits : Positions, credits : Positions, saves : Positions, read : R]
      BY DEF Tx
<1> HIDE DEF S, R
<1>. QED BY <1>1

\* A commit changes what a user holds by its log, and takes no more than the user has.
LEMMA AssetShifts ==
    ASSUME AssetInv, NEW t \in Payments, Assets!Commit(t), NEW w \in Wallets \ raced
    PROVE  /\ \A i, j : Owns(i, w)' /\ Owns(j, w)' => i = j
           /\ \A i : Owns(i, w)' => records'[i].dealt >= 0
           /\ Assets!Holding(w, records') = Assets!Holding(w, records)
                + (IF tx[t].to = w THEN tx[t].amount ELSE 0) - (IF tx[t].from = w THEN tx[t].amount ELSE 0)
<1> DEFINE p == tx[t]
           n == Len(records)
           before == Assets!Holding(w, records)
           after == Assets!Holding(w, records')
<1>1. /\ p.step = "written" /\ p \in Tx /\ Sound(p, records) /\ Clear(p, w)
      BY AtTransaction DEF Assets!Commit
<1>2. /\ \A i, j : Owns(i, w) /\ Owns(j, w) => i = j
      /\ \A i : Owns(i, w) => records[i].dealt >= 0
      BY DEF AssetInv, Settled
<1>3. /\ records' \in Seq(AssetRow) /\ records \in Seq(AssetRow) /\ n \in Nat
      /\ \A i : Owns(i, w) => Owns(i, w)'
      /\ \A i : Owns(i, w)' => \/ Owns(i, w)
                               \/ Creates(p) /\ w = p.to /\ i = n + 1 /\ records'[i] = p.read
      /\ Creates(p) => OwnedIn(n + 1, p.to, records')
      /\ \A i \in DOMAIN records :
           /\ i \in p.debits => /\ records'[i].dealt = records[i].dealt - p.amount
                                /\ records'[i].processing = records[i].processing
           /\ i \in p.credits => /\ records'[i].dealt = records[i].dealt + p.amount
                                 /\ records'[i].processing = records[i].processing
           /\ i \notin LocksOf(p) => records'[i] = records[i]
      BY RowsAfterCommit DEF AssetInv
<1>4. /\ p.amount \in Nat /\ p.from # p.to /\ (p.first <=> p.credits = {})
      /\ Creates(p) => p.first
      /\ \A i : i \in LocksOf(p) => OwnedIn(i, p.from, records) \/ OwnedIn(i, p.to, records)
  <2>1. p.amount \in Nat
        BY <1>1, AmountOfTx
  <2>. QED BY <1>1, <2>1 DEF Sound, Creates, LocksOf
<1>5. /\ (\A i : ~Owns(i, w)) => before = 0
      /\ \A i : Owns(i, w) => before = records[i].dealt + records[i].processing
      BY <1>2, <1>3, HoldingOfOne DEF Owns
<1>6. /\ (\A i : ~Owns(i, w)') => after = 0
      /\ \A i : Owns(i, w)' /\ (\A j : Owns(j, w)' => i = j) =>
           after = records'[i].dealt + records'[i].processing
      BY <1>3, HoldingOfOne DEF Owns
<1>7. \A i : Owns(i, w) => i \in DOMAIN records /\ records[i].dealt \in Int /\ records[i].processing \in Int
  <2>1. DOMAIN records = 1..n /\ \A i \in 1..n : records[i] \in AssetRow
        BY <1>3, LenProperties, ElementOfSeq
  <2>. QED BY <2>1 DEF Owns, OwnedIn, AssetRow
<1> DEFINE Goal == /\ \A i, j : Owns(i, w)' /\ Owns(j, w)' => i = j
                   /\ \A i : Owns(i, w)' => records'[i].dealt >= 0
                   /\ after = before + (IF p.to = w THEN p.amount ELSE 0)
                                     - (IF p.from = w THEN p.amount ELSE 0)
<1> SUFFICES Goal
    OBVIOUS
<1> HIDE DEF p, n, before, after
<1>8. CASE w = p.from
  <2>1. PICK k : Owns(k, w)
        BY <1>1, <1>8 DEF Clear
  <2>2. k \in p.debits /\ records[k].dealt >= p.amount
        BY <1>1, <1>8, <2>1 DEF Clear
  <2>3. \A i : Owns(i, w)' <=> i = k
        BY <1>2, <1>3, <1>4, <1>8, <2>1
  <2>4. records'[k].dealt = records[k].dealt - p.amount /\ records'[k].processing = records[k].processing
        BY <1>3, <1>7, <2>1, <2>2
  <2>5. after = records'[k].dealt + records'[k].processing /\ before = records[k].dealt + records[k].processing
        BY <1>5, <1>6, <2>1, <2>3
  <2>. QED BY <1>4, <1>7, <1>8, <2>1, <2>2, <2>3, <2>4, <2>5
<1>9. CASE w = p.to /\ p.first
  <2>1. (\A i : ~Owns(i, w)) /\ p.saves = {}
        BY <1>1, <1>9 DEF Clear
  <2>2. Creates(p) /\ p.read = Assets!Row(p.to, 0, p.amount)
    <3>1. Creates(p)
          BY <1>4, <1>9, <2>1 DEF Creates
    <3>2. p.step = "written" /\ p.first /\ p.saves = {} => p.read = Assets!Row(p.to, 0, p.amount)
          BY <1>1 DEF Sound
    <3>. QED BY <1>1, <1>9, <2>1, <3>1, <3>2
  <2>3. \A i : i = n + 1 => Owns(i, w)'
        BY <1>3, <1>9, <2>2 DEF Owns
  <2>4. (\A i : Owns(i, w)' <=> i = n + 1) /\ records'[n + 1] = p.read
        BY <1>3, <2>1, <2>3
  <2>5. p.read.dealt = 0 /\ p.read.processing = p.amount
        BY <2>2 DEF Assets!Row
  <2>6. after = p.read.dealt + p.read.processing /\ before = 0
        BY <1>5, <1>6, <2>1, <2>3, <2>4
  <2>. QED BY <1>4, <1>9, <2>4, <2>5, <2>6
<1>10. CASE w = p.to /\ ~p.first
  <2>1. PICK k \in p.credits : TRUE
        BY <1>4, <1>10
  <2>2. Owns(k, w)
        BY <1>1, <1>10, <2>1 DEF Sound, Owns
  <2>3. \A i : Owns(i, w)' <=> i = k
        BY <1>2, <1>3, <1>4, <1>10, <2>2
  <2>4. records'[k].dealt = records[k].dealt + p.amount /\ records'[k].processing = records[k].processing
        BY <1>3, <1>7, <2>1, <2>2
  <2>5. after = records'[k].dealt + records'[k].processing /\ before = records[k].dealt + records[k].processing
        BY <1>5, <1>6, <2>2, <2>3
  <2>. QED BY <1>2, <1>4, <1>7, <1>10, <2>2, <2>3, <2>4, <2>5
<1>11. CASE w # p.from /\ w # p.to
  <2>1. \A i : Owns(i, w)' <=> Owns(i, w)
        BY <1>3, <1>11
  <2>2. \A i : Owns(i, w) => records'[i] = records[i]
        BY <1>3, <1>4, <1>7, <1>11 DEF Owns, OwnedIn
  <2>3. after = before
        BY <1>2, <1>5, <1>6, <2>1, <2>2
  <2>4. before \in Int
        BY <1>5, <1>7
  <2>. QED BY <1>2, <1>11, <2>1, <2>2, <2>3, <2>4
<1>. QED BY <1>8, <1>9, <1>10, <1>11

\* A commit leaves the transactions that are still open as they were.
LEMMA AssetSpares ==
    ASSUME AssetInv, NEW t \in Payments, Assets!Commit(t), NEW w \in Wallets \ raced,
           NEW u \in Payments \ {t}
    PROVE  Clear(tx[u], w)'
<1> DEFINE p == tx[t]
           q == tx[u]
<1>1. /\ p.step = "written" /\ Sound(p, records) /\ Clear(p, w) /\ LocksOf(q) \cap LocksOf(p) = {}
      BY AtTransaction DEF Assets!Commit
<1>2. Sound(q, records) /\ Clear(q, w)
      BY AtTransaction
<1>3. ~(p.first /\ q.first /\ p.to = w /\ q.to = w)
      BY DEF AssetInv, Settled
<1>4. /\ \A i : Owns(i, w) => Owns(i, w)' /\ i \in DOMAIN records
      /\ \A i : Owns(i, w)' => Owns(i, w) \/ (Creates(p) /\ w = p.to)
      /\ \A i \in DOMAIN records : i \notin LocksOf(p) => records'[i] = records[i]
      BY RowsAfterCommit DEF Owns, OwnedIn
<1>5. tx'[u] = q
      BY DEF Assets!Commit, AssetInv
<1> HIDE DEF p, q
<1>6. Creates(p) /\ w = p.to => p.first /\ \A i : ~Owns(i, w)
      BY <1>1 DEF Sound, Creates, Clear
<1>7. q.first /\ q.to = w => (\A i : ~Owns(i, w)') /\ q.step # "save" /\ q.saves = {}
      BY <1>2, <1>3, <1>4, <1>6 DEF Clear
<1>8. ASSUME q.step # "idle", q.from = w
      PROVE  /\ \E i : Owns(i, w)'
             /\ \A i : Owns(i, w)' => i \in q.debits /\ records'[i].dealt >= q.amount
  <2>1. /\ \E i : Owns(i, w)
        /\ \A i : Owns(i, w) => i \in q.debits /\ records[i].dealt >= q.amount
        BY <1>2, <1>8 DEF Clear
  <2>2. \A i : Owns(i, w) => records'[i] = records[i]
        BY <1>1, <1>4, <2>1 DEF LocksOf
  <2>. QED BY <1>4, <1>6, <2>1, <2>2
<1>9. ASSUME q.step = "written", ~q.first, q.to = w
      PROVE  \A i : Owns(i, w)' => i \in q.credits
  <2>1. \E i : Owns(i, w)
        BY <1>2, <1>9 DEF Sound, Owns
  <2>. QED BY <1>2, <1>4, <1>6, <1>9, <2>1 DEF Clear
<1>10. \A r : r = q => Clear(r, w)'
      BY <1>7, <1>8, <1>9 DEF Clear
<1>. QED BY <1>5, <1>10

LEMMA AssetCommits ==
    ASSUME AssetInv, NEW t \in Payments, Assets!Commit(t)
    PROVE  AssetInv'
<1> DEFINE p == tx[t]
           none == Assets!NoTx
           log == [from |-> p.from, to |-> p.to, amount |-> p.amount]
<1>1. /\ p.step = "written" /\ transfers' = Append(transfers, log) /\ raced' = raced
      /\ tx' = [tx EXCEPT ![t] = none]
      BY DEF Assets!Commit
<1>2. DOMAIN tx' = Payments /\ tx'[t] = none /\ \A u \in Payments \ {t} : tx'[u] = tx[u]
      BY <1>1 DEF AssetInv
<1>3. /\ records' \in Seq(AssetRow) /\ \A i, w : Owns(i, w) => Owns(i, w)'
      BY RowsAfterCommit
<1>4. p \in Tx /\ Sound(p, records)
      BY AtTransaction
<1>5. /\ \A rows : Sound(none, rows)
      /\ LocksOf(none) = {} /\ ~none.first /\ none.step = "idle"
      BY NoTxIsSound
<1> HIDE DEF p, none
<1>6. log \in Log
  <2>1. p.from \in Wallets /\ p.to \in Wallets
        BY <1>1, <1>4 DEF Sound
  <2>2. p.amount \in Nat
        BY <1>4, AmountOfTx
  <2>. QED BY <2>1, <2>2 DEF Log
<1>7. log.from = p.from /\ log.to = p.to /\ log.amount = p.amount
      OBVIOUS
<1> HIDE DEF log
<1>8. transfers' \in Seq(Log)
      BY <1>1, <1>6, AppendProperties DEF AssetInv
<1>9. \A u \in Payments : Sound(tx'[u], records')
  <2>1. \A i, w : OwnedIn(i, w, records) => OwnedIn(i, w, records')
        BY <1>3 DEF Owns
  <2>2. ASSUME NEW q, Sound(q, records) PROVE Sound(q, records')
        BY <2>1, <2>2 DEF Sound
  <2>. QED BY <1>2, <1>5, <2>2 DEF AssetInv
<1>10. \A u, v \in Payments : u # v => LocksOf(tx'[u]) \cap LocksOf(tx'[v]) = {}
      BY <1>2, <1>5 DEF AssetInv
<1>11. ASSUME NEW w \in Wallets, w \notin raced' PROVE Settled(w)'
  <2>1. w \in Wallets \ raced /\ Settled(w)
        BY <1>1, <1>11 DEF AssetInv
  <2>2. /\ \A i, j : Owns(i, w)' /\ Owns(j, w)' => i = j
        /\ \A i : Owns(i, w)' => records'[i].dealt >= 0
        /\ Assets!Holding(w, records') = Assets!Holding(w, records)
             + (IF p.to = w THEN p.amount ELSE 0) - (IF p.from = w THEN p.amount ELSE 0)
        BY <2>1, AssetShifts DEF p
  <2>3. Assets!Holding(w, records') = Assets!Holding(w, Opening) + Assets!Net(w, transfers')
    <3>1. /\ Assets!Net(w, transfers') = Assets!Net(w, transfers)
               + (IF p.to = w THEN p.amount ELSE 0) - (IF p.from = w THEN p.amount ELSE 0)
          /\ Assets!Net(w, transfers) \in Int
          BY <1>1, <1>6, <1>7, NetOfAppend DEF AssetInv
    <3>2. Assets!Holding(w, records) = Assets!Holding(w, Opening) + Assets!Net(w, transfers)
          BY <2>1 DEF Settled
    <3>3. p.amount \in Int /\ Assets!Holding(w, Opening) \in Int
          BY <1>4, AmountOfTx, OpeningIsWhole
    <3>. QED BY <2>2, <3>1, <3>2, <3>3
  <2>4. \A u \in Payments : Clear(tx[u], w)'
    <3>1. \A u \in Payments \ {t} : Clear(tx[u], w)'
          BY <2>1, AssetSpares
    <3>2. Clear(tx[t], w)'
      <4>1. none.step # "written"
            BY <1>5
      <4>2. \A r : r = none => Clear(r, w)'
            BY <1>5, <4>1 DEF Clear
      <4>. QED BY <1>2, <4>2
    <3>. QED BY <3>1, <3>2
  <2>5. \A u, v \in Payments : tx'[u].first /\ tx'[v].first /\ tx'[u].to = w /\ tx'[v].to = w => u = v
        BY <1>2, <1>5, <2>1 DEF Settled
  <2>. QED BY <2>2, <2>3, <2>4, <2>5 DEF Settled
<1>. QED BY <1>2, <1>3, <1>8, <1>9, <1>10, <1>11 DEF AssetInv

LEMMA AssetStep == AssetInv /\ (Assets!Next \/ UNCHANGED assetVars) => AssetInv'
<1> SUFFICES ASSUME AssetInv, Assets!Next \/ UNCHANGED assetVars PROVE AssetInv'
    OBVIOUS
<1>1. CASE UNCHANGED assetVars
  <2>1. UNCHANGED <<records, transfers, tx, raced>>
        BY <1>1 DEF assetVars
  <2>. QED BY <2>1 DEF AssetInv, Settled, Clear, Owns
<1>2. ASSUME NEW t \in Payments, NEW from \in Wallets, NEW to \in Wallets, NEW amount \in Amounts,
             Assets!LockSender(t, from, to, amount)
      PROVE  AssetInv'
      BY <1>2, AssetLocks
<1>3. ASSUME NEW t \in Payments, Assets!Rollback(t) PROVE AssetInv'
      BY <1>3, AssetRollsBack DEF Assets!Rollback
<1>4. ASSUME NEW t \in Payments,
             \/ Assets!Debit(t) \/ Assets!FindReceiver(t) \/ Assets!Credit(t)
             \/ Assets!CreateOrUpdate(t) \/ Assets!SaveReceiver(t) \/ Assets!Commit(t)
      PROVE  AssetInv'
      BY <1>4, AssetDebits, AssetFinds, AssetCredits, AssetLooksAgain, AssetSaves, AssetCommits
<1>. QED BY <1>1, <1>2, <1>3, <1>4 DEF Assets!Next

LEMMA AssetHolds == Spec => []AssetInv
<1>1. Init => AssetInv
      BY AssetStart DEF Init
<1>2. AssetInv /\ [Next]_vars => AssetInv'
      BY AssetStep, OneService
<1>. QED BY <1>1, <1>2, PTL DEF Spec

\* However transfers interleave, a user whose first payments did not overlap has one record,
\* which never goes below zero.
THEOREM NobodyOverdraws == Spec => []NoOverdraft
<1>1. AssetInv => NoOverdraft
  <2> SUFFICES ASSUME AssetInv, NEW w \in Wallets \ raced
               PROVE  /\ \A i, j \in Assets!RowsOf(w) : i = j
                      /\ \A i \in Assets!RowsOf(w) : records[i].dealt >= 0
      BY DEF NoOverdraft, Assets!NoOverdraft
  <2>1. \A i \in Assets!RowsOf(w) : Owns(i, w)
        BY DEF Assets!RowsOf, Owns, OwnedIn
  <2>. QED BY <2>1 DEF AssetInv, Settled
<1>. QED BY <1>1, AssetHolds, PTL

\* What such a user holds is the opening balance and what the committed logs add up to.
THEOREM BalancesFollowLogs == Spec => []BalanceFollowsLog
<1>1. AssetInv => BalanceFollowsLog
      BY DEF AssetInv, Settled, BalanceFollowsLog, Assets!BalanceFollowsLog
<1>. QED BY <1>1, AssetHolds, PTL

----
(* The verdict of a poll. *)

Verdicts == {"start", "pass", "fail", "panic"}
Percent(a, h) == (a * 100) \div h

\* A percentage reaches a value when the number reaches it without a division.
LEMMA PercentReaches ==
    ASSUME NEW a \in Nat, NEW h \in Nat \ {0}, NEW v \in Int
    PROVE  Percent(a, h) >= v <=> 100 * a >= v * h
<1> DEFINE b == a * 100
           q == b \div h
           m == b % h
<1>1. b \in Nat /\ b = 100 * a
      OBVIOUS
<1> HIDE DEF b
<1>2. q \in Int /\ m \in Int /\ b = h * q + m /\ 0 <= m /\ m < h
      BY <1>1
<1> HIDE DEF q, m
<1>3. ASSUME q >= v PROVE b >= v * h
  <2>1. h * (q - v) >= 0
        BY <1>2, <1>3
  <2>2. h * (q - v) = h * q - v * h
        BY <1>2
  <2>. QED BY <1>1, <1>2, <2>1, <2>2
<1>4. ASSUME ~(q >= v) PROVE ~(b >= v * h)
  <2>1. h * (v - q - 1) >= 0
        BY <1>2, <1>4
  <2>2. h * (v - q - 1) = v * h - h * q - h
        BY <1>2
  <2>. QED BY <1>1, <1>2, <2>1, <2>2
<1>. QED BY <1>1, <1>3, <1>4 DEF Percent, q, b

\* g computes the verdict of the first rules of a list.
Decides(g, rules, total, holders) ==
    g = [s \in SUBSET DOMAIN rules |->
           IF s = {} THEN "start" ELSE Tally!Apply(g[s \ {Max(s)}], rules[Max(s)], total, holders)]

LEMMA ApplyType ==
    ASSUME NEW v \in Verdicts, NEW r, NEW total, NEW holders
    PROVE  Tally!Apply(v, r, total, holders) \in Verdicts
BY DEF Tally!Apply, Verdicts

\* The verdict of a list of rules is made one rule after the other.
LEMMA RulesUnfold ==
    ASSUME NEW S, NEW rules \in Seq(S), NEW total, NEW holders
    PROVE  \E h : /\ h[0] = "start" /\ Tally!CheckRules(rules, total, holders) = h[Len(rules)]
                  /\ \A n \in Nat : n + 1 <= Len(rules) =>
                       h[n + 1] = Tally!Apply(h[n], rules[n + 1], total, holders)
<1> DEFINE n == Len(rules)
           Ap(v, r) == Tally!Apply(v, r, total, holders)
           step == [p \in (1..n) \X Verdicts |-> Ap(p[2], rules[p[1]])]
<1>1. n \in Nat /\ DOMAIN rules = 1..n
      BY LenProperties
<1>2. step \in [(1..n) \X Verdicts -> Verdicts]
  <2>1. ASSUME NEW p \in (1..n) \X Verdicts PROVE step[p] \in Verdicts
    <3>1. p[2] \in Verdicts
          OBVIOUS
    <3>. QED BY <3>1, ApplyType
  <2> HIDE DEF Ap
  <2>. QED BY <2>1
<1>3. "start" \in Verdicts
      BY DEF Verdicts
<1>4. PICK g \in [SUBSET (1..n) -> Verdicts] : Folds(g, 1..n, "start", step, LastIndex(n))
  <2> HIDE DEF step, n
  <2> QED BY <1>1, <1>2, <1>3, FoldLeftExists
<1> HIDE DEF Ap
<1>5. ASSUME NEW s \in SUBSET (1..n)
      PROVE  g[s] = IF s = {} THEN "start" ELSE Ap(g[s \ {Max(s)}], rules[Max(s)])
  <2>1. CASE s = {}
        BY <1>4, <2>1 DEF Folds
  <2>2. CASE s # {}
    <3> DEFINE m == Max(s)
    <3>1. m \in s /\ LastIndex(n)[s] = m
      <4>1. IsFiniteSet(s)
        <5>1. IsFiniteSet(1..n)
              BY <1>1, FS_Interval
        <5>. QED BY <5>1, FS_Subset
      <4>2. s \subseteq Int
            OBVIOUS
      <4>3. Max(s) \in s
            BY <2>2, <4>1, <4>2, MaxIsGreatest
      <4>. QED BY <2>2, <4>3 DEF LastIndex
    <3>2. g[s] = step[<<m, g[s \ {m}]>>]
      <4> HIDE DEF step, m
      <4>. QED BY <1>4, <2>2, <3>1 DEF Folds
    <3>3. m \in 1..n /\ g[s \ {m}] \in Verdicts
          BY <3>1
    <3> HIDE DEF m, n
    <3>4. step[<<m, g[s \ {m}]>>] = Ap(g[s \ {m}], rules[m])
          BY <3>3
    <3>. QED BY <2>2, <3>2, <3>4 DEF m
  <2>. QED BY <2>1, <2>2
<1>6. Decides(g, rules, total, holders)
  <2> DEFINE h == [s \in SUBSET DOMAIN rules |->
                     IF s = {} THEN "start" ELSE Ap(g[s \ {Max(s)}], rules[Max(s)])]
  <2>1. DOMAIN g = SUBSET DOMAIN rules /\ \A s \in SUBSET DOMAIN rules : g[s] = h[s]
        BY <1>1, <1>5
  <2>2. h = [s \in SUBSET DOMAIN rules |-> h[s]] /\ g = [s \in SUBSET DOMAIN rules |-> g[s]]
        BY <1>1
  <2>3. g = h
    <3> HIDE DEF h
    <3> QED BY <2>1, <2>2
  <2>. QED BY <2>3 DEF Decides, Ap
<1> DEFINE G == CHOOSE k : Decides(k, rules, total, holders)
<1>7. Decides(G, rules, total, holders)
      BY <1>6
<1>8. Tally!CheckRules(rules, total, holders) = G[DOMAIN rules]
      BY DEF Tally!CheckRules, Tally!FoldLeft, Tally!MapThenFoldSet, Decides, Tally!Max, Max
<1> HIDE DEF G
<1> DEFINE h == [k \in Nat |-> G[1..k]]
<1>9. h[0] = "start"
  <2>1. 1..0 = {} /\ {} \in SUBSET DOMAIN rules
        OBVIOUS
  <2>. QED BY <1>7, <2>1 DEF Decides
<1>10. ASSUME NEW k \in Nat, k + 1 <= n
       PROVE  h[k + 1] = Ap(h[k], rules[k + 1])
  <2> DEFINE m == k + 1
  <2>1. m \in Nat \ {0} /\ m - 1 = k
        OBVIOUS
  <2>2. Max(1..m) = m /\ (1..m) \ {m} = 1..k
        BY <2>1, MaxOfPrefix
  <2>3. 1..m \in SUBSET DOMAIN rules /\ 1..m # {}
    <3>1. 1..m \subseteq 1..n /\ m \in 1..m
          BY <1>1, <1>10
    <3> HIDE DEF m
    <3>. QED BY <1>1, <3>1
  <2>4. h[m] = G[1..m] /\ h[k] = G[1..k]
        BY <2>1
  <2> HIDE DEF m, h
  <2>5. h[m] = Ap(h[k], rules[m])
        BY <1>7, <2>2, <2>3, <2>4 DEF Decides, Ap
  <2>. QED BY <2>5 DEF m
<1>11. Tally!CheckRules(rules, total, holders) = h[n]
      BY <1>1, <1>8
<1>. QED BY <1>9, <1>10, <1>11 DEF Ap

\* A poll that was closed, and its verdict.
Lists == {{}} \cup {{l} : l \in Seq(Tally!Rules)}
Polls == [kind : Tally!VoteKinds, count : [Labels -> Nat], lists : Lists, seeds : Nat]
TallyInv ==
    verdict # "open" =>
        /\ poll \in Polls
        /\ verdict = Tally!Verdict(poll.kind, poll.count, poll.lists, Tally!Holders(poll.seeds))

\* What the counts of a poll add up to.
LEMMA TotalOf ==
    ASSUME poll \in Polls
    PROVE  /\ Tally!Voters \in Nat /\ Tally!Voters = Tally!Total(poll.count)
           /\ (Tally!Voters > 0 <=> \E o \in Labels : poll.count[o] > 0)
           /\ \A o \in Labels : poll.count[o] \in Nat /\ poll.count[o] <= Tally!Voters
<1> DEFINE c == poll.count
           sum == Tally!Voters
<1>1. c \in [Labels -> Nat]
      BY DEF Polls
<1>2. sum = SumFunctionOnSet(c, Labels) /\ sum = Tally!Total(poll.count)
  <2>1. DOMAIN c = Labels
        BY <1>1
  <2>. QED BY <2>1 DEF Tally!Voters, Tally!Total, Tally!FoldFunction, Tally!FoldFunctionOnSet,
               Tally!MapThenFoldSet, SumFunctionOnSet, FoldFunctionOnSet, MapThenFoldSet
<1>3. IsFiniteSet(Labels)
      BY TallyAssumption
<1> HIDE DEF c, sum
<1>4. sum \in Nat /\ (sum > 0 => \E o \in Labels : c[o] > 0)
  <2>1. \A o \in Labels : c[o] \in Nat
        BY <1>1
  <2>. QED BY <1>2, <1>3, <2>1, SumOfNaturals
<1>5. ASSUME NEW o \in Labels PROVE c[o] <= sum
  <2> DEFINE rest == Labels \ {o}
  <2>1. IsFiniteSet(rest) /\ \A x \in rest : c[x] \in Nat
        BY <1>1, <1>3, FS_Subset
  <2> HIDE DEF rest
  <2>2. SumFunctionOnSet(c, rest) \in Nat
        BY <2>1, SumOfNaturals
  <2>3. sum = c[o] + SumFunctionOnSet(c, rest)
    <3>1. \A x \in Labels : c[x] \in Int
          BY <1>1
    <3>. QED BY <1>2, <1>3, <3>1, SumPick DEF rest
  <2>4. c[o] \in Nat
        BY <1>1
  <2>. QED BY <2>2, <2>3, <2>4
<1>6. \A o \in Labels : c[o] \in Nat
      BY <1>1
<1>7. (\E o \in Labels : c[o] > 0) => sum > 0
      BY <1>4, <1>5, <1>6
<1>. QED BY <1>2, <1>4, <1>5, <1>6, <1>7 DEF c, sum

\* The counts pass exactly when they support the poll.
LEMMA PassesWhenSupported ==
    ASSUME poll \in Polls
    PROVE  Tally!Passes(poll.kind, poll.count) <=> Tally!Supported
<1> DEFINE c == poll.count
           n == Tally!Voters
<1>1. c \in [Labels -> Nat] /\ poll.kind \in Tally!VoteKinds
      BY DEF Polls
<1>2. /\ n \in Nat /\ n = Tally!Total(c) /\ (n > 0 <=> \E o \in Labels : c[o] > 0)
      /\ \A o \in Labels : c[o] \in Nat /\ c[o] <= n
      BY TotalOf
<1>3. \A o \in Labels : Tally!Votes(o) = c[o]
      BY DEF Tally!Votes
<1>4. Tally!Votes("approve") = Tally!Approvals(c) /\ Tally!Approvals(c) \in 0..n
      BY <1>1, <1>2 DEF Tally!Votes, Tally!Approvals
<1> HIDE DEF c, n
<1>5. n > 0 /\ Tally!Approvals(c) > n \div 2 <=> 2 * Tally!Approvals(c) > n
      BY <1>2, <1>4
<1>6. n > 0 /\ Cardinality(Tally!Tops(c)) = 1 <=>
        \E o \in Labels : c[o] > 0 /\ \A x \in Labels \ {o} : c[o] > c[x]
  <2> DEFINE T == Tally!Tops(c)
  <2>1. T = {o \in Labels : \A x \in Labels : c[x] <= c[o]}
        BY <1>1 DEF Tally!Tops
  <2>2. IsFiniteSet(T)
        BY <2>1, TallyAssumption, FS_Subset
  <2> HIDE DEF T
  <2>3. Cardinality(T) = 1 <=> \E o : T = {o}
        BY <2>2, FS_Singleton
  <2>4. ASSUME NEW o, T = {o}, n > 0 PROVE o \in Labels /\ c[o] > 0 /\ \A x \in Labels \ {o} : c[o] > c[x]
    <3>1. o \in Labels /\ \A x \in Labels : c[x] <= c[o]
          BY <2>1, <2>4
    <3>2. c[o] > 0
          BY <1>2, <2>4, <3>1
    <3>3. ASSUME NEW x \in Labels \ {o} PROVE c[o] > c[x]
      <4>1. x \notin T
            BY <2>4
      <4>2. PICK y \in Labels : ~(c[y] <= c[x])
            BY <2>1, <4>1
      <4>. QED BY <1>2, <3>1, <4>2
    <3>. QED BY <3>1, <3>2, <3>3
  <2>5. ASSUME NEW o \in Labels, c[o] > 0, \A x \in Labels \ {o} : c[o] > c[x] PROVE n > 0 /\ T = {o}
        BY <1>2, <2>1, <2>5
  <2>. QED BY <2>3, <2>4, <2>5 DEF T
<1>7. Tally!Supported <=>
        \/ poll.kind = "none"
        \/ poll.kind \in {"always_passed", "numeric_avg"} /\ n > 0
        \/ poll.kind = "decision" /\ 2 * Tally!Approvals(c) > n
        \/ poll.kind \in {"numeric_single", "equal_failed"}
             /\ \E o \in Labels : c[o] > 0 /\ \A x \in Labels \ {o} : c[o] > c[x]
      BY <1>3, <1>4 DEF Tally!Supported, n
<1> DEFINE Counted(k, total) ==
             \/ k = "none"
             \/ /\ total > 0
                /\ \/ k \in {"always_passed", "numeric_avg"}
                   \/ k = "decision" /\ Tally!Approvals(c) > total \div 2
                   \/ k \in {"numeric_single", "equal_failed"} /\ Cardinality(Tally!Tops(c)) = 1
<1>8. Tally!Passes(poll.kind, c) <=> Counted(poll.kind, n)
  <2>1. Tally!Passes(poll.kind, c) <=> Counted(poll.kind, Tally!Total(c))
    <3>1. \A T : Tally!Cardinality(T) = Cardinality(T)
          BY DEF Tally!Cardinality, Cardinality
    <3>. QED BY <3>1 DEF Tally!Passes
  <2> HIDE DEF Counted
  <2>. QED BY <1>2, <2>1
<1>9. Tally!Passes(poll.kind, c) <=> Tally!Supported
      BY <1>5, <1>6, <1>7, <1>8
<1>. QED BY <1>9 DEF c

\* What one rule makes of the verdict so far, by what it is.
LEMMA OneRule ==
    ASSUME poll \in Polls, NEW v \in Verdicts, NEW r \in Tally!Rules
    PROVE  Tally!Apply(v, r, Tally!Voters, Tally!Holders(poll.seeds)) =
             IF v \in {"fail", "panic"} \/ r.value = -1 THEN v
             ELSE IF Tally!DividesByZero(r) THEN "panic"
             ELSE IF r.check = "unknown" THEN IF v = "pass" THEN "pass" ELSE "fail"
             ELSE IF Tally!Missed(r) THEN "fail" ELSE "pass"
<1> DEFINE n == Tally!Voters
           h == poll.seeds
           holders == Tally!Holders(h)
<1>1. n \in Nat
      BY TotalOf
<1>2. h \in Nat
      BY DEF Polls
<1>3. /\ r.metric \in {"seed", "unknown"} /\ r.check \in {"ratio", "count", "unknown"} /\ r.value \in Int
      BY TallyAssumption DEF Tally!Rules, Tally!CheckTypes
<1>4. Tally!MetricValue(r, holders) = IF r.metric = "unknown" THEN 0 ELSE h
  <2>1. holders["seed"] = h
        BY DEF Tally!Holders, Tally!Metrics
  <2> HIDE DEF holders
  <2>. QED BY <1>3, <2>1 DEF Tally!MetricValue
<1> HIDE DEF n, h, holders
<1>5. Tally!DividesByZero(r) <=> r.check = "ratio" /\ Tally!MetricValue(r, holders) = 0
      BY <1>3, <1>4 DEF Tally!DividesByZero, h
<1>6. ASSUME ~Tally!DividesByZero(r), r.check # "unknown"
      PROVE  Tally!Holds(r, n, holders) <=> ~Tally!Missed(r)
  <2>1. CASE r.check = "count"
    <3>1. Tally!Missed(r) <=> n < r.value
          BY <2>1 DEF Tally!Missed, n
    <3>2. Tally!Holds(r, n, holders) <=> n >= r.value
          BY <2>1 DEF Tally!Holds
    <3>. QED BY <1>1, <1>3, <3>1, <3>2
  <2>2. CASE r.check = "ratio"
    <3>1. Tally!MetricValue(r, holders) = h /\ h \in Nat \ {0}
          BY <1>2, <1>4, <1>5, <1>6, <2>2
    <3>2. Tally!Holds(r, n, holders) <=> Percent(n, h) >= r.value
          BY <2>2, <3>1 DEF Tally!Holds, Percent
    <3>3. Tally!Missed(r) <=> 100 * n < r.value * h
          BY <1>6, <2>2 DEF Tally!Missed, n, h
    <3>4. Percent(n, h) >= r.value <=> 100 * n >= r.value * h
          BY <1>1, <1>3, <3>1, PercentReaches
    <3>5. 100 * n \in Int /\ r.value * h \in Int
          BY <1>1, <1>2, <1>3
    <3>6. 100 * n >= r.value * h <=> ~(100 * n < r.value * h)
      <4> DEFINE x == 100 * n
                 y == r.value * h
      <4>1. x \in Int /\ y \in Int
            BY <3>5
      <4> HIDE DEF x, y
      <4>2. x >= y <=> ~(x < y)
            BY <4>1
      <4>. QED BY <4>2 DEF x, y
    <3>. QED BY <3>2, <3>3, <3>4, <3>6
  <2>. QED BY <1>3, <1>6, <2>1, <2>2
<1>7. Tally!Apply(v, r, n, holders) =
        IF v \in {"fail", "panic"} \/ r.value = -1 THEN v
        ELSE IF r.check = "ratio" /\ Tally!MetricValue(r, holders) = 0 THEN "panic"
        ELSE IF r.check = "unknown" THEN IF v = "pass" THEN "pass" ELSE "fail"
        ELSE IF Tally!Holds(r, n, holders) THEN "pass" ELSE "fail"
      BY DEF Tally!Apply, Tally!Unreadable
<1>8. Tally!Apply(v, r, n, holders) =
        IF v \in {"fail", "panic"} \/ r.value = -1 THEN v
        ELSE IF Tally!DividesByZero(r) THEN "panic"
        ELSE IF r.check = "unknown" THEN IF v = "pass" THEN "pass" ELSE "fail"
        ELSE IF Tally!Missed(r) THEN "fail" ELSE "pass"
      BY <1>5, <1>6, <1>7
<1>. QED BY <1>8 DEF n, h, holders

\* A list of rules passes when one is read and none stops it, and panics when the first
\* that stops it divides by zero.
LEMMA RulesDecide ==
    ASSUME poll \in Polls, NEW rules \in Seq(Tally!Rules),
           NEW v, v = Tally!CheckRules(rules, Tally!Voters, Tally!Holders(poll.seeds))
    PROVE  /\ v \in Verdicts
           /\ v = "start" => Tally!Readable(rules) = {}
           /\ v = "pass" <=> Tally!Readable(rules) # {} /\ Tally!Stops(rules) = {}
           /\ v = "panic" <=> \E i \in Tally!Stops(rules) :
                                (\A j \in Tally!Stops(rules) : i <= j) /\ Tally!DividesByZero(rules[i])
<1> DEFINE n == Len(rules)
           R == Tally!Readable(rules)
           S == Tally!Stops(rules)
           Zero(i) == Tally!DividesByZero(rules[i])
           Miss(i) == Tally!Missed(rules[i])
           Unknown(i) == rules[i].check = "unknown"
<1>1. PICK h : /\ h[0] = "start" /\ v = h[n]
               /\ \A k \in Nat : k + 1 <= n =>
                    h[k + 1] = Tally!Apply(h[k], rules[k + 1], Tally!Voters, Tally!Holders(poll.seeds))
      BY RulesUnfold
<1>2. n \in Nat /\ DOMAIN rules = 1..n /\ \A i \in 1..n : rules[i] \in Tally!Rules
      BY LenProperties, ElementOfSeq
<1>3. R = {i \in 1..n : rules[i].value # -1}
      BY <1>2 DEF Tally!Readable, Tally!Unreadable
<1>4. S = {i \in R : Zero(i) \/ Miss(i) \/ (Unknown(i) /\ \A j \in R : j >= i)}
      BY DEF Tally!Stops
<1>5. \A i \in 1..n : Unknown(i) => ~Zero(i) /\ ~Miss(i)
      BY DEF Tally!DividesByZero, Tally!Missed
<1> DEFINE Says(k, x) ==
             /\ x \in Verdicts
             /\ x = "start" <=> \A i \in R : i > k
             /\ x = "pass" <=> (\E i \in R : i <= k) /\ \A i \in S : i > k
             /\ x = "panic" <=> \E i \in S : i <= k /\ (\A j \in S : i <= j) /\ Zero(i)
<1>6. Says(0, h[0])
  <2>1. \A i \in R : i \in Nat /\ i > 0
        BY <1>2, <1>3
  <2>2. S \subseteq R /\ h[0] = "start" /\ "start" \in Verdicts
        BY <1>1, <1>4 DEF Verdicts
  <2>3. \A i \in R : ~(i <= 0)
        BY <2>1
  <2> HIDE DEF R, S, Zero
  <2>. QED BY <2>1, <2>2, <2>3
<1>7. ASSUME NEW k \in Nat, k + 1 <= n, Says(k, h[k])
      PROVE  Says(k + 1, h[k + 1])
  <2> DEFINE m == k + 1
             x == h[k]
             y == h[m]
  <2>1. m \in 1..n /\ x \in Verdicts
        BY <1>2, <1>7
  <2>2. y = IF x \in {"fail", "panic"} \/ m \notin R THEN x
            ELSE IF Zero(m) THEN "panic"
            ELSE IF Unknown(m) THEN IF x = "pass" THEN "pass" ELSE "fail"
            ELSE IF Miss(m) THEN "fail" ELSE "pass"
    <3>1. rules[m] \in Tally!Rules /\ m \in Nat
          BY <1>2, <2>1
    <3>2. y = Tally!Apply(x, rules[m], Tally!Voters, Tally!Holders(poll.seeds))
          BY <1>1, <1>7
    <3> HIDE DEF x, y, m
    <3>3. y = IF x \in {"fail", "panic"} \/ rules[m].value = -1 THEN x
              ELSE IF Zero(m) THEN "panic"
              ELSE IF Unknown(m) THEN IF x = "pass" THEN "pass" ELSE "fail"
              ELSE IF Miss(m) THEN "fail" ELSE "pass"
          BY <2>1, <3>1, <3>2, OneRule
    <3>4. m \in R <=> rules[m].value # -1
          BY <1>3, <2>1
    <3>. QED BY <3>3, <3>4
  <2>3. /\ \A i \in R : i \in Nat /\ (i <= m <=> i <= k \/ i = m) /\ (i > m <=> i > k /\ i # m)
        /\ \A i, j \in R : i <= k /\ m <= j => i <= j /\ i # j
        /\ \A i \in R : (i <= k <=> ~(i > k)) /\ (i <= k => i <= m) /\ (i > k <=> i >= m)
        /\ m > k /\ ~(m <= k) /\ m \in Nat /\ S \subseteq R
    <3>1. \A i \in R : i \in Nat
          BY <1>2, <1>3
    <3>2. S \subseteq R
          BY <1>4
    <3> HIDE DEF R, S
    <3>. QED BY <3>1, <3>2
  <2>4. m \in S <=> m \in R /\ (Zero(m) \/ Miss(m) \/ (Unknown(m) /\ x = "start"))
    <3>1. m \in R => ((\A j \in R : j >= m) <=> x = "start")
          BY <1>7, <2>3
    <3>. QED BY <1>4, <3>1
  <2>5. Unknown(m) => ~Zero(m) /\ ~Miss(m)
        BY <1>5, <2>1
  <2>6. Says(k, x)
        BY <1>7
  <2> HIDE DEF R, S, Zero, Miss, Unknown, x, y, m
  <2>7. y \in Verdicts /\ (y = "start" <=> \A i \in R : i > m)
        BY <2>2, <2>3, <2>4, <2>5, <2>6 DEF Verdicts
  <2>8. y = "pass" <=> (\E i \in R : i <= m) /\ \A i \in S : i > m
        BY <2>2, <2>3, <2>4, <2>5, <2>6 DEF Verdicts
  <2>9. y = "panic" <=> \E i \in S : i <= m /\ (\A j \in S : i <= j) /\ Zero(i)
        BY <2>2, <2>3, <2>4, <2>5, <2>6 DEF Verdicts
  <2>10. Says(m, y)
        BY <2>7, <2>8, <2>9
  <2>. QED BY <2>10 DEF x, y, m
<1>8. Says(n, h[n])
  <2> DEFINE Good == {k \in Nat : k <= n => Says(k, h[k])}
  <2>1. 0 \in Good
        BY <1>6
  <2>2. ASSUME NEW k \in Nat, k \in Good PROVE k + 1 \in Good
    <3>1. k + 1 \in Nat /\ (k + 1 <= n => k <= n)
          BY <1>2
    <3> HIDE DEF Says
    <3>. QED BY <1>7, <2>2, <3>1
  <2> HIDE DEF Good
  <2>3. Nat \subseteq Good
        BY <2>1, <2>2, NatInductionSet
  <2>. QED BY <1>2, <2>3 DEF Good
<1>9. (\A i \in R : i \in Nat /\ i <= n) /\ S \subseteq R
      BY <1>2, <1>3, <1>4
<1>10. \A i \in R : ~(i > n)
      BY <1>2, <1>9
<1> HIDE DEF R, S, Zero
<1>11. /\ v \in Verdicts
       /\ v = "start" => R = {}
       /\ v = "pass" <=> R # {} /\ S = {}
       /\ v = "panic" <=> \E i \in S : (\A j \in S : i <= j) /\ Zero(i)
      BY <1>1, <1>8, <1>9, <1>10
<1>. QED BY <1>11 DEF R, S, Zero

LEMMA TallyStep == TallyInv /\ (Tally!Next \/ UNCHANGED tallyVars) => TallyInv'
<1> SUFFICES ASSUME TallyInv, Tally!Next \/ UNCHANGED tallyVars PROVE TallyInv'
    OBVIOUS
<1>1. CASE UNCHANGED tallyVars
      BY <1>1 DEF tallyVars, TallyInv
<1>2. ASSUME NEW kind \in Tally!VoteKinds, NEW count \in [Labels -> 0..MaxCount], NEW lists \in Lists,
             NEW seeds \in HolderCounts, Tally!Close(kind, count, lists, seeds)
      PROVE  TallyInv'
  <2> DEFINE q == [kind |-> kind, count |-> count, lists |-> lists, seeds |-> seeds]
  <2>1. q \in Polls
    <3>1. count \in [Labels -> Nat] /\ seeds \in Nat
          BY TallyAssumption
    <3>. QED BY <3>1 DEF Polls
  <2>2. q.kind = kind /\ q.count = count /\ q.lists = lists /\ q.seeds = seeds
        OBVIOUS
  <2>3. poll' = q /\ verdict' = Tally!Verdict(kind, count, lists, Tally!Holders(seeds))
        BY <1>2 DEF Tally!Close
  <2> HIDE DEF q
  <2>. QED BY <2>1, <2>2, <2>3 DEF TallyInv
<1>3. ASSUME NEW n \in 0..MaxRules, NEW rules \in [1..n -> Tally!Rules] PROVE {rules} \in Lists
  <2>1. n \in Nat
        BY TallyAssumption
  <2>2. rules \in Seq(Tally!Rules)
        BY <2>1, IsASeq
  <2>. QED BY <2>2 DEF Lists
<1>4. {} \in Lists
      BY DEF Lists
<1>. QED BY <1>1, <1>2, <1>3, <1>4 DEF Tally!Next

LEMMA TallyHolds == Spec => []TallyInv
<1>1. Init => TallyInv
      BY DEF Init, Tally!Init, TallyInv
<1>2. TallyInv /\ [Next]_vars => TallyInv'
      BY TallyStep, OneService
<1>. QED BY <1>1, <1>2, PTL DEF Spec

\* The verdict of every poll, whatever its counts and its rules, is the one they deserve.
THEOREM VerdictsAreDeserved == Spec => []VerdictIsDeserved
<1>1. TallyInv => VerdictIsDeserved
  <2> DEFINE rules == CHOOSE l \in poll.lists : TRUE
             ruled == poll.kind \notin {"none", "always_passed"} /\ poll.lists # {}
             v == Tally!CheckRules(rules, Tally!Voters, Tally!Holders(poll.seeds))
             R == Tally!Readable(rules)
             S == Tally!Stops(rules)
             panics == \E i \in S : (\A j \in S : i <= j) /\ Tally!DividesByZero(rules[i])
  <2>1. SUFFICES ASSUME poll \in Polls,
                        verdict = Tally!Verdict(poll.kind, poll.count, poll.lists, Tally!Holders(poll.seeds))
                 PROVE  /\ verdict = "pass" <=> Tally!Supported /\ (Tally!Supported /\ ruled => R # {} /\ S = {})
                        /\ verdict = "panic" <=> Tally!Supported /\ ruled /\ panics
    <3> HIDE DEF v
    <3>. QED BY DEF VerdictIsDeserved, Tally!VerdictIsDeserved, TallyInv
  <2>2. Tally!Passes(poll.kind, poll.count) <=> Tally!Supported
        BY <2>1, PassesWhenSupported
  <2>3. verdict = IF ~Tally!Supported THEN "fail" ELSE IF ~ruled THEN "pass"
                  ELSE IF v = "start" THEN "fail" ELSE v
    <3>1. Tally!Voters = Tally!Total(poll.count)
          BY <2>1, TotalOf
    <3>2. verdict = IF ~Tally!Passes(poll.kind, poll.count) THEN "fail"
                    ELSE IF poll.kind \in {"none", "always_passed"} \/ poll.lists = {} THEN "pass"
                    ELSE IF Tally!CheckRules(rules, Tally!Total(poll.count), Tally!Holders(poll.seeds)) = "start"
                         THEN "fail"
                         ELSE Tally!CheckRules(rules, Tally!Total(poll.count), Tally!Holders(poll.seeds))
          BY <2>1 DEF Tally!Verdict
    <3> HIDE DEF rules
    <3>. QED BY <2>2, <3>1, <3>2
  <2>4. ASSUME ruled
        PROVE  /\ v \in Verdicts /\ (v = "start" => R = {})
               /\ v = "pass" <=> R # {} /\ S = {}
               /\ v = "panic" <=> panics
    <3>1. rules \in poll.lists /\ poll.lists \in Lists
          BY <2>1, <2>4 DEF Polls
    <3>2. rules \in Seq(Tally!Rules)
          BY <3>1 DEF Lists
    <3> HIDE DEF rules
    <3>. QED BY <2>1, <3>2, RulesDecide
  <2> HIDE DEF v, R, S, ruled, panics
  <2>. QED BY <2>3, <2>4 DEF Verdicts
<1>. QED BY <1>1, TallyHolds, PTL

----
(* Types. *)

\* Every service keeps the types of its rows and requests.
THEOREM TypesHold == Spec => []TypeOK
<1>1. AssetInv => Assets!TypeOK
  <2>1. SUFFICES ASSUME AssetInv PROVE Assets!TypeOK
        OBVIOUS
  <2>2. \A i \in DOMAIN records : records[i] \in AssetRow
    <3>1. DOMAIN records = 1..Len(records) /\ \A i \in 1..Len(records) : records[i] \in AssetRow
          BY <2>1, LenProperties, ElementOfSeq DEF AssetInv
    <3>. QED BY <3>1
  <2>3. ASSUME NEW t \in Payments
        PROVE  /\ tx[t].step \in TxSteps
               /\ tx[t].debits \union tx[t].credits \union tx[t].saves \subseteq DOMAIN records
    <3>1. Sound(tx[t], records) /\ tx[t] \in Tx
          BY <2>1, AtTransaction
    <3>2. tx[t].step \in TxSteps
      <4>1. \A q \in Tx : q.step \in TxSteps
            BY DEF Tx
      <4>. QED BY <3>1, <4>1
    <3>. QED BY <3>1, <3>2 DEF Sound, OwnedIn
  <2>. QED BY <2>2, <2>3 DEF Assets!TypeOK, AssetRow, TxSteps
<1>2. SnsInv => Sns!TypeOK
  <2>1. SUFFICES ASSUME SnsInv PROVE Sns!TypeOK
        OBVIOUS
  <2>2. \A i \in DOMAIN invites : invites[i] \in InviteRow
    <3>1. DOMAIN invites = 1..Len(invites) /\ \A i \in 1..Len(invites) : invites[i] \in InviteRow
          BY <2>1, LenProperties, ElementOfSeq DEF SnsInv, SnsTypes
    <3>. QED BY <3>1
  <2>3. \A p \in Posters : posts[p].id \in {0} \union DOMAIN invites
    <3>1. Sns!NoPost.id = 0
          BY DEF Sns!NoPost
    <3>2. \A p \in Posters : posts[p] # Sns!NoPost /\ posts[p].id # 0 =>
            IsRow(posts[p].id, posts[p].row.invitee)
          BY <2>1 DEF SnsInv, SnsTypes, PostTypes
    <3>. QED BY <3>1, <3>2 DEF IsRow
  <2>. QED BY <2>2, <2>3 DEF Sns!TypeOK, InviteRow
<1>3. SeasonInv => Season!TypeOK
  <2>1. SUFFICES ASSUME SeasonInv PROVE Season!TypeOK
        OBVIOUS
  <2>2. \A i \in DOMAIN bundles : bundles[i] \in 1..MaxOwed
    <3>1. DOMAIN bundles = 1..Len(bundles) /\ \A i \in 1..Len(bundles) : bundles[i] \in 1..MaxOwed
          BY <2>1, LenProperties, ElementOfSeq DEF SeasonInv, SeasonTypes
    <3>. QED BY <3>1
  <2>. QED BY <2>1, <2>2 DEF Season!TypeOK, SeasonInv, SeasonTypes, SeasonRow
<1>4. SipInv => Sip!TypeOK
      BY DEF Sip!TypeOK, SipInv, Proposal, Numbering
<1>5. BoardInv => Board!TypeOK
  <2>1. SUFFICES ASSUME BoardInv PROVE Board!TypeOK
        OBVIOUS
  <2>2. \A i \in DOMAIN notices : notices[i] \in NoticeRow
    <3>1. DOMAIN notices = 1..Len(notices) /\ \A i \in 1..Len(notices) : notices[i] \in NoticeRow
          BY <2>1, LenProperties, ElementOfSeq DEF BoardInv
    <3>. QED BY <3>1
  <2>. QED BY <2>1, <2>2 DEF Board!TypeOK, BoardInv, NoticeRow
<1>6. TallyInv => Tally!TypeOK
  <2>1. SUFFICES ASSUME TallyInv, verdict # "open" PROVE verdict \in {"pass", "fail", "panic"}
        BY DEF Tally!TypeOK
  <2> DEFINE rules == CHOOSE l \in poll.lists : TRUE
             v == Tally!CheckRules(rules, Tally!Total(poll.count), Tally!Holders(poll.seeds))
  <2>3. \/ verdict \in {"pass", "fail"}
        \/ poll.lists # {} /\ v # "start" /\ verdict = v
        BY <2>1 DEF TallyInv, Tally!Verdict
  <2>4. ASSUME poll.lists # {} PROVE v \in Verdicts
    <3>1. rules \in poll.lists /\ poll.lists \in Lists
          BY <2>1, <2>4 DEF TallyInv, Polls
    <3>2. rules \in Seq(Tally!Rules)
          BY <3>1 DEF Lists
    <3>3. poll \in Polls /\ Tally!Voters = Tally!Total(poll.count)
          BY <2>1, TotalOf DEF TallyInv
    <3> HIDE DEF rules
    <3>. QED BY <3>2, <3>3, RulesDecide
  <2> HIDE DEF v
  <2>. QED BY <2>3, <2>4 DEF Verdicts
<1>7. LedgerInv => Ledger!TypeOK
  <2>1. SUFFICES ASSUME LedgerInv PROVE Ledger!TypeOK
        OBVIOUS
  <2>2. row \in BudgetRow /\ Len(charges) <= MaxCharges
        BY <2>1 DEF LedgerInv
  <2>. QED BY <2>2 DEF Ledger!TypeOK, BudgetRow
<1>8. AssetInv /\ SnsInv /\ SeasonInv /\ SipInv /\ BoardInv /\ TallyInv /\ LedgerInv => TypeOK
      BY <1>1, <1>2, <1>3, <1>4, <1>5, <1>6, <1>7 DEF TypeOK
<1>. QED BY <1>8, AssetHolds, SnsHolds, SeasonHolds, SipHolds, BoardHolds, TallyHolds, LedgerHolds, PTL

====
