---- MODULE ProposalProjectsProofs ----
(***************************************************************************)
(* Theorems about the projects that proposals without a vote create, and   *)
(* about the proposals that close a project.                               *)
(***************************************************************************)
EXTENDS ProposalLifecycleProofs

USE RecordsAssumption, TemplatesAssumption, BoundsAssumption, SeedAssumption

(* A proposal without a vote creates its project once: the inductive invariant *)

\* A job of kind k can still run for the proposal, or is running.
May(r, k) == jobs[r][k] = "active" \/ <<r, k>> \in inflight

\* A project proposal that is executed after an approval, not after a vote.
ByApproval(r) == IsNewProject(r) /\ ~HasPoll(rec[r].tmpl)

\* Its project is created by the second part of the approval, or by the job which that
\* part leaves behind.
Launches(o, r) == o.rcd = r /\ o.step = "launch"
Creates(r) == May(r, "execute") \/ \E o \in ops : Launches(o, r)

\* An approval under way has not left the job yet, and there is one at a time.
OneToken(r) ==
    \A o \in ops : Launches(o, r) =>
        /\ ~May(r, "execute")
        /\ \A p \in ops : Launches(p, r) => p = o

\* Without a vote there is no poll to follow and no component to execute; nor is there
\* a poll before there is a proposal.
NoVote(r) ==
    /\ ~Used(r) => vote[r] = "none"
    /\ ~HasPoll(rec[r].tmpl) => vote[r] = "none" /\ \A k \in ActionKinds : ~May(r, k)

\* What will create the project is there once for all versions of the proposal, and
\* before the project.
ExecutesOnce(r) ==
    ByApproval(r) =>
        /\ OneToken(r)
        /\ Creates(r) =>
             /\ rec[r].sip # 0 /\ project[rec[r].sip] = "none"
             /\ \A q \in Records : ByApproval(q) /\ Creates(q) /\ rec[q].sip = rec[r].sip => q = r

\* Proposals share a SIP only as versions of one, or by closing the project of another.
SameTemplate(q, r) ==
    ~IsClosing(q) /\ ~IsClosing(r) /\ rec[q].sip = rec[r].sip /\ rec[r].sip # 0
        => rec[q].tmpl = rec[r].tmpl

\* No project has a SIP that was not given out.
ProjectsAreNumbered ==
    \A s \in Sips \ {0} : project[s] # "none" => \E q \in Records : rec[q].sip = s

\* The project of the proposal exists.
Built(r) == rec[r].sip # 0 /\ project[rec[r].sip] # "none"

HasProject(r) == ByApproval(r) /\ rec[r].state = "executed" => Built(r)

OneProject(r) == ByApproval(r) /\ rec[r].sip # 0 => project[rec[r].sip] # "twice"

\* An operation that applies a vote result is about a voted proposal, and one that has
\* only to write that a proposal without a vote is executed has created its project.
\* None makes a proposal one that is edited in place.
OpEarned(o) ==
    /\ o.state # "pending_submit"
    /\ o.step \in {"verdict", "follow"} => HasPoll(rec[o.rcd].tmpl)
    /\ o.step = "write" /\ o.state = "executed" /\ ByApproval(o.rcd) => Built(o.rcd)

\* The parts of ProjectInv that are about the tables.
ProjectParts ==
    /\ \A r \in Records : NoVote(r) /\ ExecutesOnce(r) /\ HasProject(r) /\ OneProject(r)
    /\ \A q, r \in Records : SameTemplate(q, r)
    /\ ProjectsAreNumbered

ProjectInv ==
    /\ PassingInv
    /\ ProjectParts
    /\ \A o \in ops : OpEarned(o)

LEMMA RowTypes ==
    ASSUME PassingInv
    PROVE  /\ rec \in [Records -> Row] /\ vote \in [Records -> PollStatus \cup {"new"}]
           /\ \A r \in Records : rec[r] \in Row /\ rec[r].sip \in Sips /\ rec[r].thread \in Records \cup {0}
           /\ \A r \in Records : ~Used(r) => rec[r].sip = 0 /\ rec[r].thread = 0
           /\ jobs \in [Records -> [JobKinds -> JobStates]]
           /\ project \in [Sips -> ProjectStates]
           /\ \A q \in reqs : q.rcd \in Records /\ q.url \in Records
           /\ \A o \in ops : o.rcd \in Records /\ o.state \in ProposalStates /\ Used(o.rcd)
BY DEF PassingInv, TypeOK, RowInv, Row, Request, Operation, OpInv

\* What the invariant says of one row, and of two.
LEMMA RowParts ==
    ASSUME ProjectInv, NEW r \in Records
    PROVE  /\ NoVote(r) /\ ExecutesOnce(r) /\ HasProject(r) /\ OneProject(r)
           /\ \A q \in Records : SameTemplate(q, r) /\ SameTemplate(r, q)
BY DEF ProjectInv, ProjectParts

LEMMA KindsOfJobs == ActionKinds \subseteq JobKinds \ {"approve"} /\ "execute" \in JobKinds \ {"approve"}
BY DEF ActionKinds, JobKinds

\* A step that numbers no row, creates no project and gives no proposal without a vote
\* what creates one.
QuietRow(q) ==
    /\ ~Used(q)' => vote'[q] = "none"
    /\ rec'[q].tmpl = rec[q].tmpl
    /\ rec'[q].sip = rec[q].sip
    /\ ~HasPoll(rec[q].tmpl) => vote'[q] = "none" /\ \A k \in ActionKinds : May(q, k)' => May(q, k)
    /\ ByApproval(q) =>
        /\ OneToken(q)'
        /\ Creates(q)' => Creates(q)
        /\ rec'[q].state = "executed" => rec[q].state = "executed" \/ Built(q)

QuietProjects ==
    \A s \in Sips : /\ project'[s] = "none" <=> project[s] = "none"
                    /\ project'[s] = "twice" => project[s] = "twice"

\* No approval is begun.
LaunchesKept == \A o \in ops' : o.step = "launch" => o \in ops

LEMMA TokensKept ==
    ASSUME ProjectInv, NEW q \in Records, ByApproval(q), LaunchesKept,
           May(q, "execute")' => May(q, "execute")
    PROVE  OneToken(q)' /\ (Creates(q)' => Creates(q))
<1>1. OneToken(q)
  BY RowParts DEF ExecutesOnce
<1>2. \A o \in ops' : Launches(o, q) => o \in ops
  BY DEF LaunchesKept, Launches
<1>3. OneToken(q)'
  BY <1>1, <1>2 DEF OneToken, Launches
<1>4. QED
  BY <1>2, <1>3 DEF Creates, Launches

LEMMA QuietChange ==
    ASSUME ProjectInv, NEW q \in Records, LaunchesKept,
           rec'[q].tmpl = rec[q].tmpl, rec'[q].sip = rec[q].sip,
           rec'[q].state = "unused" => rec[q].state = "unused",
           vote'[q] = vote[q] \/ (HasPoll(rec[q].tmpl) /\ Used(q)'),
           ~HasPoll(rec[q].tmpl) => \A k \in JobKinds \ {"approve"} : May(q, k)' => May(q, k),
           ByApproval(q) /\ rec'[q].state = "executed" => rec[q].state = "executed" \/ Built(q)
    PROVE  QuietRow(q)
<1>1. NoVote(q)
  BY RowParts
<1>2. ~Used(q)' => vote'[q] = "none"
  BY <1>1 DEF NoVote, Used
<1>3. ~HasPoll(rec[q].tmpl) => vote'[q] = "none" /\ \A k \in ActionKinds : May(q, k)' => May(q, k)
  BY <1>1, KindsOfJobs DEF NoVote
<1>4. ByApproval(q) => OneToken(q)' /\ (Creates(q)' => Creates(q))
  BY TokensKept, KindsOfJobs DEF ByApproval
<1>5. QED
  BY <1>2, <1>3, <1>4 DEF QuietRow

LEMMA QuietStep ==
    ASSUME ProjectInv, \A q \in Records : QuietRow(q), QuietProjects
    PROVE  ProjectParts'
<1>1. \A q \in Records : (ByApproval(q)' <=> ByApproval(q)) /\ (IsClosing(q)' <=> IsClosing(q))
  BY DEF QuietRow, ByApproval, IsNewProject, IsClosing
<1>2. \A q \in Records : rec[q].sip \in Sips /\ rec'[q].sip = rec[q].sip
  BY RowTypes DEF ProjectInv, QuietRow
<1>3. ASSUME NEW r \in Records
      PROVE  NoVote(r)'
  BY RowParts DEF NoVote, QuietRow
<1>4. ASSUME NEW r \in Records
      PROVE  ExecutesOnce(r)'
  <2>1. ExecutesOnce(r)
    BY RowParts
  <2>2. \A q \in Records : ByApproval(q) => OneToken(q)' /\ (Creates(q)' => Creates(q))
    BY DEF QuietRow
  <2>3. QED
    BY <1>1, <1>2, <2>1, <2>2 DEF ExecutesOnce, QuietProjects
<1>5. ASSUME NEW r \in Records
      PROVE  HasProject(r)' /\ OneProject(r)'
  <2>1. HasProject(r) /\ OneProject(r)
    BY RowParts
  <2>2. QED
    BY <1>1, <1>2, <2>1 DEF HasProject, OneProject, Built, QuietRow, QuietProjects
<1>6. ASSUME NEW q \in Records, NEW r \in Records
      PROVE  SameTemplate(q, r)'
  BY <1>1, <1>2, RowParts DEF SameTemplate, QuietRow
<1>7. ProjectsAreNumbered'
  BY <1>2 DEF ProjectInv, ProjectParts, ProjectsAreNumbered, QuietProjects
<1>8. QED
  BY <1>3, <1>4, <1>5, <1>6, <1>7 DEF ProjectParts

\* A step that adds row n: a new proposal, or a version of proposal r.
LEMMA AddedRow ==
    ASSUME ProjectInv, NEW n \in Records, ~Used(n), rec'[n].state # "executed",
           \/ rec'[n].sip = 0
           \/ \E r \in Records : rec'[n].sip = rec[r].sip /\ rec'[n].tmpl = rec[r].tmpl,
           ~HasPoll(rec'[n].tmpl) \/ ~Used(n)' => vote'[n] = "none",
           \A q \in Records \ {n} : rec'[q] = rec[q] /\ (vote[q] = "none" => vote'[q] = "none"),
           UNCHANGED <<jobs, inflight, ops, project>>
    PROVE  ProjectParts'
<1>1. \A k \in JobKinds \ {"approve"} : ~May(n, k)
  BY DEF ProjectInv, PassingInv, RowInv, Entitled, May
<1>2. rec[n].sip = 0 /\ \A o \in ops : o.rcd # n
  BY RowTypes DEF ProjectInv
<1>3. \A q \in Records, k \in JobKinds : May(q, k)' <=> May(q, k)
  BY DEF May
<1>4. \A q \in Records \ {n} : /\ ByApproval(q)' <=> ByApproval(q)
                               /\ IsClosing(q)' <=> IsClosing(q)
                               /\ rec'[q] = rec[q]
  BY DEF ByApproval, IsNewProject, IsClosing
<1>5. \A r \in Records : rec'[n].tmpl = rec[r].tmpl =>
        (ByApproval(n)' <=> ByApproval(r)) /\ (IsClosing(n)' <=> IsClosing(r))
  BY DEF ByApproval, IsNewProject, IsClosing
<1>6. \A r \in Records : NoVote(r)'
  <2>1. NoVote(n)'
    BY <1>1, <1>3, KindsOfJobs DEF NoVote
  <2>2. ASSUME NEW r \in Records \ {n} PROVE NoVote(r)'
    BY <1>3, <1>4, RowParts, KindsOfJobs DEF NoVote, Used
  <2>3. QED
    BY <2>1, <2>2
<1>7. \A r \in Records : ExecutesOnce(r)'
  <2>1. ~Creates(n)' /\ OneToken(n)'
    BY <1>1, <1>2, <1>3, KindsOfJobs DEF Creates, OneToken, Launches
  <2>2. \A q \in Records : (Creates(q)' <=> Creates(q)) /\ (OneToken(q)' <=> OneToken(q))
    BY <1>3, KindsOfJobs DEF Creates, OneToken
  <2>3. ASSUME NEW r \in Records \ {n} PROVE ExecutesOnce(r)'
    <3>1. ExecutesOnce(r)
      BY RowParts
    <3>2. QED
      BY <1>4, <2>1, <2>2, <3>1 DEF ExecutesOnce
  <2>4. ExecutesOnce(n)'
    BY <2>1 DEF ExecutesOnce
  <2>5. QED
    BY <2>3, <2>4
<1>8. \A r \in Records : HasProject(r)' /\ OneProject(r)'
  <2>1. ASSUME NEW r \in Records \ {n} PROVE HasProject(r)' /\ OneProject(r)'
    BY <1>4, RowParts DEF HasProject, OneProject, Built
  <2>2. HasProject(n)' /\ OneProject(n)'
    BY <1>5, RowParts DEF HasProject, OneProject
  <2>3. QED
    BY <2>1, <2>2
<1>9. \A q, r \in Records : SameTemplate(q, r)'
  <2> SUFFICES ASSUME NEW q \in Records, NEW r \in Records PROVE SameTemplate(q, r)'
    OBVIOUS
  <2>1. CASE q # n /\ r # n
    BY <1>4, <2>1, RowParts DEF SameTemplate
  <2>2. CASE q = n /\ r = n
    BY <2>2 DEF SameTemplate
  <2>3. CASE q = n /\ r # n
    BY <1>4, <1>5, <2>3, RowParts DEF SameTemplate
  <2>4. CASE q # n /\ r = n
    BY <1>4, <1>5, <2>4 DEF ProjectInv, ProjectParts, SameTemplate
  <2>5. QED
    BY <2>1, <2>2, <2>3, <2>4
<1>10. ProjectsAreNumbered'
  <2> SUFFICES ASSUME NEW x \in Sips \ {0}, project[x] # "none"
               PROVE  \E q \in Records : rec'[q].sip = x
    BY DEF ProjectsAreNumbered
  <2>1. PICK q \in Records : rec[q].sip = x
    BY DEF ProjectInv, ProjectParts, ProjectsAreNumbered
  <2>2. QED
    BY <1>2, <1>4, <2>1
<1>11. QED
  BY <1>6, <1>7, <1>8, <1>9, <1>10 DEF ProjectParts

\* The next SIP is nobody's, and there is no project with it.
LEMMA NextSipIsFree ==
    ASSUME ProjectInv, NEW r \in Records, NEW s \in Sips, ~IsClosing(r), SipFor(r, s)
    PROVE  /\ s # 0 /\ project[s] = "none"
           /\ \A q \in Records : rec[q].sip # s
<1>1. IsNextSip(s)
  BY DEF SipFor
<1>2. \A q \in Records : rec[q].sip \in Nat /\ rec[q].sip < s
  BY <1>1, RowTypes DEF IsNextSip, ProjectInv, Sips
<1>3. s \in Nat
  BY DEF Sips
<1>4. s # 0 /\ \A q \in Records : rec[q].sip # s
  BY <1>2, <1>3
<1>5. project[s] = "none"
  BY <1>4 DEF ProjectInv, ProjectParts, ProjectsAreNumbered
<1>6. QED
  BY <1>4, <1>5

\* A step that gives row r its first SIP: an approval, or a poll that was seen open.
LEMMA NumberedRow ==
    ASSUME ProjectInv, NEW r \in Records, NEW s \in Sips, rec[r].sip = 0, SipFor(r, s),
           \A q \in Records \ {r} : QuietRow(q), QuietProjects,
           rec'[r].tmpl = rec[r].tmpl, rec'[r].sip = s, rec'[r].state # "executed",
           ~Used(r)' => vote'[r] = "none",
           ~HasPoll(rec[r].tmpl) => vote'[r] = "none" /\ \A k \in ActionKinds : May(r, k)' => May(r, k),
           ByApproval(r) => OneToken(r)'
    PROVE  ProjectParts'
<1>1. \A q \in Records : (ByApproval(q)' <=> ByApproval(q)) /\ (IsClosing(q)' <=> IsClosing(q))
                         /\ rec'[q].tmpl = rec[q].tmpl
  BY DEF QuietRow, ByApproval, IsNewProject, IsClosing
<1>2. \A q \in Records : ByApproval(q) => ~IsClosing(q)
  BY DEF ByApproval, IsNewProject, IsClosing
<1>3. \A q \in Records : rec[q].sip \in Sips
  BY RowTypes DEF ProjectInv
<1>4. ~IsClosing(r) => /\ s # 0 /\ project[s] = "none" /\ project'[s] = "none"
                       /\ \A q \in Records : rec[q].sip # s
  BY NextSipIsFree DEF QuietProjects
<1>5. \A q \in Records : q # r => /\ rec'[q].sip = rec[q].sip
                                  /\ ByApproval(q) => OneToken(q)' /\ (Creates(q)' => Creates(q))
  BY DEF QuietRow
<1>6. ASSUME NEW q \in Records PROVE NoVote(q)'
  BY <1>1, RowParts DEF NoVote, QuietRow
<1>7. ASSUME NEW q \in Records PROVE ExecutesOnce(q)'
  <2> SUFFICES ASSUME ByApproval(q)', Creates(q)'
               PROVE  /\ rec'[q].sip # 0 /\ project'[rec'[q].sip] = "none"
                      /\ \A p \in Records : ByApproval(p)' /\ Creates(p)' /\ rec'[p].sip = rec'[q].sip
                           => p = q
    BY <1>1, <1>5 DEF ExecutesOnce
  <2>1. CASE q = r
    BY <1>1, <1>2, <1>4, <1>5, <2>1
  <2>2. CASE q # r
    <3>1. ByApproval(q) /\ Creates(q) /\ rec'[q].sip = rec[q].sip /\ ExecutesOnce(q)
      BY <1>1, <1>5, <2>2, RowParts
    <3>2. /\ rec[q].sip # 0 /\ project[rec[q].sip] = "none"
          /\ \A p \in Records : ByApproval(p) /\ Creates(p) /\ rec[p].sip = rec[q].sip => p = q
      BY <3>1 DEF ExecutesOnce
    <3>3. project'[rec[q].sip] = "none"
      BY <1>3, <3>2 DEF QuietProjects
    <3>4. ASSUME NEW p \in Records, ByApproval(p)', Creates(p)', rec'[p].sip = rec'[q].sip
          PROVE  p = q
      <4>1. p # r
        BY <1>1, <1>2, <1>4, <3>1, <3>4
      <4>2. QED
        BY <1>1, <1>5, <3>1, <3>2, <3>4, <4>1
    <3>5. QED
      BY <3>1, <3>2, <3>3, <3>4
  <2>3. QED
    BY <2>1, <2>2
<1>8. ASSUME NEW q \in Records PROVE HasProject(q)' /\ OneProject(q)'
  <2>1. CASE q = r
    BY <1>1, <1>2, <1>4, <2>1 DEF HasProject, OneProject
  <2>2. CASE q # r
    <3>1. rec[q].sip \in Sips /\ HasProject(q) /\ OneProject(q)
      BY <1>3, RowParts
    <3>2. QED
      BY <1>1, <1>5, <2>2, <3>1 DEF HasProject, OneProject, Built, QuietRow, QuietProjects
  <2>3. QED
    BY <2>1, <2>2
<1>9. ASSUME NEW p \in Records, NEW q \in Records PROVE SameTemplate(p, q)'
  <2> SUFFICES ASSUME ~IsClosing(p)', ~IsClosing(q)', rec'[p].sip = rec'[q].sip, rec'[q].sip # 0
               PROVE  rec'[p].tmpl = rec'[q].tmpl
    BY DEF SameTemplate
  <2>1. CASE p # r /\ q # r
    BY <1>1, <1>5, <2>1, RowParts DEF SameTemplate
  <2>2. CASE p = q
    BY <2>2
  <2>3. CASE p # q /\ (p = r \/ q = r)
    BY <1>1, <1>4, <1>5, <2>3
  <2>4. QED
    BY <2>1, <2>2, <2>3
<1>10. ProjectsAreNumbered'
  <2> SUFFICES ASSUME NEW x \in Sips \ {0}, project'[x] # "none"
               PROVE  \E q \in Records : rec'[q].sip = x
    BY DEF ProjectsAreNumbered
  <2>1. PICK q \in Records : rec[q].sip = x
    BY DEF ProjectInv, ProjectParts, ProjectsAreNumbered, QuietProjects
  <2>2. QED
    BY <1>5, <2>1
<1>11. QED
  BY <1>6, <1>7, <1>8, <1>9, <1>10 DEF ProjectParts

\* A step that creates the project of row r, if it is a project proposal.
LEMMA BuiltRow ==
    ASSUME ProjectInv, NEW r \in Records, Creates(r), project' = WithProject(r, rec[r].sip),
           \A q \in Records \ {r} : QuietRow(q),
           rec'[r].tmpl = rec[r].tmpl, rec'[r].sip = rec[r].sip,
           rec'[r].state = "unused" => rec[r].state = "unused", vote'[r] = vote[r],
           \A k \in ActionKinds : May(r, k)' => May(r, k),
           ByApproval(r) => ~Creates(r)'
    PROVE  ProjectParts'
<1> DEFINE s == rec[r].sip
<1>1. /\ \A q \in Records : rec[q].sip \in Sips
      /\ project \in [Sips -> ProjectStates]
  BY RowTypes DEF ProjectInv
<1>2. \A q \in Records : rec'[q].tmpl = rec[q].tmpl /\ rec'[q].sip = rec[q].sip
  BY DEF QuietRow
<1>3. \A q \in Records : (ByApproval(q)' <=> ByApproval(q)) /\ (IsClosing(q)' <=> IsClosing(q))
                         /\ (ByApproval(q) => ~HasPoll(rec[q].tmpl) /\ ~IsClosing(q) /\ IsNewProject(q))
  BY <1>2 DEF ByApproval, IsNewProject, IsClosing
<1>4. \/ IsNewProject(r) /\ project' = [project EXCEPT ![s] = IF @ = "none" THEN "open" ELSE "twice"]
      \/ ~IsNewProject(r) /\ project' = project
  BY DEF WithProject
<1>5. /\ \A x \in Sips : x # s => project'[x] = project[x]
      /\ \A x \in Sips : project[x] # "none" => project'[x] # "none"
  BY <1>1, <1>4
<1>6. ByApproval(r) => s # 0 /\ project[s] = "none" /\ project'[s] = "open"
  <2>1. ExecutesOnce(r)
    BY RowParts
  <2>2. ByApproval(r) => s # 0 /\ project[s] = "none"
    BY <2>1 DEF ExecutesOnce
  <2>3. QED
    BY <1>1, <1>3, <1>4, <2>2
<1>7. \A q \in Records : ByApproval(q) /\ rec[q].sip = s /\ s # 0 /\ project' # project => ByApproval(r)
  <2> SUFFICES ASSUME NEW q \in Records, ByApproval(q), rec[q].sip = s, s # 0, project' # project
               PROVE  ByApproval(r)
    OBVIOUS
  <2>1. IsNewProject(r) /\ ~IsClosing(r)
    BY <1>4 DEF IsNewProject, IsClosing
  <2>2. rec[q].tmpl = rec[r].tmpl
    BY <1>3, <2>1, RowParts DEF SameTemplate
  <2>3. QED
    BY <1>3, <2>1, <2>2 DEF ByApproval
<1>8. \A q \in Records : ByApproval(q) => OneToken(q)' /\ (Creates(q)' => Creates(q) /\ q # r)
  BY DEF QuietRow, OneToken, Creates
<1>9. ASSUME NEW q \in Records PROVE NoVote(q)'
  <2>1. CASE q = r
    BY <1>2, <2>1, RowParts DEF NoVote, Used
  <2>2. CASE q # r
    BY <1>2, <2>2, RowParts DEF NoVote, QuietRow
  <2>3. QED
    BY <2>1, <2>2
<1>10. ASSUME NEW q \in Records PROVE ExecutesOnce(q)'
  <2> SUFFICES ASSUME ByApproval(q), Creates(q), q # r
               PROVE  /\ rec[q].sip # 0 /\ project'[rec[q].sip] = "none"
                      /\ \A p \in Records : ByApproval(p) /\ Creates(p) /\ rec[p].sip = rec[q].sip
                           => p = q
    BY <1>2, <1>3, <1>8 DEF ExecutesOnce
  <2>1. /\ rec[q].sip # 0 /\ project[rec[q].sip] = "none"
        /\ \A p \in Records : ByApproval(p) /\ Creates(p) /\ rec[p].sip = rec[q].sip => p = q
    BY RowParts DEF ExecutesOnce
  <2>2. rec[q].sip # s \/ project' = project
    BY <1>7, <2>1
  <2>3. QED
    BY <1>1, <1>5, <2>1, <2>2
<1>11. ASSUME NEW q \in Records PROVE HasProject(q)' /\ OneProject(q)'
  <2>1. rec[q].sip \in Sips /\ HasProject(q) /\ OneProject(q)
    BY <1>1, RowParts
  <2>2. HasProject(q)'
    <3>1. CASE q = r
      BY <1>2, <1>3, <1>6, <3>1 DEF HasProject, Built
    <3>2. CASE q # r
      BY <1>2, <1>3, <1>5, <2>1, <3>2 DEF HasProject, Built, QuietRow
    <3>3. QED
      BY <3>1, <3>2
  <2>3. OneProject(q)'
    BY <1>2, <1>3, <1>5, <1>6, <1>7, <2>1 DEF OneProject
  <2>4. QED
    BY <2>2, <2>3
<1>12. ASSUME NEW p \in Records, NEW q \in Records PROVE SameTemplate(p, q)'
  BY <1>2, <1>3, RowParts DEF SameTemplate
<1>13. ProjectsAreNumbered'
  BY <1>2, <1>5 DEF ProjectInv, ProjectParts, ProjectsAreNumbered
<1>14. QED
  BY <1>9, <1>10, <1>11, <1>12, <1>13 DEF ProjectParts

\* The actions, by the kind of step they are.
LEMMA CreateProjects ==
    ASSUME ProjectInv, NEW t \in Offered, NEW p \in Records \cup {0}, NEW publish \in BOOLEAN,
           Create(t, p, publish)
    PROVE  ProjectParts'
<1>1. PICK n \in Records :
        /\ Fresh(n)
        /\ rec' = [rec EXCEPT ![n] = [NoRow EXCEPT !.state = "pending_submit", !.tmpl = t,
                                                   !.target = p, !.ver = 1]]
        /\ vote' = [vote EXCEPT ![n] = IF HasPoll(t) THEN "new" ELSE "none"]
        /\ UNCHANGED <<jobs, inflight, ops, project>>
  BY DEF Create
<1>2. rec \in [Records -> Row] /\ vote \in [Records -> PollStatus \cup {"new"}]
  BY RowTypes DEF ProjectInv
<1>3. /\ rec'[n] = [NoRow EXCEPT !.state = "pending_submit", !.tmpl = t, !.target = p, !.ver = 1]
      /\ \A q \in Records \ {n} : rec'[q] = rec[q] /\ vote'[q] = vote[q]
      /\ vote'[n] = IF HasPoll(t) THEN "new" ELSE "none"
  BY <1>1, <1>2
<1>4. rec'[n].state = "pending_submit" /\ rec'[n].sip = 0 /\ rec'[n].tmpl = t
  BY <1>3, InitialRows DEF NoRow, Row
<1>5. ~Used(n) /\ Used(n)' /\ rec'[n].state # "executed"
  BY <1>1, <1>4 DEF Fresh, Used
<1>6. QED
  BY <1>1, <1>3, <1>4, <1>5, AddedRow

LEMMA SaveUpdateProjects ==
    ASSUME ProjectInv, NEW w \in reqs, NEW publish \in BOOLEAN, SaveUpdate(w, publish) \/ SaveUpdateFails(w)
    PROVE  ProjectParts'
<1> DEFINE r == w.rcd
<1>1. /\ rec \in [Records -> Row] /\ vote \in [Records -> PollStatus \cup {"new"}]
      /\ r \in Records /\ rec[r] \in Row
      /\ UNCHANGED <<jobs, inflight, ops, project>>
  BY DEF ProjectInv, PassingInv, TypeOK, Request, SaveUpdate, SaveUpdateFails
<1>2. CASE rec' = [rec EXCEPT ![r].target = w.target] /\ vote' = vote
  <2>1. \A q \in Records : rec[q] \in Row
    BY <1>1
  <2>2. \A q \in Records : /\ rec'[q].tmpl = rec[q].tmpl /\ rec'[q].sip = rec[q].sip
                           /\ rec'[q].state = rec[q].state
    BY <1>1, <1>2, <2>1 DEF Row
  <2>3. LaunchesKept
    BY <1>1 DEF LaunchesKept
  <2>4. \A q \in Records : QuietRow(q)
    BY <1>1, <1>2, <2>2, <2>3, QuietChange DEF May, HasProject
  <2>5. QED
    BY <1>1, <2>4, QuietStep DEF QuietProjects
<1>3. ASSUME NEW n \in Records, Fresh(n), NEW row,
             rec' = [rec EXCEPT ![n] = row],
             row.state = "draft" /\ row.sip = rec[r].sip /\ row.tmpl = rec[r].tmpl,
             \/ vote' = vote
             \/ vote' = [vote EXCEPT ![r] = "none", ![n] = IF HasPoll(rec[r].tmpl) /\ vote[r] = "none"
                                                         THEN "new" ELSE vote[r]]
      PROVE  ProjectParts'
  <2>1. rec'[n] = row /\ \A q \in Records \ {n} : rec'[q] = rec[q]
    BY <1>1, <1>3
  <2>2. \A q \in Records \ {n} : vote[q] = "none" => vote'[q] = "none"
    BY <1>1, <1>3
  <2>3. ~HasPoll(rec[r].tmpl) => vote[r] = "none"
    BY <1>1, RowParts DEF NoVote
  <2>4. ~Used(n)
    BY <1>3 DEF Fresh
  <2>5. vote[n] = "none"
    BY <2>4, RowParts DEF NoVote
  <2>6. rec'[n].tmpl = rec[r].tmpl /\ rec'[n].sip = rec[r].sip /\ rec'[n].state = "draft"
    BY <1>3, <2>1
  <2>7. ~HasPoll(rec'[n].tmpl) => vote'[n] = "none"
    BY <1>1, <1>3, <2>3, <2>5, <2>6
  <2>8. Used(n)' /\ rec'[n].state # "executed"
    BY <2>6 DEF Used
  <2>9. QED
    BY <1>1, <2>1, <2>2, <2>4, <2>6, <2>7, <2>8, AddedRow
<1>4. CASE \E n \in Records :
             /\ Fresh(n)
             /\ rec' = [rec EXCEPT ![n] = [rec[r] EXCEPT !.state = "draft", !.ver = @ + 1,
                                                        !.target = w.target, !.auto = FALSE]]
             /\ vote' = [vote EXCEPT ![r] = "none", ![n] = IF HasPoll(rec[r].tmpl) /\ vote[r] = "none"
                                                         THEN "new" ELSE vote[r]]
  <2>1. PICK n \in Records :
             /\ Fresh(n)
             /\ rec' = [rec EXCEPT ![n] = [rec[r] EXCEPT !.state = "draft", !.ver = @ + 1,
                                                        !.target = w.target, !.auto = FALSE]]
             /\ vote' = [vote EXCEPT ![r] = "none", ![n] = IF HasPoll(rec[r].tmpl) /\ vote[r] = "none"
                                                         THEN "new" ELSE vote[r]]
    BY <1>4
  <2> DEFINE row == [rec[r] EXCEPT !.state = "draft", !.ver = @ + 1, !.target = w.target, !.auto = FALSE]
  <2>2. row.state = "draft" /\ row.sip = rec[r].sip /\ row.tmpl = rec[r].tmpl
    BY <1>1 DEF Row
  <2>3. rec' = [rec EXCEPT ![n] = row]
    BY <1>1, <2>1
  <2> HIDE DEF row
  <2>4. QED
    BY <1>3, <2>1, <2>2, <2>3
<1>5. CASE \E n \in Records :
             /\ Fresh(n)
             /\ rec' = [rec EXCEPT ![n] = [rec[r] EXCEPT !.state = "draft", !.ver = @ + 1, !.auto = FALSE]]
             /\ vote' = vote
  <2>1. PICK n \in Records :
             /\ Fresh(n)
             /\ rec' = [rec EXCEPT ![n] = [rec[r] EXCEPT !.state = "draft", !.ver = @ + 1, !.auto = FALSE]]
             /\ vote' = vote
    BY <1>5
  <2> DEFINE row == [rec[r] EXCEPT !.state = "draft", !.ver = @ + 1, !.auto = FALSE]
  <2>2. row.state = "draft" /\ row.sip = rec[r].sip /\ row.tmpl = rec[r].tmpl
    BY <1>1 DEF Row
  <2>3. rec' = [rec EXCEPT ![n] = row]
    BY <1>1, <2>1
  <2> HIDE DEF row
  <2>4. QED
    BY <1>3, <2>1, <2>2, <2>3
<1>6. QED
  BY <1>2, <1>4, <1>5 DEF SaveUpdate, SaveUpdateFails

\* The stages of a request that publish, reserve or schedule.
LEMMA StageProjects ==
    ASSUME ProjectInv, NEW w \in reqs,
           \/ Publish(w) \/ Republish(w) \/ PublishFails(w)
           \/ CloseLinkedProject(w) \/ ScheduleApproval(w) \/ RequestFails(w)
    PROVE  ProjectParts'
<1>1. /\ rec \in [Records -> Row] /\ \A q \in Records : rec[q] \in Row
      /\ vote \in [Records -> PollStatus \cup {"new"}]
      /\ jobs \in [Records -> [JobKinds -> JobStates]]
      /\ w.rcd \in Records
  BY DEF ProjectInv, PassingInv, TypeOK, Request
<1>2. inflight' = inflight /\ LaunchesKept
  BY DEF Publish, Republish, PublishFails, CloseLinkedProject, ScheduleApproval, RequestFails, LaunchesKept
<1>3. \A q \in Records : /\ rec'[q].tmpl = rec[q].tmpl /\ rec'[q].sip = rec[q].sip
                         /\ rec'[q].state = rec[q].state \/ rec'[q].state = "draft"
  <2>1. CASE Publish(w) \/ PublishFails(w)
    BY <1>1, <2>1 DEF Publish, PublishFails, Row
  <2>2. CASE Republish(w)
    BY <1>1, <2>2 DEF Republish, Row
  <2>3. CASE ScheduleApproval(w)
    BY <1>1, <2>3 DEF ScheduleApproval, Row
  <2>4. CASE UNCHANGED rec
    BY <2>4
  <2>5. QED
    BY <2>1, <2>2, <2>3, <2>4 DEF CloseLinkedProject, RequestFails
<1>4. \A q \in Records : vote'[q] = vote[q] \/ (HasPoll(rec[q].tmpl) /\ rec'[q].state = "draft")
  <2>1. CASE Publish(w)
    BY <1>1, <2>1 DEF Publish, Row
  <2>2. CASE Republish(w)
    <3>1. vote[w.rcd] # "none" => HasPoll(rec[w.rcd].tmpl)
      BY <1>1, RowParts DEF NoVote
    <3>2. QED
      BY <1>1, <2>2, <3>1 DEF Republish, Row
  <2>3. CASE ~Publish(w) /\ ~Republish(w)
    BY <2>3 DEF PublishFails, CloseLinkedProject, ScheduleApproval, RequestFails
  <2>4. QED
    BY <2>1, <2>2, <2>3
<1>5. \A q \in Records, k \in JobKinds \ {"approve"} : jobs'[q][k] = jobs[q][k]
  BY <1>1 DEF Publish, Republish, PublishFails, CloseLinkedProject, ScheduleApproval, RequestFails, AddJob
<1>6. \A q \in Records : QuietRow(q)
  BY <1>2, <1>3, <1>4, <1>5, QuietChange DEF Used, May
<1>7. QuietProjects
  <2>1. project \in [Sips -> ProjectStates]
    BY RowTypes DEF ProjectInv
  <2>2. CASE CloseLinkedProject(w)
    BY <2>1, <2>2 DEF CloseLinkedProject, CanBeClosed, QuietProjects
  <2>3. CASE project' = project
    BY <2>3 DEF QuietProjects
  <2>4. QED
    BY <2>2, <2>3 DEF Publish, Republish, PublishFails, ScheduleApproval, RequestFails
<1>8. QED
  BY <1>6, <1>7, QuietStep

\* A proposal gets its SIP: an approval is begun, or its poll was seen open.
LEMMA NumberedProjects ==
    ASSUME ProjectInv, NEW r \in Records, NEW s \in Sips, rec[r].sip = 0, SipFor(r, s),
           rec' = [rec EXCEPT ![r].sip = s, ![r].state = "voting"], project' = project,
           \A q \in Records : vote'[q] = vote[q] \/ (HasPoll(rec[q].tmpl) /\ Used(q)),
           \A q \in Records, k \in JobKinds \ {"approve"} : May(q, k)' => May(q, k),
           LaunchesKept \/ \E by : Hold(by, r, "launch", "voting")
    PROVE  ProjectParts'
<1>1. rec \in [Records -> Row] /\ rec[r] \in Row
  BY RowTypes DEF ProjectInv
<1>2. /\ rec'[r].tmpl = rec[r].tmpl /\ rec'[r].sip = s /\ rec'[r].state = "voting"
      /\ \A q \in Records \ {r} : rec'[q] = rec[q]
  BY <1>1 DEF Row
<1>3. ByApproval(r) => ~Creates(r)
  BY RowParts DEF ExecutesOnce
<1>4. \A o \in ops' : o.step = "launch" => o \in ops \/ o.rcd = r
  BY HeldOps DEF LaunchesKept
<1>5. ASSUME NEW q \in Records \ {r} PROVE QuietRow(q)
  <2>1. NoVote(q) /\ ExecutesOnce(q)
    BY RowParts
  <2>2. \A o \in ops' : Launches(o, q) => o \in ops
    BY <1>4 DEF Launches
  <2>3. ByApproval(q) => OneToken(q)' /\ (Creates(q)' => Creates(q))
    <3>1. May(q, "execute")' => May(q, "execute")
      BY KindsOfJobs
    <3>2. QED
      BY <2>1, <2>2, <3>1 DEF ExecutesOnce, OneToken, Creates, Launches
  <2>4. ~HasPoll(rec[q].tmpl) => vote'[q] = "none" /\ \A k \in ActionKinds : May(q, k)' => May(q, k)
    BY <2>1, KindsOfJobs DEF NoVote
  <2>5. ~Used(q)' => vote'[q] = "none"
    BY <1>2, <2>1 DEF NoVote, Used
  <2>6. QED
    BY <1>2, <2>3, <2>4, <2>5 DEF QuietRow
<1>6. ByApproval(r) => OneToken(r)'
  <2>1. ASSUME ByApproval(r), NEW o \in ops', Launches(o, r), NEW p \in ops', Launches(p, r)
        PROVE  p = o
    <3>1. o \notin ops /\ p \notin ops
      BY <1>3, <2>1 DEF Creates, Launches
    <3>2. QED
      BY <2>1, <3>1 DEF LaunchesKept, Launches, Hold
  <2>2. ByApproval(r) => ~May(r, "execute")'
    BY <1>3, KindsOfJobs DEF Creates
  <2>3. QED
    BY <2>1, <2>2 DEF OneToken, Launches
<1>7. ~HasPoll(rec[r].tmpl) => vote'[r] = "none" /\ \A k \in ActionKinds : May(r, k)' => May(r, k)
  BY RowParts, KindsOfJobs DEF NoVote
<1>8. Used(r)' /\ QuietProjects
  BY <1>2 DEF Used, QuietProjects
<1>9. QED
  BY <1>2, <1>5, <1>6, <1>7, <1>8, NumberedRow

LEMMA ApprovalProjects ==
    ASSUME ProjectInv, NEW by, NEW r \in Records, StartApproval(by, r), UNCHANGED <<vote, project>>,
           \A q \in Records, k \in JobKinds \ {"approve"} : May(q, k)' => May(q, k)
    PROVE  ProjectParts'
<1>1. PICK s \in Sips : SipFor(r, s) /\ rec' = [rec EXCEPT ![r].sip = s, ![r].state = "voting"]
  BY DEF StartApproval
<1>2. QED
  BY <1>1, NumberedProjects DEF StartApproval

\* A step that leaves the rows as they are but their state, and no proposal without a
\* vote executed.
LEMMA QuietRows ==
    ASSUME ProjectInv, LaunchesKept, project' = project, UNCHANGED vote,
           \A q \in Records : /\ rec'[q].tmpl = rec[q].tmpl /\ rec'[q].sip = rec[q].sip
                              /\ rec'[q].state = "unused" => rec[q].state = "unused"
                              /\ ByApproval(q) /\ rec'[q].state = "executed" =>
                                   rec[q].state = "executed" \/ Built(q),
           \A q \in Records, k \in JobKinds \ {"approve"} : May(q, k)' => May(q, k)
    PROVE  ProjectParts'
<1>1. \A q \in Records : QuietRow(q)
  BY QuietChange
<1>2. QED
  BY <1>1, QuietStep DEF QuietProjects

LEMMA TakeBackProjects ==
    ASSUME ProjectInv, NEW r \in Records, NEW state, TakeBack(r, state)
    PROVE  ProjectParts'
<1>1. /\ jobs \in [Records -> [JobKinds -> JobStates]]
      /\ UNCHANGED <<rec, vote, inflight, project>>
  BY RowTypes DEF TakeBack, ProjectInv
<1>2. \A q \in Records, k \in JobKinds : jobs'[q][k] = "active" => jobs[q][k] = "active"
  BY <1>1 DEF TakeBack, DeleteJobs, NoJob
<1>3. LaunchesKept
  BY HeldOps DEF TakeBack, LaunchesKept
<1>4. QED
  BY <1>1, <1>2, <1>3, QuietRows DEF May

\* The forum and a restart change no proposal but the time of its vote; a job may be
\* handed out.
LEMMA ForumProjects ==
    ASSUME ProjectInv,
           \/ Forum \/ Restart \/ UNCHANGED vars
           \/ \E r \in Records, k \in JobKinds : Dispatch(r, k)
           \/ \E r \in Records, p \in Records \cup {0} : CheckUpdate(r, p)
    PROVE  ProjectParts'
<1>1. /\ rec \in [Records -> Row] /\ \A q \in Records : rec[q] \in Row
      /\ UNCHANGED <<vote, jobs, project>>
      /\ LaunchesKept
  BY RowTypes DEF Forum, StartPasses, PollOpens, PollCloses, Restart, Dispatch, CheckUpdate, vars,
                  ProjectInv, LaunchesKept
<1>2. \A q \in Records : /\ rec'[q].tmpl = rec[q].tmpl /\ rec'[q].sip = rec[q].sip
                         /\ rec'[q].state = rec[q].state
  <2>1. CASE \E t \in Records : StartPasses(t)
    BY <1>1, <2>1 DEF StartPasses, Row
  <2>2. CASE UNCHANGED rec
    BY <2>2
  <2>3. QED
    BY <2>1, <2>2 DEF Forum, PollOpens, PollCloses, Restart, Dispatch, CheckUpdate, vars
<1>3. \A q \in Records, k \in JobKinds : May(q, k)' => May(q, k)
  <2>1. \/ inflight' \subseteq inflight
        \/ \E r \in Records, k \in JobKinds : jobs[r][k] = "active" /\ inflight' = inflight \cup {<<r, k>>}
    BY DEF Forum, StartPasses, PollOpens, PollCloses, Restart, Dispatch, CheckUpdate, vars
  <2>2. QED
    BY <1>1, <2>1 DEF May
<1>4. QED
  BY <1>1, <1>2, <1>3, QuietRows

\* A poll whose status changed belongs to a proposal that is voted, and so do those
\* whose saved status changes with it.
LEMMA SavedStatus ==
    ASSUME ProjectInv, NEW r \in Records, vote[r] # "none", NEW s, SaveStatus(r, s)
    PROVE  /\ HasPoll(rec[r].tmpl) /\ Used(r)
           /\ \A q \in Records : vote'[q] = vote[q] \/ (HasPoll(rec[q].tmpl) /\ Used(q))
<1>1. \A q \in Records : vote'[q] = vote[q] \/ q = r \/ vote[q] = vote[r]
  BY DEF SaveStatus
<1>2. QED
  BY <1>1, RowParts DEF NoVote

LEMMA FetchProjects ==
    ASSUME ProjectInv, NEW r \in Records, Fetch(r) \/ Refresh(r)
    PROVE  ProjectParts'
<1>1. /\ Changed(r) /\ vote[r] # "none"
      /\ UNCHANGED <<jobs, inflight, project>>
      /\ LaunchesKept
  <2>1. UNCHANGED ops \/ Settle("http", r) \/ Settle("task", r)
    BY DEF Fetch, Refresh
  <2>2. LaunchesKept
    BY <2>1, HeldOps DEF Settle, LaunchesKept
  <2>3. QED
    BY <2>2 DEF Fetch, Refresh, Changed
<1>2. \A q \in Records : vote'[q] = vote[q] \/ (HasPoll(rec[q].tmpl) /\ Used(q))
  <2>1. UNCHANGED vote \/ \E s : SaveStatus(r, s)
    BY DEF Fetch, Refresh
  <2>2. QED
    BY <1>1, <2>1, SavedStatus
<1>3. CASE UNCHANGED rec
  <2>1. \A q \in Records : QuietRow(q)
    BY <1>1, <1>2, <1>3, QuietChange DEF Used, May
  <2>2. QED
    BY <1>1, <2>1, QuietStep DEF QuietProjects
<1>4. CASE rec[r].sip = 0 /\ \E s \in Sips : SipFor(r, s) /\ rec' = [rec EXCEPT ![r].sip = s, ![r].state = "voting"]
  BY <1>1, <1>2, <1>4, NumberedProjects DEF May
<1>5. QED
  BY <1>3, <1>4 DEF Fetch, Refresh, OpenVoting

\* What the operations but Launch do with the rows.
LEMMA OperationRows ==
    ASSUME PassingInv, NEW o \in ops,
           WriteState(o) \/ WriteVerdict(o) \/ Automate(o) \/ CommitRefresh(o) \/ OperationFails(o)
    PROVE  /\ \A q \in Records :
                /\ rec'[q].tmpl = rec[q].tmpl /\ rec'[q].sip = rec[q].sip
                /\ rec'[q].target = rec[q].target /\ rec'[q].thread = rec[q].thread
                /\ q # o.rcd => rec'[q] = rec[q] /\ jobs'[q] = jobs[q]
           /\ rec'[o.rcd].state \in {rec[o.rcd].state, o.state, "execution_failed", "pending_execution",
                                     "executed"}
           /\ WriteState(o) => rec'[o.rcd].state = o.state
           /\ OperationFails(o) => rec' = rec
           /\ \A k \in JobKinds : jobs'[o.rcd][k] = "active" =>
                \/ jobs[o.rcd][k] = "active"
                \/ o.step \in {"verdict", "follow"}
                     /\ (k \in ActionKinds => rec[o.rcd].tmpl.action = k)
           /\ \A s \in Sips : project'[s] \in {project[s], "close_failed"}
                              /\ (project[s] = "none" => project'[s] = "none")
           /\ UNCHANGED <<inflight, reqs, passed>> /\ LaunchesKept
<1> DEFINE r == o.rcd
<1>1. /\ rec \in [Records -> Row] /\ r \in Records /\ \A q \in Records : rec[q] \in Row
      /\ jobs \in [Records -> [JobKinds -> JobStates]]
      /\ project \in [Sips -> ProjectStates] /\ TypeOK
  BY RowTypes DEF PassingInv
<1>2. \E state, auto :
        /\ rec' = [rec EXCEPT ![r].state = state, ![r].auto = auto]
        /\ state \in {rec[r].state, o.state, "execution_failed", "pending_execution", "executed"}
        /\ WriteState(o) => state = o.state
  <2>1. CASE WriteState(o) \/ WriteVerdict(o)
    <3>1. rec' = [rec EXCEPT ![r].state = o.state, ![r].auto = rec[r].auto]
      BY <1>1, <2>1 DEF WriteState, WriteVerdict, Row
    <3>2. QED
      BY <3>1
  <2>2. CASE Automate(o) /\ GetsJob(r, o.state)
    <3> DEFINE auto == rec[r].auto \/ rec[r].tmpl.action = "none"
    <3>1. rec' = [rec EXCEPT ![r].auto = auto]
      BY <1>1, <2>2 DEF Automate
    <3> HIDE DEF auto
    <3>2. rec' = [rec EXCEPT ![r].state = rec[r].state, ![r].auto = auto]
      BY <1>1, <3>1 DEF Row
    <3>3. ~WriteState(o)
      BY <2>2 DEF Automate, WriteState
    <3>4. QED
      BY <3>2, <3>3
  <2>3. CASE Automate(o) /\ ~GetsJob(r, o.state)
    <3> DEFINE last == FollowUp(r, o.state, rec[r].state)
    <3>1. rec' = [rec EXCEPT ![r].state = last]
      BY <1>1, <2>3 DEF Automate
    <3>2. last \in {rec[r].state, "execution_failed", "pending_execution", "executed"}
      BY DEF FollowUp
    <3> HIDE DEF last
    <3>3. rec' = [rec EXCEPT ![r].state = last, ![r].auto = rec[r].auto]
      BY <1>1, <3>1 DEF Row
    <3>4. ~WriteState(o)
      BY <2>3 DEF Automate, WriteState
    <3>5. QED
      BY <3>2, <3>3, <3>4
  <2>4. CASE CommitRefresh(o)
    <3> DEFINE last == FollowUp(r, o.state, o.state)
               auto == rec[r].auto \/ (GetsJob(r, o.state) /\ rec[r].tmpl.action = "none")
    <3>1. rec' = [rec EXCEPT ![r].state = last, ![r].auto = auto]
      BY <1>1, <2>4 DEF CommitRefresh
    <3>2. last \in {o.state, "execution_failed", "pending_execution", "executed"}
      BY DEF FollowUp
    <3>3. ~WriteState(o)
      BY <2>4 DEF CommitRefresh, WriteState
    <3> HIDE DEF last, auto
    <3>4. QED
      BY <3>1, <3>2, <3>3
  <2>5. CASE OperationFails(o)
    <3>1. rec' = [rec EXCEPT ![r].state = rec[r].state, ![r].auto = rec[r].auto]
      BY <1>1, <2>5 DEF OperationFails, Row
    <3>2. CASE ~WriteState(o)
      BY <3>1, <3>2
    <3>3. CASE WriteState(o)
      BY <2>1, <3>3
    <3>4. QED
      BY <3>2, <3>3
  <2>6. QED
    BY <2>1, <2>2, <2>3, <2>4, <2>5
<1>3. /\ \A q \in Records :
           /\ rec'[q].tmpl = rec[q].tmpl /\ rec'[q].sip = rec[q].sip
           /\ rec'[q].target = rec[q].target /\ rec'[q].thread = rec[q].thread
           /\ q # r => rec'[q] = rec[q]
      /\ rec'[r].state \in {rec[r].state, o.state, "execution_failed", "pending_execution", "executed"}
      /\ WriteState(o) => rec'[r].state = o.state
  <2>1. PICK state, auto :
          /\ rec' = [rec EXCEPT ![r].state = state, ![r].auto = auto]
          /\ state \in {rec[r].state, o.state, "execution_failed", "pending_execution", "executed"}
          /\ WriteState(o) => state = o.state
    BY <1>2
  <2>2. rec'[r].state = state /\ \A q \in Records : q # r => rec'[q] = rec[q]
    BY <1>1, <2>1 DEF Row
  <2>3. /\ rec'[r].tmpl = rec[r].tmpl /\ rec'[r].sip = rec[r].sip
        /\ rec'[r].target = rec[r].target /\ rec'[r].thread = rec[r].thread
    BY <1>1, <2>1 DEF Row
  <2>4. QED
    BY <2>1, <2>2, <2>3
<1>4. \/ UNCHANGED jobs
      \/ jobs' = WithJob(r) /\ o.step \in {"verdict", "follow"}
  BY DEF WriteState, WriteVerdict, Automate, CommitRefresh, OperationFails
<1>5. /\ \A q \in Records : q # r => jobs'[q] = jobs[q]
      /\ \A k \in JobKinds : jobs'[r][k] = "active" =>
           \/ jobs[r][k] = "active"
           \/ o.step \in {"verdict", "follow"} /\ (k \in ActionKinds => rec[r].tmpl.action = k)
  <2>1. CASE UNCHANGED jobs
    BY <2>1
  <2>2. CASE jobs' = WithJob(r) /\ o.step \in {"verdict", "follow"}
    <3> DEFINE k0 == IF rec[r].tmpl.action = "none" THEN "execute" ELSE rec[r].tmpl.action
    <3>1. jobs' = [jobs EXCEPT ![r][k0] = IF @ = "none" THEN "active" ELSE @]
      BY <2>2 DEF WithJob, AddJob
    <3>2. k0 \in ActionKinds => rec[r].tmpl.action = k0
      BY DEF ActionKinds
    <3> HIDE DEF k0
    <3>3. \A k \in JobKinds : jobs'[r][k] = "active" => jobs[r][k] = "active" \/ k = k0
      BY <1>1, <3>1
    <3>4. \A q \in Records : q # r => jobs'[q] = jobs[q]
      BY <1>1, <3>1
    <3>5. QED
      BY <2>2, <3>2, <3>3, <3>4
  <2>3. QED
    BY <1>4, <2>1, <2>2
<1>6. project' = project \/ project' = ReopenedProject(r, o.state)
  BY DEF WriteState, WriteVerdict, Automate, CommitRefresh, OperationFails
<1>7. \A s \in Sips : project'[s] \in {project[s], "close_failed"} /\ (project[s] = "none" => project'[s] = "none")
  BY <1>1, <1>6 DEF ReopenedProject, ProjectIsClosing
<1>8. UNCHANGED <<inflight, reqs, passed>>
  BY DEF WriteState, WriteVerdict, Automate, CommitRefresh, OperationFails
<1>9. LaunchesKept
  <2>1. Release(o) \/ Advance(o, "follow", o.state) \/ Advance(o, "write", "pending_execution")
    BY DEF WriteState, WriteVerdict, Automate, CommitRefresh, OperationFails
  <2>2. QED
    BY <1>1, <2>1, AdvancedOps DEF LaunchesKept, Release
<1>10. OperationFails(o) => rec' = rec
  BY DEF OperationFails
<1>11. QED
  BY <1>3, <1>5, <1>7, <1>8, <1>9, <1>10

LEMMA OperationProjects ==
    ASSUME ProjectInv, NEW o \in ops,
           WriteState(o) \/ WriteVerdict(o) \/ Automate(o) \/ CommitRefresh(o) \/ OperationFails(o)
    PROVE  ProjectParts'
<1>1. /\ o.rcd \in Records /\ o.state \in ProposalStates /\ Used(o.rcd)
      /\ OpEarned(o) /\ PassingInv
  BY RowTypes DEF ProjectInv
<1>2. o.step \in {"verdict", "follow"} => HasPoll(rec[o.rcd].tmpl)
  BY <1>1 DEF OpEarned
<1>3. ASSUME NEW q \in Records PROVE QuietRow(q)
  <2>1. /\ rec'[q].tmpl = rec[q].tmpl /\ rec'[q].sip = rec[q].sip /\ LaunchesKept
        /\ q # o.rcd => rec'[q] = rec[q]
    BY <1>1, OperationRows
  <2>2. rec'[q].state = "unused" => rec[q].state = "unused"
    <3>1. rec'[o.rcd].state \in {rec[o.rcd].state, o.state, "execution_failed", "pending_execution", "executed"}
      BY <1>1, OperationRows
    <3>2. rec'[o.rcd].state # "unused"
      BY <1>1, <3>1 DEF Used, ProposalStates
    <3>3. QED
      BY <2>1, <3>2
  <2>3. vote'[q] = vote[q] \/ (HasPoll(rec[q].tmpl) /\ Used(q)')
    <3>1. UNCHANGED vote \/ (vote[o.rcd] # "none" /\ SaveStatus(o.rcd, "close"))
      BY DEF WriteState, WriteVerdict, Automate, CommitRefresh, OperationFails
    <3>2. vote'[q] = vote[q] \/ (HasPoll(rec[q].tmpl) /\ Used(q))
      BY <1>1, <3>1, SavedStatus
    <3>3. QED
      BY <2>2, <3>2 DEF Used
  <2>4. ~HasPoll(rec[q].tmpl) => \A k \in JobKinds \ {"approve"} : May(q, k)' => May(q, k)
    <3>1. /\ q # o.rcd => jobs'[q] = jobs[q]
          /\ \A k \in JobKinds : jobs'[o.rcd][k] = "active" =>
               jobs[o.rcd][k] = "active" \/ o.step \in {"verdict", "follow"}
          /\ inflight' = inflight
      BY <1>1, OperationRows
    <3>2. QED
      BY <1>2, <3>1 DEF May
  <2>5. ByApproval(q) /\ rec'[q].state = "executed" => rec[q].state = "executed" \/ Built(q)
    <3> SUFFICES ASSUME ByApproval(q), rec'[q].state = "executed", q = o.rcd
                 PROVE  rec[q].state = "executed" \/ Built(q)
      BY <2>1
    <3>1. CASE WriteState(o)
      <4>1. o.step = "write" /\ o.state = "executed"
        BY <1>1, <3>1, OperationRows DEF WriteState
      <4>2. QED
        BY <1>1, <4>1 DEF OpEarned
    <3>2. CASE OperationFails(o)
      BY <3>2 DEF OperationFails
    <3>3. CASE WriteVerdict(o) \/ Automate(o) \/ CommitRefresh(o)
      BY <1>2, <3>3 DEF WriteVerdict, Automate, CommitRefresh, ByApproval
    <3>4. QED
      BY <3>1, <3>2, <3>3
  <2>6. QED
    BY <2>1, <2>2, <2>3, <2>4, <2>5, QuietChange
<1>4. QuietProjects
  <2>1. \A s \in Sips : project'[s] \in {project[s], "close_failed"} /\ (project[s] = "none" => project'[s] = "none")
    BY <1>1, OperationRows
  <2>2. QED
    BY <2>1 DEF QuietProjects
<1>5. QED
  BY <1>3, <1>4, QuietStep

\* The second part of an approval: the poll, the job or the project.
LEMMA LaunchProjects ==
    ASSUME ProjectInv, NEW o \in ops, Launch(o)
    PROVE  ProjectParts'
<1> DEFINE r == o.rcd
           state == IF HasPoll(rec[r].tmpl) THEN "voting"
                    ELSE IF rec[r].tmpl.pending THEN "pending_execution" ELSE "executed"
           auto == rec[r].auto \/ state = "pending_execution"
<1>1. /\ rec \in [Records -> Row] /\ r \in Records /\ rec[r] \in Row
      /\ jobs \in [Records -> [JobKinds -> JobStates]]
      /\ rec' = [rec EXCEPT ![r].state = state, ![r].auto = auto]
  BY RowTypes DEF Launch, ProjectInv
<1>2. /\ o.step = "launch" /\ Release(o) /\ UNCHANGED <<vote, inflight>>
      /\ jobs' = IF state = "pending_execution"
                 THEN [jobs EXCEPT ![r]["approve"] = "none", ![r]["execute"] = "active"] ELSE jobs
      /\ project' = IF state = "executed" THEN WithProject(r, rec[r].sip) ELSE project
  BY DEF Launch
<1>3. state \in {"voting", "pending_execution", "executed"}
      /\ (HasPoll(rec[r].tmpl) => state = "voting")
  OBVIOUS
<1> HIDE DEF state, auto
<1>4. /\ rec'[r].state = state /\ rec'[r].tmpl = rec[r].tmpl /\ rec'[r].sip = rec[r].sip
      /\ \A q \in Records \ {r} : rec'[q] = rec[q]
  BY <1>1 DEF Row
<1>5. LaunchesKept
  BY <1>2 DEF LaunchesKept, Release
<1>6. \A q \in Records, k \in JobKinds \ {"approve"} :
        q # r \/ k # "execute" \/ state # "pending_execution" => (May(q, k)' <=> May(q, k))
  BY <1>1, <1>2 DEF May
<1>7. \A q \in Records \ {r} : QuietRow(q)
  <2>1. \A q \in Records \ {r}, k \in JobKinds \ {"approve"} : May(q, k)' => May(q, k)
    BY <1>6
  <2>2. QED
    BY <1>2, <1>4, <1>5, <2>1, QuietChange
<1>8. \A k \in ActionKinds : May(r, k)' <=> May(r, k)
  BY <1>1, <1>6, KindsOfJobs DEF ActionKinds
<1>9. Creates(r)
  BY <1>2 DEF Creates, Launches
<1>10. ByApproval(r) => OneToken(r) /\ ~May(r, "execute") /\ (\A p \in ops' : ~Launches(p, r))
  <2>1. ByApproval(r) => OneToken(r)
    BY RowParts, <1>1 DEF ExecutesOnce
  <2>2. Launches(o, r)
    BY <1>2 DEF Launches
  <2>3. QED
    BY <1>2, <2>1, <2>2 DEF OneToken, Release
<1>11. CASE state = "executed"
  <2>1. ByApproval(r) => ~Creates(r)'
    <3>1. May(r, "execute")' <=> May(r, "execute")
      BY <1>1, <1>6, <1>11, KindsOfJobs
    <3>2. QED
      BY <1>10, <3>1 DEF Creates, Launches
  <2>2. QED
    BY <1>1, <1>2, <1>4, <1>7, <1>8, <1>9, <1>11, <2>1, BuiltRow
<1>12. CASE state # "executed"
  <2>1. QuietRow(r)
    <3>1. NoVote(r)
      BY <1>1, RowParts
    <3>2. OneToken(r)' \/ ~ByApproval(r)
      BY <1>10 DEF OneToken, Launches
    <3>3. Used(r)'
      BY <1>3, <1>4 DEF Used
    <3>4. ~HasPoll(rec[r].tmpl) => vote'[r] = "none" /\ \A k \in ActionKinds : May(r, k)' => May(r, k)
      BY <1>2, <1>8, <3>1 DEF NoVote
    <3>5. QED
      BY <1>4, <1>9, <1>12, <3>2, <3>3, <3>4 DEF QuietRow
  <2>2. \A q \in Records : QuietRow(q)
    BY <1>7, <2>1
  <2>3. QED
    BY <1>2, <1>12, <2>2, QuietStep DEF QuietProjects
<1>13. QED
  BY <1>11, <1>12

\* What the jobs do to the jobs.
LEMMA RunJobs ==
    ASSUME TypeOK, NEW r \in Records, RunJob(r)
    PROVE  /\ \A q \in Records, k \in JobKinds : jobs'[q][k] = "active" => jobs[q][k] = "active"
           /\ inflight' \subseteq inflight
<1>1. jobs \in [Records -> [JobKinds -> JobStates]]
  BY DEF TypeOK
<1>2. inflight' \subseteq inflight
  BY DEF RunJob, RunApprove, RunExecute, RunVeto, RunMotivation, RunCloseProject, RunUnknown, Runs
<1>3. CASE RunVeto(r)
  <2>1. PICK js \in {jobs, DeleteJobs(jobs, rec[r].target)} : jobs' = Finish(js, r, "veto", "done")
    BY <1>3 DEF RunVeto
  <2>2. \A q \in Records, k \in JobKinds : js[q][k] = "active" => jobs[q][k] = "active"
    BY <1>1, <2>1 DEF DeleteJobs, NoJob
  <2>3. js \in [Records -> [JobKinds -> JobStates]]
    BY <1>1, <2>1 DEF DeleteJobs, NoJob, JobStates
  <2>4. QED
    BY <1>2, <2>1, <2>2, <2>3 DEF Finish
<1>4. \/ RunVeto(r)
      \/ \E k \in JobKinds, st \in {"done", "terminated"} : jobs' = Finish(jobs, r, k, st)
  BY DEF RunJob, RunApprove, RunExecute, RunMotivation, RunCloseProject, RunUnknown, JobKinds, ActionKinds
<1>5. QED
  BY <1>1, <1>2, <1>3, <1>4 DEF Finish

\* The job that executes an approved proposal creates its project.
LEMMA ExecuteProjects ==
    ASSUME ProjectInv, NEW r \in Records, RunExecute(r)
    PROVE  ProjectParts'
<1>1. UNCHANGED <<rec, vote>> /\ May(r, "execute")
  BY DEF RunExecute, Runs, May
<1>2. /\ \A q \in Records, k \in JobKinds : May(q, k)' => May(q, k)
      /\ ~May(r, "execute")'
  <2>1. jobs \in [Records -> [JobKinds -> JobStates]]
    BY RowTypes DEF ProjectInv
  <2>2. jobs' = Finish(jobs, r, "execute", "done") /\ inflight' = inflight \ {<<r, "execute">>}
    BY DEF RunExecute, Runs
  <2>3. QED
    BY <2>1, <2>2, KindsOfJobs DEF Finish, May
<1>3. LaunchesKept
  BY HeldOps DEF RunExecute, LaunchesKept
<1>4. \A q \in Records : QuietRow(q)
  BY <1>1, <1>2, <1>3, QuietChange
<1>5. CASE project' = WithProject(r, rec[r].sip)
  <2>1. ByApproval(r) => ~Creates(r)'
    <3>1. \A o \in ops' : Launches(o, r) => o \in ops
      BY <1>3 DEF LaunchesKept, Launches
    <3>2. ByApproval(r) => OneToken(r)
      BY RowParts DEF ExecutesOnce
    <3>3. QED
      BY <1>1, <1>2, <3>1, <3>2 DEF OneToken, Creates, Launches
  <2>2. \A k \in ActionKinds : May(r, k)' => May(r, k)
    BY <1>2, KindsOfJobs
  <2>3. Creates(r)
    BY <1>1 DEF Creates
  <2>4. QED
    BY <1>1, <1>4, <1>5, <2>1, <2>2, <2>3, BuiltRow
<1>6. CASE project' = project
  BY <1>4, <1>6, QuietStep DEF QuietProjects
<1>7. QED
  BY <1>5, <1>6 DEF RunExecute

LEMMA RunApproveProjects ==
    ASSUME ProjectInv, NEW r \in Records, RunApprove(r)
    PROVE  ProjectParts'
<1>1. \A q \in Records, k \in JobKinds : May(q, k)' => May(q, k)
  BY RunJobs DEF RunJob, May, ProjectInv, PassingInv
<1>2. UNCHANGED <<vote, project>>
  BY DEF RunApprove
<1>3. CASE UNCHANGED <<rec, ops>>
  <2>1. LaunchesKept
    BY <1>3 DEF LaunchesKept
  <2>2. QED
    BY <1>1, <1>2, <1>3, <2>1, QuietRows
<1>4. CASE StartApproval("task", r)
  BY <1>1, <1>2, <1>4, ApprovalProjects
<1>5. QED
  BY <1>3, <1>4 DEF RunApprove

\* What a component action does with the rows and the projects.
LEMMA ActionRows ==
    ASSUME PassingInv, NEW r \in Records,
           RunVeto(r) \/ RunMotivation(r) \/ RunCloseProject(r) \/ RunUnknown(r)
    PROVE  /\ \A q \in Records :
                /\ rec'[q].tmpl = rec[q].tmpl /\ rec'[q].sip = rec[q].sip
                /\ rec'[q].target = rec[q].target /\ rec'[q].thread = rec[q].thread
                /\ rec'[q].state \in {rec[q].state, "executed", "execution_failed", "vetoed"}
                /\ q # r => rec'[q].state = rec[q].state
                              \/ (rec'[q].state = "vetoed" /\ RunVeto(r) /\ q = rec[r].target)
           /\ project' = project \/ \E s, status : status # "none" /\ status # "twice" /\ project' = MarkProject(s, status)
           /\ UNCHANGED <<vote, reqs, ops, passed>>
<1>1. rec \in [Records -> Row] /\ \A q \in Records : rec[q] \in Row
  BY RowTypes
<1>2. CASE RunVeto(r)
  <2>1. PICK vetoed, marked \in BOOLEAN :
          rec' = [q \in Records |->
                    [rec[q] EXCEPT !.state =
                       IF q = r /\ marked THEN IF vetoed THEN "executed" ELSE "execution_failed"
                       ELSE IF q = rec[r].target /\ vetoed THEN "vetoed" ELSE @]]
    BY <1>2 DEF RunVeto
  <2>2. UNCHANGED <<vote, reqs, ops, passed, project>>
    BY <1>2 DEF RunVeto
  <2>3. ASSUME NEW q \in Records
        PROVE  /\ rec'[q].tmpl = rec[q].tmpl /\ rec'[q].sip = rec[q].sip
               /\ rec'[q].target = rec[q].target /\ rec'[q].thread = rec[q].thread
               /\ rec'[q].state \in {rec[q].state, "executed", "execution_failed", "vetoed"}
               /\ q # r => rec'[q].state = rec[q].state \/ (rec'[q].state = "vetoed" /\ q = rec[r].target)
    <3>1. rec[q] \in Row
      BY <1>1
    <3>2. QED
      BY <2>1, <3>1 DEF Row
  <2>4. QED
    BY <1>2, <2>2, <2>3
<1>3. CASE rec' = rec \/ \E s \in {"executed", "execution_failed"} : rec' = [rec EXCEPT ![r].state = s]
  <2>1. \A q \in Records :
                /\ rec'[q].tmpl = rec[q].tmpl /\ rec'[q].sip = rec[q].sip
                /\ rec'[q].target = rec[q].target /\ rec'[q].thread = rec[q].thread
                /\ rec'[q].state \in {rec[q].state, "executed", "execution_failed"}
                /\ q # r => rec'[q].state = rec[q].state
    BY <1>1, <1>3 DEF Row
  <2>2. project' = project \/ \E s, status : status # "none" /\ status # "twice" /\ project' = MarkProject(s, status)
    BY DEF RunVeto, RunMotivation, RunCloseProject, RunUnknown
  <2>3. UNCHANGED <<vote, reqs, ops, passed>>
    BY DEF RunVeto, RunMotivation, RunCloseProject, RunUnknown
  <2>4. QED
    BY <2>1, <2>2, <2>3
<1>4. QED
  BY <1>2, <1>3 DEF RunMotivation, RunCloseProject, RunUnknown

\* A component action runs for a voted proposal, and creates no project.
LEMMA ActionProjects ==
    ASSUME ProjectInv, NEW r \in Records,
           RunVeto(r) \/ RunMotivation(r) \/ RunCloseProject(r) \/ RunUnknown(r)
    PROVE  ProjectParts'
<1>1. HasPoll(rec[r].tmpl)
  <2>1. \E k \in ActionKinds : May(r, k)
    BY DEF RunVeto, RunMotivation, RunCloseProject, RunUnknown, Runs, May, ActionKinds
  <2>2. QED
    BY <2>1, RowParts DEF NoVote
<1>2. \A q \in Records, k \in JobKinds : May(q, k)' => May(q, k)
  BY RunJobs DEF RunJob, May, ProjectInv, PassingInv
<1>3. ASSUME NEW q \in Records PROVE QuietRow(q)
  <2>1. /\ rec'[q].tmpl = rec[q].tmpl /\ rec'[q].sip = rec[q].sip
        /\ rec'[q].state \in {rec[q].state, "executed", "execution_failed", "vetoed"}
        /\ q # r => rec'[q].state = rec[q].state \/ rec'[q].state = "vetoed"
        /\ UNCHANGED <<vote, ops>>
    BY ActionRows DEF ProjectInv
  <2>2. LaunchesKept
    BY <2>1 DEF LaunchesKept
  <2>3. ByApproval(q) /\ rec'[q].state = "executed" => rec[q].state = "executed"
    BY <1>1, <2>1 DEF ByApproval
  <2>4. rec'[q].state = "unused" => rec[q].state = "unused"
    BY <2>1
  <2>5. QED
    BY <1>2, <2>1, <2>2, <2>3, <2>4, QuietChange
<1>4. QuietProjects
  <2>1. project \in [Sips -> ProjectStates]
    BY RowTypes DEF ProjectInv
  <2>2. project' = project \/ \E s, status : status # "none" /\ status # "twice" /\ project' = MarkProject(s, status)
    BY ActionRows DEF ProjectInv
  <2>3. ASSUME NEW s, NEW status, status # "none", status # "twice", project' = MarkProject(s, status)
        PROVE  QuietProjects
    BY <2>1, <2>3 DEF MarkProject, QuietProjects
  <2>4. QED
    BY <2>2, <2>3 DEF QuietProjects
<1>5. QED
  BY <1>3, <1>4, QuietStep

LEMMA StepProjects ==
    ASSUME ProjectInv, [Next]_vars
    PROVE  ProjectParts'
<1>1. CASE Editing
  <2>1. ASSUME NEW w \in reqs, ApproveAtOnce(w)
        PROVE  ProjectParts'
    <3>1. w.url \in Records
      BY RowTypes DEF ProjectInv
    <3>2. QED
      BY <2>1, <3>1, ApprovalProjects DEF ApproveAtOnce, May
  <2>2. ASSUME NEW w \in reqs, Respond(w)
        PROVE  ProjectParts'
    <3>1. w.rcd \in Records
      BY RowTypes DEF ProjectInv
    <3>2. CASE UNCHANGED <<rec, vote, poll, jobs, inflight, ops, project, passed>>
      <4>1. LaunchesKept
        BY <3>2 DEF LaunchesKept
      <4>2. QED
        BY <3>2, <4>1, QuietRows DEF May
    <3>3. QED
      BY <2>2, <3>1, <3>2, FetchProjects DEF Respond
  <2>3. QED
    BY <1>1, <2>1, <2>2, CreateProjects, SaveUpdateProjects, StageProjects, ForumProjects DEF Editing
<1>2. CASE Deciding
  <2>1. ASSUME NEW r \in Records, Approve(r)
        PROVE  ProjectParts'
    BY <2>1, ApprovalProjects DEF Approve, May
  <2>2. QED
    BY <1>2, <2>1, TakeBackProjects DEF Deciding, Withdraw, Reject
<1>3. CASE Watching
  BY <1>3, FetchProjects DEF Watching, Detail
<1>4. CASE Operations
  BY <1>4, LaunchProjects, OperationProjects DEF Operations
<1>5. CASE Tasks
  BY <1>5, ForumProjects, ExecuteProjects, RunApproveProjects, ActionProjects DEF Tasks, RunJob
<1>6. CASE Forum \/ UNCHANGED vars
  BY <1>6, ForumProjects
<1>7. QED
  BY <1>1, <1>2, <1>3, <1>4, <1>5, <1>6 DEF Next

\* No project disappears.
LEMMA ProjectsStay ==
    ASSUME TypeOK, [Next]_vars, NEW s \in Sips, project[s] # "none"
    PROVE  project'[s] # "none"
<1>1. project \in [Sips -> ProjectStates]
  BY DEF TypeOK
<1>2. \/ project' = project
      \/ \E w \in reqs : CloseLinkedProject(w)
      \/ \E o \in ops : Launch(o) \/ Automate(o) \/ CommitRefresh(o)
      \/ \E r \in Records : RunExecute(r) \/ RunMotivation(r) \/ RunCloseProject(r)
  <2>1. CASE Editing
    <3>1. \A r \in Records : Fetch(r) => project' = project
      BY DEF Fetch
    <3>2. \A w \in reqs : w.rcd \in Records
      BY DEF TypeOK, Request
    <3>3. QED
      BY <2>1, <3>1, <3>2 DEF Editing, Create, CheckUpdate, SaveUpdate, SaveUpdateFails, Publish, Republish,
            PublishFails, ScheduleApproval, ApproveAtOnce, Respond, RequestFails
  <2>2. CASE Deciding \/ Forum \/ Watching \/ UNCHANGED vars
    BY <2>2 DEF Deciding, Approve, Withdraw, Reject, TakeBack, Forum, StartPasses, PollOpens, PollCloses,
                Watching, Detail, Fetch, Refresh, vars
  <2>3. CASE Operations
    BY <2>3 DEF Operations, WriteState, WriteVerdict, OperationFails
  <2>4. CASE Tasks
    BY <2>4 DEF Tasks, RunJob, Dispatch, Restart, RunApprove, RunVeto, RunUnknown
  <2>5. QED
    BY <2>1, <2>2, <2>3, <2>4 DEF Next
<1>3. ASSUME NEW x, NEW status, status # "none", project' = [project EXCEPT ![x] = status]
      PROVE  project'[s] # "none"
  BY <1>1, <1>3
<1>4. ASSUME NEW w \in reqs, CloseLinkedProject(w)
      PROVE  project'[s] # "none"
  BY <1>3, <1>4 DEF CloseLinkedProject
<1>5. ASSUME NEW r, project' = WithProject(r, rec[r].sip)
      PROVE  project'[s] # "none"
  BY <1>1, <1>5 DEF WithProject
<1>6. ASSUME NEW r, NEW verdict, project' = ReopenedProject(r, verdict)
      PROVE  project'[s] # "none"
  BY <1>1, <1>6 DEF ReopenedProject
<1>7. ASSUME NEW x, NEW status, status # "none", project' = MarkProject(x, status)
      PROVE  project'[s] # "none"
  BY <1>1, <1>7 DEF MarkProject
<1>8. ASSUME NEW o \in ops, Launch(o) \/ Automate(o) \/ CommitRefresh(o)
      PROVE  project'[s] # "none"
  <2>1. project' = project \/ project' = WithProject(o.rcd, rec[o.rcd].sip)
           \/ project' = ReopenedProject(o.rcd, o.state)
    BY <1>8 DEF Launch, Automate, CommitRefresh
  <2>2. QED
    BY <1>5, <1>6, <2>1
<1>9. ASSUME NEW r \in Records, RunExecute(r) \/ RunMotivation(r) \/ RunCloseProject(r)
      PROVE  project'[s] # "none"
  <2>1. project' = project \/ project' = WithProject(r, rec[r].sip)
           \/ \E x, status : status # "none" /\ project' = MarkProject(x, status)
    BY <1>9 DEF RunExecute, RunMotivation, RunCloseProject
  <2>2. QED
    BY <1>5, <1>7, <2>1
<1>10. QED
  BY <1>2, <1>4, <1>8, <1>9

\* What an operation is begun for, and goes on for.
LEMMA NewOperations ==
    ASSUME ProjectInv, [Next]_vars, NEW o \in ops', o \notin ops
    PROVE  /\ o.state # "pending_submit"
           /\ \/ o.step = "launch"
              \/ o.step = "write" /\ o.state # "executed"
              \/ o.step \in {"verdict", "follow"} /\ HasPoll(rec[o.rcd].tmpl)
              \/ /\ o.step = "write" /\ o.rcd \in Records /\ RunExecute(o.rcd)
                 /\ project' = WithProject(o.rcd, rec[o.rcd].sip)
<1>1. ASSUME NEW r \in Records, Fetch(r) \/ Refresh(r)
      PROVE  o.state # "pending_submit" /\ o.step = "verdict" /\ HasPoll(rec[o.rcd].tmpl)
  <2>1. HasPoll(rec[r].tmpl)
    BY <1>1, RowParts DEF Fetch, Refresh, Changed, NoVote
  <2>2. UNCHANGED ops \/ Settle("http", r) \/ Settle("task", r)
    BY <1>1 DEF Fetch, Refresh
  <2>3. o.step = "verdict" /\ o.rcd = r /\ o.state = Verdict(rec[r].tmpl, poll[rec[r].thread].result)
    BY <2>2, HeldOps DEF Settle
  <2>4. o.state # "pending_submit"
    BY <2>3 DEF Verdict
  <2>5. QED
    BY <2>1, <2>3, <2>4
<1>2. ASSUME NEW by, NEW r \in Records, StartApproval(by, r)
      PROVE  o.state # "pending_submit" /\ o.step = "launch"
  BY <1>2, HeldOps DEF StartApproval
<1>3. ASSUME NEW r \in Records, NEW state \in {"withdrawn", "rejected"}, TakeBack(r, state)
      PROVE  o.state # "pending_submit" /\ o.step = "write" /\ o.state # "executed"
  BY <1>3, HeldOps DEF TakeBack
<1>4. ASSUME NEW r \in Records, RunExecute(r)
      PROVE  /\ o.state = "executed" /\ o.step = "write" /\ o.rcd = r
             /\ project' = WithProject(r, rec[r].sip)
  BY <1>4, HeldOps DEF RunExecute
<1>5. CASE Operations
  <2>1. PICK w \in ops : Launch(w) \/ WriteState(w) \/ WriteVerdict(w) \/ Automate(w)
                           \/ CommitRefresh(w) \/ OperationFails(w)
    BY <1>5 DEF Operations
  <2>2. ~Release(w)
    BY DEF Release
  <2>3. CASE WriteVerdict(w) \/ Automate(w)
    <3>1. Advance(w, "follow", w.state) \/ Advance(w, "write", "pending_execution")
      BY <2>2, <2>3 DEF WriteVerdict, Automate
    <3>2. /\ o.rcd = w.rcd
          /\ \/ o.step = "follow" /\ o.state = w.state
             \/ o.step = "write" /\ o.state = "pending_execution"
      BY <3>1, AdvancedOps DEF ProjectInv, PassingInv
    <3>3. HasPoll(rec[w.rcd].tmpl) /\ w.state # "pending_submit"
      BY <2>3 DEF WriteVerdict, Automate, ProjectInv, OpEarned
    <3>4. QED
      BY <3>2, <3>3
  <2>4. QED
    BY <2>1, <2>2, <2>3 DEF Launch, WriteState, CommitRefresh, OperationFails
<1>6. CASE Editing
  <2>1. UNCHANGED ops \/ \E w \in reqs : ApproveAtOnce(w) \/ Respond(w)
    BY <1>6 DEF Editing, Create, CheckUpdate, SaveUpdate, SaveUpdateFails, CloseLinkedProject, Publish,
                Republish, PublishFails, ScheduleApproval, RequestFails
  <2>2. PICK w \in reqs : ApproveAtOnce(w) \/ Respond(w)
    BY <2>1
  <2>3. w.url \in Records /\ w.rcd \in Records
    BY RowTypes DEF ProjectInv
  <2>4. QED
    BY <1>1, <1>2, <2>2, <2>3 DEF ApproveAtOnce, Respond
<1>7. CASE Deciding
  BY <1>2, <1>3, <1>7 DEF Deciding, Approve, Withdraw, Reject
<1>8. CASE Watching
  BY <1>1, <1>8 DEF Watching, Detail
<1>9. CASE Tasks
  <2>1. \E r \in Records : RunApprove(r) \/ RunExecute(r)
    BY <1>9 DEF Tasks, RunJob, Dispatch, RunVeto, RunMotivation, RunCloseProject, RunUnknown, Restart
  <2>2. QED
    BY <1>2, <1>4, <2>1 DEF RunApprove
<1>10. CASE Forum \/ UNCHANGED vars
  BY <1>10 DEF Forum, StartPasses, PollOpens, PollCloses, vars
<1>11. QED
  BY <1>5, <1>6, <1>7, <1>8, <1>9, <1>10 DEF Next

LEMMA OperationsEarned ==
    ASSUME ProjectInv, [Next]_vars, NEW o \in ops'
    PROVE  OpEarned(o)'
<1> DEFINE r == o.rcd
<1>1. /\ PassingInv /\ PassingInv' /\ TypeOK
  BY PassingStep DEF ProjectInv, PassingInv
<1>2. r \in Records /\ rec[r].sip \in Sips
  BY <1>1, RowTypes DEF PassingInv, TypeOK, Operation
<1>3. Used(r)
  BY <1>1, StepOps DEF OpInv
<1>4. rec'[r].tmpl = rec[r].tmpl /\ (rec[r].sip # 0 => rec'[r].sip = rec[r].sip)
  BY <1>1, <1>2, <1>3, StepIsSteady DEF Steady
<1>5. (ByApproval(r)' <=> ByApproval(r)) /\ (HasPoll(rec'[r].tmpl) <=> HasPoll(rec[r].tmpl))
  BY <1>4 DEF ByApproval, IsNewProject
<1>6. Built(r) => Built(r)'
  BY <1>1, <1>2, <1>4, ProjectsStay DEF Built
<1>7. CASE o \in ops
  <2>1. OpEarned(o)
    BY <1>7 DEF ProjectInv
  <2>2. QED
    BY <1>5, <1>6, <2>1 DEF OpEarned
<1>8. CASE /\ o.state # "pending_submit" /\ o.step = "write"
           /\ RunExecute(r) /\ project' = WithProject(r, rec[r].sip)
  <2>1. ASSUME ByApproval(r)
        PROVE  Built(r)'
    <3>1. Creates(r)
      BY <1>8 DEF RunExecute, Runs, Creates, May
    <3>2. rec[r].sip # 0 /\ IsNewProject(r) /\ project \in [Sips -> ProjectStates]
      BY <1>1, <1>2, <2>1, <3>1, RowParts, RowTypes DEF ExecutesOnce, ByApproval
    <3>3. project'[rec[r].sip] # "none"
      BY <1>2, <1>8, <3>2 DEF WithProject
    <3>4. QED
      BY <1>4, <3>2, <3>3 DEF Built
  <2>2. QED
    BY <1>5, <1>8, <2>1 DEF OpEarned
<1>9. CASE o \notin ops
  <2>1. /\ o.state # "pending_submit"
        /\ \/ o.step = "launch"
           \/ o.step = "write" /\ o.state # "executed"
           \/ o.step \in {"verdict", "follow"} /\ HasPoll(rec[r].tmpl)
           \/ o.step = "write" /\ RunExecute(r) /\ project' = WithProject(r, rec[r].sip)
    BY <1>9, NewOperations
  <2>2. QED
    BY <1>5, <1>8, <2>1 DEF OpEarned
<1>10. QED
  BY <1>7, <1>9

LEMMA ProjectStep == ProjectInv /\ [Next]_vars => ProjectInv'
<1>1. ProjectInv /\ [Next]_vars => PassingInv' /\ ProjectParts'
  BY PassingStep, StepProjects DEF ProjectInv
<1>2. ProjectInv /\ [Next]_vars => (\A o \in ops : OpEarned(o))'
  BY OperationsEarned
<1>3. QED
  BY <1>1, <1>2 DEF ProjectInv

\* Row 1 of the seed has SIP 1, the only project.
LEMMA ProjectInit == Init => ProjectInv
<1> SUFFICES ASSUME Init PROVE ProjectParts
  BY PassingInit DEF ProjectInv, Init
<1>1. (\A r \in Records, k \in JobKinds : ~May(r, k)) /\ ops = {}
  BY DEF Init, NoJob, May
<1>2. \A r \in Records : rec[r] = IF Seeded /\ r = 1 THEN SeedRow ELSE NoRow
  BY DEF Init
<1>3. NoRow.state = "unused" /\ NoRow.sip = 0
  BY DEF NoRow
<1>4. Seeded => SeedRow.sip = 1 /\ SeedRow.state = "executed"
  BY InitialRows DEF SeedRow, NoRow, Row
<1>5. \A s \in Sips : project[s] = IF Seeded /\ s = 1 THEN "open" ELSE "none"
  BY DEF Init
<1>6. 1 \in Sips
  BY DEF Sips
<1>7. ASSUME NEW r \in Records PROVE NoVote(r) /\ ExecutesOnce(r) /\ HasProject(r) /\ OneProject(r)
  <2>1. NoVote(r) /\ ExecutesOnce(r)
    BY <1>1, KindsOfJobs DEF Init, NoVote, ExecutesOnce, Creates, OneToken
  <2>2. HasProject(r) /\ OneProject(r)
    BY <1>2, <1>3, <1>4, <1>5, <1>6 DEF HasProject, OneProject, Built
  <2>3. QED
    BY <2>1, <2>2
<1>8. ASSUME NEW q \in Records, NEW r \in Records PROVE SameTemplate(q, r)
  BY <1>2, <1>3, <1>4 DEF SameTemplate
<1>9. ProjectsAreNumbered
  BY <1>2, <1>4, <1>5 DEF ProjectsAreNumbered
<1>10. QED
  BY <1>7, <1>8, <1>9 DEF ProjectParts

LEMMA ProjectAlways == Spec => []ProjectInv
BY ProjectInit, ProjectStep, PTL DEF Spec

\* A project proposal without a vote is executed under a SIP, and its project exists,
\* whichever of the approval and the jobs came to execute it.
THEOREM ExecutionCreatesProject == Spec => []ExecutedHasProject
<1>1. ProjectInv => ExecutedHasProject
  BY DEF ProjectInv, ProjectParts, HasProject, Built, ByApproval, ExecutedHasProject
<1>2. QED
  BY <1>1, ProjectAlways, PTL

\* A proposal without a vote creates its project once, in all its versions together.
THEOREM NoProjectTwice == Spec => []ProjectCreatedOnce
<1>1. ProjectInv => ProjectCreatedOnce
  BY DEF ProjectInv, ProjectParts, OneProject, ByApproval, ProjectCreatedOnce
<1>2. QED
  BY <1>1, ProjectAlways, PTL
(* A project is closed by a proposal that passed: the inductive invariant *)

\* A voted proposal that names another one.
NamesTarget(t) == HasPoll(t) /\ NamesProposal(t)

\* A published proposal is not edited in place, a proposal that names another one does
\* name one that exists, and a job of an action belongs to a template with that action.
CloserRow(r) ==
    /\ rec[r].thread # 0 => rec[r].state # "pending_submit"
    /\ Used(r) /\ NamesTarget(rec[r].tmpl) => rec[r].target # 0 /\ Used(rec[r].target)
    /\ \A k \in ActionKinds : May(r, k) => rec[r].tmpl.action = k

\* A request is about a row; one that will save a target has it where the template asks
\* for one.
SavesTarget(w) ==
    /\ Used(w.rcd)
    /\ w.stage = "save" /\ NamesTarget(rec[w.rcd].tmpl) => w.target # 0 /\ Used(w.target)

CloserInv ==
    /\ ProjectInv
    /\ \A r \in Records : CloserRow(r)
    /\ \A w \in reqs : SavesTarget(w)
    /\ ClosedAfterPassing

\* What a step must do with a row: besides CloserRow, where a target must have been used
\* before, the template of a used row stays, and of a published one its thread and target.
StepRow(q) ==
    /\ rec'[q].thread # 0 => rec'[q].state # "pending_submit"
    /\ Used(q)' /\ NamesTarget(rec'[q].tmpl) => rec'[q].target # 0 /\ Used(rec'[q].target)
    /\ \A k \in ActionKinds : May(q, k)' => rec'[q].tmpl.action = k
    /\ Used(q) => Used(q)' /\ rec'[q].tmpl = rec[q].tmpl
    /\ rec[q].thread # 0 => rec'[q].thread = rec[q].thread /\ rec'[q].target = rec[q].target

\* Most steps leave all this as it was; a job comes from a template with its action.
OldRow(q) ==
    /\ rec'[q].tmpl = rec[q].tmpl /\ rec'[q].target = rec[q].target /\ rec'[q].thread = rec[q].thread
    /\ rec'[q].state = "unused" <=> rec[q].state = "unused"
    /\ rec'[q].state = "pending_submit" => rec[q].state = "pending_submit"
    /\ \A k \in ActionKinds : May(q, k)' => May(q, k) \/ rec[q].tmpl.action = k

LEMMA OldRowKept ==
    ASSUME CloserInv, NEW q \in Records, OldRow(q)
    PROVE  StepRow(q)
<1>1. CloserRow(q)
  BY DEF CloserInv
<1>2. QED
  BY <1>1 DEF CloserRow, OldRow, StepRow, Used

LEMMA CloserTypes ==
    ASSUME CloserInv
    PROVE  /\ rec \in [Records -> Row]
           /\ \A r \in Records : rec[r] \in Row
           /\ \A r \in Records : rec[r].thread # 0 => Used(r)
           /\ jobs \in [Records -> [JobKinds -> JobStates]]
           /\ project \in [Sips -> ProjectStates]
           /\ \A w \in reqs : w \in Request /\ w.rcd \in Records /\ w.url \in Records
BY RowTypes DEF CloserInv, ProjectInv, PassingInv, TypeOK, RowInv, Request

\* The rows, the requests and the projects of a step, taken together.
LEMMA CloserParts ==
    ASSUME CloserInv, [Next]_vars, \A q \in Records : StepRow(q),
           \A w \in reqs' : w \in reqs \/ SavesTarget(w)',
           passed \subseteq passed',
           \A s \in Sips \ {0} : project'[s] = "closed" =>
               \/ project[s] = "closed"
               \/ \E r \in Records : HasPoll(rec[r].tmpl) /\ rec[r].thread \in passed /\ ClosesProject(r, s)
    PROVE  CloserInv'
<1>1. ProjectInv'
  BY ProjectStep DEF CloserInv
<1>2. \A r \in Records : CloserRow(r)'
  <2>1. \A r \in Records : rec'[r].target \in Records \cup {0}
    BY <1>1 DEF ProjectInv, PassingInv, TypeOK, Row
  <2>2. QED
    BY <2>1 DEF StepRow, CloserRow
<1>3. ASSUME NEW w \in reqs'
      PROVE  SavesTarget(w)'
  <2>1. CASE w \in reqs
    <3>1. w.rcd \in Records /\ w.target \in Records \cup {0}
      BY <2>1, CloserTypes DEF Request
    <3>2. QED
      BY <2>1, <3>1 DEF CloserInv, SavesTarget, StepRow
  <2>2. QED
    BY <1>3, <2>1
<1>4. ClosedAfterPassing'
  <2> SUFFICES ASSUME NEW s \in Sips \ {0}, project'[s] = "closed"
               PROVE  \E r \in Records : HasPoll(rec'[r].tmpl) /\ rec'[r].thread \in passed' /\ ClosesProject(r, s)'
    BY DEF ClosedAfterPassing
  <2>1. PICK r \in Records : HasPoll(rec[r].tmpl) /\ rec[r].thread \in passed /\ ClosesProject(r, s)
    BY DEF CloserInv, ClosedAfterPassing
  <2>2. rec[r].thread # 0 /\ Used(r)
    BY <2>1, CloserTypes DEF CloserInv, ProjectInv, PassingInv, TypeOK
  <2>3. rec'[r].thread = rec[r].thread /\ rec'[r].target = rec[r].target /\ rec'[r].tmpl = rec[r].tmpl
    BY <2>2 DEF StepRow
  <2>4. \A q \in Records : rec[q].sip # 0 => rec'[q].sip = rec[q].sip
    <3>1. PassingInv /\ TypeOK
      BY DEF CloserInv, ProjectInv, PassingInv
    <3>2. \A q \in Records : Steady(q)
      BY <3>1, StepIsSteady
    <3>3. \A q \in Records : rec[q].sip # 0 => Used(q)
      BY <3>1, RowTypes DEF PassingInv, RowInv
    <3>4. QED
      BY <3>2, <3>3 DEF Steady
  <2>5. ClosesProject(r, s)'
    <3>1. CASE rec[r].tmpl.action = "motivation" /\ rec[r].sip = s
      BY <2>3, <2>4, <3>1 DEF ClosesProject
    <3>2. CASE rec[r].tmpl.action = "close_project" /\ rec[rec[r].target].sip = s
      <4>1. rec[r].target \in Records
        BY <2>1, <2>2, <3>2, CloserTypes DEF CloserInv, CloserRow, NamesTarget, NamesProposal, Row
      <4>2. QED
        BY <2>3, <2>4, <3>2, <4>1 DEF ClosesProject
    <3>3. QED
      BY <2>1, <3>1, <3>2 DEF ClosesProject
  <2>6. QED
    BY <2>1, <2>3, <2>5
<1>5. QED
  BY <1>1, <1>2, <1>3, <1>4 DEF CloserInv

\* A new proposal, or a new version of one.
LEMMA AddedCloser ==
    ASSUME CloserInv, NEW n \in Records, ~Used(n), NEW row, row.state # "unused",
           row.thread # 0 => row.state # "pending_submit",
           NamesTarget(row.tmpl) => row.target \in Records /\ Used(row.target),
           rec' = [rec EXCEPT ![n] = row], UNCHANGED <<jobs, inflight>>, NEW q \in Records
    PROVE  StepRow(q)
<1>1. CASE q = n
  <2>1. rec'[q] = row /\ rec[q].thread = 0
    BY <1>1, CloserTypes
  <2>2. \A k \in ActionKinds : ~May(q, k)'
    BY <1>1, KindsOfJobs DEF May, CloserInv, ProjectInv, PassingInv, RowInv, Entitled
  <2>3. QED
    BY <1>1, <2>1, <2>2 DEF StepRow, CloserRow, Used
<1>2. CASE q # n
  <2>1. rec'[q] = rec[q]
    BY <1>2, CloserTypes
  <2>2. OldRow(q)
    BY <2>1 DEF OldRow, May
  <2>3. QED
    BY <2>2, OldRowKept
<1>3. QED
  BY <1>1, <1>2

LEMMA CreateCloses ==
    ASSUME CloserInv, [Next]_vars, NEW t \in Offered, NEW p \in Records \cup {0}, NEW publish \in BOOLEAN,
           Create(t, p, publish)
    PROVE  CloserInv'
<1> DEFINE row == [NoRow EXCEPT !.state = "pending_submit", !.tmpl = t, !.target = p, !.ver = 1]
<1>1. PICK n \in Records : Create(t, p, publish)!(n)
  BY DEF Create
<1>2. row.state = "pending_submit" /\ row.thread = 0 /\ row.tmpl = t /\ row.target = p
  <2>1. NoRow \in Row /\ NoRow.thread = 0
    BY InitialRows DEF NoRow
  <2>2. QED
    BY <2>1 DEF Row
<1>3. NamesTarget(t) => p \in Records /\ Used(p)
  BY DEF Create, NamesTarget
<1>4. UNCHANGED <<jobs, inflight, project, passed>>
  BY DEF Create
<1> HIDE DEF row
<1>5. Fresh(n) /\ rec' = [rec EXCEPT ![n] = row]
  BY <1>1 DEF row
<1>6. \A q \in Records : StepRow(q)
  BY <1>2, <1>3, <1>4, <1>5, AddedCloser DEF Fresh
<1>7. \A w \in reqs' : w \in reqs \/ SavesTarget(w)'
  <2>1. rec'[n].state = "pending_submit"
    BY <1>2, <1>5, CloserTypes
  <2>2. \A w \in reqs' : w \in reqs \/ (w.stage # "save" /\ w.rcd = n)
    BY <1>1 DEF Begin, FirstStage
  <2>3. QED
    BY <2>1, <2>2 DEF SavesTarget, Used
<1>8. QED
  BY <1>4, <1>6, <1>7, CloserParts

\* A step that adds no row, edits no target and closes no project.
LEMMA OldStep ==
    ASSUME CloserInv, [Next]_vars, \A q \in Records : OldRow(q),
           \A w \in reqs' : w \in reqs \/ (w.stage # "save" /\ w.rcd \in Records /\ Used(w.rcd)),
           passed \subseteq passed',
           \A s \in Sips \ {0} : project'[s] = "closed" => project[s] = "closed"
    PROVE  CloserInv'
<1>1. \A q \in Records : StepRow(q)
  BY OldRowKept
<1>2. \A w \in reqs' : w \in reqs \/ SavesTarget(w)'
  BY DEF SavesTarget, OldRow, Used
<1>3. QED
  BY <1>1, <1>2, CloserParts

LEMMA ContinueSaves ==
    ASSUME NEW w \in Request, NEW stage, stage # "save"
    PROVE  \A v \in Continue(w, stage) : v \in reqs \/ (v.stage # "save" /\ v.rcd = w.rcd)
<1>1. [w EXCEPT !.stage = stage].stage = stage /\ [w EXCEPT !.stage = stage].rcd = w.rcd
  BY DEF Request
<1>2. QED
  BY <1>1 DEF Continue

\* An update under way changes the target of its row, or copies the row to a new one.
LEMMA SaveUpdateCloses ==
    ASSUME CloserInv, [Next]_vars, NEW w \in reqs,
           SaveUpdateFails(w) \/ \E publish \in BOOLEAN : SaveUpdate(w, publish)
    PROVE  CloserInv'
<1> DEFINE r == w.rcd
<1>1. /\ rec \in [Records -> Row] /\ \A q \in Records : rec[q] \in Row
      /\ w \in Request /\ r \in Records /\ Used(r)
      /\ NamesTarget(rec[r].tmpl) => /\ w.target \in Records /\ Used(w.target)
                                       /\ rec[r].target \in Records /\ Used(rec[r].target)
  BY CloserTypes DEF CloserInv, SavesTarget, CloserRow, SaveUpdate, SaveUpdateFails, Request, Row
<1>2. UNCHANGED <<jobs, inflight, project, passed>>
  BY DEF SaveUpdate, SaveUpdateFails
<1>3. \A publish \in BOOLEAN : (IF publish THEN FirstStage(rec[r].tmpl) ELSE "respond") # "save"
  BY DEF FirstStage
<1>4. ASSUME NEW stage, stage # "save", rec[r].state = "pending_submit",
             rec' = [rec EXCEPT ![r].target = w.target], reqs' = Continue(w, stage)
      PROVE  CloserInv'
  <2>1. ASSUME NEW q \in Records, q # r PROVE StepRow(q)
    <3>1. OldRow(q)
      BY <1>1, <1>2, <1>4, <2>1 DEF OldRow, May
    <3>2. QED
      BY <3>1, OldRowKept
  <2>2. /\ rec'[r].tmpl = rec[r].tmpl /\ rec'[r].thread = rec[r].thread
        /\ rec'[r].state = rec[r].state /\ rec'[r].target = w.target
    BY <1>1, <1>4 DEF Row
  <2>3. CloserRow(r)
    BY <1>1 DEF CloserInv
  <2>4. StepRow(r)
    BY <1>1, <1>2, <1>4, <2>2, <2>3 DEF StepRow, CloserRow, Used, May
  <2>5. \A v \in reqs' : v \in reqs \/ SavesTarget(v)'
    BY <1>1, <1>4, <2>2, ContinueSaves DEF SavesTarget, Used
  <2>6. QED
    BY <1>2, <2>1, <2>4, <2>5, CloserParts
<1>5. ASSUME NEW n \in Records, Fresh(n), NEW row, rec' = [rec EXCEPT ![n] = row],
             row.state = "draft", row.tmpl = rec[r].tmpl, row.target \in {w.target, rec[r].target},
             \A v \in reqs' : v \in reqs \/ (v.stage # "save" /\ v.rcd = n)
      PROVE  CloserInv'
  <2>1. \A q \in Records : StepRow(q)
    BY <1>1, <1>2, <1>5, AddedCloser DEF Fresh
  <2>2. rec'[n] = row
    BY <1>1, <1>5
  <2>3. \A v \in reqs' : v \in reqs \/ SavesTarget(v)'
    BY <1>5, <2>2 DEF SavesTarget, Used
  <2>4. QED
    BY <1>2, <2>1, <2>3, CloserParts
<1>6. ASSUME NEW publish \in BOOLEAN, NEW n \in Records, Fresh(n),
             rec' = [rec EXCEPT ![n] = [rec[r] EXCEPT !.state = "draft", !.ver = @ + 1,
                                                      !.target = w.target, !.auto = FALSE]],
             reqs' = Drop(w) \cup
                 {[w EXCEPT !.rcd = n, !.stage = IF publish THEN FirstStage(rec[r].tmpl) ELSE "respond"]}
      PROVE  CloserInv'
  <2> DEFINE row == [rec[r] EXCEPT !.state = "draft", !.ver = @ + 1, !.target = w.target, !.auto = FALSE]
             stage == IF publish THEN FirstStage(rec[r].tmpl) ELSE "respond"
  <2>1. row.state = "draft" /\ row.tmpl = rec[r].tmpl /\ row.target = w.target
    BY <1>1 DEF Row
  <2>2. stage # "save"
    BY <1>3
  <2> HIDE DEF stage
  <2>3. reqs' = (reqs \ {w}) \cup {[w EXCEPT !.rcd = n, !.stage = stage]}
    BY <1>6 DEF Drop, stage
  <2>4. [w EXCEPT !.rcd = n, !.stage = stage].stage = stage /\ [w EXCEPT !.rcd = n, !.stage = stage].rcd = n
    BY <1>1 DEF Request
  <2>5. \A v \in reqs' : v \in reqs \/ (v.stage # "save" /\ v.rcd = n)
    BY <2>2, <2>3, <2>4
  <2> HIDE DEF row
  <2>6. QED
    BY <1>5, <1>6, <2>1, <2>5 DEF row
<1>7. CASE SaveUpdateFails(w)
  <2> DEFINE row == [rec[r] EXCEPT !.state = "draft", !.ver = @ + 1, !.auto = FALSE]
  <2>1. row.state = "draft" /\ row.tmpl = rec[r].tmpl /\ row.target = rec[r].target
    BY <1>1 DEF Row
  <2>2. PICK n \in Records : Fresh(n) /\ rec' = [rec EXCEPT ![n] = row]
    BY <1>7 DEF SaveUpdateFails
  <2>3. \A v \in reqs' : v \in reqs
    BY <1>7 DEF SaveUpdateFails, Drop
  <2> HIDE DEF row
  <2>4. QED
    BY <1>5, <2>1, <2>2, <2>3
<1>8. ASSUME NEW publish \in BOOLEAN, SaveUpdate(w, publish)
      PROVE  CloserInv'
  <2>1. CASE rec[r].state = "pending_submit"
    BY <1>3, <1>4, <1>8, <2>1 DEF SaveUpdate
  <2>2. CASE rec[r].state # "pending_submit"
    BY <1>6, <1>8, <2>2 DEF SaveUpdate
  <2>3. QED
    BY <2>1, <2>2
<1>9. QED
  BY <1>7, <1>8

LEMMA CheckUpdateCloses ==
    ASSUME CloserInv, [Next]_vars, NEW r \in Records, NEW p \in Records \cup {0}, CheckUpdate(r, p)
    PROVE  CloserInv'
<1>1. \A q \in Records : StepRow(q)
  <2>1. \A q \in Records : OldRow(q)
    BY DEF CheckUpdate, OldRow, May
  <2>2. QED
    BY <2>1, OldRowKept
<1>2. Used(r) /\ (NamesTarget(rec[r].tmpl) => p # 0 /\ Used(p))
  <2>1. Used(r) /\ CloserRow(r)
    BY DEF CheckUpdate, UpdatableStates, Used, CloserInv
  <2>2. QED
    BY <2>1 DEF CheckUpdate, CanBeClosed, CloserRow
<1>3. reqs' = reqs \cup {[stage |-> "save", rcd |-> r, url |-> r, target |-> p]} /\ rec' = rec
  BY DEF CheckUpdate, Begin
<1>4. \A w \in reqs' : w \in reqs \/ SavesTarget(w)'
  BY <1>2, <1>3 DEF SavesTarget, Used
<1>5. QED
  BY <1>1, <1>4, CloserParts DEF CheckUpdate

\* The stages of a request that publishes.
LEMMA StageCloses ==
    ASSUME CloserInv, [Next]_vars, NEW w \in reqs,
           \/ CloseLinkedProject(w) \/ Publish(w) \/ Republish(w) \/ PublishFails(w)
           \/ ScheduleApproval(w) \/ RequestFails(w)
    PROVE  CloserInv'
<1> DEFINE r == w.rcd
<1>1. /\ rec \in [Records -> Row] /\ \A q \in Records : rec[q] \in Row
      /\ jobs \in [Records -> [JobKinds -> JobStates]]
      /\ project \in [Sips -> ProjectStates]
      /\ w \in Request /\ r \in Records /\ Used(r)
  BY CloserTypes DEF CloserInv, SavesTarget
<1>2. /\ UNCHANGED <<inflight, passed>>
      /\ \A s \in Sips : project'[s] = "closed" => project[s] = "closed"
  BY <1>1 DEF CloseLinkedProject, Publish, Republish, PublishFails, ScheduleApproval, RequestFails
<1>3. \A v \in reqs' : v \in reqs \/ (v.stage # "save" /\ v.rcd = r)
  <2>1. \/ reqs' = Drop(w)
        \/ \E stage \in {"submit", "approve", "schedule", "respond"} : reqs' = Continue(w, stage)
    BY DEF CloseLinkedProject, Publish, Republish, PublishFails, ScheduleApproval, RequestFails, AfterSubmit
  <2>2. QED
    BY <1>1, <2>1, ContinueSaves DEF Drop
<1>5. \A q \in Records, k \in ActionKinds : May(q, k)' => May(q, k)
  BY <1>1, <1>2, KindsOfJobs DEF CloseLinkedProject, Publish, Republish, PublishFails, ScheduleApproval,
                                 RequestFails, AddJob, May
<1>6. ASSUME NEW q \in Records PROVE StepRow(q)
  <2>1. CASE rec'[q] = rec[q]
    <3>1. OldRow(q)
      BY <1>5, <2>1 DEF OldRow
    <3>2. QED
      BY <3>1, OldRowKept
  <2>2. CASE q = r /\ (Publish(w) \/ PublishFails(w)) /\ rec[r].thread = 0
    <3>1. /\ rec'[q].tmpl = rec[q].tmpl /\ rec'[q].target = rec[q].target
          /\ rec'[q].state = "draft"
      BY <1>1, <2>2 DEF Publish, PublishFails, Row
    <3>2. CloserRow(q)
      BY DEF CloserInv
    <3>3. QED
      BY <1>1, <1>5, <2>2, <3>1, <3>2 DEF StepRow, CloserRow, Used
  <2>3. CASE q = r /\ (Republish(w) \/ ScheduleApproval(w))
    <3>1. /\ rec'[q].tmpl = rec[q].tmpl /\ rec'[q].target = rec[q].target /\ rec'[q].thread = rec[q].thread
          /\ rec'[q].state = rec[q].state \/ rec'[q].state = "draft"
      BY <1>1, <2>3 DEF Republish, ScheduleApproval, Row
    <3>2. OldRow(q)
      BY <1>1, <1>5, <2>3, <3>1 DEF OldRow, Used
    <3>3. QED
      BY <3>2, OldRowKept
  <2>4. QED
    BY <1>1, <2>1, <2>2, <2>3 DEF CloseLinkedProject, Publish, Republish, PublishFails, ScheduleApproval, RequestFails
<1>7. \A v \in reqs' : v \in reqs \/ SavesTarget(v)'
  BY <1>1, <1>3, <1>6 DEF SavesTarget, StepRow
<1>8. QED
  BY <1>2, <1>6, <1>7, CloserParts

LEMMA ForumCloses ==
    ASSUME CloserInv, [Next]_vars,
           Forum \/ Restart \/ UNCHANGED vars \/ \E r \in Records, k \in JobKinds : Dispatch(r, k)
    PROVE  CloserInv'
<1>1. /\ rec \in [Records -> Row] /\ \A q \in Records : rec[q] \in Row
      /\ UNCHANGED <<jobs, project>> /\ passed \subseteq passed' /\ reqs' \subseteq reqs
  BY CloserTypes DEF Forum, StartPasses, PollOpens, PollCloses, Restart, Dispatch, vars
<1>2. \A q \in Records : /\ rec'[q].tmpl = rec[q].tmpl /\ rec'[q].target = rec[q].target
                         /\ rec'[q].thread = rec[q].thread /\ rec'[q].state = rec[q].state
  BY <1>1 DEF Forum, StartPasses, PollOpens, PollCloses, Restart, Dispatch, vars, Row
<1>3. \A q \in Records, k \in ActionKinds : May(q, k)' => May(q, k)
  <2>1. inflight' \subseteq inflight \/ \E r \in Records, k \in JobKinds :
                                          jobs[r][k] = "active" /\ inflight' = inflight \cup {<<r, k>>}
    BY DEF Forum, StartPasses, PollOpens, PollCloses, Restart, Dispatch, vars
  <2>2. QED
    BY <1>1, <2>1 DEF May
<1>4. \A q \in Records : OldRow(q)
  BY <1>2, <1>3 DEF OldRow
<1>5. QED
  BY <1>1, <1>4, OldStep

\* A proposal gets its SIP.
LEMMA NumberedCloses ==
    ASSUME CloserInv, [Next]_vars, NEW r \in Records, Used(r), NEW s,
           rec' = [rec EXCEPT ![r].sip = s, ![r].state = "voting"], UNCHANGED <<project, passed>>,
           \A q \in Records, k \in JobKinds : May(q, k)' => May(q, k),
           \A w \in reqs' : w \in reqs \/ (w.stage # "save" /\ w.rcd \in Records /\ Used(w.rcd))
    PROVE  CloserInv'
<1>1. rec \in [Records -> Row] /\ rec[r] \in Row
  BY CloserTypes
<1>2. /\ rec'[r].state = "voting" /\ rec'[r].tmpl = rec[r].tmpl
      /\ rec'[r].target = rec[r].target /\ rec'[r].thread = rec[r].thread
      /\ \A q \in Records : q # r => rec'[q] = rec[q]
  BY <1>1 DEF Row
<1>3. \A q \in Records : OldRow(q)
  BY <1>2, KindsOfJobs DEF OldRow, Used
<1>4. QED
  BY <1>3, OldStep

LEMMA ApprovalCloses ==
    ASSUME CloserInv, [Next]_vars, NEW by, NEW r \in Records, StartApproval(by, r), UNCHANGED <<project, passed>>,
           \A q \in Records, k \in JobKinds : May(q, k)' => May(q, k),
           \A w \in reqs' : w \in reqs \/ (w.stage # "save" /\ w.rcd \in Records /\ Used(w.rcd))
    PROVE  CloserInv'
BY NumberedCloses DEF StartApproval

LEMMA FetchCloses ==
    ASSUME CloserInv, [Next]_vars, NEW r \in Records, Fetch(r) \/ Refresh(r), reqs' \subseteq reqs
    PROVE  CloserInv'
<1>1. UNCHANGED <<jobs, inflight, project, passed>> /\ Used(r)
  BY CloserTypes DEF Fetch, Refresh, Changed
<1>2. CASE UNCHANGED rec
  <2>1. \A q \in Records : OldRow(q)
    BY <1>1, <1>2 DEF OldRow, May
  <2>2. QED
    BY <1>1, <2>1, OldStep
<1>3. CASE \E s : rec' = [rec EXCEPT ![r].sip = s, ![r].state = "voting"]
  BY <1>1, <1>3, NumberedCloses DEF May
<1>4. QED
  BY <1>2, <1>3 DEF Fetch, Refresh, OpenVoting

LEMMA TakeBackCloses ==
    ASSUME CloserInv, [Next]_vars, NEW r \in Records, NEW state, TakeBack(r, state)
    PROVE  CloserInv'
<1>1. jobs \in [Records -> [JobKinds -> JobStates]] /\ UNCHANGED <<rec, reqs, inflight, project, passed>>
  BY CloserTypes DEF TakeBack
<1>2. \A q \in Records, k \in JobKinds : jobs'[q][k] = "active" => jobs[q][k] = "active"
  BY <1>1 DEF TakeBack, DeleteJobs, NoJob
<1>3. \A q \in Records : OldRow(q)
  BY <1>1, <1>2, KindsOfJobs DEF OldRow, May
<1>4. QED
  BY <1>1, <1>3, OldStep

LEMMA LaunchCloses ==
    ASSUME CloserInv, [Next]_vars, NEW o \in ops, Launch(o)
    PROVE  CloserInv'
<1> DEFINE r == o.rcd
           state == IF HasPoll(rec[r].tmpl) THEN "voting"
                    ELSE IF rec[r].tmpl.pending THEN "pending_execution" ELSE "executed"
           auto == rec[r].auto \/ state = "pending_execution"
<1>1. /\ rec \in [Records -> Row] /\ r \in Records /\ rec[r] \in Row /\ Used(r)
      /\ jobs \in [Records -> [JobKinds -> JobStates]]
      /\ project \in [Sips -> ProjectStates]
      /\ rec' = [rec EXCEPT ![r].state = state, ![r].auto = auto]
  BY RowTypes DEF Launch, CloserInv, ProjectInv
<1>2. /\ UNCHANGED <<inflight, reqs, passed>>
      /\ jobs' = IF state = "pending_execution"
                 THEN [jobs EXCEPT ![r]["approve"] = "none", ![r]["execute"] = "active"] ELSE jobs
      /\ project' = project \/ project' = WithProject(r, rec[r].sip)
  BY DEF Launch
<1>3. state \in {"voting", "pending_execution", "executed"}
  OBVIOUS
<1> HIDE DEF state, auto
<1>4. /\ rec'[r].state = state /\ rec'[r].tmpl = rec[r].tmpl
      /\ rec'[r].target = rec[r].target /\ rec'[r].thread = rec[r].thread
      /\ \A q \in Records \ {r} : rec'[q] = rec[q]
  BY <1>1 DEF Row
<1>5. \A q \in Records, k \in ActionKinds : May(q, k)' => May(q, k)
  BY <1>1, <1>2 DEF May, JobKinds, ActionKinds
<1>6. \A q \in Records : OldRow(q)
  BY <1>1, <1>3, <1>4, <1>5 DEF OldRow, Used
<1>7. \A s \in Sips : project'[s] = "closed" => project[s] = "closed"
  BY <1>1, <1>2 DEF WithProject
<1>8. QED
  BY <1>2, <1>6, <1>7, OldStep

\* A vote result that is applied adds the job of its template's action.
LEMMA OperationCloses ==
    ASSUME CloserInv, [Next]_vars, NEW o \in ops,
           WriteState(o) \/ WriteVerdict(o) \/ Automate(o) \/ CommitRefresh(o) \/ OperationFails(o)
    PROVE  CloserInv'
<1>1. /\ o.rcd \in Records /\ o.state \in ProposalStates \ {"pending_submit"} /\ Used(o.rcd)
      /\ PassingInv
  BY RowTypes DEF CloserInv, ProjectInv, OpEarned
<1>2. UNCHANGED <<inflight, reqs, passed>>
      /\ \A s \in Sips : project'[s] = "closed" => project[s] = "closed"
  BY <1>1, OperationRows
<1>3. ASSUME NEW q \in Records PROVE OldRow(q)
  <2>1. /\ rec'[q].tmpl = rec[q].tmpl
        /\ rec'[q].target = rec[q].target /\ rec'[q].thread = rec[q].thread
        /\ q # o.rcd => rec'[q] = rec[q] /\ jobs'[q] = jobs[q]
    BY <1>1, OperationRows
  <2>2. rec'[o.rcd].state \in {rec[o.rcd].state, o.state, "execution_failed", "pending_execution", "executed"}
    BY <1>1, OperationRows
  <2>3. /\ rec'[q].state = "unused" <=> rec[q].state = "unused"
        /\ rec'[q].state = "pending_submit" => rec[q].state = "pending_submit"
    BY <1>1, <2>1, <2>2 DEF Used, ProposalStates
  <2>4. \A k \in ActionKinds : May(q, k)' => May(q, k) \/ rec[q].tmpl.action = k
    <3>1. \A k \in JobKinds : jobs'[o.rcd][k] = "active" =>
            jobs[o.rcd][k] = "active" \/ (k \in ActionKinds => rec[o.rcd].tmpl.action = k)
      BY <1>1, OperationRows
    <3>2. QED
      BY <1>2, <2>1, <3>1, KindsOfJobs DEF May
  <2>5. QED
    BY <2>1, <2>3, <2>4 DEF OldRow
<1>4. QED
  BY <1>2, <1>3, OldStep

LEMMA RunsCloses ==
    ASSUME CloserInv, [Next]_vars, NEW r \in Records, RunApprove(r) \/ RunExecute(r)
    PROVE  CloserInv'
<1>1. \A q \in Records, k \in JobKinds : May(q, k)' => May(q, k)
  BY RunJobs DEF RunJob, May, CloserInv, ProjectInv, PassingInv
<1>2. UNCHANGED <<reqs, passed>>
  BY DEF RunApprove, RunExecute
<1>3. CASE UNCHANGED rec
  <2>1. \A q \in Records : OldRow(q)
    BY <1>1, <1>3, KindsOfJobs DEF OldRow
  <2>2. \A s \in Sips : project'[s] = "closed" => project[s] = "closed"
    BY CloserTypes DEF RunApprove, RunExecute, WithProject
  <2>3. QED
    BY <1>2, <2>1, <2>2, OldStep
<1>4. CASE RunApprove(r) /\ StartApproval("task", r)
  BY <1>1, <1>2, <1>4, ApprovalCloses DEF RunApprove
<1>5. QED
  BY <1>3, <1>4 DEF RunApprove, RunExecute

\* The jobs of component actions.  The two that close a project belong to a proposal that
\* was voted, and passed.
LEMMA ActionCloses ==
    ASSUME CloserInv, [Next]_vars, NEW r \in Records,
           RunVeto(r) \/ RunMotivation(r) \/ RunCloseProject(r) \/ RunUnknown(r)
    PROVE  CloserInv'
<1>1. /\ rec[r] \in Row /\ \A q \in Records : rec[q].sip \in Sips
      /\ project \in [Sips -> ProjectStates]
      /\ UNCHANGED <<reqs, passed>>
  BY CloserTypes, RowTypes, ActionRows DEF CloserInv, ProjectInv
<1>2. PICK k \in ActionKinds :
        /\ <<r, k>> \in inflight
        /\ k = "veto" <=> RunVeto(r)
        /\ k = "motivation" => RunMotivation(r)
        /\ k = "close_project" => RunCloseProject(r)
        /\ k \notin {"motivation", "close_project"} => project' = project
  <2>1. CASE RunVeto(r)
    <3>1. <<r, "veto">> \in inflight /\ project' = project
      BY <2>1 DEF RunVeto, Runs
    <3>2. QED
      BY <2>1, <3>1 DEF ActionKinds
  <2>2. CASE ~RunVeto(r)
    BY <2>2 DEF RunMotivation, RunCloseProject, RunUnknown, Runs, ActionKinds
  <2>3. QED
    BY <2>1, <2>2
<1>3. /\ rec[r].tmpl.action = k /\ HasPoll(rec[r].tmpl)
      /\ Used(r) /\ rec[r].thread \in passed
  <2>1. rec[r].tmpl.action = k /\ HasPoll(rec[r].tmpl)
    BY <1>2, RowParts DEF May, CloserInv, CloserRow, NoVote
  <2>2. QED
    BY <1>2, <2>1, KindsOfJobs DEF CloserInv, ProjectInv, PassingInv, RowInv, Entitled
<1>4. k \in {"veto", "close_project"} => rec[r].target \in Records /\ Used(rec[r].target)
  BY <1>1, <1>3 DEF NamesTarget, NamesProposal, CloserInv, CloserRow, Row
<1>5. \A q \in Records, j \in ActionKinds : May(q, j)' => May(q, j)
  BY RunJobs, KindsOfJobs DEF RunJob, May, CloserInv, ProjectInv, PassingInv
<1>6. ASSUME NEW q \in Records PROVE OldRow(q)
  <2>1. /\ rec'[q].tmpl = rec[q].tmpl /\ rec'[q].target = rec[q].target /\ rec'[q].thread = rec[q].thread
        /\ rec'[q].state \in {rec[q].state, "executed", "execution_failed", "vetoed"}
        /\ q # r => rec'[q].state = rec[q].state \/ (RunVeto(r) /\ q = rec[r].target)
    <3>1. PassingInv
      BY DEF CloserInv, ProjectInv
    <3>2. QED
      BY <3>1, ActionRows
  <2>2. Used(q) \/ rec'[q].state = rec[q].state
    BY <1>2, <1>3, <1>4, <2>1
  <2>3. QED
    BY <1>5, <2>1, <2>2 DEF OldRow, Used
<1>7. ASSUME NEW s \in Sips, project'[s] = "closed", project[s] # "closed"
      PROVE  ClosesProject(r, s)
  <2>1. CASE k = "motivation"
    <3>1. project' = project \/ \E status : project' = MarkProject(rec[r].sip, status)
      BY <1>2, <2>1 DEF RunMotivation
    <3>2. s = rec[r].sip
      BY <1>1, <1>7, <3>1 DEF MarkProject
    <3>3. QED
      BY <1>3, <2>1, <3>2 DEF ClosesProject
  <2>2. CASE k = "close_project"
    <3>1. project' = MarkProject(rec[rec[r].target].sip, "closed") /\ rec[rec[r].target].sip \in Sips
      BY <1>1, <1>2, <1>4, <2>2 DEF RunCloseProject
    <3>2. s = rec[rec[r].target].sip
      BY <1>1, <1>7, <3>1 DEF MarkProject
    <3>3. QED
      BY <1>3, <2>2, <3>2 DEF ClosesProject
  <2>3. QED
    BY <1>2, <1>7, <2>1, <2>2
<1>8. \A q \in Records : StepRow(q)
  BY <1>6, OldRowKept
<1>9. QED
  BY <1>1, <1>3, <1>7, <1>8, CloserParts

LEMMA CloserStep == CloserInv /\ [Next]_vars => CloserInv'
<1> SUFFICES ASSUME CloserInv, [Next]_vars PROVE CloserInv'
  OBVIOUS
<1>1. CASE Editing
  <2>1. ASSUME NEW w \in reqs, ApproveAtOnce(w)
        PROVE  CloserInv'
    <3>1. w \in Request /\ w.rcd \in Records /\ w.url \in Records /\ Used(w.rcd)
      BY CloserTypes DEF CloserInv, SavesTarget
    <3>2. \A v \in reqs' : v \in reqs \/ (v.stage # "save" /\ v.rcd \in Records /\ Used(v.rcd))
      BY <2>1, <3>1, ContinueSaves DEF ApproveAtOnce
    <3>3. QED
      BY <2>1, <3>1, <3>2, ApprovalCloses DEF ApproveAtOnce, May
  <2>2. ASSUME NEW w \in reqs, Respond(w)
        PROVE  CloserInv'
    <3>1. w.rcd \in Records /\ reqs' \subseteq reqs
      BY <2>2, CloserTypes DEF Respond, Drop
    <3>2. CASE Fetch(w.rcd)
      BY <3>1, <3>2, FetchCloses
    <3>3. CASE UNCHANGED <<rec, vote, poll, jobs, inflight, ops, project, passed>>
      <4>1. \A q \in Records : OldRow(q)
        BY <3>3 DEF OldRow, May
      <4>2. QED
        BY <3>1, <3>3, <4>1, OldStep
    <3>4. QED
      BY <2>2, <3>2, <3>3 DEF Respond
  <2>3. QED
    BY <1>1, <2>1, <2>2, CreateCloses, CheckUpdateCloses, SaveUpdateCloses, StageCloses DEF Editing
<1>2. CASE Deciding
  <2>1. ASSUME NEW r \in Records, Approve(r)
        PROVE  CloserInv'
    BY <2>1, ApprovalCloses DEF Approve, May
  <2>2. QED
    BY <1>2, <2>1, TakeBackCloses DEF Deciding, Withdraw, Reject
<1>3. CASE Watching
  <2>1. ASSUME NEW r \in Records, Detail(r) \/ Refresh(r)
        PROVE  CloserInv'
    BY <2>1, FetchCloses DEF Detail, Refresh
  <2>2. QED
    BY <1>3, <2>1 DEF Watching
<1>4. CASE Operations
  BY <1>4, LaunchCloses, OperationCloses DEF Operations
<1>5. CASE Tasks
  BY <1>5, ForumCloses, RunsCloses, ActionCloses DEF Tasks, RunJob
<1>6. CASE Forum \/ UNCHANGED vars
  BY <1>6, ForumCloses
<1>7. QED
  BY <1>1, <1>2, <1>3, <1>4, <1>5, <1>6 DEF Next

LEMMA CloserInit == Init => CloserInv
<1> SUFFICES ASSUME Init PROVE CloserInv
  OBVIOUS
<1>1. \A r \in Records, k \in JobKinds : ~May(r, k)
  BY DEF Init, NoJob, May
<1>2. \A r \in Records : rec[r] = IF Seeded /\ r = 1 THEN SeedRow ELSE NoRow
  BY DEF Init
<1>3. NoRow.state = "unused" /\ NoRow.thread = 0
  BY DEF NoRow
<1>4. Seeded => SeedRow.state = "executed" /\ SeedRow.tmpl = SeedTemplate
  BY InitialRows DEF SeedRow, NoRow, Row
<1>5. Seeded => ~NamesTarget(SeedTemplate)
  BY DEF SeedTemplate, NamesTarget, HasPoll
<1>6. \A r \in Records : CloserRow(r)
  BY <1>1, <1>2, <1>3, <1>4, <1>5, KindsOfJobs DEF CloserRow, Used
<1>7. ClosedAfterPassing
  BY DEF Init, ClosedAfterPassing
<1>8. QED
  BY <1>6, <1>7, ProjectInit DEF Init, CloserInv

\* A numbered project is closed only after a proposal that closes it has passed its
\* vote, whatever was changed in the proposal and in its target meanwhile.
THEOREM ClosedByPassing == Spec => []ClosedAfterPassing
<1>1. CloserInv => ClosedAfterPassing
  BY DEF CloserInv
<1>2. QED
  BY <1>1, CloserInit, CloserStep, PTL DEF Spec
====
