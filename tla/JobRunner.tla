---- MODULE JobRunner ----
(***************************************************************************)
(* The task manager: a scheduler that scans the table of cron jobs every   *)
(* few seconds, a dispatcher that starts a goroutine for each due job, the *)
(* goroutines, which mark their row as running, do the work and save how   *)
(* it ended, and a second schedule that arms the one repeating job, the    *)
(* refresh of voting proposals, every minute.  The process may stop and    *)
(* start; the rows stay.  Time is counted in ticks: how long until a row   *)
(* is due, until the next scan and until the next minute.                  *)
(***************************************************************************)
EXTENDS Integers, FiniteSets

CONSTANTS
    OneShots,     \* jobs that are done once
    Unknown,      \* those with a handler name that the dispatcher does not know
    Slow,         \* jobs whose goroutine may reach the database after the next scan
    Interval,     \* ticks from one scan to the next
    Minute,       \* ticks from one refresh to the next
    MaxWait,      \* bound on the ticks until a new job is due
    MaxCopies,    \* bound on the goroutines of one job in one stage
    MaxFaults,    \* bound on the updates of a row that fail
    MaxRestarts   \* bound on the restarts

VARIABLES
    row,      \* row[j]: the row of job j
    copies,   \* copies[j]: the goroutines of job j, by stage
    up,       \* whether the process runs
    scanIn, activateIn, \* ticks until the next scan and until the refresh is armed
    clock,    \* the second of the minute
    faults, restarts,
    runs      \* history: how often the work of a one-shot job was begun, up to 2

vars == <<row, copies, up, scanIn, activateIn, clock, faults, restarts, runs>>

Refresh == "refresh"
Jobs == OneShots \cup {Refresh}
JobStates == {"none", "active", "running", "done", "terminated"}

ASSUME JobsAssumption == Refresh \notin OneShots /\ Unknown \subseteq OneShots /\ Slow \subseteq Jobs
ASSUME TimeAssumption == Interval \in 1..Minute /\ Minute \in Nat /\ MaxWait \in Nat
ASSUME BoundsAssumption == MaxCopies \in Nat /\ MaxFaults \in Nat /\ MaxRestarts \in Nat

Idle == [sent |-> 0, working |-> 0]

\* due: ticks until next_exec_ts, -1 once it has passed; fresh: last_exec_ts is 0.
Row == [state: JobStates, due: -1..(IF MaxWait > Minute THEN MaxWait ELSE Minute), fresh: BOOLEAN]
M_NextMinute == Minute + clock
NextMinute == Minute - clock
Later(t) == IF t > 0 THEN t - 1 ELSE -1

TypeOK ==
    /\ row \in [Jobs -> Row]
    /\ copies \in [Jobs -> [sent: 0..MaxCopies, working: 0..MaxCopies]]
    /\ up \in BOOLEAN /\ scanIn \in 0..Interval /\ activateIn \in 0..Minute /\ clock \in 0..(Minute - 1)
    /\ faults \in 0..MaxFaults /\ restarts \in 0..MaxRestarts
    /\ runs \in [OneShots -> 0..2]

\* The refresh job is in the table since the first start.
Init ==
    /\ row = [j \in Jobs |-> [state |-> IF j = Refresh THEN "active" ELSE "none",
                              due |-> IF j = Refresh THEN Minute ELSE 0, fresh |-> TRUE]]
    /\ copies = [j \in Jobs |-> Idle]
    /\ up = TRUE /\ scanIn = Interval /\ activateIn = Minute /\ clock = 0
    /\ faults = 0 /\ restarts = 0 /\ runs = [j \in OneShots |-> 0]

----

\* Somebody leaves a job, due in some time.
CreateJob(j) ==
    /\ up /\ row[j].state = "none"
    /\ \E t \in 0..MaxWait : row' = [row EXCEPT ![j] = [state |-> "active", due |-> t, fresh |-> TRUE]]
    /\ UNCHANGED <<copies, up, scanIn, activateIn, clock, faults, restarts, runs>>

M_IsDueNoCatchUp(j) == row[j].state = "active" /\ row[j].due \in 0..(Interval - 1)
M_IsDueAnyState(j) ==
    /\ row[j].state # "none"
    /\ row[j].due \in 0..(Interval - 1) \/ (row[j].fresh /\ row[j].due <= 0)

\* An active job is picked when it becomes due before the next scan, or when it is overdue
\* and was never executed.
IsDue(j) ==
    /\ row[j].state = "active"
    /\ row[j].due \in 0..(Interval - 1) \/ (row[j].fresh /\ row[j].due <= 0)

\* What a scan picks is handed to a goroutine; the unknown is terminated on the spot.
ScanTaskPool ==
    /\ up /\ scanIn = 0
    /\ row' = [j \in Jobs |-> IF j \in Unknown /\ IsDue(j)
                              THEN [row[j] EXCEPT !.state = "terminated", !.fresh = FALSE] ELSE row[j]]
    /\ copies' = [j \in Jobs |-> IF j \notin Unknown /\ IsDue(j) /\ copies[j].sent < MaxCopies
                                 THEN [copies[j] EXCEPT !.sent = @ + 1] ELSE copies[j]]
    /\ scanIn' = Interval
    /\ UNCHANGED <<up, activateIn, clock, faults, restarts, runs>>

\* The goroutine's first step.
MarkRunning(j) ==
    /\ copies[j].sent > 0 /\ copies[j].working < MaxCopies
    /\ row' = [row EXCEPT ![j].state = "running"]
    /\ copies' = [copies EXCEPT ![j] = [sent |-> @.sent - 1, working |-> @.working + 1]]
    /\ runs' = IF j = Refresh \/ runs[j] = 2 THEN runs ELSE [runs EXCEPT ![j] = @ + 1]
    /\ UNCHANGED <<up, scanIn, activateIn, clock, faults, restarts>>

\* If it cannot, it does nothing else.
MarkFails(j) ==
    /\ copies[j].sent > 0 /\ faults < MaxFaults
    /\ copies' = [copies EXCEPT ![j].sent = @ - 1]
    /\ faults' = faults + 1
    /\ UNCHANGED <<row, up, scanIn, activateIn, clock, restarts, runs>>

\* The work is over, with or without success, and the row is saved.  What repeats is armed
\* for the next minute.
Done(j) ==
    IF j = Refresh THEN [state |-> "active", due |-> NextMinute, fresh |-> FALSE]
    ELSE [row[j] EXCEPT !.state = "done", !.fresh = FALSE]
End(j) ==
    /\ copies[j].working > 0
    /\ row' = [row EXCEPT ![j] = Done(j)]
    /\ copies' = [copies EXCEPT ![j].working = @ - 1]
    /\ UNCHANGED <<up, scanIn, activateIn, clock, faults, restarts, runs>>

EndFails(j) ==
    /\ copies[j].working > 0 /\ faults < MaxFaults
    /\ copies' = [copies EXCEPT ![j].working = @ - 1]
    /\ faults' = faults + 1
    /\ UNCHANGED <<row, up, scanIn, activateIn, clock, restarts, runs>>

M_ActivateIfDone ==
    /\ up /\ activateIn = 0
    /\ row' = IF row[Refresh].state = "active"
              THEN [row EXCEPT ![Refresh] = [state |-> "active", due |-> NextMinute, fresh |-> TRUE]] ELSE row
    /\ activateIn' = Minute
    /\ UNCHANGED <<copies, up, scanIn, clock, faults, restarts, runs>>

\* Every minute the refresh job is armed, whatever its row says: also while it runs.
ActivateRefreshVoteStateJob ==
    /\ up /\ activateIn = 0
    /\ row' = [row EXCEPT ![Refresh] = [state |-> "active", due |-> NextMinute, fresh |-> TRUE]]
    /\ activateIn' = Minute
    /\ UNCHANGED <<copies, up, scanIn, clock, faults, restarts, runs>>

\* Neither schedule is missed while the process runs, and a goroutine that is not slow
\* reaches the database before the next scan.
Tick ==
    /\ up => scanIn > 0 /\ activateIn > 0 /\ \A j \in Jobs \ Slow : copies[j].sent = 0
    /\ row' = [j \in Jobs |-> IF row[j].state = "none" THEN row[j] ELSE [row[j] EXCEPT !.due = Later(@)]]
    /\ scanIn' = IF up THEN scanIn - 1 ELSE scanIn
    /\ activateIn' = IF up THEN activateIn - 1 ELSE activateIn
    /\ clock' = (clock + 1) % Minute
    /\ UNCHANGED <<copies, up, faults, restarts, runs>>

\* The goroutines are gone.
Stop ==
    /\ up /\ restarts < MaxRestarts
    /\ up' = FALSE /\ restarts' = restarts + 1
    /\ copies' = [j \in Jobs |-> Idle]
    /\ UNCHANGED <<row, scanIn, activateIn, clock, faults, runs>>

\* The refresh job gets a new time, but its state is not assigned: 0 stands for active, and
\* an update from a struct leaves zero values out.
StartRunner ==
    /\ ~up
    /\ up' = TRUE /\ scanIn' = Interval /\ activateIn' = Minute
    /\ row' = [row EXCEPT ![Refresh].due = NextMinute]
    /\ UNCHANGED <<copies, clock, faults, restarts, runs>>

Goroutine(j) == MarkRunning(j) \/ MarkFails(j) \/ End(j) \/ EndFails(j)

Next ==
    \/ \E j \in OneShots : CreateJob(j)
    \/ \E j \in Jobs : Goroutine(j)
    \/ ScanTaskPool \/ ActivateRefreshVoteStateJob \/ Tick \/ Stop \/ StartRunner

\* Time passes, the schedules go off, goroutines go on, and a process that stopped is
\* started again.  When the scan and the arming of the refresh fall into one second, the one
\* that comes first is not for ever the same.
Fairness ==
    /\ SF_vars(ScanTaskPool /\ IsDue(Refresh))
    /\ WF_vars(Tick) /\ WF_vars(ScanTaskPool) /\ WF_vars(ActivateRefreshVoteStateJob) /\ WF_vars(StartRunner)
    /\ \A j \in Jobs : WF_vars(MarkRunning(j)) /\ WF_vars(End(j))

Spec == Init /\ [][Next]_vars /\ Fairness

----

\* A job that is done once, for those who left it: begun at most once and not too early.
Status(j) ==
    IF row[j].state = "none" THEN "none"
    ELSE IF row[j].state = "terminated" THEN "refused"
    ELSE IF runs[j] = 0 THEN "waiting"
    ELSE IF runs[j] > 1 THEN "repeated"
    ELSE IF row[j].state = "done" THEN "ended" ELSE "begun"

Queue == INSTANCE JobQueue WITH
    status <- [j \in OneShots |-> Status(j)],
    wait <- [j \in OneShots |-> row[j].due]

\* The runner implements the queue, over restarts and failing updates.
ImplementsQueue == Queue!QSpec

\* An active job does not wait for ever, whatever scan it was due in: one the process was
\* down for, or one whose goroutine could not begin.
ActiveIsPicked == \A j \in OneShots : row[j].state = "active" ~> row[j].state # "active"

\* Voting proposals are refreshed for ever, also after a restart left the row of the job
\* running, or the update that re-arms it failed.
RefreshGoesOn == []<>(copies[Refresh].working > 0)

====
