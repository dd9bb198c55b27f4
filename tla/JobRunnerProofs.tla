---- MODULE JobRunnerProofs ----
(***************************************************************************)
(* Theorems about the task manager: the types, and that a job that is to   *)
(* be done once is begun at most once and not too early, as the abstract   *)
(* queue promises, over restarts and failing updates of its row.           *)
(***************************************************************************)
EXTENDS JobRunner, TLAPS

USE JobsAssumption, TimeAssumption, BoundsAssumption

(* Type correctness *)

Dues == -1..(IF MaxWait > Minute THEN MaxWait ELSE Minute)
Copies == [sent: 0..MaxCopies, working: 0..MaxCopies]

LEMMA TimeFacts ==
    /\ Interval \in Nat /\ Interval > 0 /\ Minute \in Nat /\ Minute > 0 /\ Interval <= Minute
    /\ \A t \in Dues : Later(t) \in Dues
    /\ 0..MaxWait \subseteq Dues /\ 0..Minute \subseteq Dues /\ 0 \in Dues /\ Minute \in Dues
    /\ Interval \in 0..Interval /\ Minute \in 0..Minute /\ 0 \in 0..(Minute - 1)
BY DEF Dues, Later

LEMMA RowParts ==
    ASSUME NEW state \in JobStates, NEW due \in Dues, NEW fresh \in BOOLEAN
    PROVE  [state |-> state, due |-> due, fresh |-> fresh] \in Row
BY DEF Row, Dues

LEMMA RowFields == \A w \in Row : w.state \in JobStates /\ w.due \in Dues /\ w.fresh \in BOOLEAN
BY DEF Row, Dues

LEMMA CopiesUpdates ==
    ASSUME TypeOK, NEW j \in Jobs, NEW c \in Copies
    PROVE  [copies EXCEPT ![j] = c] \in [Jobs -> Copies]
BY DEF TypeOK, Copies

LEMMA RowUpdates ==
    ASSUME TypeOK, NEW j \in Jobs, NEW w \in Row
    PROVE  [row EXCEPT ![j] = w] \in [Jobs -> Row]
BY DEF TypeOK

LEMMA InitTypeOK == Init => TypeOK
<1> SUFFICES ASSUME Init PROVE TypeOK
  OBVIOUS
<1>1. row \in [Jobs -> Row]
  <2>1. \A j \in Jobs : [state |-> IF j = Refresh THEN "active" ELSE "none",
                         due |-> IF j = Refresh THEN Minute ELSE 0, fresh |-> TRUE] \in Row
    BY TimeFacts, RowParts DEF JobStates
  <2>2. QED
    BY <2>1 DEF Init
<1>2. copies \in [Jobs -> Copies]
  BY DEF Init, Idle, Copies
<1>3. /\ up \in BOOLEAN /\ scanIn \in 0..Interval /\ activateIn \in 0..Minute /\ clock \in 0..(Minute - 1)
      /\ faults \in 0..MaxFaults /\ restarts \in 0..MaxRestarts
  BY TimeFacts DEF Init
<1>4. runs \in [OneShots -> 0..2]
  BY DEF Init
<1>5. QED
  BY <1>1, <1>2, <1>3, <1>4 DEF TypeOK, Copies

LEMMA CreateJobType ==
    ASSUME TypeOK, NEW j \in OneShots, CreateJob(j)
    PROVE  TypeOK'
<1>1. PICK t \in 0..MaxWait : row' = [row EXCEPT ![j] = [state |-> "active", due |-> t, fresh |-> TRUE]]
  BY DEF CreateJob
<1>2. [state |-> "active", due |-> t, fresh |-> TRUE] \in Row
  BY TimeFacts, RowParts DEF JobStates
<1>3. row' \in [Jobs -> Row]
  BY <1>1, <1>2, RowUpdates DEF Jobs
<1>4. QED
  BY <1>3 DEF CreateJob, TypeOK

LEMMA ScanType ==
    ASSUME TypeOK, ScanTaskPool
    PROVE  TypeOK'
<1>1. ASSUME NEW j \in Jobs PROVE row'[j] \in Row
  <2>1. row[j] \in Row
    BY DEF TypeOK
  <2>2. [row[j] EXCEPT !.state = "terminated", !.fresh = FALSE] \in Row
    BY <2>1 DEF Row, JobStates
  <2>3. row'[j] = row[j] \/ row'[j] = [row[j] EXCEPT !.state = "terminated", !.fresh = FALSE]
    BY DEF ScanTaskPool
  <2>4. QED
    BY <2>1, <2>2, <2>3
<1>2. ASSUME NEW j \in Jobs PROVE copies'[j] \in Copies
  <2>1. copies[j] \in Copies
    BY DEF TypeOK, Copies
  <2>2. copies[j].sent < MaxCopies => [copies[j] EXCEPT !.sent = @ + 1] \in Copies
    BY <2>1 DEF Copies
  <2>3. copies'[j] = copies[j]
        \/ (copies[j].sent < MaxCopies /\ copies'[j] = [copies[j] EXCEPT !.sent = @ + 1])
    BY DEF ScanTaskPool
  <2>4. QED
    BY <2>1, <2>2, <2>3
<1>3. row' \in [Jobs -> Row] /\ copies' \in [Jobs -> Copies]
  BY <1>1, <1>2 DEF ScanTaskPool
<1>4. scanIn' \in 0..Interval
  BY TimeFacts DEF ScanTaskPool
<1>5. QED
  BY <1>3, <1>4 DEF ScanTaskPool, TypeOK, Copies

LEMMA MarkRunningType ==
    ASSUME TypeOK, NEW j \in Jobs, MarkRunning(j)
    PROVE  TypeOK'
<1>1. row[j] \in Row /\ copies[j] \in Copies
  BY DEF TypeOK, Copies
<1>2. [row[j] EXCEPT !.state = "running"] \in Row
  BY <1>1 DEF Row, JobStates
<1>3. row' = [row EXCEPT ![j] = [row[j] EXCEPT !.state = "running"]]
  BY DEF MarkRunning, TypeOK
<1>4. row' \in [Jobs -> Row]
  BY <1>2, <1>3, RowUpdates
<1>5. [sent |-> copies[j].sent - 1, working |-> copies[j].working + 1] \in Copies
  BY <1>1 DEF MarkRunning, Copies
<1>6. copies' = [copies EXCEPT ![j] = [sent |-> copies[j].sent - 1, working |-> copies[j].working + 1]]
  BY DEF MarkRunning, TypeOK
<1>7. copies' \in [Jobs -> Copies]
  BY <1>5, <1>6, CopiesUpdates
<1>8. runs' \in [OneShots -> 0..2]
  BY DEF MarkRunning, TypeOK, Jobs
<1>9. QED
  BY <1>4, <1>7, <1>8 DEF MarkRunning, TypeOK, Copies

LEMMA MarkFailsType ==
    ASSUME TypeOK, NEW j \in Jobs, MarkFails(j)
    PROVE  TypeOK'
<1>1. copies[j] \in Copies
  BY DEF TypeOK, Copies
<1>2. [copies[j] EXCEPT !.sent = @ - 1] \in Copies
  BY <1>1 DEF MarkFails, Copies
<1>3. copies' = [copies EXCEPT ![j] = [copies[j] EXCEPT !.sent = @ - 1]]
  BY DEF MarkFails, TypeOK
<1>4. copies' \in [Jobs -> Copies]
  BY <1>2, <1>3, CopiesUpdates
<1>5. faults' \in 0..MaxFaults
  BY DEF MarkFails, TypeOK
<1>6. QED
  BY <1>4, <1>5 DEF MarkFails, TypeOK, Copies

LEMMA DoneType ==
    ASSUME TypeOK, NEW j \in Jobs
    PROVE  Done(j) \in Row
<1>1. NextMinute \in 0..Minute
  BY TimeFacts DEF NextMinute, TypeOK
<1>2. [state |-> "active", due |-> NextMinute, fresh |-> FALSE] \in Row
  BY <1>1, TimeFacts, RowParts DEF JobStates
<1>3. row[j] \in Row
  BY DEF TypeOK
<1>4. [row[j] EXCEPT !.state = "done", !.fresh = FALSE] \in Row
  BY <1>3 DEF Row, JobStates
<1>5. QED
  BY <1>2, <1>4 DEF Done

LEMMA EndType ==
    ASSUME TypeOK, NEW j \in Jobs, End(j) \/ EndFails(j)
    PROVE  TypeOK'
<1>1. copies[j] \in Copies
  BY DEF TypeOK, Copies
<1>2. [copies[j] EXCEPT !.working = @ - 1] \in Copies
  BY <1>1 DEF End, EndFails, Copies
<1>3. copies' = [copies EXCEPT ![j] = [copies[j] EXCEPT !.working = @ - 1]]
  BY DEF End, EndFails, TypeOK
<1>4. copies' \in [Jobs -> Copies]
  BY <1>2, <1>3, CopiesUpdates
<1>5. row' \in [Jobs -> Row]
  <2>1. CASE row' = [row EXCEPT ![j] = Done(j)]
    BY <2>1, DoneType, RowUpdates
  <2>2. CASE row' = row
    BY <2>2 DEF TypeOK
  <2>3. QED
    BY <2>1, <2>2 DEF End, EndFails
<1>6. faults' \in 0..MaxFaults
  BY DEF End, EndFails, TypeOK
<1>7. QED
  BY <1>4, <1>5, <1>6 DEF End, EndFails, TypeOK, Copies

LEMMA RefreshType ==
    ASSUME TypeOK, ActivateRefreshVoteStateJob \/ StartRunner
    PROVE  TypeOK'
<1>1. NextMinute \in Dues
  BY TimeFacts DEF NextMinute, TypeOK
<1>2. Refresh \in Jobs /\ row[Refresh] \in Row
  BY DEF TypeOK, Jobs
<1>3. [state |-> "active", due |-> NextMinute, fresh |-> TRUE] \in Row
  BY <1>1, RowParts DEF JobStates
<1>4. [row[Refresh] EXCEPT !.due = NextMinute] \in Row
  BY <1>1, <1>2 DEF Row, Dues
<1>5. row' \in [Jobs -> Row]
  <2> DEFINE armed == [state |-> "active", due |-> NextMinute, fresh |-> TRUE]
             moved == [row[Refresh] EXCEPT !.due = NextMinute]
  <2>1. row' = [row EXCEPT ![Refresh] = armed] \/ row' = [row EXCEPT ![Refresh] = moved]
    BY DEF ActivateRefreshVoteStateJob, StartRunner, TypeOK
  <2>2. armed \in Row /\ moved \in Row
    BY <1>3, <1>4
  <2> HIDE DEF armed, moved
  <2>3. QED
    BY <1>2, <2>1, <2>2, RowUpdates
<1>6. scanIn' \in 0..Interval /\ activateIn' \in 0..Minute /\ up' \in BOOLEAN
  <2>1. CASE ActivateRefreshVoteStateJob
    BY <2>1, TimeFacts DEF ActivateRefreshVoteStateJob, TypeOK
  <2>2. CASE StartRunner
    BY <2>2, TimeFacts DEF StartRunner
  <2>3. QED
    BY <2>1, <2>2
<1>7. QED
  BY <1>5, <1>6 DEF ActivateRefreshVoteStateJob, StartRunner, TypeOK

LEMMA TickType ==
    ASSUME TypeOK, Tick
    PROVE  TypeOK'
<1>1. ASSUME NEW j \in Jobs PROVE row'[j] \in Row
  <2>1. row[j] \in Row /\ Later(row[j].due) \in Dues
    BY TimeFacts, RowFields DEF TypeOK
  <2>2. [row[j] EXCEPT !.due = Later(row[j].due)] \in Row
    BY <2>1 DEF Row, Dues
  <2>3. row'[j] = row[j] \/ row'[j] = [row[j] EXCEPT !.due = Later(row[j].due)]
    BY DEF Tick
  <2>4. QED
    BY <2>1, <2>2, <2>3
<1>2. row' \in [Jobs -> Row]
  BY <1>1 DEF Tick
<1>3. scanIn' \in 0..Interval /\ activateIn' \in 0..Minute
  BY TimeFacts DEF Tick, TypeOK
<1>4. clock' \in 0..(Minute - 1)
  BY TimeFacts DEF Tick, TypeOK
<1>5. QED
  BY <1>2, <1>3, <1>4 DEF Tick, TypeOK

LEMMA StopType ==
    ASSUME TypeOK, Stop
    PROVE  TypeOK'
<1>1. Idle \in Copies
  BY DEF Idle, Copies
<1>2. copies' \in [Jobs -> Copies]
  BY <1>1 DEF Stop
<1>3. restarts \in Nat /\ restarts < MaxRestarts /\ up' = FALSE /\ restarts' = restarts + 1
  BY DEF Stop, TypeOK
<1>4. up' \in BOOLEAN
  BY <1>3
<1>5. restarts' \in 0..MaxRestarts
  BY <1>3
<1>6. QED
  BY <1>2, <1>4, <1>5 DEF Stop, TypeOK, Copies

LEMMA TypeStep == TypeOK /\ [Next]_vars => TypeOK'
<1> SUFFICES ASSUME TypeOK, [Next]_vars PROVE TypeOK'
  OBVIOUS
<1>1. CASE UNCHANGED vars
  BY <1>1 DEF vars, TypeOK
<1>2. CASE Next
  BY <1>2, CreateJobType, ScanType, MarkRunningType, MarkFailsType, EndType, RefreshType, TickType, StopType
     DEF Next, Goroutine
<1>3. QED
  BY <1>1, <1>2

\* The rows, the goroutines and the schedules keep their types; in particular no schedule
\* is missed, however the process stops and starts.
THEOREM TypeCorrect == Spec => []TypeOK
BY InitTypeOK, TypeStep, PTL DEF Spec

(* The runner implements the queue: the inductive invariant *)

\* Of a job that is done once, and whose goroutine reaches the database before the next
\* scan: it was sent at most once since the last scan, while its row is active and due,
\* and works at most once, while its row is running.
OneShotInv(j) ==
    /\ runs[j] = IF row[j].state \in {"running", "done"} THEN 1 ELSE 0
    /\ copies[j].sent > 0 =>
          /\ up /\ scanIn = Interval
          /\ copies[j].sent = 1 /\ j \notin Unknown
          /\ row[j].state = "active" /\ row[j].due < Interval
    /\ copies[j].working > 0 => copies[j].working = 1 /\ row[j].state = "running"

QueueInv == TypeOK /\ \A j \in OneShots : OneShotInv(j)

\* A step that leaves the job alone, or only lets go of a goroutine of it.
LEMMA LeftAlone ==
    ASSUME NEW j \in OneShots, OneShotInv(j), copies[j] \in Copies, copies'[j] \in Copies,
           row'[j] = row[j], runs'[j] = runs[j],
           (copies'[j] = copies[j] /\ up' = up /\ scanIn' = scanIn) \/ copies'[j].sent = 0,
           copies'[j].working <= copies[j].working
    PROVE  OneShotInv(j)'
BY DEF OneShotInv, Copies

LEMMA QueueParts ==
    ASSUME TypeOK
    PROVE  /\ row \in [Jobs -> Row] /\ copies \in [Jobs -> Copies] /\ runs \in [OneShots -> 0..2]
           /\ \A j \in OneShots : j \in Jobs /\ j # Refresh /\ row[j] \in Row /\ copies[j] \in Copies
           /\ \A j \in Jobs : copies[j].sent \in Nat /\ copies[j].working \in Nat
BY DEF TypeOK, Copies, Jobs

LEMMA CreateJobQueue ==
    ASSUME QueueInv, NEW i \in OneShots, CreateJob(i), NEW j \in OneShots
    PROVE  OneShotInv(j)'
<1>1. /\ row \in [Jobs -> Row] /\ j \in Jobs /\ i \in Jobs /\ copies[j] \in Copies
      /\ OneShotInv(j)
  BY QueueParts DEF QueueInv
<1>2. UNCHANGED <<copies, up, scanIn, runs>>
  BY DEF CreateJob
<1>3. CASE i # j
  <2>1. row'[j] = row[j]
    BY <1>1, <1>3 DEF CreateJob
  <2>2. QED
    BY <1>1, <1>2, <2>1, LeftAlone DEF Copies
<1>4. CASE i = j
  <2>1. row[j].state = "none" /\ row'[j].state = "active"
    BY <1>1, <1>4 DEF CreateJob
  <2>2. QED
    BY <1>1, <1>2, <2>1 DEF OneShotInv, Copies
<1>5. QED
  BY <1>3, <1>4

LEMMA ScanQueue ==
    ASSUME QueueInv, ScanTaskPool, NEW j \in OneShots
    PROVE  OneShotInv(j)'
<1>1. /\ row[j] \in Row /\ j \in Jobs /\ copies[j] \in Copies /\ OneShotInv(j)
      /\ copies[j].sent \in Nat /\ row[j].due \in Int
  BY QueueParts, RowFields DEF QueueInv, Dues
<1>2. copies[j].sent = 0
  <2>1. scanIn = 0
    BY DEF ScanTaskPool
  <2>2. scanIn # Interval
    BY <2>1, TimeFacts
  <2>3. ~(copies[j].sent > 0)
    BY <1>1, <2>2 DEF OneShotInv
  <2>4. QED
    BY <1>1, <2>3
<1>3. up' /\ scanIn' = Interval /\ runs' = runs
  BY DEF ScanTaskPool, QueueInv, TypeOK
<1>4. CASE j \in Unknown /\ IsDue(j)
  <2>1. row'[j].state = "terminated" /\ copies'[j] = copies[j] /\ row[j].state = "active"
    BY <1>1, <1>4 DEF ScanTaskPool, IsDue, Row
  <2>2. QED
    BY <1>1, <1>2, <1>3, <2>1 DEF OneShotInv
<1>5. CASE ~(j \in Unknown /\ IsDue(j))
  <2>1. row'[j] = row[j]
    BY <1>1, <1>5 DEF ScanTaskPool
  <2>2. CASE copies'[j] = copies[j]
    BY <1>1, <1>2, <1>3, <2>1, <2>2 DEF OneShotInv
  <2>3. CASE copies'[j] # copies[j]
    <3>1. IsDue(j) /\ j \notin Unknown /\ copies'[j] = [copies[j] EXCEPT !.sent = @ + 1]
      BY <1>1, <2>3 DEF ScanTaskPool
    <3>2. copies'[j].sent = 1 /\ copies'[j].working = copies[j].working
      BY <1>1, <1>2, <3>1 DEF Copies
    <3>3. row[j].state = "active" /\ row[j].due < Interval
      BY <1>1, <3>1, TimeFacts DEF IsDue
    <3>4. QED
      BY <1>1, <1>3, <2>1, <3>1, <3>2, <3>3 DEF OneShotInv
  <2>4. QED
    BY <2>2, <2>3
<1>6. QED
  BY <1>4, <1>5

LEMMA GoroutineQueue ==
    ASSUME QueueInv, NEW i \in Jobs, Goroutine(i), NEW j \in OneShots
    PROVE  OneShotInv(j)'
<1>1. /\ row \in [Jobs -> Row] /\ copies \in [Jobs -> Copies] /\ runs \in [OneShots -> 0..2]
      /\ row[j] \in Row /\ copies[j] \in Copies /\ j \in Jobs /\ j # Refresh
      /\ OneShotInv(j)
  BY QueueParts DEF QueueInv
<1>2. UNCHANGED <<up, scanIn>>
  BY DEF Goroutine, MarkRunning, MarkFails, End, EndFails
<1>3. CASE i # j
  <2>1. row'[j] = row[j] /\ copies'[j] = copies[j] /\ runs'[j] = runs[j]
    BY <1>1, <1>3 DEF Goroutine, MarkRunning, MarkFails, End, EndFails
  <2>2. QED
    BY <1>1, <1>2, <2>1, LeftAlone DEF Copies
<1>4. CASE i = j /\ MarkRunning(j)
  <2>1. /\ row'[j] = [row[j] EXCEPT !.state = "running"]
        /\ copies'[j] = [sent |-> copies[j].sent - 1, working |-> copies[j].working + 1]
        /\ copies[j].sent > 0
        /\ runs[j] = 2 \/ runs'[j] = runs[j] + 1
    BY <1>1, <1>4 DEF MarkRunning
  <2>2. row[j].state = "active" /\ copies[j].sent = 1 /\ copies[j].working = 0 /\ runs[j] = 0
    BY <1>1, <2>1 DEF OneShotInv, Copies
  <2>3. row'[j].state = "running" /\ copies'[j].sent = 0 /\ copies'[j].working = 1 /\ runs'[j] = 1
    BY <1>1, <2>1, <2>2 DEF Row
  <2>4. QED
    BY <2>3 DEF OneShotInv
<1>5. CASE i = j /\ MarkFails(j)
  <2>1. copies'[j] = [copies[j] EXCEPT !.sent = @ - 1] /\ copies[j].sent > 0
        /\ row'[j] = row[j] /\ runs'[j] = runs[j]
    BY <1>1, <1>5 DEF MarkFails
  <2>2. copies'[j].sent = 0 /\ copies'[j].working = copies[j].working
    BY <1>1, <2>1 DEF OneShotInv, Copies
  <2>3. QED
    BY <1>1, <1>2, <2>1, <2>2 DEF OneShotInv
<1>6. CASE i = j /\ (End(j) \/ EndFails(j))
  <2>1. /\ copies'[j] = [copies[j] EXCEPT !.working = @ - 1] /\ copies[j].working > 0
        /\ runs'[j] = runs[j]
        /\ row'[j] = row[j] \/ row'[j] = [row[j] EXCEPT !.state = "done", !.fresh = FALSE]
    BY <1>1, <1>6 DEF End, EndFails, Done
  <2>2. copies[j].working = 1 /\ row[j].state = "running" /\ copies[j].sent = 0 /\ runs[j] = 1
    BY <1>1, <2>1 DEF OneShotInv, Copies
  <2>3. copies'[j].working = 0 /\ copies'[j].sent = 0
    BY <1>1, <2>1, <2>2 DEF Copies
  <2>4. row'[j].state \in {"running", "done"}
    BY <1>1, <2>1, <2>2 DEF Row
  <2>5. QED
    BY <2>1, <2>2, <2>3, <2>4 DEF OneShotInv
<1>7. QED
  BY <1>3, <1>4, <1>5, <1>6 DEF Goroutine

\* Time passes only once the jobs that were sent have reached the database.
LEMMA TickQueue ==
    ASSUME QueueInv, Tick, OneShots \cap Slow = {}, NEW j \in OneShots
    PROVE  OneShotInv(j)'
<1>1. /\ row[j] \in Row /\ copies[j] \in Copies /\ j \in Jobs /\ OneShotInv(j)
      /\ copies[j].sent \in Nat
  BY QueueParts DEF QueueInv
<1>2. copies[j].sent = 0
  BY <1>1 DEF Tick, OneShotInv
<1>3. row'[j].state = row[j].state
  BY <1>1 DEF Tick, Row
<1>4. copies' = copies /\ runs' = runs
  BY DEF Tick
<1>5. QED
  BY <1>1, <1>2, <1>3, <1>4 DEF OneShotInv

LEMMA ProcessQueue ==
    ASSUME QueueInv, ActivateRefreshVoteStateJob \/ StartRunner \/ Stop \/ UNCHANGED vars,
           NEW j \in OneShots
    PROVE  OneShotInv(j)'
<1>1. /\ row \in [Jobs -> Row] /\ copies \in [Jobs -> Copies]
      /\ copies[j] \in Copies /\ j \in Jobs /\ j # Refresh /\ OneShotInv(j)
      /\ copies[j].sent \in Nat /\ copies[j].working \in Nat
  BY QueueParts DEF QueueInv
<1>2. row'[j] = row[j] /\ runs' = runs
  BY <1>1 DEF ActivateRefreshVoteStateJob, StartRunner, Stop, vars
<1>3. CASE Stop
  <2>1. copies'[j].sent = 0 /\ copies'[j].working = 0
    BY <1>1, <1>3 DEF Stop, Idle
  <2>2. QED
    BY <1>1, <1>2, <2>1 DEF OneShotInv
<1>4. CASE StartRunner
  <2>1. copies[j].sent = 0 /\ copies' = copies
    BY <1>1, <1>4 DEF StartRunner, OneShotInv
  <2>2. QED
    BY <1>1, <1>2, <2>1 DEF OneShotInv
<1>5. CASE ActivateRefreshVoteStateJob \/ UNCHANGED vars
  BY <1>1, <1>2, <1>5, LeftAlone DEF ActivateRefreshVoteStateJob, vars, Copies
<1>6. QED
  BY <1>3, <1>4, <1>5

LEMMA QueueStep ==
    ASSUME OneShots \cap Slow = {}
    PROVE  QueueInv /\ [Next]_vars => QueueInv'
<1> SUFFICES ASSUME QueueInv, [Next]_vars, NEW j \in OneShots PROVE OneShotInv(j)'
  BY TypeStep DEF QueueInv
<1>1. QED
  BY CreateJobQueue, ScanQueue, GoroutineQueue, TickQueue, ProcessQueue DEF Next

LEMMA QueueInit == Init => QueueInv
<1> SUFFICES ASSUME Init, NEW j \in OneShots PROVE OneShotInv(j)
  BY InitTypeOK DEF QueueInv
<1>1. j \in Jobs /\ j # Refresh
  BY DEF Jobs
<1>2. row[j].state = "none" /\ copies[j].sent = 0 /\ copies[j].working = 0 /\ runs[j] = 0
  BY <1>1 DEF Init, Idle
<1>3. QED
  BY <1>2 DEF OneShotInv

\* What the steps of the runner are to the queue.
LEMMA StatusKept ==
    ASSUME NEW j \in OneShots, row'[j] = row[j], runs'[j] = runs[j]
    PROVE  Status(j)' = Status(j) /\ row'[j].due = row[j].due
BY DEF Status

LEMMA CreateJobAdds ==
    ASSUME QueueInv, NEW i \in OneShots, CreateJob(i)
    PROVE  Queue!Add(i)
<1>1. row \in [Jobs -> Row] /\ OneShots \subseteq Jobs /\ OneShotInv(i) /\ runs' = runs
  BY QueueParts DEF QueueInv, CreateJob
<1>2. PICK t \in 0..MaxWait : row' = [row EXCEPT ![i] = [state |-> "active", due |-> t, fresh |-> TRUE]]
  BY DEF CreateJob
<1>3. row[i].state = "none" /\ runs[i] = 0 /\ Status(i) = "none"
  BY <1>1 DEF CreateJob, OneShotInv, Status
<1>4. row'[i].state = "active" /\ row'[i].due = t /\ Status(i)' = "waiting"
  BY <1>1, <1>2, <1>3 DEF Status
<1>5. ASSUME NEW j \in OneShots, j # i
      PROVE  Status(j)' = Status(j) /\ row'[j].due = row[j].due
  BY <1>1, <1>2, <1>5, StatusKept
<1>6. [j \in OneShots |-> Status(j)]' = [[j \in OneShots |-> Status(j)] EXCEPT ![i] = "waiting"]
  BY <1>4, <1>5
<1>7. [j \in OneShots |-> row[j].due]' = [[j \in OneShots |-> row[j].due] EXCEPT ![i] = t]
  BY <1>4, <1>5
<1>8. QED
  BY <1>3, <1>6, <1>7 DEF Queue!Add

\* The scan refuses the unknown jobs that are due, and is no step of the queue otherwise.
LEMMA ScanRefuses ==
    ASSUME QueueInv, ScanTaskPool
    PROVE  Queue!Refuse \/ UNCHANGED Queue!qvars
<1> DEFINE R == {j \in OneShots : j \in Unknown /\ IsDue(j)}
<1>1. ASSUME NEW j \in OneShots
      PROVE  /\ row[j] \in Row /\ j \in Jobs /\ OneShotInv(j) /\ runs' = runs
             /\ row'[j] = IF j \in R THEN [row[j] EXCEPT !.state = "terminated", !.fresh = FALSE] ELSE row[j]
  BY QueueParts DEF QueueInv, ScanTaskPool
<1>2. ASSUME NEW j \in R
      PROVE  /\ row[j].due < Interval /\ Status(j) = "waiting"
             /\ Status(j)' = "refused" /\ row'[j].due = row[j].due
  <2>1. row[j].state = "active" /\ row[j].due < Interval
    <3>1. row[j] \in Row /\ IsDue(j)
      BY <1>1
    <3>2. row[j].due \in Int
      BY <3>1, RowFields DEF Dues
    <3>3. QED
      BY <3>1, <3>2, TimeFacts DEF IsDue
  <2>2. runs[j] = 0
    BY <1>1, <2>1 DEF OneShotInv
  <2>3. row'[j].state = "terminated" /\ row'[j].due = row[j].due
    BY <1>1 DEF Row
  <2>4. QED
    BY <2>1, <2>2, <2>3 DEF Status
<1>3. ASSUME NEW j \in OneShots, j \notin R
      PROVE  Status(j)' = Status(j) /\ row'[j].due = row[j].due
  BY <1>1, <1>3, StatusKept
<1> HIDE DEF R
<1>4. R \subseteq OneShots
  BY DEF R
<1>5. [j \in OneShots |-> row[j].due]' = [j \in OneShots |-> row[j].due]
  BY <1>2, <1>3, <1>4
<1>6. [j \in OneShots |-> Status(j)]' =
        [j \in OneShots |-> IF j \in R THEN "refused" ELSE [i \in OneShots |-> Status(i)][j]]
  BY <1>2, <1>3, <1>4
<1>7. CASE R = {}
  <2>1. [j \in OneShots |-> Status(j)]' = [j \in OneShots |-> Status(j)]
    BY <1>6, <1>7
  <2>2. QED
    BY <1>5, <2>1 DEF Queue!qvars
<1>8. CASE R # {}
  <2>1. \A j \in R : [i \in OneShots |-> Status(i)][j] = "waiting" /\ [i \in OneShots |-> row[i].due][j] < Interval
    BY <1>2, <1>4
  <2>2. QED
    BY <1>4, <1>5, <1>6, <1>8, <2>1 DEF Queue!Refuse
<1>9. QED
  BY <1>7, <1>8

\* A goroutine begins and ends its job.
LEMMA GoroutineBegins ==
    ASSUME QueueInv, NEW i \in Jobs, Goroutine(i)
    PROVE  \/ UNCHANGED Queue!qvars
           \/ i \in OneShots /\ (Queue!Begin(i) \/ Queue!Finish(i))
<1>1. /\ row \in [Jobs -> Row] /\ copies \in [Jobs -> Copies] /\ runs \in [OneShots -> 0..2]
      /\ OneShots \subseteq Jobs /\ Refresh \notin OneShots
  BY QueueParts DEF QueueInv
<1>2. ASSUME NEW j \in OneShots, j # i
      PROVE  Status(j)' = Status(j) /\ row'[j].due = row[j].due
  <2>1. row'[j] = row[j] /\ runs'[j] = runs[j]
    BY <1>1, <1>2 DEF Goroutine, MarkRunning, MarkFails, End, EndFails
  <2>2. QED
    BY <2>1, StatusKept
<1>3. CASE MarkFails(i) \/ EndFails(i) \/ i \notin OneShots
  <2>1. ASSUME NEW j \in OneShots
        PROVE  Status(j)' = Status(j) /\ row'[j].due = row[j].due
    <3>1. CASE j # i
      BY <1>2, <3>1
    <3>2. CASE j = i
      BY <1>3, <3>2, StatusKept DEF MarkFails, EndFails
    <3>3. QED
      BY <3>1, <3>2
  <2>2. QED
    BY <2>1 DEF Queue!qvars
<1>4. ASSUME i \in OneShots, NEW before, NEW after, Status(i) = before, Status(i)' = after,
             row'[i].due = row[i].due
      PROVE  /\ [j \in OneShots |-> Status(j)]' = [[j \in OneShots |-> Status(j)] EXCEPT ![i] = after]
             /\ [j \in OneShots |-> row[j].due]' = [j \in OneShots |-> row[j].due]
             /\ [j \in OneShots |-> Status(j)][i] = before
             /\ [j \in OneShots |-> row[j].due][i] = row[i].due
  BY <1>2, <1>4
<1>5. CASE i \in OneShots /\ MarkRunning(i)
  <2>1. row[i] \in Row /\ copies[i] \in Copies /\ OneShotInv(i)
    BY <1>1, <1>5 DEF QueueInv
  <2>2. copies[i].sent > 0 /\ row'[i] = [row[i] EXCEPT !.state = "running"]
        /\ (runs[i] # 2 => runs'[i] = runs[i] + 1)
    BY <1>1, <1>5 DEF MarkRunning
  <2>3. row[i].state = "active" /\ row[i].due < Interval /\ runs[i] = 0 /\ runs'[i] = 1
    BY <2>1, <2>2 DEF OneShotInv
  <2>4. row'[i].state = "running" /\ row'[i].due = row[i].due
    BY <2>1, <2>2 DEF Row
  <2>5. Status(i) = "waiting" /\ Status(i)' = "begun"
    BY <2>3, <2>4 DEF Status
  <2>6. QED
    BY <1>4, <1>5, <2>3, <2>4, <2>5 DEF Queue!Begin
<1>6. CASE i \in OneShots /\ End(i)
  <2>1. row[i] \in Row /\ copies[i] \in Copies /\ OneShotInv(i)
    BY <1>1, <1>6 DEF QueueInv
  <2>2. copies[i].working > 0 /\ row'[i] = [row[i] EXCEPT !.state = "done", !.fresh = FALSE]
        /\ runs' = runs
    BY <1>1, <1>6 DEF End, Done
  <2>3. row[i].state = "running" /\ runs[i] = 1
    BY <2>1, <2>2 DEF OneShotInv
  <2>4. row'[i].state = "done" /\ row'[i].due = row[i].due
    BY <2>1, <2>2 DEF Row
  <2>5. Status(i) = "begun" /\ Status(i)' = "ended"
    BY <2>2, <2>3, <2>4 DEF Status
  <2>6. QED
    BY <1>4, <1>6, <2>4, <2>5 DEF Queue!Finish
<1>7. QED
  BY <1>3, <1>5, <1>6 DEF Goroutine

LEMMA TickPasses ==
    ASSUME QueueInv, Tick
    PROVE  Queue!TimePasses
<1>1. ASSUME NEW j \in OneShots
      PROVE  /\ row[j] \in Row /\ j \in Jobs /\ runs' = runs
             /\ row'[j] = IF row[j].state = "none" THEN row[j] ELSE [row[j] EXCEPT !.due = Later(row[j].due)]
  BY QueueParts DEF QueueInv, Tick
<1>2. ASSUME NEW j \in OneShots
      PROVE  /\ row'[j].state = row[j].state
             /\ row'[j].due = IF row[j].state = "none" THEN row[j].due ELSE Later(row[j].due)
  BY <1>1 DEF Row
<1>3. ASSUME NEW j \in OneShots
      PROVE  Status(j)' = Status(j) /\ (Status(j) = "none" <=> row[j].state = "none")
  BY <1>1, <1>2 DEF Status
<1>4. \A t : Queue!Later(t) = Later(t)
  BY DEF Later, Queue!Later
<1>5. [j \in OneShots |-> Status(j)]' = [j \in OneShots |-> Status(j)]
  BY <1>3
<1>6. [j \in OneShots |-> row[j].due]' =
        [j \in OneShots |-> IF [i \in OneShots |-> Status(i)][j] = "none" THEN [i \in OneShots |-> row[i].due][j]
                            ELSE Queue!Later([i \in OneShots |-> row[i].due][j])]
  BY <1>2, <1>3, <1>4
<1>7. QED
  BY <1>5, <1>6 DEF Queue!TimePasses

LEMMA ProcessStutters ==
    ASSUME QueueInv, ActivateRefreshVoteStateJob \/ StartRunner \/ Stop \/ UNCHANGED vars
    PROVE  UNCHANGED Queue!qvars
<1>1. row \in [Jobs -> Row] /\ OneShots \subseteq Jobs /\ Refresh \notin OneShots
  BY QueueParts DEF QueueInv
<1>2. ASSUME NEW j \in OneShots
      PROVE  Status(j)' = Status(j) /\ row'[j].due = row[j].due
  <2>1. row'[j] = row[j] /\ runs'[j] = runs[j]
    BY <1>1 DEF ActivateRefreshVoteStateJob, StartRunner, Stop, vars
  <2>2. QED
    BY <2>1, StatusKept
<1>3. QED
  BY <1>2 DEF Queue!qvars

LEMMA QueueSimulation == QueueInv /\ [Next]_vars => [Queue!QNext]_(Queue!qvars)
<1> SUFFICES ASSUME QueueInv, [Next]_vars PROVE Queue!QNext \/ UNCHANGED Queue!qvars
  OBVIOUS
<1>1. ASSUME NEW i \in OneShots, CreateJob(i) PROVE Queue!QNext
  BY <1>1, CreateJobAdds DEF Queue!QNext
<1>2. ASSUME NEW i \in Jobs, Goroutine(i) PROVE Queue!QNext \/ UNCHANGED Queue!qvars
  BY <1>2, GoroutineBegins DEF Queue!QNext
<1>3. CASE ScanTaskPool
  BY <1>3, ScanRefuses DEF Queue!QNext
<1>4. CASE Tick
  BY <1>4, TickPasses DEF Queue!QNext
<1>5. QED
  BY <1>1, <1>2, <1>3, <1>4, ProcessStutters DEF Next

LEMMA QueueStart == Init => Queue!QInit
<1> SUFFICES ASSUME Init PROVE Queue!QInit
  OBVIOUS
<1>1. ASSUME NEW j \in OneShots PROVE Status(j) = "none" /\ row[j].due = 0
  BY <1>1 DEF Init, Status, Jobs
<1>2. QED
  BY <1>1 DEF Queue!QInit

\* A job that is to be done once is begun at most once and no earlier than one scan before
\* it is due, over restarts and failing updates of its row: the runner implements the
\* queue, for jobs whose goroutine reaches the database before the next scan.
THEOREM RunnerImplementsQueue ==
    ASSUME OneShots \cap Slow = {}
    PROVE  Spec => ImplementsQueue
<1>1. Init => QueueInv /\ Queue!QInit
  BY QueueInit, QueueStart
<1>2. QueueInv /\ [Next]_vars => QueueInv' /\ [Queue!QNext]_(Queue!qvars)
  BY QueueStep, QueueSimulation
<1>3. QED
  BY <1>1, <1>2, PTL DEF Spec, ImplementsQueue, Queue!QSpec
====
