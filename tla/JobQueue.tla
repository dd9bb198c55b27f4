---- MODULE JobQueue ----
(***************************************************************************)
(* What the task manager promises to those who leave it a job that is to   *)
(* be done once: it begins the job at most once, and no earlier than one   *)
(* scan before it is due.  It does not promise that a job that was begun   *)
(* ends, since a restart may come between.                                 *)
(***************************************************************************)
EXTENDS Integers

CONSTANTS OneShots, Interval, MaxWait

VARIABLES
    status,  \* status[j]: none, waiting, begun, ended, or refused as unknown
    wait     \* wait[j]: how long until job j is due; -1 is any time after that

qvars == <<status, wait>>

Later(t) == IF t > 0 THEN t - 1 ELSE -1

QInit ==
    /\ status = [j \in OneShots |-> "none"]
    /\ wait = [j \in OneShots |-> 0]

Add(j) ==
    /\ status[j] = "none"
    /\ status' = [status EXCEPT ![j] = "waiting"]
    /\ \E t \in 0..MaxWait : wait' = [wait EXCEPT ![j] = t]

Begin(j) ==
    /\ status[j] = "waiting" /\ wait[j] < Interval
    /\ status' = [status EXCEPT ![j] = "begun"]
    /\ UNCHANGED wait

Finish(j) ==
    /\ status[j] = "begun"
    /\ status' = [status EXCEPT ![j] = "ended"]
    /\ UNCHANGED wait

\* Several jobs may be refused by one scan.
Refuse ==
    /\ \E R \in SUBSET OneShots :
        /\ R # {} /\ \A j \in R : status[j] = "waiting" /\ wait[j] < Interval
        /\ status' = [j \in OneShots |-> IF j \in R THEN "refused" ELSE status[j]]
    /\ UNCHANGED wait

TimePasses ==
    /\ wait' = [j \in OneShots |-> IF status[j] = "none" THEN wait[j] ELSE Later(wait[j])]
    /\ UNCHANGED status

QNext == (\E j \in OneShots : Add(j) \/ Begin(j) \/ Finish(j)) \/ Refuse \/ TimePasses

QSpec == QInit /\ [][QNext]_qvars

====
