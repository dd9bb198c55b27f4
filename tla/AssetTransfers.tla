---- MODULE AssetTransfers ----
(***************************************************************************)
(* Transfers of one asset between users (AssetRecordsService).  A transfer *)
(* is one transaction under READ COMMITTED: it locks and checks the record *)
(* of the sender, takes the amount off, looks for a record of the receiver *)
(* and either adds the amount or creates the record.  No index keeps a     *)
(* user to one record.                                                     *)
(*                                                                         *)
(* records    committed rows, in the order of their ids                    *)
(* transfers  committed transfer logs                                      *)
(* tx         per request: its step, and the writes its commit will show   *)
(* raced      receivers whose first payments overlapped (history)          *)
(***************************************************************************)
EXTENDS Integers, SequencesExt

CONSTANTS
    Wallets,        \* users
    Opening,        \* the records at the start, a sequence of rows
    Amounts,        \* amounts of a transfer
    Payments,       \* requests that may be in flight together
    MaxTransfers    \* bound: committed transfers

VARIABLES records, transfers, tx, raced
vars == <<records, transfers, tx, raced>>

Row(w, dealt, processing) == [wallet |-> w, dealt |-> dealt, processing |-> processing]

\* debits and credits are the rows the amount is taken off and added to, saves the rows
\* written whole from what was read of them, first that no record was found at first.
NoTx == [step |-> "idle", from |-> "", to |-> "", amount |-> 0, first |-> FALSE,
         debits |-> {}, credits |-> {}, saves |-> {}, read |-> Row("", 0, 0)]

RowsOf(w) == {i \in DOMAIN records : records[i].wallet = w}
FirstOf(w) == Min(RowsOf(w))

\* A row that another transaction locked or wrote and has not committed.
Held(t, i) == \E u \in Payments \ {t} : i \in tx[u].debits \union tx[u].credits \union tx[u].saves

Init ==
    /\ records = Opening
    /\ transfers = << >>
    /\ tx = [t \in Payments |-> NoTx]
    /\ raced = {}

----

M_Checked(t, w, amount) == RowsOf(w) # {} /\ records[FirstOf(w)].dealt >= amount
\* SELECT ... FOR UPDATE NOWAIT: no record, a record in use and a balance that is too
\* small are errors, which undo the whole transaction with its log.
Checked(t, w, amount) ==
    /\ RowsOf(w) # {}
    /\ ~Held(t, FirstOf(w))
    /\ records[FirstOf(w)].dealt >= amount

LockSender(t, from, to, amount) ==
    /\ tx[t].step = "idle"
    /\ Len(transfers) < MaxTransfers
    /\ from # to
    /\ Checked(t, from, amount)
    /\ tx' = [tx EXCEPT ![t] = [NoTx EXCEPT !.step = "checked", !.from = from, !.to = to,
                                            !.amount = amount, !.debits = {FirstOf(from)}]]
    /\ UNCHANGED <<records, transfers, raced>>

\* The amount is taken off every record of the sender, after those in use are free.
Debit(t) ==
    /\ tx[t].step = "checked"
    /\ \A i \in RowsOf(tx[t].from) : ~Held(t, i)
    /\ tx' = [tx EXCEPT ![t].step = "debited", ![t].debits = RowsOf(tx[t].from)]
    /\ UNCHANGED <<records, transfers, raced>>

FindReceiver(t) ==
    /\ tx[t].step = "debited"
    /\ IF RowsOf(tx[t].to) = {}
       THEN /\ tx' = [tx EXCEPT ![t].step = "absent", ![t].first = TRUE]
            /\ raced' = raced \union {tx[u].to : u \in {v \in Payments \ {t} :
                                         tx[v].first /\ tx[v].to = tx[t].to}}
       ELSE tx' = [tx EXCEPT ![t].step = "present"] /\ UNCHANGED raced
    /\ UNCHANGED <<records, transfers>>

M_Credit(t) ==
    /\ tx[t].step = "present"
    /\ tx' = [tx EXCEPT ![t].step = "written", ![t].saves = {FirstOf(tx[t].to)},
                        ![t].read = [records[FirstOf(tx[t].to)] EXCEPT !.dealt = @ + tx[t].amount]]
    /\ UNCHANGED <<records, transfers, raced>>
\* A relative update of every record of the receiver, after those in use are free.
Credit(t) ==
    /\ tx[t].step = "present"
    /\ \A i \in RowsOf(tx[t].to) : ~Held(t, i)
    /\ tx' = [tx EXCEPT ![t].step = "written", ![t].credits = RowsOf(tx[t].to)]
    /\ UNCHANGED <<records, transfers, raced>>

\* CreateOrUpdate looks again.  Still none: a row with the amount in processing.  One by
\* now: read, to be saved whole.  More: an error.
CreateOrUpdate(t) ==
    /\ tx[t].step = "absent"
    /\ \/ /\ RowsOf(tx[t].to) = {}
          /\ tx' = [tx EXCEPT ![t].step = "written", ![t].read = Row(tx[t].to, 0, tx[t].amount)]
       \/ \E i \in RowsOf(tx[t].to) :
            /\ RowsOf(tx[t].to) = {i}
            /\ tx' = [tx EXCEPT ![t].step = "save",
                                ![t].read = [records[i] EXCEPT !.processing = @ + tx[t].amount]]
       \/ /\ \E i, j \in RowsOf(tx[t].to) : i # j
          /\ tx' = [tx EXCEPT ![t] = NoTx]
    /\ UNCHANGED <<records, transfers, raced>>

\* The whole row as it was read, whatever was added to it since.
SaveReceiver(t) ==
    /\ tx[t].step = "save"
    /\ ~Held(t, FirstOf(tx[t].to))
    /\ tx' = [tx EXCEPT ![t].step = "written", ![t].saves = {FirstOf(tx[t].to)}]
    /\ UNCHANGED <<records, transfers, raced>>

Written(t, i) ==
    IF i \in tx[t].debits THEN [records[i] EXCEPT !.dealt = @ - tx[t].amount]
    ELSE IF i \in tx[t].credits THEN [records[i] EXCEPT !.dealt = @ + tx[t].amount]
    ELSE IF i \in tx[t].saves THEN tx[t].read
    ELSE records[i]

Created(t) == IF tx[t].credits \union tx[t].saves = {} THEN <<tx[t].read>> ELSE << >>

Commit(t) ==
    /\ tx[t].step = "written"
    /\ records' = [i \in DOMAIN records |-> Written(t, i)] \o Created(t)
    /\ transfers' = Append(transfers, [from |-> tx[t].from, to |-> tx[t].to,
                                       amount |-> tx[t].amount])
    /\ tx' = [tx EXCEPT ![t] = NoTx]
    /\ UNCHANGED raced

\* A statement fails, the database breaks a deadlock, or the process dies: nothing stays.
Rollback(t) ==
    /\ tx[t].step # "idle"
    /\ tx' = [tx EXCEPT ![t] = NoTx]
    /\ UNCHANGED <<records, transfers, raced>>

Next ==
    \E t \in Payments :
        \/ \E from, to \in Wallets, amount \in Amounts : LockSender(t, from, to, amount)
        \/ Debit(t)
        \/ FindReceiver(t)
        \/ Credit(t)
        \/ CreateOrUpdate(t)
        \/ SaveReceiver(t)
        \/ Commit(t)
        \/ Rollback(t)

----

TypeOK ==
    /\ \A i \in DOMAIN records : records[i] \in [wallet : Wallets, dealt : Int, processing : Nat]
    /\ \A t \in Payments :
         /\ tx[t].step \in {"idle", "checked", "debited", "absent", "present", "save", "written"}
         /\ tx[t].debits \union tx[t].credits \union tx[t].saves \subseteq DOMAIN records

\* What the committed logs brought a wallet, less what they took from it.
Net(w, logs) ==
    SumFunction([i \in DOMAIN logs |-> (IF logs[i].to = w THEN logs[i].amount ELSE 0)
                                         - (IF logs[i].from = w THEN logs[i].amount ELSE 0)])
Holding(w, rows) ==
    SumFunction([i \in DOMAIN rows |->
                   IF rows[i].wallet = w THEN rows[i].dealt + rows[i].processing ELSE 0])

\* The row lock on the sender is enough: however transfers interleave, a user whose first
\* payments did not overlap has one record, and it never goes below zero.
NoOverdraft ==
    \A w \in Wallets \ raced :
        /\ \A i, j \in RowsOf(w) : i = j
        /\ \A i \in RowsOf(w) : records[i].dealt >= 0

\* What a user holds is what the committed transfer logs add up to: only first payments
\* that overlap, which find no record both, can lose or double an amount.
BalanceFollowsLog ==
    \A w \in Wallets \ raced : Holding(w, records) = Holding(w, Opening) + Net(w, transfers)

====
