---- MODULE BudgetLedger ----
(***************************************************************************)
(* One row of a budget, of a project or a guild, and the requests that     *)
(* charge it, give back to it and edit its total.  Each one reads the row  *)
(* and writes amounts computed from what it read, in a transaction or two  *)
(* statements that lock nothing: a read and a write are two steps here.    *)
(*                                                                         *)
(* row      the budget; its owner never changes                            *)
(* charges  what each application took, 0 once it was given back           *)
(* request  per request: its step, its application or its amount, its row  *)
(* stale    an amount was written from a row that had changed since, or    *)
(*          given back twice (history)                                     *)
(* negative an amount below 0 was asked for, or a budget was made with an  *)
(*          advance below 0 (history); no handler refuses either           *)
(***************************************************************************)
EXTENDS Integers, Sequences, SequencesExt

CONSTANTS
    Clerks,         \* requests in flight
    Totals,         \* totals of a budget, new and edited
    Ratios,         \* parts paid in advance, in per cent
    Requested,      \* amounts asked for
    MaxCharges      \* bound: applications

VARIABLES row, charges, request, stale, negative
vars == <<row, charges, request, stale, negative>>

\* Rounded to a whole amount, halves away from 0.
AdvanceOf(total, ratio) ==
    IF total * ratio >= 0 THEN (total * ratio + 50) \div 100
                          ELSE -((50 - total * ratio) \div 100)

\* The budget of a project has a part paid in advance; that of a guild has none.
NewBudget(owner, total, ratio) ==
    LET advance == IF owner = "project" THEN AdvanceOf(total, ratio) ELSE 0
    IN  [owner |-> owner, ratio |-> ratio,
         total |-> total, used |-> 0, remain |-> total,
         totalAdvance |-> advance, usedAdvance |-> 0, remainAdvance |-> advance]

NoBudget == NewBudget("nobody", 0, 0)
Idle == [step |-> "idle"]
Init ==
    /\ row = NoBudget
    /\ charges = << >>
    /\ request = [c \in Clerks |-> Idle]
    /\ stale = FALSE
    /\ negative = FALSE

\* By the proposal that creates the project, with a part in advance or 0; by the city
\* hall, without; the rows of guilds are there.
CreateBudget(owner, total, ratio) ==
    /\ row = NoBudget
    /\ owner = "guild" => ratio = 0
    /\ row' = NewBudget(owner, total, ratio)
    /\ negative' = (negative \/ row'.totalAdvance < 0)
    /\ UNCHANGED <<charges, request, stale>>

Begin(c, q) == row # NoBudget /\ request[c] = Idle /\ request' = [request EXCEPT ![c] = q]
End(c) == request' = [request EXCEPT ![c] = Idle]

\* What a bundle may ask for: of a project the part paid in advance only.
Available == IF row.owner = "project" THEN row.remainAdvance ELSE row.remain

\* POST /app_bundles, before its transaction. The sign of the amount is not looked at.
BeginBundle(c, amount) ==
    /\ amount <= Available
    /\ Begin(c, [step |-> "charge", amount |-> amount])
    /\ negative' = (negative \/ amount < 0)
    /\ UNCHANGED <<row, charges, stale>>

\* An application is refused: its state is looked at before the transaction only.
BeginReject(c, i) ==
    /\ charges[i] # 0
    /\ Begin(c, [step |-> "refuse", app |-> i, amount |-> charges[i]])
    /\ UNCHANGED <<row, charges, stale, negative>>

\* The update of the total reads the row outside any transaction.
BeginEdit(c, total) ==
    /\ Begin(c, [step |-> "edit", total |-> total, read |-> row])
    /\ UNCHANGED <<row, charges, stale, negative>>

ReadBudget(c) ==
    /\ request[c].step \in {"charge", "refuse"}
    /\ request' = [request EXCEPT ![c] =
         [step |-> IF @.step = "charge" THEN "withdraw" ELSE "deposit", read |-> row,
          amount |-> @.amount, app |-> IF @.step = "refuse" THEN @.app ELSE 0]]
    /\ UNCHANGED <<row, charges, stale, negative>>

\* The part in advance is kept where the row has a ratio.
M_Shifted(read, amount) ==
    [row EXCEPT !.used = read.used + amount, !.remain = read.remain - amount]
\* The row after an amount went from remaining to used, in the columns that are written.
Shifted(read, amount) ==
    LET main == [row EXCEPT !.used = read.used + amount, !.remain = read.remain - amount]
    IN  IF read.ratio = 0 THEN main
        ELSE [main EXCEPT !.usedAdvance = read.usedAdvance + amount,
                          !.remainAdvance = read.remainAdvance - amount]

\* A budget that is too small now takes the bundle and its applications back (Fail).
WithdrawSingleAsset(c) ==
    LET q == request[c]
    IN  /\ q.step = "withdraw"
        /\ Len(charges) < MaxCharges
        /\ q.amount <= q.read.remain
        /\ q.read.ratio # 0 => q.amount <= q.read.remainAdvance
        /\ row' = Shifted(q.read, q.amount)
        /\ charges' = Append(charges, q.amount)
        /\ stale' = (stale \/ q.read # row)
        /\ End(c)
        /\ UNCHANGED negative

DepositSingleAsset(c) ==
    LET q == request[c]
    IN  /\ q.step = "deposit"
        /\ q.amount <= q.read.used
        /\ q.read.ratio # 0 => q.amount <= q.read.usedAdvance
        /\ row' = Shifted(q.read, -q.amount)
        /\ charges' = [charges EXCEPT ![q.app] = 0]
        /\ stale' = (stale \/ q.read # row \/ charges[q.app] = 0)
        /\ End(c)
        /\ UNCHANGED negative

\* The whole row that was read is saved; only a project's remaining amount follows.
UpdateBudget(c) ==
    LET q == request[c]
    IN  /\ q.step = "edit"
        /\ row' = [q.read EXCEPT !.total = q.total,
                     !.remain = IF q.read.owner = "project" THEN q.total - q.read.used ELSE @]
        /\ stale' = (stale \/ q.read # row)
        /\ End(c)
        /\ UNCHANGED <<charges, negative>>

\* A check or a statement fails, and the transaction rolls back.
Fail(c) ==
    /\ request[c] # Idle
    /\ End(c)
    /\ UNCHANGED <<row, charges, stale, negative>>

Next ==
    \/ \E owner \in {"project", "guild"}, total \in Totals, ratio \in Ratios :
         CreateBudget(owner, total, ratio)
    \/ \E c \in Clerks :
        \/ \E amount \in Requested : BeginBundle(c, amount)
        \/ \E i \in DOMAIN charges : BeginReject(c, i)
        \/ \E total \in Totals : BeginEdit(c, total)
        \/ ReadBudget(c) \/ WithdrawSingleAsset(c) \/ DepositSingleAsset(c)
        \/ UpdateBudget(c) \/ Fail(c)

Spec == Init /\ [][Next]_vars

TypeOK ==
    /\ row.total \in Totals \cup {0}
    /\ {row.used, row.remain, row.totalAdvance, row.usedAdvance, row.remainAdvance} \subseteq Int
    /\ Len(charges) <= MaxCharges

Charged == SumFunction(charges)

\* Whatever is written from a stale row, the part paid in advance stays split between used
\* and remaining, and a project with such a part uses the same amount in both places. While
\* no amount below 0 was accepted, a budget stays within its advance and a project's budget
\* without one is never charged; while no stale row was written and nothing was given back
\* twice, what is used is what the applications hold, and a project's amounts add up.
BudgetBalances ==
    /\ row.usedAdvance + row.remainAdvance = row.totalAdvance
    /\ row.owner = "project" /\ row.ratio # 0 => row.used = row.usedAdvance
    /\ ~negative => /\ row.usedAdvance >= 0 /\ row.remainAdvance >= 0
                    /\ row.owner = "project" => row.used = row.usedAdvance
    /\ ~stale => /\ row.used = Charged
                 /\ row.owner = "project" => row.used + row.remain = row.total

====
