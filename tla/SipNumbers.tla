---- MODULE SipNumbers ----
(***************************************************************************)
(* How proposals get their SIP numbers when their votes open.  A proposal  *)
(* has a lock of its own, so two proposals, or a request and the job       *)
(* runner (which has another table of locks), may number at the same time: *)
(* the maximum is read in one statement and written in another, under      *)
(* READ COMMITTED.                                                         *)
(*                                                                         *)
(* proposals  per proposal: state and SIP, 0 is none                       *)
(* numbering  per process: the proposal, the state it read, its number     *)
(* collided   proposals numbered while another was (history)               *)
(***************************************************************************)
EXTENDS Integers, FiniteSetsExt

CONSTANTS
    Numbered,       \* proposals
    Made,           \* the one that made a project and has SIP 1
    Closers,        \* those that close that project
    Openers         \* processes that open votes

VARIABLES proposals, numbering, collided
vars == <<proposals, numbering, collided>>

Free == [proposal |-> "", step |-> "free", state |-> "", sip |-> 0]
SipStates == {"approved", "voting", "executed", "withdrawn"}
Highest == Max({proposals[p].sip : p \in Numbered})

Init ==
    /\ proposals = [p \in Numbered |-> IF p = Made THEN [state |-> "executed", sip |-> 1]
                                       ELSE [state |-> "approved", sip |-> 0]]
    /\ numbering = [o \in Openers |-> Free]
    /\ collided = {}

\* The poll is open: a proposal without a number, neither final nor voting, is read again
\* by SetProposalSip.
SetProposalSip(o, p) ==
    /\ numbering[o] = Free
    /\ proposals[p].sip = 0
    /\ proposals[p].state = "approved"
    /\ numbering' = [numbering EXCEPT ![o] =
         [proposal |-> p, step |-> "number", state |-> proposals[p].state, sip |-> 0]]
    /\ UNCHANGED <<proposals, collided>>

\* A proposal that closes a project takes the number of the one that made it, any other
\* one the next after the highest committed.
NumberFor(p) == IF p \in Closers THEN proposals[Made].sip ELSE Highest + 1

Chosen == {o \in Openers : numbering[o].step = "write"}

ReadNumber(o) ==
    /\ numbering[o].step = "number"
    /\ numbering' = [numbering EXCEPT ![o].step = "write",
                                      ![o].sip = NumberFor(numbering[o].proposal)]
    /\ collided' = IF Chosen = {} THEN collided
                   ELSE collided \union {numbering[o].proposal}
                                 \union {numbering[c].proposal : c \in Chosen}
    /\ UNCHANGED proposals

M_Unnumbered(p, state) == TRUE
\* The update names the state that was read and a SIP that is 0; no row is an error.
Unnumbered(p, state) == proposals[p].state = state /\ proposals[p].sip = 0

WriteNumber(o) ==
    /\ numbering[o].step = "write"
    /\ proposals' =
         IF Unnumbered(numbering[o].proposal, numbering[o].state)
         THEN [proposals EXCEPT ![numbering[o].proposal] =
                 [state |-> "voting", sip |-> numbering[o].sip]]
         ELSE proposals
    /\ numbering' = [numbering EXCEPT ![o] = Free]
    /\ UNCHANGED collided

Withdraw(p) ==
    /\ proposals[p].state = "approved"
    /\ proposals' = [proposals EXCEPT ![p].state = "withdrawn"]
    /\ UNCHANGED <<numbering, collided>>

Abandon(o) ==
    /\ numbering[o] # Free
    /\ numbering' = [numbering EXCEPT ![o] = Free]
    /\ UNCHANGED <<proposals, collided>>

Next ==
    \/ \E o \in Openers, p \in Numbered : SetProposalSip(o, p)
    \/ \E o \in Openers : ReadNumber(o) \/ WriteNumber(o) \/ Abandon(o)
    \/ \E p \in Numbered : Withdraw(p)

TypeOK ==
    /\ \A p \in Numbered : proposals[p].state \in SipStates /\ proposals[p].sip \in Nat
    /\ \A o \in Openers : numbering[o].step \in {"free", "number", "write"}

\* The numbers that were given out leave no gap, whichever processes race, withdraw or
\* fail; and two proposals have the same one only when they were numbered together, or
\* when one closes the project of the other.
SipsAreDense ==
    /\ \A n \in 1..Highest : \E p \in Numbered : proposals[p].sip = n
    /\ \A p, q \in Numbered \ (Closers \union collided) :
         proposals[p].sip # 0 /\ proposals[p].sip = proposals[q].sip => p = q

====
