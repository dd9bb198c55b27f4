---- MODULE Publicity ----
(***************************************************************************)
(* Announcements of the city hall: drafts, published ones with the season  *)
(* they appeared in, deletion by a flag.  A request first looks its row up *)
(* and then updates it, in two statements; several requests may do so.     *)
(*                                                                         *)
(* notices   the rows, in the order of their ids                           *)
(* editing   per request: what it is about to write, and where             *)
(* now       index of the current season                                   *)
(* edits     the log of edits of published announcements                   *)
(***************************************************************************)
EXTENDS Integers, Sequences

CONSTANTS
    Texts,          \* contents
    Editors,        \* requests in flight
    MaxNotices,     \* bound: rows
    MaxSeason       \* bound: seasons

VARIABLES notices, editing, now, edits
vars == <<notices, editing, now, edits>>

Ready == [op |-> "ready", id |-> 0, text |-> "", season |-> 0]
Notice(text, draft, season) ==
    [text |-> text, draft |-> draft, season |-> season, deleted |-> FALSE]

Init ==
    /\ notices = << >>
    /\ editing = [e \in Editors |-> Ready]
    /\ now = 1
    /\ edits = {}

IsDraft(i) == notices[i].draft /\ ~notices[i].deleted

M_StillDraft(i) == TRUE
\* The update repeats the condition of the lookup.
StillDraft(i) == IsDraft(i)

\* Create without an id: a draft, which has no season yet, or a published announcement.
CreateDraft(text) ==
    /\ Len(notices) < MaxNotices
    /\ notices' = Append(notices, Notice(text, TRUE, 0))
    /\ UNCHANGED <<editing, now, edits>>

CreatePublished(text) ==
    /\ Len(notices) < MaxNotices
    /\ notices' = Append(notices, Notice(text, FALSE, now))
    /\ UNCHANGED <<editing, now, edits>>

\* Create with the id of a draft, to save it or to publish it, in the season it read.
BeginDraft(e, op, i, text) ==
    /\ editing[e] = Ready
    /\ IsDraft(i)
    /\ editing' = [editing EXCEPT ![e] = [op |-> op, id |-> i, text |-> text, season |-> now]]
    /\ UNCHANGED <<notices, now, edits>>

SaveDraft(e) ==
    /\ editing[e].op = "save"
    /\ notices' = IF StillDraft(editing[e].id)
                  THEN [notices EXCEPT ![editing[e].id].text = editing[e].text] ELSE notices
    /\ editing' = [editing EXCEPT ![e] = Ready]
    /\ UNCHANGED <<now, edits>>

Publish(e) ==
    /\ editing[e].op = "publish"
    /\ notices' = IF StillDraft(editing[e].id)
                  THEN [notices EXCEPT ![editing[e].id] =
                          Notice(editing[e].text, FALSE, editing[e].season)]
                  ELSE notices
    /\ editing' = [editing EXCEPT ![e] = Ready]
    /\ UNCHANGED <<now, edits>>

\* One conditional statement: a draft, or an announcement of the current season.
Delete(i) ==
    /\ ~notices[i].deleted
    /\ notices[i].draft \/ notices[i].season = now
    /\ notices' = [notices EXCEPT ![i].deleted = TRUE]
    /\ UNCHANGED <<editing, now, edits>>

\* An announcement of the current season is looked up, and then updated by its id alone.
BeginUpdate(e, i, text) ==
    /\ editing[e] = Ready
    /\ ~notices[i].deleted /\ notices[i].season = now
    /\ editing' = [editing EXCEPT ![e] = [op |-> "update", id |-> i, text |-> text, season |-> now]]
    /\ UNCHANGED <<notices, now, edits>>

Update(e) ==
    /\ editing[e].op = "update"
    /\ notices' = [notices EXCEPT ![editing[e].id].text = editing[e].text]
    /\ editing' = [editing EXCEPT ![e].op = "log"]
    /\ UNCHANGED <<now, edits>>

\* The log entry of the edit; when it cannot be written the edit stays, without one.
LogEdit(e) ==
    /\ editing[e].op = "log"
    /\ edits' \in {edits, edits \union {editing[e].id}}
    /\ editing' = [editing EXCEPT ![e] = Ready]
    /\ UNCHANGED <<notices, now>>

Fail(e) ==
    /\ editing[e] # Ready
    /\ editing' = [editing EXCEPT ![e] = Ready]
    /\ UNCHANGED <<notices, now, edits>>

NextSeason ==
    /\ now < MaxSeason
    /\ now' = now + 1
    /\ UNCHANGED <<notices, editing, edits>>

Next ==
    \/ \E text \in Texts : CreateDraft(text) \/ CreatePublished(text)
    \/ \E e \in Editors, i \in DOMAIN notices, text \in Texts :
         (\E op \in {"save", "publish"} : BeginDraft(e, op, i, text)) \/ BeginUpdate(e, i, text)
    \/ \E e \in Editors : SaveDraft(e) \/ Publish(e) \/ Update(e) \/ LogEdit(e) \/ Fail(e)
    \/ \E i \in DOMAIN notices : Delete(i)
    \/ NextSeason

TypeOK ==
    /\ now \in 1..MaxSeason /\ edits \subseteq DOMAIN notices
    /\ \A i \in DOMAIN notices : notices[i] \in
         [text : Texts, draft : BOOLEAN, season : 0..MaxSeason, deleted : BOOLEAN]
    /\ \A e \in Editors : editing[e].id \in {0} \union DOMAIN notices

\* Whatever requests race, a published announcement stays published in the season it
\* appeared in, its text changes only by an edit of that announcement, never by a draft
\* that is saved late; and one that was deleted stays so, as a draft if it was one.
KeepsPublished ==
    \A i \in DOMAIN notices :
        /\ notices[i].deleted => notices'[i].deleted /\ notices'[i].draft = notices[i].draft
        /\ ~notices[i].draft =>
             /\ ~notices'[i].draft /\ notices'[i].season = notices[i].season
             /\ notices'[i].text # notices[i].text =>
                  \E e \in Editors : editing[e].op = "update" /\ editing[e].id = i
                                       /\ editing'[e].op = "log"

====
