---------------------------- MODULE Notifications ----------------------------
(***************************************************************************)
(* The notifications a phone sends again and again (notification.rs): the  *)
(* tracker remembers what it has shown, least recently sent first, and     *)
(* shows what is new or has changed.  One packet is decided on and shown   *)
(* at a time.                                                              *)
(***************************************************************************)
EXTENDS SequencesExt, FiniteSetsExt

CONSTANTS
    Note,       \* the notifications there are: a phone and an id of its own
    Content,    \* what a user sees of one: application, title and text
    NoContent,
    Sent,       \* which contents the phones send of which notification
    MaxTracked  \* MAX_TRACKED_NOTIFICATIONS

ASSUME TrackedAssumption ==
    MaxTracked \in Nat \ {0} /\ NoContent \notin Content /\ Sent \subseteq Note \X Content

VARIABLES
    seen,    \* the history, by sequence number
    showing, \* what waits for the desktop to show it, under the lock
    last,    \* for the properties: what was last taken in of each notification
    since    \* for the properties: the others sent since then

noteVars == <<seen, showing, last, since>>

Entry == [note : Note, content : Content]

NoteTypeOK ==
    /\ seen \in Seq(Entry)
    /\ IsInjective([i \in DOMAIN seen |-> seen[i].note])
    /\ Len(seen) <= MaxTracked
    /\ showing \in {NoContent} \cup Entry
    /\ last \in [Note -> Content \cup {NoContent}]
    /\ since \in [Note -> SUBSET Note]

NoteInit ==
    /\ seen = <<>>
    /\ showing = NoContent
    /\ last = [n \in Note |-> NoContent]
    /\ since = [n \in Note |-> {}]

Tracked(n) == \E i \in DOMAIN seen : seen[i].note = n
Where(n) == CHOOSE i \in DOMAIN seen : seen[i].note = n
Without(n) == IF Tracked(n) THEN RemoveAt(seen, Where(n)) ELSE seen

\* Mutant of Evicted: the notification that was sent most recently goes.
EvictedNewest(n) == IF Tracked(n) \/ Len(seen) < MaxTracked THEN Without(n) ELSE Front(seen)

\* Room for one more: the notification that was sent least recently goes.
Evicted(n) == IF Tracked(n) \/ Len(seen) < MaxTracked THEN Without(n) ELSE Tail(seen)

\* should_display for a complete notification; a silent one is taken in only.
Received(n, content, silent) ==
    /\ showing = NoContent
    /\ seen' = Append(Evicted(n), [note |-> n, content |-> content])
    /\ showing' = IF silent \/ Contains(seen, [note |-> n, content |-> content])
                  THEN NoContent ELSE [note |-> n, content |-> content]
    /\ last' = [last EXCEPT ![n] = content]
    /\ since' = [k \in Note |-> IF k = n \/ last[k] = NoContent THEN {} ELSE since[k] \cup {n}]

\* is_cancel: its id may be used again.
Cancelled(n) ==
    /\ showing = NoContent
    /\ seen' = Without(n)
    /\ last' = [last EXCEPT ![n] = NoContent]
    /\ since' = [since EXCEPT ![n] = {}]
    /\ UNCHANGED showing

Shown ==
    /\ showing # NoContent
    /\ showing' = NoContent
    /\ UNCHANGED <<seen, last, since>>

\* Mutant of ShowFails: the history keeps what nobody saw.
ShowFailsUnnoticed ==
    /\ showing # NoContent
    /\ showing' = NoContent
    /\ last' = [last EXCEPT ![showing.note] = NoContent]
    /\ since' = [since EXCEPT ![showing.note] = {}]
    /\ UNCHANGED seen

\* The desktop could not show it: forget.
ShowFails ==
    /\ showing # NoContent
    /\ showing' = NoContent
    /\ seen' = Without(showing.note)
    /\ last' = [last EXCEPT ![showing.note] = NoContent]
    /\ since' = [since EXCEPT ![showing.note] = {}]

NotePacket ==
    \/ \E n \in Note : Cancelled(n)
    \/ \E s \in Sent, silent \in BOOLEAN : Received(s[1], s[2], silent)

-----------------------------------------------------------------------------
\* What a phone sends again unchanged does not pop up again, as long as fewer
\* other notifications than are tracked were sent in between (the history is
\* kept by recency, across phones and reconnections).
RecentIsNotReplayed ==
    [][showing' \notin {showing, NoContent} /\ Cardinality(since[showing'.note]) < MaxTracked
       => last[showing'.note] # showing'.content]_noteVars

\* What is new, has changed, was cancelled before or could not be shown is
\* shown when it is sent and not silent.
NewsIsShown ==
    [][\A n \in {k \in Note : last'[k] # last[k]}, content \in Content :
          Received(n, content, FALSE) => showing' = [note |-> n, content |-> content]]_noteVars
=============================================================================
