---------------------------- MODULE ClipboardSync ----------------------------
(***************************************************************************)
(* The clipboard of the desktop and the clipboard packets of one phone:    *)
(* the Wayland worker (clipboard.rs) and the parts of the service that     *)
(* feed it and listen to it (dbus_interface.rs).                           *)
(*                                                                         *)
(* The worker is one thread that takes the compositor's events and its own *)
(* commands in any order.  A selection is read by a thread of its own,     *)
(* which may take as long as the application that owns it; its result is a *)
(* command as well.  What the worker sets comes back as a selection.       *)
(***************************************************************************)
EXTENDS Naturals, Sequences, FiniteSets, SequencesExt

CONSTANTS
    Seat,         \* Wayland seats, each with a selection of its own
    Text,
    Secret,       \* the texts a password manager copies, with its hint
    Old,          \* the text on the clipboard before the service started
    NoText,
    InboxCap,     \* bound on the selections and texts to set on their way
    ReadCap,      \* bound on the reads under way (unbounded in the code)
    EventCap      \* bound on its events (unbounded in the code)

ASSUME ClipboardAssumption ==
    /\ IsFiniteSet(Seat)
    /\ Secret \subseteq Text
    /\ Old \in Text \ Secret
    /\ NoText \notin Text
    /\ {InboxCap, ReadCap, EventCap} \subseteq Nat \ {0}

VARIABLES
    selection,  \* per seat: the text selected
    inbox,      \* the compositor's events, not yet handled
    seats,      \* the seats with a data-control device
    seeded,     \* initialized_devices
    reads,      \* the reading threads, the result each will send
    commands,   \* the worker's channel
    pending,    \* pending_remote_write
    current,    \* the content handed out
    events,     \* ClipboardEvent::Changed, not yet handled
    leaked,     \* history: a password was sent unasked against the settings
    quiet       \* history: the text last set while nothing else was under way,
                \* until an application copies it or, of several seats, one is
                \* found empty while another has still to report it

desktop == <<selection, seats>>
worker == <<seeded, reads, pending, current>>
service == <<events, leaked>>
clipVars == <<selection, inbox, seats, seeded, reads, commands, pending, current,
              events, leaked, quiet>>

TextOrNone == Text \cup {NoText}
Content == [text : TextOrNone, secret : BOOLEAN]

\* "late": a newer selection has begun to be read (the generations differ).
Read == [late : BOOLEAN, publish : BOOLEAN, text : TextOrNone, secret : BOOLEAN]
Offer == [seat : Seat, text : TextOrNone]
Command == [type : {"SetText"}, text : Text] \cup
           [type : {"SelectionRead"}, read : Read]

\* What may be sent to the phone unasked: nothing, no passwords, anything.
Leave == {"nothing", "plain", "all"}

Nothing == [text |-> NoText, secret |-> FALSE]

ClipTypeOK ==
    /\ selection \in [Seat -> TextOrNone]
    /\ inbox \in Seq(Offer)
    /\ seats \in SUBSET Seat
    /\ seeded \in SUBSET seats
    /\ reads \in SUBSET Read
    /\ commands \in Seq(Command)
    /\ pending \in TextOrNone
    /\ current \in Content
    /\ events \in Seq(Content)
    /\ leaked \in BOOLEAN
    /\ quiet \in TextOrNone

ClipInitWith(content) ==
    /\ selection = [s \in Seat |-> Old]
    /\ inbox = <<>>
    /\ seats = {}
    /\ seeded = {}
    /\ reads = {}
    /\ commands = <<>>
    /\ pending = NoText
    /\ current = content
    /\ events = <<>>
    /\ leaked = FALSE
    /\ quiet = NoText

ClipInit == ClipInitWith(Nothing)

-----------------------------------------------------------------------------
\* The compositor and the desktop's applications.

IsSetText(c) == c.type = "SetText"
Room == Len(inbox) + Len(SelectSeq(commands, IsSetText)) < InboxCap

Announces(offer) ==
    /\ Room
    /\ inbox' = Append(inbox, offer)

OfferOf(s, text) == [seat |-> s, text |-> text]

\* ensure_devices: the seat's selection is announced as its first event.
SeatAppears(s) ==
    /\ s \notin seats
    /\ seats' = seats \cup {s}
    /\ Announces(OfferOf(s, selection[s]))
    /\ UNCHANGED <<selection, worker, commands, service, quiet>>

\* An application copies a text, or clears the clipboard, on one seat.
Copy(s, text) ==
    /\ text # Old
    /\ s \in seats
    /\ selection' = [selection EXCEPT ![s] = text]
    /\ Announces(OfferOf(s, text))
    /\ quiet' = IF text = quiet THEN NoText ELSE quiet
    /\ UNCHANGED <<seats, worker, commands, service>>

-----------------------------------------------------------------------------
\* The worker.

Emit(content) ==
    /\ Len(events) < EventCap
    /\ events' = Append(events, content)

SelectionRead(r) == [type |-> "SelectionRead", read |-> r]

Late(r) == [r EXCEPT !.late = TRUE]
Superseded == {Late(r) : r \in reads}
SupersededCommands ==
    [i \in DOMAIN commands |->
        IF IsSetText(commands[i]) THEN commands[i]
                                  ELSE SelectionRead(Late(commands[i].read))]

ReadsUnderWay == Cardinality(reads) + Cardinality({i \in DOMAIN commands : ~IsSetText(commands[i])})

\* A seat has still to report the text set in quiet.
QuietToCome == \E i \in DOMAIN inbox : inbox[i].text = quiet

\* A selection is empty or could not be read.  The echo is then no longer waited
\* for, although another seat's may still come: that one will be sent.
Clear ==
    /\ current' = Nothing
    /\ pending' = NoText
    /\ quiet' = IF QuietToCome THEN NoText ELSE quiet

NewRead(o) == [late |-> FALSE, publish |-> o.seat \in seeded,
               text |-> o.text, secret |-> o.text \in Secret]

\* Mutant of HandleSelection: the hint of a password manager is not looked for.
HandleSelectionUnhinted ==
    LET o == Head(inbox) IN
    /\ inbox # <<>>
    /\ ReadsUnderWay < ReadCap
    /\ inbox' = Tail(inbox)
    /\ seeded' = seeded \cup {o.seat}
    /\ reads' = Superseded \cup {[NewRead(o) EXCEPT !.secret = FALSE]}
    /\ commands' = SupersededCommands
    /\ UNCHANGED <<desktop, pending, current, service, quiet>>

\* handle_selection and begin_selection_read.  A selection without a text is
\* done with at once; a text is read by a thread.
HandleSelection ==
    LET o == Head(inbox) IN
    /\ inbox # <<>>
    /\ ReadsUnderWay < ReadCap
    /\ inbox' = Tail(inbox)
    /\ seeded' = seeded \cup {o.seat}
    /\ commands' = SupersededCommands
    /\ IF o.text = NoText
         THEN reads' = Superseded /\ Clear
         ELSE /\ reads' = Superseded \cup {NewRead(o)}
              /\ UNCHANGED <<pending, current, quiet>>
    /\ UNCHANGED <<desktop, service>>

\* The thread has read the text, or has failed to.
ReadEnds(r) ==
    /\ r \in reads
    /\ reads' = reads \ {r}
    /\ \E text \in {r.text, NoText} :
          commands' = Append(commands, SelectionRead([r EXCEPT !.text = text]))
    /\ UNCHANGED <<desktop, inbox, seeded, pending, current, service, quiet>>

Takes(type) ==
    /\ commands # <<>>
    /\ Head(commands).type = type
    /\ commands' = Tail(commands)

\* Nothing is under way that the selection about to be set could cross.
NothingUnderWay ==
    /\ inbox = <<>>
    /\ \A r \in reads : r.late
    /\ \A i \in DOMAIN commands :
          IsSetText(commands[i]) \/ commands[i].read.late

\* Mutant of SetText: what was set is not remembered.
SetTextOnly ==
    LET t == Head(commands).text IN
    /\ Takes("SetText")
    /\ selection' = [s \in Seat |-> IF s \in seats THEN t ELSE selection[s]]
    /\ inbox' = inbox \o SetToSeq({OfferOf(s, t) : s \in seats})
    /\ quiet' = IF NothingUnderWay THEN t ELSE NoText
    /\ UNCHANGED <<seats, worker, service>>

\* set_text on every seat; with none it is refused.
SetText ==
    LET t == Head(commands).text IN
    /\ Takes("SetText")
    /\ IF seats = {}
         THEN UNCHANGED <<selection, inbox, pending, current, quiet>>
         ELSE /\ selection' = [s \in Seat |-> IF s \in seats THEN t ELSE selection[s]]
              /\ inbox' = inbox \o SetToSeq({OfferOf(s, t) : s \in seats})
              /\ pending' = t
              /\ current' = [text |-> t, secret |-> FALSE]
              /\ quiet' = IF NothingUnderWay THEN t ELSE NoText
    /\ UNCHANGED <<seats, seeded, reads, service>>

\* Mutant of LateRead: the generation is not compared.
LateReadCounts ==
    LET r == Head(commands).read IN
    /\ Takes("SelectionRead")
    /\ r.late
    /\ current' = [text |-> r.text, secret |-> r.secret]
    /\ UNCHANGED <<desktop, inbox, seeded, reads, pending, service, quiet>>

\* A slow owner's text comes after a newer selection.
LateRead ==
    /\ Takes("SelectionRead")
    /\ Head(commands).read.late
    /\ UNCHANGED <<desktop, inbox, worker, service, quiet>>

\* finish_selection_read: no text, an echo, the same again, or something new
FinishRead ==
    LET r == Head(commands).read
        content == [text |-> r.text, secret |-> r.secret]
        known == r.text = current.text /\ r.secret = current.secret
    IN  /\ Takes("SelectionRead")
        /\ ~r.late
        /\ \/ r.text = NoText /\ Clear /\ UNCHANGED events
           \/ /\ r.text # NoText
              /\ r.text = pending \/ known
              /\ pending' = NoText
              /\ UNCHANGED <<current, events, quiet>>
           \/ /\ r.text # NoText
              /\ r.text # pending
              /\ ~known
              /\ pending' = NoText
              /\ current' = content
              /\ IF r.publish THEN Emit(content) ELSE UNCHANGED events
              /\ UNCHANGED quiet
        /\ UNCHANGED <<desktop, inbox, seeded, reads, leaked>>

Worker == HandleSelection \/ SetText \/ LateRead \/ FinishRead

-----------------------------------------------------------------------------
\* The service.

Queues(t) ==
    /\ Room
    /\ commands' = Append(commands, [type |-> "SetText", text |-> t])

\* The phone sends its clipboard, or the applet asks for a text to be set.
ClipboardReceived(t) ==
    /\ t \notin Secret \cup {Old}
    /\ Queues(t)
    /\ UNCHANGED <<desktop, inbox, worker, service, quiet>>

\* A phone that connects sends its clipboard; it counts unless its time is
\* unknown or older than the desktop's.
ClipboardConnectReceived(t) ==
    /\ t \notin Secret \cup {Old}
    /\ Queues(t)
    /\ UNCHANGED <<desktop, inbox, worker, service, quiet>>

Allows(leave, content) == leave = "all" \/ (leave = "plain" /\ ~content.secret)

HandsOver(leave, content) == leaked' = (leaked \/ (content.text \in Secret /\ leave # "all"))

\* A change is sent to the phone if, when its turn comes, the phone is paired,
\* in reach and its settings allow it.
AutoShare(leave) ==
    LET content == Head(events) IN
    /\ events # <<>>
    /\ events' = Tail(events)
    /\ IF Allows(leave, content) THEN HandsOver(leave, content) ELSE UNCHANGED leaked
    /\ UNCHANGED <<desktop, inbox, worker, commands, quiet>>

\* send_clipboard_connect_when_ready, started for a paired phone that connects:
\* the settings are read first, and then the content, when there is one.
SendConnect(leave) ==
    /\ current.text # NoText
    /\ Allows(leave, current)
    /\ HandsOver(leave, current)
    /\ UNCHANGED <<desktop, inbox, worker, commands, events, quiet>>

ClipNext ==
    \/ \E s \in Seat :
          \/ SeatAppears(s)
          \/ \E text \in TextOrNone : Copy(s, text)
    \/ Worker
    \/ \E r \in reads : ReadEnds(r)
    \/ \E t \in Text : ClipboardReceived(t) \/ ClipboardConnectReceived(t)
    \/ \E leave \in Leave : AutoShare(leave) \/ SendConnect(leave)

ClipSpec == ClipInit /\ [][ClipNext]_clipVars

-----------------------------------------------------------------------------
\* Properties.

\* What the service holds for the clipboard, and would send, is the text of some
\* seat's selection once the compositor's events, the readers and the commands
\* have been dealt with, however they overtook each other.
CacheIsTheSelection ==
    (inbox = <<>> /\ commands = <<>> /\ \A r \in reads : r.late) =>
        \/ current = Nothing
        \/ \E s \in seats : selection[s] = current.text

\* A text the worker waits to see come back is the one it hands out meanwhile.
PendingIsCached == pending # NoText => current = [text |-> pending, secret |-> FALSE]

\* A text set for the phone while nothing else was under way is not reported as
\* the user's, and so not sent back, whatever else is copied, set or read, late or
\* in vain, before it comes round, with one exception: when there are several
\* seats and one of them is found empty, or cannot be read, before another has
\* reported the text, the worker gives up waiting and does send the other's echo
\* (Clear), although clipboard.rs says without exception that the changes of
\* set_text "are intentionally not emitted".
PhoneTextIsNotEchoed ==
    [][Len(events') > Len(events) => Last(events').text # quiet]_clipVars

\* What was on the clipboard before the service started is never sent unasked as a
\* change, even if its owner is slow or the phone's texts come first.
InitialStaysHome == \A i \in DOMAIN events : events[i].text # Old

\* A password leaves the desktop unasked only under a setting that allows it, by
\* neither of the two ways to the phone.
SecretStaysHome == ~leaked

\* What the service holds and hands out agrees with the desktop.
ClipInv == ClipTypeOK /\ PendingIsCached /\ CacheIsTheSelection

\* Neither of the two leaves the desktop unasked (handle_selection, load_plugin_config).
PrivateStaysHome == InitialStaysHome /\ SecretStaysHome
=============================================================================
