------------------------------ MODULE SmsCache ------------------------------
(***************************************************************************)
(* Text messages between one phone and the service: what the phone sends   *)
(* of its own accord and when asked, and what the service keeps of it in   *)
(* memory and in sms_cache.json (dbus_interface.rs).                       *)
(*                                                                         *)
(* A message is named by the time it was made, which is also its date.     *)
(* All messages have the same text: it is the worst case for the window,   *)
(* which recognises what the user sent by its text.                        *)
(*                                                                         *)
(* Nothing is repeated when a connection ends: what was asked for, what    *)
(* was on its way and what the phone made meanwhile comes only if it is    *)
(* asked for again.                                                        *)
(***************************************************************************)
EXTENDS Integers, Sequences, FiniteSets, SequencesExt

CONSTANTS
    Thread,        \* the phone's conversations
    NewChat,       \* the thread ID "new_..." of a chat begun in the window
    NewFor,        \* the conversation that chat's number belongs to
    NoThread,
    NoCache,
    MaxClock,      \* bound on the messages made
    RequestCap,    \* bound on the requests on their way to the phone
    WireCap,       \* bound on its packets on their way to the service
    LastFailure    \* bound: the time on the clock until which the link may break and
                   \* a write may fail

ASSUME SmsAssumption ==
    /\ NewFor \in Thread
    /\ {NewChat, NoThread} \cap Thread = {}
    /\ {MaxClock, RequestCap, WireCap} \subseteq Nat \ {0}
    /\ LastFailure \in Nat

VARIABLES
    phone,     \* the messages on the phone
    clock,
    linked,    \* the phone is paired and has a connection (an entry of writer_map)
    requests,  \* packets from the desktop to the phone
    wire,      \* packets of messages from the phone
    memory,    \* the service's cache in memory
    file       \* what of sms_cache.json can be read, {} if nothing can

phoneSide == <<phone, clock>>
cache == <<memory, file>>
smsVars == <<phone, clock, linked, requests, wire, memory, file>>

Message == [id : 1..MaxClock, thread : Thread, own : BOOLEAN]
Request == [type : {"conversations", "conversation", "send"},
            thread : Thread \cup {NewChat, NoThread}]

SmsTypeOK ==
    /\ phone \in SUBSET Message
    /\ clock \in 1..(MaxClock + 1)
    /\ linked \in BOOLEAN
    /\ requests \in Seq(Request)
    /\ wire \in Seq(SUBSET Message)
    /\ memory \in (SUBSET Message) \cup {NoCache}
    /\ file \in SUBSET Message

\* The service starts with what an earlier run has left.
SmsInit ==
    /\ phone = {}
    /\ clock = 1
    /\ linked = FALSE
    /\ requests = <<>>
    /\ wire = <<>>
    /\ memory = NoCache
    /\ file = {}

-----------------------------------------------------------------------------
\* The phone.

OfThread(msgs, t) == {m \in msgs : m.thread = t}
Newest(msgs) == {m \in msgs : \A n \in msgs : n.id <= m.id}

Sends(batch) ==
    IF batch = {} THEN UNCHANGED wire
                  ELSE Len(wire) < WireCap /\ wire' = Append(wire, batch)

\* The phone has a new message, and reports it if it is connected.
Makes(t, own) ==
    LET m == [id |-> clock, thread |-> t, own |-> own] IN
    /\ clock <= MaxClock
    /\ clock' = clock + 1
    /\ phone' = phone \cup {m}
    /\ IF linked THEN Sends({m}) ELSE UNCHANGED wire

\* Somebody writes to the phone, or its user writes on it.
PhoneMessage(t, own) ==
    /\ Makes(t, own)
    /\ UNCHANGED <<linked, requests, cache>>

TakesRequest(type) ==
    /\ requests # <<>>
    /\ Head(requests).type = type
    /\ requests' = Tail(requests)

\* The phone answers with the newest message of every conversation.
PhoneConversations ==
    /\ TakesRequest("conversations")
    /\ Sends(UNION {Newest(OfThread(phone, t)) : t \in Thread})
    /\ UNCHANGED <<phoneSide, linked, cache>>

\* The phone answers with a whole conversation; "new_..." is the number 0 to it.
PhoneConversation ==
    /\ TakesRequest("conversation")
    /\ Sends(OfThread(phone, Head(requests).thread))
    /\ UNCHANGED <<phoneSide, linked, cache>>

\* The phone sends a message for the desktop and reports it.
PhoneSms ==
    LET t == Head(requests).thread IN
    /\ TakesRequest("send")
    /\ Makes(IF t = NewChat THEN NewFor ELSE t, TRUE)
    /\ UNCHANGED <<linked, cache>>

-----------------------------------------------------------------------------
\* The service.

CachedSms == IF memory # NoCache THEN memory ELSE file

\* Mutant of MergeSmsCache: only what is in memory is added to.
MergeSmsCacheInMemory(batch) == batch \cup (IF memory # NoCache THEN memory ELSE {})

MergeSmsCache(batch) == batch \cup CachedSms

\* handle_event, SmsMessages: merged into memory, saved, and passed on.  The file may
\* stay as it was, or be cut off in the middle: fs::write empties it first, and what
\* does not parse is as good as no file.
SmsMessages ==
    LET merged == MergeSmsCache(Head(wire)) IN
    /\ wire # <<>>
    /\ wire' = Tail(wire)
    /\ memory' = merged
    /\ file' \in {merged} \cup (IF clock <= LastFailure THEN {file, {}} ELSE {})
    /\ UNCHANGED <<phoneSide, linked, requests>>

\* handle_event, Connected: the memory of a paired phone is filled from the file.
SeedCache ==
    /\ memory = NoCache
    /\ file # {}
    /\ memory' = file
    /\ UNCHANGED <<phoneSide, linked, requests, wire, file>>

\* What is asked of the phone is sent, or dropped if it has no connection.
Asks(reqs) ==
    IF linked THEN /\ Len(requests) + Len(reqs) <= RequestCap
                   /\ requests' = requests \o reqs
              ELSE UNCHANGED requests

ToAll == [type |-> "conversations", thread |-> NoThread]

\* The phone connects, or is paired, and then the service itself asks it for its
\* conversations.
PhoneConnects ==
    /\ ~linked
    /\ linked' = TRUE
    /\ requests' \in {<<>>, <<ToAll>>}
    /\ UNCHANGED <<phoneSide, wire, cache>>

\* The requests on their way are lost, and of the packets all but those the core has
\* passed on.
Unlinks ==
    /\ linked' = FALSE
    /\ requests' = <<>>
    /\ \E n \in 0..Len(wire) : wire' = SubSeq(wire, 1, n)

\* The phone's connection ends.
LinkLost ==
    /\ linked
    /\ clock <= LastFailure
    /\ Unlinks
    /\ UNCHANGED <<phoneSide, cache>>

\* The phone is unpaired, from either side: its file is removed if that succeeds, and
\* the memory is kept.
Unpairs ==
    /\ clock <= LastFailure
    /\ Unlinks
    /\ file' \in {{}, file}
    /\ UNCHANGED <<phoneSide, memory>>

\* The service ends and is started again; what was on its way is lost.  It may have
\* been about to save a packet: the file is then cut off, or written.
ServiceRestarts ==
    /\ memory' = NoCache
    /\ linked' = FALSE
    /\ wire' = <<>>
    /\ requests' = <<>>
    /\ file' \in {file} \cup (IF wire # <<>> /\ clock <= LastFailure
                               THEN {{}, MergeSmsCache(Head(wire))} ELSE {})
    /\ UNCHANGED phoneSide

-----------------------------------------------------------------------------
\* Properties.

\* No message is ever dropped from what is kept, although the phone repeats only
\* parts of its conversations.  The file keeps all it has, through connections and
\* restarts, unless it is lost as a whole: cut off while a packet is saved, or removed
\* with the pairing.  The memory keeps all it has until the service ends, so that the
\* next packet saved brings back what the file has lost.
SavedSmsAreKept ==
    [][/\ \/ file \subseteq file'
          \/ file' = {} /\ (wire' # wire \/ ~linked')
       /\ memory # NoCache =>
             /\ memory' # NoCache => memory \subseteq memory'
             /\ file' \in {file, {}} \/ memory \subseteq file'
      ]_smsVars

\* A window that opens is given everything the file has, and what came since the
\* service started even if it could not be saved.
CacheCoversFile == memory # NoCache => file \subseteq memory
=============================================================================
