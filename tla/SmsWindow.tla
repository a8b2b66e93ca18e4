----------------------------- MODULE SmsWindow ------------------------------
(***************************************************************************)
(* The SMS window (plugins/sms/app.rs) on the service of SmsCache: its     *)
(* list of conversations, the open thread and the index over its messages. *)
(*                                                                         *)
(* A message the user has sent is shown at once, under an ID of its own,   *)
(* and takes the phone's ID when the phone reports it.  It has the date of *)
(* the desktop's clock until then; the two clocks may differ.              *)
(***************************************************************************)
EXTENDS SmsCache

CONSTANTS
    EchoWindow,    \* ECHO_MATCH_WINDOW_MS
    DesktopAhead,  \* how far the desktop's clock is ahead of the time
    PhoneAhead,    \* how far the phone's is
    InboxCap       \* bound on the window's events not yet handled

ASSUME WindowAssumption ==
    /\ {EchoWindow, InboxCap} \subseteq Nat \ {0}
    /\ {DesktopAhead, PhoneAhead} \subseteq Nat

VARIABLES
    stream,     \* the window's event stream: reading the cache, or listening
    inbox,      \* what the stream and the user have given to update
    selected,   \* selected_thread
    messages,   \* the messages of the thread, as shown
    index,      \* message_index
    convs,      \* conversations: the time of each, 0 if it is not in the list
    hidden,     \* hidden_conversations
    lastSeen,   \* last_seen_timestamp, 0 if there is none
    unheard     \* history: something of the open thread was not asked for or not heard

windowVars == <<stream, inbox, selected, messages, index, convs, hidden, lastSeen, unheard>>
shown == <<selected, messages, index>>
vars == <<smsVars, windowVars>>

Chat == Thread \cup {NewChat}

\* An ID below 0 is "sending_...", of a message sent at that time.
IsSending(m) == m.id < 0
Date(m) == IF IsSending(m) THEN DesktopAhead - m.id ELSE PhoneAhead + m.id
MaxDate == MaxClock + DesktopAhead + PhoneAhead
Displayed == [id : (-MaxClock..MaxClock) \ {0}, thread : Chat, own : BOOLEAN]

Event == [type : {"messages", "conversations"}, batch : SUBSET Message] \cup
         [type : {"select"}, thread : {NewChat}]

WindowTypeOK ==
    /\ stream \in {"closed", "cache", "listening"}
    /\ inbox \in Seq(Event)
    /\ selected \in Chat \cup {NoThread}
    /\ convs \in [Chat -> 0..MaxDate]
    /\ hidden \in SUBSET Thread
    /\ lastSeen \in [Chat -> 0..MaxDate]
    /\ unheard \in BOOLEAN

ThreadTypeOK ==
    /\ messages \in Seq(Displayed)
    /\ DOMAIN index = {"byId", "pending"}
    /\ DOMAIN index.byId \subseteq (-MaxClock..MaxClock) \ {0}
    /\ index.pending \subseteq Nat \ {0}

Empty == [byId |-> <<>>, pending |-> {}]

WindowInit ==
    /\ SmsInit
    /\ stream = "closed"
    /\ inbox = <<>>
    /\ selected = NoThread
    /\ messages = <<>>
    /\ index = Empty
    /\ convs = [t \in Chat |-> 0]
    /\ hidden = {}
    /\ lastSeen = [t \in Chat |-> 0]
    /\ unheard = FALSE

-----------------------------------------------------------------------------
\* MessageIndex.

Rebuilt(msgs) ==
    [byId |-> [n \in {msgs[i].id : i \in DOMAIN msgs} |->
                  CHOOSE i \in DOMAIN msgs : msgs[i].id = n],
     pending |-> {i \in DOMAIN msgs : IsSending(msgs[i]) /\ msgs[i].own}]

\* The optimistic messages that one from the phone may be the echo of.
EchoOf(list, m) ==
    {i \in list.index.pending :
        /\ Date(list.messages[i]) - Date(m) < EchoWindow
        /\ Date(m) - Date(list.messages[i]) < EchoWindow}

\* The positions once a message with this ID is at this one.
Placed(byId, id, pos) ==
    [n \in DOMAIN byId \cup {id} |-> IF n = id THEN pos ELSE byId[n]]

\* insert_or_merge, on a list of messages and its index
InsertOrMerge(list, m) ==
    LET echo == IF m.own THEN EchoOf(list, m) ELSE {}
        pos == Min(echo)
        byId == list.index.byId
        others == DOMAIN byId \ {list.messages[pos].id}
    IN  IF m.id \in DOMAIN byId THEN list
        ELSE IF echo # {} THEN
            [messages |-> [list.messages EXCEPT ![pos].id = m.id, ![pos].thread = m.thread],
             index |-> [byId |-> Placed([n \in others |-> byId[n]], m.id, pos),
                        pending |-> list.index.pending \ {pos}]]
        ELSE
            [messages |-> Append(list.messages, m),
             index |-> [byId |-> Placed(byId, m.id, Len(list.messages) + 1),
                        pending |-> list.index.pending]]

\* The messages of a batch are inserted or merged one after another.
InsertAll(list, batch) ==
    LET after[n \in 0..Len(batch)] ==
            IF n = 0 THEN list ELSE InsertOrMerge(after[n - 1], batch[n])
    IN after[Len(batch)]

\* sort_by_key: by date, and as they were where dates are equal.
NotAfter(msgs, i, j) ==
    \/ Date(msgs[i]) < Date(msgs[j])
    \/ Date(msgs[i]) = Date(msgs[j]) /\ i <= j

Place(msgs, i) == Cardinality({j \in DOMAIN msgs : NotAfter(msgs, j, i)})

ByDate(msgs) ==
    [n \in DOMAIN msgs |-> msgs[CHOOSE i \in DOMAIN msgs : Place(msgs, i) = n]]

-----------------------------------------------------------------------------
\* The event stream.

Gives(events) ==
    /\ Len(inbox) + Len(events) <= InboxCap
    /\ inbox' = inbox \o events

\* Each answer of the phone comes as two events.
Both(batch) == <<[type |-> "messages", batch |-> batch],
                 [type |-> "conversations", batch |-> batch]>>

\* The window opens and is given the cache.
Opens ==
    /\ stream = "closed"
    /\ stream' = "cache"
    /\ IF CachedSms = {} THEN UNCHANGED inbox ELSE Gives(Both(CachedSms))
    /\ UNCHANGED <<smsVars, shown, convs, hidden, lastSeen, unheard>>

\* It listens to the service's signals, and then asks for the conversations.
Listens ==
    /\ stream = "cache"
    /\ stream' = "listening"
    /\ Asks(<<ToAll>>)
    /\ UNCHANGED <<phoneSide, linked, wire, cache, inbox, shown, convs, hidden, lastSeen,
                   unheard>>

\* The stream ends; the window will listen again a second later.
StreamEnds ==
    /\ stream = "listening"
    /\ stream' = "cache"
    /\ UNCHANGED <<smsVars, inbox, shown, convs, hidden, lastSeen, unheard>>

\* A signal reaches a window that listens, and otherwise nobody.
SmsMessagesReceived ==
    /\ SmsMessages
    /\ IF stream = "listening"
         THEN Gives(Both(Head(wire))) /\ UNCHANGED unheard
         ELSE UNCHANGED inbox /\ unheard' = TRUE
    /\ UNCHANGED <<stream, shown, convs, hidden, lastSeen>>

\* The link to the phone breaks under the window.
LinkBreaks ==
    /\ LinkLost \/ Unpairs
    /\ unheard' = (unheard \/ requests # <<>> \/ wire' # wire)
    /\ UNCHANGED <<stream, inbox, shown, convs, hidden, lastSeen>>

\* A message of the open thread that is made without a link is not reported.
HappensOnPhone(t, own) ==
    /\ PhoneMessage(t, own)
    /\ unheard' = (unheard \/ (~linked /\ t = selected))
    /\ UNCHANGED <<stream, inbox, shown, convs, hidden, lastSeen>>

\* The service ends under the window.
ServiceLost ==
    /\ ServiceRestarts
    /\ unheard' = TRUE
    /\ stream' = IF stream = "listening" THEN "cache" ELSE stream
    /\ UNCHANGED <<inbox, shown, convs, hidden, lastSeen>>

\* The timer and the refresh button.
LoadConversations ==
    /\ stream # "closed"
    /\ Asks(<<ToAll>>)
    /\ UNCHANGED <<phoneSide, linked, wire, cache, windowVars>>

-----------------------------------------------------------------------------
\* update

TakesEvent(type) ==
    /\ inbox # <<>>
    /\ Head(inbox).type = type
    /\ inbox' = Tail(inbox)

LaterOf(n, m) == IF n >= m THEN n ELSE m
NewestDate(msgs) == Max({0} \cup {Date(m) : m \in msgs})

\* Mutant of HandleMessagesReceived: the index is not rebuilt after the sort.
HandleMessagesReceivedUnindexed ==
    LET batch == {m \in Head(inbox).batch : m.thread \notin hidden}
        open == OfThread(batch, selected)
    IN  /\ TakesEvent("messages")
        /\ \E order \in SetToSeqs(open) :
              LET list == InsertAll([messages |-> messages, index |-> index], order)
              IN messages' = ByDate(list.messages) /\ index' = list.index
        /\ lastSeen' = [t \in Chat |-> LaterOf(lastSeen[t], NewestDate(OfThread(open, t)))]
        /\ convs' = [t \in Chat |-> IF convs[t] = 0 THEN 0
                                    ELSE LaterOf(convs[t], NewestDate(OfThread(batch, t)))]
        /\ UNCHANGED <<smsVars, stream, selected, hidden, unheard>>

\* Mutant of HandleMessagesReceived: what is shown does not count as seen.
HandleMessagesReceivedUnseen ==
    LET batch == {m \in Head(inbox).batch : m.thread \notin hidden}
        open == OfThread(batch, selected)
    IN  /\ TakesEvent("messages")
        /\ \E order \in SetToSeqs(open) :
              LET list == InsertAll([messages |-> messages, index |-> index], order)
              IN messages' = ByDate(list.messages) /\ index' = Rebuilt(messages')
        /\ convs' = [t \in Chat |-> IF convs[t] = 0 THEN 0
                                    ELSE LaterOf(convs[t], NewestDate(OfThread(batch, t)))]
        /\ UNCHANGED <<smsVars, stream, selected, hidden, lastSeen, unheard>>

\* handle_messages_received: hidden threads are passed over, the open thread's
\* messages are shown and seen, and known conversations move to their newest.  A
\* batch has its messages in the order in which the phone, or the cache, had them.
HandleMessagesReceived ==
    LET batch == {m \in Head(inbox).batch : m.thread \notin hidden}
        open == OfThread(batch, selected)
    IN  /\ TakesEvent("messages")
        /\ \E order \in SetToSeqs(open) :
              LET list == InsertAll([messages |-> messages, index |-> index], order)
              IN  /\ messages' = ByDate(list.messages)
                  /\ index' = IF messages' = <<>> THEN list.index ELSE Rebuilt(messages')
        /\ lastSeen' = [t \in Chat |-> LaterOf(lastSeen[t], NewestDate(OfThread(open, t)))]
        /\ convs' = [t \in Chat |-> IF convs[t] = 0 THEN 0
                                    ELSE LaterOf(convs[t], NewestDate(OfThread(batch, t)))]
        /\ UNCHANGED <<smsVars, stream, selected, hidden, unheard>>

\* The list after an answer: the conversation a new chat turns out to be takes its
\* place, and hidden ones are left out.
Merged(batch) ==
    [t \in Chat |->
        IF t = NewChat THEN IF OfThread(batch, NewFor) = {} THEN convs[t] ELSE 0
        ELSE IF t \in hidden THEN 0
        ELSE LaterOf(convs[t], NewestDate(OfThread(batch, t)))]

\* handle_protocol_event, ConversationsReceived.  An open new chat turns into the
\* conversation of its number, whose messages are not asked for.
HandleConversationsReceived ==
    /\ TakesEvent("conversations")
    /\ convs' = Merged(Head(inbox).batch)
    /\ IF selected = NewChat /\ convs[NewChat] # 0 /\ convs'[NewFor] # 0
         THEN selected' = NewFor /\ unheard' = TRUE
         ELSE UNCHANGED <<selected, unheard>>
    /\ UNCHANGED <<smsVars, stream, messages, index, hidden, lastSeen>>

\* Mutant of Selects: the index of the thread before is kept.
SelectsUncleared(t) ==
    /\ selected' = t
    /\ lastSeen' = IF convs[t] # 0 THEN [lastSeen EXCEPT ![t] = convs[t]] ELSE lastSeen
    /\ messages' = <<>>
    /\ index' = [index EXCEPT !.pending = {}]
    /\ Asks(<<[type |-> "conversation", thread |-> t]>>)
    /\ unheard' = (stream # "listening" \/ ~linked)
    /\ UNCHANGED <<phoneSide, linked, wire, cache, stream, convs, hidden>>

Selects(t) ==
    /\ selected' = t
    /\ lastSeen' = IF convs[t] # 0 THEN [lastSeen EXCEPT ![t] = convs[t]] ELSE lastSeen
    /\ messages' = <<>>
    /\ index' = Empty
    /\ Asks(<<[type |-> "conversation", thread |-> t]>>)
    /\ unheard' = (stream # "listening" \/ ~linked)
    /\ UNCHANGED <<phoneSide, linked, wire, cache, stream, convs, hidden>>

\* The user opens a conversation of the list.
SelectThread(t) ==
    /\ convs[t] # 0
    /\ Selects(t)
    /\ UNCHANGED inbox

\* The user sends a message in the open conversation.  Without a link it is shown all
\* the same, and never sent.
SendMessage ==
    /\ selected # NoThread
    /\ convs[selected] # 0
    /\ clock <= MaxClock
    /\ clock' = clock + 1
    /\ messages' = ByDate(Append(messages, [id |-> -clock, thread |-> selected, own |-> TRUE]))
    /\ index' = Rebuilt(messages')
    /\ convs' = [convs EXCEPT ![selected] = clock + DesktopAhead]
    /\ Asks(<<[type |-> "send", thread |-> selected]>>)
    /\ unheard' = (unheard \/ ~linked)
    /\ UNCHANGED <<phone, linked, wire, cache, stream, inbox, selected, hidden, lastSeen>>

\* The user begins a chat; it is listed at once and opened by an event of its own.
CreateNewChat ==
    /\ convs[NewChat] = 0
    /\ selected # NewChat
    /\ clock <= MaxClock
    /\ clock' = clock + 1
    /\ convs' = [convs EXCEPT ![NewChat] = clock + DesktopAhead]
    /\ Gives(<<[type |-> "select", thread |-> NewChat]>>)
    /\ UNCHANGED <<phone, linked, requests, wire, cache, stream, shown, hidden, lastSeen, unheard>>

SelectNewChat ==
    /\ TakesEvent("select")
    /\ Selects(NewChat)

\* The user deletes a conversation of the list.  ("new_..." is never used again.)
DeleteConversation(t) ==
    /\ convs[t] # 0
    /\ convs' = [convs EXCEPT ![t] = 0]
    /\ hidden' = hidden \cup ({t} \cap Thread)
    /\ IF selected = t
         THEN selected' = NoThread /\ messages' = <<>> /\ index' = Empty
         ELSE UNCHANGED shown
    /\ UNCHANGED <<smsVars, stream, inbox, lastSeen, unheard>>

-----------------------------------------------------------------------------
PhoneNext == PhoneConversations \/ PhoneConversation \/ PhoneSms \/ PhoneConnects \/ SeedCache

StreamNext ==
    \/ Opens \/ Listens \/ StreamEnds
    \/ SmsMessagesReceived \/ LinkBreaks \/ ServiceLost
    \/ \E t \in Thread, own \in BOOLEAN : (own => t = NewFor) /\ HappensOnPhone(t, own)

UpdateNext ==
    \/ HandleMessagesReceived \/ HandleConversationsReceived
    \/ SelectNewChat \/ SendMessage \/ CreateNewChat \/ LoadConversations
    \/ \E t \in Chat : SelectThread(t) \/ DeleteConversation(t)

WindowNext ==
    \/ PhoneNext /\ UNCHANGED windowVars
    \/ StreamNext
    \/ UpdateNext

WindowSpec == WindowInit /\ [][WindowNext]_vars

-----------------------------------------------------------------------------
\* Properties.

\* The index agrees with the list after every event: a message that comes again is
\* found, and an echo folds into the message it echoes and not into one that has
\* taken its place (app.rs: the index "must stay in sync with `messages`").
IndexIsInSync == index = Rebuilt(messages)

\* No message is shown twice, and none of another conversation, whatever answers
\* were on their way when the user changed the thread.  A new chat's messages stay
\* when it turns into a conversation.
OnlyOpenThread ==
    /\ \A i, j \in DOMAIN messages : i # j => messages[i].id # messages[j].id
    /\ \A i \in DOMAIN messages :
          \/ messages[i].thread = selected
          \/ messages[i].thread = NewChat /\ selected = NewFor

\* If the phone reports what was sent within the window of an echo, the clocks'
\* difference included, no message of the user's is shown beside its own echo.  (What
\* is sent without a link, or lost with it, stays shown and has no echo: unheard.)
OwnShownOnce ==
    LET own == {i \in DOMAIN messages : messages[i].own}
        sent == {m \in phone : m.own}
        unsent == {i \in DOMAIN requests : requests[i].type = "send"}
    IN  ~unheard => Cardinality(own) <= Cardinality(sent) + Cardinality(unsent)

\* A deleted conversation does not come back with a later answer, and is not open.
DeletedStaysAway ==
    /\ \A t \in hidden : convs[t] = 0
    /\ selected \notin hidden

\* An open conversation is in the list, so that it can be answered (a new chat is
\* not if its number's conversation was deleted).
OpenIsListed == selected \in Thread => convs[selected] # 0

\* How much further the desktop's clock is ahead than the phone's.
Lag == LaterOf(0, DesktopAhead - PhoneAhead)

\* When nothing is on its way an open conversation is not newer than what has been
\* seen of it, although what the user sends makes it so: it is not marked unread.  Of
\* a desktop whose clock is ahead of the phone's it is newer by no more than that.
\* (A message that is sent without a link, or lost with it, leaves it unread.)
OpenIsRead ==
    (selected \in Thread /\ ~unheard /\ requests = <<>> /\ wire = <<>> /\ inbox = <<>>) =>
        convs[selected] <= lastSeen[selected] + Lag

\* When nothing is on its way an open conversation shows all the phone has of it, if
\* it was asked for, its answer heard, and no message of it made or lost without a
\* link.  Nothing is asked for again when the link is back, and the refresh brings
\* only the newest message: such a thread is complete once it is opened anew.
ThreadIsComplete ==
    (/\ selected \in Thread
     /\ ~unheard
     /\ requests = <<>> /\ wire = <<>> /\ inbox = <<>>) =>
        \A m \in OfThread(phone, selected) : \E i \in DOMAIN messages : messages[i].id = m.id

\* The list of conversations: typed, with the cache it is given, and never with an
\* open conversation that is deleted, missing from the list or unread.
WindowInv ==
    /\ SmsTypeOK /\ WindowTypeOK /\ CacheCoversFile
    /\ DeletedStaysAway /\ OpenIsListed /\ OpenIsRead

\* The open thread shows its own messages, and each that the user sends or the
\* phone repeats once.
ShownOnce == ThreadTypeOK /\ OnlyOpenThread /\ IndexIsInSync /\ OwnShownOnce
=============================================================================
