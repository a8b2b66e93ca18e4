---------------------------- MODULE SystemVolume ----------------------------
(***************************************************************************)
(* plugins/systemvolume.rs for one phone: the threads that talk to         *)
(* PulseAudio, the map PA_CONNECTIONS with the sender of at most one of    *)
(* them, and the messages that reach a thread through it.                  *)
(*                                                                         *)
(* A thread is started on every connection of the phone while the plugin   *)
(* is on; it ends when its sender is gone.  Threads, the event loop and    *)
(* PulseAudio's callbacks interleave freely.                               *)
(***************************************************************************)
EXTENDS Naturals, Sequences, FiniteSetsExt

CONSTANTS
    Sink,      \* PulseAudio's sinks
    Level,     \* volumes
    Thread,    \* thread instances, reused once they have ended
    NoThread,  \* no entry in PA_CONNECTIONS
    NoList,    \* the phone has not been told the sinks
    QueueCap   \* bound on a thread's messages (unbounded in the code)

ASSUME NoThreadAssumption == NoThread \notin Thread
ASSUME QueueCapAssumption == QueueCap \in Nat \ {0}

VARIABLES
    enabled,  \* the plugin is on for this phone
    entry,    \* PA_CONNECTIONS: the thread the stored sender feeds
    phase,    \* per thread
    queue,    \* per thread: messages not yet taken
    notify,   \* subscribed threads whose callback has not run yet
    mixer,    \* PulseAudio's sinks
    told      \* the sink list last sent to the phone

vars == <<enabled, entry, phase, queue, notify, mixer, told>>

\* "connecting": in the retry loop, which does not look at the messages;
\* "ready": in the message loop; "exited": pa_thread has returned.
Phase == {"gone", "connecting", "ready", "exited"}
SinkState == [level : Level, muted : BOOLEAN]
Message == [kind : {"sinks"}]
           \cup [kind : {"volume"}, sink : Sink, level : Level]
           \cup [kind : {"mute"}, sink : Sink, muted : BOOLEAN]

SinkTypeOK ==
    /\ enabled \in BOOLEAN
    /\ entry \in Thread \cup {NoThread}
    /\ phase \in [Thread -> Phase]
    /\ queue \in [Thread -> Seq(Message)]
    /\ notify \in SUBSET Thread
    /\ mixer \in [Sink -> SinkState]
    /\ told = NoList \/ told \in [Sink -> SinkState]

Init ==
    /\ enabled \in BOOLEAN
    /\ entry = NoThread
    /\ phase = [t \in Thread |-> "gone"]
    /\ queue = [t \in Thread |-> <<>>]
    /\ notify = {}
    /\ mixer \in [Sink -> SinkState]
    /\ told = NoList

-----------------------------------------------------------------------------
\* The event loop.

\* SetPluginEnabled; the threads hear nothing of it.
SetEnabled ==
    /\ enabled' = ~enabled
    /\ UNCHANGED <<entry, phase, queue, notify, mixer, told>>

\* on_device_connect, for a paired phone with the plugin on.  Replacing the
\* sender closes the channel of the thread it fed.
OnDeviceConnect(t) ==
    /\ enabled
    /\ phase[t] = "gone"
    /\ entry' = t
    /\ phase' = [phase EXCEPT ![t] = "connecting"]
    /\ queue' = [queue EXCEPT ![t] = <<>>]
    /\ UNCHANGED <<enabled, notify, mixer, told>>

\* A message for whatever thread is registered; without one it is dropped.
Post(m) ==
    IF entry = NoThread
      THEN UNCHANGED queue
      ELSE /\ Len(queue[entry]) < QueueCap
           /\ queue' = [queue EXCEPT ![entry] = Append(@, m)]

\* handle: the phone asks for the sinks or sets one.
HandleRequest(m) ==
    /\ enabled
    /\ Post(m)
    /\ UNCHANGED <<enabled, entry, phase, notify, mixer, told>>

-----------------------------------------------------------------------------
\* PulseAudio.

Subscribed == {t \in Thread : phase[t] = "ready"}

\* A change is reported to every subscribed thread; setting a sink to what it
\* is already is none.
Change(new) ==
    /\ mixer' = new
    /\ notify' = IF new = mixer THEN notify ELSE notify \cup Subscribed

\* The user changes a sink on the desktop.
DesktopChanges(s, state) ==
    /\ mixer[s] # state
    /\ Change([mixer EXCEPT ![s] = state])
    /\ UNCHANGED <<enabled, entry, phase, queue, told>>

\* The subscribe callback posts to the registered thread.
Callback(t) ==
    /\ t \in notify
    /\ notify' = notify \ {t}
    /\ Post([kind |-> "sinks"])
    /\ UNCHANGED <<enabled, entry, phase, mixer, told>>

-----------------------------------------------------------------------------
\* pa_thread

\* enumerate_sinks and send_sink_list; the enumeration may time out.
TellPhone == told' = mixer \/ told' = told

PaReady(t) ==
    /\ phase[t] = "connecting"
    /\ phase' = [phase EXCEPT ![t] = "ready"]
    /\ TellPhone
    /\ UNCHANGED <<enabled, entry, queue, notify, mixer>>

\* Mutant of PaLost: the thread returns instead of connecting again.
PaLostExits(t) ==
    /\ phase[t] = "ready"
    /\ phase' = [phase EXCEPT ![t] = "exited"]
    /\ notify' = notify \ {t}
    /\ UNCHANGED <<enabled, entry, queue, mixer, told>>

PaLost(t) ==
    /\ phase[t] = "ready"
    /\ phase' = [phase EXCEPT ![t] = "connecting"]
    /\ notify' = notify \ {t}
    /\ UNCHANGED <<enabled, entry, queue, mixer, told>>

\* How many messages a handler takes: the first, those of its kind that follow,
\* and the one that ended the search.
Taken(q) ==
    LET others == {i \in 2 .. Len(q) : q[i].kind # q[1].kind}
    IN  IF others = {} THEN Len(q) ELSE Min(others)

Drop(t, n) ==
    queue' = [queue EXCEPT ![t] = SubSeq(@, n + 1, Len(@))]

Reads(t, kind) ==
    /\ phase[t] = "ready"
    /\ queue[t] # <<>>
    /\ Head(queue[t]).kind = kind

GetSinks(t) ==
    /\ Reads(t, "sinks")
    /\ Drop(t, Taken(queue[t]))
    /\ TellPhone
    /\ UNCHANGED <<enabled, entry, phase, notify, mixer>>

\* Of several volumes taken, the last one for the first one's sink is set.
NewestVolume(q) ==
    LET same == {i \in 1 .. Taken(q) : q[i].kind = "volume" /\ q[i].sink = q[1].sink}
    IN  q[Max(same)].level

SetSinkVolume(t) ==
    LET q == queue[t] IN
    /\ Reads(t, "volume")
    /\ Drop(t, Taken(q))
    /\ Change([mixer EXCEPT ![Head(q).sink].level = NewestVolume(q)])
    /\ UNCHANGED <<enabled, entry, phase, told>>

SetSinkMute(t) ==
    LET m == Head(queue[t]) IN
    /\ Reads(t, "mute")
    /\ Drop(t, 1)
    /\ Change([mixer EXCEPT ![m.sink].muted = m.muted])
    /\ UNCHANGED <<enabled, entry, phase, told>>

\* Mutant of Exits: a closed channel is taken for an empty one.
ExitsNever(t) == FALSE /\ UNCHANGED vars

\* The channel is empty and closed.
Exits(t) ==
    /\ phase[t] = "ready"
    /\ queue[t] = <<>>
    /\ entry # t
    /\ phase' = [phase EXCEPT ![t] = "exited"]
    /\ notify' = notify \ {t}
    /\ UNCHANGED <<enabled, entry, queue, mixer, told>>

\* What the thread does last: it removes the phone's entry, whoever's it is.
RemovesEntry(t) ==
    /\ phase[t] = "exited"
    /\ phase' = [phase EXCEPT ![t] = "gone"]
    /\ entry' = NoThread
    /\ UNCHANGED <<enabled, queue, notify, mixer, told>>

ThreadStep(t) ==
    GetSinks(t) \/ SetSinkVolume(t) \/ SetSinkMute(t) \/ Exits(t) \/ RemovesEntry(t)

Next ==
    \/ SetEnabled
    \/ \E t \in Thread :
          OnDeviceConnect(t) \/ PaReady(t) \/ PaLost(t) \/ Callback(t) \/ ThreadStep(t)
    \/ \E m \in Message : HandleRequest(m)
    \/ \E s \in Sink, state \in SinkState : DesktopChanges(s, state)

Spec == Init /\ [][Next]_vars

\* Threads are scheduled, and PulseAudio is up in the end and calls back.  A
\* pass of the message loop that has found the context ready takes a message,
\* hence strong fairness although the context may be lost again and again.
PaFairness ==
    \A t \in Thread :
        /\ SF_vars(ThreadStep(t))
        /\ SF_vars(PaReady(t))
        /\ SF_vars(Callback(t))

FairSpec == Spec /\ PaFairness

-----------------------------------------------------------------------------
\* The registered sender always has a thread that reads from it, although
\* threads come and go on their own (on_device_connect, pa_thread); with the
\* types it is VolumeInv.
RegisteredThreadRuns ==
    entry # NoThread => phase[entry] \in {"connecting", "ready"}

VolumeInv == SinkTypeOK /\ RegisteredThreadRuns

\* A thread that is no longer registered does not stay: replacing its sender
\* ends it (systemvolume.rs:131 "causing it to exit cleanly").
SupersededThreadExits ==
    \A t \in Thread :
        (phase[t] \in {"connecting", "ready"} /\ entry # t) ~> phase[t] = "gone"
=============================================================================
