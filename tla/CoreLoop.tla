------------------------------ MODULE CoreLoop ------------------------------
(***************************************************************************)
(* The event loop of kdeconnect-core (lib.rs) with the device manager      *)
(* (device.rs), the pairing manager (pairing.rs) and the life of a control *)
(* connection (transport.rs).                                              *)
(*                                                                         *)
(* run_event_loop picks, in no fixed order, an event from one of three     *)
(* queues and runs its handler to the end, so every handler is one action. *)
(* What interleaves is the queues: a change of state made by one handler   *)
(* is announced through the event queue and is overtaken by connections,   *)
(* packets and clicks that arrive on the other two.                        *)
(***************************************************************************)
EXTENDS DeviceStore, Naturals, Sequences

CONSTANTS
    Device,        \* device ids
    Conn,          \* connection instances (conn_id), reused once forgotten
    NoConn,        \* no entry in conn_id_map or writer_map
    DiskMayFail,   \* whether writing or removing a device file can fail
    TransportCap,  \* capacity of the transport channel (16 in the code)
    EventCap,      \* bound on the core event queue (unbounded in the code)
    UiCap          \* bound on the listeners' queue (unbounded in the code)

ASSUME NoConnAssumption == NoConn \notin Conn
ASSUME DiskMayFailAssumption == DiskMayFail \in BOOLEAN
ASSUME CapAssumption == {TransportCap, EventCap, UiCap} \subseteq Nat \ {0}

VARIABLES
    disk,        \* the device files
    devices,     \* DeviceManager.devices
    connId,      \* conn_id_map
    writer,      \* writer_map: the connection the stored sender feeds
    link,        \* per connection: its peer, and what its task is doing
    out,         \* per connection: packets handed to its writer, not yet sent
    transportQ,  \* transport_rx
    eventQ,      \* event_rx
    connQ,       \* conn_tx, read by the D-Bus service and the MPRIS bridge
    phoneYes,    \* history: phones that asked or accepted in this exchange
    userYes      \* history: devices the user asked for or accepted in it

maps == <<connId, writer>>
history == <<phoneYes, userYes>>
vars == <<disk, devices, connId, writer, link, out, transportQ, eventQ, connQ,
          phoneYes, userYes>>

ConnOrNone == Conn \cup {NoConn}
\* "offered": complete_handshake waits for the core's acceptance;
\* "live": handle_connection is running; "abandoned": the core accepted it, but
\* its handshake had given up by then and nobody runs it; "gone": none of these.
Phase == {"gone", "offered", "live", "abandoned"}
OutPacket == {"pair:true", "pair:false", "request"}
Link == [dev : Device, cert : Cert, phase : Phase]

TransportEvent ==
    [type : {"NewConnection", "PairTrue", "PairFalse", "Packet", "Disconnected"},
     conn : Conn]
\* Only a received packet carries the connection it came on.
CoreEvent ==
    [type : {"PacketReceived"}, dev : Device, conn : Conn, state : PairState]
        \cup [type  : {"DevicePaired", "PairStateChanged", "SendPacket"},
              dev   : Device,
              conn  : {NoConn},
              state : PairState]
ConnectionEvent ==
    [type  : {"Connected", "Disconnected", "DevicePaired", "PairStateChanged",
              "PairingRequested", "StateUpdated"},
     dev   : Device,
     state : PairState]

TypeOK ==
    /\ disk \in [Device -> FileRecord]
    /\ devices \in [Device -> MemDevice]
    /\ connId \in [Device -> ConnOrNone]
    /\ writer \in [Device -> ConnOrNone]
    /\ link \in [Conn -> Link]
    /\ out \in [Conn -> SUBSET OutPacket]
    /\ transportQ \in Seq(TransportEvent)
    /\ eventQ \in Seq(CoreEvent)
    /\ connQ \in Seq(ConnectionEvent)
    /\ phoneYes \in SUBSET Device
    /\ userYes \in SUBSET Device

-----------------------------------------------------------------------------
\* The process starts with whatever files earlier runs left behind, among
\* them pending requests and Paired records without a pin.
StoredRecord ==
    [state : PairState \ {"Paired"}, pin : {NoCert}]
        \cup [state : {"Paired"}, pin : CertOrNone]

Init ==
    /\ disk \in [Device -> StoredRecord]
    /\ \E d \in Device, x \in Cert :
          link = [c \in Conn |-> [dev |-> d, cert |-> x, phase |-> "gone"]]
    /\ devices = [d \in Device |-> Absent]
    /\ connId = [d \in Device |-> NoConn]
    /\ writer = [d \in Device |-> NoConn]
    /\ out = [c \in Conn |-> {}]
    /\ transportQ = <<>>
    /\ eventQ = <<>>
    /\ connQ = <<>>
    /\ phoneYes = {}
    /\ userYes = {}

-----------------------------------------------------------------------------
\* Queues.

Raise(type, d, c, s) ==
    /\ Len(eventQ) < EventCap
    /\ eventQ' = Append(eventQ, [type |-> type, dev |-> d, conn |-> c, state |-> s])

\* broadcast_conn_event
Tell(type, d, s) ==
    /\ Len(connQ) < UiCap
    /\ connQ' = Append(connQ, [type |-> type, dev |-> d, state |-> s])

\* A task of connection c sends to the core; it waits while the channel is full.
Report(type, c) ==
    /\ Len(transportQ) < TransportCap
    /\ transportQ' = Append(transportQ, [type |-> type, conn |-> c])

TransportHead(type, c) ==
    /\ transportQ # <<>>
    /\ Head(transportQ) = [type |-> type, conn |-> c]
    /\ transportQ' = Tail(transportQ)

CoreHead(type) ==
    /\ eventQ # <<>>
    /\ Head(eventQ).type = type
    /\ eventQ' = Tail(eventQ)

\* Hands a packet to the writer stored for d; it is lost if that connection's
\* task has already ended.
Send(d, kind) ==
    out' = [c \in Conn |->
              IF c = writer[d] /\ link[c].phase = "live" THEN out[c] \cup {kind}
                                                         ELSE out[c]]

Current(c) == connId[link[c].dev] = c

-----------------------------------------------------------------------------
\* DeviceManager.  A failed write leaves memory, file and queue as they were.

StoreFails == DiskMayFail /\ UNCHANGED <<disk, devices, eventQ>>

\* Mutant of UpdatePairState: the new state is not written to the file.
UpdatePairStateInMemory(d, s) ==
    /\ devices' = [devices EXCEPT ![d] = WithState(@, s)]
    /\ Raise("PairStateChanged", d, NoConn, s)
    /\ UNCHANGED disk

\* update_pair_state for a registered device
UpdatePairState(d, s) ==
    /\ disk' = [disk EXCEPT ![d] = StoreIn(devices[d], s)]
    /\ devices' = [devices EXCEPT ![d] = WithState(@, s)]
    /\ Raise("PairStateChanged", d, NoConn, s)

\* set_paired(true), which refuses unless a request is pending
Approve(d) ==
    /\ devices[d].state \in {"Requested", "Requesting"}
    /\ devices[d].cert # NoCert
    /\ disk' = [disk EXCEPT ![d] = StoreIn(Pinned(devices[d]), "Paired")]
    /\ devices' = [devices EXCEPT ![d] = Pinned(@)]
    /\ Raise("DevicePaired", d, NoConn, "Paired")

\* set_paired(false): an unregistered device only loses its file.
Revoke(d) ==
    /\ disk' = [disk EXCEPT ![d] = Blank]
    /\ devices' = [devices EXCEPT ![d] = WithState(@, "NotPaired")]
    /\ Raise("PairStateChanged", d, NoConn, "NotPaired")

Registered(d) == devices[d].cert # NoCert

EndExchange(d) ==
    /\ phoneYes' = phoneYes \ {d}
    /\ userYes' = userYes \ {d}

-----------------------------------------------------------------------------
\* A control connection, from its TLS handshake to the end of its task.

\* Nothing in the core refers to c any more, so c can stand for a new one.
Forgotten(c) ==
    /\ link[c].phase \in {"gone", "abandoned"}
    /\ \A d \in Device : connId[d] # c /\ writer[d] # c
    /\ \A i \in DOMAIN transportQ : transportQ[i].conn # c
    /\ \A i \in DOMAIN eventQ : eventQ[i].conn # c

\* complete_handshake, up to the offer of the connection to the core
Offer(c, d, x) ==
    /\ Forgotten(c)
    /\ link' = [link EXCEPT ![c] = [dev |-> d, cert |-> x, phase |-> "offered"]]
    /\ Report("NewConnection", c)
    /\ UNCHANGED <<disk, devices, maps, out, eventQ, connQ, history>>

\* The handshake's deadline expires while it waits for the core's answer.
HandshakeTimeout(c) ==
    /\ link[c].phase = "offered"
    /\ link' = [link EXCEPT ![c].phase = "gone"]
    /\ UNCHANGED <<disk, devices, maps, out, transportQ, eventQ, connQ, history>>

\* The read half of handle_connection passes on one line from the phone.
LinkReads(c, type) ==
    /\ link[c].phase = "live"
    /\ Report(type, c)
    /\ UNCHANGED <<disk, devices, maps, link, out, eventQ, connQ, history>>

\* The write half drains what it was given.
LinkWrites(c) ==
    /\ link[c].phase = "live"
    /\ out[c] # {}
    /\ out' = [out EXCEPT ![c] = {}]
    /\ UNCHANGED <<disk, devices, maps, link, transportQ, eventQ, connQ, history>>

\* Mutant of LinkEnds: the task returns without reporting its end.
LinkEndsSilently(c) ==
    /\ link[c].phase = "live"
    /\ link' = [link EXCEPT ![c].phase = "gone"]
    /\ out' = [out EXCEPT ![c] = {}]
    /\ UNCHANGED <<disk, devices, maps, transportQ, eventQ, connQ, history>>

\* One half ends: the peer closed, an error, or the core dropped the sender.
LinkEnds(c) ==
    /\ link[c].phase = "live"
    /\ Report("Disconnected", c)
    /\ link' = [link EXCEPT ![c].phase = "gone"]
    /\ out' = [out EXCEPT ![c] = {}]
    /\ UNCHANGED <<disk, devices, maps, eventQ, connQ, history>>
-----------------------------------------------------------------------------
\* transport_events

\* The record could not be read, its pin is another certificate, or another
\* certificate would replace the one of a connection that is still up.
Refuses(c) ==
    LET d == link[c].dev IN
    \/ ~BindAccepts(LoadFrom(disk[d]), link[c].cert)
    \/ connId[d] # NoConn /\ Registered(d) /\ devices[d].cert # link[c].cert

RefuseConnection(c) ==
    /\ TransportHead("NewConnection", c)
    /\ Refuses(c) \/ DiskMayFail
    /\ link' = [link EXCEPT ![c].phase = "gone"]
    /\ UNCHANGED <<disk, devices, maps, out, eventQ, connQ, history>>

\* The device is reloaded from its file, whatever was pending in memory; a
\* paired one is sent its contacts request and, through the event queue, the
\* command list.  Overwriting the sender ends the connection it fed.  accepted.send
\* succeeds as long as the handshake still holds the receiver; if its deadline has
\* elapsed since it last looked, it drops the receiver without having read it and
\* no task is started.  The core cannot tell and goes on as if there were one.
AcceptConnection(c) ==
    LET d == link[c].dev
        dev == Loaded(disk[d], link[c].cert)
    IN  /\ TransportHead("NewConnection", c)
        /\ ~Refuses(c)
        /\ link[c].phase = "offered"
        /\ devices' = [devices EXCEPT ![d] = dev]
        /\ connId' = [connId EXCEPT ![d] = c]
        /\ writer' = [writer EXCEPT ![d] = c]
        /\ \E phase \in {"live", "abandoned"} :
              /\ link' = [link EXCEPT ![c].phase = phase]
              /\ out' = IF dev.state = "Paired" /\ phase = "live"
                           THEN [out EXCEPT ![c] = {"request"}] ELSE out
        /\ EndExchange(d)
        /\ Tell("Connected", d, dev.state)
        /\ IF dev.state = "Paired" THEN Raise("SendPacket", d, NoConn, "Paired")
                                   ELSE UNCHANGED eventQ
        /\ UNCHANGED disk

\* The handshake has given up: its acceptance can no longer be delivered.  The
\* device has been replaced all the same, and the previous entries are gone.
AcceptTooLate(c) ==
    LET d == link[c].dev IN
    /\ TransportHead("NewConnection", c)
    /\ ~Refuses(c)
    /\ link[c].phase = "gone"
    /\ devices' = [devices EXCEPT ![d] = Loaded(disk[d], link[c].cert)]
    /\ connId' = [connId EXCEPT ![d] = NoConn]
    /\ writer' = [writer EXCEPT ![d] = NoConn]
    /\ EndExchange(d)
    /\ UNCHANGED <<disk, link, out, eventQ, connQ>>

\* The phone asks to pair, or accepts our request.
IncomingPairTrue(c) ==
    LET d == link[c].dev IN
    /\ TransportHead("PairTrue", c)
    /\ Current(c)
    /\ phoneYes' = phoneYes \cup {d}
    /\ \/ /\ devices[d].state = "Requesting"
          /\ Approve(d) \/ StoreFails
          /\ UNCHANGED connQ
       \/ /\ devices[d].state = "Paired"
          /\ UNCHANGED <<disk, devices, eventQ, connQ>>
       \/ /\ devices[d].state \notin {"Requesting", "Paired"}
          /\ UpdatePairState(d, "Requested") \/ StoreFails
          /\ Tell("PairingRequested", d, "Requested")
    /\ UNCHANGED <<maps, link, out, userYes>>

\* The phone unpairs; from a device that is not paired this is ignored.
IncomingPairFalse(c) ==
    LET d == link[c].dev IN
    /\ TransportHead("PairFalse", c)
    /\ Current(c)
    /\ IF devices[d].state = "Paired"
          THEN /\ \/ UpdatePairState(d, "NotPaired") /\ EndExchange(d)
                  \/ StoreFails /\ UNCHANGED history
               /\ Tell("PairStateChanged", d, "NotPaired")
          ELSE UNCHANGED <<disk, devices, eventQ, connQ, history>>
    /\ UNCHANGED <<maps, link, out>>

\* Any other packet goes back into the event queue, with its connection.
IncomingPacket(c) ==
    /\ TransportHead("Packet", c)
    /\ Current(c)
    /\ Raise("PacketReceived", link[c].dev, c, "NotPaired")
    /\ UNCHANGED <<disk, devices, maps, link, out, connQ, history>>

IgnoreStalePacket(c) ==
    /\ \E type \in {"PairTrue", "PairFalse", "Packet"} : TransportHead(type, c)
    /\ ~Current(c)
    /\ UNCHANGED <<disk, devices, maps, link, out, eventQ, connQ, history>>

\* Mutants of Disconnected: a stale event removes the entry; it is announced.
DisconnectedUnchecked(c) ==
    LET d == link[c].dev IN
    /\ TransportHead("Disconnected", c)
    /\ connId' = [connId EXCEPT ![d] = NoConn]
    /\ writer' = [writer EXCEPT ![d] = NoConn]
    /\ Tell("Disconnected", d, "NotPaired")
    /\ UNCHANGED <<disk, devices, link, out, eventQ, history>>

DisconnectedAlwaysTold(c) ==
    LET d == link[c].dev IN
    /\ TransportHead("Disconnected", c)
    /\ IF connId[d] \in {c, NoConn}
          THEN /\ connId' = [connId EXCEPT ![d] = NoConn]
               /\ writer' = [writer EXCEPT ![d] = NoConn]
          ELSE UNCHANGED maps
    /\ Tell("Disconnected", d, "NotPaired")
    /\ UNCHANGED <<disk, devices, link, out, eventQ, history>>

\* Only another connection's entry marks the event as stale; when there is no
\* entry the clean-up and the announcement happen again.
Disconnected(c) ==
    LET d == link[c].dev IN
    /\ TransportHead("Disconnected", c)
    /\ IF connId[d] \in {c, NoConn}
          THEN /\ connId' = [connId EXCEPT ![d] = NoConn]
               /\ writer' = [writer EXCEPT ![d] = NoConn]
               /\ Tell("Disconnected", d, "NotPaired")
          ELSE UNCHANGED <<maps, connQ>>
    /\ UNCHANGED <<disk, devices, link, out, eventQ, history>>

TransportStep ==
    \E c \in Conn :
        \/ RefuseConnection(c) \/ AcceptConnection(c) \/ AcceptTooLate(c)
        \/ IncomingPairTrue(c) \/ IncomingPairFalse(c) \/ IncomingPacket(c)
        \/ IgnoreStalePacket(c) \/ Disconnected(c)

-----------------------------------------------------------------------------
\* core_events

\* Mutant of PacketReceived: the connection is not compared again.
PacketReceivedFromAny ==
    /\ CoreHead("PacketReceived")
    /\ LET e == Head(eventQ) IN
         IF devices[e.dev].state = "Paired"
           THEN Tell("StateUpdated", e.dev, "Paired")
           ELSE UNCHANGED connQ
    /\ UNCHANGED <<disk, devices, maps, link, out, transportQ, history>>

\* A packet reaches the plugins only over the current connection of a paired
\* device; a status plugin (battery, connectivity) then informs the listeners.
PacketReceived ==
    /\ CoreHead("PacketReceived")
    /\ LET e == Head(eventQ) IN
         IF connId[e.dev] = e.conn /\ devices[e.dev].state = "Paired"
           THEN Tell("StateUpdated", e.dev, "Paired")
           ELSE UNCHANGED connQ
    /\ UNCHANGED <<disk, devices, maps, link, out, transportQ, history>>

\* Requests contacts and players, if those plugins are on, without asking
\* again whether the device is still paired.
DevicePaired ==
    /\ CoreHead("DevicePaired")
    /\ LET d == Head(eventQ).dev IN
         /\ Send(d, "request") \/ UNCHANGED out
         /\ Tell("DevicePaired", d, "Paired")
    /\ UNCHANGED <<disk, devices, maps, link, transportQ, history>>

\* DevicePairCancelled and DevicePairStateChanged
PairStateChanged ==
    /\ CoreHead("PairStateChanged")
    /\ Tell("PairStateChanged", Head(eventQ).dev, Head(eventQ).state)
    /\ UNCHANGED <<disk, devices, maps, link, out, transportQ, history>>

SendPacket ==
    /\ CoreHead("SendPacket")
    /\ LET d == Head(eventQ).dev IN
         IF Trusted(devices[d]) THEN Send(d, "request") ELSE UNCHANGED out
    /\ UNCHANGED <<disk, devices, maps, link, transportQ, connQ, history>>

CoreStep == PacketReceived \/ DevicePaired \/ PairStateChanged \/ SendPacket

-----------------------------------------------------------------------------
\* kde_events: what the user asks for, at any time.

Pair(d) ==
    /\ writer[d] # NoConn
    /\ ~Trusted(devices[d])
    /\ Send(d, "pair:true")
    /\ \/ UpdatePairState(d, "Requesting") /\ userYes' = userYes \cup {d}
       \/ StoreFails /\ UNCHANGED userYes
    /\ UNCHANGED <<maps, link, transportQ, connQ, phoneYes>>

\* Mutant of AcceptPairing: the click counts whatever the phone asked for.
AcceptPairingUnasked(d) ==
    /\ writer[d] # NoConn
    /\ \/ Approve(d) /\ Send(d, "pair:true") /\ userYes' = userYes \cup {d}
       \/ StoreFails /\ UNCHANGED <<out, userYes>>
    /\ UNCHANGED <<maps, link, transportQ, connQ, phoneYes>>

AcceptPairing(d) ==
    /\ writer[d] # NoConn
    /\ devices[d].state = "Requested"
    /\ \/ Approve(d) /\ Send(d, "pair:true") /\ userYes' = userYes \cup {d}
       \/ StoreFails /\ UNCHANGED <<out, userYes>>
    /\ UNCHANGED <<maps, link, transportQ, connQ, phoneYes>>

\* Whatever the device's state is.
RejectPairing(d) ==
    /\ Send(d, "pair:false")
    /\ \/ Registered(d) /\ UpdatePairState(d, "NotPaired") /\ EndExchange(d)
       \/ Registered(d) /\ StoreFails /\ UNCHANGED history
       \/ ~Registered(d) /\ UNCHANGED <<disk, devices, eventQ, history>>
    /\ UNCHANGED <<maps, link, transportQ, connQ>>

Unpair(d) ==
    /\ Send(d, "pair:false")
    /\ \/ /\ Revoke(d)
          /\ EndExchange(d)
          /\ Tell("PairStateChanged", d, "NotPaired")
       \/ StoreFails /\ UNCHANGED <<connQ, history>>
    /\ UNCHANGED <<maps, link, transportQ>>

Disconnect(d) ==
    /\ writer[d] # NoConn
    /\ connId' = [connId EXCEPT ![d] = NoConn]
    /\ writer' = [writer EXCEPT ![d] = NoConn]
    /\ Tell("Disconnected", d, "NotPaired")
    /\ UNCHANGED <<disk, devices, link, out, transportQ, eventQ, history>>

\* SetPluginEnabled drops the connection, unannounced, so that the phone
\* reconnects; the plugin sets it changes are in PluginGate.
SetPluginEnabled(d) ==
    /\ writer[d] # NoConn
    /\ connId' = [connId EXCEPT ![d] = NoConn]
    /\ writer' = [writer EXCEPT ![d] = NoConn]
    /\ UNCHANGED <<disk, devices, link, out, transportQ, eventQ, connQ, history>>

\* The applet sends a packet (SendPacket, SendPacketWithReply).
AppSends(d) ==
    /\ Trusted(devices[d])
    /\ Send(d, "request")
    /\ UNCHANGED <<disk, devices, maps, link, transportQ, eventQ, connQ, history>>

AppStep ==
    \E d \in Device :
        \/ Pair(d) \/ AcceptPairing(d) \/ RejectPairing(d) \/ Unpair(d)
        \/ Disconnect(d) \/ SetPluginEnabled(d) \/ AppSends(d)

-----------------------------------------------------------------------------
\* A plugin's own task (mpris, systemvolume, a reply) has a packet to send.
PluginSends(d) ==
    /\ Raise("SendPacket", d, NoConn, "Paired")
    /\ UNCHANGED <<disk, devices, maps, link, out, transportQ, connQ, history>>

ListenerTakes ==
    /\ connQ # <<>>
    /\ connQ' = Tail(connQ)
    /\ UNCHANGED <<disk, devices, maps, link, out, transportQ, eventQ, history>>

\* The service stops, at any point, and is started again.
Restart ==
    /\ devices' = [d \in Device |-> Absent]
    /\ connId' = [d \in Device |-> NoConn]
    /\ writer' = [d \in Device |-> NoConn]
    /\ out' = [c \in Conn |-> {}]
    /\ transportQ' = <<>>
    /\ eventQ' = <<>>
    /\ connQ' = <<>>
    /\ phoneYes' = {}
    /\ userYes' = {}
    /\ link' = [c \in Conn |-> [link[c] EXCEPT !.phase = "gone"]]
    /\ UNCHANGED disk

LinkStep ==
    \E c \in Conn :
        \/ \E d \in Device, x \in Cert : Offer(c, d, x)
        \/ HandshakeTimeout(c)
        \/ \E type \in {"PairTrue", "PairFalse", "Packet"} : LinkReads(c, type)
        \/ LinkWrites(c)
        \/ LinkEnds(c)

RunStep ==
    \/ LinkStep
    \/ TransportStep
    \/ CoreStep
    \/ AppStep
    \/ \E d \in Device : PluginSends(d)

Next == RunStep \/ ListenerTakes \/ Restart

Spec == Init /\ [][Next]_vars

\* select! polls its branches in random order, so an event that stays at the
\* head of a queue is handled in the end.  The bounds EventCap and UiCap can
\* switch a handler off for a while where the code's unbounded queues would
\* not, hence strong fairness; a task that waits for room in the transport
\* channel is served in turn.  A dropped sender ends its connection's task, and
\* the handshake's deadline ends the wait for the core.  Nothing obliges a
\* phone or a user to do anything.
LoopFairness ==
    /\ SF_vars(TransportStep)
    /\ SF_vars(CoreStep)
    /\ \A c \in Conn :
          /\ SF_vars(LinkEnds(c) /\ writer[link[c].dev] # c)
          /\ WF_vars(HandshakeTimeout(c))

FairSpec == Spec /\ LoopFairness /\ WF_vars(ListenerTakes)
-----------------------------------------------------------------------------
(***************************************************************************)
(* Safety.                                                                 *)
(***************************************************************************)

\* Memory and file never disagree about whom the core trusts, and under which
\* certificate, although they are written one after the other and either may
\* be replaced by a reload (set_paired, update_pair_state, NewConnection).
MemoryAgreesWithFile ==
    \A d \in Device : Registered(d) => PinOf(devices[d]) = PinOf(disk[d])

\* conn_id_map and writer_map name the same connection, one whose peer is this
\* device under the certificate the core holds for it; for a trusted device
\* that is the pinned one (NewConnection, Disconnect, SetPluginEnabled).
EntryIsAuthentic ==
    \A d \in Device :
        /\ writer[d] = connId[d]
        /\ connId[d] # NoConn =>
              /\ link[connId[d]].dev = d
              /\ link[connId[d]].cert = devices[d].cert
              /\ PinOf(devices[d]) \in {NoCert, link[connId[d]].cert}

\* An entry of a connection that has ended is already on its way out: no
\* writer stays in the map with nothing left to remove it.  The exception is a
\* connection accepted at the very deadline of its handshake: it has no task,
\* nothing reports its end, and its entry stays until the phone reconnects, the
\* user disconnects or switches a plugin, or the service restarts.
DeadEntryIsBeingRemoved ==
    \A d \in Device :
        (connId[d] # NoConn /\ link[connId[d]].phase \notin {"live", "abandoned"}) =>
            \E i \in DOMAIN transportQ :
                transportQ[i] = [type |-> "Disconnected", conn |-> connId[d]]

\* The two together: whoever the core would write to or tell is the peer that
\* was registered, or is about to be forgotten (or was never served at all, as
\* DeadEntryIsBeingRemoved says).
EntriesAreSound == EntryIsAuthentic /\ DeadEntryIsBeingRemoved

\* A request pending in memory is backed by what was said on the connection
\* that is registered now: reconnecting starts over (device.rs test
\* pending_approval_does_not_survive_reconnection).
PendingIsFromThisExchange ==
    \A d \in Device :
        /\ devices[d].state = "Requested" => d \in phoneYes
        /\ devices[d].state = "Requesting" => d \in userYes

\* In memory, a paired device has a pin and a device that is not NotPaired has
\* a connection certificate; both come from the load and from set_paired.
StateIsBacked ==
    \A d \in Device :
        /\ devices[d].state = "Paired" => devices[d].pin # NoCert
        /\ devices[d].state # "NotPaired" => Registered(d)

\* A connection is offered once, before anything else it reports, and reports
\* its end last; it is registered only in between.
ReportsInOrder ==
    /\ \A d \in Device : connId[d] # NoConn => link[connId[d]].phase # "offered"
    /\ \A i \in DOMAIN transportQ :
          LET e == transportQ[i] IN
          /\ e.type \in {"NewConnection", "Disconnected"} => link[e.conn].phase # "live"
          /\ e.type = "NewConnection" =>
                /\ \A d \in Device : connId[d] # e.conn
                /\ \A j \in DOMAIN transportQ \ {i} : transportQ[j].conn # e.conn

\* The inductive invariant of CoreLoopProofs.
IndInv ==
    /\ TypeOK
    /\ MemoryAgreesWithFile
    /\ EntryIsAuthentic
    /\ PendingIsFromThisExchange
    /\ StateIsBacked

-----------------------------------------------------------------------------
(***************************************************************************)
(* What a step may never do.                                               *)
(***************************************************************************)

\* A packet has an effect only if the connection it came on is the device's
\* current one and carried the certificate the device's file pins at that
\* moment, however long the packet waited in the event queue.
EffectOnlyUnderTrust ==
    [][ (connQ' # <<>> /\ Len(connQ') > Len(connQ)
            /\ connQ'[Len(connQ')].type = "StateUpdated")
        => LET e == Head(eventQ) IN
             /\ connId[e.dev] = e.conn
             /\ link[e.conn].cert = PinOf(disk[e.dev]) ]_vars

\* While a connection's task runs, no transport event of another connection
\* takes its entry away, except a new connection of the same device.
StaleEventKeepsLiveEntry ==
    [][ \A d \in Device :
          (/\ connId[d] # NoConn
           /\ link[connId[d]].phase = "live" /\ link'[connId[d]].phase = "live"
           /\ transportQ # <<>> /\ transportQ' = Tail(transportQ)
           /\ connId'[d] # connId[d])
          => /\ Head(transportQ).type = "NewConnection"
             /\ link[Head(transportQ).conn].dev = d ]_vars

\* A connection that was served and has ended does not stay registered: the next
\* packet for the device cannot be handed to it for ever.  (One accepted at the
\* deadline was never served, and may stay: see DeadEntryIsBeingRemoved.)
DeadEntryIsRemoved ==
    \A d \in Device, c \in Conn :
        (connId[d] = c /\ link[c].phase = "gone") ~> (connId[d] # c)

\* Pairing as the code carries it out implements Trust.
Pairing == INSTANCE Trust WITH
    trust <- [d \in Device |-> PinOf(disk[d])],
    peer  <- [d \in Device |-> devices[d].cert]

ImplementsTrust == Pairing!Spec
=============================================================================
