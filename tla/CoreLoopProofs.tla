--------------------------- MODULE CoreLoopProofs ---------------------------
(***************************************************************************)
(* Theorems about CoreLoop, for any devices, certificates, connections and *)
(* queue bounds.                                                           *)
(***************************************************************************)
EXTENDS CoreLoop, TLAPS

-----------------------------------------------------------------------------
(***************************************************************************)
(* The functions of DeviceStore.                                           *)
(***************************************************************************)

\* What is written to a file is a file record.
LEMMA StoreInTyped ==
    ASSUME NEW dev \in MemDevice, NEW s \in PairState
    PROVE  StoreIn(dev, s) \in FileRecord
BY DEF StoreIn, MemDevice, FileRecord, CertOrNone

\* Changing the state, pinning and reloading give devices.
LEMMA WithStateTyped ==
    ASSUME NEW dev \in MemDevice, NEW s \in PairState
    PROVE  WithState(dev, s) \in MemDevice
BY DEF WithState, MemDevice, CertOrNone

LEMMA PinnedTyped ==
    ASSUME NEW dev \in MemDevice
    PROVE  Pinned(dev) \in MemDevice
BY DEF Pinned, MemDevice, PairState

LEMMA LoadedTyped ==
    ASSUME NEW rec \in FileRecord, NEW x \in Cert
    PROVE  Loaded(rec, x) \in MemDevice
BY DEF Loaded, LoadFrom, Trusted, Blank, MemDevice, FileRecord, PairState,
       CertOrNone

LEMMA BlankTyped == Blank \in FileRecord /\ Absent \in MemDevice
BY DEF Blank, Absent, FileRecord, MemDevice, PairState, CertOrNone

-----------------------------------------------------------------------------
(***************************************************************************)
(* The queues keep their types.                                            *)
(***************************************************************************)

LEMMA RaiseTyped ==
    ASSUME TypeOK, NEW d \in Device, NEW s \in PairState,
           NEW type, NEW c, Raise(type, d, c, s),
           \/ type = "PacketReceived" /\ c \in Conn
           \/ type \in {"DevicePaired", "PairStateChanged", "SendPacket"} /\ c = NoConn
    PROVE  eventQ' \in Seq(CoreEvent)
<1>1. [type |-> type, dev |-> d, conn |-> c, state |-> s] \in CoreEvent
  BY DEF CoreEvent
<1>. QED BY <1>1 DEF Raise, TypeOK

LEMMA TellTyped ==
    ASSUME TypeOK, NEW d \in Device, NEW s \in PairState,
           NEW type \in {"Connected", "Disconnected", "DevicePaired",
                         "PairStateChanged", "PairingRequested", "StateUpdated"},
           Tell(type, d, s)
    PROVE  connQ' \in Seq(ConnectionEvent)
<1>1. [type |-> type, dev |-> d, state |-> s] \in ConnectionEvent
  BY DEF ConnectionEvent
<1>. QED BY <1>1 DEF Tell, TypeOK

LEMMA ReportTyped ==
    ASSUME TypeOK, NEW c \in Conn,
           NEW type \in {"NewConnection", "PairTrue", "PairFalse", "Packet",
                         "Disconnected"},
           Report(type, c)
    PROVE  transportQ' \in Seq(TransportEvent)
<1>1. [type |-> type, conn |-> c] \in TransportEvent
  BY DEF TransportEvent
<1>. QED BY <1>1 DEF Report, TypeOK

LEMMA TransportHeadTyped ==
    ASSUME TypeOK, NEW type, NEW c, TransportHead(type, c)
    PROVE  transportQ' \in Seq(TransportEvent)
BY DEF TransportHead, TypeOK

LEMMA CoreHeadTyped ==
    ASSUME TypeOK, NEW type, CoreHead(type)
    PROVE  /\ Head(eventQ) \in CoreEvent
           /\ Head(eventQ).dev \in Device
           /\ Head(eventQ).state \in PairState
           /\ eventQ' \in Seq(CoreEvent)
<1>1. Head(eventQ) \in CoreEvent /\ eventQ' \in Seq(CoreEvent)
  BY DEF CoreHead, TypeOK
<1>. QED BY <1>1 DEF CoreEvent

LEMMA SendTyped ==
    ASSUME TypeOK, NEW d \in Device, NEW kind \in OutPacket, Send(d, kind)
    PROVE  out' \in [Conn -> SUBSET OutPacket]
BY DEF Send, TypeOK

\* The store operations keep files, devices and the event queue well typed.
LEMMA StoreTyped ==
    ASSUME TypeOK, NEW d \in Device,
           \/ \E s \in PairState : UpdatePairState(d, s)
           \/ Approve(d)
           \/ Revoke(d)
           \/ StoreFails
    PROVE  /\ disk' \in [Device -> FileRecord]
           /\ devices' \in [Device -> MemDevice]
           /\ eventQ' \in Seq(CoreEvent)
<1>0. devices[d] \in MemDevice
  BY DEF TypeOK
<1>1. CASE \E s \in PairState : UpdatePairState(d, s)
  <2>1. PICK s \in PairState : UpdatePairState(d, s)
    BY <1>1
  <2>2. eventQ' \in Seq(CoreEvent)
    BY <2>1, RaiseTyped DEF UpdatePairState
  <2>. QED
    BY <1>0, <2>1, <2>2, StoreInTyped, WithStateTyped DEF UpdatePairState, TypeOK
<1>2. CASE Approve(d)
  <2>1. "Paired" \in PairState
    BY DEF PairState
  <2>2. eventQ' \in Seq(CoreEvent)
    BY <1>2, <2>1, RaiseTyped DEF Approve
  <2>3. Pinned(devices[d]) \in MemDevice
    BY <1>0, PinnedTyped
  <2>. QED
    BY <1>2, <2>1, <2>2, <2>3, StoreInTyped DEF Approve, TypeOK
<1>3. CASE Revoke(d)
  <2>1. "NotPaired" \in PairState
    BY DEF PairState
  <2>2. eventQ' \in Seq(CoreEvent)
    BY <1>3, <2>1, RaiseTyped DEF Revoke
  <2>. QED
    BY <1>0, <1>3, <2>1, <2>2, BlankTyped, WithStateTyped DEF Revoke, TypeOK
<1>4. CASE StoreFails
  BY <1>4 DEF StoreFails, TypeOK
<1>. QED BY <1>1, <1>2, <1>3, <1>4

-----------------------------------------------------------------------------
(***************************************************************************)
(* Type correctness, handler by handler.                                   *)
(***************************************************************************)

LEMMA LinkStepTyped == TypeOK /\ LinkStep => TypeOK'
<1> SUFFICES ASSUME TypeOK, NEW c \in Conn,
                    \/ \E d \in Device, x \in Cert : Offer(c, d, x)
                    \/ HandshakeTimeout(c)
                    \/ \E type \in {"PairTrue", "PairFalse", "Packet"} : LinkReads(c, type)
                    \/ LinkWrites(c)
                    \/ LinkEnds(c)
             PROVE  TypeOK'
  BY DEF LinkStep
<1>1. ASSUME NEW d \in Device, NEW x \in Cert, Offer(c, d, x) PROVE TypeOK'
  <2>1. transportQ' \in Seq(TransportEvent)
    BY <1>1, ReportTyped DEF Offer
  <2>. QED BY <1>1, <2>1 DEF Offer, TypeOK, Link, Phase, maps, history
<1>2. CASE HandshakeTimeout(c)
  BY <1>2 DEF HandshakeTimeout, TypeOK, Link, Phase, maps, history
<1>3. ASSUME NEW type \in {"PairTrue", "PairFalse", "Packet"}, LinkReads(c, type)
      PROVE  TypeOK'
  <2>1. transportQ' \in Seq(TransportEvent)
    BY <1>3, ReportTyped DEF LinkReads
  <2>. QED BY <1>3, <2>1 DEF LinkReads, TypeOK, maps, history
<1>4. CASE LinkWrites(c)
  BY <1>4 DEF LinkWrites, TypeOK, maps, history
<1>5. CASE LinkEnds(c)
  <2>1. transportQ' \in Seq(TransportEvent)
    BY <1>5, ReportTyped DEF LinkEnds
  <2>. QED BY <1>5, <2>1 DEF LinkEnds, TypeOK, Link, Phase, maps, history
<1>. QED BY <1>1, <1>2, <1>3, <1>4, <1>5

\* The connection handlers.
LEMMA ConnectionTyped ==
    ASSUME TypeOK, NEW c \in Conn,
           \/ RefuseConnection(c) \/ AcceptConnection(c) \/ AcceptTooLate(c)
           \/ Disconnected(c)
    PROVE  TypeOK'
<1>0. link[c].dev \in Device /\ link[c].cert \in Cert
  BY DEF TypeOK, Link
<1>1. Loaded(disk[link[c].dev], link[c].cert) \in MemDevice
  BY <1>0, LoadedTyped DEF TypeOK
<1>2. CASE RefuseConnection(c)
  <2>1. transportQ' \in Seq(TransportEvent)
    BY <1>2, TransportHeadTyped DEF RefuseConnection
  <2>. QED BY <1>2, <2>1 DEF RefuseConnection, TypeOK, Link, Phase, maps, history
<1>3. CASE AcceptConnection(c)
  <2> DEFINE d == link[c].dev
             dev == Loaded(disk[d], link[c].cert)
  <2>1. transportQ' \in Seq(TransportEvent)
    BY <1>3, TransportHeadTyped DEF AcceptConnection
  <2>2. dev.state \in PairState /\ "Paired" \in PairState
    BY <1>1 DEF MemDevice, PairState
  <2>3. connQ' \in Seq(ConnectionEvent)
    BY <1>0, <1>3, <2>2, TellTyped DEF AcceptConnection
  <2>4. eventQ' \in Seq(CoreEvent)
    <3>1. CASE dev.state = "Paired"
      BY <1>0, <1>3, <2>2, <3>1, RaiseTyped DEF AcceptConnection
    <3>2. CASE dev.state # "Paired"
      BY <1>3, <3>2 DEF AcceptConnection, TypeOK
    <3>. QED BY <3>1, <3>2
  <2>5. out' \in [Conn -> SUBSET OutPacket]
    BY <1>3 DEF AcceptConnection, TypeOK, OutPacket
  <2>6. link' \in [Conn -> Link]
    BY <1>3 DEF AcceptConnection, TypeOK, Link, Phase
  <2>. QED
    BY <1>0, <1>1, <1>3, <2>1, <2>3, <2>4, <2>5, <2>6
       DEF AcceptConnection, EndExchange, TypeOK, ConnOrNone
<1>4. CASE AcceptTooLate(c)
  <2>1. transportQ' \in Seq(TransportEvent)
    BY <1>4, TransportHeadTyped DEF AcceptTooLate
  <2>. QED
    BY <1>0, <1>1, <1>4, <2>1 DEF AcceptTooLate, EndExchange, TypeOK, ConnOrNone
<1>5. CASE Disconnected(c)
  <2>1. transportQ' \in Seq(TransportEvent)
    BY <1>5, TransportHeadTyped DEF Disconnected
  <2>2. "NotPaired" \in PairState
    BY DEF PairState
  <2>3. connQ' \in Seq(ConnectionEvent)
    <3>1. CASE connId[link[c].dev] \in {c, NoConn}
      BY <1>0, <1>5, <2>2, <3>1, TellTyped DEF Disconnected
    <3>2. CASE connId[link[c].dev] \notin {c, NoConn}
      BY <1>5, <3>2 DEF Disconnected, TypeOK
    <3>. QED BY <3>1, <3>2
  <2>. QED
    BY <1>0, <1>5, <2>1, <2>3 DEF Disconnected, TypeOK, ConnOrNone, maps, history
<1>. QED BY <1>2, <1>3, <1>4, <1>5

\* The handlers of what a phone sends.
LEMMA IncomingTyped ==
    ASSUME TypeOK, NEW c \in Conn,
           \/ IncomingPairTrue(c) \/ IncomingPairFalse(c) \/ IncomingPacket(c)
           \/ IgnoreStalePacket(c)
    PROVE  TypeOK'
<1>0. /\ link[c].dev \in Device
      /\ {"NotPaired", "Requested"} \subseteq PairState
  BY DEF TypeOK, Link, PairState
<1>1. CASE IncomingPairTrue(c)
  <2>1. transportQ' \in Seq(TransportEvent)
    BY <1>1, TransportHeadTyped DEF IncomingPairTrue
  <2>2. connQ' \in Seq(ConnectionEvent)
    BY <1>0, <1>1, TellTyped DEF IncomingPairTrue, TypeOK
  <2>3. /\ disk' \in [Device -> FileRecord]
        /\ devices' \in [Device -> MemDevice]
        /\ eventQ' \in Seq(CoreEvent)
    <3>1. CASE Approve(link[c].dev) \/ StoreFails
      BY <1>0, <3>1, StoreTyped
    <3>2. CASE UpdatePairState(link[c].dev, "Requested")
      BY <1>0, <3>2, StoreTyped
    <3>3. CASE UNCHANGED <<disk, devices, eventQ>>
      BY <3>3 DEF TypeOK
    <3>. QED BY <1>1, <3>1, <3>2, <3>3 DEF IncomingPairTrue
  <2>. QED
    BY <1>0, <1>1, <2>1, <2>2, <2>3 DEF IncomingPairTrue, TypeOK, maps
<1>2. CASE IncomingPairFalse(c)
  <2>1. transportQ' \in Seq(TransportEvent)
    BY <1>2, TransportHeadTyped DEF IncomingPairFalse
  <2>2. connQ' \in Seq(ConnectionEvent)
    BY <1>0, <1>2, TellTyped DEF IncomingPairFalse, TypeOK
  <2>3. /\ disk' \in [Device -> FileRecord]
        /\ devices' \in [Device -> MemDevice]
        /\ eventQ' \in Seq(CoreEvent)
    <3>1. CASE UpdatePairState(link[c].dev, "NotPaired") \/ StoreFails
      BY <1>0, <3>1, StoreTyped
    <3>2. CASE UNCHANGED <<disk, devices, eventQ>>
      BY <3>2 DEF TypeOK
    <3>. QED BY <1>2, <3>1, <3>2 DEF IncomingPairFalse
  <2>. QED
    BY <1>0, <1>2, <2>1, <2>2, <2>3
       DEF IncomingPairFalse, EndExchange, TypeOK, maps, history
<1>3. CASE IncomingPacket(c)
  <2>1. transportQ' \in Seq(TransportEvent)
    BY <1>3, TransportHeadTyped DEF IncomingPacket
  <2>2. eventQ' \in Seq(CoreEvent)
    BY <1>0, <1>3, RaiseTyped DEF IncomingPacket
  <2>. QED BY <1>3, <2>1, <2>2 DEF IncomingPacket, TypeOK, maps, history
<1>4. CASE IgnoreStalePacket(c)
  <2>1. transportQ' \in Seq(TransportEvent)
    BY <1>4, TransportHeadTyped DEF IgnoreStalePacket
  <2>. QED BY <1>4, <2>1 DEF IgnoreStalePacket, TypeOK, maps, history
<1>. QED BY <1>1, <1>2, <1>3, <1>4

LEMMA CoreStepTyped == TypeOK /\ CoreStep => TypeOK'
<1> SUFFICES ASSUME TypeOK, CoreStep PROVE TypeOK'
  OBVIOUS
<1>0. "Paired" \in PairState /\ "request" \in OutPacket
  BY DEF PairState, OutPacket
<1>1. CASE PacketReceived
  <2>1. Head(eventQ).dev \in Device /\ eventQ' \in Seq(CoreEvent)
    BY <1>1, CoreHeadTyped DEF PacketReceived
  <2>2. connQ' \in Seq(ConnectionEvent)
    <3>1. CASE Tell("StateUpdated", Head(eventQ).dev, "Paired")
      BY <1>0, <2>1, <3>1, TellTyped
    <3>2. CASE UNCHANGED connQ
      BY <3>2 DEF TypeOK
    <3>. QED BY <1>1, <3>1, <3>2 DEF PacketReceived
  <2>. QED BY <1>1, <2>1, <2>2 DEF PacketReceived, TypeOK, maps, history
<1>2. CASE DevicePaired
  <2>1. Head(eventQ).dev \in Device /\ eventQ' \in Seq(CoreEvent)
    BY <1>2, CoreHeadTyped DEF DevicePaired
  <2>2. connQ' \in Seq(ConnectionEvent)
    BY <1>0, <1>2, <2>1, TellTyped DEF DevicePaired
  <2>3. out' \in [Conn -> SUBSET OutPacket]
    BY <1>0, <1>2, <2>1, SendTyped DEF DevicePaired, TypeOK
  <2>. QED BY <1>2, <2>1, <2>2, <2>3 DEF DevicePaired, TypeOK, maps, history
<1>3. CASE PairStateChanged
  <2>1. /\ Head(eventQ).dev \in Device /\ eventQ' \in Seq(CoreEvent)
        /\ Head(eventQ).state \in PairState
    BY <1>3, CoreHeadTyped DEF PairStateChanged
  <2>2. connQ' \in Seq(ConnectionEvent)
    BY <1>3, <2>1, TellTyped DEF PairStateChanged
  <2>. QED BY <1>3, <2>1, <2>2 DEF PairStateChanged, TypeOK, maps, history
<1>4. CASE SendPacket
  <2>1. Head(eventQ).dev \in Device /\ eventQ' \in Seq(CoreEvent)
    BY <1>4, CoreHeadTyped DEF SendPacket
  <2>2. out' \in [Conn -> SUBSET OutPacket]
    BY <1>0, <1>4, <2>1, SendTyped DEF SendPacket, TypeOK
  <2>. QED BY <1>4, <2>1, <2>2 DEF SendPacket, TypeOK, maps, history
<1>. QED BY <1>1, <1>2, <1>3, <1>4 DEF CoreStep

LEMMA AppStepTyped == TypeOK /\ AppStep => TypeOK'
<1> SUFFICES ASSUME TypeOK, NEW d \in Device,
                    \/ Pair(d) \/ AcceptPairing(d) \/ RejectPairing(d) \/ Unpair(d)
                    \/ Disconnect(d) \/ SetPluginEnabled(d) \/ AppSends(d)
             PROVE  TypeOK'
  BY DEF AppStep
<1>0. /\ {"NotPaired", "Requesting"} \subseteq PairState
      /\ OutPacket = {"pair:true", "pair:false", "request"}
  BY DEF PairState, OutPacket
<1>1. CASE Pair(d)
  <2>1. out' \in [Conn -> SUBSET OutPacket]
    BY <1>0, <1>1, SendTyped DEF Pair
  <2>2. /\ disk' \in [Device -> FileRecord]
        /\ devices' \in [Device -> MemDevice]
        /\ eventQ' \in Seq(CoreEvent)
    BY <1>0, <1>1, StoreTyped DEF Pair
  <2>. QED BY <1>1, <2>1, <2>2 DEF Pair, TypeOK, maps
<1>2. CASE AcceptPairing(d)
  <2>1. out' \in [Conn -> SUBSET OutPacket]
    BY <1>0, <1>2, SendTyped DEF AcceptPairing, TypeOK
  <2>2. /\ disk' \in [Device -> FileRecord]
        /\ devices' \in [Device -> MemDevice]
        /\ eventQ' \in Seq(CoreEvent)
    BY <1>2, StoreTyped DEF AcceptPairing
  <2>. QED BY <1>2, <2>1, <2>2 DEF AcceptPairing, TypeOK, maps
<1>3. CASE RejectPairing(d)
  <2>1. out' \in [Conn -> SUBSET OutPacket]
    BY <1>0, <1>3, SendTyped DEF RejectPairing
  <2>2. /\ disk' \in [Device -> FileRecord]
        /\ devices' \in [Device -> MemDevice]
        /\ eventQ' \in Seq(CoreEvent)
    <3>1. CASE UpdatePairState(d, "NotPaired") \/ StoreFails
      BY <1>0, <3>1, StoreTyped
    <3>2. CASE UNCHANGED <<disk, devices, eventQ>>
      BY <3>2 DEF TypeOK
    <3>. QED BY <1>3, <3>1, <3>2 DEF RejectPairing
  <2>. QED
    BY <1>3, <2>1, <2>2 DEF RejectPairing, EndExchange, TypeOK, maps, history
<1>4. CASE Unpair(d)
  <2>1. out' \in [Conn -> SUBSET OutPacket]
    BY <1>0, <1>4, SendTyped DEF Unpair
  <2>2. /\ disk' \in [Device -> FileRecord]
        /\ devices' \in [Device -> MemDevice]
        /\ eventQ' \in Seq(CoreEvent)
    BY <1>4, StoreTyped DEF Unpair
  <2>3. connQ' \in Seq(ConnectionEvent)
    BY <1>0, <1>4, TellTyped DEF Unpair, TypeOK
  <2>. QED
    BY <1>4, <2>1, <2>2, <2>3 DEF Unpair, EndExchange, TypeOK, maps, history
<1>5. CASE Disconnect(d)
  <2>1. connQ' \in Seq(ConnectionEvent)
    BY <1>0, <1>5, TellTyped DEF Disconnect
  <2>. QED BY <1>5, <2>1 DEF Disconnect, TypeOK, ConnOrNone, history
<1>6. CASE SetPluginEnabled(d)
  BY <1>6 DEF SetPluginEnabled, TypeOK, ConnOrNone, history
<1>7. CASE AppSends(d)
  <2>1. out' \in [Conn -> SUBSET OutPacket]
    BY <1>0, <1>7, SendTyped DEF AppSends
  <2>. QED BY <1>7, <2>1 DEF AppSends, TypeOK, maps, history
<1>. QED BY <1>1, <1>2, <1>3, <1>4, <1>5, <1>6, <1>7

LEMMA RestartTyped == TypeOK /\ Restart => TypeOK'
<1> SUFFICES ASSUME TypeOK, Restart PROVE TypeOK'
  OBVIOUS
<1>1. link' \in [Conn -> Link]
  BY DEF Restart, TypeOK, Link, Phase
<1>. QED
  BY <1>1, BlankTyped DEF Restart, TypeOK, ConnOrNone

LEMMA TypeStep == TypeOK /\ [Next]_vars => TypeOK'
<1> SUFFICES ASSUME TypeOK, [Next]_vars PROVE TypeOK'
  OBVIOUS
<1>1. CASE LinkStep
  BY <1>1, LinkStepTyped
<1>2. CASE TransportStep
  BY <1>2, ConnectionTyped, IncomingTyped DEF TransportStep
<1>3. CASE CoreStep
  BY <1>3, CoreStepTyped
<1>4. CASE AppStep
  BY <1>4, AppStepTyped
<1>5. ASSUME NEW d \in Device, PluginSends(d) PROVE TypeOK'
  <2>1. "Paired" \in PairState
    BY DEF PairState
  <2>2. eventQ' \in Seq(CoreEvent)
    BY <1>5, <2>1, RaiseTyped DEF PluginSends
  <2>. QED BY <1>5, <2>2 DEF PluginSends, TypeOK, maps, history
<1>6. CASE ListenerTakes
  BY <1>6 DEF ListenerTakes, TypeOK, maps, history
<1>7. CASE Restart
  BY <1>7, RestartTyped
<1>8. CASE UNCHANGED vars
  BY <1>8 DEF vars, TypeOK
<1>. QED
  BY <1>1, <1>2, <1>3, <1>4, <1>5, <1>6, <1>7, <1>8 DEF Next, RunStep

LEMMA TypeInit == Init => TypeOK
<1> SUFFICES ASSUME Init PROVE TypeOK
  OBVIOUS
<1>1. StoredRecord \subseteq FileRecord
  BY DEF StoredRecord, FileRecord, PairState, CertOrNone
<1>2. link \in [Conn -> Link]
  BY DEF Init, Link, Phase
<1>. QED
  BY <1>1, <1>2, BlankTyped DEF Init, TypeOK, ConnOrNone

\* Every reachable state is well typed: the handlers put only well-formed
\* events in the queues and only complete records in the files.
THEOREM TypeCorrect == Spec => []TypeOK
BY TypeInit, TypeStep, PTL DEF Spec

-----------------------------------------------------------------------------
(***************************************************************************)
(* What the invariants need to know of a step.  Every handler does one of  *)
(* eight things to the files, the devices, the maps and the history; the   *)
(* proofs below have one case for each.                                    *)
(***************************************************************************)

SamePeers == \A c \in Conn : /\ link'[c].dev = link[c].dev
                             /\ link'[c].cert = link[c].cert

\* Only queues, buffers and the phases of connections change.
Quiet == SamePeers /\ UNCHANGED <<disk, devices, maps, history>>

Detaches(d) ==
    /\ connId' = [connId EXCEPT ![d] = NoConn]
    /\ writer' = [writer EXCEPT ![d] = NoConn]
    /\ UNCHANGED <<disk, devices, link, history>>

Reloads(c) ==
    LET d == link[c].dev IN
    /\ BindAccepts(LoadFrom(disk[d]), link[c].cert)
    /\ devices' = [devices EXCEPT ![d] = Loaded(disk[d], link[c].cert)]
    /\ \E n \in {c, NoConn} : /\ connId' = [connId EXCEPT ![d] = n]
                              /\ writer' = [writer EXCEPT ![d] = n]
    /\ EndExchange(d)
    /\ SamePeers
    /\ UNCHANGED disk

PhoneSays(d) ==
    /\ connId[d] # NoConn
    /\ \/ devices[d].state = "Requesting" /\ Approve(d)
       \/ /\ devices[d].state \notin {"Requesting", "Paired"}
          /\ UpdatePairState(d, "Requested")
       \/ UNCHANGED <<disk, devices>>
    /\ phoneYes' = phoneYes \cup {d}
    /\ UNCHANGED <<maps, link, userYes>>

UserSays(d) ==
    /\ writer[d] # NoConn
    /\ \/ devices[d].state = "Requested" /\ Approve(d)
       \/ ~Trusted(devices[d]) /\ UpdatePairState(d, "Requesting")
    /\ userYes' = userYes \cup {d}
    /\ UNCHANGED <<maps, link, phoneYes>>

Ends(d) ==
    /\ Revoke(d) \/ UpdatePairState(d, "NotPaired")
    /\ EndExchange(d)
    /\ UNCHANGED <<maps, link>>

StepKind ==
    \/ Quiet
    \/ \E c \in Conn, d \in Device, x \in Cert : Offer(c, d, x)
    \/ \E c \in Conn : Reloads(c)
    \/ \E d \in Device : Detaches(d) \/ PhoneSays(d) \/ UserSays(d) \/ Ends(d)
    \/ Restart

LEMMA LinkKinds == TypeOK /\ LinkStep => StepKind
<1> SUFFICES ASSUME TypeOK, LinkStep PROVE StepKind
  OBVIOUS
<1>1. CASE \E c \in Conn, d \in Device, x \in Cert : Offer(c, d, x)
  BY <1>1 DEF StepKind
<1>2. ASSUME NEW c \in Conn, HandshakeTimeout(c) PROVE Quiet
  BY <1>2 DEF HandshakeTimeout, Quiet, SamePeers, TypeOK, Link
<1>3. ASSUME NEW c \in Conn, NEW type, LinkReads(c, type) PROVE Quiet
  BY <1>3 DEF LinkReads, Quiet, SamePeers
<1>4. ASSUME NEW c \in Conn, LinkWrites(c) PROVE Quiet
  BY <1>4 DEF LinkWrites, Quiet, SamePeers
<1>5. ASSUME NEW c \in Conn, LinkEnds(c) PROVE Quiet
  BY <1>5 DEF LinkEnds, Quiet, SamePeers, TypeOK, Link
<1>. QED BY <1>1, <1>2, <1>3, <1>4, <1>5 DEF LinkStep, StepKind

LEMMA TransportKinds == TypeOK /\ TransportStep => StepKind
<1> SUFFICES ASSUME TypeOK, NEW c \in Conn,
                    \/ RefuseConnection(c) \/ AcceptConnection(c) \/ AcceptTooLate(c)
                    \/ IncomingPairTrue(c) \/ IncomingPairFalse(c) \/ IncomingPacket(c)
                    \/ IgnoreStalePacket(c) \/ Disconnected(c)
             PROVE  StepKind
  BY DEF TransportStep
<1>0. link[c].dev \in Device /\ c # NoConn
  BY NoConnAssumption DEF TypeOK, Link
<1>1. CASE RefuseConnection(c)
  BY <1>1 DEF RefuseConnection, StepKind, Quiet, SamePeers, TypeOK, Link
<1>2. CASE AcceptConnection(c)
  <2>1. SamePeers
    BY <1>2 DEF AcceptConnection, SamePeers, TypeOK, Link
  <2>2. Reloads(c)
    BY <1>2, <2>1 DEF AcceptConnection, Reloads, Refuses
  <2>. QED BY <2>2 DEF StepKind
<1>3. CASE AcceptTooLate(c)
  <2>1. Reloads(c)
    BY <1>3 DEF AcceptTooLate, Reloads, Refuses, SamePeers
  <2>. QED BY <2>1 DEF StepKind
<1>4. CASE IncomingPairTrue(c)
  <2>1. PhoneSays(link[c].dev)
    BY <1>0, <1>4 DEF IncomingPairTrue, PhoneSays, Current, StoreFails
  <2>. QED BY <1>0, <2>1 DEF StepKind
<1>5. CASE IncomingPairFalse(c)
  <2>1. Ends(link[c].dev) \/ Quiet
    BY <1>5 DEF IncomingPairFalse, Ends, Quiet, SamePeers, StoreFails
  <2>. QED BY <1>0, <2>1 DEF StepKind
<1>6. CASE IncomingPacket(c)
  BY <1>6 DEF IncomingPacket, StepKind, Quiet, SamePeers
<1>7. CASE IgnoreStalePacket(c)
  BY <1>7 DEF IgnoreStalePacket, StepKind, Quiet, SamePeers
<1>8. CASE Disconnected(c)
  <2>1. Detaches(link[c].dev) \/ Quiet
    BY <1>8 DEF Disconnected, Detaches, Quiet, SamePeers
  <2>. QED BY <1>0, <2>1 DEF StepKind
<1>. QED BY <1>1, <1>2, <1>3, <1>4, <1>5, <1>6, <1>7, <1>8

LEMMA AppKinds == AppStep => StepKind
<1> SUFFICES ASSUME NEW d \in Device,
                    \/ Pair(d) \/ AcceptPairing(d) \/ RejectPairing(d) \/ Unpair(d)
                    \/ Disconnect(d) \/ SetPluginEnabled(d) \/ AppSends(d)
             PROVE  Quiet \/ Detaches(d) \/ UserSays(d) \/ Ends(d)
  BY DEF AppStep, StepKind
<1>1. CASE Pair(d)
  BY <1>1 DEF Pair, UserSays, Quiet, SamePeers, StoreFails, maps, history
<1>2. CASE AcceptPairing(d)
  BY <1>2 DEF AcceptPairing, UserSays, Quiet, SamePeers, StoreFails, maps, history
<1>3. CASE RejectPairing(d)
  BY <1>3 DEF RejectPairing, Ends, Quiet, SamePeers, StoreFails, maps, history
<1>4. CASE Unpair(d)
  BY <1>4 DEF Unpair, Ends, Quiet, SamePeers, StoreFails, maps, history
<1>5. CASE Disconnect(d)
  BY <1>5 DEF Disconnect, Detaches
<1>6. CASE SetPluginEnabled(d)
  BY <1>6 DEF SetPluginEnabled, Detaches
<1>7. CASE AppSends(d)
  BY <1>7 DEF AppSends, Quiet, SamePeers
<1>. QED BY <1>1, <1>2, <1>3, <1>4, <1>5, <1>6, <1>7

LEMMA Kinds == TypeOK /\ [Next]_vars => StepKind
<1> SUFFICES ASSUME TypeOK, [Next]_vars PROVE StepKind
  OBVIOUS
<1>1. CASE CoreStep
  BY <1>1 DEF CoreStep, PacketReceived, DevicePaired, PairStateChanged, SendPacket,
              StepKind, Quiet, SamePeers
<1>2. CASE (\E d \in Device : PluginSends(d)) \/ ListenerTakes
  BY <1>2 DEF PluginSends, ListenerTakes, StepKind, Quiet, SamePeers
<1>3. CASE UNCHANGED vars
  BY <1>3 DEF vars, StepKind, Quiet, SamePeers, maps, history
<1>4. CASE Restart
  BY <1>4 DEF StepKind
<1>. QED
  BY <1>1, <1>2, <1>3, <1>4, LinkKinds, TransportKinds, AppKinds DEF Next, RunStep

-----------------------------------------------------------------------------
(***************************************************************************)
(* The safety invariants.                                                  *)
(***************************************************************************)

\* A store operation on d moves memory and file together, keeps the
\* connection certificate, and pins no certificate but that one.
LEMMA StoreEffect ==
    ASSUME TypeOK, NEW d \in Device,
           \/ \E s \in {"NotPaired", "Requesting", "Requested"} : UpdatePairState(d, s)
           \/ Approve(d)
           \/ Revoke(d)
    PROVE  /\ \A e \in Device \ {d} : devices'[e] = devices[e] /\ disk'[e] = disk[e]
           /\ devices'[d].cert = devices[d].cert
           /\ PinOf(devices'[d]) = PinOf(disk'[d])
           /\ PinOf(devices'[d]) \in {NoCert, devices[d].cert}
<1>0. devices[d] \in MemDevice /\ devices \in [Device -> MemDevice]
                               /\ disk \in [Device -> FileRecord]
  BY DEF TypeOK
<1>1. CASE \E s \in {"NotPaired", "Requesting", "Requested"} : UpdatePairState(d, s)
  BY <1>0, <1>1 DEF UpdatePairState, StoreIn, WithState, PinOf, Trusted, MemDevice
<1>2. CASE Approve(d)
  BY <1>0, <1>2 DEF Approve, StoreIn, Pinned, PinOf, Trusted, MemDevice
<1>3. CASE Revoke(d)
  BY <1>0, <1>3 DEF Revoke, WithState, Blank, PinOf, Trusted, MemDevice
<1>. QED BY <1>1, <1>2, <1>3

\* The state a store operation leaves in memory; other devices keep theirs.
LEMMA StateEffect ==
    ASSUME TypeOK, NEW d \in Device
    PROVE  /\ UpdatePairState(d, "Requested") => devices'[d].state = "Requested"
           /\ UpdatePairState(d, "Requesting") => devices'[d].state = "Requesting"
           /\ UpdatePairState(d, "NotPaired") => devices'[d].state = "NotPaired"
           /\ Revoke(d) => devices'[d].state = "NotPaired"
           /\ Approve(d) => /\ devices'[d].state = "Paired"
                            /\ devices'[d].pin = devices[d].cert
<1>0. devices \in [Device -> MemDevice]
  BY DEF TypeOK
<1>1. \A s : UpdatePairState(d, s) => devices'[d].state = s
  BY <1>0 DEF UpdatePairState, WithState, MemDevice
<1>2. Revoke(d) => devices'[d].state = "NotPaired"
  BY <1>0 DEF Revoke, WithState, MemDevice
<1>3. Approve(d) => devices'[d].state = "Paired" /\ devices'[d].pin = devices[d].cert
  BY <1>0 DEF Approve, Pinned, MemDevice
<1>. QED BY <1>1, <1>2, <1>3

\* A reload takes the pin from the file, and accepts no other certificate.
LEMMA LoadedEffect ==
    ASSUME NEW rec \in FileRecord, NEW x \in Cert, BindAccepts(LoadFrom(rec), x)
    PROVE  /\ Loaded(rec, x).cert = x
           /\ PinOf(Loaded(rec, x)) = PinOf(rec)
           /\ PinOf(rec) \in {NoCert, x}
           /\ Loaded(rec, x).state \in {"Paired", "NotPaired"}
           /\ Loaded(rec, x).state = "Paired" => Loaded(rec, x).pin # NoCert
BY DEF Loaded, LoadFrom, BindAccepts, PinOf, Trusted, Blank, FileRecord

LEMMA AgreeStep ==
    ASSUME TypeOK, MemoryAgreesWithFile, StepKind
    PROVE  MemoryAgreesWithFile'
<1>1. CASE Quiet
  BY <1>1 DEF Quiet, MemoryAgreesWithFile, Registered
<1>2. ASSUME NEW c \in Conn, NEW d \in Device, NEW x \in Cert, Offer(c, d, x)
      PROVE  MemoryAgreesWithFile'
  BY <1>2 DEF Offer, MemoryAgreesWithFile, Registered
<1>3. ASSUME NEW c \in Conn, Reloads(c) PROVE MemoryAgreesWithFile'
  <2>1. /\ link[c].dev \in Device /\ link[c].cert \in Cert
        /\ disk[link[c].dev] \in FileRecord
    BY DEF TypeOK, Link
  <2>. QED
    BY <1>3, <2>1, LoadedEffect DEF Reloads, MemoryAgreesWithFile, Registered, TypeOK
<1>4. ASSUME NEW d \in Device, Detaches(d) PROVE MemoryAgreesWithFile'
  BY <1>4 DEF Detaches, MemoryAgreesWithFile, Registered
<1>5. ASSUME NEW d \in Device, PhoneSays(d) \/ UserSays(d) \/ Ends(d)
      PROVE  MemoryAgreesWithFile'
  <2>1. CASE UNCHANGED <<disk, devices>>
    BY <2>1 DEF MemoryAgreesWithFile, Registered
  <2>2. CASE ~ UNCHANGED <<disk, devices>>
    BY <1>5, <2>2, StoreEffect
       DEF PhoneSays, UserSays, Ends, MemoryAgreesWithFile, Registered
  <2>. QED BY <2>1, <2>2
<1>6. CASE Restart
  BY <1>6 DEF Restart, MemoryAgreesWithFile, Registered, Absent
<1>. QED BY <1>1, <1>2, <1>3, <1>4, <1>5, <1>6 DEF StepKind

LEMMA EntryStep ==
    ASSUME TypeOK, EntryIsAuthentic, StepKind
    PROVE  EntryIsAuthentic'
<1>0. /\ connId \in [Device -> ConnOrNone] /\ writer \in [Device -> ConnOrNone]
      /\ ConnOrNone = Conn \cup {NoConn} /\ NoConn \notin Conn
  BY NoConnAssumption DEF TypeOK, ConnOrNone
<1>1. CASE Quiet
  BY <1>0, <1>1 DEF Quiet, SamePeers, maps, EntryIsAuthentic
<1>2. ASSUME NEW c \in Conn, NEW d \in Device, NEW x \in Cert, Offer(c, d, x)
      PROVE  EntryIsAuthentic'
  <2>1. \A e \in Device : connId[e] # NoConn => link'[connId[e]] = link[connId[e]]
    BY <1>0, <1>2 DEF Offer, Forgotten, TypeOK
  <2>. QED BY <1>2, <2>1 DEF Offer, maps, EntryIsAuthentic
<1>3. ASSUME NEW c \in Conn, Reloads(c) PROVE EntryIsAuthentic'
  <2>1. /\ link[c].dev \in Device /\ link[c].cert \in Cert
        /\ disk[link[c].dev] \in FileRecord
    BY DEF TypeOK, Link
  <2>. SUFFICES ASSUME NEW e \in Device
                PROVE  /\ writer'[e] = connId'[e]
                       /\ connId'[e] # NoConn =>
                             /\ link'[connId'[e]].dev = e
                             /\ link'[connId'[e]].cert = devices'[e].cert
                             /\ PinOf(devices'[e]) \in {NoCert, link'[connId'[e]].cert}
    BY DEF EntryIsAuthentic
  <2>2. CASE e = link[c].dev
    BY <1>0, <1>3, <2>1, <2>2, LoadedEffect DEF Reloads, SamePeers, TypeOK
  <2>3. CASE e # link[c].dev
    BY <1>0, <1>3, <2>1, <2>3 DEF Reloads, SamePeers, TypeOK, EntryIsAuthentic
  <2>. QED BY <2>2, <2>3
<1>4. ASSUME NEW d \in Device, Detaches(d) PROVE EntryIsAuthentic'
  BY <1>0, <1>4 DEF Detaches, EntryIsAuthentic
<1>5. ASSUME NEW d \in Device, PhoneSays(d) \/ UserSays(d) \/ Ends(d)
      PROVE  EntryIsAuthentic'
  <2>0. UNCHANGED <<maps, link>>
    BY <1>5 DEF PhoneSays, UserSays, Ends
  <2>1. CASE UNCHANGED <<disk, devices>>
    BY <2>0, <2>1 DEF maps, EntryIsAuthentic
  <2>2. CASE ~ UNCHANGED <<disk, devices>>
    <3>1. /\ \A e \in Device \ {d} : devices'[e] = devices[e]
          /\ devices'[d].cert = devices[d].cert
          /\ PinOf(devices'[d]) \in {NoCert, devices[d].cert}
      BY <1>5, <2>2, StoreEffect DEF PhoneSays, UserSays, Ends
    <3>. QED BY <2>0, <3>1 DEF maps, EntryIsAuthentic
  <2>. QED BY <2>1, <2>2
<1>6. CASE Restart
  BY <1>6 DEF Restart, EntryIsAuthentic
<1>. QED BY <1>1, <1>2, <1>3, <1>4, <1>5, <1>6 DEF StepKind

LEMMA PendingStep ==
    ASSUME TypeOK, PendingIsFromThisExchange, StepKind
    PROVE  PendingIsFromThisExchange'
<1>1. CASE Quiet
  BY <1>1 DEF Quiet, history, PendingIsFromThisExchange
<1>2. ASSUME NEW c \in Conn, NEW d \in Device, NEW x \in Cert, Offer(c, d, x)
      PROVE  PendingIsFromThisExchange'
  BY <1>2 DEF Offer, history, PendingIsFromThisExchange
<1>3. ASSUME NEW c \in Conn, Reloads(c) PROVE PendingIsFromThisExchange'
  <2>1. /\ link[c].dev \in Device /\ link[c].cert \in Cert
        /\ disk[link[c].dev] \in FileRecord
    BY DEF TypeOK, Link
  <2>. QED
    BY <1>3, <2>1, LoadedEffect
       DEF Reloads, EndExchange, TypeOK, PendingIsFromThisExchange
<1>4. ASSUME NEW d \in Device, Detaches(d) PROVE PendingIsFromThisExchange'
  BY <1>4 DEF Detaches, history, PendingIsFromThisExchange
<1>5. ASSUME NEW d \in Device, PhoneSays(d) PROVE PendingIsFromThisExchange'
  <2>1. CASE UNCHANGED devices
    BY <1>5, <2>1 DEF PhoneSays, PendingIsFromThisExchange
  <2>2. CASE Approve(d) \/ UpdatePairState(d, "Requested")
    BY <1>5, <2>2, StoreEffect, StateEffect DEF PhoneSays, PendingIsFromThisExchange
  <2>. QED BY <1>5, <2>1, <2>2 DEF PhoneSays
<1>6. ASSUME NEW d \in Device, UserSays(d) PROVE PendingIsFromThisExchange'
  BY <1>6, StoreEffect, StateEffect DEF UserSays, PendingIsFromThisExchange
<1>7. ASSUME NEW d \in Device, Ends(d) PROVE PendingIsFromThisExchange'
  BY <1>7, StoreEffect, StateEffect
     DEF Ends, EndExchange, TypeOK, PendingIsFromThisExchange
<1>8. CASE Restart
  BY <1>8 DEF Restart, Absent, PendingIsFromThisExchange
<1>. QED BY <1>1, <1>2, <1>3, <1>4, <1>5, <1>6, <1>7, <1>8 DEF StepKind

\* A device with an entry has a certificate.
LEMMA EntryRegistered ==
    ASSUME TypeOK, EntryIsAuthentic, NEW d \in Device, connId[d] # NoConn
    PROVE  Registered(d)
<1>1. connId[d] \in Conn
  BY DEF TypeOK, ConnOrNone
<1>2. link[connId[d]].cert \in Cert
  BY <1>1 DEF TypeOK, Link
<1>. QED BY <1>2, NoCertAssumption DEF EntryIsAuthentic, Registered

LEMMA BackedStep ==
    ASSUME TypeOK, EntryIsAuthentic, StateIsBacked, StepKind
    PROVE  StateIsBacked'
<1>1. CASE Quiet
  BY <1>1 DEF Quiet, StateIsBacked, Registered
<1>2. ASSUME NEW c \in Conn, NEW d \in Device, NEW x \in Cert, Offer(c, d, x)
      PROVE  StateIsBacked'
  BY <1>2 DEF Offer, StateIsBacked, Registered
<1>3. ASSUME NEW c \in Conn, Reloads(c) PROVE StateIsBacked'
  <2>1. /\ link[c].dev \in Device /\ link[c].cert \in Cert
        /\ disk[link[c].dev] \in FileRecord
    BY DEF TypeOK, Link
  <2>. QED
    BY <1>3, <2>1, LoadedEffect, NoCertAssumption
       DEF Reloads, TypeOK, StateIsBacked, Registered
<1>4. ASSUME NEW d \in Device, Detaches(d) PROVE StateIsBacked'
  BY <1>4 DEF Detaches, StateIsBacked, Registered
<1>5. ASSUME NEW d \in Device, PhoneSays(d) \/ UserSays(d) PROVE StateIsBacked'
  <2>1. Registered(d)
    BY <1>5, EntryRegistered DEF PhoneSays, UserSays, EntryIsAuthentic
  <2>2. CASE UNCHANGED devices
    BY <2>2 DEF StateIsBacked, Registered
  <2>3. CASE \/ Approve(d)
             \/ UpdatePairState(d, "Requested")
             \/ UpdatePairState(d, "Requesting")
    BY <2>1, <2>3, StoreEffect, StateEffect DEF StateIsBacked, Registered
  <2>. QED BY <1>5, <2>2, <2>3 DEF PhoneSays, UserSays
<1>6. ASSUME NEW d \in Device, Ends(d) PROVE StateIsBacked'
  BY <1>6, StoreEffect, StateEffect DEF Ends, StateIsBacked, Registered
<1>7. CASE Restart
  BY <1>7 DEF Restart, Absent, StateIsBacked, Registered
<1>. QED BY <1>1, <1>2, <1>3, <1>4, <1>5, <1>6, <1>7 DEF StepKind

LEMMA IndInvInit == Init => IndInv
<1> SUFFICES ASSUME Init PROVE IndInv
  OBVIOUS
<1>1. TypeOK
  BY TypeInit
<1>. QED
  BY <1>1 DEF Init, IndInv, MemoryAgreesWithFile, EntryIsAuthentic,
              PendingIsFromThisExchange, StateIsBacked, Registered, Absent

LEMMA IndInvStep == IndInv /\ [Next]_vars => IndInv'
BY TypeStep, Kinds, AgreeStep, EntryStep, PendingStep, BackedStep DEF IndInv

\* The inductive invariant: the conjunction of the invariants below and of
\* StateIsBacked, which the others need of the pairing handlers.
THEOREM Inductive == Spec => []IndInv
BY IndInvInit, IndInvStep, PTL DEF Spec

\* At every moment memory and file trust the same certificate.
THEOREM MemoryAgrees == Spec => []MemoryAgreesWithFile
BY Inductive, PTL DEF IndInv

\* At every moment the registered connection is the device's own, under the
\* pinned certificate if the device is trusted.
THEOREM EntryAuthentic == Spec => []EntryIsAuthentic
BY Inductive, PTL DEF IndInv

\* At every moment a pending request was made in the exchange in progress.
THEOREM PendingFresh == Spec => []PendingIsFromThisExchange
BY Inductive, PTL DEF IndInv

-----------------------------------------------------------------------------
(***************************************************************************)
(* Effects of packets.                                                     *)
(***************************************************************************)

Effect == /\ connQ' # <<>> /\ Len(connQ') > Len(connQ)
          /\ connQ'[Len(connQ')].type = "StateUpdated"

\* Only an announcement of a status counts as an effect of a packet.
LEMMA NoEffect ==
    ASSUME TypeOK,
           \/ UNCHANGED connQ
           \/ connQ # <<>> /\ connQ' = Tail(connQ)
           \/ connQ' = <<>>
           \/ \E type \in {"Connected", "Disconnected", "DevicePaired",
                           "PairStateChanged", "PairingRequested"},
                 d \in Device, s \in PairState : Tell(type, d, s)
    PROVE  ~Effect
<1>0. connQ \in Seq(ConnectionEvent)
  BY DEF TypeOK
<1>1. CASE UNCHANGED connQ
  BY <1>0, <1>1 DEF Effect
<1>2. CASE connQ # <<>> /\ connQ' = Tail(connQ)
  BY <1>0, <1>2 DEF Effect
<1>3. CASE connQ' = <<>>
  BY <1>3 DEF Effect
<1>4. ASSUME NEW type \in {"Connected", "Disconnected", "DevicePaired",
                           "PairStateChanged", "PairingRequested"},
             NEW d \in Device, NEW s \in PairState, Tell(type, d, s)
      PROVE  ~Effect
  <2> DEFINE e == [type |-> type, dev |-> d, state |-> s]
  <2>1. e \in ConnectionEvent /\ e.type # "StateUpdated"
    BY DEF ConnectionEvent
  <2>2. connQ' = Append(connQ, e)
    BY <1>4 DEF Tell
  <2>3. connQ'[Len(connQ')] = e
    BY <1>0, <2>1, <2>2
  <2>. QED BY <2>1, <2>3 DEF Effect
<1>. QED BY <1>1, <1>2, <1>3, <1>4

LEMMA EffectIsReceived == TypeOK /\ [Next]_vars /\ Effect => PacketReceived
<1> SUFFICES ASSUME TypeOK, [Next]_vars, ~PacketReceived PROVE ~Effect
  OBVIOUS
<1>0. {"NotPaired", "Requested", "Paired"} \subseteq PairState
  BY DEF PairState
<1>1. CASE LinkStep
  <2>1. UNCHANGED connQ
    BY <1>1 DEF LinkStep, Offer, HandshakeTimeout, LinkReads, LinkWrites, LinkEnds
  <2>. QED BY <2>1, NoEffect
<1>2. ASSUME NEW c \in Conn,
             \/ RefuseConnection(c) \/ AcceptConnection(c) \/ AcceptTooLate(c)
             \/ IncomingPairTrue(c) \/ IncomingPairFalse(c) \/ IncomingPacket(c)
             \/ IgnoreStalePacket(c) \/ Disconnected(c)
      PROVE  ~Effect
  <2> DEFINE d == link[c].dev
  <2>0. d \in Device /\ link[c].cert \in Cert /\ disk[d] \in FileRecord
    BY DEF TypeOK, Link
  <2>1. CASE AcceptConnection(c)
    <3>1. Loaded(disk[d], link[c].cert).state \in PairState
      BY <2>0, LoadedTyped DEF MemDevice
    <3>2. Tell("Connected", d, Loaded(disk[d], link[c].cert).state)
      BY <2>1 DEF AcceptConnection
    <3>. QED BY <2>0, <3>1, <3>2, NoEffect
  <2>2. CASE IncomingPairTrue(c)
    <3>1. UNCHANGED connQ \/ Tell("PairingRequested", d, "Requested")
      BY <2>2 DEF IncomingPairTrue
    <3>. QED BY <1>0, <2>0, <3>1, NoEffect
  <2>3. CASE IncomingPairFalse(c)
    <3>1. UNCHANGED connQ \/ Tell("PairStateChanged", d, "NotPaired")
      BY <2>3 DEF IncomingPairFalse
    <3>. QED BY <1>0, <2>0, <3>1, NoEffect
  <2>4. CASE Disconnected(c)
    <3>1. UNCHANGED connQ \/ Tell("Disconnected", d, "NotPaired")
      BY <2>4 DEF Disconnected
    <3>. QED BY <1>0, <2>0, <3>1, NoEffect
  <2>5. CASE \/ RefuseConnection(c) \/ AcceptTooLate(c) \/ IncomingPacket(c)
             \/ IgnoreStalePacket(c)
    <3>1. UNCHANGED connQ
      BY <2>5 DEF RefuseConnection, AcceptTooLate, IncomingPacket, IgnoreStalePacket
    <3>. QED BY <3>1, NoEffect
  <2>. QED BY <1>2, <2>1, <2>2, <2>3, <2>4, <2>5
<1>3. CASE DevicePaired \/ PairStateChanged \/ SendPacket
  <2>0. Head(eventQ).dev \in Device /\ Head(eventQ).state \in PairState
    BY <1>3, CoreHeadTyped DEF DevicePaired, PairStateChanged, SendPacket
  <2>1. \/ Tell("DevicePaired", Head(eventQ).dev, "Paired")
        \/ Tell("PairStateChanged", Head(eventQ).dev, Head(eventQ).state)
        \/ UNCHANGED connQ
    BY <1>3 DEF DevicePaired, PairStateChanged, SendPacket
  <2>. QED BY <1>0, <2>0, <2>1, NoEffect
<1>4. ASSUME NEW d \in Device,
             \/ Pair(d) \/ AcceptPairing(d) \/ RejectPairing(d) \/ Unpair(d)
             \/ Disconnect(d) \/ SetPluginEnabled(d) \/ AppSends(d)
      PROVE  ~Effect
  <2>1. \/ UNCHANGED connQ
        \/ Tell("PairStateChanged", d, "NotPaired")
        \/ Tell("Disconnected", d, "NotPaired")
    BY <1>4 DEF Pair, AcceptPairing, RejectPairing, Unpair, Disconnect,
                SetPluginEnabled, AppSends
  <2>. QED BY <1>0, <2>1, NoEffect
<1>5. CASE (\E d \in Device : PluginSends(d)) \/ ListenerTakes \/ Restart
  <2>1. \/ UNCHANGED connQ
        \/ connQ # <<>> /\ connQ' = Tail(connQ)
        \/ connQ' = <<>>
    BY <1>5 DEF PluginSends, ListenerTakes, Restart
  <2>. QED BY <2>1, NoEffect
<1>6. CASE UNCHANGED vars
  BY <1>6, NoEffect DEF vars
<1>. QED
  BY <1>1, <1>2, <1>3, <1>4, <1>5, <1>6
     DEF Next, RunStep, TransportStep, CoreStep, AppStep

\* A packet that takes effect came over the device's current connection, which
\* carries the certificate the device's file pins at that moment.
LEMMA EffectStep ==
    ASSUME IndInv, PacketReceived, Effect
    PROVE  LET e == Head(eventQ) IN
             /\ connId[e.dev] = e.conn
             /\ link[e.conn].cert = PinOf(disk[e.dev])
<1> DEFINE e == Head(eventQ)
<1>1. e \in CoreEvent /\ e.type = "PacketReceived"
  BY CoreHeadTyped DEF IndInv, PacketReceived, CoreHead
<1>2. e.dev \in Device /\ e.conn \in Conn
  BY <1>1 DEF CoreEvent
<1>3. connId[e.dev] = e.conn /\ devices[e.dev].state = "Paired"
  BY NoEffect DEF IndInv, PacketReceived
<1>4. connId[e.dev] # NoConn
  BY <1>2, <1>3, NoConnAssumption
<1>5. PinOf(devices[e.dev]) # NoCert
  BY <1>2, <1>3 DEF IndInv, StateIsBacked, PinOf, Trusted
<1>6. Registered(e.dev)
  BY <1>2, <1>4, EntryRegistered DEF IndInv
<1>7. link[e.conn].cert = PinOf(devices[e.dev])
  BY <1>2, <1>3, <1>4, <1>5 DEF IndInv, EntryIsAuthentic
<1>. QED
  BY <1>2, <1>3, <1>6, <1>7 DEF IndInv, MemoryAgreesWithFile

\* No packet takes effect for a device that is not trusted at that moment, or
\* from a connection that is no longer the device's.
THEOREM EffectsAreTrusted == Spec => EffectOnlyUnderTrust
<1>1. IndInv /\ [Next]_vars
        => [ (connQ' # <<>> /\ Len(connQ') > Len(connQ)
                 /\ connQ'[Len(connQ')].type = "StateUpdated")
             => LET e == Head(eventQ) IN
                  /\ connId[e.dev] = e.conn
                  /\ link[e.conn].cert = PinOf(disk[e.dev]) ]_vars
  BY EffectIsReceived, EffectStep DEF IndInv, Effect
<1>. QED BY <1>1, Inductive, PTL DEF Spec, EffectOnlyUnderTrust

-----------------------------------------------------------------------------
(***************************************************************************)
(* CoreLoop implements Trust.                                              *)
(***************************************************************************)

trustBar == [d \in Device |-> PinOf(disk[d])]
peerBar == [d \in Device |-> devices[d].cert]

LEMMA TrustInit == Init => Pairing!Init
<1> SUFFICES ASSUME Init PROVE Pairing!Init
  OBVIOUS
<1>1. \A d \in Device : PinOf(disk[d]) \in CertOrNone
  BY DEF Init, StoredRecord, PinOf, Trusted, CertOrNone
<1>. QED
  BY <1>1 DEF Init, Absent, CertOrNone, Pairing!Init, Pairing!NoExchange

\* Where memory has no trust to lose, neither has the file.
LEMMA NoTrustYet ==
    ASSUME IndInv, NEW d \in Device, Registered(d), ~Trusted(devices[d])
    PROVE  PinOf(disk[d]) = NoCert
BY DEF IndInv, MemoryAgreesWithFile, PinOf

\* Both agreements together pin the certificate of the exchange.
LEMMA ApproveEstablishes ==
    ASSUME IndInv, NEW d \in Device, Registered(d), Approve(d)
    PROVE  /\ trustBar' = [trustBar EXCEPT ![d] = peerBar[d]]
           /\ UNCHANGED peerBar
<1>1. devices \in [Device -> MemDevice] /\ disk \in [Device -> FileRecord]
  BY DEF IndInv, TypeOK
<1>2. PinOf(disk'[d]) = devices[d].cert
  BY <1>1 DEF Approve, StoreIn, Pinned, PinOf, Trusted, Registered, MemDevice
<1>3. \A e \in Device : devices'[e].cert = devices[e].cert
  BY StoreEffect DEF IndInv
<1>4. \A e \in Device \ {d} : disk'[e] = disk[e]
  BY StoreEffect DEF IndInv
<1>. QED BY <1>2, <1>3, <1>4 DEF trustBar, peerBar

\* A pending or ended exchange leaves no trust in the file.
LEMMA UpdateClears ==
    ASSUME IndInv, NEW d \in Device,
           \/ UpdatePairState(d, "Requested")
           \/ UpdatePairState(d, "Requesting")
           \/ UpdatePairState(d, "NotPaired")
           \/ Revoke(d)
    PROVE  /\ trustBar' = [trustBar EXCEPT ![d] = NoCert]
           /\ UNCHANGED peerBar
<1>1. disk \in [Device -> FileRecord]
  BY DEF IndInv, TypeOK
<1>2. PinOf(disk'[d]) = NoCert
  BY <1>1 DEF UpdatePairState, Revoke, StoreIn, Blank, PinOf, Trusted
<1>3. \A e \in Device : devices'[e].cert = devices[e].cert
  BY StoreEffect DEF IndInv
<1>4. \A e \in Device \ {d} : disk'[e] = disk[e]
  BY StoreEffect DEF IndInv
<1>. QED BY <1>2, <1>3, <1>4 DEF trustBar, peerBar

LEMMA TrustStep == IndInv /\ [Next]_vars => [Pairing!Next]_(Pairing!vars)
<1> SUFFICES ASSUME IndInv, [Next]_vars
             PROVE  Pairing!Next \/ UNCHANGED <<trustBar, peerBar, phoneYes, userYes>>
  BY DEF Pairing!vars, trustBar, peerBar
<1> USE DEF IndInv
<1>0. StepKind
  BY Kinds
<1>1. CASE Quiet
  BY <1>1 DEF Quiet, history, trustBar, peerBar
<1>2. ASSUME NEW c \in Conn, NEW d \in Device, NEW x \in Cert, Offer(c, d, x)
      PROVE  UNCHANGED <<trustBar, peerBar, phoneYes, userYes>>
  BY <1>2 DEF Offer, history, trustBar, peerBar
<1>3. ASSUME NEW c \in Conn, Reloads(c) PROVE Pairing!Next
  <2>1. PICK d \in Device, x \in Cert : d = link[c].dev /\ x = link[c].cert
    BY DEF TypeOK, Link
  <2>2. disk[d] \in FileRecord
    BY DEF TypeOK
  <2>3. trustBar[d] \in {x, NoCert} /\ UNCHANGED trustBar
    BY <1>3, <2>1, <2>2, LoadedEffect DEF Reloads, trustBar
  <2>4. peerBar' = [peerBar EXCEPT ![d] = x]
    BY <1>3, <2>1, <2>2, LoadedEffect DEF Reloads, TypeOK, peerBar
  <2>5. Pairing!BeginExchange(d, x)
    BY <1>3, <2>1, <2>3, <2>4
       DEF Reloads, EndExchange, Pairing!BeginExchange, trustBar, peerBar
  <2>. QED BY <2>5 DEF Pairing!Next
<1>4. ASSUME NEW d \in Device, Detaches(d)
      PROVE  UNCHANGED <<trustBar, peerBar, phoneYes, userYes>>
  BY <1>4 DEF Detaches, history, trustBar, peerBar
<1>5. ASSUME NEW d \in Device, PhoneSays(d) PROVE Pairing!Next
  <2>1. Registered(d)
    BY <1>5, EntryRegistered DEF PhoneSays
  <2>2. Pairing!PhoneAgrees(d)
    BY <1>5, <2>1 DEF PhoneSays, Registered, Pairing!PhoneAgrees
  <2>3. CASE UNCHANGED <<disk, devices>>
    <3>1. UNCHANGED <<trustBar, peerBar>>
      BY <2>3 DEF trustBar, peerBar
    <3>. QED BY <2>2, <3>1 DEF Pairing!Next, trustBar, peerBar
  <2>4. CASE devices[d].state = "Requesting" /\ Approve(d)
    <3>1. trustBar[d] = NoCert
      BY <2>1, <2>4, NoTrustYet DEF Trusted, trustBar
    <3>2. d \in phoneYes' /\ d \in userYes'
      BY <1>5, <2>4 DEF PhoneSays, PendingIsFromThisExchange
    <3>3. Pairing!Establish(d)
      BY <2>1, <2>2, <2>4, <3>1, <3>2, ApproveEstablishes
         DEF Pairing!Establish, trustBar, peerBar
    <3>. QED BY <3>3 DEF Pairing!Next
  <2>5. CASE devices[d].state # "Paired" /\ UpdatePairState(d, "Requested")
    <3>1. trustBar[d] = NoCert
      BY <2>1, <2>5, NoTrustYet DEF Trusted, trustBar
    <3>2. UNCHANGED <<trustBar, peerBar>>
      BY <2>5, <3>1, UpdateClears DEF trustBar
    <3>. QED BY <2>2, <3>2 DEF Pairing!Next, trustBar, peerBar
  <2>. QED BY <1>5, <2>3, <2>4, <2>5 DEF PhoneSays
<1>6. ASSUME NEW d \in Device, UserSays(d) PROVE Pairing!Next
  <2>1. Registered(d)
    BY <1>6, EntryRegistered DEF UserSays, EntryIsAuthentic
  <2>2. Pairing!UserAgrees(d)
    BY <1>6, <2>1 DEF UserSays, Registered, Pairing!UserAgrees
  <2>3. trustBar[d] = NoCert
    BY <1>6, <2>1, NoTrustYet DEF UserSays, Trusted, trustBar
  <2>4. CASE devices[d].state = "Requested" /\ Approve(d)
    <3>1. d \in phoneYes' /\ d \in userYes'
      BY <1>6, <2>4 DEF UserSays, PendingIsFromThisExchange
    <3>2. Pairing!Establish(d)
      BY <2>1, <2>2, <2>3, <2>4, <3>1, ApproveEstablishes
         DEF Pairing!Establish, trustBar, peerBar
    <3>. QED BY <3>2 DEF Pairing!Next
  <2>5. CASE UpdatePairState(d, "Requesting")
    <3>1. UNCHANGED <<trustBar, peerBar>>
      BY <2>3, <2>5, UpdateClears DEF trustBar
    <3>. QED BY <2>2, <3>1 DEF Pairing!Next, trustBar, peerBar
  <2>. QED BY <1>6, <2>4, <2>5 DEF UserSays
<1>7. ASSUME NEW d \in Device, Ends(d) PROVE Pairing!Next
  <2>1. Pairing!Revoke(d)
    BY <1>7, UpdateClears DEF Ends, EndExchange, Pairing!Revoke, trustBar, peerBar
  <2>. QED BY <2>1 DEF Pairing!Next
<1>8. CASE Restart
  <2>1. UNCHANGED trustBar
    BY <1>8 DEF Restart, trustBar
  <2>2. Pairing!Restart
    BY <1>8, <2>1 DEF Restart, Absent, Pairing!Restart, Pairing!NoExchange, trustBar
  <2>. QED BY <2>2 DEF Pairing!Next
<1>. QED
  BY <1>0, <1>1, <1>2, <1>3, <1>4, <1>5, <1>6, <1>7, <1>8 DEF StepKind

\* The core carries out pairing as Trust promises it: trust comes only from
\* both sides in one exchange, under the certificate of that exchange, and
\* survives restarts and reconnections.
THEOREM Refinement == Spec => ImplementsTrust
BY TrustInit, TrustStep, Inductive, PTL DEF Spec, ImplementsTrust, Pairing!Spec

-----------------------------------------------------------------------------
(***************************************************************************)
(* How a step changes the queue, the map and the phases.                   *)
(***************************************************************************)

\* A queue with one more element, and a queue without its first.
LEMMA Longer ==
    ASSUME NEW S, NEW s \in Seq(S), NEW e \in S
    PROVE  /\ DOMAIN Append(s, e) = DOMAIN s \cup {Len(s) + 1}
           /\ Len(s) + 1 \notin DOMAIN s
           /\ \A i \in DOMAIN s : Append(s, e)[i] = s[i]
           /\ Append(s, e)[Len(s) + 1] = e
OBVIOUS

LEMMA Shorter ==
    ASSUME NEW S, NEW s \in Seq(S), s # <<>>
    PROVE  /\ 1 \in DOMAIN s /\ s[1] = Head(s)
           /\ \A i \in DOMAIN Tail(s) :
                 i + 1 \in DOMAIN s /\ i + 1 # 1 /\ Tail(s)[i] = s[i + 1]
           /\ \A i \in DOMAIN s \ {1} :
                 i - 1 \in DOMAIN Tail(s) /\ Tail(s)[i - 1] = s[i]
<1>1. Len(Tail(s)) = Len(s) - 1 /\ Len(s) \in Nat \ {0}
  OBVIOUS
<1>2. DOMAIN s = 1 .. Len(s) /\ DOMAIN Tail(s) = 1 .. Len(s) - 1
  BY <1>1
<1>3. \A i \in 1 .. Len(s) - 1 : Tail(s)[i] = s[i + 1]
  BY <1>1
<1>. QED BY <1>1, <1>2, <1>3

SamePhases == \A c \in Conn : link'[c].phase = link[c].phase
NoNewEntry == \A d \in Device : connId'[d] \in {connId[d], NoConn}

\* The connection's task reports something, still running or just ended.
Reports(c) ==
    /\ \E type \in {"PairTrue", "PairFalse", "Packet", "Disconnected"} :
          /\ Report(type, c)
          /\ link[c].phase = "live"
          /\ link'[c].phase = IF type = "Disconnected" THEN "gone" ELSE "live"
    /\ \A b \in Conn \ {c} : link'[b].phase = link[b].phase
    /\ UNCHANGED connId

\* The queue's head is handled; only a registration starts anything.
Handles(c) ==
    \/ RefuseConnection(c) \/ AcceptConnection(c) \/ AcceptTooLate(c) \/ Disconnected(c)
    \/ /\ \E type \in {"PairTrue", "PairFalse", "Packet"} : TransportHead(type, c)
       /\ UNCHANGED <<link, connId>>

QueueKind ==
    \/ UNCHANGED transportQ /\ SamePhases /\ NoNewEntry
    \/ \E c \in Conn :
          \/ \E d \in Device, x \in Cert : Offer(c, d, x)
          \/ HandshakeTimeout(c)
          \/ Reports(c)
          \/ Handles(c)
    \/ Restart

\* Every step is of one of these kinds.
LEMMA QueueKinds == TypeOK /\ [Next]_vars => QueueKind
<1> SUFFICES ASSUME TypeOK, [Next]_vars PROVE QueueKind
  OBVIOUS
<1>1. ASSUME NEW c \in Conn,
             \/ \E d \in Device, x \in Cert : Offer(c, d, x)
             \/ HandshakeTimeout(c)
             \/ \E type \in {"PairTrue", "PairFalse", "Packet"} : LinkReads(c, type)
             \/ LinkWrites(c)
             \/ LinkEnds(c)
      PROVE  QueueKind
  <2>1. CASE LinkWrites(c)
    BY <2>1 DEF LinkWrites, QueueKind, SamePhases, NoNewEntry, maps
  <2>2. ASSUME NEW type \in {"PairTrue", "PairFalse", "Packet"}, LinkReads(c, type)
        PROVE  Reports(c)
    BY <2>2 DEF LinkReads, Reports, maps
  <2>3. CASE LinkEnds(c)
    <3>1. /\ link'[c].phase = "gone"
          /\ \A b \in Conn \ {c} : link'[b].phase = link[b].phase
      BY <2>3 DEF LinkEnds, TypeOK, Link
    <3>2. Report("Disconnected", c) /\ link[c].phase = "live" /\ UNCHANGED connId
      BY <2>3 DEF LinkEnds, maps
    <3>3. Reports(c)
      BY <3>1, <3>2 DEF Reports
    <3>. QED BY <3>3 DEF QueueKind
  <2>. QED BY <1>1, <2>1, <2>2, <2>3 DEF QueueKind
<1>2. ASSUME NEW c \in Conn,
             \/ RefuseConnection(c) \/ AcceptConnection(c) \/ AcceptTooLate(c)
             \/ IncomingPairTrue(c) \/ IncomingPairFalse(c) \/ IncomingPacket(c)
             \/ IgnoreStalePacket(c) \/ Disconnected(c)
      PROVE  Handles(c)
  BY <1>2 DEF Handles, IncomingPairTrue, IncomingPairFalse, IncomingPacket,
              IgnoreStalePacket, maps
<1>3. CASE CoreStep
  BY <1>3 DEF CoreStep, PacketReceived, DevicePaired, PairStateChanged, SendPacket,
              QueueKind, SamePhases, NoNewEntry, maps
<1>4. ASSUME NEW d \in Device,
             \/ Pair(d) \/ AcceptPairing(d) \/ RejectPairing(d) \/ Unpair(d)
             \/ AppSends(d) \/ PluginSends(d)
      PROVE  QueueKind
  BY <1>4 DEF Pair, AcceptPairing, RejectPairing, Unpair, AppSends, PluginSends,
              QueueKind, SamePhases, NoNewEntry, maps
<1>5. ASSUME NEW d \in Device, Disconnect(d) \/ SetPluginEnabled(d)
      PROVE  QueueKind
  BY <1>5 DEF Disconnect, SetPluginEnabled, QueueKind, SamePhases, NoNewEntry, TypeOK
<1>6. CASE ListenerTakes \/ UNCHANGED vars
  BY <1>6 DEF ListenerTakes, vars, QueueKind, SamePhases, NoNewEntry, maps
<1>. QED
  BY <1>1, <1>2, <1>3, <1>4, <1>5, <1>6
     DEF Next, RunStep, LinkStep, TransportStep, AppStep, QueueKind

-----------------------------------------------------------------------------
(***************************************************************************)
(* ReportsInOrder and DeadEntryIsBeingRemoved.                             *)
(***************************************************************************)

\* What the second half of ReportsInOrder says of one element.
InPlace(i) ==
    LET e == transportQ[i] IN
    /\ e.type \in {"NewConnection", "Disconnected"} => link[e.conn].phase # "live"
    /\ e.type = "NewConnection" =>
          /\ \A d \in Device : connId[d] # e.conn
          /\ \A j \in DOMAIN transportQ \ {i} : transportQ[j].conn # e.conn

\* The queue with an element e at n, which was not a place of it.
Grows(e, n) ==
    /\ n \notin DOMAIN transportQ
    /\ DOMAIN transportQ' = DOMAIN transportQ \cup {n}
    /\ \A i \in DOMAIN transportQ : transportQ'[i] = transportQ[i]
    /\ transportQ'[n] = e

LEMMA ReportGrows ==
    ASSUME TypeOK, NEW c \in Conn,
           NEW type \in {"NewConnection", "PairTrue", "PairFalse", "Packet",
                         "Disconnected"},
           Report(type, c)
    PROVE  Grows([type |-> type, conn |-> c], Len(transportQ) + 1)
<1>1. [type |-> type, conn |-> c] \in TransportEvent
  BY DEF TransportEvent
<1>2. transportQ \in Seq(TransportEvent)
  BY DEF TypeOK
<1>. QED BY <1>1, <1>2, Longer DEF Report, Grows

LEMMA ElementTyped ==
    ASSUME TypeOK, NEW i \in DOMAIN transportQ
    PROVE  transportQ[i].conn \in Conn
<1>1. transportQ[i] \in TransportEvent
  BY DEF TypeOK
<1>. QED BY <1>1 DEF TransportEvent

\* The queue grows by a report of c, which is not offered in it.
LEMMA GrowsInOrder ==
    ASSUME TypeOK, ReportsInOrder, NEW c \in Conn, NEW type, NEW n,
           Grows([type |-> type, conn |-> c], n),
           UNCHANGED connId,
           \A b \in Conn \ {c} : link'[b].phase = link[b].phase,
           \A i \in DOMAIN transportQ :
              transportQ[i].conn = c =>
                 /\ transportQ[i].type # "NewConnection"
                 /\ type # "NewConnection"
                 /\ transportQ[i].type = "Disconnected" => link'[c].phase # "live",
           type \in {"NewConnection", "Disconnected"} => link'[c].phase # "live",
           type = "NewConnection" => \A d \in Device : connId[d] # c
    PROVE  \A i \in DOMAIN transportQ' : InPlace(i)'
<1>1. InPlace(n)'
  BY DEF Grows, InPlace
<1>2. ASSUME NEW i \in DOMAIN transportQ PROVE InPlace(i)'
  <2>1. InPlace(i) /\ transportQ[i].conn \in Conn
    BY ElementTyped DEF ReportsInOrder, InPlace
  <2>. QED BY <2>1 DEF InPlace, Grows
<1>. QED BY <1>1, <1>2 DEF Grows

\* The queue without its first element, which is e.
Shrinks(e) ==
    /\ 1 \in DOMAIN transportQ /\ transportQ[1] = e
    /\ \A i \in DOMAIN transportQ' :
          i + 1 \in DOMAIN transportQ \ {1} /\ transportQ'[i] = transportQ[i + 1]
    /\ \A i \in DOMAIN transportQ \ {1} :
          \E j \in DOMAIN transportQ' : transportQ'[j] = transportQ[i]
    /\ \A i, j \in DOMAIN transportQ' : i # j => i + 1 # j + 1

LEMMA HeadShrinks ==
    ASSUME TypeOK, NEW c, NEW type, TransportHead(type, c)
    PROVE  Shrinks([type |-> type, conn |-> c])
<1>1. transportQ \in Seq(TransportEvent) /\ transportQ # <<>>
  BY DEF TypeOK, TransportHead
<1>2. transportQ' = Tail(transportQ) /\ Head(transportQ) = [type |-> type, conn |-> c]
  BY DEF TransportHead
<1>3. /\ 1 \in DOMAIN transportQ /\ transportQ[1] = Head(transportQ)
      /\ \A i \in DOMAIN transportQ' :
            i + 1 \in DOMAIN transportQ /\ i + 1 # 1 /\ transportQ'[i] = transportQ[i + 1]
      /\ \A i \in DOMAIN transportQ \ {1} :
            i - 1 \in DOMAIN transportQ' /\ transportQ'[i - 1] = transportQ[i]
  BY <1>1, <1>2, Shorter
<1>4. \A i, j \in DOMAIN transportQ' : i # j => i + 1 # j + 1
  BY <1>1, <1>2
<1>5. \A i \in DOMAIN transportQ \ {1} :
         \E j \in DOMAIN transportQ' : transportQ'[j] = transportQ[i]
  BY <1>3
<1>6. transportQ[1] = [type |-> type, conn |-> c]
  BY <1>2, <1>3
<1>. QED BY <1>3, <1>4, <1>5, <1>6 DEF Shrinks

\* The head, of connection c, is handled; c starts only where it was offered.
LEMMA ShrinksInOrder ==
    ASSUME TypeOK, ReportsInOrder, NEW c \in Conn, NEW type,
           Shrinks([type |-> type, conn |-> c]),
           \A b \in Conn \ {c} : link'[b].phase = link[b].phase,
           link'[c].phase = "live" => link[c].phase = "live" \/ type = "NewConnection",
           \A d \in Device :
              \/ connId'[d] \in {connId[d], NoConn}
              \/ type = "NewConnection" /\ connId'[d] = c
    PROVE  \A i \in DOMAIN transportQ' : InPlace(i)'
<1> SUFFICES ASSUME NEW i \in DOMAIN transportQ' PROVE InPlace(i)'
  OBVIOUS
<1> DEFINE e == transportQ[i + 1]
<1>1. /\ i + 1 \in DOMAIN transportQ \ {1}
      /\ transportQ'[i] = e
      /\ \A j \in DOMAIN transportQ' \ {i} :
            j + 1 \in DOMAIN transportQ \ {i + 1} /\ transportQ'[j] = transportQ[j + 1]
  BY DEF Shrinks
<1>2. InPlace(i + 1) /\ InPlace(1) /\ e.conn \in Conn
  BY <1>1, ElementTyped DEF ReportsInOrder, InPlace, Shrinks
<1>3. transportQ[1].type = type /\ transportQ[1].conn = c
  BY DEF Shrinks
<1>4. type = "NewConnection" => e.conn # c
  BY <1>1, <1>2, <1>3 DEF InPlace
<1>5. e.conn # NoConn
  BY <1>2, NoConnAssumption
<1>6. e.type \in {"NewConnection", "Disconnected"} => link'[e.conn].phase # "live"
  BY <1>2, <1>4 DEF InPlace
<1>7. ASSUME e.type = "NewConnection"
      PROVE  /\ \A d \in Device : connId'[d] # e.conn
             /\ \A j \in DOMAIN transportQ' \ {i} : transportQ'[j].conn # e.conn
  <2>1. \A d \in Device : connId[d] # e.conn
    BY <1>2, <1>7 DEF InPlace
  <2>2. \A j \in DOMAIN transportQ \ {i + 1} : transportQ[j].conn # e.conn
    BY <1>2, <1>7 DEF InPlace
  <2>. QED BY <1>1, <1>4, <1>5, <2>1, <2>2
<1>. QED BY <1>1, <1>6, <1>7 DEF InPlace

\* The end of c is on its way.
EndReported(c) ==
    \E i \in DOMAIN transportQ : transportQ[i] = [type |-> "Disconnected", conn |-> c]

Entered(d) == connId[d] # NoConn

\* The phases of a connection the core has accepted.
Accepted == {"live", "abandoned"}

EntryInv == IndInv /\ ReportsInOrder /\ DeadEntryIsBeingRemoved

\* What a step has to show.
LEMMA EntryGoal ==
    ASSUME \A i \in DOMAIN transportQ' : InPlace(i)',
           \A d \in Device : Entered(d)' =>
              /\ link'[connId'[d]].phase # "offered"
              /\ link'[connId'[d]].phase \notin Accepted => EndReported(connId[d])'
    PROVE  (ReportsInOrder /\ DeadEntryIsBeingRemoved)'
BY DEF ReportsInOrder, InPlace, DeadEntryIsBeingRemoved, EndReported, Entered, Accepted

\* What is known before it.
LEMMA EntryKnown ==
    ASSUME EntryInv
    PROVE  /\ TypeOK
           /\ \A i \in DOMAIN transportQ : InPlace(i) /\ transportQ[i].conn \in Conn
           /\ \A d \in Device : Entered(d) =>
                 /\ connId[d] \in Conn
                 /\ link[connId[d]].dev = d
                 /\ link[connId[d]].phase # "offered"
                 /\ link[connId[d]].phase \notin Accepted => EndReported(connId[d])
           /\ \A c \in Conn : link[c].phase \in Phase
<1>1. TypeOK
  BY DEF EntryInv, IndInv
<1>2. \A i \in DOMAIN transportQ : InPlace(i) /\ transportQ[i].conn \in Conn
  BY <1>1, ElementTyped DEF EntryInv, ReportsInOrder, InPlace
<1>3. \A c \in Conn : link[c].phase \in Phase
  BY <1>1 DEF TypeOK, Link, Phase
<1>4. \A d \in Device : Entered(d) => connId[d] \in Conn /\ link[connId[d]].dev = d
  BY <1>1 DEF TypeOK, ConnOrNone, Entered, EntryInv, IndInv, EntryIsAuthentic
<1>. QED
  BY <1>1, <1>2, <1>3, <1>4
     DEF EntryInv, ReportsInOrder, DeadEntryIsBeingRemoved, Entered, EndReported,
         Accepted

LEMMA StillStep ==
    ASSUME EntryInv, UNCHANGED transportQ, SamePhases, NoNewEntry
    PROVE  (ReportsInOrder /\ DeadEntryIsBeingRemoved)'
<1>1. \A i \in DOMAIN transportQ' : InPlace(i)'
  BY EntryKnown, NoConnAssumption DEF InPlace, SamePhases, NoNewEntry
<1>2. ASSUME NEW d \in Device, Entered(d)'
      PROVE  /\ link'[connId'[d]].phase # "offered"
             /\ link'[connId'[d]].phase \notin Accepted => EndReported(connId[d])'
  <2>1. connId'[d] = connId[d] /\ Entered(d)
    BY <1>2 DEF Entered, NoNewEntry
  <2>. QED BY <2>1, EntryKnown DEF SamePhases, EndReported
<1>. QED BY <1>1, <1>2, EntryGoal

LEMMA OfferStep ==
    ASSUME EntryInv, NEW c \in Conn, NEW d \in Device, NEW x \in Cert, Offer(c, d, x)
    PROVE  (ReportsInOrder /\ DeadEntryIsBeingRemoved)'
<1> DEFINE n == Len(transportQ) + 1
<1>0. Grows([type |-> "NewConnection", conn |-> c], n)
  BY EntryKnown, ReportGrows DEF Offer
<1>1. /\ link'[c].phase = "offered"
      /\ \A b \in Conn \ {c} : link'[b].phase = link[b].phase
      /\ UNCHANGED connId
  BY EntryKnown DEF Offer, TypeOK, maps
<1>2. /\ \A i \in DOMAIN transportQ : transportQ[i].conn # c
      /\ \A e \in Device : connId[e] # c
  BY DEF Offer, Forgotten
<1>. HIDE DEF n
<1>3. \A i \in DOMAIN transportQ' : InPlace(i)'
  BY <1>0, <1>1, <1>2, EntryKnown, GrowsInOrder DEF EntryInv
<1>4. ASSUME NEW e \in Device, Entered(e)'
      PROVE  /\ link'[connId'[e]].phase # "offered"
             /\ link'[connId'[e]].phase \notin Accepted => EndReported(connId[e])'
  <2>1. Entered(e) /\ connId'[e] = connId[e] /\ connId[e] # c
    BY <1>1, <1>2, <1>4 DEF Entered
  <2>2. link'[connId[e]].phase = link[connId[e]].phase
    BY <1>1, <2>1, EntryKnown
  <2>. QED BY <1>0, <2>1, <2>2, EntryKnown DEF EndReported, Grows
<1>. QED BY <1>3, <1>4, EntryGoal

LEMMA TimeoutStep ==
    ASSUME EntryInv, NEW c \in Conn, HandshakeTimeout(c)
    PROVE  (ReportsInOrder /\ DeadEntryIsBeingRemoved)'
<1>1. /\ link[c].phase = "offered" /\ link'[c].phase = "gone"
      /\ \A b \in Conn \ {c} : link'[b].phase = link[b].phase
      /\ UNCHANGED <<connId, transportQ>>
  BY EntryKnown DEF HandshakeTimeout, TypeOK, Link, maps
<1>2. \A i \in DOMAIN transportQ' : InPlace(i)'
  BY <1>1, EntryKnown DEF InPlace
<1>3. ASSUME NEW d \in Device, Entered(d)'
      PROVE  /\ link'[connId'[d]].phase # "offered"
             /\ link'[connId'[d]].phase \notin Accepted => EndReported(connId[d])'
  <2>1. Entered(d) /\ connId'[d] = connId[d]
    BY <1>1, <1>3 DEF Entered
  <2>2. connId[d] \in Conn \ {c}
    BY <1>1, <2>1, EntryKnown
  <2>. QED BY <1>1, <2>1, <2>2, EntryKnown DEF EndReported
<1>. QED BY <1>2, <1>3, EntryGoal

LEMMA ReportStep ==
    ASSUME EntryInv, NEW c \in Conn, Reports(c)
    PROVE  (ReportsInOrder /\ DeadEntryIsBeingRemoved)'
<1> PICK type \in {"PairTrue", "PairFalse", "Packet", "Disconnected"} :
       /\ Report(type, c)
       /\ link[c].phase = "live"
       /\ link'[c].phase = IF type = "Disconnected" THEN "gone" ELSE "live"
  BY DEF Reports
<1> DEFINE n == Len(transportQ) + 1
<1>0. Grows([type |-> type, conn |-> c], n)
  BY EntryKnown, ReportGrows
<1>1. (\A b \in Conn \ {c} : link'[b].phase = link[b].phase) /\ UNCHANGED connId
  BY DEF Reports
<1>. HIDE DEF n
<1>2. \A i \in DOMAIN transportQ : transportQ[i].conn = c =>
         transportQ[i].type \notin {"NewConnection", "Disconnected"}
  BY EntryKnown DEF InPlace
<1>3. \A i \in DOMAIN transportQ' : InPlace(i)'
  BY <1>0, <1>1, <1>2, EntryKnown, GrowsInOrder DEF EntryInv
<1>4. ASSUME NEW e \in Device, Entered(e)'
      PROVE  /\ link'[connId'[e]].phase # "offered"
             /\ link'[connId'[e]].phase \notin Accepted => EndReported(connId[e])'
  <2>1. Entered(e) /\ connId'[e] = connId[e] /\ connId[e] \in Conn
    BY <1>1, <1>4, EntryKnown DEF Entered
  <2>2. CASE connId[e] # c
    BY <1>0, <1>1, <2>1, <2>2, EntryKnown DEF EndReported, Grows
  <2>3. CASE connId[e] = c
    BY <1>0, <2>1, <2>3 DEF EndReported, Grows, Accepted
  <2>. QED BY <2>2, <2>3
<1>. QED BY <1>3, <1>4, EntryGoal

\* The four handlers that end or start something, and the rest.
LEMMA HandleStep ==
    ASSUME EntryInv, NEW c \in Conn, Handles(c)
    PROVE  (ReportsInOrder /\ DeadEntryIsBeingRemoved)'
<1> DEFINE d == link[c].dev
<1> PICK type : TransportHead(type, c)
  BY DEF Handles, RefuseConnection, AcceptConnection, AcceptTooLate, Disconnected
<1>0. TypeOK /\ d \in Device /\ c # NoConn
  BY EntryKnown, NoConnAssumption DEF TypeOK, Link
<1>1. Shrinks([type |-> type, conn |-> c])
  BY <1>0, HeadShrinks
<1>2. /\ InPlace(1)
      /\ transportQ[1].type = type /\ transportQ[1].conn = c
      /\ 1 \in DOMAIN transportQ
  BY <1>1, EntryKnown DEF Shrinks
<1>3. \A b \in Conn \ {c} : link'[b].phase = link[b].phase
  BY <1>0 DEF Handles, RefuseConnection, AcceptConnection, AcceptTooLate,
              Disconnected, TypeOK, Link
<1>4. \A t : TransportHead(t, c) => t = type
  BY DEF TransportHead
<1>5. \A e \in Device : EndReported(connId[e]) /\ (connId[e] # c \/ type # "Disconnected")
         => \E i \in DOMAIN transportQ' :
              transportQ'[i] = [type |-> "Disconnected", conn |-> connId[e]]
  BY <1>1 DEF EndReported, Shrinks
<1>6. type = "NewConnection" => \A e \in Device : connId[e] # c
  BY <1>2 DEF InPlace
<1> SUFFICES /\ link'[c].phase = "live" =>
                   link[c].phase = "live" \/ type = "NewConnection"
             /\ \A e \in Device :
                   \/ /\ connId'[e] \in {connId[e], NoConn}
                      /\ connId'[e] = c => UNCHANGED link /\ type # "Disconnected"
                   \/ /\ type = "NewConnection" /\ connId'[e] = c
                      /\ link'[c].phase \in Accepted
  <2>1. \A i \in DOMAIN transportQ' : InPlace(i)'
    BY <1>0, <1>1, <1>3, ShrinksInOrder DEF EntryInv
  <2>2. ASSUME NEW e \in Device, Entered(e)'
        PROVE  /\ link'[connId'[e]].phase # "offered"
               /\ link'[connId'[e]].phase \notin Accepted => EndReported(connId[e])'
    <3>1. CASE connId'[e] = c /\ link'[c].phase \in Accepted
      BY <3>1 DEF Accepted
    <3>2. CASE connId'[e] = c /\ link'[c].phase \notin Accepted
      <4>1. connId[e] = c /\ UNCHANGED link /\ type # "Disconnected"
        BY <3>2, <1>0
      <4>. QED BY <1>0, <1>5, <3>2, <4>1, EntryKnown DEF Entered, EndReported
    <3>3. CASE connId'[e] # c
      <4>1. connId'[e] = connId[e] /\ Entered(e)
        BY <2>2, <3>3 DEF Entered
      <4>2. connId[e] \in Conn \ {c}
        BY <3>3, <4>1, EntryKnown
      <4>. QED BY <1>3, <1>5, <4>1, <4>2, EntryKnown DEF EndReported
    <3>. QED BY <3>1, <3>2, <3>3
  <2>. QED BY <2>1, <2>2, EntryGoal
<1>7. CASE RefuseConnection(c)
  BY <1>0, <1>4, <1>6, <1>7 DEF RefuseConnection, TypeOK, Link, maps
<1>8. CASE AcceptConnection(c)
  BY <1>0, <1>4, <1>6, <1>8 DEF AcceptConnection, TypeOK, Link, Accepted
<1>9. CASE AcceptTooLate(c)
  BY <1>0, <1>4, <1>6, <1>9 DEF AcceptTooLate, TypeOK
<1>10. CASE Disconnected(c)
  <2>1. \A e \in Device : connId[e] = c => e = d
    BY <1>0, EntryKnown DEF Entered
  <2>. QED BY <1>0, <1>4, <1>10, <2>1 DEF Disconnected, TypeOK, maps
<1>11. CASE /\ \E t \in {"PairTrue", "PairFalse", "Packet"} : TransportHead(t, c)
            /\ UNCHANGED <<link, connId>>
  BY <1>4, <1>11
<1>. QED BY <1>7, <1>8, <1>9, <1>10, <1>11 DEF Handles

LEMMA EntryInvInit == Init => EntryInv
<1> SUFFICES ASSUME Init PROVE EntryInv
  OBVIOUS
<1>1. transportQ = <<>> /\ DOMAIN transportQ = {} /\ \A d \in Device : connId[d] = NoConn
  BY DEF Init
<1>. QED
  BY <1>1, IndInvInit DEF EntryInv, ReportsInOrder, DeadEntryIsBeingRemoved

LEMMA EntryInvStep == EntryInv /\ [Next]_vars => EntryInv'
<1> SUFFICES ASSUME EntryInv, [Next]_vars
             PROVE  (ReportsInOrder /\ DeadEntryIsBeingRemoved)'
  BY IndInvStep DEF EntryInv
<1>1. QueueKind
  BY QueueKinds, EntryKnown
<1>2. CASE Restart
  <2>1. transportQ' = <<>> /\ DOMAIN transportQ' = {} /\ \A d \in Device : connId'[d] = NoConn
    BY <1>2 DEF Restart
  <2>. QED BY <2>1 DEF ReportsInOrder, DeadEntryIsBeingRemoved
<1>. QED
  BY <1>1, <1>2, StillStep, OfferStep, TimeoutStep, ReportStep, HandleStep
     DEF QueueKind

\* The inductive invariant: what CoreLoopProofs knows, the order of a connection's
\* reports (ReportsInOrder), and that a dead entry's removal is on its way.
THEOREM EntryInductive == Spec => []EntryInv
BY EntryInvInit, EntryInvStep, PTL DEF Spec

\* At every moment a registered connection is the device's own, under the pinned
\* certificate if there is one, and if it has ended its removal is on its way:
\* every connection that was served reports its end, after everything else, and no
\* end is taken for another connection's.  One that was accepted at the deadline
\* of its handshake was never served, and is excepted (DeadEntryIsBeingRemoved).
THEOREM EntriesSound == Spec => []EntriesAreSound
BY EntryInductive, PTL DEF EntryInv, IndInv, EntriesAreSound
-----------------------------------------------------------------------------
(***************************************************************************)
(* Transport events and the entry of a running connection.                 *)
(***************************************************************************)

\* The entry of d, whose connection goes on running, is changed by a step that
\* takes an event off the queue.
LosesLiveEntry(d) ==
    /\ connId[d] # NoConn
    /\ link[connId[d]].phase = "live" /\ link'[connId[d]].phase = "live"
    /\ transportQ # <<>> /\ transportQ' = Tail(transportQ)
    /\ connId'[d] # connId[d]

LEMMA OnlyReplaced ==
    ASSUME EntryInv, [Next]_vars, NEW d \in Device, LosesLiveEntry(d)
    PROVE  /\ Head(transportQ).type = "NewConnection"
           /\ link[Head(transportQ).conn].dev = d
<1>0. TypeOK /\ transportQ \in Seq(TransportEvent)
  BY EntryKnown DEF TypeOK
<1>1. Len(transportQ') = Len(transportQ) - 1 /\ Len(transportQ) \in Nat
  BY <1>0 DEF LosesLiveEntry
<1>2. connId[d] \in Conn
  BY EntryKnown DEF LosesLiveEntry, Entered
<1>3. CASE Restart
  BY <1>0, <1>2, <1>3 DEF Restart, TypeOK, Link, LosesLiveEntry
<1>4. CASE UNCHANGED transportQ
  BY <1>1, <1>4
<1>5. ASSUME NEW c \in Conn,
             Reports(c) \/ HandshakeTimeout(c) \/ \E e \in Device, x \in Cert : Offer(c, e, x)
      PROVE  FALSE
  BY <1>5 DEF Reports, HandshakeTimeout, Offer, maps, LosesLiveEntry
<1>6. ASSUME NEW c \in Conn, Handles(c)
      PROVE  /\ Head(transportQ).type = "NewConnection"
             /\ link[Head(transportQ).conn].dev = d
  <2>1. CASE AcceptConnection(c) \/ AcceptTooLate(c)
    <3>1. Head(transportQ) = [type |-> "NewConnection", conn |-> c]
      BY <2>1 DEF AcceptConnection, AcceptTooLate, TransportHead
    <3>2. link[c].dev = d
      BY <1>0, <2>1 DEF AcceptConnection, AcceptTooLate, TypeOK, LosesLiveEntry
    <3>. QED BY <3>1, <3>2
  <2>2. CASE Disconnected(c)
    <3>1. 1 \in DOMAIN transportQ /\ transportQ[1] = [type |-> "Disconnected", conn |-> c]
      BY <1>0, <2>2, HeadShrinks DEF Disconnected, Shrinks
    <3>2. link[c].phase # "live"
      BY <3>1, EntryKnown DEF InPlace
    <3>3. connId[d] = c
      BY <1>0, <2>2 DEF Disconnected, TypeOK, LosesLiveEntry, maps
    <3>. QED BY <3>2, <3>3 DEF LosesLiveEntry
  <2>3. CASE UNCHANGED connId
    BY <2>3 DEF LosesLiveEntry
  <2>. QED BY <1>6, <2>1, <2>2, <2>3 DEF Handles, RefuseConnection, maps
<1>. QED
  BY <1>0, <1>3, <1>4, <1>5, <1>6, QueueKinds DEF QueueKind

\* No event of another connection, however late, takes the entry of a running
\* one away: only a new connection of the same device replaces it.
THEOREM LiveEntryKept == Spec => StaleEventKeepsLiveEntry
<1>1. EntryInv /\ [Next]_vars
        => [ \A d \in Device :
               (/\ connId[d] # NoConn
                /\ link[connId[d]].phase = "live" /\ link'[connId[d]].phase = "live"
                /\ transportQ # <<>> /\ transportQ' = Tail(transportQ)
                /\ connId'[d] # connId[d])
               => /\ Head(transportQ).type = "NewConnection"
                  /\ link[Head(transportQ).conn].dev = d ]_vars
  BY OnlyReplaced DEF LosesLiveEntry
<1>. QED BY <1>1, EntryInductive, PTL DEF Spec, StaleEventKeepsLiveEntry
=============================================================================
