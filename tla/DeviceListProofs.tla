--------------------------- MODULE DeviceListProofs ---------------------------
(***************************************************************************)
(* Theorems about DeviceList, for any devices, certificates, connections   *)
(* and queue bounds.                                                       *)
(***************************************************************************)
EXTENDS DeviceList, CoreLoopProofs

-----------------------------------------------------------------------------
(***************************************************************************)
(* The list keeps its type, and status goes to a reachable device.         *)
(***************************************************************************)

LEMMA ListIsRun == [ListNext]_allVars => [Next]_vars
BY DEF ListNext, allVars, Next, HandleEvent, ListRestart

\* The queue's head, when the service takes it.
LEMMA TakenTyped ==
    ASSUME TypeOK, ListenerTakes
    PROVE  /\ Head(connQ) \in ConnectionEvent
           /\ Head(connQ).dev \in Device
<1>1. Head(connQ) \in ConnectionEvent
  BY DEF ListenerTakes, TypeOK
<1>. QED BY <1>1 DEF ConnectionEvent

LEMMA RestoredTyped ==
    Restored \in [Device -> Entry]
BY DEF Restored, Entry

\* An announcement makes an entry of an entry.
LEMMA UpdatedTyped ==
    ASSUME NEW old \in Entry, NEW e
    PROVE  /\ Updated(old, e) \in Entry
           /\ e.type \in {"Connected", "DevicePaired"} =>
                 Updated(old, e).known /\ Updated(old, e).reachable
           /\ old.known /\ old.reachable /\ e.type # "Disconnected" =>
                 Updated(old, e).known /\ Updated(old, e).reachable
<1>1. CASE e.type = "Connected"
  BY <1>1 DEF Updated, Entry
<1>2. CASE e.type = "DevicePaired"
  BY <1>2 DEF Updated, Entry
<1>3. CASE e.type = "Disconnected"
  BY <1>3 DEF Updated, Entry
<1>4. CASE e.type = "PairStateChanged"
  BY <1>4 DEF Updated, Entry
<1>5. CASE e.type \notin {"Connected", "DevicePaired", "Disconnected", "PairStateChanged"}
  BY <1>5 DEF Updated, Entry
<1>. QED BY <1>1, <1>2, <1>3, <1>4, <1>5

\* Whatever the next announcement is, the current device stays a listed,
\* reachable one.
CurrentInv == ListTypeOK /\ StatusGoesToReachable

LEMMA CurrentInit == ListInit => CurrentInv
BY RestoredTyped DEF ListInit, CurrentInv, ListTypeOK, StatusGoesToReachable, DeviceOrNone

LEMMA CurrentStep == TypeOK /\ CurrentInv /\ [ListNext]_allVars => CurrentInv'
<1> SUFFICES ASSUME TypeOK, CurrentInv, [ListNext]_allVars PROVE CurrentInv'
  OBVIOUS
<1> USE DEF CurrentInv
<1>1. CASE UNCHANGED listVars
  BY <1>1 DEF listVars, ListTypeOK, StatusGoesToReachable
<1>2. CASE HandleEvent
  <2> DEFINE e == Head(connQ)
  <2>1. e.dev \in Device
    BY <1>2, TakenTyped DEF HandleEvent
  <2>2. shown[e.dev] \in Entry
    BY <2>1 DEF ListTypeOK
  <2>3. /\ Updated(shown[e.dev], e) \in Entry
        /\ shown' = [shown EXCEPT ![e.dev] = Updated(shown[e.dev], e)]
    BY <1>2, <2>2, UpdatedTyped DEF HandleEvent
  <2>4. CASE e.type \in {"Connected", "DevicePaired"}
    <3>1. current' = e.dev
      BY <1>2, <2>4 DEF HandleEvent
    <3>. QED
      BY <2>1, <2>2, <2>3, <2>4, <3>1, UpdatedTyped
         DEF ListTypeOK, StatusGoesToReachable, DeviceOrNone
  <2>5. CASE e.type = "Disconnected" /\ current = e.dev
    <3>1. current' = NoDevice
      BY <1>2, <2>5 DEF HandleEvent
    <3>. QED
      BY <2>1, <2>3, <3>1 DEF ListTypeOK, StatusGoesToReachable, DeviceOrNone
  <2>6. CASE /\ e.type \notin {"Connected", "DevicePaired"}
             /\ ~(e.type = "Disconnected" /\ current = e.dev)
    <3>1. current' = current
      BY <1>2, <2>6 DEF HandleEvent
    <3>2. CASE current = e.dev
      BY <2>1, <2>2, <2>3, <2>6, <3>1, <3>2, UpdatedTyped, NoDeviceAssumption
         DEF ListTypeOK, StatusGoesToReachable, DeviceOrNone
    <3>3. CASE current # e.dev
      BY <2>1, <2>3, <3>1, <3>3 DEF ListTypeOK, StatusGoesToReachable, DeviceOrNone
    <3>. QED BY <3>2, <3>3
  <2>. QED BY <2>4, <2>5, <2>6
<1>3. CASE ListRestart
  <2>1. Restored' \in [Device -> Entry]
    BY DEF Restored, Entry
  <2>. QED
    BY <1>3, RestoredTyped
       DEF ListRestart, Restart, ListTypeOK, StatusGoesToReachable, DeviceOrNone
<1>. QED BY <1>1, <1>2, <1>3 DEF ListNext, allVars

\* The core's type invariant in the composed system.
LEMMA ListTypeStep == TypeOK /\ [ListNext]_allVars => TypeOK'
BY ListIsRun, TypeStep

\* Battery and signal are attributed to a device the list shows as reachable,
\* whatever the disk does (StateUpdated and Disconnected in dbus_interface.rs).
THEOREM StatusReachable == ListSpec => []StatusGoesToReachable
<1>1. ListInit => TypeOK /\ CurrentInv
  BY TypeInit, CurrentInit DEF ListInit
<1>2. TypeOK /\ CurrentInv /\ [ListNext]_allVars => TypeOK' /\ CurrentInv'
  BY ListTypeStep, CurrentStep
<1>3. CurrentInv => StatusGoesToReachable
  BY DEF CurrentInv
<1>. QED BY <1>1, <1>2, <1>3, PTL DEF ListSpec

-----------------------------------------------------------------------------
(***************************************************************************)
(* The last announcement of a kind in a queue.                             *)
(***************************************************************************)

OfKind(q, T, d) == {i \in DOMAIN q : q[i].type \in T /\ q[i].dev = d}

IsLast(q, T, d, i) == i \in OfKind(q, T, d) /\ \A j \in OfKind(q, T, d) : j <= i

Concerns(e, T, d) == e.type \in T /\ e.dev = d

\* As far as (T, d) goes the queue r ends as q does.
SameEnd(q, r, T, d) ==
    /\ OfKind(q, T, d) = {} <=> OfKind(r, T, d) = {}
    /\ \A i \in DOMAIN r : IsLast(r, T, d, i) =>
          \E j \in DOMAIN q : IsLast(q, T, d, j) /\ q[j] = r[i]

LEMMA SameEndStill ==
    ASSUME NEW q, NEW T, NEW d
    PROVE  SameEnd(q, q, T, d)
BY DEF SameEnd

LEMMA SameEndAppend ==
    ASSUME NEW S, NEW q \in Seq(S), NEW e \in S, NEW T, NEW d, ~Concerns(e, T, d)
    PROVE  SameEnd(q, Append(q, e), T, d)
<1>1. OfKind(Append(q, e), T, d) = OfKind(q, T, d)
  BY Longer DEF OfKind, Concerns
<1>2. \A i \in OfKind(q, T, d) : i \in DOMAIN q /\ Append(q, e)[i] = q[i]
  BY Longer DEF OfKind
<1>. QED BY <1>1, <1>2 DEF SameEnd, IsLast

\* What is appended comes last.
LEMMA LastAppend ==
    ASSUME NEW S, NEW q \in Seq(S), NEW e \in S, NEW T, NEW d, Concerns(e, T, d)
    PROVE  /\ OfKind(Append(q, e), T, d) # {}
           /\ \A i \in DOMAIN Append(q, e) :
                 IsLast(Append(q, e), T, d, i) => Append(q, e)[i] = e
<1>1. /\ DOMAIN q = 1 .. Len(q) /\ Len(q) \in Nat
      /\ DOMAIN Append(q, e) = DOMAIN q \cup {Len(q) + 1}
      /\ Append(q, e)[Len(q) + 1] = e
  BY Longer
<1>2. Len(q) + 1 \in OfKind(Append(q, e), T, d)
  BY <1>1 DEF OfKind, Concerns
<1>. QED BY <1>1, <1>2 DEF IsLast

\* The last one of a queue without its head is the last one of the queue.
LEMMA LastTail ==
    ASSUME NEW S, NEW q \in Seq(S), q # <<>>, NEW T, NEW d
    PROVE  /\ \A i \in DOMAIN Tail(q) : IsLast(Tail(q), T, d, i) =>
                 \E j \in DOMAIN q : IsLast(q, T, d, j) /\ q[j] = Tail(q)[i]
           /\ OfKind(Tail(q), T, d) # {} => OfKind(q, T, d) # {}
           /\ OfKind(Tail(q), T, d) = {} =>
                 IF Concerns(Head(q), T, d)
                    THEN IsLast(q, T, d, 1) /\ q[1] = Head(q)
                    ELSE OfKind(q, T, d) = {}
<1>0. DOMAIN q = 1 .. Len(q) /\ DOMAIN Tail(q) = 1 .. Len(Tail(q)) /\ Len(q) \in Nat
  OBVIOUS
<1>1. \A i \in OfKind(Tail(q), T, d) : i + 1 \in OfKind(q, T, d) /\ q[i + 1] = Tail(q)[i]
  BY Shorter DEF OfKind
<1>2. \A i \in OfKind(q, T, d) \ {1} : i - 1 \in OfKind(Tail(q), T, d)
  BY Shorter DEF OfKind
<1>3. 1 \in OfKind(q, T, d) <=> Concerns(Head(q), T, d)
  BY Shorter DEF OfKind, Concerns
<1>4. ASSUME NEW i \in DOMAIN Tail(q), IsLast(Tail(q), T, d, i)
      PROVE  IsLast(q, T, d, i + 1) /\ q[i + 1] = Tail(q)[i] /\ i + 1 \in DOMAIN q
  <2>1. i + 1 \in OfKind(q, T, d) /\ q[i + 1] = Tail(q)[i]
    BY <1>1, <1>4 DEF IsLast
  <2>2. ASSUME NEW j \in OfKind(q, T, d) PROVE j <= i + 1
    <3>1. i \in Nat /\ i >= 1 /\ j \in Nat
      BY <1>0 DEF OfKind
    <3>2. j # 1 => j - 1 <= i
      BY <1>2, <1>4 DEF IsLast
    <3>. QED BY <3>1, <3>2
  <2>. QED BY <2>1, <2>2 DEF IsLast, OfKind
<1>5. OfKind(Tail(q), T, d) = {} => OfKind(q, T, d) \subseteq {1}
  BY <1>2
<1>6. q[1] = Head(q)
  OBVIOUS
<1>7. ASSUME OfKind(Tail(q), T, d) = {}, Concerns(Head(q), T, d)
      PROVE  IsLast(q, T, d, 1)
  BY <1>3, <1>5, <1>7 DEF IsLast
<1>. QED BY <1>1, <1>3, <1>4, <1>5, <1>6, <1>7

LEMMA SameEndTail ==
    ASSUME NEW S, NEW q \in Seq(S), q # <<>>, NEW T, NEW d, ~Concerns(Head(q), T, d)
    PROVE  SameEnd(q, Tail(q), T, d)
BY LastTail DEF SameEnd

-----------------------------------------------------------------------------
(***************************************************************************)
(* What a step does to files, entries and the two queues.                  *)
(***************************************************************************)

\* The announcements that say whether a device is paired, and whether it is
\* there.  Of the core's own events only the first kind is among them.
PairTypes == {"Connected", "DevicePaired", "PairStateChanged"}
ReachTypes == {"Connected", "DevicePaired", "Disconnected"}

Passes(q, r, S, T) ==
    \/ r = q
    \/ \E e \in S : e.type \notin T /\ r = Append(q, e)

\* What the event e says of a device is what its file says.
Tells(e, rec) ==
    CASE e.type = "Connected"    -> e.state = "Paired" <=> Trusted(rec)
      [] e.type = "DevicePaired" -> Trusted(rec)
      [] OTHER                   -> e.state # "Paired" /\ rec.state # "Paired"

\* Nothing to say about pairing.
Silent ==
    /\ \/ Passes(eventQ, eventQ', CoreEvent, PairTypes)
       \/ /\ eventQ # <<>> /\ Head(eventQ).type \notin PairTypes
          /\ eventQ' = Tail(eventQ)
    /\ Passes(connQ, connQ', ConnectionEvent, PairTypes \cup ReachTypes)
    /\ UNCHANGED disk
    /\ NoNewEntry

\* The file of d is written, and the change is put into the event queue.
Writes(d) ==
    /\ \A b \in Device \ {d} : disk'[b] = disk[b]
    /\ \E e \in CoreEvent : /\ Concerns(e, PairTypes \ {"Connected"}, d)
                            /\ Tells(e, disk'[d])
                            /\ eventQ' = Append(eventQ, e)
    /\ \/ connQ' = connQ
       \/ \E e \in ConnectionEvent : /\ e.type \notin ReachTypes
                                     /\ e.dev = d
                                     /\ connQ' = Append(connQ, e)
    /\ UNCHANGED connId

\* The head of the event queue is announced.
Announces ==
    /\ eventQ # <<>>
    /\ eventQ' = Tail(eventQ)
    /\ Head(eventQ).type \in PairTypes \ {"Connected"}
    /\ connQ' = Append(connQ, [type  |-> Head(eventQ).type,
                               dev   |-> Head(eventQ).dev,
                               state |-> IF Head(eventQ).type = "DevicePaired"
                                            THEN "Paired" ELSE Head(eventQ).state])
    /\ UNCHANGED <<disk, connId>>

\* A connection of d is registered, and one is taken away.
Connects(d) ==
    /\ \A b \in Device \ {d} : connId'[b] = connId[b]
    /\ Passes(eventQ, eventQ', CoreEvent, PairTypes)
    /\ connQ' = Append(connQ, [type  |-> "Connected", dev |-> d,
                               state |-> LoadFrom(disk[d]).state])
    /\ UNCHANGED disk

Disconnects(d) ==
    /\ \A b \in Device \ {d} : connId'[b] = connId[b]
    /\ connId'[d] = NoConn
    /\ connQ' = Append(connQ, [type |-> "Disconnected", dev |-> d, state |-> "NotPaired"])
    /\ UNCHANGED <<disk, eventQ>>

\* A file could not be written, and the change is announced nevertheless.
AnnouncesUnwritten(d) ==
    /\ DiskMayFail
    /\ \E e \in ConnectionEvent : /\ e.type \notin ReachTypes
                                  /\ e.dev = d
                                  /\ connQ' = Append(connQ, e)
    /\ UNCHANGED <<disk, connId, eventQ>>

AnnounceKind ==
    \/ Silent
    \/ Announces
    \/ \E d \in Device : \/ Writes(d) \/ AnnouncesUnwritten(d)
                        \/ Connects(d) \/ Disconnects(d)

\* What Raise and Tell append.
LEMMA Raised ==
    ASSUME NEW d \in Device, NEW s \in PairState,
           NEW type \in {"DevicePaired", "PairStateChanged", "SendPacket"},
           Raise(type, d, NoConn, s)
    PROVE  \E e \in CoreEvent : /\ e.type = type /\ e.dev = d /\ e.state = s
                                /\ eventQ' = Append(eventQ, e)
<1> DEFINE e == [type |-> type, dev |-> d, conn |-> NoConn, state |-> s]
<1>1. e \in CoreEvent
  BY DEF CoreEvent
<1>. QED BY <1>1 DEF Raise

LEMMA PacketRaised ==
    ASSUME NEW d \in Device, NEW c \in Conn, NEW s \in PairState,
           Raise("PacketReceived", d, c, s)
    PROVE  Passes(eventQ, eventQ', CoreEvent, PairTypes)
<1> DEFINE e == [type |-> "PacketReceived", dev |-> d, conn |-> c, state |-> s]
<1>1. e \in CoreEvent
  BY DEF CoreEvent
<1>. QED BY <1>1 DEF Raise, Passes, PairTypes

LEMMA PacketSendRaised ==
    ASSUME NEW d \in Device, NEW s \in PairState, Raise("SendPacket", d, NoConn, s)
    PROVE  Passes(eventQ, eventQ', CoreEvent, PairTypes)
<1>1. PICK e \in CoreEvent : e.type = "SendPacket" /\ eventQ' = Append(eventQ, e)
  BY Raised
<1>. QED BY <1>1 DEF Passes, PairTypes

LEMMA Told ==
    ASSUME NEW d \in Device, NEW s \in PairState, NEW type, Tell(type, d, s),
           type \in {"Connected", "Disconnected", "DevicePaired", "PairStateChanged",
                     "PairingRequested", "StateUpdated"}
    PROVE  \E e \in ConnectionEvent : /\ e.type = type /\ e.dev = d /\ e.state = s
                                      /\ connQ' = Append(connQ, e)
<1> DEFINE e == [type |-> type, dev |-> d, state |-> s]
<1>1. e \in ConnectionEvent
  BY DEF ConnectionEvent
<1>. QED BY <1>1 DEF Tell

\* A store operation writes, and raises what it has written.
LEMMA StoreWrites ==
    ASSUME TypeOK, NEW d \in Device,
           \/ \E s \in {"NotPaired", "Requesting", "Requested"} : UpdatePairState(d, s)
           \/ Approve(d)
           \/ Revoke(d)
    PROVE  /\ \A b \in Device \ {d} : disk'[b] = disk[b]
           /\ \E e \in CoreEvent : /\ Concerns(e, PairTypes \ {"Connected"}, d)
                                   /\ Tells(e, disk'[d])
                                   /\ eventQ' = Append(eventQ, e)
<1>0. disk \in [Device -> FileRecord] /\ devices[d] \in MemDevice
  BY DEF TypeOK
<1>1. CASE \E s \in {"NotPaired", "Requesting", "Requested"} : UpdatePairState(d, s)
  <2>1. PICK s \in {"NotPaired", "Requesting", "Requested"} : UpdatePairState(d, s)
    BY <1>1
  <2>2. s \in PairState /\ Raise("PairStateChanged", d, NoConn, s)
    BY <2>1 DEF UpdatePairState, PairState
  <2>3. PICK e \in CoreEvent : /\ e.type = "PairStateChanged" /\ e.dev = d /\ e.state = s
                               /\ eventQ' = Append(eventQ, e)
    BY <2>2, Raised
  <2>4. disk'[d].state = s /\ \A b \in Device \ {d} : disk'[b] = disk[b]
    BY <1>0, <2>1 DEF UpdatePairState, StoreIn
  <2>. QED BY <2>3, <2>4 DEF Concerns, PairTypes, Tells
<1>2. CASE Approve(d)
  <2>1. "Paired" \in PairState /\ Raise("DevicePaired", d, NoConn, "Paired")
    BY <1>2 DEF Approve, PairState
  <2>2. PICK e \in CoreEvent : /\ e.type = "DevicePaired" /\ e.dev = d
                               /\ eventQ' = Append(eventQ, e)
    BY <2>1, Raised
  <2>3. Trusted(disk'[d]) /\ \A b \in Device \ {d} : disk'[b] = disk[b]
    BY <1>0, <1>2 DEF Approve, StoreIn, Pinned, Trusted, MemDevice
  <2>. QED BY <2>2, <2>3 DEF Concerns, PairTypes, Tells
<1>3. CASE Revoke(d)
  <2>1. "NotPaired" \in PairState /\ Raise("PairStateChanged", d, NoConn, "NotPaired")
    BY <1>3 DEF Revoke, PairState
  <2>2. PICK e \in CoreEvent : /\ e.type = "PairStateChanged" /\ e.dev = d
                               /\ e.state = "NotPaired" /\ eventQ' = Append(eventQ, e)
    BY <2>1, Raised
  <2>3. disk'[d].state = "NotPaired" /\ \A b \in Device \ {d} : disk'[b] = disk[b]
    BY <1>0, <1>3 DEF Revoke, Blank
  <2>. QED BY <2>2, <2>3 DEF Concerns, PairTypes, Tells
<1>. QED BY <1>1, <1>2, <1>3

LEMMA LinkAnnounces == LinkStep => Silent
BY DEF LinkStep, Offer, HandshakeTimeout, LinkReads, LinkWrites, LinkEnds, Silent,
       Passes, NoNewEntry, maps

LEMMA TransportAnnounces == TypeOK /\ TransportStep => AnnounceKind
<1> SUFFICES ASSUME TypeOK, NEW c \in Conn,
                    \/ RefuseConnection(c) \/ AcceptConnection(c) \/ AcceptTooLate(c)
                    \/ IncomingPairTrue(c) \/ IncomingPairFalse(c) \/ IncomingPacket(c)
                    \/ IgnoreStalePacket(c) \/ Disconnected(c)
             PROVE  AnnounceKind
  BY DEF TransportStep
<1> DEFINE d == link[c].dev
<1>0. /\ d \in Device /\ connId \in [Device -> ConnOrNone]
      /\ {"NotPaired", "Requested", "Paired"} \subseteq PairState
  BY DEF TypeOK, Link, PairState
<1>1. CASE RefuseConnection(c) \/ AcceptTooLate(c) \/ IgnoreStalePacket(c)
  <2>1. Silent
    BY <1>0, <1>1 DEF RefuseConnection, AcceptTooLate, IgnoreStalePacket, Silent, Passes,
                      NoNewEntry, maps
  <2>. QED BY <2>1 DEF AnnounceKind
<1>2. CASE AcceptConnection(c)
  <2>1. connId' = [connId EXCEPT ![d] = c]
    BY <1>2 DEF AcceptConnection
  <2>2. Passes(eventQ, eventQ', CoreEvent, PairTypes)
    <3>1. CASE Raise("SendPacket", d, NoConn, "Paired")
      BY <1>0, <3>1, PacketSendRaised
    <3>. QED BY <1>2, <3>1 DEF AcceptConnection, Passes
  <2>3. connQ' = Append(connQ, [type  |-> "Connected", dev |-> d,
                                state |-> LoadFrom(disk[d]).state])
    BY <1>2 DEF AcceptConnection, Tell, Loaded
  <2>4. Connects(d)
    BY <1>0, <1>2, <2>1, <2>2, <2>3 DEF AcceptConnection, Connects
  <2>. QED BY <1>0, <2>4 DEF AnnounceKind
<1>3. CASE IncomingPairTrue(c)
  <2>1. UNCHANGED connId
    BY <1>3 DEF IncomingPairTrue, maps
  <2>2. CASE Approve(d) /\ UNCHANGED connQ
    <3>1. Writes(d)
      BY <1>0, <2>1, <2>2, StoreWrites DEF Writes
    <3>. QED BY <1>0, <3>1 DEF AnnounceKind
  <2>3. CASE UNCHANGED <<disk, eventQ>> /\ UNCHANGED connQ
    BY <2>1, <2>3 DEF AnnounceKind, Silent, Passes, NoNewEntry
  <2>4. CASE Tell("PairingRequested", d, "Requested")
    <3>1. PICK e \in ConnectionEvent : /\ e.type = "PairingRequested" /\ e.dev = d
                                       /\ connQ' = Append(connQ, e)
      BY <1>0, <2>4, Told
    <3>2. CASE UpdatePairState(d, "Requested")
      <4>1. Writes(d)
        BY <1>0, <2>1, <3>1, <3>2, StoreWrites DEF Writes, ReachTypes
      <4>. QED BY <1>0, <4>1 DEF AnnounceKind
    <3>3. CASE UNCHANGED <<disk, eventQ>>
      <4>1. Silent
        BY <2>1, <3>1, <3>3 DEF Silent, Passes, NoNewEntry, PairTypes, ReachTypes
      <4>. QED BY <4>1 DEF AnnounceKind
    <3>. QED BY <1>3, <3>2, <3>3, <2>2, <2>3 DEF IncomingPairTrue, StoreFails
  <2>. QED BY <1>3, <2>2, <2>3, <2>4 DEF IncomingPairTrue, StoreFails
<1>4. CASE IncomingPairFalse(c)
  <2>1. UNCHANGED connId
    BY <1>4 DEF IncomingPairFalse, maps
  <2>2. CASE UNCHANGED <<disk, eventQ, connQ>>
    BY <2>1, <2>2 DEF AnnounceKind, Silent, Passes, NoNewEntry
  <2>3. CASE Tell("PairStateChanged", d, "NotPaired")
    <3>1. PICK e \in ConnectionEvent : /\ e.type = "PairStateChanged" /\ e.dev = d
                                       /\ connQ' = Append(connQ, e)
      BY <1>0, <2>3, Told
    <3>2. CASE UpdatePairState(d, "NotPaired")
      <4>1. Writes(d)
        BY <1>0, <2>1, <3>1, <3>2, StoreWrites DEF Writes, ReachTypes
      <4>. QED BY <1>0, <4>1 DEF AnnounceKind
    <3>3. CASE StoreFails
      <4>1. AnnouncesUnwritten(d)
        BY <2>1, <3>1, <3>3 DEF StoreFails, AnnouncesUnwritten, ReachTypes
      <4>. QED BY <1>0, <4>1 DEF AnnounceKind
    <3>. QED BY <1>4, <2>2, <3>2, <3>3 DEF IncomingPairFalse
  <2>. QED BY <1>4, <2>2, <2>3 DEF IncomingPairFalse
<1>5. CASE IncomingPacket(c)
  <2>1. Passes(eventQ, eventQ', CoreEvent, PairTypes)
    BY <1>0, <1>5, PacketRaised DEF IncomingPacket
  <2>. QED
    BY <1>5, <2>1 DEF IncomingPacket, AnnounceKind, Silent, Passes, NoNewEntry, maps
<1>6. CASE Disconnected(c)
  <2>1. CASE connId[d] \in {c, NoConn}
    <3>1. Disconnects(d)
      BY <1>0, <1>6, <2>1 DEF Disconnected, Disconnects, Tell
    <3>. QED BY <1>0, <3>1 DEF AnnounceKind
  <2>2. CASE connId[d] \notin {c, NoConn}
    BY <1>6, <2>2 DEF Disconnected, AnnounceKind, Silent, Passes, NoNewEntry, maps
  <2>. QED BY <2>1, <2>2
<1>. QED BY <1>1, <1>2, <1>3, <1>4, <1>5, <1>6

LEMMA AppAnnounces == TypeOK /\ AppStep => AnnounceKind
<1> SUFFICES ASSUME TypeOK, NEW d \in Device,
                    \/ Pair(d) \/ AcceptPairing(d) \/ RejectPairing(d) \/ Unpair(d)
                    \/ Disconnect(d) \/ SetPluginEnabled(d) \/ AppSends(d)
             PROVE  Silent \/ Writes(d) \/ Disconnects(d)
  BY DEF AppStep, AnnounceKind
<1>0. connId \in [Device -> ConnOrNone] /\ "NotPaired" \in PairState
  BY DEF TypeOK, PairState
<1>1. ASSUME connQ' = connQ, connId' = connId, UNCHANGED <<disk, eventQ>>
      PROVE  Silent
  BY <1>1 DEF Silent, Passes, NoNewEntry
<1>2. ASSUME connQ' = connQ, connId' = connId,
             \/ \E s \in {"NotPaired", "Requesting", "Requested"} : UpdatePairState(d, s)
             \/ Approve(d)
      PROVE  Writes(d)
  BY <1>2, StoreWrites DEF Writes
<1>3. CASE Pair(d)
  BY <1>1, <1>2, <1>3 DEF Pair, StoreFails, maps
<1>4. CASE AcceptPairing(d)
  BY <1>1, <1>2, <1>4 DEF AcceptPairing, StoreFails, maps
<1>5. CASE RejectPairing(d)
  BY <1>1, <1>2, <1>5 DEF RejectPairing, StoreFails, maps
<1>6. CASE Unpair(d)
  <2>1. CASE Revoke(d) /\ Tell("PairStateChanged", d, "NotPaired")
    <3>1. PICK e \in ConnectionEvent : /\ e.type = "PairStateChanged" /\ e.dev = d
                                       /\ connQ' = Append(connQ, e)
      BY <1>0, <2>1, Told
    <3>. QED BY <1>6, <2>1, <3>1, StoreWrites DEF Unpair, Writes, ReachTypes, maps
  <2>. QED BY <1>1, <1>6, <2>1 DEF Unpair, StoreFails, maps
<1>7. CASE Disconnect(d)
  BY <1>0, <1>7 DEF Disconnect, Disconnects, Tell
<1>8. CASE SetPluginEnabled(d)
  BY <1>0, <1>8 DEF SetPluginEnabled, Silent, Passes, NoNewEntry
<1>9. CASE AppSends(d)
  BY <1>1, <1>9 DEF AppSends, maps
<1>. QED BY <1>3, <1>4, <1>5, <1>6, <1>7, <1>8, <1>9

LEMMA CoreAnnounces == TypeOK /\ CoreStep => AnnounceKind
<1> SUFFICES ASSUME TypeOK, CoreStep PROVE Silent \/ Announces
  BY DEF AnnounceKind
<1>1. CASE PacketReceived
  <2>1. Head(eventQ).dev \in Device /\ "Paired" \in PairState
    BY <1>1, CoreHeadTyped DEF PacketReceived, PairState
  <2>2. Passes(connQ, connQ', ConnectionEvent, PairTypes \cup ReachTypes)
    <3>1. CASE Tell("StateUpdated", Head(eventQ).dev, "Paired")
      <4>1. PICK e \in ConnectionEvent : /\ e.type = "StateUpdated"
                                         /\ connQ' = Append(connQ, e)
        BY <2>1, <3>1, Told
      <4>. QED BY <4>1 DEF Passes, PairTypes, ReachTypes
    <3>. QED BY <1>1, <3>1 DEF PacketReceived, Passes
  <2>. QED
    BY <1>1, <2>2 DEF PacketReceived, CoreHead, Silent, NoNewEntry, PairTypes, maps
<1>2. CASE DevicePaired
  BY <1>2 DEF DevicePaired, CoreHead, Announces, Tell, PairTypes, maps
<1>3. CASE PairStateChanged
  BY <1>3 DEF PairStateChanged, CoreHead, Announces, Tell, PairTypes, maps
<1>4. CASE SendPacket
  BY <1>4 DEF SendPacket, CoreHead, Silent, Passes, NoNewEntry, PairTypes, maps
<1>. QED BY <1>1, <1>2, <1>3, <1>4 DEF CoreStep

LEMMA RunAnnounces == TypeOK /\ RunStep => AnnounceKind
<1> SUFFICES ASSUME TypeOK, RunStep PROVE AnnounceKind
  OBVIOUS
<1>1. ASSUME NEW d \in Device, PluginSends(d) PROVE Silent
  <2>1. Passes(eventQ, eventQ', CoreEvent, PairTypes)
    BY <1>1, PacketSendRaised DEF PluginSends, PairState
  <2>. QED BY <1>1, <2>1 DEF PluginSends, Silent, Passes, NoNewEntry, maps
<1>. QED
  BY <1>1, LinkAnnounces, TransportAnnounces, AppAnnounces, CoreAnnounces
     DEF RunStep, AnnounceKind

-----------------------------------------------------------------------------
(***************************************************************************)
(* The list agrees with the core.                                          *)
(***************************************************************************)

\* What the list shows of d when nothing about its pairing is on its way.
ShownTells(d) ==
    /\ shown[d].paired => disk[d].state = "Paired"
    /\ shown[d].known /\ Trusted(disk[d]) => shown[d].paired
    /\ connId[d] # NoConn /\ shown[d].paired => Trusted(disk[d])

\* The last announcement that is on its way about the pairing of d is right,
\* the core's own queue coming after the listeners'.
PairingInv(d) ==
    /\ \A i \in DOMAIN eventQ :
          IsLast(eventQ, PairTypes, d, i) => Tells(eventQ[i], disk[d])
    /\ OfKind(eventQ, PairTypes, d) = {} =>
          /\ \A i \in DOMAIN connQ :
                IsLast(connQ, PairTypes, d, i) => Tells(connQ[i], disk[d])
          /\ OfKind(connQ, PairTypes, d) = {} => ShownTells(d)

\* The last announcement that a connected device comes or goes is that it came.
ReachInv(d) ==
    connId[d] # NoConn =>
        /\ \A i \in DOMAIN connQ :
              IsLast(connQ, ReachTypes, d, i) => connQ[i].type # "Disconnected"
        /\ OfKind(connQ, ReachTypes, d) = {} => shown[d].known /\ shown[d].reachable

\* A step that leaves the end of both queues alone.
LEMMA PairingStill ==
    ASSUME NEW d, PairingInv(d),
           SameEnd(eventQ, eventQ', PairTypes, d),
           SameEnd(connQ, connQ', PairTypes, d),
           disk'[d] = disk[d], shown'[d] = shown[d], connId'[d] \in {connId[d], NoConn}
    PROVE  PairingInv(d)'
BY DEF PairingInv, SameEnd, ShownTells

LEMMA ReachStill ==
    ASSUME NEW d, ReachInv(d), SameEnd(connQ, connQ', ReachTypes, d),
           shown'[d] = shown[d], connId'[d] \in {connId[d], NoConn}
    PROVE  ReachInv(d)'
BY DEF ReachInv, SameEnd

\* Queues that pass, queue or drop something else end as they did.
LEMMA PassesSameEnd ==
    ASSUME NEW S, NEW q \in Seq(S), NEW r, NEW T, NEW U, NEW d, T \subseteq U,
           Passes(q, r, S, U)
    PROVE  SameEnd(q, r, T, d)
<1>1. CASE r = q
  BY <1>1, SameEndStill
<1>2. CASE r # q
  <2>1. PICK e \in S : e.type \notin U /\ r = Append(q, e)
    BY <1>2 DEF Passes
  <2>2. ~Concerns(e, T, d)
    BY <2>1 DEF Concerns
  <2>. QED BY <2>1, <2>2, SameEndAppend
<1>. QED BY <1>1, <1>2

LEMMA SilentKeepsPairing ==
    ASSUME TypeOK, Silent, UNCHANGED listVars, NEW d \in Device, PairingInv(d)
    PROVE  PairingInv(d)'
<1>1. eventQ \in Seq(CoreEvent) /\ connQ \in Seq(ConnectionEvent)
  BY DEF TypeOK
<1>2. SameEnd(eventQ, eventQ', PairTypes, d)
  <2>1. CASE Passes(eventQ, eventQ', CoreEvent, PairTypes)
    BY <1>1, <2>1, PassesSameEnd
  <2>2. CASE /\ eventQ # <<>> /\ Head(eventQ).type \notin PairTypes
             /\ eventQ' = Tail(eventQ)
    BY <1>1, <2>2, SameEndTail DEF Concerns
  <2>. QED BY <2>1, <2>2 DEF Silent
<1>3. SameEnd(connQ, connQ', PairTypes, d)
  BY <1>1, PassesSameEnd DEF Silent
<1>. QED BY <1>2, <1>3, PairingStill DEF Silent, NoNewEntry, listVars

LEMMA WritesKeepsPairing ==
    ASSUME TypeOK, NEW b \in Device, Writes(b), UNCHANGED listVars,
           NEW d \in Device, PairingInv(d)
    PROVE  PairingInv(d)'
<1>1. eventQ \in Seq(CoreEvent) /\ connQ \in Seq(ConnectionEvent)
  BY DEF TypeOK
<1>2. PICK e \in CoreEvent : /\ Concerns(e, PairTypes \ {"Connected"}, b)
                             /\ Tells(e, disk'[b])
                             /\ eventQ' = Append(eventQ, e)
  BY DEF Writes
<1>3. CASE d = b
  <2>1. Concerns(e, PairTypes, d)
    BY <1>2, <1>3 DEF Concerns
  <2>. QED BY <1>1, <1>2, <1>3, <2>1, LastAppend DEF PairingInv
<1>4. CASE d # b
  <2>1. SameEnd(eventQ, eventQ', PairTypes, d)
    BY <1>1, <1>2, <1>4, SameEndAppend DEF Concerns
  <2>2. SameEnd(connQ, connQ', PairTypes, d)
    <3>1. CASE connQ' = connQ
      BY <3>1, SameEndStill
    <3>2. CASE connQ' # connQ
      <4>1. PICK f \in ConnectionEvent : f.dev = b /\ connQ' = Append(connQ, f)
        BY <3>2 DEF Writes
      <4>. QED BY <1>1, <1>4, <4>1, SameEndAppend DEF Concerns
    <3>. QED BY <3>1, <3>2
  <2>. QED BY <1>4, <2>1, <2>2, PairingStill DEF Writes, listVars
<1>. QED BY <1>3, <1>4

LEMMA ConnectsKeepsPairing ==
    ASSUME TypeOK, NEW b \in Device, Connects(b), UNCHANGED listVars,
           NEW d \in Device, PairingInv(d)
    PROVE  PairingInv(d)'
<1> DEFINE e == [type  |-> "Connected", dev |-> b, state |-> LoadFrom(disk[b]).state]
<1>1. /\ eventQ \in Seq(CoreEvent) /\ connQ \in Seq(ConnectionEvent)
      /\ disk[b] \in FileRecord
  BY DEF TypeOK
<1>2. e \in ConnectionEvent /\ connQ' = Append(connQ, e) /\ Tells(e, disk[b])
  BY <1>1 DEF Connects, ConnectionEvent, LoadFrom, Blank, FileRecord, PairState, Tells,
              Trusted
<1>3. SameEnd(eventQ, eventQ', PairTypes, d)
  BY <1>1, PassesSameEnd DEF Connects
<1>4. CASE d = b
  <2>1. Concerns(e, PairTypes, d)
    BY <1>4 DEF Concerns, PairTypes
  <2>2. /\ OfKind(connQ', PairTypes, d) # {}
        /\ \A i \in DOMAIN connQ' : IsLast(connQ', PairTypes, d, i) => connQ'[i] = e
    <3> HIDE DEF e
    <3>. QED BY <1>1, <1>2, <2>1, LastAppend
  <2>3. disk' = disk /\ Tells(e, disk'[d])
    BY <1>2, <1>4 DEF Connects
  <2> HIDE DEF e
  <2>. QED BY <1>3, <2>2, <2>3 DEF PairingInv, SameEnd
<1>5. CASE d # b
  <2>1. SameEnd(connQ, connQ', PairTypes, d)
    <3>1. ~Concerns(e, PairTypes, d)
      BY <1>5 DEF Concerns
    <3> HIDE DEF e
    <3>. QED BY <1>1, <1>2, <3>1, SameEndAppend
  <2>. QED BY <1>3, <1>5, <2>1, PairingStill DEF Connects, listVars
<1>. QED BY <1>4, <1>5

LEMMA DisconnectsKeepsPairing ==
    ASSUME TypeOK, NEW b \in Device, Disconnects(b), UNCHANGED listVars,
           NEW d \in Device, PairingInv(d)
    PROVE  PairingInv(d)'
<1> DEFINE e == [type |-> "Disconnected", dev |-> b, state |-> "NotPaired"]
<1>1. connQ \in Seq(ConnectionEvent) /\ e \in ConnectionEvent /\ connQ' = Append(connQ, e)
  BY DEF TypeOK, ConnectionEvent, PairState, Disconnects
<1>2. ~Concerns(e, PairTypes, d)
  BY DEF Concerns, PairTypes
<1>3. SameEnd(connQ, connQ', PairTypes, d)
  <2> HIDE DEF e
  <2>. QED BY <1>1, <1>2, SameEndAppend
<1>. QED BY <1>3, SameEndStill, PairingStill DEF Disconnects, listVars

\* What was last in the core's queue becomes the last in the listeners'.
LEMMA AnnouncesKeepsPairing ==
    ASSUME TypeOK, Announces, UNCHANGED listVars, NEW d \in Device, PairingInv(d)
    PROVE  PairingInv(d)'
<1> DEFINE h == Head(eventQ)
           e == [type  |-> h.type, dev |-> h.dev,
                 state |-> IF h.type = "DevicePaired" THEN "Paired" ELSE h.state]
<1>1. /\ eventQ \in Seq(CoreEvent) /\ connQ \in Seq(ConnectionEvent)
      /\ eventQ # <<>> /\ h \in CoreEvent
  BY DEF TypeOK, Announces
<1>2. h.dev \in Device /\ h.state \in PairState
  BY <1>1 DEF CoreEvent
<1>3. /\ e \in ConnectionEvent /\ connQ' = Append(connQ, e) /\ eventQ' = Tail(eventQ)
      /\ h.type \in PairTypes \ {"Connected"}
  BY <1>2 DEF Announces, ConnectionEvent, PairState, PairTypes
<1>4. \A i \in DOMAIN eventQ' :
         IsLast(eventQ', PairTypes, d, i) => Tells(eventQ'[i], disk[d])
  BY <1>1, <1>3, LastTail DEF PairingInv
<1>5. CASE OfKind(eventQ', PairTypes, d) # {}
  BY <1>4, <1>5 DEF PairingInv, Announces
<1>6. CASE OfKind(eventQ', PairTypes, d) = {} /\ h.dev = d
  <2>1. Concerns(h, PairTypes, d) /\ Concerns(e, PairTypes, d)
    BY <1>3, <1>6 DEF Concerns
  <2>2. IsLast(eventQ, PairTypes, d, 1) /\ eventQ[1] = h /\ 1 \in DOMAIN eventQ
    <3>1. OfKind(Tail(eventQ), PairTypes, d) = {}
      BY <1>3, <1>6
    <3>2. IsLast(eventQ, PairTypes, d, 1)
      BY <1>1, <2>1, <3>1, LastTail
    <3>. QED BY <1>1, <3>2 DEF IsLast, OfKind
  <2>3. Tells(e, disk[d])
    BY <1>3, <2>2 DEF PairingInv, Tells, PairTypes
  <2>4. /\ OfKind(connQ', PairTypes, d) # {}
        /\ \A i \in DOMAIN connQ' : IsLast(connQ', PairTypes, d, i) => connQ'[i] = e
    <3> HIDE DEF e
    <3>. QED BY <1>1, <1>3, <2>1, LastAppend
  <2> HIDE DEF e
  <2>. QED BY <1>4, <1>6, <2>3, <2>4 DEF PairingInv, Announces
<1>7. CASE OfKind(eventQ', PairTypes, d) = {} /\ h.dev # d
  <2>1. ~Concerns(h, PairTypes, d) /\ ~Concerns(e, PairTypes, d)
    BY <1>7 DEF Concerns
  <2>2. SameEnd(eventQ, eventQ', PairTypes, d)
    BY <1>1, <1>3, <2>1, SameEndTail
  <2>3. SameEnd(connQ, connQ', PairTypes, d)
    <3> HIDE DEF e
    <3>. QED BY <1>1, <1>3, <2>1, SameEndAppend
  <2>. QED BY <2>2, <2>3, PairingStill DEF Announces, listVars
<1>. QED BY <1>5, <1>6, <1>7

\* The service takes the next announcement.
LEMMA HandledKeepsPairing ==
    ASSUME TypeOK, ListTypeOK, HandleEvent, NEW d \in Device, PairingInv(d), ReachInv(d)
    PROVE  PairingInv(d)'
<1> DEFINE h == Head(connQ)
<1>1. /\ connQ \in Seq(ConnectionEvent) /\ connQ # <<>> /\ connQ' = Tail(connQ)
      /\ h \in ConnectionEvent /\ h.dev \in Device
      /\ UNCHANGED <<disk, connId, eventQ>>
  BY TakenTyped DEF HandleEvent, ListenerTakes, TypeOK, maps
<1>2. \A b \in Device : shown'[b] = IF b = h.dev THEN Updated(shown[b], h) ELSE shown[b]
  BY <1>1 DEF HandleEvent, ListTypeOK
<1>3. CASE OfKind(eventQ, PairTypes, d) # {}
  BY <1>1, <1>3 DEF PairingInv
<1>4. CASE OfKind(eventQ, PairTypes, d) = {} /\ OfKind(connQ', PairTypes, d) # {}
  <2>1. \A i \in DOMAIN connQ' :
           IsLast(connQ', PairTypes, d, i) => Tells(connQ'[i], disk[d])
    BY <1>1, <1>4, LastTail DEF PairingInv
  <2>. QED BY <1>1, <1>4, <2>1 DEF PairingInv
<1>5. CASE OfKind(eventQ, PairTypes, d) = {} /\ OfKind(connQ', PairTypes, d) = {}
  <2>0. \A i \in DOMAIN connQ' : ~IsLast(connQ', PairTypes, d, i)
    BY <1>5 DEF IsLast
  <2>1. CASE Concerns(h, PairTypes, d)
    <3>1. IsLast(connQ, PairTypes, d, 1)
      BY <1>1, <1>5, <2>1, LastTail
    <3>2. connQ[1] = h /\ 1 \in DOMAIN connQ
      BY <1>1, <3>1 DEF IsLast, OfKind
    <3>3. Tells(h, disk[d])
      BY <1>5, <3>1, <3>2 DEF PairingInv
    <3>4. shown'[d] = Updated(shown[d], h) /\ shown[d] \in Entry
      BY <1>2, <2>1 DEF Concerns, ListTypeOK
    <3>5. ShownTells(d)'
      <4>1. CASE h.type = "Connected"
        <5>1. h.state = "Paired" <=> Trusted(disk[d])
          BY <3>3, <4>1 DEF Tells
        <5>2. shown'[d] = [known |-> TRUE, paired |-> h.state = "Paired", reachable |-> TRUE]
          BY <3>4, <4>1 DEF Updated
        <5>3. shown'[d].paired = (h.state = "Paired")
          BY <5>2
        <5>4. shown'[d].paired <=> Trusted(disk[d])
          BY <5>1, <5>3, Zenon
        <5>. QED BY <1>1, <5>4 DEF ShownTells, Trusted
      <4>2. CASE h.type = "DevicePaired"
        BY <1>1, <3>3, <3>4, <4>2 DEF Updated, Tells, ShownTells, Trusted
      <4>3. CASE h.type = "PairStateChanged"
        BY <1>1, <3>3, <3>4, <4>3 DEF Updated, Tells, ShownTells, Trusted, Entry
      <4>. QED BY <2>1, <4>1, <4>2, <4>3 DEF Concerns, PairTypes
    <3>. QED BY <1>1, <1>5, <2>0, <3>5 DEF PairingInv
  <2>2. CASE ~Concerns(h, PairTypes, d)
    <3>1. OfKind(connQ, PairTypes, d) = {}
      BY <1>1, <1>5, <2>2, LastTail
    <3>2. ShownTells(d)
      BY <1>5, <3>1 DEF PairingInv
    <3>3. /\ shown'[d].paired = shown[d].paired
          /\ shown'[d].known = shown[d].known
      BY <1>2, <2>2 DEF Concerns, Updated, PairTypes, ListTypeOK, Entry
    <3>. QED BY <1>1, <1>5, <2>0, <3>2, <3>3 DEF PairingInv, ShownTells
  <2>. QED BY <2>1, <2>2
<1>. QED BY <1>3, <1>4, <1>5

\* The list's pairing invariant; it needs a disk that does not refuse a write.
LEMMA PairingStep ==
    ASSUME TypeOK, ListTypeOK, [ListNext]_allVars, ~DiskMayFail,
           NEW d \in Device, PairingInv(d), ReachInv(d)
    PROVE  PairingInv(d)'
<1>1. CASE RunStep /\ UNCHANGED listVars
  <2>1. ~(\E b \in Device : AnnouncesUnwritten(b))
    BY DEF AnnouncesUnwritten
  <2>. QED
    BY <1>1, <2>1, RunAnnounces, SilentKeepsPairing, WritesKeepsPairing,
       ConnectsKeepsPairing, DisconnectsKeepsPairing, AnnouncesKeepsPairing
       DEF AnnounceKind
<1>2. CASE HandleEvent
  BY <1>2, HandledKeepsPairing
<1>3. CASE ListRestart
  <2>1. eventQ' = <<>> /\ connQ' = <<>> /\ disk' = disk /\ connId'[d] = NoConn
    BY <1>3 DEF ListRestart, Restart
  <2>2. shown'[d].paired <=> disk[d].state = "Paired"
    BY <1>3 DEF ListRestart, Restored
  <2>3. ShownTells(d)'
    BY <2>1, <2>2 DEF ShownTells, Trusted
  <2>. QED BY <2>1, <2>3 DEF PairingInv, IsLast, OfKind
<1>4. CASE UNCHANGED allVars
  BY <1>4, SameEndStill, PairingStill DEF allVars, vars, listVars
<1>. QED BY <1>1, <1>2, <1>3, <1>4 DEF ListNext

-----------------------------------------------------------------------------
\* Announcing, whatever it is, other than that a device comes or goes.
LEMMA OtherKeepsReach ==
    ASSUME TypeOK, NEW e \in ConnectionEvent, connQ' = Append(connQ, e),
           NEW d \in Device, ~Concerns(e, ReachTypes, d), ReachInv(d),
           UNCHANGED listVars, connId'[d] \in {connId[d], NoConn}
    PROVE  ReachInv(d)'
<1>1. SameEnd(connQ, connQ', ReachTypes, d)
  BY SameEndAppend DEF TypeOK
<1>. QED BY <1>1, ReachStill DEF listVars

\* Announcing that a device has come.
LEMMA ArrivalKeepsReach ==
    ASSUME TypeOK, NEW e \in ConnectionEvent, connQ' = Append(connQ, e),
           NEW d \in Device, Concerns(e, {"Connected", "DevicePaired"}, d)
    PROVE  ReachInv(d)'
<1>1. Concerns(e, ReachTypes, d)
  BY DEF Concerns, ReachTypes
<1>2. /\ OfKind(connQ', ReachTypes, d) # {}
      /\ \A i \in DOMAIN connQ' : IsLast(connQ', ReachTypes, d, i) => connQ'[i] = e
  BY <1>1, LastAppend DEF TypeOK
<1>. QED BY <1>2 DEF ReachInv, Concerns

LEMMA RunKeepsReach ==
    ASSUME TypeOK, AnnounceKind, UNCHANGED listVars, NEW d \in Device, ReachInv(d)
    PROVE  ReachInv(d)'
<1>0. connQ \in Seq(ConnectionEvent) /\ connId \in [Device -> ConnOrNone]
  BY DEF TypeOK
<1>1. CASE Silent
  <2>1. SameEnd(connQ, connQ', ReachTypes, d)
    BY <1>0, <1>1, PassesSameEnd DEF Silent
  <2>. QED BY <1>1, <2>1, ReachStill DEF Silent, NoNewEntry, listVars
<1>2. CASE Announces
  <2> DEFINE h == Head(eventQ)
             e == [type  |-> h.type, dev |-> h.dev,
                   state |-> IF h.type = "DevicePaired" THEN "Paired" ELSE h.state]
  <2>1. h \in CoreEvent /\ h.type \in {"DevicePaired", "PairStateChanged"}
    BY <1>2 DEF Announces, TypeOK, PairTypes
  <2>2. h.dev \in Device /\ h.state \in PairState /\ e.type = h.type
    BY <2>1 DEF CoreEvent
  <2>3. e \in ConnectionEvent /\ connQ' = Append(connQ, e)
    BY <1>2, <2>1, <2>2 DEF Announces, ConnectionEvent, PairState
  <2>4. \/ ~Concerns(e, ReachTypes, d)
        \/ Concerns(e, {"Connected", "DevicePaired"}, d)
    BY <2>1 DEF Concerns, ReachTypes
  <2> HIDE DEF e
  <2>. QED
    BY <1>2, <2>3, <2>4, OtherKeepsReach, ArrivalKeepsReach DEF Announces
<1>3. ASSUME NEW b \in Device, Writes(b) \/ AnnouncesUnwritten(b) PROVE ReachInv(d)'
  <2>1. CASE connQ' = connQ
    BY <1>3, <2>1, SameEndStill, ReachStill DEF Writes, AnnouncesUnwritten, listVars
  <2>2. CASE connQ' # connQ
    <3>1. PICK e \in ConnectionEvent : /\ e.type \notin ReachTypes
                                       /\ connQ' = Append(connQ, e)
      BY <1>3, <2>2 DEF Writes, AnnouncesUnwritten
    <3>2. ~Concerns(e, ReachTypes, d) /\ UNCHANGED connId
      BY <1>3, <3>1 DEF Concerns, Writes, AnnouncesUnwritten
    <3>. QED BY <3>1, <3>2, OtherKeepsReach
  <2>. QED BY <2>1, <2>2
<1>4. ASSUME NEW b \in Device, Connects(b) PROVE ReachInv(d)'
  <2> DEFINE e == [type  |-> "Connected", dev |-> b, state |-> LoadFrom(disk[b]).state]
  <2>1. e \in ConnectionEvent /\ connQ' = Append(connQ, e)
    BY <1>4 DEF TypeOK, FileRecord, Connects, ConnectionEvent, LoadFrom, Blank, PairState
  <2>2. e.type = "Connected" /\ e.dev = b
    OBVIOUS
  <2> HIDE DEF e
  <2>3. CASE b = d
    BY <2>1, <2>2, <2>3, ArrivalKeepsReach DEF Concerns
  <2>4. CASE b # d
    BY <1>4, <2>1, <2>2, <2>4, OtherKeepsReach DEF Concerns, Connects
  <2>. QED BY <2>3, <2>4
<1>5. ASSUME NEW b \in Device, Disconnects(b) PROVE ReachInv(d)'
  <2> DEFINE e == [type |-> "Disconnected", dev |-> b, state |-> "NotPaired"]
  <2>1. e \in ConnectionEvent /\ connQ' = Append(connQ, e)
    BY <1>5 DEF Disconnects, ConnectionEvent, PairState
  <2>2. e.dev = b
    OBVIOUS
  <2> HIDE DEF e
  <2>3. CASE b = d
    BY <1>5, <2>3 DEF Disconnects, ReachInv
  <2>4. CASE b # d
    BY <1>5, <2>1, <2>2, <2>4, OtherKeepsReach DEF Concerns, Disconnects
  <2>. QED BY <2>3, <2>4
<1>. QED BY <1>1, <1>2, <1>3, <1>4, <1>5 DEF AnnounceKind

LEMMA ReachStep ==
    ASSUME TypeOK, ListTypeOK, [ListNext]_allVars, NEW d \in Device, ReachInv(d)
    PROVE  ReachInv(d)'
<1>1. CASE RunStep /\ UNCHANGED listVars
  BY <1>1, RunAnnounces, RunKeepsReach
<1>2. CASE HandleEvent
  <2> DEFINE h == Head(connQ)
  <2>1. /\ connQ \in Seq(ConnectionEvent) /\ connQ # <<>> /\ connQ' = Tail(connQ)
        /\ h.dev \in Device
        /\ UNCHANGED connId
    BY <1>2, TakenTyped DEF HandleEvent, ListenerTakes, TypeOK, maps
  <2>2. \A b \in Device : shown'[b] = IF b = h.dev THEN Updated(shown[b], h) ELSE shown[b]
    BY <1>2, <2>1 DEF HandleEvent, ListTypeOK
  <2>3. ASSUME connId[d] # NoConn, OfKind(connQ', ReachTypes, d) = {}
        PROVE  shown'[d].known /\ shown'[d].reachable
    <3>1. CASE Concerns(h, ReachTypes, d)
      <4>1. IsLast(connQ, ReachTypes, d, 1)
        BY <2>1, <2>3, <3>1, LastTail
      <4>2. connQ[1] = h /\ 1 \in DOMAIN connQ
        BY <2>1, <4>1 DEF IsLast, OfKind
      <4>3. h.type \in {"Connected", "DevicePaired"} /\ h.dev = d
        BY <2>3, <3>1, <4>1, <4>2 DEF ReachInv, Concerns, ReachTypes
      <4>. QED BY <2>2, <4>3, UpdatedTyped DEF ListTypeOK
    <3>2. CASE ~Concerns(h, ReachTypes, d)
      <4>1. OfKind(connQ, ReachTypes, d) = {}
        BY <2>1, <2>3, <3>2, LastTail
      <4>2. shown[d].known /\ shown[d].reachable /\ shown[d] \in Entry
        BY <2>3, <4>1 DEF ReachInv, ListTypeOK
      <4>3. h.dev = d => h.type # "Disconnected"
        BY <3>2 DEF Concerns, ReachTypes
      <4>. QED BY <2>2, <4>2, <4>3, UpdatedTyped
    <3>. QED BY <3>1, <3>2
  <2>4. \A i \in DOMAIN Tail(connQ) : IsLast(Tail(connQ), ReachTypes, d, i) =>
           \E j \in DOMAIN connQ :
              IsLast(connQ, ReachTypes, d, j) /\ connQ[j] = Tail(connQ)[i]
    <3>1. connQ \in Seq(ConnectionEvent) /\ connQ # <<>>
      BY <2>1
    <3> DEFINE q == connQ
    <3>2. /\ q \in Seq(ConnectionEvent) /\ q # <<>>
          /\ \A i \in DOMAIN Tail(q) : IsLast(Tail(q), ReachTypes, d, i) =>
                \E j \in DOMAIN q : IsLast(q, ReachTypes, d, j) /\ q[j] = Tail(q)[i]
      <4> HIDE DEF q
      <4>1. q \in Seq(ConnectionEvent) /\ q # <<>>
        BY <3>1 DEF q
      <4>. QED BY <4>1, LastTail
    <3>. QED BY <3>2
  <2>. QED BY <2>1, <2>3, <2>4 DEF ReachInv
<1>3. CASE ListRestart
  BY <1>3 DEF ListRestart, Restart, ReachInv
<1>4. CASE UNCHANGED allVars
  BY <1>4, SameEndStill, ReachStill DEF allVars, vars, listVars
<1>. QED BY <1>1, <1>2, <1>3, <1>4 DEF ListNext

-----------------------------------------------------------------------------
(***************************************************************************)
(* The theorems.                                                           *)
(***************************************************************************)

ArrivalInv == TypeOK /\ CurrentInv /\ \A d \in Device : ReachInv(d)

LEMMA ArrivalInit == ListInit => ArrivalInv
BY TypeInit, CurrentInit DEF ListInit, Init, ArrivalInv, ReachInv

LEMMA ArrivalStep == ArrivalInv /\ [ListNext]_allVars => ArrivalInv'
BY ListTypeStep, CurrentStep, ReachStep DEF ArrivalInv, CurrentInv

\* Whatever the disk does, a connected device is not shown as unreachable once
\* its announcements are handled: the end of an old connection may be announced
\* before or after the start of the new one (Disconnected, NewConnection).
THEOREM ConnectedShown == ListSpec => []ConnectedIsShownReachable
<1>1. ArrivalInv => ConnectedIsShownReachable
  BY DEF ArrivalInv, ConnectedIsShownReachable, ReachInv, Quiescent, OfKind
<1>. QED BY <1>1, ArrivalInit, ArrivalStep, PTL DEF ListSpec

AgreeInv == ArrivalInv /\ \A d \in Device : PairingInv(d)

LEMMA AgreeInit == ListInit => AgreeInv
<1> SUFFICES ASSUME ListInit, NEW d \in Device PROVE PairingInv(d)
  BY ArrivalInit DEF AgreeInv
<1>1. eventQ = <<>> /\ connQ = <<>> /\ connId[d] = NoConn
  BY DEF ListInit, Init
<1>2. shown[d].paired <=> disk[d].state = "Paired"
  BY DEF ListInit, Restored
<1>3. ShownTells(d)
  BY <1>1, <1>2 DEF ShownTells, Trusted
<1>. QED BY <1>1, <1>3 DEF PairingInv, IsLast, OfKind

LEMMA AgreeListStep ==
    ASSUME ~DiskMayFail
    PROVE  AgreeInv /\ [ListNext]_allVars => AgreeInv'
BY ArrivalStep, PairingStep DEF AgreeInv, ArrivalInv, CurrentInv

\* As long as the files can be written, the list ends up showing what the core
\* holds, although connections and clicks overtake the announcements in the
\* core's queue (DevicePaired, PairStateChanged, NewConnection in lib.rs).
THEOREM ListAgrees ==
    ASSUME ~DiskMayFail
    PROVE  ListSpec => []ListAgreesWithCore
<1>1. AgreeInv => ListAgreesWithCore
  <2>1. AgreeInv /\ Quiescent => PairingShownIsReal
    <3> SUFFICES ASSUME AgreeInv, Quiescent, NEW d \in Device
                 PROVE  /\ connId[d] # NoConn => (shown[d].paired <=> Trusted(disk[d]))
                        /\ shown[d].paired => disk[d].state = "Paired"
                        /\ shown[d].known /\ Trusted(disk[d]) => shown[d].paired
      BY DEF PairingShownIsReal
    <3>1. OfKind(eventQ, PairTypes, d) = {} /\ OfKind(connQ, PairTypes, d) = {}
                                            /\ OfKind(connQ, ReachTypes, d) = {}
      BY DEF Quiescent, OfKind
    <3>2. ShownTells(d)
      BY <3>1 DEF AgreeInv, PairingInv
    <3>3. connId[d] # NoConn => shown[d].known
      BY <3>1 DEF AgreeInv, ArrivalInv, ReachInv
    <3>. QED BY <3>2, <3>3 DEF ShownTells
  <2>2. AgreeInv => ListTypeOK /\ ConnectedIsShownReachable
    BY DEF AgreeInv, ArrivalInv, CurrentInv, ConnectedIsShownReachable, ReachInv,
           Quiescent, OfKind
  <2>. QED BY <2>1, <2>2 DEF ListAgreesWithCore, PairingShownIsReal
<1>. QED BY <1>1, AgreeInit, AgreeListStep, PTL DEF ListSpec

\* The core below the list is the core of CoreLoop: with the service for its
\* listener, whatever is proved of it still holds (handle_event only takes).
THEOREM ListUsesCore == ListSpec => Spec
<1>1. ListInit => Init
  BY DEF ListInit
<1>. QED BY <1>1, ListIsRun, PTL DEF ListSpec, Spec
=============================================================================
