----------------------------- MODULE MediaProofs -----------------------------
(***************************************************************************)
(* Theorems about SystemVolume and PhonePlayers, for any sinks, volumes    *)
(* and threads, and for any players, art and number of events on their     *)
(* way.                                                                    *)
(***************************************************************************)
EXTENDS SystemVolume, PhonePlayers, FiniteSetTheorems, WellFoundedInduction, TLAPS

-----------------------------------------------------------------------------
(***************************************************************************)
(* SystemVolume: data.                                                     *)
(***************************************************************************)

\* Of a set of naturals some element is below all others.
LEMMA LeastIs ==
    ASSUME NEW S, S \subseteq Nat, S # {}
    PROVE  \E x \in S : \A y \in S : x =< y
<1>1. PICK x \in S : \A y \in S : ~(<<y, x>> \in OpToRel(<, Nat))
  BY NatLessThanWellFounded, WFMin
<1>2. ASSUME NEW y \in S PROVE x =< y
  <2>1. x \in Nat /\ y \in Nat
    OBVIOUS
  <2>2. <<y, x>> \in Nat \X Nat /\ <<y, x>>[1] = y /\ <<y, x>>[2] = x
    BY <2>1
  <2>3. y < x => <<y, x>> \in OpToRel(<, Nat)
    BY <2>2, Zenon DEF OpToRel
  <2>4. ~(y < x)
    BY <1>1, <2>3, Zenon
  <2>. QED BY <2>1, <2>4
<1>. QED BY <1>2

LEMMA MinIs ==
    ASSUME NEW S, S \subseteq Nat, S # {}
    PROVE  Min(S) \in S
BY LeastIs DEF Min

LEMMA MaxIs ==
    ASSUME NEW n \in Nat, NEW S, S \subseteq 0 .. n, S # {}
    PROVE  Max(S) \in S
<1> DEFINE T == {n - y : y \in S}
<1>1. \A y \in S : y \in Nat /\ n - y \in Nat
  OBVIOUS
<1>2. T \subseteq Nat /\ T # {}
  BY <1>1
<1>3. PICK x \in T : \A z \in T : x =< z
  BY <1>2, LeastIs
<1>4. PICK m \in S : x = n - m
  OBVIOUS
<1>5. ASSUME NEW y \in S PROVE m >= y
  <2>1. n - m =< n - y
    BY <1>3, <1>4
  <2>. QED BY <1>1, <2>1
<1>. QED BY <1>5 DEF Max

\* A handler takes at least the first message and at most all.
LEMMA TakenIs ==
    ASSUME NEW q \in Seq(Message), q # <<>>
    PROVE  Taken(q) \in 1 .. Len(q)
<1> DEFINE others == {i \in 2 .. Len(q) : q[i].kind # q[1].kind}
<1>1. Len(q) \in Nat /\ Len(q) # 0
  OBVIOUS
<1>2. others # {} => Min(others) \in others
  <2>1. others \subseteq Nat
    BY <1>1
  <2>. HIDE DEF others
  <2>. QED BY <2>1, MinIs
<1>. QED BY <1>1, <1>2 DEF Taken

\* The volume that is set is one that the phone has sent.
LEMMA NewestIs ==
    ASSUME NEW q \in Seq(Message), q # <<>>, Head(q).kind = "volume"
    PROVE  Head(q).sink \in Sink /\ NewestVolume(q) \in Level
<1> DEFINE same == {i \in 1 .. Taken(q) : q[i].kind = "volume" /\ q[i].sink = q[1].sink}
<1>1. Len(q) \in Nat /\ Head(q) = q[1] /\ 1 \in DOMAIN q
  OBVIOUS
<1>2. Taken(q) \in 1 .. Len(q)
  BY TakenIs
<1>3. 1 \in same /\ same \subseteq 0 .. Len(q) /\ same \subseteq DOMAIN q
  BY <1>1, <1>2
<1>4. Max(same) \in same
  BY <1>1, <1>3, MaxIs
<1>5. \A i \in DOMAIN q : q[i] \in Message
  OBVIOUS
<1>6. \A m \in Message : m.kind = "volume" => m.sink \in Sink /\ m.level \in Level
  BY DEF Message
<1>. QED BY <1>1, <1>3, <1>4, <1>5, <1>6 DEF NewestVolume

-----------------------------------------------------------------------------
(***************************************************************************)
(* SystemVolume: the invariant, one step.                                  *)
(***************************************************************************)

LEMMA PostKeepsQueues ==
    ASSUME SinkTypeOK, NEW m \in Message, Post(m)
    PROVE  queue' \in [Thread -> Seq(Message)]
<1>1. CASE entry = NoThread
  BY <1>1 DEF Post, SinkTypeOK
<1>2. CASE entry \in Thread /\ entry # NoThread
  <2>1. queue[entry] \in Seq(Message)
    BY <1>2 DEF SinkTypeOK
  <2>2. Append(queue[entry], m) \in Seq(Message)
    BY <2>1
  <2>3. queue' = [queue EXCEPT ![entry] = Append(queue[entry], m)]
    BY <1>2 DEF Post
  <2>. QED BY <2>2, <2>3 DEF SinkTypeOK
<1>. QED BY <1>1, <1>2 DEF SinkTypeOK

LEMMA DropKeepsQueues ==
    ASSUME SinkTypeOK, NEW t \in Thread, NEW n \in Nat, Drop(t, n)
    PROVE  queue' \in [Thread -> Seq(Message)]
<1>1. queue[t] \in Seq(Message) /\ Len(queue[t]) \in Nat
  BY DEF SinkTypeOK
<1>2. SubSeq(queue[t], n + 1, Len(queue[t])) \in Seq(Message)
  BY <1>1
<1>. QED BY <1>2 DEF Drop, SinkTypeOK

LEMMA VolumeStep ==
    ASSUME VolumeInv, Next
    PROVE  VolumeInv'
<1>0. SinkTypeOK /\ RegisteredThreadRuns
  BY DEF VolumeInv
<1>1. CASE SetEnabled
  BY <1>0, <1>1 DEF SetEnabled, VolumeInv, SinkTypeOK, RegisteredThreadRuns
<1>2. ASSUME NEW t \in Thread, OnDeviceConnect(t) PROVE VolumeInv'
  BY <1>0, <1>2, NoThreadAssumption
     DEF OnDeviceConnect, VolumeInv, SinkTypeOK, RegisteredThreadRuns, Phase
<1>3. ASSUME NEW t \in Thread, PaReady(t) PROVE VolumeInv'
  BY <1>0, <1>3 DEF PaReady, TellPhone, VolumeInv, SinkTypeOK, RegisteredThreadRuns, Phase
<1>4. ASSUME NEW t \in Thread, PaLost(t) PROVE VolumeInv'
  BY <1>0, <1>4 DEF PaLost, VolumeInv, SinkTypeOK, RegisteredThreadRuns, Phase
<1>5. ASSUME NEW t \in Thread, Callback(t) PROVE VolumeInv'
  <2>1. queue' \in [Thread -> Seq(Message)]
    <3>1. [kind |-> "sinks"] \in Message
      BY DEF Message
    <3>. QED BY <1>0, <1>5, <3>1, PostKeepsQueues DEF Callback
  <2>. QED BY <1>0, <1>5, <2>1 DEF Callback, VolumeInv, SinkTypeOK, RegisteredThreadRuns
<1>6. ASSUME NEW t \in Thread, GetSinks(t) PROVE VolumeInv'
  <2>1. queue[t] \in Seq(Message) /\ queue[t] # <<>>
    BY <1>0, <1>6 DEF GetSinks, Reads, SinkTypeOK
  <2>2. Taken(queue[t]) \in Nat
    BY <2>1, TakenIs
  <2>3. queue' \in [Thread -> Seq(Message)]
    BY <1>0, <1>6, <2>2, DropKeepsQueues DEF GetSinks
  <2>. QED BY <1>0, <1>6, <2>3 DEF GetSinks, TellPhone, VolumeInv, SinkTypeOK, RegisteredThreadRuns
<1>7. ASSUME NEW t \in Thread, SetSinkVolume(t) PROVE VolumeInv'
  <2>1. queue[t] \in Seq(Message) /\ queue[t] # <<>> /\ Head(queue[t]).kind = "volume"
    BY <1>0, <1>7 DEF SetSinkVolume, Reads, SinkTypeOK
  <2>2. Taken(queue[t]) \in Nat
    BY <2>1, TakenIs
  <2>3. queue' \in [Thread -> Seq(Message)]
    BY <1>0, <1>7, <2>2, DropKeepsQueues DEF SetSinkVolume
  <2>4. mixer' \in [Sink -> SinkState] /\ notify' \in SUBSET Thread
    <3>1. Head(queue[t]).sink \in Sink /\ NewestVolume(queue[t]) \in Level
      BY <2>1, NewestIs
    <3>2. mixer' = [mixer EXCEPT ![Head(queue[t]).sink].level = NewestVolume(queue[t])]
      BY <1>7 DEF SetSinkVolume, Change
    <3>3. mixer' \in [Sink -> SinkState]
      BY <1>0, <3>1, <3>2 DEF SinkTypeOK, SinkState
    <3>. QED BY <1>0, <1>7, <3>3 DEF SetSinkVolume, Change, Subscribed, SinkTypeOK
  <2>. QED BY <1>0, <1>7, <2>3, <2>4 DEF SetSinkVolume, VolumeInv, SinkTypeOK, RegisteredThreadRuns
<1>8. ASSUME NEW t \in Thread, SetSinkMute(t) PROVE VolumeInv'
  <2>1. queue[t] \in Seq(Message) /\ queue[t] # <<>> /\ Head(queue[t]).kind = "mute"
    BY <1>0, <1>8 DEF SetSinkMute, Reads, SinkTypeOK
  <2>2. Head(queue[t]) \in Message
    BY <2>1
  <2>3. queue' \in [Thread -> Seq(Message)]
    BY <1>0, <1>8, DropKeepsQueues DEF SetSinkMute
  <2>4. mixer' \in [Sink -> SinkState] /\ notify' \in SUBSET Thread
    <3>1. Head(queue[t]).sink \in Sink /\ Head(queue[t]).muted \in BOOLEAN
      BY <2>1, <2>2 DEF Message
    <3>2. mixer' = [mixer EXCEPT ![Head(queue[t]).sink].muted = Head(queue[t]).muted]
      BY <1>8 DEF SetSinkMute, Change
    <3>3. mixer' \in [Sink -> SinkState]
      BY <1>0, <3>1, <3>2 DEF SinkTypeOK, SinkState
    <3>. QED BY <1>0, <1>8, <3>3 DEF SetSinkMute, Change, Subscribed, SinkTypeOK
  <2>. QED BY <1>0, <1>8, <2>3, <2>4 DEF SetSinkMute, VolumeInv, SinkTypeOK, RegisteredThreadRuns
\* A thread ends only when it is not the registered one.
<1>9. ASSUME NEW t \in Thread, Exits(t) PROVE VolumeInv'
  BY <1>0, <1>9 DEF Exits, VolumeInv, SinkTypeOK, RegisteredThreadRuns, Phase
<1>10. ASSUME NEW t \in Thread, RemovesEntry(t) PROVE VolumeInv'
  BY <1>0, <1>10 DEF RemovesEntry, VolumeInv, SinkTypeOK, RegisteredThreadRuns, Phase
<1>11. ASSUME NEW m \in Message, HandleRequest(m) PROVE VolumeInv'
  <2>1. queue' \in [Thread -> Seq(Message)]
    BY <1>0, <1>11, PostKeepsQueues DEF HandleRequest
  <2>. QED BY <1>0, <1>11, <2>1 DEF HandleRequest, VolumeInv, SinkTypeOK, RegisteredThreadRuns
<1>12. ASSUME NEW s \in Sink, NEW state \in SinkState, DesktopChanges(s, state) PROVE VolumeInv'
  BY <1>0, <1>12 DEF DesktopChanges, Change, Subscribed, VolumeInv, SinkTypeOK, RegisteredThreadRuns
<1>. QED BY <1>1, <1>2, <1>3, <1>4, <1>5, <1>6, <1>7, <1>8, <1>9, <1>10, <1>11, <1>12
         DEF Next, ThreadStep

-----------------------------------------------------------------------------
(***************************************************************************)
(* SystemVolume: the theorem.                                              *)
(***************************************************************************)

\* The registered sender always has a thread that reads from it: a request of the
\* phone is posted to a thread that will take it, never to one that has returned.
THEOREM RegisteredRuns == Spec => []VolumeInv
<1>1. Init => VolumeInv
  BY DEF Init, VolumeInv, SinkTypeOK, RegisteredThreadRuns, Phase
<1>2. VolumeInv /\ [Next]_vars => VolumeInv'
  <2>. SUFFICES ASSUME VolumeInv, [Next]_vars PROVE VolumeInv'
    OBVIOUS
  <2>1. CASE UNCHANGED vars
    BY <2>1 DEF vars, VolumeInv, SinkTypeOK, RegisteredThreadRuns
  <2>. QED BY <2>1, VolumeStep
<1>. QED BY <1>1, <1>2, PTL DEF Spec

-----------------------------------------------------------------------------
(***************************************************************************)
(* PhonePlayers: sequences, what one has in it and how it ends.            *)
(***************************************************************************)

Has(q, x) == \E i \in DOMAIN q : q[i] = x

LEMMA HasAppended ==
    ASSUME NEW S, NEW q \in Seq(S), NEW e \in S, NEW x
    PROVE  Has(Append(q, e), x) <=> Has(q, x) \/ x = e
<1>1. /\ DOMAIN Append(q, e) = DOMAIN q \cup {Len(q) + 1}
      /\ Append(q, e)[Len(q) + 1] = e
      /\ \A i \in DOMAIN q : Append(q, e)[i] = q[i]
  OBVIOUS
<1>. QED BY <1>1 DEF Has

LEMMA TailIs ==
    ASSUME NEW S, NEW q \in Seq(S), q # <<>>
    PROVE  /\ DOMAIN q = 1 .. Len(q) /\ Len(q) \in Nat /\ 1 \in DOMAIN q
           /\ q[1] = Head(q) /\ Head(q) \in S /\ Tail(q) \in Seq(S)
           /\ \A i \in DOMAIN Tail(q) : i + 1 \in DOMAIN q /\ i + 1 > 1 /\ Tail(q)[i] = q[i + 1]
           /\ \A i \in DOMAIN q : i # 1 => i - 1 \in DOMAIN Tail(q) /\ Tail(q)[i - 1] = q[i]
<1>1. Len(Tail(q)) = Len(q) - 1 /\ Len(q) \in Nat \ {0} /\ Tail(q) \in Seq(S)
  OBVIOUS
<1>2. DOMAIN q = 1 .. Len(q) /\ DOMAIN Tail(q) = 1 .. Len(q) - 1
  BY <1>1
<1>3. \A i \in 1 .. Len(q) - 1 : Tail(q)[i] = q[i + 1]
  BY <1>1
<1>4. q[1] = Head(q) /\ Head(q) \in S
  OBVIOUS
<1>5. \A i \in DOMAIN Tail(q) : i + 1 \in DOMAIN q /\ i + 1 > 1 /\ Tail(q)[i] = q[i + 1]
  BY <1>1, <1>2, <1>3
<1>6. \A i \in DOMAIN q : i # 1 => i - 1 \in DOMAIN Tail(q) /\ Tail(q)[i - 1] = q[i]
  <2> SUFFICES ASSUME NEW i \in DOMAIN q, i # 1
               PROVE  i - 1 \in DOMAIN Tail(q) /\ Tail(q)[i - 1] = q[i]
    OBVIOUS
  <2>1. i \in Nat /\ i - 1 \in 1 .. Len(q) - 1 /\ (i - 1) + 1 = i
    BY <1>1, <1>2
  <2>. QED BY <1>2, <1>3, <2>1
<1>. QED BY <1>1, <1>2, <1>4, <1>5, <1>6

LEMMA HasTaken ==
    ASSUME NEW S, NEW q \in Seq(S), q # <<>>, NEW x
    PROVE  Has(q, x) <=> x = Head(q) \/ Has(Tail(q), x)
<1>1. ASSUME NEW i \in DOMAIN q, q[i] = x PROVE x = Head(q) \/ Has(Tail(q), x)
  BY <1>1, TailIs DEF Has
<1>. QED BY <1>1, TailIs DEF Has

LEMMA HasJoined ==
    ASSUME NEW S, NEW q \in Seq(S), NEW r \in Seq(S), NEW x
    PROVE  Has(q \o r, x) <=> Has(q, x) \/ Has(r, x)
<1>1. /\ DOMAIN (q \o r) = 1 .. Len(q) + Len(r)
      /\ DOMAIN q = 1 .. Len(q) /\ DOMAIN r = 1 .. Len(r)
      /\ Len(q) \in Nat /\ Len(r) \in Nat
  OBVIOUS
<1>2. \A i \in 1 .. Len(q) + Len(r) :
         (q \o r)[i] = IF i <= Len(q) THEN q[i] ELSE r[i - Len(q)]
  OBVIOUS
<1>3. ASSUME NEW i \in DOMAIN q PROVE i \in DOMAIN (q \o r) /\ (q \o r)[i] = q[i]
  BY <1>1, <1>2
<1>4. ASSUME NEW i \in DOMAIN r
      PROVE  i + Len(q) \in DOMAIN (q \o r) /\ (q \o r)[i + Len(q)] = r[i]
  <2>1. i \in Nat /\ i >= 1 /\ i + Len(q) \in 1 .. Len(q) + Len(r) /\ ~(i + Len(q) <= Len(q))
        /\ (i + Len(q)) - Len(q) = i
    BY <1>1
  <2>. QED BY <1>1, <1>2, <2>1
<1>5. ASSUME NEW i \in DOMAIN (q \o r)
      PROVE  \/ i \in DOMAIN q /\ (q \o r)[i] = q[i]
             \/ i - Len(q) \in DOMAIN r /\ (q \o r)[i] = r[i - Len(q)]
  BY <1>1, <1>2
<1>. QED BY <1>3, <1>4, <1>5 DEF Has

\* SetToSeq puts the elements of a finite set in a row.
LEMMA RowIs ==
    ASSUME NEW S, NEW T, S \subseteq T, IsFiniteSet(S)
    PROVE  /\ SetToSeq(S) \in Seq(T)
           /\ \A x : Has(SetToSeq(S), x) <=> x \in S
<1> DEFINE n == Cardinality(S)
           f == SetToSeq(S)
<1>1. n \in Nat /\ ExistsBijection(1 .. n, S)
  BY FS_CardinalityType
<1>2. \E g \in [1 .. n -> S] : IsInjective(g)
  BY <1>1 DEF ExistsBijection, Bijection, Injection
<1>3. f \in [1 .. n -> S] /\ IsInjective(f)
  BY <1>2 DEF SetToSeq
<1>4. f \in Injection(1 .. n, S)
  BY <1>3 DEF Injection
<1>5. IsFiniteSet(1 .. n) /\ Cardinality(1 .. n) = n
  BY <1>1, FS_Interval
<1>6. f \in Surjection(1 .. n, S)
  BY <1>4, <1>5, FS_Injection
<1>7. \A x \in S : \E i \in 1 .. n : f[i] = x
  BY <1>6 DEF Surjection
<1>8. f \in Seq(T) /\ DOMAIN f = 1 .. n
  BY <1>1, <1>3
<1>. QED BY <1>3, <1>7, <1>8 DEF Has

-----------------------------------------------------------------------------
(***************************************************************************)
(* PhonePlayers: types.                                                    *)
(***************************************************************************)

LEMMA RequestsTyped ==
    /\ AskForList \in Request
    /\ \A n \in Name : NowPlaying(n) \in Request
    /\ \A n \in Name, a \in Art : [kind |-> "art", name |-> n, art |-> a] \in Request
    /\ \A n \in Name, k \in {"Play", "Pause", "PlayPause"} :
          [kind |-> k, name |-> n, art |-> None] \in Request
BY DEF Request, AskForList, NowPlaying

LEMMA RequestIs ==
    ASSUME NEW r \in Request
    PROVE  /\ r.kind \in {"list", "now", "art", "Play", "Pause", "PlayPause"}
           /\ r.kind = "list" => r = AskForList
           /\ r.kind # "list" => r.name \in Name
           /\ r.kind = "now" => r = NowPlaying(r.name)
           /\ r.kind = "art" => /\ r.art \in Art
                                /\ r = [kind |-> "art", name |-> r.name, art |-> r.art]
BY DEF Request, AskForList, NowPlaying

LEMMA EventsTyped ==
    ASSUME PhonePlayersTypeOK
    PROVE  /\ [kind |-> "gone"] \in Event
           /\ \A n \in Name, a \in Art : [kind |-> "ready", name |-> n, art |-> a] \in Event
           /\ List(phone) \in Event
           /\ \A n \in Name : Info(phone, n) \in Event
BY DEF Event, PhonePlayersTypeOK, Phone, List, Info

LEMMA EventIs ==
    ASSUME NEW e \in Event
    PROVE  /\ e.kind \in {"list", "info", "ready", "gone"}
           /\ e.kind = "list" => e.names \subseteq Name
           /\ e.kind = "info" => /\ e.name \in Name /\ e.playing \in BOOLEAN
                                 /\ e.art \in Art \cup {None}
           /\ e.kind = "ready" => /\ e.name \in Name /\ e.art \in Art
                                  /\ e = [kind |-> "ready", name |-> e.name, art |-> e.art]
BY DEF Event

\* What is appended to a queue, taken from it or asked in a row has its type.
LEMMA SaysTyped ==
    ASSUME PhonePlayersTypeOK, NEW e \in Event, Says(e)
    PROVE  events' \in Seq(Event)
BY DEF Says, PhonePlayersTypeOK

LEMMA SendsTyped ==
    ASSUME PhonePlayersTypeOK, NEW r \in Seq(Request), Sends(r)
    PROVE  toPhone' \in Seq(Request)
<1>1. toPhone \o r \in Seq(Request)
  BY DEF PhonePlayersTypeOK
<1>. QED BY <1>1 DEF Sends, PhonePlayersTypeOK

LEMMA RowTyped ==
    ASSUME NEW N, N \subseteq Name
    PROVE  LET row == SetToSeq({NowPlaying(n) : n \in N})
           IN  /\ row \in Seq(Request)
               /\ \A x : Has(row, x) <=> \E n \in N : x = NowPlaying(n)
<1> DEFINE S == {NowPlaying(n) : n \in N}
<1>1. IsFiniteSet(N)
  BY PlayersAssumption, FS_Subset
<1>2. IsFiniteSet(S)
  <2> DEFINE f == [n \in N |-> NowPlaying(n)]
  <2>1. f \in Surjection(N, S)
    BY DEF Surjection
  <2>. QED BY <1>1, <2>1, FS_Surjection
<1>3. S \subseteq Request
  BY RequestsTyped
<1>4. SetToSeq(S) \in Seq(Request) /\ \A x : Has(SetToSeq(S), x) <=> x \in S
  BY <1>2, <1>3, RowIs
<1>. QED BY <1>4

LEMMA PhoneTyped ==
    ASSUME PhonePlayersTypeOK, NEW n \in Name, NEW a \in Art \cup {None}
    PROVE  /\ [phone EXCEPT !.running = @ \cup {n}] \in Phone
           /\ [phone EXCEPT !.running = @ \ {n}, !.playing = @ \ {n}] \in Phone
           /\ Toggled(n) \in Phone
           /\ [phone EXCEPT !.track[n] = a] \in Phone
           /\ [phone EXCEPT !.playing = @ \cup {n}] \in Phone
           /\ [phone EXCEPT !.playing = @ \ {n}] \in Phone
BY DEF PhonePlayersTypeOK, Phone, Toggled

\* A phone that is one, and what it says of itself.
LEMMA SaysOf ==
    ASSUME NEW p \in Phone
    PROVE  List(p) \in Event /\ \A n \in Name : Info(p, n) \in Event
BY DEF Phone, Event, List, Info

LEMMA PlayersTypeInit == PhonePlayersInit => PhonePlayersTypeOK
BY RequestsTyped DEF PhonePlayersInit, PhonePlayersTypeOK, Phone, Shows

LEMMA TypePhone ==
    ASSUME PhonePlayersTypeOK, PhoneChanges \/ PhoneAnswers
    PROVE  PhonePlayersTypeOK'
<1>0. /\ phone \in Phone /\ toPhone \in Seq(Request) /\ events \in Seq(Event)
      /\ List(phone) \in Event /\ \A n \in Name : Info(phone, n) \in Event
  BY SaysOf DEF PhonePlayersTypeOK
<1>1. ASSUME NEW p \in Phone, NEW e \in Event, Becomes(p, e) PROVE PhonePlayersTypeOK'
  <2>1. events' \in Seq(Event)
    BY <1>1, SaysTyped DEF Becomes
  <2>. QED BY <1>1, <2>1 DEF Becomes, PhonePlayersTypeOK
<1>2. CASE PhoneChanges
  <2> SUFFICES ASSUME NEW n \in Name, Opens(n) \/ Closes(n) \/ StartsOrStops(n) \/ NextTrack(n)
               PROVE  PhonePlayersTypeOK'
    BY <1>2 DEF PhoneChanges
  <2>1. CASE Opens(n)
    <3> DEFINE p == [phone EXCEPT !.running = @ \cup {n}]
    <3>1. p \in Phone /\ List(p) \in Event
      BY PhoneTyped, SaysOf, PlayersAssumption
    <3>. QED BY <1>1, <2>1, <3>1 DEF Opens
  <2>2. CASE Closes(n)
    <3> DEFINE p == [phone EXCEPT !.running = @ \ {n}, !.playing = @ \ {n}]
    <3>1. p \in Phone /\ List(p) \in Event
      BY PhoneTyped, SaysOf
    <3>. QED BY <1>1, <2>2, <3>1 DEF Closes
  <2>3. CASE StartsOrStops(n)
    <3>1. Toggled(n) \in Phone /\ Info(Toggled(n), n) \in Event
      BY PhoneTyped, SaysOf
    <3>. QED BY <1>1, <2>3, <3>1 DEF StartsOrStops
  <2>4. CASE NextTrack(n)
    <3> DEFINE p(a) == [phone EXCEPT !.track[n] = a]
    <3>1. \A a \in Art \cup {None} : p(a) \in Phone /\ Info(p(a), n) \in Event
      BY PhoneTyped, SaysOf
    <3>2. PICK a \in Art \cup {None} : Becomes(p(a), Info(p(a), n))
      BY <2>4 DEF NextTrack
    <3>. QED BY <1>1, <3>1, <3>2
  <2>. QED BY <2>1, <2>2, <2>3, <2>4
<1>3. ASSUME toPhone # <<>>
      PROVE  /\ Tail(toPhone) \in Seq(Request) /\ Head(toPhone) \in Request
             /\ Head(toPhone).kind # "list" => Head(toPhone).name \in Name
             /\ Head(toPhone).kind = "art" => Head(toPhone).art \in Art
  BY <1>0, <1>3, TailIs, RequestIs
<1>4. CASE AnswersList
  BY <1>0, <1>3, <1>4, SaysTyped DEF AnswersList, NextAsks, PhonePlayersTypeOK
<1>5. CASE AnswersNow
  <2>1. events' \in Seq(Event)
    BY <1>0, <1>3, <1>5, SaysTyped DEF AnswersNow, NextAsks
  <2>. QED BY <1>3, <1>5, <2>1 DEF AnswersNow, NextAsks, PhonePlayersTypeOK
<1>6. CASE AnswersArt
  <2>1. Head(toPhone).name \in Name /\ Head(toPhone).art \in Art
    BY <1>3, <1>6 DEF AnswersArt, NextAsks
  <2>2. fetching' \subseteq Name \X Art /\ spoilt' \subseteq Name
    BY <1>6, <2>1 DEF AnswersArt, PhonePlayersTypeOK
  <2>. QED BY <1>3, <1>6, <2>2 DEF AnswersArt, NextAsks, PhonePlayersTypeOK
<1>7. CASE AnswersControl
  <2> DEFINE n == Head(toPhone).name
             starts == \/ Head(toPhone).kind = "Play"
                       \/ Head(toPhone).kind = "PlayPause" /\ n \notin phone.playing
             p == [phone EXCEPT !.playing = IF starts THEN @ \cup {n} ELSE @ \ {n}]
  <2>1. n \in Name
    BY <1>3, <1>7 DEF AnswersControl, NextAsks
  <2>2. p \in Phone /\ Info(p, n) \in Event
    BY <2>1, PhoneTyped, SaysOf
  <2>3. phone' \in Phone /\ events' \in Seq(Event)
    BY <1>0, <1>7, <2>1, <2>2, SaysTyped DEF AnswersControl
  <2>. QED BY <1>3, <1>7, <2>3 DEF AnswersControl, NextAsks, PhonePlayersTypeOK
<1>. QED BY <1>2, <1>4, <1>5, <1>6, <1>7 DEF PhoneAnswers

LEMMA TypeLink ==
    ASSUME PhonePlayersTypeOK, Breaks \/ Disconnects \/ Connects \/ FetchEnds
    PROVE  PhonePlayersTypeOK'
<1>1. CASE Breaks
  BY <1>1 DEF Breaks, PhonePlayersTypeOK
<1>2. CASE Disconnects
  <2>1. events' \in Seq(Event)
    BY <1>2, EventsTyped DEF Disconnects, PhonePlayersTypeOK
  <2>. QED BY <1>2, <2>1 DEF Disconnects, PhonePlayersTypeOK
<1>3. CASE Connects
  BY <1>3, RequestsTyped DEF Connects, PhonePlayersTypeOK
<1>4. CASE FetchEnds
  <2>1. PICK f \in fetching :
           /\ fetching' = fetching \ {f}
           /\ \/ /\ events' = Append(events, [kind |-> "ready", name |-> f[1], art |-> f[2]])
                 /\ spoilt' = spoilt
              \/ events' = events /\ spoilt' = spoilt \cup {f[1]}
    BY <1>4 DEF FetchEnds
  <2>2. f[1] \in Name /\ f[2] \in Art
    BY DEF PhonePlayersTypeOK
  <2>3. spoilt' \subseteq Name /\ events \in Seq(Event)
    BY <2>1, <2>2 DEF PhonePlayersTypeOK
  <2>4. [kind |-> "ready", name |-> f[1], art |-> f[2]] \in Event
    BY <2>2, EventsTyped
  <2>5. events' \in Seq(Event)
    BY <2>1, <2>3, <2>4
  <2>. QED BY <1>4, <2>1, <2>3, <2>5 DEF FetchEnds, PhonePlayersTypeOK
<1>. QED BY <1>1, <1>2, <1>3, <1>4

LEMMA NextTyped ==
    ASSUME PhonePlayersTypeOK, NEW k, NextIs(k)
    PROVE  /\ events # <<>> /\ events' = Tail(events) /\ events' \in Seq(Event)
           /\ Head(events) \in Event /\ Head(events).kind = k
           /\ k = "list" => Head(events).names \subseteq Name
           /\ k = "info" => /\ Head(events).name \in Name /\ Head(events).playing \in BOOLEAN
                            /\ Head(events).art \in Art \cup {None}
           /\ k = "ready" => Head(events).name \in Name /\ Head(events).art \in Art
BY TailIs, EventIs DEF NextIs, PhonePlayersTypeOK

LEMMA TypeTakes ==
    ASSUME PhonePlayersTypeOK, TakesList \/ TakesInfo \/ TakesArt \/ TakesDisconnected
    PROVE  PhonePlayersTypeOK'
<1> DEFINE e == Head(events)
<1>0. /\ \A n \in DOMAIN active : active[n] \in Shows
      /\ requested \in [Name -> Art \cup {None}] /\ DOMAIN active \subseteq Name
  BY DEF PhonePlayersTypeOK
<1>1. CASE TakesList
  <2>1. e.names \subseteq Name /\ events' \in Seq(Event)
    BY <1>1, NextTyped DEF TakesList
  <2>2. toPhone' \in Seq(Request)
    BY <1>1, <2>1, RowTyped, SendsTyped DEF TakesList
  <2>3. /\ active' = [n \in DOMAIN active \cap e.names |-> active[n]]
        /\ requested' \in [Name -> Art \cup {None}] /\ spoilt' \subseteq Name
    BY <1>0, <1>1 DEF TakesList, PhonePlayersTypeOK
  <2>4. DOMAIN active' \subseteq Name /\ \A n \in DOMAIN active' : active'[n] \in Shows
    BY <1>0, <2>3
  <2>. QED BY <1>1, <2>1, <2>2, <2>3, <2>4 DEF TakesList, PhonePlayersTypeOK
<1>2. CASE TakesInfo
  <2> DEFINE n == e.name
  <2>1. /\ n \in Name /\ e.playing \in BOOLEAN /\ e.art \in Art \cup {None}
        /\ events' \in Seq(Event)
    BY <1>2, NextTyped DEF TakesInfo
  <2>2. AsksForArt(n, e.art)
    BY <1>2 DEF TakesInfo
  <2>3. toPhone' \in Seq(Request) /\ requested' \in [Name -> Art \cup {None}]
        /\ spoilt' \subseteq Name
    <3>1. CASE e.art \in {None, requested[n]}
      BY <2>2, <3>1 DEF AsksForArt, PhonePlayersTypeOK
    <3>2. CASE e.art \notin {None, requested[n]}
      <4>1. <<[kind |-> "art", name |-> n, art |-> e.art]>> \in Seq(Request)
        BY <2>1, <3>2, RequestsTyped
      <4>2. /\ Sends(<<[kind |-> "art", name |-> n, art |-> e.art]>>)
            /\ requested' = [requested EXCEPT ![n] = e.art]
            /\ spoilt' \in {spoilt \cup {n}, spoilt}
        BY <2>2, <3>2 DEF AsksForArt
      <4>. QED BY <1>0, <2>1, <4>1, <4>2, SendsTyped DEF PhonePlayersTypeOK
    <3>. QED BY <3>1, <3>2
  <2>4. [playing |-> e.playing, art |-> Remote(e.art)] \in Shows
    BY <2>1 DEF Shows, Remote
  <2>5. n \in DOMAIN active => Updated(active[n], e) \in Shows
    BY <1>0, <2>1 DEF Shows, Updated
  <2>6. DOMAIN active' \subseteq Name /\ \A k \in DOMAIN active' : active'[k] \in Shows
    <3>1. CASE n \in DOMAIN active
      <4>1. active' = [active EXCEPT ![n] = Updated(@, e)]
        BY <1>2, <3>1 DEF TakesInfo
      <4>. QED BY <1>0, <2>5, <3>1, <4>1
    <3>2. CASE n \notin DOMAIN active
      <4>1. active' \in {active, [k \in DOMAIN active \cup {n} |->
                          IF k = n THEN [playing |-> e.playing, art |-> Remote(e.art)] ELSE active[k]]}
        BY <1>2, <3>2 DEF TakesInfo
      <4>2. CASE active' = active
        BY <1>0, <4>2
      <4>3. CASE active' = [k \in DOMAIN active \cup {n} |->
                    IF k = n THEN [playing |-> e.playing, art |-> Remote(e.art)] ELSE active[k]]
        BY <1>0, <2>1, <2>4, <4>3
      <4>. QED BY <4>1, <4>2, <4>3
    <3>. QED BY <3>1, <3>2
  <2>. QED BY <1>2, <2>1, <2>3, <2>6 DEF TakesInfo, PhonePlayersTypeOK
<1>3. CASE TakesArt
  <2> DEFINE n == e.name
  <2>1. n \in Name /\ e.art \in Art /\ events' \in Seq(Event)
    BY <1>3, NextTyped DEF TakesArt
  <2>2. /\ spoilt' \subseteq Name /\ DOMAIN active' = DOMAIN active
        /\ \A k \in DOMAIN active : active'[k] \in {active[k], [active[k] EXCEPT !.art = [local |-> TRUE, art |-> e.art]]}
    BY <1>3, <2>1 DEF TakesArt, PhonePlayersTypeOK
  <2>3. ASSUME NEW k \in DOMAIN active PROVE active'[k] \in Shows
    <3>1. active[k] \in Shows /\ [local |-> TRUE, art |-> e.art] \in [local : BOOLEAN, art : Art]
      BY <1>0, <2>1
    <3>2. [active[k] EXCEPT !.art = [local |-> TRUE, art |-> e.art]] \in Shows
      BY <3>1 DEF Shows
    <3>. QED BY <2>2, <3>1, <3>2
  <2>. QED BY <1>0, <1>3, <2>1, <2>2, <2>3 DEF TakesArt, PhonePlayersTypeOK
<1>4. CASE TakesDisconnected
  <2>1. events' \in Seq(Event)
    BY <1>4, NextTyped DEF TakesDisconnected
  <2>. QED BY <1>4, <2>1 DEF TakesDisconnected, PhonePlayersTypeOK
<1>. QED BY <1>1, <1>2, <1>3, <1>4

\* A control of a proxy, whichever method it is.
LEMMA UsedIs ==
    ASSUME PhonePlayersTypeOK, NEW n \in DOMAIN active, Play(n) \/ Pause(n) \/ PlayPause(n)
    PROVE  \E k \in {"Play", "Pause", "PlayPause"}, b \in BOOLEAN : Uses(n, k, b)
<1>1. active[n].playing \in BOOLEAN
  BY DEF PhonePlayersTypeOK, Shows
<1>. QED BY <1>1 DEF Play, Pause, PlayPause

Controls == \E n \in DOMAIN active : Play(n) \/ Pause(n) \/ PlayPause(n)

LEMMA TypeAsks ==
    ASSUME PhonePlayersTypeOK, Ticks \/ Controls \/ AsksSoon
    PROVE  PhonePlayersTypeOK'
<1>0. DOMAIN active \subseteq Name
  BY DEF PhonePlayersTypeOK
<1>1. CASE Ticks
  <2>1. toPhone' \in Seq(Request)
    BY <1>0, <1>1, RowTyped, SendsTyped DEF Ticks
  <2>. QED BY <1>1, <2>1 DEF Ticks, PhonePlayersTypeOK
<1>2. CASE Controls
  <2>1. PICK n \in DOMAIN active, k \in {"Play", "Pause", "PlayPause"}, b \in BOOLEAN : Uses(n, k, b)
    BY <1>2, UsedIs DEF Controls
  <2>2. [kind |-> k, name |-> n, art |-> None] \in Request
    BY <1>0, RequestsTyped
  <2>3. toPhone' \in Seq(Request)
    <3>1. <<[kind |-> k, name |-> n, art |-> None]>> \in Seq(Request)
      BY <2>2
    <3>. QED BY <2>1, <3>1, SendsTyped DEF Uses
  <2>4. DOMAIN active' = DOMAIN active /\ \A m \in DOMAIN active : active'[m] \in Shows
    BY <2>1 DEF Uses, PhonePlayersTypeOK, Shows
  <2>. QED BY <1>0, <2>1, <2>3, <2>4 DEF Uses, PhonePlayersTypeOK
<1>3. CASE AsksSoon
  <2>1. PICK n \in soon : soon' = soon \ {n} /\ Sends(<<NowPlaying(n)>>)
    BY <1>3 DEF AsksSoon
  <2>2. <<NowPlaying(n)>> \in Seq(Request)
    BY RequestsTyped DEF PhonePlayersTypeOK
  <2>3. toPhone' \in Seq(Request)
    BY <2>1, <2>2, SendsTyped
  <2>. QED BY <1>3, <2>1, <2>3 DEF AsksSoon, PhonePlayersTypeOK
<1>. QED BY <1>1, <1>2, <1>3

LEMMA PlayersTypeStep ==
    PhonePlayersTypeOK /\ [PhonePlayersNext]_playersVars => PhonePlayersTypeOK'
<1> SUFFICES ASSUME PhonePlayersTypeOK, [PhonePlayersNext]_playersVars PROVE PhonePlayersTypeOK'
  OBVIOUS
<1>1. CASE UNCHANGED playersVars
  BY <1>1 DEF playersVars, PhonePlayersTypeOK
<1>2. CASE PhonePlayersNext
  BY <1>2, TypePhone, TypeLink, TypeTakes, TypeAsks DEF PhonePlayersNext, Controls
<1>. QED BY <1>1, <1>2

-----------------------------------------------------------------------------
(***************************************************************************)
(* What the events on their way will make of a proxy.                      *)
(***************************************************************************)

\* The event e takes the proxy of n away, brings news of it, or says it is there.
TakesAway(e, n) == e.kind = "gone" \/ (e.kind = "list" /\ n \notin e.names)
IsNews(e, n) == e.kind = "info" /\ e.name = n
IsListed(e, n) == e.kind = "list" /\ n \in e.names

NoNewsAfter(q, i, n) == \A j \in DOMAIN q : j > i => ~IsNews(q[j], n)

\* Some event of G is followed by no news of n, or none of them all is news
\* and b is so already.
WillEnd(q, b, G, n) ==
    \/ b /\ NoNewsAfter(q, 0, n)
    \/ \E i \in DOMAIN q : q[i] \in G /\ NoNewsAfter(q, i, n)

LEMMA EndsImplied ==
    ASSUME NEW q, NEW b, NEW c, b => c, NEW G, NEW H, G \subseteq H, NEW n,
           WillEnd(q, b, G, n)
    PROVE  WillEnd(q, c, H, n)
BY Zenon DEF WillEnd

LEMMA EndsAppended ==
    ASSUME NEW S, NEW q \in Seq(S), NEW e \in S, NEW b, NEW G, NEW n,
           WillEnd(q, b, G, n), ~IsNews(e, n)
    PROVE  WillEnd(Append(q, e), b, G, n)
<1>1. /\ DOMAIN Append(q, e) = DOMAIN q \cup {Len(q) + 1}
      /\ Append(q, e)[Len(q) + 1] = e
      /\ \A i \in DOMAIN q : Append(q, e)[i] = q[i]
  OBVIOUS
<1>2. \A i : NoNewsAfter(q, i, n) => NoNewsAfter(Append(q, e), i, n)
  BY <1>1 DEF NoNewsAfter
<1>3. CASE b /\ NoNewsAfter(q, 0, n)
  BY <1>2, <1>3, Zenon DEF WillEnd
<1>4. CASE \E i \in DOMAIN q : q[i] \in G /\ NoNewsAfter(q, i, n)
  <2>1. PICK i \in DOMAIN q : q[i] \in G /\ NoNewsAfter(q, i, n)
    BY <1>4
  <2>2. i \in DOMAIN Append(q, e) /\ Append(q, e)[i] \in G
    BY <1>1, <2>1
  <2>. QED BY <1>2, <2>1, <2>2, Zenon DEF WillEnd
<1>. QED BY <1>3, <1>4, Zenon DEF WillEnd

LEMMA EndsWith ==
    ASSUME NEW S, NEW q \in Seq(S), NEW G, NEW e \in S \cap G, NEW b, NEW n
    PROVE  WillEnd(Append(q, e), b, G, n)
<1>1. /\ DOMAIN Append(q, e) = 1 .. Len(q) + 1 /\ Len(q) \in Nat
      /\ Append(q, e)[Len(q) + 1] = e
  OBVIOUS
<1>2. NoNewsAfter(Append(q, e), Len(q) + 1, n)
  BY <1>1 DEF NoNewsAfter
<1>3. Len(q) + 1 \in DOMAIN Append(q, e)
  BY <1>1
<1>. QED BY <1>1, <1>2, <1>3 DEF WillEnd

LEMMA EndsTaken ==
    ASSUME NEW S, NEW q \in Seq(S), q # <<>>, NEW b, NEW c, NEW G, NEW n,
           WillEnd(q, b, G, n),
           Head(q) \in G => c,
           b /\ ~IsNews(Head(q), n) => c
    PROVE  WillEnd(Tail(q), c, G, n)
<1>1. /\ DOMAIN q = 1 .. Len(q) /\ Len(q) \in Nat /\ 1 \in DOMAIN q /\ q[1] = Head(q)
      /\ \A i \in DOMAIN Tail(q) : i + 1 \in DOMAIN q /\ i + 1 > 1 /\ Tail(q)[i] = q[i + 1]
      /\ \A i \in DOMAIN q : i # 1 => i - 1 \in DOMAIN Tail(q) /\ Tail(q)[i - 1] = q[i]
  BY TailIs
<1>2. DOMAIN Tail(q) \subseteq Nat
  OBVIOUS
<1>3. \A i \in DOMAIN q : NoNewsAfter(q, i, n) => NoNewsAfter(Tail(q), i - 1, n)
  BY <1>1, <1>2 DEF NoNewsAfter
<1>4. NoNewsAfter(q, 0, n) => NoNewsAfter(Tail(q), 0, n) /\ ~IsNews(Head(q), n)
  BY <1>1, <1>2 DEF NoNewsAfter
<1>5. CASE b /\ NoNewsAfter(q, 0, n)
  BY <1>4, <1>5, Zenon DEF WillEnd
<1>6. CASE \E i \in DOMAIN q : q[i] \in G /\ NoNewsAfter(q, i, n)
  <2>1. PICK i \in DOMAIN q : q[i] \in G /\ NoNewsAfter(q, i, n)
    BY <1>6
  <2>2. CASE i = 1
    <3>1. Head(q) \in G /\ NoNewsAfter(Tail(q), 1 - 1, n)
      BY <1>1, <1>3, <2>1, <2>2
    <3>2. 1 - 1 = 0
      OBVIOUS
    <3>. QED BY <3>1, <3>2, Zenon DEF WillEnd
  <2>3. CASE i # 1
    <3>1. i - 1 \in DOMAIN Tail(q) /\ Tail(q)[i - 1] \in G
      BY <1>1, <2>1, <2>3
    <3>2. NoNewsAfter(Tail(q), i - 1, n)
      BY <1>3, <2>1
    <3>. QED BY <3>1, <3>2, Zenon DEF WillEnd
  <2>. QED BY <2>2, <2>3
<1>. QED BY <1>5, <1>6, Zenon DEF WillEnd

Away(n) == {e \in Event : TakesAway(e, n)}
Right(n) == {e \in Event : IsNews(e, n) /\ (e.playing <=> n \in phone.playing)}

\* No proxy of n is left once the events are taken, or it shows what n does.
WillGo(n) == WillEnd(events, n \notin DOMAIN active, Away(n), n)

Agrees(n) == n \in DOMAIN active => (active[n].playing <=> n \in phone.playing)

WillAgree(n) == WillEnd(events, Agrees(n), Away(n) \cup Right(n), n)

\* It will be asked about n, as soon as the list is taken or already.
WillAsk(n) == Has(toPhone, NowPlaying(n)) \/ \E i \in DOMAIN events : IsListed(events[i], n)

Listing == link = "up" /\ ~Has(toPhone, AskForList)

GoInv ==
    /\ Listing => \A n \in Name \ phone.running : WillGo(n)
    /\ link = "down" => toPhone = <<>> /\ \A n \in Name : WillGo(n)

AgreeInv == Listing => \A n \in Name \ soon : WillAgree(n) \/ WillAsk(n)

\* The events do not grow, or by one that is no news of n.
Grows(n) ==
    \/ events' = events
    \/ \E e \in Event : ~IsNews(e, n) /\ events' = Append(events, e)

StillAsked(n) == Has(toPhone, NowPlaying(n)) => Has(toPhone, NowPlaying(n))'

LEMMA Grown ==
    ASSUME PhonePlayersTypeOK, NEW n \in Name, Grows(n)
    PROVE  /\ WillGo(n) /\ (n \notin DOMAIN active => n \notin DOMAIN active') => WillGo(n)'
           /\ /\ WillAgree(n)
              /\ n \in phone.playing <=> n \in phone'.playing
              /\ Agrees(n) => Agrees(n)'
              => WillAgree(n)'
           /\ WillAsk(n) /\ StillAsked(n) => WillAsk(n)'
<1>0. events \in Seq(Event)
  BY DEF PhonePlayersTypeOK
<1>1. \A b, G : WillEnd(events, b, G, n) => WillEnd(events', b, G, n)
  BY <1>0, EndsAppended DEF Grows
<1>2. ASSUME WillGo(n), n \notin DOMAIN active => n \notin DOMAIN active' PROVE WillGo(n)'
  <2>1. WillEnd(events', n \notin DOMAIN active, Away(n), n)
    BY <1>1, <1>2, Zenon DEF WillGo
  <2>2. WillEnd(events', n \notin DOMAIN active', Away(n), n)
    BY <1>2, <2>1, EndsImplied
  <2>. QED BY <2>2, Zenon DEF WillGo
<1>3. ASSUME WillAgree(n), n \in phone.playing <=> n \in phone'.playing, Agrees(n) => Agrees(n)'
      PROVE  WillAgree(n)'
  <2>1. WillEnd(events', Agrees(n), Away(n) \cup Right(n), n)
    BY <1>1, <1>3, Zenon DEF WillAgree
  <2>2. Away(n) \cup Right(n) \subseteq Away(n) \cup Right(n)'
    BY <1>3 DEF Right
  <2>3. WillEnd(events', Agrees(n)', Away(n) \cup Right(n)', n)
    BY <1>3, <2>1, <2>2, EndsImplied
  <2>. QED BY <2>3, Zenon DEF WillAgree
<1>4. ASSUME NEW i \in DOMAIN events, IsListed(events[i], n)
      PROVE  i \in DOMAIN events' /\ IsListed(events'[i], n)
  <2>1. CASE events' = events
    BY <1>4, <2>1
  <2>2. ASSUME NEW e \in Event, events' = Append(events, e)
        PROVE  i \in DOMAIN events' /\ events'[i] = events[i]
    BY <1>0, <2>2
  <2>. QED BY <1>4, <2>1, <2>2 DEF Grows
<1>5. WillAsk(n) /\ StillAsked(n) => WillAsk(n)'
  BY <1>4 DEF WillAsk, StillAsked
<1>. QED BY <1>2, <1>3, <1>5, Zenon

LEMMA Ended ==
    ASSUME PhonePlayersTypeOK, NEW n \in Name, NEW e \in Event, events' = Append(events, e)
    PROVE  /\ TakesAway(e, n) => WillGo(n)' /\ WillAgree(n)'
           /\ IsNews(e, n) /\ (e.playing <=> n \in phone'.playing) => WillAgree(n)'
           /\ IsListed(e, n) => WillAsk(n)'
<1>0. events \in Seq(Event)
  BY DEF PhonePlayersTypeOK
<1>1. ASSUME NEW G, e \in G, NEW b PROVE WillEnd(events', b, G, n)
  BY <1>0, <1>1, EndsWith
<1>2. TakesAway(e, n) => e \in Away(n)
  BY DEF Away
<1>3. IsNews(e, n) /\ (e.playing <=> n \in phone'.playing) => e \in Right(n)'
  BY DEF Right
<1>4. TakesAway(e, n) => WillGo(n)'
  BY <1>1, <1>2, Zenon DEF WillGo
<1>5. e \in Away(n) \cup Right(n)' => WillAgree(n)'
  BY <1>1, Zenon DEF WillAgree
<1>6. Len(events) + 1 \in DOMAIN events' /\ events'[Len(events) + 1] = e
  BY <1>0
<1>7. IsListed(e, n) => WillAsk(n)'
  BY <1>6 DEF WillAsk
<1>. QED BY <1>2, <1>3, <1>4, <1>5, <1>7

LEMMA Heard ==
    ASSUME PhonePlayersTypeOK, NEW n \in Name, events # <<>>, events' = Tail(events)
    PROVE  LET e == Head(events)
           IN  /\ /\ WillGo(n)
                  /\ TakesAway(e, n) => n \notin DOMAIN active'
                  /\ n \notin DOMAIN active /\ ~IsNews(e, n) => n \notin DOMAIN active'
                  => WillGo(n)'
               /\ /\ WillAgree(n)
                  /\ n \in phone.playing <=> n \in phone'.playing
                  /\ TakesAway(e, n) => Agrees(n)'
                  /\ IsNews(e, n) /\ (e.playing <=> n \in phone.playing) => Agrees(n)'
                  /\ Agrees(n) /\ ~IsNews(e, n) => Agrees(n)'
                  => WillAgree(n)'
               /\ WillAsk(n) /\ StillAsked(n) /\ ~IsListed(e, n) => WillAsk(n)'
<1> DEFINE e == Head(events)
<1>0. events \in Seq(Event)
  BY DEF PhonePlayersTypeOK
<1>1. ASSUME NEW b, NEW c, NEW G, WillEnd(events, b, G, n), e \in G => c, b /\ ~IsNews(e, n) => c
      PROVE  WillEnd(events', c, G, n)
  BY <1>0, <1>1, EndsTaken
<1>2. ASSUME WillGo(n), TakesAway(e, n) => n \notin DOMAIN active',
             n \notin DOMAIN active /\ ~IsNews(e, n) => n \notin DOMAIN active'
      PROVE  WillGo(n)'
  <2>1. e \in Away(n) => n \notin DOMAIN active'
    BY <1>2 DEF Away
  <2>2. WillEnd(events', n \notin DOMAIN active', Away(n), n)
    BY <1>1, <1>2, <2>1, Zenon DEF WillGo
  <2>. QED BY <2>2, Zenon DEF WillGo
<1>3. ASSUME WillAgree(n), n \in phone.playing <=> n \in phone'.playing,
             TakesAway(e, n) => Agrees(n)',
             IsNews(e, n) /\ (e.playing <=> n \in phone.playing) => Agrees(n)',
             Agrees(n) /\ ~IsNews(e, n) => Agrees(n)'
      PROVE  WillAgree(n)'
  <2>1. e \in Away(n) \cup Right(n) => Agrees(n)'
    BY <1>3 DEF Away, Right
  <2>2. WillEnd(events', Agrees(n)', Away(n) \cup Right(n), n)
    BY <1>1, <1>3, <2>1, Zenon DEF WillAgree
  <2>3. Away(n) \cup Right(n) \subseteq Away(n) \cup Right(n)'
    BY <1>3 DEF Right
  <2>4. WillEnd(events', Agrees(n)', Away(n) \cup Right(n)', n)
    BY <2>2, <2>3, EndsImplied
  <2>. QED BY <2>4, Zenon DEF WillAgree
<1>4. ASSUME NEW i \in DOMAIN events, IsListed(events[i], n), ~IsListed(e, n)
      PROVE  \E j \in DOMAIN events' : IsListed(events'[j], n)
  <2>1. events[1] = e /\ (i # 1 => i - 1 \in DOMAIN events' /\ events'[i - 1] = events[i])
    BY <1>0, TailIs
  <2>. QED BY <1>4, <2>1
<1>5. WillAsk(n) /\ StillAsked(n) /\ ~IsListed(e, n) => WillAsk(n)'
  BY <1>4 DEF WillAsk, StillAsked
<1>. QED BY <1>2, <1>3, <1>5, Zenon

\* What has been asked of the phone stays asked until the phone takes it.
LEMMA SentStays ==
    ASSUME PhonePlayersTypeOK, NEW r \in Seq(Request), Sends(r), link \in {"up", "dead"}
    PROVE  \A x : Has(toPhone', x) <=> Has(toPhone, x) \/ Has(r, x)
BY HasJoined DEF Sends, PhonePlayersTypeOK

LEMMA AskedTaken ==
    ASSUME PhonePlayersTypeOK, NEW K, NextAsks(K)
    PROVE  /\ Head(toPhone) \in Request /\ Head(toPhone).kind \in K
           /\ \A x : Has(toPhone, x) <=> x = Head(toPhone) \/ Has(toPhone', x)
BY TailIs, HasTaken DEF NextAsks, PhonePlayersTypeOK

\* What taking an event does to a proxy.
LEMMA TakesIs ==
    ASSUME PhonePlayersTypeOK, TakesList \/ TakesInfo \/ TakesArt \/ TakesDisconnected,
           NEW n \in Name
    PROVE  LET e == Head(events)
           IN  /\ events # <<>> /\ events' = Tail(events) /\ e \in Event
               /\ UNCHANGED <<phone, link, soon>>
               /\ TakesAway(e, n) => n \notin DOMAIN active'
               /\ n \notin DOMAIN active /\ ~IsNews(e, n) => n \notin DOMAIN active'
               /\ IsNews(e, n) /\ n \in DOMAIN active' => active'[n].playing = e.playing
               /\ ~IsNews(e, n) /\ n \in DOMAIN active' =>
                     n \in DOMAIN active /\ active'[n].playing = active[n].playing
               /\ link = "down" => toPhone' = toPhone
               /\ link = "up" => \A x : Has(toPhone, x) => Has(toPhone', x)
               /\ link = "up" /\ IsListed(e, n) => Has(toPhone', NowPlaying(n))
<1> DEFINE e == Head(events)
<1>0. \A m \in DOMAIN active : active[m] \in Shows
  BY DEF PhonePlayersTypeOK
<1>1. CASE TakesList
  <2>1. e.kind = "list" /\ e.names \subseteq Name /\ events # <<>> /\ events' = Tail(events) /\ e \in Event
    BY <1>1, NextTyped DEF TakesList
  <2> DEFINE row == SetToSeq({NowPlaying(m) : m \in e.names})
  <2>2. row \in Seq(Request) /\ \A x : Has(row, x) <=> \E m \in e.names : x = NowPlaying(m)
    BY <2>1, RowTyped
  <2>3. Sends(row) /\ active' = [m \in DOMAIN active \cap e.names |-> active[m]]
        /\ UNCHANGED <<phone, link, soon>>
    BY <1>1 DEF TakesList
  <2>4. link = "up" => \A x : Has(toPhone', x) <=> Has(toPhone, x) \/ Has(row, x)
    BY <2>2, <2>3, SentStays
  <2>5. link = "down" => toPhone' = toPhone
    BY <2>3 DEF Sends
  <2>. QED BY <2>1, <2>2, <2>3, <2>4, <2>5 DEF TakesAway, IsNews, IsListed
<1>2. CASE TakesInfo
  <2>1. /\ e.kind = "info" /\ e.name \in Name /\ events # <<>> /\ events' = Tail(events) /\ e \in Event
        /\ e.art \in Art \cup {None}
    BY <1>2, NextTyped DEF TakesInfo
  <2>2. UNCHANGED <<phone, link, soon>> /\ AsksForArt(e.name, e.art)
    BY <1>2 DEF TakesInfo
  <2>3. /\ link = "down" => toPhone' = toPhone
        /\ link = "up" => \A x : Has(toPhone, x) => Has(toPhone', x)
    <3>1. CASE e.art \in {None, requested[e.name]}
      BY <2>2, <3>1 DEF AsksForArt
    <3>2. CASE e.art \notin {None, requested[e.name]}
      <4> DEFINE q == <<[kind |-> "art", name |-> e.name, art |-> e.art]>>
      <4>1. Sends(q)
        BY <2>2, <3>2 DEF AsksForArt
      <4>2. [kind |-> "art", name |-> e.name, art |-> e.art] \in Request
        BY <2>1, <3>2, RequestsTyped
      <4>3. q \in Seq(Request)
        BY <4>2
      <4>. QED BY <4>1, <4>3, SentStays DEF Sends
    <3>. QED BY <3>1, <3>2
  <2>4. /\ DOMAIN active' \in {DOMAIN active, DOMAIN active \cup {e.name}}
        /\ \A m \in DOMAIN active' :
              IF m = e.name THEN active'[m].playing = e.playing
                            ELSE m \in DOMAIN active /\ active'[m] = active[m]
    <3>1. CASE e.name \in DOMAIN active
      BY <1>2, <3>1 DEF TakesInfo, Updated
    <3>2. CASE e.name \notin DOMAIN active
      BY <1>2, <3>2 DEF TakesInfo
    <3>. QED BY <3>1, <3>2
  <2>. QED BY <2>1, <2>2, <2>3, <2>4 DEF TakesAway, IsNews, IsListed
<1>3. CASE TakesArt
  <2>1. e.kind = "ready" /\ events # <<>> /\ events' = Tail(events) /\ e \in Event
    BY <1>3, NextTyped DEF TakesArt
  <2>2. /\ UNCHANGED <<phone, link, soon, toPhone>> /\ DOMAIN active' = DOMAIN active
        /\ \A m \in DOMAIN active : active'[m].playing = active[m].playing
    BY <1>0, <1>3 DEF TakesArt, Shows
  <2>. QED BY <2>1, <2>2 DEF TakesAway, IsNews, IsListed
<1>4. CASE TakesDisconnected
  <2>1. e.kind = "gone" /\ events # <<>> /\ events' = Tail(events) /\ e \in Event
    BY <1>4, NextTyped DEF TakesDisconnected
  <2>2. UNCHANGED <<phone, link, soon, toPhone>> /\ DOMAIN active' = {}
    BY <1>4 DEF TakesDisconnected
  <2>. QED BY <2>1, <2>2 DEF TakesAway, IsNews, IsListed
<1>. QED BY <1>1, <1>2, <1>3, <1>4

LEMMA FetchIs ==
    ASSUME PhonePlayersTypeOK, FetchEnds
    PROVE  \A n \in Name : Grows(n)
<1>1. PICK f \in fetching :
           \/ events' = Append(events, [kind |-> "ready", name |-> f[1], art |-> f[2]])
           \/ events' = events
  BY DEF FetchEnds
<1>2. f[1] \in Name /\ f[2] \in Art
  BY DEF PhonePlayersTypeOK
<1>3. [kind |-> "ready", name |-> f[1], art |-> f[2]] \in Event
  BY <1>2, EventsTyped
<1>4. \A n : ~IsNews([kind |-> "ready", name |-> f[1], art |-> f[2]], n)
  BY DEF IsNews
<1>. QED BY <1>1, <1>3, <1>4 DEF Grows

\* Without a connection nothing is asked, and every proxy goes or is gone.
LEMMA GoDown ==
    ASSUME PhonePlayersTypeOK, GoInv, link = "down", link' = "down", PhonePlayersNext
    PROVE  GoInv'
<1>0. toPhone = <<>> /\ \A n \in Name : WillGo(n)
  BY DEF GoInv
<1> SUFFICES toPhone' = <<>> /\ \A n \in Name : WillGo(n)'
  BY DEF GoInv, Listing
<1>1. CASE PhoneChanges
  <2>1. events' = events /\ UNCHANGED <<active, toPhone>>
    BY <1>1 DEF PhoneChanges, Opens, Closes, StartsOrStops, NextTrack, Becomes, Says
  <2>2. \A n \in Name : Grows(n)
    BY <2>1 DEF Grows
  <2>. QED BY <1>0, <2>1, <2>2, Grown
<1>2. CASE PhoneAnswers
  BY <1>0, <1>2 DEF PhoneAnswers, AnswersList, AnswersNow, AnswersArt, AnswersControl, NextAsks
<1>3. CASE Breaks \/ Disconnects \/ Connects
  BY <1>3 DEF Breaks, Disconnects, Connects
<1>4. CASE FetchEnds
  <2>1. UNCHANGED <<active, toPhone>>
    BY <1>4 DEF FetchEnds
  <2>. QED BY <1>0, <1>4, <2>1, FetchIs, Grown
<1>5. CASE TakesList \/ TakesInfo \/ TakesArt \/ TakesDisconnected
  <2>1. ASSUME NEW n \in Name PROVE WillGo(n)' /\ toPhone' = toPhone
    <3>1. /\ events # <<>> /\ events' = Tail(events)
          /\ TakesAway(Head(events), n) => n \notin DOMAIN active'
          /\ n \notin DOMAIN active /\ ~IsNews(Head(events), n) => n \notin DOMAIN active'
          /\ toPhone' = toPhone
      BY <1>5, TakesIs
    <3>. QED BY <1>0, <3>1, Heard
  <2>2. toPhone' = toPhone
    BY <1>5 DEF TakesList, TakesInfo, TakesArt, TakesDisconnected, AsksForArt, Sends
  <2>. QED BY <1>0, <2>1, <2>2
<1>6. CASE Ticks \/ Controls \/ AsksSoon
  <2>1. events' = events /\ toPhone' = toPhone /\ DOMAIN active' = DOMAIN active
    <3>1. CASE Ticks \/ AsksSoon
      BY <3>1 DEF Ticks, AsksSoon, Sends
    <3>2. CASE Controls
      <4>1. PICK n \in DOMAIN active, k \in {"Play", "Pause", "PlayPause"}, b \in BOOLEAN : Uses(n, k, b)
        BY <3>2, UsedIs DEF Controls
      <4>. QED BY <4>1 DEF Uses, Sends
    <3>. QED BY <1>6, <3>1, <3>2
  <2>2. \A n \in Name : Grows(n)
    BY <2>1 DEF Grows
  <2>. QED BY <1>0, <2>1, <2>2, Grown
<1>. QED BY <1>1, <1>2, <1>3, <1>4, <1>5, <1>6 DEF PhonePlayersNext, Controls

\* A phone that changes says so: a list, or news of the player.
LEMMA ChangeIs ==
    ASSUME PhonePlayersTypeOK, link = "up", PhoneChanges
    PROVE  /\ UNCHANGED <<link, toPhone, active, requested, fetching, soon, spoilt>>
           /\ \E m \in Name, e \in Event :
                 /\ events' = Append(events, e)
                 /\ \/ e = List(phone')
                    \/ IsNews(e, m) /\ (e.playing <=> m \in phone'.playing)
                 /\ \A n \in Name : e.kind = "info" /\ n # m =>
                       (n \in phone'.running <=> n \in phone.running)
                 /\ e.kind = "info" => phone'.running = phone.running /\ m \in phone.running
                 /\ \A n \in Name \ {m} : n \in phone.playing <=> n \in phone'.playing
                 /\ e.kind = "list" => (m \in phone'.running => (m \in phone.playing <=> m \in phone'.playing))
<1>0. phone \in Phone /\ PhonePlayersTypeOK'
  BY TypePhone DEF PhonePlayersTypeOK
<1>1. PICK m \in Name : Opens(m) \/ Closes(m) \/ StartsOrStops(m) \/ NextTrack(m)
  BY DEF PhoneChanges
<1>2. CASE Opens(m) \/ Closes(m)
  <2>1. /\ UNCHANGED <<link, toPhone, active, requested, fetching, soon, spoilt>>
        /\ events' = Append(events, List(phone'))
    BY <1>2 DEF Opens, Closes, Becomes, Says
  <2>2. List(phone') \in Event /\ List(phone').kind = "list"
    BY <1>0, SaysOf DEF List, PhonePlayersTypeOK
  <2>3. /\ \A n \in Name \ {m} : n \in phone.playing <=> n \in phone'.playing
        /\ m \in phone'.running => (m \in phone.playing <=> m \in phone'.playing)
    BY <1>0, <1>2 DEF Opens, Closes, Becomes, Phone
  <2>. QED BY <2>1, <2>2, <2>3
<1>3. CASE StartsOrStops(m)
  <2>1. /\ UNCHANGED <<link, toPhone, active, requested, fetching, soon, spoilt>>
        /\ events' = Append(events, Info(phone', m)) /\ m \in phone.running
        /\ phone' = Toggled(m)
    BY <1>3 DEF StartsOrStops, Becomes, Says
  <2>2. Info(phone', m) \in Event /\ Info(phone', m).kind = "info"
    BY <1>0, SaysOf DEF Info, PhonePlayersTypeOK
  <2>3. phone'.running = phone.running
        /\ \A n \in Name \ {m} : n \in phone.playing <=> n \in phone'.playing
    BY <1>0, <2>1 DEF Toggled, Phone
  <2>4. IsNews(Info(phone', m), m) /\ (Info(phone', m).playing <=> m \in phone'.playing)
    BY DEF IsNews, Info
  <2>. QED BY <2>1, <2>2, <2>3, <2>4
<1>4. CASE NextTrack(m)
  <2>1. PICK a \in Art \cup {None} : Becomes([phone EXCEPT !.track[m] = a],
                                             Info([phone EXCEPT !.track[m] = a], m))
    BY <1>4 DEF NextTrack
  <2>2. /\ UNCHANGED <<link, toPhone, active, requested, fetching, soon, spoilt>>
        /\ events' = Append(events, Info(phone', m)) /\ m \in phone.running
        /\ phone' = [phone EXCEPT !.track[m] = a]
    BY <1>4, <2>1 DEF NextTrack, Becomes, Says
  <2>3. Info(phone', m) \in Event /\ Info(phone', m).kind = "info"
    BY <1>0, SaysOf DEF Info, PhonePlayersTypeOK
  <2>4. phone'.running = phone.running /\ phone'.playing = phone.playing
    BY <1>0, <2>2 DEF Phone
  <2>5. IsNews(Info(phone', m), m) /\ (Info(phone', m).playing <=> m \in phone'.playing)
    BY DEF IsNews, Info
  <2>. QED BY <2>2, <2>3, <2>4, <2>5
<1>. QED BY <1>1, <1>2, <1>3, <1>4

\* What will go will agree.
LEMMA GoAgrees ==
    ASSUME NEW n, WillGo(n)
    PROVE  WillAgree(n)
<1>1. n \notin DOMAIN active => Agrees(n)
  BY DEF Agrees
<1>2. Away(n) \subseteq Away(n) \cup Right(n)
  OBVIOUS
<1>3. WillEnd(events, n \notin DOMAIN active, Away(n), n)
  BY Zenon DEF WillGo
<1>4. WillEnd(events, Agrees(n), Away(n) \cup Right(n), n)
  BY <1>1, <1>2, <1>3, EndsImplied
<1>. QED BY <1>4, Zenon DEF WillAgree

NewsUp(n) ==
    /\ n \notin phone.running => WillGo(n)
    /\ n \notin soon => WillAgree(n) \/ WillAsk(n)

LEMMA NewsUpIs ==
    ASSUME link = "up"
    PROVE  GoInv /\ AgreeInv <=> (Has(toPhone, AskForList) \/ \A n \in Name : NewsUp(n))
BY DEF GoInv, AgreeInv, Listing, NewsUp

LEMMA UpChanges ==
    ASSUME PhonePlayersTypeOK, GoInv, AgreeInv, link = "up", PhoneChanges
    PROVE  GoInv' /\ AgreeInv'
<1>1. PICK m \in Name, e \in Event :
         /\ UNCHANGED <<link, toPhone, active, requested, fetching, soon, spoilt>>
         /\ events' = Append(events, e)
         /\ \/ e = List(phone')
            \/ IsNews(e, m) /\ (e.playing <=> m \in phone'.playing)
         /\ e.kind = "info" => phone'.running = phone.running /\ m \in phone.running
         /\ \A n \in Name \ {m} : n \in phone.playing <=> n \in phone'.playing
         /\ e.kind = "list" => (m \in phone'.running => (m \in phone.playing <=> m \in phone'.playing))
  BY ChangeIs
<1> SUFFICES ASSUME ~Has(toPhone, AskForList), NEW n \in Name PROVE NewsUp(n)'
  BY <1>1, NewsUpIs DEF GoInv, AgreeInv, Listing, NewsUp
<1>2. NewsUp(n)
  BY NewsUpIs
<1>3. CASE e = List(phone')
  <2>1. e.kind = "list" /\ e.names = phone'.running
    BY <1>3 DEF List
  <2>2. CASE n \in phone'.running
    <3>1. IsListed(e, n)
      BY <2>1, <2>2 DEF IsListed
    <3>. QED BY <1>1, <2>2, <3>1, Ended DEF NewsUp
  <2>3. CASE n \notin phone'.running
    <3>1. TakesAway(e, n)
      BY <2>1, <2>3 DEF TakesAway
    <3>. QED BY <1>1, <3>1, Ended DEF NewsUp
  <2>. QED BY <2>2, <2>3
<1>4. CASE IsNews(e, m) /\ (e.playing <=> m \in phone'.playing)
  <2>1. e.kind = "info" /\ phone'.running = phone.running /\ m \in phone.running
    BY <1>1, <1>4 DEF IsNews
  <2>2. CASE n = m
    BY <1>1, <1>4, <2>1, <2>2, Ended DEF NewsUp
  <2>3. CASE n # m
    <3>1. Grows(n) /\ StillAsked(n) /\ Agrees(n)' = Agrees(n)
      BY <1>1, <1>4, <2>3 DEF Grows, IsNews, StillAsked, Agrees
    <3>. QED BY <1>1, <1>2, <2>1, <2>3, <3>1, Grown DEF NewsUp
  <2>. QED BY <2>2, <2>3
<1>. QED BY <1>1, <1>3, <1>4

LEMMA UpAnswers ==
    ASSUME PhonePlayersTypeOK, GoInv, AgreeInv, link = "up", PhoneAnswers
    PROVE  GoInv' /\ AgreeInv'
<1>0. UNCHANGED <<link, active, soon>> /\ phone \in Phone
  BY DEF PhoneAnswers, AnswersList, AnswersNow, AnswersArt, AnswersControl, PhonePlayersTypeOK
<1> DEFINE r == Head(toPhone)
           m == r.name
<1> SUFFICES ASSUME ~Has(toPhone', AskForList), NEW n \in Name PROVE NewsUp(n)'
  BY <1>0 DEF GoInv, AgreeInv, Listing, NewsUp
<1>1. CASE AnswersList
  <2>1. List(phone) \in Event /\ events' = Append(events, List(phone)) /\ phone' = phone
    BY <1>0, <1>1, SaysOf DEF AnswersList, Says
  <2>2. n \in phone.running => IsListed(List(phone), n)
    BY DEF IsListed, List
  <2>3. n \notin phone.running => TakesAway(List(phone), n)
    BY DEF TakesAway, List
  <2>. QED BY <2>1, <2>2, <2>3, Ended DEF NewsUp
<1>2. CASE AnswersNow
  <2>1. r \in Request /\ r.kind = "now" /\ \A x : Has(toPhone, x) <=> x = r \/ Has(toPhone', x)
    BY <1>2, AskedTaken DEF AnswersNow
  <2>2. r # AskForList /\ r = NowPlaying(m) /\ m \in Name
    BY <2>1, RequestIs DEF AskForList
  <2>3. NewsUp(n)
    BY <2>1, <2>2, NewsUpIs
  <2>4. UNCHANGED <<phone, active, soon>>
        /\ events' = (IF m \in phone.running THEN Append(events, Info(phone, m)) ELSE events)
    BY <1>2 DEF AnswersNow, Says
  <2>5. Info(phone, m) \in Event /\ IsNews(Info(phone, m), m)
        /\ (Info(phone, m).playing <=> m \in phone.playing)
    BY <1>0, <2>2, SaysOf DEF IsNews, Info
  <2>6. CASE n = m /\ m \in phone.running
    BY <2>4, <2>5, <2>6, Ended DEF NewsUp
  <2>7. CASE n = m /\ m \notin phone.running
    <3>1. Grows(n) /\ WillGo(n)
      BY <2>3, <2>4, <2>7 DEF Grows, NewsUp
    <3>2. WillGo(n)'
      BY <2>4, <3>1, Grown
    <3>3. WillAgree(n)'
      <4>1. WillAgree(n)
        BY <3>1, GoAgrees
      <4>2. Agrees(n)' = Agrees(n)
        BY <2>4 DEF Agrees
      <4>. QED BY <2>4, <3>1, <4>1, <4>2, Grown
    <3>. QED BY <3>2, <3>3 DEF NewsUp
  <2>8. CASE n # m
    <3>1. NowPlaying(n) # r
      BY <2>2, <2>8 DEF NowPlaying
    <3>2. StillAsked(n)
      BY <2>1, <3>1 DEF StillAsked
    <3>3. Grows(n) /\ Agrees(n)' = Agrees(n)
      BY <2>4, <2>5, <2>8 DEF Grows, IsNews, Agrees
    <3>. QED BY <2>3, <2>4, <3>2, <3>3, Grown DEF NewsUp
  <2>. QED BY <2>6, <2>7, <2>8
<1>3. CASE AnswersArt \/ AnswersControl
  <2>1. /\ r \in Request /\ r.kind \in {"art", "Play", "Pause", "PlayPause"}
        /\ \A x : Has(toPhone, x) <=> x = r \/ Has(toPhone', x)
    BY <1>3, AskedTaken DEF AnswersArt, AnswersControl
  <2>2. r # AskForList /\ m \in Name /\ NowPlaying(n) # r
    BY <2>1, RequestIs DEF AskForList, NowPlaying
  <2>3. NewsUp(n) /\ StillAsked(n)
    BY <2>1, <2>2, NewsUpIs DEF StillAsked
  <2>4. CASE phone' = phone /\ events' = events
    <3>1. Grows(n) /\ Agrees(n)' = Agrees(n)
      BY <1>0, <2>4 DEF Grows, Agrees
    <3>. QED BY <1>0, <2>3, <2>4, <3>1, Grown DEF NewsUp
  <2>5. ASSUME NEW P, P \in {phone.playing \cup {m}, phone.playing \ {m}},
               phone' = [phone EXCEPT !.playing = P],
               events' = Append(events, Info(phone', m)), m \in phone.running
        PROVE  NewsUp(n)'
    <3>1. /\ phone'.running = phone.running /\ phone'.playing = P
          /\ phone' \in Phone
      BY <1>0, <2>2, <2>5 DEF Phone
    <3>2. Info(phone', m) \in Event /\ IsNews(Info(phone', m), m)
          /\ (Info(phone', m).playing <=> m \in phone'.playing)
      BY <2>2, <3>1, SaysOf DEF IsNews, Info
    <3>3. CASE n = m
      BY <2>5, <3>1, <3>2, <3>3, Ended DEF NewsUp
    <3>4. CASE n # m
      <4>1. n \in phone.playing <=> n \in phone'.playing
        BY <2>5, <3>1, <3>4
      <4>2. Grows(n)
        BY <2>5, <3>2, <3>4 DEF Grows, IsNews
      <4>3. Agrees(n)' = Agrees(n)
        BY <1>0, <4>1 DEF Agrees
      <4>. QED BY <1>0, <2>3, <3>1, <4>1, <4>2, <4>3, Grown DEF NewsUp
    <3>. QED BY <3>3, <3>4
  <2>6. CASE AnswersArt
    BY <2>4, <2>6 DEF AnswersArt
  <2>7. CASE AnswersControl
    <3> DEFINE starts == \/ r.kind = "Play"
                         \/ r.kind = "PlayPause" /\ m \notin phone.playing
               p == [phone EXCEPT !.playing = IF starts THEN @ \cup {m} ELSE @ \ {m}]
    <3>1. \/ phone' = phone /\ events' = events
          \/ m \in phone.running /\ phone' = p /\ events' = Append(events, Info(p, m))
      BY <2>7 DEF AnswersControl, Says
    <3>2. p = [phone EXCEPT !.playing = IF starts THEN phone.playing \cup {m} ELSE phone.playing \ {m}]
      OBVIOUS
    <3>. QED BY <2>4, <2>5, <3>1, <3>2
  <2>. QED BY <1>3, <2>6, <2>7
<1>. QED BY <1>1, <1>2, <1>3 DEF PhoneAnswers

LEMMA UpTakes ==
    ASSUME PhonePlayersTypeOK, GoInv, AgreeInv, link = "up",
           TakesList \/ TakesInfo \/ TakesArt \/ TakesDisconnected
    PROVE  GoInv' /\ AgreeInv'
<1> DEFINE e == Head(events)
<1>0. UNCHANGED <<phone, link, soon>>
  BY DEF TakesList, TakesInfo, TakesArt, TakesDisconnected
<1> SUFFICES ASSUME ~Has(toPhone', AskForList), NEW n \in Name PROVE NewsUp(n)'
  BY <1>0 DEF GoInv, AgreeInv, Listing, NewsUp
<1>1. /\ events # <<>> /\ events' = Tail(events) /\ e \in Event
      /\ TakesAway(e, n) => n \notin DOMAIN active'
      /\ n \notin DOMAIN active /\ ~IsNews(e, n) => n \notin DOMAIN active'
      /\ IsNews(e, n) /\ n \in DOMAIN active' => active'[n].playing = e.playing
      /\ ~IsNews(e, n) /\ n \in DOMAIN active' =>
            n \in DOMAIN active /\ active'[n].playing = active[n].playing
      /\ \A x : Has(toPhone, x) => Has(toPhone', x)
      /\ IsListed(e, n) => Has(toPhone', NowPlaying(n))
  BY TakesIs
<1>2. NewsUp(n) /\ StillAsked(n)
  BY <1>1, NewsUpIs DEF StillAsked
<1>3. WillGo(n) => WillGo(n)'
  BY <1>1, Heard
<1>4. WillAgree(n) => WillAgree(n)'
  <2>1. TakesAway(e, n) => Agrees(n)'
    BY <1>1 DEF Agrees
  <2>2. IsNews(e, n) /\ (e.playing <=> n \in phone.playing) => Agrees(n)'
    BY <1>0, <1>1 DEF Agrees
  <2>3. Agrees(n) /\ ~IsNews(e, n) => Agrees(n)'
    BY <1>0, <1>1 DEF Agrees
  <2>. QED BY <1>0, <1>1, <2>1, <2>2, <2>3, Heard
<1>5. WillAsk(n) => WillAsk(n)'
  <2>1. CASE IsListed(e, n)
    BY <1>1, <2>1 DEF WillAsk
  <2>2. CASE ~IsListed(e, n)
    BY <1>1, <1>2, <2>2, Heard
  <2>. QED BY <2>1, <2>2
<1>. QED BY <1>0, <1>2, <1>3, <1>4, <1>5 DEF NewsUp

LEMMA UpAsks ==
    ASSUME PhonePlayersTypeOK, GoInv, AgreeInv, link = "up",
           FetchEnds \/ Ticks \/ Controls \/ AsksSoon
    PROVE  GoInv' /\ AgreeInv'
<1>0. DOMAIN active \subseteq Name /\ soon \subseteq Name
  BY DEF PhonePlayersTypeOK
<1>1. UNCHANGED <<phone, link>>
  BY UsedIs DEF FetchEnds, Ticks, Controls, AsksSoon, Uses
<1> SUFFICES ASSUME ~Has(toPhone', AskForList), NEW n \in Name PROVE NewsUp(n)'
  BY <1>1 DEF GoInv, AgreeInv, Listing, NewsUp
<1>2. ASSUME Grows(n), \A x : Has(toPhone, x) => Has(toPhone', x),
             n \notin DOMAIN active => n \notin DOMAIN active',
             n \in soon => n \in soon' \/ Has(toPhone', NowPlaying(n)),
             n \notin soon' => Agrees(n)' = Agrees(n)
      PROVE  NewsUp(n)'
  <2>1. NewsUp(n) /\ StillAsked(n)
    BY <1>2, NewsUpIs DEF StillAsked
  <2>2. n \in soon /\ n \notin soon' => WillAsk(n)'
    BY <1>2 DEF WillAsk
  <2>3. n \notin phone'.running => WillGo(n)'
    BY <1>1, <1>2, <2>1, Grown DEF NewsUp
  <2>4. n \notin soon' /\ n \notin soon => WillAgree(n)' \/ WillAsk(n)'
    BY <1>1, <1>2, <2>1, Grown DEF NewsUp
  <2>. QED BY <2>2, <2>3, <2>4 DEF NewsUp
<1>3. CASE FetchEnds
  <2>1. UNCHANGED <<phone, toPhone, active, soon>>
    BY <1>3 DEF FetchEnds
  <2>2. Agrees(n)' = Agrees(n)
    BY <2>1 DEF Agrees
  <2>. QED BY <1>2, <1>3, <2>1, <2>2, FetchIs
<1>4. CASE Ticks
  <2> DEFINE row == SetToSeq({NowPlaying(m) : m \in DOMAIN active})
  <2>1. row \in Seq(Request) /\ Sends(row) /\ UNCHANGED <<phone, events, active, soon>>
    BY <1>0, <1>4, RowTyped DEF Ticks
  <2>2. \A x : Has(toPhone, x) => Has(toPhone', x)
    BY <2>1, SentStays
  <2>3. Agrees(n)' = Agrees(n) /\ Grows(n)
    BY <2>1 DEF Agrees, Grows
  <2>. QED BY <1>2, <2>1, <2>2, <2>3
<1>5. CASE Controls
  <2>1. PICK m \in DOMAIN active, k \in {"Play", "Pause", "PlayPause"}, b \in BOOLEAN : Uses(m, k, b)
    BY <1>5, UsedIs DEF Controls
  <2> DEFINE q == <<[kind |-> k, name |-> m, art |-> None]>>
  <2>2. q \in Seq(Request) /\ Sends(q)
    <3>1. [kind |-> k, name |-> m, art |-> None] \in Request
      BY <1>0, RequestsTyped
    <3>. QED BY <2>1, <3>1 DEF Uses
  <2>3. \A x : Has(toPhone, x) => Has(toPhone', x)
    BY <2>2, SentStays
  <2>4. /\ UNCHANGED <<phone, events>> /\ soon' = soon \cup {m}
        /\ active' = [active EXCEPT ![m].playing = b]
    BY <2>1 DEF Uses
  <2>5. DOMAIN active' = DOMAIN active /\ (n \notin soon' => n # m)
    BY <2>4
  <2>6. n # m => Agrees(n)' = Agrees(n)
    BY <2>4 DEF Agrees
  <2>7. Grows(n)
    BY <2>4 DEF Grows
  <2>. QED BY <1>2, <2>3, <2>4, <2>5, <2>6, <2>7
<1>6. CASE AsksSoon
  <2>1. PICK m \in soon : soon' = soon \ {m} /\ Sends(<<NowPlaying(m)>>)
    BY <1>6 DEF AsksSoon
  <2>2. <<NowPlaying(m)>> \in Seq(Request)
    BY <1>0, RequestsTyped
  <2>3. \A x : Has(toPhone', x) <=> Has(toPhone, x) \/ Has(<<NowPlaying(m)>>, x)
    BY <2>1, <2>2, SentStays
  <2>4. Has(<<NowPlaying(m)>>, NowPlaying(m))
    BY DEF Has
  <2>5. UNCHANGED <<phone, events, active>>
    BY <1>6 DEF AsksSoon
  <2>6. Agrees(n)' = Agrees(n) /\ Grows(n)
    BY <2>5 DEF Agrees, Grows
  <2>7. n \in soon => n \in soon' \/ Has(toPhone', NowPlaying(n))
    BY <2>1, <2>3, <2>4
  <2>8. \A x : Has(toPhone, x) => Has(toPhone', x)
    BY <2>3
  <2>9. n \notin DOMAIN active => n \notin DOMAIN active'
    BY <2>5
  <2>. QED BY <1>2, <2>6, <2>7, <2>8, <2>9
<1>. QED BY <1>3, <1>4, <1>5, <1>6

LEMMA NewsStay == GoInv /\ AgreeInv /\ UNCHANGED playersVars => GoInv' /\ AgreeInv'
BY DEF GoInv, AgreeInv, playersVars, Listing, WillGo, WillAgree, WillAsk, WillEnd, NoNewsAfter,
       Right, Agrees

LEMMA NewsStep ==
    ASSUME PhonePlayersTypeOK, GoInv, AgreeInv, PhonePlayersNext
    PROVE  GoInv' /\ AgreeInv'
<1>0. link \in {"up", "dead", "down"}
  BY DEF PhonePlayersTypeOK
<1>1. CASE Breaks
  BY <1>1 DEF Breaks, GoInv, AgreeInv, Listing
<1>2. CASE Disconnects
  <2>1. link' = "down" /\ toPhone' = <<>> /\ events' = Append(events, [kind |-> "gone"])
    BY <1>2 DEF Disconnects
  <2>2. [kind |-> "gone"] \in Event /\ \A n : TakesAway([kind |-> "gone"], n)
    BY EventsTyped DEF TakesAway
  <2>3. \A n \in Name : WillGo(n)'
    BY <2>1, <2>2, Ended
  <2>. QED BY <2>1, <2>3 DEF GoInv, AgreeInv, Listing
<1>3. CASE Connects
  <2>1. link' = "up" /\ toPhone' = <<AskForList>>
    BY <1>3 DEF Connects
  <2>2. Has(toPhone', AskForList)
    BY <2>1 DEF Has
  <2>. QED BY <2>1, <2>2 DEF GoInv, AgreeInv, Listing
<1>4. CASE PhoneChanges \/ PhoneAnswers \/ TakesList \/ TakesInfo \/ TakesArt \/ TakesDisconnected
           \/ FetchEnds \/ Ticks \/ Controls \/ AsksSoon
  <2>1. link' = link
    <3>1. CASE PhoneChanges \/ PhoneAnswers
      BY <3>1 DEF PhoneChanges, Opens, Closes, StartsOrStops, NextTrack, Becomes,
                  PhoneAnswers, AnswersList, AnswersNow, AnswersArt, AnswersControl
    <3>2. CASE TakesList \/ TakesInfo \/ TakesArt \/ TakesDisconnected
      BY <3>2 DEF TakesList, TakesInfo, TakesArt, TakesDisconnected
    <3>3. CASE FetchEnds \/ Ticks \/ Controls \/ AsksSoon
      BY <3>3, UsedIs DEF FetchEnds, Ticks, Controls, AsksSoon, Uses
    <3>. QED BY <1>4, <3>1, <3>2, <3>3
  <2>2. CASE link = "up"
    BY <1>4, <2>2, UpChanges, UpAnswers, UpTakes, UpAsks
  <2>3. CASE link = "down"
    BY <2>1, <2>3, GoDown DEF AgreeInv, Listing
  <2>4. CASE link = "dead"
    BY <2>1, <2>4 DEF GoInv, AgreeInv, Listing
  <2>. QED BY <1>0, <2>2, <2>3, <2>4
<1>. QED BY <1>1, <1>2, <1>3, <1>4 DEF PhonePlayersNext, Controls

LEMMA NewsInit == PhonePlayersInit => GoInv /\ AgreeInv
<1> SUFFICES ASSUME PhonePlayersInit PROVE link = "up" /\ Has(toPhone, AskForList)
  BY DEF GoInv, AgreeInv, Listing
<1>. QED BY DEF PhonePlayersInit, Has

\* Once no event is on its way nothing can come of them but what is there.
LEMMA EndsNow ==
    ASSUME NEW b, NEW G, NEW n, WillEnd(<<>>, b, G, n)
    PROVE  b
<1>1. DOMAIN <<>> = {}
  OBVIOUS
<1>. QED BY <1>1, Zenon DEF WillEnd

LEMMA NewsMeans == PhonePlayersTypeOK /\ GoInv /\ AgreeInv => ClosedPlayersGo /\ ProxyAgrees
<1> SUFFICES ASSUME PhonePlayersTypeOK, GoInv, AgreeInv, Quiet PROVE ClosedPlayersGo /\ ProxyAgrees
  BY DEF ClosedPlayersGo, ProxyAgrees
<1>1. \A x : ~Has(toPhone, x)
  BY DEF Quiet, Has
<1>2. ASSUME NEW n \in Name PROVE (WillGo(n) => n \notin DOMAIN active) /\ (WillAgree(n) => Agrees(n))
  <2>1. events = <<>>
    BY DEF Quiet
  <2>2. WillGo(n) => n \notin DOMAIN active
    BY <2>1, EndsNow DEF WillGo
  <2>3. WillAgree(n) => Agrees(n)
    BY <2>1, EndsNow DEF WillAgree
  <2>. QED BY <2>2, <2>3
<1>3. \A n \in Name : ~WillAsk(n)
  BY <1>1 DEF WillAsk, Quiet
<1>4. DOMAIN active \subseteq Name /\ \A n \in DOMAIN active : active[n].playing \in BOOLEAN
  BY DEF PhonePlayersTypeOK, Shows
<1>5. ClosedPlayersGo
  BY <1>1, <1>2, <1>4 DEF ClosedPlayersGo, GoInv, Listing
<1>6. ProxyAgrees
  <2> SUFFICES ASSUME link = "up", NEW n \in DOMAIN active
               PROVE  active[n].playing = (n \in phone.playing)
    BY DEF ProxyAgrees
  <2>1. Agrees(n)
    BY <1>1, <1>2, <1>3, <1>4 DEF AgreeInv, Listing, Quiet
  <2>. QED BY <1>4, <2>1 DEF Agrees
<1>. QED BY <1>5, <1>6

-----------------------------------------------------------------------------
(***************************************************************************)
(* Album art.  All that is on its way for a player is what was last asked  *)
(* for; with none on its way that art is shown.                            *)
(***************************************************************************)

AskArt(n, a) == [kind |-> "art", name |-> n, art |-> a]
Ready(n, a) == [kind |-> "ready", name |-> n, art |-> a]

Under(n, a) == <<n, a>> \in fetching \/ Has(toPhone, AskArt(n, a)) \/ Has(events, Ready(n, a))

ShowsArt(n, a) == n \in DOMAIN active /\ active[n].art = [local |-> TRUE, art |-> a]

ArtOk(n) ==
    requested[n] # None =>
        /\ \A a \in Art : Under(n, a) => a = requested[n]
        /\ ~Outstanding(n) => ShowsArt(n, requested[n])

ArtInv == \A n \in Name \ spoilt : ArtOk(n)

LEMMA ArtAmong ==
    ASSUME NEW n \in Name
    PROVE  /\ \A q \in Seq(Request) :
                 (\E i \in DOMAIN q : q[i].kind = "art" /\ q[i].name = n)
                 <=> \E a \in Art : Has(q, AskArt(n, a))
           /\ \A q \in Seq(Event) :
                 (\E i \in DOMAIN q : q[i].kind = "ready" /\ q[i].name = n)
                 <=> \E a \in Art : Has(q, Ready(n, a))
<1>1. ASSUME NEW q \in Seq(Request), NEW i \in DOMAIN q, q[i].kind = "art", q[i].name = n
      PROVE  \E a \in Art : Has(q, AskArt(n, a))
  <2>1. q[i].art \in Art /\ q[i] = AskArt(n, q[i].art)
    BY <1>1, RequestIs DEF AskArt
  <2>. QED BY <2>1 DEF Has
<1>2. ASSUME NEW q \in Seq(Event), NEW i \in DOMAIN q, q[i].kind = "ready", q[i].name = n
      PROVE  \E a \in Art : Has(q, Ready(n, a))
  <2>1. q[i].art \in Art /\ q[i] = Ready(n, q[i].art)
    BY <1>2, EventIs DEF Ready
  <2>. QED BY <2>1 DEF Has
<1>3. \A q, a : /\ Has(q, AskArt(n, a)) => \E i \in DOMAIN q : q[i].kind = "art" /\ q[i].name = n
                /\ Has(q, Ready(n, a)) => \E i \in DOMAIN q : q[i].kind = "ready" /\ q[i].name = n
  BY DEF Has, AskArt, Ready
<1>. QED BY <1>1, <1>2, <1>3

LEMMA OutstandingIs ==
    ASSUME NEW n \in Name
    PROVE  /\ PhonePlayersTypeOK => (Outstanding(n) <=> \E a \in Art : Under(n, a))
           /\ PhonePlayersTypeOK' => (Outstanding(n)' <=> \E a \in Art : Under(n, a)')
<1>1. ASSUME PhonePlayersTypeOK PROVE Outstanding(n) <=> \E a \in Art : Under(n, a)
  <2>1. toPhone \in Seq(Request) /\ events \in Seq(Event)
    BY <1>1 DEF PhonePlayersTypeOK
  <2>. QED BY <2>1, ArtAmong DEF Outstanding, Under
<1>2. ASSUME PhonePlayersTypeOK' PROVE Outstanding(n)' <=> \E a \in Art : Under(n, a)'
  <2>1. toPhone' \in Seq(Request) /\ events' \in Seq(Event)
    BY <1>2 DEF PhonePlayersTypeOK
  <2>. QED BY <2>1, ArtAmong DEF Outstanding, Under
<1>. QED BY <1>1, <1>2

LEMMA ArtStays ==
    ASSUME PhonePlayersTypeOK, PhonePlayersTypeOK', NEW n \in Name, ArtOk(n),
           requested'[n] = requested[n],
           \A a \in Art : Under(n, a)' => Under(n, a),
           \A a \in Art : Under(n, a) => Under(n, a)' \/ ShowsArt(n, a)',
           n \in DOMAIN active => n \in DOMAIN active' /\
               (active'[n].art = active[n].art \/ \E a \in Art : Under(n, a))
    PROVE  ArtOk(n)'
<1> SUFFICES ASSUME requested[n] # None
             PROVE  /\ \A a \in Art : Under(n, a)' => a = requested[n]
                    /\ ~Outstanding(n)' => ShowsArt(n, requested[n])'
  BY DEF ArtOk
<1>1. /\ \A a \in Art : Under(n, a) => a = requested[n]
      /\ ~Outstanding(n) => ShowsArt(n, requested[n])
  BY DEF ArtOk
<1>2. /\ Outstanding(n) <=> \E a \in Art : Under(n, a)
      /\ Outstanding(n)' <=> \E a \in Art : Under(n, a)'
  BY OutstandingIs
<1>3. requested'[n] = requested[n]
  OBVIOUS
<1>4. ASSUME ~Outstanding(n)' PROVE ShowsArt(n, requested[n])'
  <2>1. CASE \E a \in Art : Under(n, a)
    <3>1. PICK a \in Art : Under(n, a)
      BY <2>1
    <3>2. a = requested[n] /\ ShowsArt(n, a)'
      BY <1>1, <1>2, <1>4, <3>1
    <3>. QED BY <1>3, <3>2
  <2>2. CASE ~(\E a \in Art : Under(n, a))
    <3>1. ShowsArt(n, requested[n])
      BY <1>1, <1>2, <2>2
    <3>2. n \in DOMAIN active' /\ active'[n].art = active[n].art
      BY <2>2, <3>1 DEF ShowsArt
    <3>. QED BY <1>3, <3>1, <3>2 DEF ShowsArt
  <2>. QED BY <2>1, <2>2
<1>. QED BY <1>1, <1>4

\* When no art is asked for, taken from the queues or shown, nothing changes.
LEMMA ArtSame ==
    ASSUME PhonePlayersTypeOK, PhonePlayersTypeOK', NEW n \in Name, ArtOk(n),
           requested'[n] = requested[n],
           \A a \in Art : <<n, a>> \in fetching' <=> <<n, a>> \in fetching,
           \A a \in Art : Has(toPhone', AskArt(n, a)) <=> Has(toPhone, AskArt(n, a)),
           \A a \in Art : Has(events', Ready(n, a)) <=> Has(events, Ready(n, a)),
           n \in DOMAIN active => n \in DOMAIN active' /\ active'[n].art = active[n].art
    PROVE  ArtOk(n)'
<1>1. \A a \in Art : Under(n, a)' <=> Under(n, a)
  BY DEF Under
<1>. QED BY <1>1, ArtStays

\* Events and requests that are not of art.
LEMMA EventsSame ==
    ASSUME PhonePlayersTypeOK,
           \/ events' = events
           \/ \E e \in Event : e.kind # "ready" /\ events' = Append(events, e)
           \/ /\ events # <<>> /\ Head(events).kind # "ready" /\ events' = Tail(events)
    PROVE  \A n, a : Has(events', Ready(n, a)) <=> Has(events, Ready(n, a))
<1>0. events \in Seq(Event)
  BY DEF PhonePlayersTypeOK
<1>1. ASSUME NEW e \in Event, e.kind # "ready", events' = Append(events, e)
      PROVE  \A n, a : Has(events', Ready(n, a)) <=> Has(events, Ready(n, a))
  BY <1>0, <1>1, HasAppended DEF Ready
<1>2. ASSUME events # <<>>, Head(events).kind # "ready", events' = Tail(events)
      PROVE  \A n, a : Has(events', Ready(n, a)) <=> Has(events, Ready(n, a))
  BY <1>0, <1>2, HasTaken DEF Ready
<1>. QED BY <1>1, <1>2

LEMMA RequestsSame ==
    ASSUME PhonePlayersTypeOK,
           \/ toPhone' = toPhone
           \/ \E K : "art" \notin K /\ NextAsks(K)
           \/ \E r \in Seq(Request) : Sends(r) /\ \A n, a : ~Has(r, AskArt(n, a))
    PROVE  \A n, a : Has(toPhone', AskArt(n, a)) <=> Has(toPhone, AskArt(n, a))
<1>1. ASSUME NEW K, "art" \notin K, NextAsks(K)
      PROVE  \A n, a : Has(toPhone', AskArt(n, a)) <=> Has(toPhone, AskArt(n, a))
  <2>1. Head(toPhone).kind \in K /\ \A x : Has(toPhone, x) <=> x = Head(toPhone) \/ Has(toPhone', x)
    BY <1>1, AskedTaken
  <2>2. ASSUME NEW n, NEW a PROVE AskArt(n, a) # Head(toPhone)
    <3>1. AskArt(n, a).kind = "art"
      BY DEF AskArt
    <3>. QED BY <1>1, <2>1, <3>1
  <2>. QED BY <2>1, <2>2
<1>2. ASSUME NEW r \in Seq(Request), Sends(r), \A n, a : ~Has(r, AskArt(n, a))
      PROVE  \A n, a : Has(toPhone', AskArt(n, a)) <=> Has(toPhone, AskArt(n, a))
  <2>1. CASE link = "down"
    BY <1>2, <2>1 DEF Sends
  <2>2. CASE link # "down"
    BY <1>2, <2>2, SentStays DEF PhonePlayersTypeOK
  <2>. QED BY <2>1, <2>2
<1>. QED BY <1>1, <1>2

LEMMA ArtPhone ==
    ASSUME PhonePlayersTypeOK, PhonePlayersTypeOK', ArtInv,
           PhoneChanges \/ AnswersList \/ AnswersNow \/ AnswersControl
    PROVE  ArtInv'
<1>0. phone \in Phone /\ phone' \in Phone
  BY DEF PhonePlayersTypeOK
<1>1. UNCHANGED <<active, requested, fetching, spoilt>>
  BY DEF PhoneChanges, Opens, Closes, StartsOrStops, NextTrack, Becomes,
         AnswersList, AnswersNow, AnswersControl
<1>2. \A n, a : Has(toPhone', AskArt(n, a)) <=> Has(toPhone, AskArt(n, a))
  <2>1. CASE PhoneChanges
    BY <2>1 DEF PhoneChanges, Opens, Closes, StartsOrStops, NextTrack, Becomes
  <2>2. CASE AnswersList \/ AnswersNow \/ AnswersControl
    <3>1. \E K : "art" \notin K /\ NextAsks(K)
      BY <2>2 DEF AnswersList, AnswersNow, AnswersControl
    <3>. QED BY <3>1, RequestsSame
  <2>. QED BY <2>1, <2>2
<1>3. \/ events' = events
      \/ \E e \in Event : e.kind # "ready" /\ events' = Append(events, e)
  <2>1. ASSUME NEW n \in Name PROVE /\ List(phone') \in Event /\ List(phone').kind # "ready"
                                    /\ Info(phone', n) \in Event /\ Info(phone', n).kind # "ready"
    BY <1>0, SaysOf DEF List, Info
  <2>2. CASE PhoneChanges
    BY <2>1, <2>2 DEF PhoneChanges, Opens, Closes, StartsOrStops, NextTrack, Becomes, Says
  <2>3. CASE AnswersList
    <3>1. List(phone) \in Event /\ List(phone).kind # "ready"
      BY <1>0, SaysOf DEF List
    <3>. QED BY <2>3, <3>1 DEF AnswersList, Says
  <2>4. CASE AnswersNow
    <3>1. Head(toPhone).name \in Name
      BY <2>4, AskedTaken, RequestIs DEF AnswersNow
    <3>2. Info(phone, Head(toPhone).name) \in Event
          /\ Info(phone, Head(toPhone).name).kind # "ready"
      BY <1>0, <3>1, SaysOf DEF Info
    <3>. QED BY <2>4, <3>2 DEF AnswersNow, Says
  <2>5. CASE AnswersControl
    <3>1. Head(toPhone).name \in Name
      BY <2>5, AskedTaken, RequestIs DEF AnswersControl
    <3>2. events' = events \/ events' = Append(events, Info(phone', Head(toPhone).name))
      BY <2>5 DEF AnswersControl, Says
    <3>. QED BY <2>1, <3>1, <3>2
  <2>. QED BY <2>2, <2>3, <2>4, <2>5
<1>4. \A n, a : Has(events', Ready(n, a)) <=> Has(events, Ready(n, a))
  BY <1>3, EventsSame
<1>. QED BY <1>1, <1>2, <1>4, ArtSame DEF ArtInv

LEMMA ArtAnswered ==
    ASSUME PhonePlayersTypeOK, PhonePlayersTypeOK', ArtInv, AnswersArt
    PROVE  ArtInv'
<1> DEFINE r == Head(toPhone)
           m == r.name
<1>1. r \in Request /\ r.kind = "art" /\ \A x : Has(toPhone, x) <=> x = r \/ Has(toPhone', x)
  BY AskedTaken DEF AnswersArt
<1>2. r.art \in Art /\ r = AskArt(m, r.art) /\ m \in Name
  BY <1>1, RequestIs DEF AskArt
<1>3. UNCHANGED <<events, active, requested>>
  BY DEF AnswersArt
<1>4. \/ fetching' = fetching \cup {<<m, r.art>>} /\ spoilt' = spoilt
      \/ fetching' = fetching /\ spoilt' = spoilt \cup {m}
  BY DEF AnswersArt
<1> SUFFICES ASSUME NEW n \in Name, n \notin spoilt' PROVE ArtOk(n)'
  BY DEF ArtInv
<1>5. ArtOk(n)
  BY <1>4 DEF ArtInv
<1>6. ASSUME NEW a \in Art PROVE Under(n, a)' <=> Under(n, a)
  <2>1. AskArt(n, a) = r <=> n = m /\ a = r.art
    BY <1>2 DEF AskArt
  <2>2. <<n, a>> \in fetching' <=> <<n, a>> \in fetching \/ (n = m /\ a = r.art)
    BY <1>4
  <2>3. Has(events', Ready(n, a)) <=> Has(events, Ready(n, a))
    BY <1>3
  <2>. QED BY <1>1, <2>1, <2>2, <2>3 DEF Under
<1>. QED BY <1>3, <1>5, <1>6, ArtStays

LEMMA ArtFetched ==
    ASSUME PhonePlayersTypeOK, PhonePlayersTypeOK', ArtInv, FetchEnds
    PROVE  ArtInv'
<1>1. PICK f \in fetching :
         /\ fetching' = fetching \ {f}
         /\ \/ events' = Append(events, Ready(f[1], f[2])) /\ spoilt' = spoilt
            \/ events' = events /\ spoilt' = spoilt \cup {f[1]}
  BY DEF FetchEnds, Ready
<1>2. f[1] \in Name /\ f[2] \in Art /\ f = <<f[1], f[2]>>
  BY DEF PhonePlayersTypeOK
<1>3. UNCHANGED <<toPhone, active, requested>> /\ events \in Seq(Event)
  BY DEF FetchEnds, PhonePlayersTypeOK
<1> SUFFICES ASSUME NEW n \in Name, n \notin spoilt' PROVE ArtOk(n)'
  BY DEF ArtInv
<1>4. ArtOk(n)
  BY <1>1 DEF ArtInv
<1>5. Ready(f[1], f[2]) \in Event
  BY <1>2, EventsTyped DEF Ready
<1>6. ASSUME NEW a \in Art PROVE Under(n, a)' <=> Under(n, a)
  <2>1. <<n, a>> = f <=> n = f[1] /\ a = f[2]
    BY <1>2
  <2>2. Ready(n, a) = Ready(f[1], f[2]) <=> n = f[1] /\ a = f[2]
    BY DEF Ready
  <2>3. Has(toPhone', AskArt(n, a)) <=> Has(toPhone, AskArt(n, a))
    BY <1>3
  <2>4. \/ Has(events', Ready(n, a)) <=> Has(events, Ready(n, a)) \/ (n = f[1] /\ a = f[2])
        \/ events' = events /\ n # f[1]
    <3>1. CASE events' = Append(events, Ready(f[1], f[2]))
      BY <1>3, <1>5, <2>2, <3>1, HasAppended
    <3>2. CASE events' = events /\ spoilt' = spoilt \cup {f[1]}
      BY <3>2
    <3>. QED BY <1>1, <3>1, <3>2
  <2>. QED BY <1>1, <2>1, <2>3, <2>4 DEF Under
<1>. QED BY <1>3, <1>4, <1>6, ArtStays

\* A row of requests for what is playing asks for no art.
LEMMA RowAsksNoArt ==
    ASSUME NEW N, N \subseteq Name, Sends(SetToSeq({NowPlaying(n) : n \in N})), PhonePlayersTypeOK
    PROVE  \A n, a : Has(toPhone', AskArt(n, a)) <=> Has(toPhone, AskArt(n, a))
<1> DEFINE row == SetToSeq({NowPlaying(n) : n \in N})
<1>1. row \in Seq(Request) /\ \A x : Has(row, x) <=> \E n \in N : x = NowPlaying(n)
  BY RowTyped
<1>2. ASSUME NEW n, NEW a PROVE ~Has(row, AskArt(n, a))
  BY <1>1 DEF AskArt, NowPlaying
<1>. QED BY <1>1, <1>2, RequestsSame

LEMMA OneAsksNoArt ==
    ASSUME NEW r \in Request, r.kind # "art", Sends(<<r>>), PhonePlayersTypeOK
    PROVE  \A n, a : Has(toPhone', AskArt(n, a)) <=> Has(toPhone, AskArt(n, a))
<1>1. <<r>> \in Seq(Request)
  OBVIOUS
<1>2. ASSUME NEW n, NEW a PROVE ~Has(<<r>>, AskArt(n, a))
  BY DEF Has, AskArt
<1>. QED BY <1>1, <1>2, RequestsSame

LEMMA ArtAsks ==
    ASSUME PhonePlayersTypeOK, PhonePlayersTypeOK', ArtInv, Ticks \/ Controls \/ AsksSoon
    PROVE  ArtInv'
<1>0. DOMAIN active \subseteq Name /\ soon \subseteq Name /\ \A n \in DOMAIN active : active[n] \in Shows
  BY DEF PhonePlayersTypeOK
<1>1. /\ UNCHANGED <<events, requested, fetching, spoilt>>
      /\ \A n, a : Has(toPhone', AskArt(n, a)) <=> Has(toPhone, AskArt(n, a))
      /\ \A n \in DOMAIN active : n \in DOMAIN active' /\ active'[n].art = active[n].art
  <2>1. CASE Ticks
    BY <1>0, <2>1, RowAsksNoArt DEF Ticks
  <2>2. CASE Controls
    <3>1. PICK m \in DOMAIN active, k \in {"Play", "Pause", "PlayPause"}, b \in BOOLEAN : Uses(m, k, b)
      BY <2>2, UsedIs DEF Controls
    <3>2. [kind |-> k, name |-> m, art |-> None] \in Request
      BY <1>0, RequestsTyped
    <3>3. [kind |-> k, name |-> m, art |-> None].kind # "art"
      OBVIOUS
    <3>4. \A n \in DOMAIN active : n \in DOMAIN active' /\ active'[n].art = active[n].art
      BY <1>0, <3>1 DEF Uses, Shows
    <3>. QED BY <3>1, <3>2, <3>3, <3>4, OneAsksNoArt DEF Uses
  <2>3. CASE AsksSoon
    <3>1. PICK m \in soon : Sends(<<NowPlaying(m)>>)
      BY <2>3 DEF AsksSoon
    <3>2. NowPlaying(m) \in Request /\ NowPlaying(m).kind # "art"
      BY <1>0, RequestsTyped DEF NowPlaying
    <3>. QED BY <2>3, <3>1, <3>2, OneAsksNoArt DEF AsksSoon
  <2>. QED BY <2>1, <2>2, <2>3
<1>. QED BY <1>1, ArtSame DEF ArtInv

LEMMA ArtListed ==
    ASSUME PhonePlayersTypeOK, PhonePlayersTypeOK', ArtInv, TakesList
    PROVE  ArtInv'
<1> DEFINE names == Head(events).names
<1>1. /\ names \subseteq Name /\ events # <<>> /\ events' = Tail(events)
      /\ Head(events).kind = "list"
  BY NextTyped DEF TakesList
<1>2. /\ Sends(SetToSeq({NowPlaying(n) : n \in names})) /\ UNCHANGED fetching
      /\ active' = [n \in DOMAIN active \cap names |-> active[n]]
      /\ requested' = [n \in Name |-> IF n \in names THEN requested[n] ELSE None]
      /\ spoilt' = spoilt \cap names
  BY DEF TakesList
<1>3. /\ \A n, a : Has(toPhone', AskArt(n, a)) <=> Has(toPhone, AskArt(n, a))
      /\ \A n, a : Has(events', Ready(n, a)) <=> Has(events, Ready(n, a))
  BY <1>1, <1>2, RowAsksNoArt, EventsSame
<1> SUFFICES ASSUME NEW n \in Name, n \notin spoilt' PROVE ArtOk(n)'
  BY DEF ArtInv
<1>4. CASE n \notin names
  BY <1>2, <1>4 DEF ArtOk
<1>5. CASE n \in names
  <2>1. ArtOk(n) /\ requested'[n] = requested[n]
        /\ (n \in DOMAIN active => n \in DOMAIN active' /\ active'[n].art = active[n].art)
    BY <1>2, <1>5 DEF ArtInv
  <2>. QED BY <1>2, <1>3, <2>1, ArtSame
<1>. QED BY <1>4, <1>5

LEMMA ArtInformed ==
    ASSUME PhonePlayersTypeOK, PhonePlayersTypeOK', ArtInv, TakesInfo
    PROVE  ArtInv'
<1> DEFINE e == Head(events)
           m == e.name
<1>1. /\ m \in Name /\ e.art \in Art \cup {None} /\ events # <<>> /\ events' = Tail(events)
      /\ e.kind = "info"
  BY NextTyped DEF TakesInfo
<1>2. \A n, a : Has(events', Ready(n, a)) <=> Has(events, Ready(n, a))
  BY <1>1, EventsSame
<1>3. \A n \in DOMAIN active : n \in DOMAIN active' /\ active'[n].art = active[n].art
  <2>1. CASE m \in DOMAIN active
    BY <2>1 DEF TakesInfo, Updated
  <2>2. CASE m \notin DOMAIN active
    BY <2>2 DEF TakesInfo
  <2>. QED BY <2>1, <2>2
<1>4. AsksForArt(m, e.art) /\ UNCHANGED <<fetching, link>>
  BY DEF TakesInfo
<1>5. CASE e.art \in {None, requested[m]}
  <2>1. UNCHANGED <<requested, toPhone, spoilt>>
    BY <1>4, <1>5 DEF AsksForArt
  <2>. QED BY <1>2, <1>3, <1>4, <2>1, ArtSame DEF ArtInv
<1>6. CASE e.art \notin {None, requested[m]}
  <2>1. /\ requested' = [requested EXCEPT ![m] = e.art]
        /\ Sends(<<AskArt(m, e.art)>>)
        /\ spoilt' = IF link = "down" \/ Outstanding(m) THEN spoilt \cup {m} ELSE spoilt
    BY <1>4, <1>6 DEF AsksForArt, AskArt
  <2>2. e.art \in Art /\ requested \in [Name -> Art \cup {None}] /\ link \in {"up", "dead", "down"}
    BY <1>1, <1>6 DEF PhonePlayersTypeOK
  <2>3. <<AskArt(m, e.art)>> \in Seq(Request)
    <3>1. AskArt(m, e.art) \in Request
      BY <1>1, <2>2, RequestsTyped DEF AskArt
    <3>. QED BY <3>1
  <2>4. \A x : Has(<<AskArt(m, e.art)>>, x) <=> x = AskArt(m, e.art)
    BY DEF Has
  <2>5. link # "down" =>
           \A x : Has(toPhone', x) <=> Has(toPhone, x) \/ x = AskArt(m, e.art)
    BY <2>1, <2>2, <2>3, <2>4, SentStays
  <2>6. link = "down" => toPhone' = toPhone
    BY <2>1 DEF Sends
  <2> SUFFICES ASSUME NEW n \in Name, n \notin spoilt' PROVE ArtOk(n)'
    BY DEF ArtInv
  <2>7. CASE n # m
    <3>1. ArtOk(n) /\ requested'[n] = requested[n]
      BY <2>1, <2>2, <2>7 DEF ArtInv
    <3>2. \A a : AskArt(n, a) # AskArt(m, e.art)
      BY <2>7 DEF AskArt
    <3>3. \A a \in Art : Has(toPhone', AskArt(n, a)) <=> Has(toPhone, AskArt(n, a))
      BY <2>5, <2>6, <3>2
    <3>. QED BY <1>2, <1>3, <1>4, <3>1, <3>3, ArtSame
  <2>8. CASE n = m
    <3>1. link # "down" /\ ~Outstanding(n)
      BY <2>1, <2>8
    <3>2. \A a \in Art : ~Under(n, a)
      BY <3>1, OutstandingIs
    <3>3. \A a \in Art : AskArt(n, a) = AskArt(m, e.art) <=> a = e.art
      BY <2>8 DEF AskArt
    <3>4. \A a \in Art : Under(n, a)' <=> a = e.art
      BY <1>2, <1>4, <2>5, <3>1, <3>2, <3>3 DEF Under
    <3>5. requested'[n] = e.art
      BY <2>1, <2>2, <2>8
    <3>6. Outstanding(n)'
      BY <2>2, <3>4, OutstandingIs
    <3>. QED BY <3>4, <3>5, <3>6 DEF ArtOk
  <2>. QED BY <2>7, <2>8
<1>. QED BY <1>5, <1>6

LEMMA ArtTaken ==
    ASSUME PhonePlayersTypeOK, PhonePlayersTypeOK', ArtInv, TakesArt
    PROVE  ArtInv'
<1> DEFINE e == Head(events)
           m == e.name
<1>1. /\ m \in Name /\ e.art \in Art /\ events # <<>> /\ events' = Tail(events)
      /\ e = Ready(m, e.art) /\ events \in Seq(Event)
  BY NextTyped, EventIs DEF TakesArt, Ready, PhonePlayersTypeOK
<1>2. UNCHANGED <<toPhone, requested, fetching>>
  BY DEF TakesArt
<1>3. \A x : Has(events, x) <=> x = e \/ Has(events', x)
  BY <1>1, HasTaken
<1>4. IF m \in DOMAIN active
      THEN active' = [active EXCEPT ![m].art = [local |-> TRUE, art |-> e.art]] /\ spoilt' = spoilt
      ELSE active' = active /\ spoilt' = spoilt \cup {m}
  BY DEF TakesArt
<1> SUFFICES ASSUME NEW n \in Name, n \notin spoilt' PROVE ArtOk(n)'
  BY DEF ArtInv
<1>5. ArtOk(n)
  BY <1>4 DEF ArtInv
<1>6. CASE n # m
  <2>1. \A a : Ready(n, a) # e
    BY <1>1, <1>6 DEF Ready
  <2>2. \A a : Has(events', Ready(n, a)) <=> Has(events, Ready(n, a))
    BY <1>3, <2>1
  <2>3. n \in DOMAIN active => n \in DOMAIN active' /\ active'[n].art = active[n].art
    BY <1>4, <1>6
  <2>. QED BY <1>2, <1>5, <2>2, <2>3, ArtSame
<1>7. CASE n = m
  <2>1. n \in DOMAIN active /\ active[n] \in Shows
    BY <1>4, <1>7 DEF PhonePlayersTypeOK
  <2>2. active'[n].art = [local |-> TRUE, art |-> e.art] /\ n \in DOMAIN active'
    BY <1>4, <1>7, <2>1 DEF Shows
  <2>3. e = Ready(n, e.art) /\ \A a : Ready(n, a) = e => a = e.art
    BY <1>1, <1>7 DEF Ready
  <2>4. \A a \in Art : Under(n, a)' => Under(n, a)
    BY <1>2, <1>3 DEF Under
  <2>5. \A a \in Art : Under(n, a) => Under(n, a)' \/ ShowsArt(n, a)'
    BY <1>2, <1>3, <2>2, <2>3 DEF Under, ShowsArt
  <2>6. Under(n, e.art)
    BY <1>3, <2>3 DEF Under
  <2>7. requested'[n] = requested[n] /\ \E a \in Art : Under(n, a)
    BY <1>1, <1>2, <2>6
  <2>. QED BY <1>5, <2>2, <2>4, <2>5, <2>7, ArtStays
<1>. QED BY <1>6, <1>7

LEMMA ArtStay == PhonePlayersTypeOK /\ ArtInv /\ UNCHANGED playersVars => ArtInv'
BY DEF ArtInv, ArtOk, Under, ShowsArt, Outstanding, playersVars

LEMMA ArtStep ==
    ASSUME PhonePlayersTypeOK, PhonePlayersTypeOK', ArtInv, PhonePlayersNext
    PROVE  ArtInv'
<1>1. CASE Breaks
  BY <1>1 DEF Breaks, ArtInv, ArtOk, Under, ShowsArt, Outstanding
<1>2. CASE Disconnects \/ Connects \/ TakesDisconnected
  BY <1>2 DEF Disconnects, Connects, TakesDisconnected, ArtInv
<1>. QED
  BY <1>1, <1>2, ArtPhone, ArtAnswered, ArtFetched, ArtListed, ArtInformed, ArtTaken, ArtAsks
     DEF PhonePlayersNext, PhoneAnswers, Controls

LEMMA ArtInit == PhonePlayersInit => ArtInv
BY DEF PhonePlayersInit, ArtInv, ArtOk

LEMMA ArtMeans == PhonePlayersTypeOK /\ ArtInv => ArtIsShownOrComing
BY DEF PhonePlayersTypeOK, ArtInv, ArtOk, ShowsArt, ArtIsShownOrComing

-----------------------------------------------------------------------------

ProxyInv == PhonePlayersTypeOK /\ GoInv /\ AgreeInv /\ ArtInv

LEMMA ProxiesAlways == PhonePlayersSpec => []ProxyInv
<1>1. PhonePlayersInit => ProxyInv
  BY PlayersTypeInit, NewsInit, ArtInit DEF ProxyInv
<1>2. ProxyInv /\ [PhonePlayersNext]_playersVars => ProxyInv'
  BY PlayersTypeStep, NewsStay, NewsStep, ArtStay, ArtStep DEF ProxyInv
<1>. QED BY <1>1, <1>2, PTL DEF PhonePlayersSpec

\* Whatever phone, players and art, and however many requests, downloads and
\* events are on their way: the proxies of closed players and of a phone that
\* has disconnected go (Mpris::List and Disconnected in expose_phone_mpris).
THEOREM ProxiesGo == PhonePlayersSpec => []PhonePlayersInv
<1>1. ProxyInv => PhonePlayersInv
  BY NewsMeans DEF ProxyInv, PhonePlayersInv
<1>. QED BY <1>1, ProxiesAlways, PTL

\* A control's guess that the phone refused does not stay on a proxy
\* (send_request asks 200 ms after it).
THEOREM ProxiesAgree == PhonePlayersSpec => []ProxyAgrees
<1>1. ProxyInv => ProxyAgrees
  BY NewsMeans DEF ProxyInv
<1>. QED BY <1>1, ProxiesAlways, PTL

\* Art asked for once, and neither lost nor crossed, is on its way or shown
\* (requested_art and Mpris::TransferringArt in expose_phone_mpris).
THEOREM ArtIsShown == PhonePlayersSpec => []ArtIsShownOrComing
<1>1. ProxyInv => ArtIsShownOrComing
  BY ArtMeans DEF ProxyInv
<1>. QED BY <1>1, ProxiesAlways, PTL
==============================================================================
