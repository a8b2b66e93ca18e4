---------------------------- MODULE EventsProofs ----------------------------
(***************************************************************************)
(* Theorems about PhoneEvents, for any players and notifications and for a *)
(* history of any length, and about SmsWindow, for any conversations and   *)
(* any number of messages.                                                 *)
(***************************************************************************)
EXTENDS PhoneEvents, SmsWindow, FiniteSetTheorems, WellFoundedInduction, TLAPS

-----------------------------------------------------------------------------
(***************************************************************************)
(* The players.  What is known is watched whether it runs or not.          *)
(***************************************************************************)

PlayersInv ==
    /\ PlayersTypeOK
    /\ NothingStartsUnasked
    /\ watched = known
    /\ \A p \in known \ missed : p \in watchers.looking \cup watchers.on

\* The types, one set at a time.
LEMMA TypeParts ==
    ASSUME PlayersTypeOK
    PROVE  /\ kept \subseteq Player /\ known \subseteq Player /\ watched \subseteq Player
           /\ owed \subseteq Player /\ missed \subseteq Player
           /\ watchers = [looking |-> watchers.looking, on |-> watchers.on]
           /\ watchers.looking \subseteq Player /\ watchers.on \subseteq Player
BY DEF PlayersTypeOK

LEMMA TypesStay ==
    ASSUME PlayersTypeOK, UNCHANGED <<callVars, monitor, known, watched>>,
           player' \in [Player -> {"gone", "paused", "playing"}],
           watchers' \in [looking : SUBSET Player, on : SUBSET Player],
           missed' \subseteq Player
    PROVE  PlayersTypeOK'
<1>1. telephony' \in {"idle", "pause", "resume", "show"} /\ signal' \in {<<>>, <<TRUE>>, <<FALSE>>}
  BY DEF callVars, PlayersTypeOK
<1>2. monitor' \in [doing : Doing, todo : SUBSET Player]
  BY DEF PlayersTypeOK
<1>3. {kept, known, watched, owed, missed}' \subseteq SUBSET Player
  BY DEF callVars, PlayersTypeOK
<1>. QED BY <1>1, <1>2, <1>3 DEF PlayersTypeOK

LEMMA PlayersHold == PlayersInv => PlayersTypeOK /\ NothingStartsUnasked /\ KnownIsWatched
BY DEF PlayersInv, KnownIsWatched

LEMMA PlayersStart == PlayersInit => PlayersInv
BY DEF PlayersInit, PlayersInv, PlayersTypeOK, NothingStartsUnasked, Doing

LEMMA PlayersStay ==
    ASSUME PlayersInv, UNCHANGED playerVars
    PROVE  PlayersInv'
<1>1. PlayersTypeOK'
  BY DEF playerVars, callVars, watchVars, PlayersInv, PlayersTypeOK
<1>2. NothingStartsUnasked'
  BY DEF playerVars, callVars, PlayersInv, NothingStartsUnasked
<1>. QED BY <1>1, <1>2 DEF playerVars, watchVars, PlayersInv

LEMMA PlayersStepTelephony ==
    ASSUME PlayersInv,
           CallEnds \/ (\E missedCall \in BOOLEAN : CallEvent(missedCall)) \/ Signals \/ CallShown
    PROVE  PlayersInv'
<1>1. telephony' \in {"idle", "pause", "resume", "show"} /\ signal' \in {<<>>, <<TRUE>>, <<FALSE>>}
  BY DEF CallEnds, CallEvent, Signals, CallShown, PlayersInv, PlayersTypeOK
<1>2. UNCHANGED <<player, kept, owed, monitor, watchVars>>
  BY DEF CallEnds, CallEvent, Signals, CallShown
<1>. QED BY <1>1, <1>2 DEF watchVars, PlayersInv, PlayersTypeOK, NothingStartsUnasked

LEMMA PlayersStepOwn ==
    ASSUME PlayersInv, PlayerStep
    PROVE  PlayersInv'
<1>1. ASSUME NEW p \in Player, Starts(p) PROVE PlayersInv'
  BY <1>1 DEF Starts, callVars, watchVars, PlayersInv, PlayersTypeOK, NothingStartsUnasked
<1>2. ASSUME NEW p \in Player, Exits(p) PROVE PlayersInv'
  <2>1. watchers' = [looking |-> watchers.looking, on |-> watchers.on \ {p}]
    BY <1>2 DEF Exits, PlayersInv, PlayersTypeOK
  <2>2. PlayersTypeOK'
    <3>1. watchers' \in [looking : SUBSET Player, on : SUBSET Player]
      BY <2>1, TypeParts DEF PlayersInv
    <3>2. missed' \subseteq Player
      BY <1>2, <2>1, TypeParts DEF Exits, PlayersInv
    <3>3. player' \in [Player -> {"gone", "paused", "playing"}]
      BY <1>2 DEF Exits, PlayersInv, PlayersTypeOK
    <3>4. UNCHANGED <<callVars, monitor, known, watched>>
      BY <1>2 DEF Exits
    <3>. QED BY <3>1, <3>2, <3>3, <3>4, TypesStay DEF PlayersInv
  <2>3. NothingStartsUnasked'
    BY <1>2 DEF Exits, callVars, PlayersInv, NothingStartsUnasked
  <2>4. watched' = known' /\ \A q \in known' \ missed' : q \in watchers'.looking \cup watchers'.on
    BY <1>2, <2>1 DEF Exits, PlayersInv
  <2>. QED BY <2>2, <2>3, <2>4 DEF PlayersInv
<1>3. ASSUME NEW p \in Player, Controlled(p) PROVE PlayersInv'
  BY <1>3 DEF Controlled, callVars, watchVars, PlayersInv, PlayersTypeOK, NothingStartsUnasked
<1>4. ASSUME NEW p \in Player, Attaches(p) PROVE PlayersInv'
  <2>1. \/ /\ watchers' = [looking |-> watchers.looking \ {p}, on |-> watchers.on \cup {p}]
           /\ missed' = missed
        \/ /\ watchers' = [looking |-> watchers.looking \ {p}, on |-> watchers.on]
           /\ missed' = IF p \in known \ watchers.on THEN missed \cup {p} ELSE missed
    BY <1>4 DEF Attaches, PlayersInv, PlayersTypeOK
  <2>2. PlayersTypeOK'
    <3>1. watchers' \in [looking : SUBSET Player, on : SUBSET Player]
      BY <2>1, TypeParts DEF PlayersInv
    <3>2. missed' \subseteq Player
      BY <1>4, <2>1, TypeParts DEF Attaches, PlayersInv
    <3>3. player' \in [Player -> {"gone", "paused", "playing"}]
      BY <1>4 DEF Attaches, PlayersInv, PlayersTypeOK
    <3>4. UNCHANGED <<callVars, monitor, known, watched>>
      BY <1>4 DEF Attaches
    <3>. QED BY <3>1, <3>2, <3>3, <3>4, TypesStay DEF PlayersInv
  <2>3. NothingStartsUnasked'
    BY <1>4 DEF Attaches, callVars, PlayersInv, NothingStartsUnasked
  <2>4. watched' = known' /\ \A q \in known' \ missed' : q \in watchers'.looking \cup watchers'.on
    BY <1>4, <2>1 DEF Attaches, PlayersInv
  <2>. QED BY <2>2, <2>3, <2>4 DEF PlayersInv
<1>5. ASSUME NEW p \in Player, WatcherFails(p) PROVE PlayersInv'
  <2>1. watchers' = [looking |-> watchers.looking, on |-> watchers.on \ {p}]
    BY <1>5 DEF WatcherFails, PlayersInv, PlayersTypeOK
  <2>2. PlayersTypeOK'
    <3>1. watchers' \in [looking : SUBSET Player, on : SUBSET Player]
      BY <2>1, TypeParts DEF PlayersInv
    <3>2. missed' \subseteq Player
      BY <1>5, <2>1, TypeParts DEF WatcherFails, PlayersInv
    <3>3. player' \in [Player -> {"gone", "paused", "playing"}]
      BY <1>5 DEF WatcherFails, PlayersInv, PlayersTypeOK
    <3>4. UNCHANGED <<callVars, monitor, known, watched>>
      BY <1>5 DEF WatcherFails
    <3>. QED BY <3>1, <3>2, <3>3, <3>4, TypesStay DEF PlayersInv
  <2>3. NothingStartsUnasked'
    BY <1>5 DEF WatcherFails, callVars, PlayersInv, NothingStartsUnasked
  <2>4. watched' = known' /\ \A q \in known' \ missed' : q \in watchers'.looking \cup watchers'.on
    BY <1>5, <2>1 DEF WatcherFails, PlayersInv
  <2>. QED BY <2>2, <2>3, <2>4 DEF PlayersInv
<1>. QED BY <1>1, <1>2, <1>3, <1>4, <1>5 DEF PlayerStep

LEMMA PlayersStepSupervisor ==
    ASSUME PlayersInv, Supervisor
    PROVE  PlayersInv'
<1>0. /\ monitor \in [doing : Doing, todo : SUBSET Player]
      /\ kept \subseteq Player /\ owed \subseteq Player /\ NothingStartsUnasked
  BY DEF PlayersInv, PlayersTypeOK
<1>1. CASE SetsChannel
  BY <1>1 DEF SetsChannel, callVars, watchVars, PlayersInv, PlayersTypeOK, NothingStartsUnasked, Doing
<1>2. CASE Polls
  <2>1. UNCHANGED <<player, telephony, owed, watchVars>>
    BY <1>2 DEF Polls
  <2>2. kept \subseteq owed
    BY <1>0, <1>2 DEF Polls, NothingStartsUnasked
  <2>3. Running \subseteq Player
    BY DEF Running
  <2>4. /\ monitor' \in [doing : Doing, todo : SUBSET Player]
        /\ signal' \in {<<>>, <<TRUE>>, <<FALSE>>}
        /\ kept' \subseteq Player
        /\ NothingStartsUnasked'
    <3>1. CASE signal = <<>> /\ monitor' = [doing |-> "listing", todo |-> {}] /\ UNCHANGED <<kept, signal>>
      BY <1>0, <2>1, <2>2, <3>1 DEF Doing, NothingStartsUnasked
    <3>2. CASE (\E found \in {Running, {}} : monitor' = [doing |-> "pausing", todo |-> found])
               /\ kept' = {} /\ signal' = <<>>
      BY <2>1, <2>3, <3>2 DEF Doing, NothingStartsUnasked
    <3>3. CASE monitor' = [doing |-> "resuming", todo |-> kept] /\ kept' = kept /\ signal' = <<>>
      BY <1>0, <2>1, <2>2, <3>3 DEF Doing, NothingStartsUnasked
    <3>. QED BY <1>2, <3>1, <3>2, <3>3 DEF Polls
  <2>5. PlayersTypeOK'
    <3>1. /\ known' \subseteq Player /\ watched' \subseteq Player /\ missed' \subseteq Player
          /\ watchers' = watchers /\ owed' \subseteq Player
      BY <2>1, TypeParts DEF watchVars, PlayersInv
    <3>2. {kept, known, watched, owed, missed}' \subseteq SUBSET Player
      BY <2>4, <3>1
    <3>3. /\ player' \in [Player -> {"gone", "paused", "playing"}]
          /\ telephony' \in {"idle", "pause", "resume", "show"}
          /\ watchers' \in [looking : SUBSET Player, on : SUBSET Player]
      BY <2>1, <3>1 DEF PlayersInv, PlayersTypeOK
    <3>. QED BY <2>4, <3>2, <3>3 DEF PlayersTypeOK
  <2>. QED BY <2>1, <2>4, <2>5 DEF watchVars, PlayersInv
<1>3. CASE Seen
  <2>1. UNCHANGED <<player, telephony, signal, owed, watchVars>>
    BY <1>3 DEF Seen
  <2>2. monitor' = [doing |-> "listing", todo |-> {}] /\ kept' \subseteq kept /\ kept' \subseteq owed
    BY <1>0, <1>3 DEF Seen, NothingStartsUnasked
  <2>. QED BY <1>0, <2>1, <2>2 DEF watchVars, Doing, PlayersInv, PlayersTypeOK, NothingStartsUnasked
<1>4. CASE Lists
  <2>1. UNCHANGED <<player, callVars>> /\ monitor' = [doing |-> "polling", todo |-> {}] /\ monitor.doing = "listing"
    BY <1>4 DEF Lists
  <2>2. known' \subseteq Player /\ watched' = known' /\ missed' = missed \cap known'
    BY <1>4 DEF Lists, Running, PlayersInv
  <2>3. watchers' = [looking |-> watchers.looking \cup (known' \ known), on |-> watchers.on]
    BY <1>4, <2>2 DEF Lists, PlayersInv, PlayersTypeOK
  <2>4. NothingStartsUnasked'
    BY <1>0, <2>1 DEF NothingStartsUnasked, callVars
  <2>5. PlayersTypeOK'
    BY <2>1, <2>2, <2>3 DEF PlayersInv, PlayersTypeOK, Doing, callVars
  <2>6. \A p \in known' \ missed' : p \in watchers'.looking \cup watchers'.on
    BY <2>2, <2>3 DEF PlayersInv
  <2>. QED BY <2>2, <2>4, <2>5, <2>6 DEF PlayersInv
<1>5. ASSUME NEW p \in Player, Pauses(p) PROVE PlayersInv'
  <2>1. monitor' = [doing |-> "pausing", todo |-> monitor.todo \ {p}] /\ monitor.doing = "pausing"
    BY <1>0, <1>5 DEF Pauses
  <2>2. UNCHANGED <<telephony, signal, watchVars>>
    BY <1>5 DEF Pauses
  <2>3. player' \in [Player -> {"gone", "paused", "playing"}]
    BY <1>5 DEF Pauses, PlayersInv, PlayersTypeOK
  <2>4. \/ kept' = kept /\ owed' = owed
        \/ kept' = kept \cup {p} /\ owed' = owed \cup {p}
    BY <1>5 DEF Pauses
  <2>5. NothingStartsUnasked' /\ kept' \subseteq Player /\ owed' \subseteq Player
    BY <1>0, <2>1, <2>4 DEF NothingStartsUnasked
  <2>. QED BY <1>0, <2>1, <2>2, <2>3, <2>5 DEF watchVars, Doing, PlayersInv, PlayersTypeOK
<1>6. ASSUME NEW p \in Player, Resumes(p) PROVE PlayersInv'
  <2>1. monitor' = [doing |-> "resuming", todo |-> monitor.todo \ {p}] /\ monitor.doing = "resuming"
    BY <1>0, <1>6 DEF Resumes
  <2>2. UNCHANGED <<telephony, signal, kept, watchVars>> /\ owed' = owed \ {p}
    BY <1>6 DEF Resumes
  <2>3. player' \in [Player -> {"gone", "paused", "playing"}]
    BY <1>6 DEF Resumes, PlayersInv, PlayersTypeOK
  <2>4. NothingStartsUnasked'
    BY <1>0, <2>1, <2>2 DEF NothingStartsUnasked
  <2>. QED BY <1>0, <2>1, <2>2, <2>3, <2>4 DEF watchVars, Doing, PlayersInv, PlayersTypeOK
<1>. QED BY <1>1, <1>2, <1>3, <1>4, <1>5, <1>6 DEF Supervisor

-----------------------------------------------------------------------------
(***************************************************************************)
(* The history without one of its entries, and with another one behind.    *)
(***************************************************************************)

\* Where the entry at j of a sequence without its w-th was before.
Before(w, j) == IF j < w THEN j ELSE j + 1

\* p is q without its w-th entry, or q where it has none.
Skips(q, p, w) ==
    /\ Len(q) \in Nat /\ DOMAIN q = 1 .. Len(q)
    /\ w \in 1 .. (Len(q) + 1)
    /\ Len(p) = IF w = Len(q) + 1 THEN Len(q) ELSE Len(q) - 1
    /\ DOMAIN p = 1 .. Len(p)
    /\ \A j \in DOMAIN p : p[j] = q[Before(w, j)]

LEMMA RemoveSkips ==
    ASSUME NEW T, NEW q \in Seq(T), NEW w \in DOMAIN q
    PROVE  RemoveAt(q, w) \in Seq(T) /\ Skips(q, RemoveAt(q, w), w)
<1> DEFINE a == SubSeq(q, 1, w - 1)
           b == SubSeq(q, w + 1, Len(q))
<1>1. Len(q) \in Nat /\ DOMAIN q = 1 .. Len(q) /\ w \in Nat /\ w >= 1 /\ w <= Len(q)
  OBVIOUS
<1>2. a \in Seq(T) /\ Len(a) = w - 1
  BY <1>1
<1>3. b \in Seq(T) /\ Len(b) = Len(q) - w
  BY <1>1
<1>4. \A i \in 1 .. (w - 1) : a[i] = q[i]
  BY <1>1
<1>5. \A i \in 1 .. (Len(q) - w) : b[i] = q[w + i]
  BY <1>1
<1>. HIDE DEF a, b
<1>6. a \o b \in Seq(T) /\ Len(a \o b) = Len(q) - 1 /\ DOMAIN (a \o b) = 1 .. (Len(q) - 1)
  <2>1. a \o b \in Seq(T) /\ Len(a \o b) = Len(a) + Len(b) /\ DOMAIN (a \o b) = 1 .. (Len(a) + Len(b))
    BY <1>2, <1>3
  <2>2. Len(a) + Len(b) = Len(q) - 1
    BY <1>1, <1>2, <1>3
  <2>. QED BY <2>1, <2>2
<1>7. ASSUME NEW j \in 1 .. (Len(q) - 1) PROVE (a \o b)[j] = q[Before(w, j)]
  <2>1. CASE j < w
    <3>1. (a \o b)[j] = a[j]
      BY <1>1, <1>2, <1>3, <2>1
    <3>. QED BY <1>1, <1>4, <2>1, <3>1 DEF Before
  <2>2. CASE ~(j < w)
    <3>1. (a \o b)[j] = b[j - (w - 1)]
      BY <1>1, <1>2, <1>3, <2>2
    <3>2. j - (w - 1) \in 1 .. (Len(q) - w)
      BY <1>1, <2>2
    <3>3. b[j - (w - 1)] = q[w + (j - (w - 1))] /\ w + (j - (w - 1)) = j + 1
      BY <1>1, <1>5, <3>2
    <3>. QED BY <2>2, <3>1, <3>3 DEF Before
  <2>. QED BY <2>1, <2>2
<1>8. RemoveAt(q, w) = a \o b
  BY DEF RemoveAt, a, b
<1>9. w \in 1 .. (Len(q) + 1) /\ w # Len(q) + 1
  BY <1>1
<1>10. \A p : p = a \o b => Skips(q, p, w)
  BY <1>1, <1>6, <1>7, <1>9 DEF Skips
<1>. QED BY <1>6, <1>8, <1>10

LEMMA TailSkips ==
    ASSUME NEW T, NEW q \in Seq(T), q # <<>>
    PROVE  Tail(q) \in Seq(T) /\ Skips(q, Tail(q), 1)
<1>1. Len(q) \in Nat /\ DOMAIN q = 1 .. Len(q) /\ Len(q) # 0
  OBVIOUS
<1>2. Tail(q) \in Seq(T) /\ Len(Tail(q)) = Len(q) - 1 /\ DOMAIN Tail(q) = 1 .. (Len(q) - 1)
  BY <1>1
<1>3. \A j \in 1 .. (Len(q) - 1) : Tail(q)[j] = q[j + 1]
  BY <1>1
<1>4. 1 \in 1 .. (Len(q) + 1) /\ 1 # Len(q) + 1
  BY <1>1
<1>5. \A j \in 1 .. (Len(q) - 1) : Before(1, j) = j + 1
  BY DEF Before
<1>6. \A p : p = Tail(q) => Skips(q, p, 1)
  BY <1>1, <1>2, <1>3, <1>4, <1>5 DEF Skips
<1>. QED BY <1>2, <1>6

LEMMA AllSkips ==
    ASSUME NEW T, NEW q \in Seq(T)
    PROVE  Skips(q, q, Len(q) + 1)
BY DEF Skips, Before

\* The entries that stay, in their order; and none but the one skipped is lost.
LEMMA SkipsIs ==
    ASSUME NEW q, NEW p, NEW w, Skips(q, p, w)
    PROVE  /\ \A j \in DOMAIN p : Before(w, j) \in DOMAIN q /\ Before(w, j) # w /\ p[j] = q[Before(w, j)]
           /\ \A i, j \in DOMAIN p : i < j => Before(w, i) < Before(w, j)
           /\ \A i, j \in DOMAIN p : Before(w, i) = Before(w, j) => i = j
           /\ \A i \in DOMAIN q : i # w => \E j \in DOMAIN p : Before(w, j) = i
<1>0. PICK m \in Nat, n \in Nat :
         /\ m = Len(q) /\ DOMAIN q = 1 .. m
         /\ n = Len(p) /\ DOMAIN p = 1 .. n
         /\ w \in 1 .. (m + 1)
         /\ (w = m + 1 /\ n = m) \/ (w # m + 1 /\ n = m - 1)
  <2>1. Len(q) \in Nat /\ w \in 1 .. (Len(q) + 1)
    BY DEF Skips
  <2>2. Len(p) = IF w = Len(q) + 1 THEN Len(q) ELSE Len(q) - 1
    BY DEF Skips
  <2>3. Len(p) \in Nat
    BY <2>1, <2>2
  <2>. QED BY <2>1, <2>2, <2>3 DEF Skips
<1>b. \A j \in 1 .. n : (j < w => Before(w, j) = j) /\ (~(j < w) => Before(w, j) = j + 1)
  BY DEF Before
<1>1. \A j \in 1 .. n : Before(w, j) \in 1 .. m /\ Before(w, j) # w
  BY <1>0, <1>b
<1>2. \A i, j \in 1 .. n : i < j => Before(w, i) < Before(w, j)
  BY <1>0, <1>b
<1>3. \A i, j \in 1 .. n : Before(w, i) = Before(w, j) => i = j
  BY <1>0, <1>b
<1>4. ASSUME NEW i \in 1 .. m, i # w PROVE \E j \in 1 .. n : Before(w, j) = i
  <2>1. CASE i < w
    <3>1. i \in 1 .. n /\ Before(w, i) = i
      BY <1>0, <1>b, <2>1
    <3>. QED BY <3>1
  <2>2. CASE i > w
    <3>1. i - 1 \in 1 .. n /\ Before(w, i - 1) = i
      BY <1>0, <1>b, <2>2
    <3>. QED BY <3>1
  <2>. QED BY <1>0, <1>4, <2>1, <2>2
<1>5. \A j \in DOMAIN p : p[j] = q[Before(w, j)]
  BY DEF Skips
<1>. QED BY <1>0, <1>1, <1>2, <1>3, <1>4, <1>5

-----------------------------------------------------------------------------
(***************************************************************************)
(* The notifications.                                                      *)
(***************************************************************************)

\* The history says what was last sent of each notification it tracks.
LastIsSeen == \A i \in DOMAIN seen : last[seen[i].note] = seen[i].content

\* What is behind an entry was sent since.
LaterIsSince == \A i, j \in DOMAIN seen : i < j => seen[j].note \in since[seen[i].note]

\* What is no longer tracked has made way for as many others as are.
ForgottenIsOld ==
    \A n \in Note : last[n] # NoContent => Tracked(n) \/ Cardinality(since[n]) >= MaxTracked

NoteInv ==
    /\ NoteTypeOK
    /\ \A n \in Note : IsFiniteSet(since[n])
    /\ LastIsSeen
    /\ LaterIsSince
    /\ ForgottenIsOld

LEMMA EntryIs ==
    ASSUME NEW e \in Entry
    PROVE  e.note \in Note /\ e.content \in Content /\ e = [note |-> e.note, content |-> e.content]
BY DEF Entry

LEMMA SeenIs ==
    ASSUME NoteTypeOK
    PROVE  /\ seen \in Seq(Entry)
           /\ Len(seen) \in Nat /\ DOMAIN seen = 1 .. Len(seen) /\ Len(seen) <= MaxTracked
           /\ MaxTracked \in Nat /\ MaxTracked # 0
           /\ \A i \in DOMAIN seen : seen[i] \in Entry /\ seen[i].note \in Note /\ seen[i].content \in Content
           /\ \A i, j \in DOMAIN seen : seen[i].note = seen[j].note => i = j
<1>1. seen \in Seq(Entry) /\ Len(seen) <= MaxTracked
  BY DEF NoteTypeOK
<1>2. \A i, j \in DOMAIN seen : seen[i].note = seen[j].note => i = j
  BY DEF NoteTypeOK, IsInjective
<1>3. \A i \in DOMAIN seen : seen[i] \in Entry
  BY <1>1
<1>. QED BY <1>1, <1>2, <1>3, EntryIs, TrackedAssumption

\* The history p without its w-th entry, which is n's if n is tracked.
Forgets(p, n, w) ==
    /\ p \in Seq(Entry)
    /\ Skips(seen, p, w)
    /\ \A j \in DOMAIN p : p[j].note # n

LEMMA WithoutIs ==
    ASSUME NoteTypeOK, NEW n
    PROVE  \E w : /\ Forgets(Without(n), n, w)
                  /\ w \in DOMAIN seen => seen[w].note = n
                  /\ Tracked(n) => w \in DOMAIN seen
<1>1. CASE Tracked(n)
  <2>1. Where(n) \in DOMAIN seen /\ seen[Where(n)].note = n
    BY <1>1 DEF Tracked, Where
  <2>2. PICK w \in DOMAIN seen : w = Where(n)
    BY <2>1
  <2>3. Without(n) = RemoveAt(seen, w)
    BY <1>1, <2>2 DEF Without
  <2>4. Without(n) \in Seq(Entry) /\ Skips(seen, Without(n), w)
    BY <2>3, SeenIs, RemoveSkips
  <2>5. \A j \in DOMAIN Without(n) : Without(n)[j].note # n
    BY <2>1, <2>2, <2>4, SeenIs, SkipsIs
  <2>. QED BY <2>1, <2>2, <2>4, <2>5 DEF Forgets
<1>2. CASE ~Tracked(n)
  <2>1. Without(n) = seen
    BY <1>2 DEF Without
  <2>2. Skips(seen, seen, Len(seen) + 1) /\ Len(seen) + 1 \notin DOMAIN seen
    BY SeenIs, AllSkips
  <2>. QED BY <1>2, <2>1, <2>2, SeenIs DEF Forgets, Tracked
<1>. QED BY <1>1, <1>2

\* Room is made by what is sent anew, or by the first one of a full history.
LEMMA EvictedIs ==
    ASSUME NoteTypeOK, NEW n
    PROVE  \E w : /\ Forgets(Evicted(n), n, w)
                  /\ Len(Evicted(n)) < MaxTracked
                  /\ w \in DOMAIN seen =>
                        seen[w].note = n \/ (~Tracked(n) /\ w = 1 /\ Len(seen) = MaxTracked)
<1>1. CASE Tracked(n) \/ Len(seen) < MaxTracked
  <2>1. Evicted(n) = Without(n)
    BY <1>1 DEF Evicted
  <2>2. PICK w : /\ Forgets(Without(n), n, w)
                 /\ w \in DOMAIN seen => seen[w].note = n
                 /\ Tracked(n) => w \in DOMAIN seen
    BY WithoutIs
  <2>3. Len(Without(n)) < MaxTracked
    <3>1. Len(Without(n)) = IF w = Len(seen) + 1 THEN Len(seen) ELSE Len(seen) - 1
      BY <2>2 DEF Forgets, Skips
    <3>2. Tracked(n) => w # Len(seen) + 1
      BY <2>2, SeenIs
    <3>3. Len(seen) \in Nat /\ Len(seen) <= MaxTracked /\ MaxTracked \in Nat
      BY SeenIs
    <3>. QED BY <1>1, <3>1, <3>2, <3>3
  <2>. QED BY <2>1, <2>2, <2>3
<1>2. CASE ~Tracked(n) /\ ~(Len(seen) < MaxTracked)
  <2>1. Evicted(n) = Tail(seen)
    BY <1>2 DEF Evicted
  <2>2. Len(seen) = MaxTracked /\ seen # <<>> /\ seen \in Seq(Entry)
    BY <1>2, SeenIs
  <2>3. Tail(seen) \in Seq(Entry) /\ Skips(seen, Tail(seen), 1)
    BY <2>2, TailSkips
  <2>4. \A j \in DOMAIN Tail(seen) : Tail(seen)[j].note # n
    BY <1>2, <2>3, SkipsIs DEF Tracked
  <2>5. Len(Tail(seen)) < MaxTracked
    BY <2>2, SeenIs
  <2>. QED BY <1>2, <2>1, <2>2, <2>3, <2>4, <2>5 DEF Forgets
<1>. QED BY <1>1, <1>2

\* An entry that stays is one there was, behind those it was behind before.
LEMMA ForgetsIs ==
    ASSUME NoteTypeOK, NEW n, NEW p, NEW w, Forgets(p, n, w)
    PROVE  /\ \A j \in DOMAIN p : \E i \in DOMAIN seen : p[j] = seen[i]
           /\ \A j \in DOMAIN p : p[j] \in Entry /\ p[j].note \in Note /\ p[j].note # n
           /\ \A j, k \in DOMAIN p : p[j].note = p[k].note => j = k
           /\ \A j, k \in DOMAIN p : j < k =>
                 \E i, h \in DOMAIN seen : i < h /\ p[j] = seen[i] /\ p[k] = seen[h]
           /\ \A i \in DOMAIN seen : i # w => \E j \in DOMAIN p : p[j] = seen[i]
<1>1. /\ \A j \in DOMAIN p : Before(w, j) \in DOMAIN seen /\ p[j] = seen[Before(w, j)]
      /\ \A i, j \in DOMAIN p : i < j => Before(w, i) < Before(w, j)
      /\ \A i, j \in DOMAIN p : Before(w, i) = Before(w, j) => i = j
      /\ \A i \in DOMAIN seen : i # w => \E j \in DOMAIN p : Before(w, j) = i
  BY SkipsIs DEF Forgets
<1>2. \A j \in DOMAIN p : p[j] \in Entry /\ p[j].note \in Note /\ p[j].note # n
  BY <1>1, SeenIs DEF Forgets
<1>3. \A j, k \in DOMAIN p : p[j].note = p[k].note => j = k
  BY <1>1, SeenIs
<1>. QED BY <1>1, <1>2, <1>3

\* A notification is cancelled, or could not be shown.
LEMMA ForgottenStep ==
    ASSUME NoteInv, NEW n \in Note, seen' = Without(n),
           last' = [last EXCEPT ![n] = NoContent], since' = [since EXCEPT ![n] = {}],
           showing' \in {showing, NoContent}
    PROVE  NoteInv'
<1>0. NoteTypeOK /\ LastIsSeen /\ LaterIsSince /\ ForgottenIsOld
      /\ last \in [Note -> Content \cup {NoContent}] /\ since \in [Note -> SUBSET Note]
  BY DEF NoteInv, NoteTypeOK
<1>1. PICK w : /\ Forgets(seen', n, w)
               /\ w \in DOMAIN seen => seen[w].note = n
  BY <1>0, WithoutIs
<1>2. /\ \A j \in DOMAIN seen' : \E i \in DOMAIN seen : seen'[j] = seen[i]
      /\ \A j \in DOMAIN seen' : seen'[j] \in Entry /\ seen'[j].note \in Note /\ seen'[j].note # n
      /\ \A j, k \in DOMAIN seen' : seen'[j].note = seen'[k].note => j = k
      /\ \A j, k \in DOMAIN seen' : j < k =>
            \E i, h \in DOMAIN seen : i < h /\ seen'[j] = seen[i] /\ seen'[k] = seen[h]
      /\ \A i \in DOMAIN seen : i # w => \E j \in DOMAIN seen' : seen'[j] = seen[i]
  BY <1>0, <1>1, ForgetsIs
<1>3. NoteTypeOK'
  <2>1. Len(seen') <= MaxTracked
    <3>1. Len(seen') = Len(seen) \/ Len(seen') = Len(seen) - 1
      BY <1>1 DEF Forgets, Skips
    <3>2. Len(seen) \in Nat /\ Len(seen) <= MaxTracked /\ MaxTracked \in Nat
      BY <1>0, SeenIs
    <3>. QED BY <3>1, <3>2
  <2>2. IsInjective([i \in DOMAIN seen' |-> seen'[i].note])
    BY <1>2 DEF IsInjective
  <2>3. showing' \in {NoContent} \cup Entry
    BY <1>0 DEF NoteTypeOK
  <2>4. last' \in [Note -> Content \cup {NoContent}] /\ since' \in [Note -> SUBSET Note]
    BY <1>0
  <2>. QED BY <1>1, <2>1, <2>2, <2>3, <2>4 DEF NoteTypeOK, Forgets
<1>4. \A k \in Note : since'[k] \in {since[k], {}} /\ (k # n => since'[k] = since[k] /\ last'[k] = last[k])
                      /\ (k = n => last'[k] = NoContent)
  BY <1>0
<1>5. \A k \in Note : IsFiniteSet(since'[k])
  BY <1>4, FS_EmptySet DEF NoteInv
<1>6. LastIsSeen'
  BY <1>0, <1>2, <1>4 DEF LastIsSeen
<1>7. LaterIsSince'
  <2>1. ASSUME NEW j \in DOMAIN seen', NEW k \in DOMAIN seen', j < k
        PROVE  seen'[k].note \in since'[seen'[j].note]
    <3>1. PICK i \in DOMAIN seen, h \in DOMAIN seen : i < h /\ seen'[j] = seen[i] /\ seen'[k] = seen[h]
      BY <1>2, <2>1
    <3>2. seen[h].note \in since[seen[i].note]
      BY <1>0, <3>1 DEF LaterIsSince
    <3>. QED BY <1>2, <1>4, <3>1, <3>2
  <2>. QED BY <2>1 DEF LaterIsSince
<1>8. ForgottenIsOld'
  <2>1. ASSUME NEW k \in Note, last'[k] # NoContent, ~(Cardinality(since'[k]) >= MaxTracked)
        PROVE  Tracked(k)'
    <3>1. k # n /\ last[k] # NoContent /\ since'[k] = since[k]
      BY <1>4, <2>1
    <3>2. PICK i \in DOMAIN seen : seen[i].note = k
      BY <1>0, <2>1, <3>1 DEF ForgottenIsOld, Tracked
    <3>3. i # w
      BY <1>1, <3>1, <3>2
    <3>4. PICK j \in DOMAIN seen' : seen'[j] = seen[i]
      BY <1>2, <3>2, <3>3
    <3>. QED BY <3>2, <3>4 DEF Tracked
  <2>. QED BY <2>1 DEF ForgottenIsOld
<1>. QED BY <1>3, <1>5, <1>6, <1>7, <1>8 DEF NoteInv

\* As many notifications as a full history tracks, and another one.
LEMMA FullIsMany ==
    ASSUME NoteTypeOK, Len(seen) = MaxTracked, NEW n \in Note, ~Tracked(n),
           NEW S, IsFiniteSet(S), n \in S,
           \A j \in DOMAIN seen : j # 1 => seen[j].note \in S
    PROVE  Cardinality(S) >= MaxTracked
<1> DEFINE f == [j \in 1 .. MaxTracked |-> IF j = 1 THEN n ELSE seen[j].note]
<1>0. MaxTracked \in Nat /\ DOMAIN seen = 1 .. MaxTracked
  BY SeenIs
<1>1. f \in [1 .. MaxTracked -> S]
  BY <1>0
<1>2. \A i, j \in DOMAIN seen : seen[i].note = seen[j].note => i = j
  BY SeenIs
<1>3. \A j \in DOMAIN seen : seen[j].note # n
  BY DEF Tracked
<1>4. IsInjective(f)
  BY <1>0, <1>2, <1>3 DEF IsInjective
<1>5. f \in Injection(1 .. MaxTracked, S)
  BY <1>1, <1>4 DEF Injection
<1>6. Cardinality(1 .. MaxTracked) <= Cardinality(S)
  BY <1>5, FS_Injection
<1>7. Cardinality(1 .. MaxTracked) = MaxTracked
  BY <1>0, FS_Interval
<1>8. Cardinality(S) \in Nat
  BY FS_CardinalityType
<1>. QED BY <1>0, <1>6, <1>7, <1>8

LEMMA ReceivedStep ==
    ASSUME NoteInv, NEW n \in Note, NEW content \in Content, NEW silent, Received(n, content, silent)
    PROVE  NoteInv'
<1> DEFINE e == [note |-> n, content |-> content]
           p == Evicted(n)
<1>0. NoteTypeOK /\ LastIsSeen /\ LaterIsSince /\ ForgottenIsOld
      /\ last \in [Note -> Content \cup {NoContent}] /\ since \in [Note -> SUBSET Note]
  BY DEF NoteInv, NoteTypeOK
<1>e. e \in Entry /\ e.note = n /\ e.content = content
  BY DEF Entry
<1>1. PICK w : /\ Forgets(p, n, w)
               /\ Len(p) < MaxTracked
               /\ w \in DOMAIN seen =>
                     seen[w].note = n \/ (~Tracked(n) /\ w = 1 /\ Len(seen) = MaxTracked)
  BY <1>0, EvictedIs
<1>2. /\ \A j \in DOMAIN p : \E i \in DOMAIN seen : p[j] = seen[i]
      /\ \A j \in DOMAIN p : p[j] \in Entry /\ p[j].note \in Note /\ p[j].note # n
      /\ \A j, k \in DOMAIN p : p[j].note = p[k].note => j = k
      /\ \A j, k \in DOMAIN p : j < k =>
            \E i, h \in DOMAIN seen : i < h /\ p[j] = seen[i] /\ p[k] = seen[h]
      /\ \A i \in DOMAIN seen : i # w => \E j \in DOMAIN p : p[j] = seen[i]
  BY <1>0, <1>1, ForgetsIs
<1>3. /\ seen' = Append(p, e)
      /\ last' = [last EXCEPT ![n] = content]
      /\ since' = [k \in Note |-> IF k = n \/ last[k] = NoContent THEN {} ELSE since[k] \cup {n}]
      /\ showing' \in {NoContent, e}
  BY DEF Received
<1>p. p \in Seq(Entry) /\ Len(p) \in Nat /\ DOMAIN p = 1 .. Len(p)
  BY <1>1 DEF Forgets
<1>. HIDE DEF p, e
<1>4. /\ seen' \in Seq(Entry) /\ Len(seen') = Len(p) + 1
      /\ DOMAIN seen' = DOMAIN p \cup {Len(p) + 1}
      /\ \A j \in DOMAIN p : seen'[j] = p[j] /\ j \in Nat /\ j < Len(p) + 1
      /\ seen'[Len(p) + 1] = e
  <2>1. seen' \in Seq(Entry) /\ Len(seen') = Len(p) + 1
    BY <1>e, <1>3, <1>p
  <2>2. DOMAIN seen' = 1 .. (Len(p) + 1)
    BY <2>1
  <2>3. DOMAIN seen' = DOMAIN p \cup {Len(p) + 1}
    BY <1>p, <2>2
  <2>4. \A j \in DOMAIN p : seen'[j] = p[j] /\ j \in Nat /\ j < Len(p) + 1
    BY <1>e, <1>3, <1>p
  <2>5. seen'[Len(p) + 1] = e
    BY <1>e, <1>3, <1>p
  <2>. QED BY <2>1, <2>3, <2>4, <2>5
<1>5. NoteTypeOK'
  <2>1. Len(seen') <= MaxTracked
    <3>1. MaxTracked \in Nat
      BY TrackedAssumption
    <3>. QED BY <1>1, <1>4, <1>p, <3>1
  <2>2. IsInjective([i \in DOMAIN seen' |-> seen'[i].note])
    <3>1. \A i, j \in DOMAIN seen' : seen'[i].note = seen'[j].note => i = j
      BY <1>2, <1>4, <1>e
    <3>. QED BY <3>1 DEF IsInjective
  <2>3. showing' \in {NoContent} \cup Entry
    BY <1>3, <1>e
  <2>4. last' \in [Note -> Content \cup {NoContent}] /\ since' \in [Note -> SUBSET Note]
    BY <1>0, <1>3
  <2>. QED BY <1>4, <2>1, <2>2, <2>3, <2>4 DEF NoteTypeOK
<1>6. \A k \in Note : IsFiniteSet(since'[k])
  <2>1. ASSUME NEW k \in Note PROVE IsFiniteSet(since'[k])
    <3>1. IsFiniteSet(since[k] \cup {n}) /\ IsFiniteSet({})
      BY FS_AddElement, FS_EmptySet DEF NoteInv
    <3>2. since'[k] \in {{}, since[k] \cup {n}}
      BY <1>3
    <3>. QED BY <3>1, <3>2
  <2>. QED BY <2>1
<1>7. LastIsSeen'
  <2>1. \A k \in Note : k # n => last'[k] = last[k]
    BY <1>0, <1>3
  <2>2. last'[n] = content
    BY <1>0, <1>3
  <2>3. \A j \in DOMAIN p : last'[p[j].note] = p[j].content
    BY <1>0, <1>2, <2>1 DEF LastIsSeen
  <2>. QED BY <1>4, <1>e, <2>2, <2>3 DEF LastIsSeen
<1>8. \A j \in DOMAIN p : last[p[j].note] # NoContent
  <2>1. \A i \in DOMAIN seen : last[seen[i].note] # NoContent
    BY <1>0, SeenIs, TrackedAssumption DEF LastIsSeen
  <2>. QED BY <1>2, <2>1
<1>9. \A j \in DOMAIN p : since'[p[j].note] = since[p[j].note] \cup {n}
  BY <1>2, <1>3, <1>8
<1>10. LaterIsSince'
  <2>1. ASSUME NEW j \in DOMAIN p, NEW k \in DOMAIN p, j < k
        PROVE  p[k].note \in since[p[j].note]
    <3>1. PICK i \in DOMAIN seen, h \in DOMAIN seen : i < h /\ p[j] = seen[i] /\ p[k] = seen[h]
      BY <1>2, <2>1
    <3>2. seen[h].note \in since[seen[i].note]
      BY <1>0, <3>1 DEF LaterIsSince
    <3>. QED BY <3>1, <3>2
  <2>2. ASSUME NEW j \in DOMAIN seen', NEW k \in DOMAIN seen', j < k
        PROVE  seen'[k].note \in since'[seen'[j].note]
    <3>1. j \in DOMAIN p
      BY <1>4, <1>p, <2>2
    <3>2. CASE k \in DOMAIN p
      BY <1>4, <1>9, <2>1, <2>2, <3>1, <3>2
    <3>3. CASE k = Len(p) + 1
      BY <1>4, <1>9, <1>e, <3>1, <3>3
    <3>. QED BY <1>4, <3>2, <3>3
  <2>. QED BY <2>2 DEF LaterIsSince
<1>11. ForgottenIsOld'
  <2>1. ASSUME NEW k \in Note, last'[k] # NoContent
        PROVE  Tracked(k)' \/ Cardinality(since'[k]) >= MaxTracked
    <3>1. CASE k = n
      BY <1>4, <1>e, <3>1 DEF Tracked
    <3>2. CASE k # n
      <4>1. last[k] # NoContent /\ since'[k] = since[k] \cup {n} /\ IsFiniteSet(since'[k])
        BY <1>0, <1>3, <1>6, <2>1, <3>2
      <4>2. CASE Cardinality(since[k]) >= MaxTracked
        <5>1. since[k] \subseteq since'[k]
          BY <4>1
        <5>2. Cardinality(since[k]) <= Cardinality(since'[k])
          BY <4>1, <5>1, FS_Subset
        <5>3. Cardinality(since[k]) \in Nat /\ Cardinality(since'[k]) \in Nat
          BY <4>1, FS_CardinalityType DEF NoteInv
        <5>. QED BY <4>2, <5>2, <5>3, TrackedAssumption
      <4>3. CASE Tracked(k)
        <5>1. PICK i \in DOMAIN seen : seen[i].note = k
          BY <4>3 DEF Tracked
        <5>2. CASE i # w
          <6>1. PICK j \in DOMAIN p : p[j] = seen[i]
            BY <1>2, <5>2
          <6>. QED BY <1>4, <5>1, <6>1 DEF Tracked
        <5>3. CASE i = w
          <6>1. ~Tracked(n) /\ i = 1 /\ Len(seen) = MaxTracked
            BY <1>1, <3>2, <5>1, <5>3
          <6>2. \A j \in DOMAIN seen : j # 1 => j > 1
            BY <1>0, SeenIs
          <6>3. \A j \in DOMAIN seen : j # 1 => seen[j].note \in since'[k]
            BY <1>0, <4>1, <5>1, <6>1, <6>2 DEF LaterIsSince
          <6>. QED BY <1>0, <4>1, <6>1, <6>3, FullIsMany
        <5>. QED BY <5>2, <5>3
      <4>. QED BY <1>0, <4>1, <4>2, <4>3 DEF ForgottenIsOld
    <3>. QED BY <3>1, <3>2
  <2>. QED BY <2>1 DEF ForgottenIsOld
<1>. QED BY <1>5, <1>6, <1>7, <1>10, <1>11 DEF NoteInv

LEMMA NoteHolds == NoteInv => NoteTypeOK
BY DEF NoteInv

LEMMA NoteStart == NoteInit => NoteInv
<1>. SUFFICES ASSUME NoteInit PROVE NoteInv
  OBVIOUS
<1>1. seen = <<>> /\ DOMAIN seen = {} /\ Len(seen) = 0 /\ seen \in Seq(Entry)
  BY DEF NoteInit
<1>2. \A n \in Note : last[n] = NoContent /\ since[n] = {}
  BY DEF NoteInit
<1>3. NoteTypeOK
  <2>1. IsInjective([i \in DOMAIN seen |-> seen[i].note])
    BY <1>1 DEF IsInjective
  <2>. QED BY <1>1, <2>1, TrackedAssumption DEF NoteInit, NoteTypeOK
<1>4. LastIsSeen /\ LaterIsSince /\ ForgottenIsOld
  BY <1>1, <1>2 DEF LastIsSeen, LaterIsSince, ForgottenIsOld
<1>. QED BY <1>2, <1>3, <1>4, FS_EmptySet DEF NoteInv

\* The history is the same, and what was to be shown is shown or stays.
LEMMA NoteStay ==
    ASSUME NoteInv, UNCHANGED <<seen, last, since>>, showing' \in {showing, NoContent}
    PROVE  NoteInv'
<1>1. NoteTypeOK'
  BY DEF NoteInv, NoteTypeOK
<1>2. LastIsSeen' /\ LaterIsSince' /\ ForgottenIsOld'
  BY DEF NoteInv, LastIsSeen, LaterIsSince, ForgottenIsOld, Tracked
<1>. QED BY <1>1, <1>2 DEF NoteInv

LEMMA NoteStep ==
    ASSUME NoteInv, NotePacket \/ Shown \/ ShowFails
    PROVE  NoteInv'
<1>1. CASE NotePacket
  <2>1. ASSUME NEW n \in Note, Cancelled(n) PROVE NoteInv'
    BY <2>1, ForgottenStep DEF Cancelled
  <2>2. ASSUME NEW s \in Sent, NEW silent \in BOOLEAN, Received(s[1], s[2], silent) PROVE NoteInv'
    <3>1. s[1] \in Note /\ s[2] \in Content
      BY TrackedAssumption
    <3>. QED BY <2>2, <3>1, ReceivedStep
  <2>. QED BY <1>1, <2>1, <2>2 DEF NotePacket
<1>2. CASE Shown
  BY <1>2, NoteStay DEF Shown
<1>3. CASE ShowFails
  <2>1. showing.note \in Note
    BY <1>3, EntryIs DEF ShowFails, NoteInv, NoteTypeOK
  <2>. QED BY <1>3, <2>1, ForgottenStep DEF ShowFails
<1>. QED BY <1>1, <1>2, <1>3

-----------------------------------------------------------------------------
(***************************************************************************)
(* Both together.                                                          *)
(***************************************************************************)

LEMMA EventsStart == EventsInit => PlayersInv /\ NoteInv
BY PlayersStart, NoteStart DEF EventsInit

LEMMA EventsStep == PlayersInv /\ NoteInv /\ [EventsNext]_eventVars => (PlayersInv /\ NoteInv)'
<1>. SUFFICES ASSUME PlayersInv, NoteInv, [EventsNext]_eventVars
              PROVE  PlayersInv' /\ NoteInv'
  OBVIOUS
<1>1. UNCHANGED playerVars => PlayersInv'
  BY PlayersStay
<1>2. UNCHANGED noteVars => NoteInv'
  BY NoteStay DEF noteVars
<1>3. CASE TelephonyPacket \/ TelephonyGoesOn
  BY <1>2, <1>3, PlayersStepTelephony DEF TelephonyPacket, TelephonyGoesOn
<1>4. CASE NotificationPacket \/ NotificationGoesOn
  BY <1>1, <1>4, NoteStep DEF NotificationPacket, NotificationGoesOn
<1>5. CASE (Supervisor \/ PlayerStep) /\ UNCHANGED noteVars
  BY <1>2, <1>5, PlayersStepSupervisor, PlayersStepOwn
<1>6. CASE UNCHANGED eventVars
  BY <1>1, <1>2, <1>6 DEF eventVars
<1>. QED BY <1>3, <1>4, <1>5, <1>6 DEF EventsNext

LEMMA EventsAlways == EventsSpec => [](PlayersInv /\ NoteInv)
BY EventsStart, EventsStep, PTL DEF EventsSpec

\* Whatever calls and notifications come, and whatever the players do: nothing
\* is kept to be started that no call has paused, a player that is known and has
\* not been missed is watched, and the history is bounded with one entry for each
\* notification (plugins/mpris.rs, plugins/notification.rs).
THEOREM EventsSound == EventsSpec => []EventsInv
<1>1. PlayersInv /\ NoteInv => EventsInv
  BY PlayersHold, NoteHolds DEF EventsInv
<1>. QED BY <1>1, EventsAlways, PTL

\* A step that has something shown takes in what is not in the history.
LEMMA ShownIsNew ==
    ASSUME NoteInv, [EventsNext]_eventVars, showing' \notin {showing, NoContent},
           Cardinality(since[showing'.note]) < MaxTracked
    PROVE  last[showing'.note] # showing'.content
<1>1. PICK s \in Sent, silent \in BOOLEAN : Received(s[1], s[2], silent)
  <2>1. showing' = showing \/ NotePacket \/ Shown \/ ShowFails
    BY DEF EventsNext, eventVars, TelephonyPacket, TelephonyGoesOn, NotificationPacket,
           NotificationGoesOn, noteVars
  <2>2. NotePacket
    BY <2>1 DEF Shown, ShowFails
  <2>. QED BY <2>2 DEF NotePacket, Cancelled
<1>2. s[1] \in Note /\ s[2] \in Content /\ s[2] # NoContent
  BY TrackedAssumption
<1>3. showing' = [note |-> s[1], content |-> s[2]] /\ ~Contains(seen, [note |-> s[1], content |-> s[2]])
  BY <1>1 DEF Received
<1>4. ASSUME last[s[1]] = s[2] PROVE FALSE
  <2>1. IsFiniteSet(since[s[1]]) /\ ForgottenIsOld /\ LastIsSeen /\ NoteTypeOK
    BY <1>2 DEF NoteInv
  <2>2. ~(Cardinality(since[s[1]]) >= MaxTracked)
    <3>1. Cardinality(since[s[1]]) \in Nat /\ Cardinality(since[s[1]]) < MaxTracked
      BY <1>3, <2>1, FS_CardinalityType
    <3>. QED BY <3>1, TrackedAssumption
  <2>3. PICK i \in DOMAIN seen : seen[i].note = s[1]
    BY <1>2, <1>4, <2>1, <2>2 DEF ForgottenIsOld, Tracked
  <2>4. seen[i].content = s[2]
    BY <1>4, <2>1, <2>3 DEF LastIsSeen
  <2>5. seen[i] = [note |-> s[1], content |-> s[2]]
    BY <2>1, <2>3, <2>4, SeenIs, EntryIs
  <2>6. i \in 1 .. Len(seen)
    BY <2>1, SeenIs
  <2>. QED BY <1>3, <2>5, <2>6 DEF Contains
<1>. QED BY <1>3, <1>4

\* However long the history is: what a phone sends again unchanged does not pop
\* up again as long as fewer others than are tracked were sent in between
\* (plugins/notification.rs, should_display).
THEOREM NoReplay == EventsSpec => RecentIsNotReplayed
<1> DEFINE Step == showing' \notin {showing, NoContent} /\ Cardinality(since[showing'.note]) < MaxTracked
                   => last[showing'.note] # showing'.content
<1>1. NoteInv /\ [EventsNext]_eventVars => [Step]_noteVars
  BY ShownIsNew
<1>2. EventsSpec => [][Step]_noteVars
  BY <1>1, EventsAlways, PTL DEF EventsSpec
<1>. QED BY <1>2 DEF RecentIsNotReplayed

\* What is taken in for the first time, anew or changed is not in the history,
\* and so is shown unless it is silent (plugins/notification.rs, should_display).
THEOREM NoNewsIsLost == EventsSpec => NewsIsShown
<1> DEFINE Step == \A n \in {k \in Note : last'[k] # last[k]}, content \in Content :
                      Received(n, content, FALSE) => showing' = [note |-> n, content |-> content]
<1>1. ASSUME NoteInv, NEW n \in Note, last'[n] # last[n], NEW content \in Content,
             Received(n, content, FALSE)
      PROVE  showing' = [note |-> n, content |-> content]
  <2>1. last'[n] = content
    BY <1>1 DEF Received, NoteInv, NoteTypeOK
  <2>2. ASSUME NEW i \in DOMAIN seen, seen[i] = [note |-> n, content |-> content] PROVE FALSE
    BY <1>1, <2>1, <2>2 DEF NoteInv, LastIsSeen
  <2>3. DOMAIN seen = 1 .. Len(seen)
    BY <1>1, SeenIs DEF NoteInv
  <2>4. ~Contains(seen, [note |-> n, content |-> content])
    BY <2>2, <2>3 DEF Contains
  <2>. QED BY <1>1, <2>4 DEF Received
<1>2. NoteInv /\ [EventsNext]_eventVars => [Step]_noteVars
  BY <1>1
<1>3. EventsSpec => [][Step]_noteVars
  BY <1>2, EventsAlways, PTL DEF EventsSpec
<1>. QED BY <1>3, PTL DEF NewsIsShown

-----------------------------------------------------------------------------
(***************************************************************************)
(* The SMS window: data.                                                   *)
(***************************************************************************)

\* Of a set of naturals some element is below all others.
LEMMA LeastIs ==
    ASSUME NEW S, S \subseteq Nat, S # {}
    PROVE  \E x \in S : \A y \in S : x =< y
<1>1. PICK x \in S : \A y \in S : ~(<<y, x>> \in OpToRel(<, Nat))
  BY NatLessThanWellFounded, WFMin
<1>2. ASSUME NEW y \in S PROVE x =< y
  <2>1. <<y, x>> \in Nat \X Nat /\ <<y, x>>[1] = y /\ <<y, x>>[2] = x
    OBVIOUS
  <2>2. y < x => <<y, x>> \in OpToRel(<, Nat)
    BY <2>1, Zenon DEF OpToRel
  <2>3. ~(y < x)
    BY <1>1, <2>2, Zenon
  <2>. QED BY <2>3
<1>. QED BY <1>2

LEMMA MaxIs ==
    ASSUME NEW n \in Nat, NEW S, S \subseteq 0 .. n, S # {}
    PROVE  Max(S) \in S /\ \A y \in S : y =< Max(S)
<1> DEFINE T == {n - y : y \in S}
<1>1. \A y \in S : y \in Nat /\ n - y \in Nat
  OBVIOUS
<1>2. T \subseteq Nat /\ T # {}
  BY <1>1
<1>3. PICK x \in T : \A z \in T : x =< z
  BY <1>2, LeastIs
<1>4. PICK m \in S : x = n - m
  OBVIOUS
<1>5. ASSUME NEW y \in S PROVE m >= y /\ y =< m
  <2>1. n - m =< n - y
    BY <1>3, <1>4
  <2>. QED BY <1>1, <2>1
<1>6. Max(S) \in S /\ \A y \in S : Max(S) >= y
  BY <1>5 DEF Max
<1>. QED BY <1>1, <1>6

LEMMA LagIs ==
    /\ MaxClock \in Nat /\ DesktopAhead \in Nat /\ PhoneAhead \in Nat
    /\ MaxDate \in Nat /\ MaxDate = MaxClock + DesktopAhead + PhoneAhead
    /\ Lag \in Nat /\ DesktopAhead =< PhoneAhead + Lag
<1>1. MaxClock \in Nat /\ DesktopAhead \in Nat /\ PhoneAhead \in Nat
  BY SmsAssumption, WindowAssumption
<1>. QED BY <1>1 DEF MaxDate, Lag, LaterOf

LEMMA MessageIs ==
    ASSUME NEW m \in Message
    PROVE  /\ m.id \in 1 .. MaxClock /\ m.id \in Nat /\ m.thread \in Thread
           /\ ~IsSending(m) /\ Date(m) = PhoneAhead + m.id
           /\ Date(m) \in 1 .. MaxDate /\ Date(m) \in Nat
<1>1. m.id \in 1 .. MaxClock /\ m.thread \in Thread
  BY DEF Message
<1>. QED BY <1>1, LagIs DEF Date, IsSending

\* The newest date of some messages is that of one of them, and of no later one.
LEMMA NewestDateIs ==
    ASSUME NEW msgs, msgs \subseteq Message
    PROVE  /\ NewestDate(msgs) \in 0 .. MaxDate
           /\ NewestDate(msgs) # 0 => \E m \in msgs : Date(m) = NewestDate(msgs)
           /\ \A m \in msgs : Date(m) =< NewestDate(msgs)
<1> DEFINE S == {0} \cup {Date(m) : m \in msgs}
<1>1. S \subseteq 0 .. MaxDate /\ S # {} /\ MaxDate \in Nat
  BY MessageIs, LagIs
<1>2. Max(S) \in S /\ \A y \in S : y =< Max(S)
  <2>. HIDE DEF S
  <2>. QED BY <1>1, MaxIs
<1>. QED BY <1>1, <1>2 DEF NewestDate

LEMMA LaterIs ==
    ASSUME NEW n \in Nat, NEW m \in Nat
    PROVE  /\ LaterOf(n, m) \in {n, m}
           /\ n =< LaterOf(n, m) /\ m =< LaterOf(n, m)
BY DEF LaterOf

\* What is in a sequence after it has changed.
LEMMA InAppended ==
    ASSUME NEW S, NEW q \in Seq(S), NEW e \in S
    PROVE  Append(q, e) \in Seq(S) /\ Range(Append(q, e)) = Range(q) \cup {e}
<1>1. /\ DOMAIN Append(q, e) = DOMAIN q \cup {Len(q) + 1}
      /\ Append(q, e)[Len(q) + 1] = e
      /\ \A i \in DOMAIN q : Append(q, e)[i] = q[i]
  OBVIOUS
<1>. QED BY <1>1 DEF Range

LEMMA InTail ==
    ASSUME NEW S, NEW q \in Seq(S), q # <<>>
    PROVE  /\ Head(q) \in S /\ Tail(q) \in Seq(S)
           /\ Range(q) = {Head(q)} \cup Range(Tail(q))
<1>1. /\ DOMAIN q = 1 .. Len(q) /\ Len(q) \in Nat /\ 1 \in DOMAIN q
      /\ q[1] = Head(q) /\ Head(q) \in S /\ Tail(q) \in Seq(S)
      /\ \A i \in DOMAIN Tail(q) : i + 1 \in DOMAIN q /\ Tail(q)[i] = q[i + 1]
      /\ \A i \in DOMAIN q : i # 1 => i - 1 \in DOMAIN Tail(q) /\ Tail(q)[i - 1] = q[i]
  OBVIOUS
<1>2. \A i \in DOMAIN q : q[i] = Head(q) \/ \E j \in DOMAIN Tail(q) : Tail(q)[j] = q[i]
  BY <1>1
<1>3. Range(q) \subseteq {Head(q)} \cup Range(Tail(q))
  BY <1>2 DEF Range
<1>4. Range(Tail(q)) \subseteq Range(q)
  BY <1>1 DEF Range
<1>5. Head(q) \in Range(q)
  BY <1>1 DEF Range
<1>. QED BY <1>1, <1>3, <1>4, <1>5

LEMMA InSeq ==
    ASSUME NEW S, NEW q \in Seq(S)
    PROVE  Range(q) \subseteq S
BY DEF Range

LEMMA InJoined ==
    ASSUME NEW S, NEW q \in Seq(S), NEW r \in Seq(S)
    PROVE  q \o r \in Seq(S) /\ Range(q \o r) = Range(q) \cup Range(r)
<1>1. /\ DOMAIN (q \o r) = 1 .. (Len(q) + Len(r))
      /\ DOMAIN q = 1 .. Len(q) /\ DOMAIN r = 1 .. Len(r)
      /\ Len(q) \in Nat /\ Len(r) \in Nat
  OBVIOUS
<1>2. /\ \A i \in DOMAIN q : i \in DOMAIN (q \o r) /\ (q \o r)[i] = q[i]
      /\ \A i \in DOMAIN r : Len(q) + i \in DOMAIN (q \o r) /\ (q \o r)[Len(q) + i] = r[i]
  OBVIOUS
<1>3. \A i \in DOMAIN (q \o r) : i \in DOMAIN q \/ i - Len(q) \in DOMAIN r
  BY <1>1
<1>4. \A i \in DOMAIN (q \o r) : i \notin DOMAIN q => Len(q) + (i - Len(q)) = i
  BY <1>1
<1>5. Range(q \o r) \subseteq Range(q) \cup Range(r)
  BY <1>1, <1>2, <1>3, <1>4 DEF Range
<1>6. Range(q) \subseteq Range(q \o r) /\ Range(r) \subseteq Range(q \o r)
  BY <1>2 DEF Range
<1>. QED BY <1>5, <1>6

LEMMA InPrefix ==
    ASSUME NEW S, NEW q \in Seq(S), NEW n \in 0 .. Len(q)
    PROVE  SubSeq(q, 1, n) \in Seq(S) /\ Range(SubSeq(q, 1, n)) \subseteq Range(q)
<1>1. /\ SubSeq(q, 1, n) \in Seq(S) /\ Len(SubSeq(q, 1, n)) = n
      /\ \A i \in 1 .. n : SubSeq(q, 1, n)[i] = q[i] /\ i \in DOMAIN q
  OBVIOUS
<1>2. DOMAIN SubSeq(q, 1, n) = 1 .. n
  BY <1>1
<1>. QED BY <1>1, <1>2 DEF Range

LEMMA InEmpty == Range(<<>>) = {}
BY DEF Range

LEMMA InOne ==
    ASSUME NEW S, NEW a \in S
    PROVE  <<a>> \in Seq(S) /\ Range(<<a>>) = {a}
BY DEF Range

LEMMA InTwo ==
    ASSUME NEW S, NEW a \in S, NEW b \in S
    PROVE  <<a, b>> \in Seq(S) /\ Range(<<a, b>>) = {a, b}
<1>1. DOMAIN <<a, b>> = {1, 2} /\ <<a, b>>[1] = a /\ <<a, b>>[2] = b /\ <<a, b>> \in Seq(S)
  OBVIOUS
<1>. QED BY <1>1 DEF Range

-----------------------------------------------------------------------------
(***************************************************************************)
(* The SMS window: the inductive invariant.                                *)
(***************************************************************************)

\* Everything on its way and kept is the phone's, and older than the clock.
FromPhone ==
    /\ \A m \in phone : m.id < clock
    /\ ~linked => requests = <<>>
    /\ \A r \in Range(requests) : r.type = "send" => r.thread \in Chat
    /\ \A batch \in Range(wire) : batch \subseteq phone
    /\ memory # NoCache => memory \subseteq phone
    /\ file \subseteq phone
    /\ \A e \in Range(inbox) : e.type # "select" => e.batch \subseteq phone

\* The conversation that a message sent in thread t goes to.
Recipient(t) == IF t = NewChat THEN NewFor ELSE t

\* No message the phone makes from now on is older than this by more than the lag, and
\* nothing the desktop has stamped is newer.
Latest == clock + PhoneAhead + Lag

Holds(batch, t, d) == \E m \in batch : m.thread = t /\ d =< Date(m) + Lag

\* A message of t, not older than d, will come to the window in an event.
Coming(t, d) ==
    \/ [type |-> "conversation", thread |-> t] \in Range(requests) /\ Holds(phone, t, d)
    \/ \E r \in Range(requests) : r.type = "send" /\ t = Recipient(r.thread) /\ d =< Latest
    \/ \E batch \in Range(wire) : Holds(batch, t, d)
    \/ \E e \in Range(inbox) : e.type = "messages" /\ Holds(e.batch, t, d)

WillBeRead(t, d) == d =< lastSeen[t] + Lag \/ Coming(t, d)

\* Whatever makes the open conversation newer will be seen in it.
ReadInv ==
    selected \in Thread /\ ~unheard =>
        /\ WillBeRead(selected, convs[selected])
        /\ \A e \in Range(inbox) : e.type = "conversations" =>
              \A m \in e.batch : m.thread = selected => WillBeRead(selected, Date(m))

SmsInv ==
    /\ SmsTypeOK /\ WindowTypeOK /\ CacheCoversFile
    /\ DeletedStaysAway /\ OpenIsListed /\ FromPhone /\ ReadInv

LEMMA SmsHolds == SmsInv => WindowInv
<1> SUFFICES ASSUME SmsInv, selected \in Thread, ~unheard,
                    requests = <<>>, wire = <<>>, inbox = <<>>
             PROVE  convs[selected] =< lastSeen[selected] + Lag
  BY DEF SmsInv, WindowInv, OpenIsRead
<1>1. ~Coming(selected, convs[selected])
  BY InEmpty DEF Coming
<1>. QED BY <1>1 DEF SmsInv, ReadInv, WillBeRead

LEMMA SmsStarts == WindowInit => SmsInv
<1> SUFFICES ASSUME WindowInit PROVE SmsInv
  OBVIOUS
<1>0. MaxClock \in Nat /\ 1 \in 1 .. (MaxClock + 1) /\ 0 \in 0 .. MaxDate
  BY LagIs
<1>1. SmsTypeOK /\ WindowTypeOK
  <2>1. <<>> \in Seq(Request) /\ <<>> \in Seq(SUBSET Message) /\ <<>> \in Seq(Event)
    OBVIOUS
  <2>2. SmsTypeOK
    <3>1. /\ phone = {} /\ clock = 1 /\ linked = FALSE /\ requests = <<>> /\ wire = <<>>
          /\ memory = NoCache /\ file = {}
      BY DEF WindowInit, SmsInit
    <3>2. FALSE \in BOOLEAN /\ {} \in SUBSET Message /\ NoCache \in (SUBSET Message) \cup {NoCache}
      OBVIOUS
    <3>. QED BY <1>0, <2>1, <3>1, <3>2, Zenon DEF SmsTypeOK
  <2>3. [t \in Chat |-> 0] \in [Chat -> 0 .. MaxDate]
    BY <1>0
  <2>4. WindowTypeOK
    BY <2>1, <2>3, Zenon DEF WindowInit, SmsInit, WindowTypeOK
  <2>. QED BY <2>2, <2>4
<1>2. CacheCoversFile /\ DeletedStaysAway /\ OpenIsListed /\ ReadInv
  BY SmsAssumption
     DEF WindowInit, SmsInit, CacheCoversFile, DeletedStaysAway, OpenIsListed, ReadInv
<1>3. FromPhone
  BY InEmpty DEF WindowInit, SmsInit, FromPhone
<1>. QED BY <1>1, <1>2, <1>3 DEF SmsInv

-----------------------------------------------------------------------------
(***************************************************************************)
(* The SMS window: what each part of a step does.                          *)
(***************************************************************************)

LEMMA SendsIs ==
    ASSUME SmsTypeOK, NEW batch \in SUBSET Message, Sends(batch)
    PROVE  /\ wire' \in Seq(SUBSET Message)
           /\ Range(wire) \subseteq Range(wire') /\ Range(wire') \subseteq Range(wire) \cup {batch}
           /\ batch # {} => batch \in Range(wire')
<1>1. CASE batch = {}
  BY <1>1 DEF Sends, SmsTypeOK
<1>2. CASE batch # {}
  <2>1. wire \in Seq(SUBSET Message) /\ wire' = Append(wire, batch)
    BY <1>2 DEF Sends, SmsTypeOK
  <2>2. /\ Append(wire, batch) \in Seq(SUBSET Message)
        /\ Range(Append(wire, batch)) = Range(wire) \cup {batch}
    <3> DEFINE S == SUBSET Message
    <3>1. wire \in Seq(S) /\ batch \in S
      BY <2>1
    <3> HIDE DEF S
    <3>2. Append(wire, batch) \in Seq(S) /\ Range(Append(wire, batch)) = Range(wire) \cup {batch}
      BY <3>1, InAppended
    <3>. QED BY <3>2 DEF S
  <2>. QED BY <2>1, <2>2
<1>. QED BY <1>1, <1>2

\* A message the phone makes is dated by the clock, and reported if there is a link.
MadeNow(m, t, own) ==
    /\ m.id = clock /\ m.thread = t /\ m.own = own
    /\ phone' = phone \cup {m}
    /\ clock \in 1 .. MaxClock /\ clock' = clock + 1
    /\ wire' \in Seq(SUBSET Message) /\ Range(wire) \subseteq Range(wire')
    /\ Range(wire') \subseteq Range(wire) \cup {{m}}
    /\ linked => {m} \in Range(wire')

LEMMA MakesIs ==
    ASSUME SmsTypeOK, NEW t \in Thread, NEW own \in BOOLEAN, Makes(t, own)
    PROVE  \E m \in Message : MadeNow(m, t, own)
<1> DEFINE m == [id |-> clock, thread |-> t, own |-> own]
<1>1. clock \in 1 .. MaxClock
  BY SmsAssumption DEF Makes, SmsTypeOK
<1>2. m \in Message /\ m.id = clock /\ m.thread = t /\ m.own = own
  BY <1>1 DEF Message
<1>3. phone' = phone \cup {m} /\ clock' = clock + 1 /\ IF linked THEN Sends({m}) ELSE wire' = wire
  BY DEF Makes
<1> HIDE DEF m
<1>4. PICK b \in SUBSET Message : b = {m} /\ b # {}
  BY <1>2
<1>5. /\ wire' \in Seq(SUBSET Message) /\ Range(wire) \subseteq Range(wire')
      /\ Range(wire') \subseteq Range(wire) \cup {{m}}
      /\ linked => {m} \in Range(wire')
  <2>1. CASE linked
    <3>1. Sends(b)
      BY <1>3, <1>4, <2>1
    <3>2. /\ wire' \in Seq(SUBSET Message) /\ Range(wire) \subseteq Range(wire')
          /\ Range(wire') \subseteq Range(wire) \cup {b} /\ b \in Range(wire')
      BY <1>4, <3>1, SendsIs, Zenon
    <3>. QED BY <1>4, <3>2
  <2>2. CASE ~linked
    <3>1. wire' = wire /\ wire \in Seq(SUBSET Message)
      BY <1>3, <2>2 DEF SmsTypeOK
    <3>. QED BY <2>2, <3>1
  <2>. QED BY <2>1, <2>2
<1>6. MadeNow(m, t, own)
  BY <1>1, <1>2, <1>3, <1>5 DEF MadeNow
<1>. QED BY <1>2, <1>6, Zenon

LEMMA TakesRequestIs ==
    ASSUME SmsTypeOK, NEW type, TakesRequest(type)
    PROVE  /\ requests' \in Seq(Request)
           /\ Head(requests) \in Request /\ Head(requests).type = type
           /\ Range(requests) = {Head(requests)} \cup Range(requests')
BY InTail, Zenon DEF TakesRequest, SmsTypeOK

\* A request goes out if there is a link.
LEMMA AsksIs ==
    ASSUME SmsTypeOK, NEW r \in Request, Asks(<<r>>)
    PROVE  /\ requests' \in Seq(Request)
           /\ Range(requests) \subseteq Range(requests')
           /\ Range(requests') \subseteq Range(requests) \cup {r}
           /\ linked => r \in Range(requests')
           /\ ~linked => requests' = requests
<1>1. <<r>> \in Seq(Request) /\ Range(<<r>>) = {r}
  BY InOne, Zenon
<1>2. requests \in Seq(Request)
  BY DEF SmsTypeOK
<1>3. /\ requests \o <<r>> \in Seq(Request)
      /\ Range(requests \o <<r>>) = Range(requests) \cup Range(<<r>>)
  BY <1>1, <1>2, InJoined, Zenon
<1>4. requests' = IF linked THEN requests \o <<r>> ELSE requests
  BY DEF Asks
<1>. QED BY <1>1, <1>2, <1>3, <1>4

LEMMA GivesBothIs ==
    ASSUME WindowTypeOK, NEW batch \in SUBSET Message, Gives(Both(batch))
    PROVE  /\ inbox' \in Seq(Event)
           /\ Range(inbox') = Range(inbox) \cup {[type |-> "messages", batch |-> batch],
                                                 [type |-> "conversations", batch |-> batch]}
<1> DEFINE a == [type |-> "messages", batch |-> batch]
           b == [type |-> "conversations", batch |-> batch]
<1>1. a \in Event /\ b \in Event
  BY DEF Event
<1>2. inbox \in Seq(Event) /\ inbox' = inbox \o <<a, b>>
  BY DEF Gives, Both, WindowTypeOK
<1> HIDE DEF a, b
<1>3. <<a, b>> \in Seq(Event) /\ Range(<<a, b>>) = {a, b}
  BY <1>1, InTwo, Zenon
<1>4. /\ inbox \o <<a, b>> \in Seq(Event)
      /\ Range(inbox \o <<a, b>>) = Range(inbox) \cup Range(<<a, b>>)
  BY <1>2, <1>3, InJoined, Zenon
<1>5. inbox' \in Seq(Event) /\ Range(inbox') = Range(inbox) \cup {a, b}
  BY <1>2, <1>3, <1>4
<1>. QED BY <1>5 DEF a, b

LEMMA TakesEventIs ==
    ASSUME WindowTypeOK, NEW type, TakesEvent(type)
    PROVE  /\ inbox' \in Seq(Event)
           /\ Head(inbox) \in Event /\ Head(inbox).type = type
           /\ Range(inbox) = {Head(inbox)} \cup Range(inbox')
BY InTail, Zenon DEF TakesEvent, WindowTypeOK

\* Events and their messages.
LEMMA EventIs ==
    ASSUME NEW e \in Event
    PROVE  /\ e.type # "select" => e.batch \in SUBSET Message
           /\ e.type \in {"messages", "conversations", "select"}
BY DEF Event

LEMMA CachedIs ==
    ASSUME SmsInv
    PROVE  file \subseteq CachedSms /\ CachedSms \subseteq phone /\ phone \subseteq Message
BY DEF SmsInv, CachedSms, CacheCoversFile, FromPhone, SmsTypeOK

LEMMA ListStays ==
    ASSUME SmsInv, UNCHANGED <<selected, convs, hidden>>
    PROVE  DeletedStaysAway' /\ OpenIsListed'
BY DEF SmsInv, DeletedStaysAway, OpenIsListed

LEMMA SumsGrow ==
    ASSUME NEW a \in Nat, NEW b \in Nat, NEW d \in Nat, a =< b
    PROVE  a + d =< b + d /\ a + d \in Nat /\ b + d \in Nat
OBVIOUS

LEMMA LatestGrows ==
    ASSUME clock \in Nat, clock' \in Nat, clock =< clock'
    PROVE  Latest =< Latest' /\ Latest \in Nat /\ Latest' \in Nat
<1>1. PICK now \in Nat : now = clock
  OBVIOUS
<1>2. PICK then \in Nat : then = clock' /\ now =< then
  BY <1>1
<1>3. /\ now + PhoneAhead + Lag =< then + PhoneAhead + Lag
      /\ now + PhoneAhead + Lag \in Nat /\ then + PhoneAhead + Lag \in Nat
  <2>1. PICK ahead \in Nat : ahead = PhoneAhead
    BY LagIs
  <2>2. PICK lag \in Nat : lag = Lag
    BY LagIs
  <2>3. now + ahead =< then + ahead /\ now + ahead \in Nat /\ then + ahead \in Nat
    BY <1>2, SumsGrow
  <2>4. PICK x \in Nat : x = now + ahead
    BY <2>3
  <2>5. PICK y \in Nat : y = then + ahead /\ x =< y
    BY <2>3, <2>4
  <2>6. x + lag =< y + lag /\ x + lag \in Nat /\ y + lag \in Nat
    BY <2>5, SumsGrow
  <2>. QED BY <2>1, <2>2, <2>4, <2>5, <2>6
<1>4. Latest = now + PhoneAhead + Lag /\ Latest' = then + PhoneAhead + Lag
  BY <1>1, <1>2 DEF Latest
<1>. QED BY <1>3, <1>4

\* What comes still comes if nothing is lost on its way.
LEMMA ComingStays ==
    ASSUME SmsTypeOK, NEW t \in Thread, NEW d \in Nat, Coming(t, d),
           phone \subseteq phone', clock' \in Nat, clock =< clock',
           \A r \in Range(requests) : r.type # "conversations" => r \in Range(requests'),
           Range(wire) \subseteq Range(wire'),
           \A e \in Range(inbox) : e.type = "messages" => e \in Range(inbox')
    PROVE  Coming(t, d)'
<1>1. CASE [type |-> "conversation", thread |-> t] \in Range(requests) /\ Holds(phone, t, d)
  <2>1. [type |-> "conversation", thread |-> t] \in Range(requests')
    <3>1. [type |-> "conversation", thread |-> t].type # "conversations"
      OBVIOUS
    <3>. QED BY <1>1, <3>1, Zenon
  <2>2. Holds(phone, t, d)'
    BY <1>1 DEF Holds
  <2>. QED BY <2>1, <2>2 DEF Coming
<1>2. CASE \E r \in Range(requests) : r.type = "send" /\ t = Recipient(r.thread) /\ d =< Latest
  <2>1. Latest =< Latest' /\ Latest \in Nat /\ Latest' \in Nat
    <3>1. clock \in Nat
      BY LagIs DEF SmsTypeOK
    <3>. QED BY <3>1, LatestGrows
  <2>2. d =< Latest'
    BY <1>2, <2>1
  <2>. QED BY <1>2, <2>2 DEF Coming
<1>3. CASE \E batch \in Range(wire) : Holds(batch, t, d)
  BY <1>3, Zenon DEF Coming, Holds
<1>4. CASE \E e \in Range(inbox) : e.type = "messages" /\ Holds(e.batch, t, d)
  BY <1>4, Zenon DEF Coming, Holds
<1>. QED BY <1>1, <1>2, <1>3, <1>4 DEF Coming

LEMMA ReadStays ==
    ASSUME SmsInv, selected' = selected, ~unheard' => ~unheard,
           \A t \in Thread, d \in Nat : t = selected /\ WillBeRead(t, d) => WillBeRead(t, d)',
           \A t \in Thread, d \in Nat :
              t = selected /\ d = convs'[t] => d = convs[t] \/ WillBeRead(t, d)',
           convs' \in [Chat -> 0 .. MaxDate], inbox' \in Seq(Event),
           \A e \in Range(inbox') :
              \/ e \in Range(inbox)
              \/ e.type # "conversations"
              \/ \A m \in e.batch, t \in Thread : m.thread = t => WillBeRead(t, Date(m))'
    PROVE  ReadInv'
<1> SUFFICES ASSUME selected' \in Thread, ~unheard'
             PROVE  /\ WillBeRead(selected, convs[selected])'
                    /\ \A e \in Range(inbox') : e.type = "conversations" =>
                          \A m \in e.batch :
                             m.thread = selected' => WillBeRead(selected, Date(m))'
  BY DEF ReadInv
<1>1. ReadInv /\ selected \in Thread /\ ~unheard
  BY DEF SmsInv
<1>2. WillBeRead(selected, convs[selected])'
  <2>1. PICK t \in Thread : t = selected
    BY <1>1
  <2>2. t \in Chat /\ convs'[t] \in Nat /\ convs[t] \in Nat
    BY SmsAssumption DEF Chat, SmsInv, WindowTypeOK
  <2>3. PICK d \in Nat : d = convs'[t]
    BY <2>2
  <2>4. WillBeRead(t, d)'
    <3>1. CASE d = convs[t]
      <4>1. WillBeRead(t, d)
        BY <1>1, <2>1, <3>1 DEF ReadInv
      <4>. QED BY <2>1, <4>1
    <3>. QED BY <2>1, <2>3, <3>1
  <2>. QED BY <2>1, <2>3, <2>4 DEF WillBeRead, Coming, Holds
<1>3. ASSUME NEW e \in Range(inbox'), e.type = "conversations",
             NEW m \in e.batch, m.thread = selected'
      PROVE  WillBeRead(selected, Date(m))'
  <2>1. PICK t \in Thread : t = selected
    BY <1>1
  <2>2. e \in Event
    BY InSeq
  <2>3. PICK d \in Nat : d = Date(m)
    BY <1>3, <2>2, EventIs, MessageIs
  <2>4. WillBeRead(t, d)'
    <3>1. CASE e \in Range(inbox)
      <4>1. WillBeRead(t, d)
        BY <1>1, <1>3, <2>1, <2>3, <3>1 DEF ReadInv
      <4>. QED BY <2>1, <4>1
    <3>2. CASE \A n \in e.batch, u \in Thread : n.thread = u => WillBeRead(u, Date(n))'
      BY <1>3, <2>1, <2>3, <3>2
    <3>. QED BY <1>3, <3>1, <3>2
  <2>. QED BY <2>1, <2>3, <2>4 DEF WillBeRead, Coming, Holds
<1>. QED BY <1>2, <1>3

\* A step that loses nothing on its way to the open conversation.
LEMMA ReadKept ==
    ASSUME SmsInv, UNCHANGED <<selected, lastSeen>>, ~unheard' => ~unheard,
           phone \subseteq phone', clock' \in Nat, clock =< clock',
           \A r \in Range(requests) : r.type # "conversations" => r \in Range(requests'),
           Range(wire) \subseteq Range(wire'),
           \A e \in Range(inbox) : e.type = "messages" => e \in Range(inbox'),
           \A t \in Thread, d \in Nat :
              t = selected /\ d = convs'[t] => d = convs[t] \/ WillBeRead(t, d)',
           convs' \in [Chat -> 0 .. MaxDate], inbox' \in Seq(Event),
           \A e \in Range(inbox') :
              \/ e \in Range(inbox)
              \/ e.type # "conversations"
              \/ \A m \in e.batch, t \in Thread : m.thread = t => WillBeRead(t, Date(m))'
    PROVE  ReadInv'
<1>1. ASSUME NEW t \in Thread, NEW d \in Nat, WillBeRead(t, d) PROVE WillBeRead(t, d)'
  <2>1. Coming(t, d) => Coming(t, d)'
    BY ComingStays DEF SmsInv
  <2>. QED BY <1>1, <2>1 DEF WillBeRead
<1>. QED BY <1>1, ReadStays

-----------------------------------------------------------------------------
(***************************************************************************)
(* The SMS window: the phone's steps and the service's.                    *)
(***************************************************************************)

\* A step of the phone and of what is between it and the service: the rest of the
\* invariant when the types and the origin of everything are known.
LEMMA PhoneSide ==
    ASSUME SmsInv, UNCHANGED <<stream, inbox, shown, convs, hidden, lastSeen, cache>>,
           unheard' \in BOOLEAN, SmsTypeOK', FromPhone', ReadInv'
    PROVE  SmsInv'
<1>1. WindowTypeOK'
  BY DEF shown, SmsInv, WindowTypeOK
<1>2. CacheCoversFile'
  BY DEF cache, SmsInv, CacheCoversFile
<1>3. DeletedStaysAway' /\ OpenIsListed'
  BY ListStays DEF shown
<1>. QED BY <1>1, <1>2, <1>3 DEF SmsInv

LEMMA WindowStays ==
    ASSUME WindowTypeOK, UNCHANGED windowVars
    PROVE  UNCHANGED <<stream, inbox, shown, convs, hidden, lastSeen>> /\ unheard' \in BOOLEAN
BY DEF windowVars, shown, WindowTypeOK

LEMMA HappensOnPhoneStep ==
    ASSUME SmsInv, NEW t \in Thread, NEW own \in BOOLEAN, HappensOnPhone(t, own)
    PROVE  SmsInv'
<1>0. SmsTypeOK /\ WindowTypeOK /\ FromPhone /\ PhoneMessage(t, own)
  BY DEF SmsInv, HappensOnPhone
<1>a. PICK m \in Message : MadeNow(m, t, own)
  <2>1. Makes(t, own)
    BY <1>0 DEF PhoneMessage
  <2>. QED BY <1>0, <2>1, MakesIs
<1>1. /\ m.id = clock /\ m.thread = t /\ m.own = own
      /\ phone' = phone \cup {m}
      /\ clock \in 1 .. MaxClock /\ clock' = clock + 1
      /\ wire' \in Seq(SUBSET Message) /\ Range(wire) \subseteq Range(wire')
      /\ Range(wire') \subseteq Range(wire) \cup {{m}}
      /\ linked => {m} \in Range(wire')
  BY <1>a DEF MadeNow
<1>2. /\ requests' = requests /\ memory' = memory /\ file' = file /\ inbox' = inbox
      /\ convs' = convs /\ linked' = linked /\ selected' = selected /\ lastSeen' = lastSeen
      /\ unheard' \in BOOLEAN /\ (~unheard' => ~unheard)
  BY <1>0 DEF PhoneMessage, HappensOnPhone, cache, shown, WindowTypeOK
<1>3. clock \in Nat /\ clock' \in Nat /\ clock' \in 1 .. MaxClock + 1
  BY <1>1, SmsAssumption
<1>4. SmsTypeOK'
  BY <1>0, <1>1, <1>2, <1>3 DEF SmsTypeOK
<1>5. FromPhone'
  <2>1. \A n \in phone' : n.id < clock'
    <3>1. \A n \in phone : n.id \in Nat /\ n.id < clock
      BY <1>0, MessageIs DEF FromPhone, SmsTypeOK
    <3>. QED BY <1>1, <1>3, <3>1
  <2>2. \A batch \in Range(wire') : batch \subseteq phone'
    BY <1>0, <1>1 DEF FromPhone
  <2>. QED BY <1>0, <1>1, <1>2, <2>1, <2>2 DEF FromPhone
<1>6. ReadInv'
  <2>1. phone \subseteq phone' /\ clock =< clock'
    BY <1>1, <1>3
  <2>. QED BY <1>0, <1>1, <1>2, <1>3, <2>1, ReadKept DEF WindowTypeOK
<1>. QED BY <1>0, <1>2, <1>4, <1>5, <1>6, PhoneSide DEF HappensOnPhone, PhoneMessage

\* The phone answers a request with messages of its own.
LEMMA AnswerStays ==
    ASSUME SmsInv, NEW type, TakesRequest(type), NEW batch, batch \subseteq phone, Sends(batch),
           UNCHANGED <<phoneSide, linked, cache, windowVars>>
    PROVE  SmsTypeOK' /\ FromPhone'
<1>0. SmsTypeOK /\ FromPhone /\ batch \in SUBSET Message
  BY DEF SmsInv, SmsTypeOK
<1>1. requests' \in Seq(Request) /\ Range(requests') \subseteq Range(requests)
  BY <1>0, TakesRequestIs
<1>2. wire' \in Seq(SUBSET Message) /\ Range(wire') \subseteq Range(wire) \cup {batch}
  BY <1>0, SendsIs
<1>3. SmsTypeOK'
  BY <1>0, <1>1, <1>2 DEF phoneSide, cache, SmsTypeOK
<1>4. requests # <<>>
  BY DEF TakesRequest
<1>5. FromPhone'
  BY <1>0, <1>1, <1>2, <1>4 DEF phoneSide, cache, windowVars, FromPhone
<1>. QED BY <1>3, <1>5

LEMMA PhoneConversationsStep ==
    ASSUME SmsInv, PhoneConversations, UNCHANGED windowVars
    PROVE  SmsInv'
<1> DEFINE batch == UNION {Newest(OfThread(phone, t)) : t \in Thread}
<1>0. SmsTypeOK /\ WindowTypeOK
  BY DEF SmsInv
<1>1. batch \subseteq phone /\ Sends(batch) /\ TakesRequest("conversations")
  BY DEF PhoneConversations, Newest, OfThread
<1>2. UNCHANGED <<phoneSide, linked, cache>>
  BY DEF PhoneConversations
<1>3. PICK b \in SUBSET phone : b = batch
  BY <1>1
<1>4. SmsTypeOK' /\ FromPhone'
  <2>1. Sends(b)
    BY <1>1, <1>3
  <2>. QED BY <1>1, <1>2, <1>3, <2>1, AnswerStays
<1>5. Range(wire) \subseteq Range(wire')
  <2>1. Sends(b) /\ b \in SUBSET Message
    BY <1>0, <1>1, <1>3 DEF SmsTypeOK
  <2>. QED BY <1>0, <2>1, SendsIs
<1>6. \A r \in Range(requests) : r.type # "conversations" => r \in Range(requests')
  BY <1>0, <1>1, TakesRequestIs
<1>7. ReadInv'
  <2>1. phone' = phone /\ clock' = clock /\ clock \in Nat
    BY <1>0, <1>2 DEF phoneSide, SmsTypeOK
  <2>. QED BY <1>0, <1>5, <1>6, <2>1, ReadKept DEF windowVars, WindowTypeOK
<1>. QED BY <1>0, <1>2, <1>4, <1>7, PhoneSide, WindowStays

\* What is asked for of a conversation is sent.
LEMMA PhoneConversationStep ==
    ASSUME SmsInv, PhoneConversation, UNCHANGED windowVars
    PROVE  SmsInv'
<1>0. SmsTypeOK /\ WindowTypeOK
  BY DEF SmsInv
<1>1. PICK b \in SUBSET phone : b = OfThread(phone, Head(requests).thread)
  BY DEF OfThread
<1>2. TakesRequest("conversation") /\ Sends(b) /\ UNCHANGED <<phoneSide, linked, cache>>
  BY <1>1 DEF PhoneConversation
<1>3. SmsTypeOK' /\ FromPhone'
  BY <1>2, AnswerStays
<1>4. /\ Head(requests) \in Request /\ Head(requests).type = "conversation"
      /\ Range(requests) = {Head(requests)} \cup Range(requests')
  BY <1>0, <1>2, TakesRequestIs
<1>5. Range(wire) \subseteq Range(wire') /\ (b # {} => b \in Range(wire'))
  <2>1. b \in SUBSET Message
    BY <1>0 DEF SmsTypeOK
  <2>. QED BY <1>0, <1>2, <2>1, SendsIs
<1>6. ASSUME NEW t \in Thread, NEW d \in Nat, Coming(t, d) PROVE Coming(t, d)'
  <2>1. CASE [type |-> "conversation", thread |-> t] \in Range(requests) /\ Holds(phone, t, d)
    <3>1. CASE [type |-> "conversation", thread |-> t] = Head(requests)
      <4>1. Head(requests).thread = t
        BY <3>1
      <4>2. Holds(b, t, d) /\ b # {}
        BY <1>1, <2>1, <4>1 DEF Holds, OfThread
      <4>3. \E batch \in Range(wire') : Holds(batch, t, d)
        BY <1>5, <4>2
      <4>. QED BY <4>3 DEF Coming, Holds
    <3>2. CASE [type |-> "conversation", thread |-> t] \in Range(requests')
      <4>1. Holds(phone, t, d)'
        BY <1>2, <2>1 DEF phoneSide, Holds
      <4>. QED BY <3>2, <4>1 DEF Coming
    <3>. QED BY <1>4, <2>1, <3>1, <3>2
  <2>2. CASE \E r \in Range(requests) : r.type = "send" /\ t = Recipient(r.thread) /\ d =< Latest
    <3>1. \E r \in Range(requests') : r.type = "send" /\ t = Recipient(r.thread) /\ d =< Latest
      BY <1>4, <2>2
    <3>2. Latest' = Latest
      BY <1>2 DEF phoneSide, Latest
    <3>. QED BY <3>1, <3>2 DEF Coming
  <2>3. CASE \E batch \in Range(wire) : Holds(batch, t, d)
    BY <1>5, <2>3, Zenon DEF Coming, Holds
  <2>4. CASE \E e \in Range(inbox) : e.type = "messages" /\ Holds(e.batch, t, d)
    <3>1. inbox' = inbox
      BY DEF windowVars
    <3>. QED BY <2>4, <3>1, Zenon DEF Coming, Holds
  <2>. QED BY <1>6, <2>1, <2>2, <2>3, <2>4 DEF Coming
<1>7. ReadInv'
  <2>1. \A t \in Thread, d \in Nat : t = selected /\ WillBeRead(t, d) => WillBeRead(t, d)'
    BY <1>6 DEF WillBeRead, windowVars
  <2>. QED BY <1>0, <2>1, ReadStays DEF windowVars, WindowTypeOK
<1>. QED BY <1>0, <1>2, <1>3, <1>7, PhoneSide, WindowStays

\* What the window has sent is reported, with a date not before it was sent.
LEMMA PhoneSmsStep ==
    ASSUME SmsInv, PhoneSms, UNCHANGED windowVars
    PROVE  SmsInv'
<1>0. SmsTypeOK /\ WindowTypeOK /\ FromPhone
  BY DEF SmsInv
<1>1. /\ Head(requests) \in Request /\ Head(requests).type = "send"
      /\ requests' \in Seq(Request) /\ Range(requests) = {Head(requests)} \cup Range(requests')
  BY <1>0, TakesRequestIs DEF PhoneSms
<1>2. PICK t \in Thread : t = Recipient(Head(requests).thread)
  BY <1>0, <1>1, SmsAssumption DEF FromPhone, Recipient, Chat
<1>3. PICK m \in Message :
         /\ m.id = clock /\ m.thread = t /\ phone' = phone \cup {m}
         /\ clock \in 1 .. MaxClock /\ clock' = clock + 1
         /\ wire' \in Seq(SUBSET Message) /\ Range(wire) \subseteq Range(wire')
         /\ Range(wire') \subseteq Range(wire) \cup {{m}} /\ {m} \in Range(wire')
  <2>1. Makes(t, TRUE)
    BY <1>2 DEF PhoneSms, Recipient
  <2>2. linked
    BY <1>0 DEF PhoneSms, TakesRequest, FromPhone
  <2>. QED BY <1>0, <2>1, <2>2, MakesIs DEF MadeNow
<1>4. /\ memory' = memory /\ file' = file /\ inbox' = inbox /\ convs' = convs
      /\ linked' = linked /\ requests # <<>>
  BY DEF PhoneSms, TakesRequest, cache, windowVars
<1>5. clock \in Nat /\ clock' \in Nat /\ clock' \in 1 .. MaxClock + 1
  BY <1>3, SmsAssumption
<1>6. SmsTypeOK'
  BY <1>0, <1>1, <1>3, <1>4, <1>5 DEF SmsTypeOK
<1>7. FromPhone'
  <2>1. \A n \in phone' : n.id < clock'
    <3>1. \A n \in phone : n.id \in Nat /\ n.id < clock
      BY <1>0, MessageIs DEF FromPhone, SmsTypeOK
    <3>. QED BY <1>3, <1>5, <3>1
  <2>2. \A batch \in Range(wire') : batch \subseteq phone'
    BY <1>0, <1>3 DEF FromPhone
  <2>. QED BY <1>0, <1>1, <1>3, <1>4, <2>1, <2>2 DEF FromPhone
<1>8. ASSUME NEW u \in Thread, NEW d \in Nat, Coming(u, d) PROVE Coming(u, d)'
  <2>1. CASE [type |-> "conversation", thread |-> u] \in Range(requests) /\ Holds(phone, u, d)
    <3>1. [type |-> "conversation", thread |-> u].type # "send"
      OBVIOUS
    <3>2. [type |-> "conversation", thread |-> u] \in Range(requests')
      BY <1>1, <2>1, <3>1
    <3>3. Holds(phone, u, d)'
      BY <1>3, <2>1 DEF Holds
    <3>. QED BY <3>2, <3>3 DEF Coming
  <2>2. CASE \E r \in Range(requests) : r.type = "send" /\ u = Recipient(r.thread) /\ d =< Latest
    <3>1. PICK r \in Range(requests) : r.type = "send" /\ u = Recipient(r.thread) /\ d =< Latest
      BY <2>2
    <3>2. CASE r = Head(requests)
      <4>0. d =< Date(m) + Lag
        BY <1>3, <1>5, <3>1, MessageIs, LagIs DEF Latest
      <4>1. Holds({m}, u, d) /\ {m} \in Range(wire')
        BY <1>2, <1>3, <3>1, <3>2, <4>0 DEF Holds
      <4>2. \E batch \in Range(wire') : Holds(batch, u, d)
        BY <4>1
      <4>. QED BY <4>2 DEF Coming, Holds
    <3>3. CASE r \in Range(requests')
      <4>0. Latest \in Nat /\ Latest' \in Nat /\ Latest =< Latest'
        BY <1>3, <1>5, LagIs DEF Latest
      <4>1. d =< Latest'
        BY <3>1, <4>0
      <4>. QED BY <3>1, <3>3, <4>1 DEF Coming
    <3>. QED BY <1>1, <3>2, <3>3
  <2>3. CASE \E batch \in Range(wire) : Holds(batch, u, d)
    <3>1. \E batch \in Range(wire') : Holds(batch, u, d)
      BY <1>3, <2>3
    <3>. QED BY <3>1 DEF Coming, Holds
  <2>4. CASE \E e \in Range(inbox) : e.type = "messages" /\ Holds(e.batch, u, d)
    BY <1>4, <2>4, Zenon DEF Coming, Holds
  <2>. QED BY <1>8, <2>1, <2>2, <2>3, <2>4 DEF Coming
<1>9. ReadInv'
  <2>1. \A u \in Thread, d \in Nat : u = selected /\ WillBeRead(u, d) => WillBeRead(u, d)'
    BY <1>8 DEF WillBeRead, windowVars
  <2>. QED BY <1>0, <2>1, ReadStays DEF windowVars, WindowTypeOK
<1>. QED BY <1>6, <1>7, <1>9, <1>0, PhoneSide, WindowStays DEF PhoneSms

\* A link that is made loses nothing.
LEMMA PhoneConnectsStep ==
    ASSUME SmsInv, PhoneConnects, UNCHANGED windowVars
    PROVE  SmsInv'
<1>0. SmsTypeOK /\ WindowTypeOK /\ FromPhone
  BY DEF SmsInv
<1>1. /\ phone' = phone /\ clock' = clock /\ linked' = TRUE /\ wire' = wire
      /\ requests = <<>> /\ requests' \in {<<>>, <<ToAll>>}
      /\ memory' = memory /\ file' = file /\ clock \in Nat
  BY <1>0 DEF PhoneConnects, phoneSide, cache, SmsTypeOK, FromPhone
<1>2. ToAll \in Request /\ ToAll.type # "send"
  BY DEF ToAll, Request
<1>3. requests' \in Seq(Request) /\ Range(requests') \subseteq {ToAll} /\ Range(requests) = {}
  <2>1. <<>> \in Seq(Request) /\ <<ToAll>> \in Seq(Request) /\ Range(<<ToAll>>) = {ToAll}
    BY <1>2, InOne
  <2>. QED BY <1>1, <2>1, InEmpty
<1>4. SmsTypeOK'
  BY <1>0, <1>1, <1>3 DEF SmsTypeOK
<1>5. FromPhone'
  BY <1>0, <1>1, <1>2, <1>3 DEF windowVars, FromPhone
<1>6. ReadInv'
  BY <1>0, <1>1, <1>3, ReadKept DEF windowVars, WindowTypeOK
<1>. QED BY <1>0, <1>4, <1>5, <1>6, PhoneSide, WindowStays DEF PhoneConnects

LEMMA SeedCacheStep ==
    ASSUME SmsInv, SeedCache, UNCHANGED windowVars
    PROVE  SmsInv'
<1>0. SmsTypeOK /\ WindowTypeOK /\ FromPhone
  BY DEF SmsInv
<1>1. /\ phone' = phone /\ clock' = clock /\ linked' = linked /\ requests' = requests /\ wire' = wire
      /\ file' = file /\ memory' = file /\ clock \in Nat
  BY <1>0 DEF SeedCache, phoneSide, SmsTypeOK
<1>2. SmsTypeOK' /\ CacheCoversFile'
  BY <1>0, <1>1 DEF SmsTypeOK, CacheCoversFile
<1>3. FromPhone'
  BY <1>0, <1>1 DEF windowVars, FromPhone
<1>4. ReadInv'
  BY <1>0, <1>1, ReadKept DEF windowVars, WindowTypeOK
<1>5. WindowTypeOK'
  BY <1>0 DEF windowVars, WindowTypeOK
<1>6. DeletedStaysAway' /\ OpenIsListed'
  BY ListStays DEF windowVars
<1>. QED BY <1>2, <1>3, <1>4, <1>5, <1>6 DEF SmsInv

\* What the cache is after the next packet.
LEMMA MergedIs ==
    ASSUME SmsInv, wire # <<>>
    PROVE  /\ Head(wire) \in SUBSET Message /\ Head(wire) \subseteq phone
           /\ Range(wire) = {Head(wire)} \cup Range(Tail(wire))
           /\ Tail(wire) \in Seq(SUBSET Message)
           /\ MergeSmsCache(Head(wire)) \subseteq phone
           /\ file \subseteq MergeSmsCache(Head(wire))
<1> DEFINE S == SUBSET Message
<1>0. SmsTypeOK /\ FromPhone
  BY DEF SmsInv
<1>1. wire \in Seq(S)
  BY <1>0 DEF SmsTypeOK
<1> HIDE DEF S
<1>2. Head(wire) \in S /\ Tail(wire) \in Seq(S) /\ Range(wire) = {Head(wire)} \cup Range(Tail(wire))
  BY <1>1, InTail
<1>3. Head(wire) \subseteq phone
  BY <1>0, <1>2 DEF FromPhone
<1>4. MergeSmsCache(Head(wire)) \subseteq phone /\ file \subseteq MergeSmsCache(Head(wire))
  BY <1>3, CachedIs DEF MergeSmsCache
<1>. QED BY <1>2, <1>3, <1>4 DEF S

\* A packet of the phone is merged into the cache.
LEMMA SmsMessagesIs ==
    ASSUME SmsInv, SmsMessages
    PROVE  /\ SmsTypeOK' /\ CacheCoversFile'
           /\ UNCHANGED <<phone, clock, linked, requests>>
           /\ memory' \subseteq phone /\ file' \subseteq phone
           /\ Head(wire) \in SUBSET Message /\ Head(wire) \subseteq phone
           /\ Range(wire) = {Head(wire)} \cup Range(wire')
<1> DEFINE merged == MergeSmsCache(Head(wire))
<1>0. SmsTypeOK /\ FromPhone /\ wire # <<>> /\ wire' = Tail(wire)
  BY DEF SmsInv, SmsMessages
<1>1. /\ Head(wire) \in SUBSET Message /\ Head(wire) \subseteq phone
      /\ wire' \in Seq(SUBSET Message) /\ Range(wire) = {Head(wire)} \cup Range(wire')
      /\ merged \subseteq phone /\ file \subseteq merged
  BY <1>0, MergedIs
<1>4. memory' = merged /\ file' \in {merged, file, {}}
  BY DEF SmsMessages
<1>5. UNCHANGED <<phone, clock, linked, requests>>
  BY DEF SmsMessages, phoneSide
<1>6. memory' \subseteq phone /\ file' \subseteq phone /\ file' \subseteq memory' /\ phone \subseteq Message
  BY <1>1, <1>4, CachedIs
<1>7. SmsTypeOK'
  <2>1. memory' \in SUBSET Message /\ file' \in SUBSET Message
    BY <1>6
  <2>. QED BY <1>0, <1>1, <1>5, <2>1 DEF SmsTypeOK
<1>8. CacheCoversFile'
  BY <1>6 DEF CacheCoversFile
<1>. QED BY <1>1, <1>5, <1>6, <1>7, <1>8

\* The window is given some messages: both events have the same.
LEMMA GivenIs ==
    ASSUME WindowTypeOK, NEW batch \in SUBSET Message, Gives(Both(batch))
    PROVE  /\ inbox' \in Seq(Event)
           /\ Range(inbox) \subseteq Range(inbox')
           /\ \A e \in Range(inbox') :
                 \/ e \in Range(inbox)
                 \/ /\ e.batch = batch /\ e.type \in {"messages", "conversations"}
                    /\ \A m \in e.batch, t \in Thread : m.thread = t => Coming(t, Date(m))'
<1> DEFINE a == [type |-> "messages", batch |-> batch]
           b == [type |-> "conversations", batch |-> batch]
<1>1. inbox' \in Seq(Event) /\ Range(inbox') = Range(inbox) \cup {a, b}
  BY GivesBothIs
<1>2. ASSUME NEW m \in batch, NEW t \in Thread, m.thread = t PROVE Coming(t, Date(m))'
  <2>1. Date(m) =< Date(m) + Lag
    BY MessageIs, LagIs
  <2>2. a \in Range(inbox') /\ a.type = "messages" /\ a.batch = batch
    BY <1>1
  <2>3. Holds(a.batch, t, Date(m))
    BY <1>2, <2>1, <2>2 DEF Holds
  <2>. QED BY <2>2, <2>3 DEF Coming, Holds
<1>. QED BY <1>1, <1>2

-----------------------------------------------------------------------------
(***************************************************************************)
(* The SMS window: the steps of its event stream.                          *)
(***************************************************************************)

LEMMA OpensStep ==
    ASSUME SmsInv, Opens
    PROVE  SmsInv'
<1>0. SmsTypeOK /\ WindowTypeOK /\ FromPhone
  BY DEF SmsInv
<1>1. /\ phone' = phone /\ clock' = clock /\ linked' = linked /\ requests' = requests /\ wire' = wire
      /\ memory' = memory /\ file' = file /\ clock \in Nat
      /\ convs' = convs /\ hidden' = hidden /\ lastSeen' = lastSeen /\ unheard' = unheard
      /\ selected' = selected /\ stream' = "cache"
  BY <1>0 DEF Opens, smsVars, shown, SmsTypeOK
<1>2. PICK batch \in SUBSET Message : batch = CachedSms /\ batch \subseteq phone
  BY CachedIs
<1>3. /\ inbox' \in Seq(Event) /\ Range(inbox) \subseteq Range(inbox')
      /\ \A e \in Range(inbox') :
            \/ e \in Range(inbox)
            \/ e.batch = batch /\ \A m \in e.batch, t \in Thread : m.thread = t => Coming(t, Date(m))'
  <2>1. CASE inbox' = inbox
    BY <1>0, <2>1 DEF WindowTypeOK
  <2>2. CASE Gives(Both(batch))
    BY <1>0, <2>2, GivenIs
  <2>. QED BY <1>2, <2>1, <2>2 DEF Opens
<1>4. SmsTypeOK' /\ WindowTypeOK'
  BY <1>0, <1>1, <1>3 DEF SmsTypeOK, WindowTypeOK
<1>5. CacheCoversFile' /\ DeletedStaysAway' /\ OpenIsListed'
  BY <1>1, ListStays DEF SmsInv, CacheCoversFile
<1>6. FromPhone'
  BY <1>0, <1>1, <1>2, <1>3 DEF FromPhone
<1>7. ReadInv'
  <2>1. \A e \in Range(inbox') :
           \/ e \in Range(inbox)
           \/ \A m \in e.batch, t \in Thread : m.thread = t => WillBeRead(t, Date(m))'
    BY <1>3 DEF WillBeRead
  <2>. QED BY <1>0, <1>1, <1>3, <2>1, ReadKept DEF WindowTypeOK
<1>. QED BY <1>4, <1>5, <1>6, <1>7 DEF SmsInv

\* A step that asks the phone for its conversations.
LEMMA AskingStays ==
    ASSUME SmsInv, Asks(<<ToAll>>),
           UNCHANGED <<phoneSide, linked, wire, cache, inbox, shown, convs, hidden, lastSeen, unheard>>,
           stream' \in {"closed", "cache", "listening"}
    PROVE  SmsInv'
<1>0. SmsTypeOK /\ WindowTypeOK /\ FromPhone
  BY DEF SmsInv
<1>1. /\ phone' = phone /\ clock' = clock /\ linked' = linked /\ wire' = wire
      /\ memory' = memory /\ file' = file /\ clock \in Nat
      /\ convs' = convs /\ hidden' = hidden /\ lastSeen' = lastSeen /\ unheard' = unheard
      /\ selected' = selected /\ inbox' = inbox
  BY <1>0 DEF phoneSide, cache, shown, SmsTypeOK
<1>2. /\ requests' \in Seq(Request)
      /\ Range(requests) \subseteq Range(requests')
      /\ Range(requests') \subseteq Range(requests) \cup {ToAll}
      /\ ~linked => requests' = requests
  <2>1. ToAll \in Request
    BY DEF ToAll, Request
  <2>. QED BY <1>0, <2>1, AsksIs
<1>3. SmsTypeOK' /\ WindowTypeOK'
  BY <1>0, <1>1, <1>2 DEF SmsTypeOK, WindowTypeOK
<1>4. CacheCoversFile' /\ DeletedStaysAway' /\ OpenIsListed'
  BY <1>1, ListStays DEF SmsInv, CacheCoversFile
<1>5. FromPhone'
  <2>1. ToAll.type # "send"
    BY DEF ToAll
  <2>. QED BY <1>0, <1>1, <1>2, <2>1 DEF FromPhone
<1>6. ReadInv'
  BY <1>0, <1>1, <1>2, ReadKept DEF WindowTypeOK
<1>. QED BY <1>3, <1>4, <1>5, <1>6 DEF SmsInv

LEMMA ListensStep ==
    ASSUME SmsInv, Listens
    PROVE  SmsInv'
BY AskingStays DEF Listens

LEMMA LoadConversationsStep ==
    ASSUME SmsInv, LoadConversations
    PROVE  SmsInv'
<1>1. stream \in {"closed", "cache", "listening"}
  BY DEF SmsInv, WindowTypeOK
<1>. QED BY <1>1, AskingStays DEF LoadConversations, windowVars, shown

LEMMA StreamEndsStep ==
    ASSUME SmsInv, StreamEnds
    PROVE  SmsInv'
<1>0. SmsTypeOK /\ WindowTypeOK /\ FromPhone
  BY DEF SmsInv
<1>1. /\ phone' = phone /\ clock' = clock /\ linked' = linked /\ requests' = requests /\ wire' = wire
      /\ memory' = memory /\ file' = file /\ clock \in Nat
      /\ convs' = convs /\ hidden' = hidden /\ lastSeen' = lastSeen /\ unheard' = unheard
      /\ selected' = selected /\ inbox' = inbox /\ stream' = "cache"
  BY <1>0 DEF StreamEnds, smsVars, shown, SmsTypeOK
<1>2. SmsTypeOK' /\ WindowTypeOK'
  BY <1>0, <1>1 DEF SmsTypeOK, WindowTypeOK
<1>3. CacheCoversFile' /\ DeletedStaysAway' /\ OpenIsListed'
  BY <1>1, ListStays DEF SmsInv, CacheCoversFile
<1>4. FromPhone'
  BY <1>0, <1>1 DEF FromPhone
<1>5. ReadInv'
  BY <1>0, <1>1, ReadKept DEF WindowTypeOK
<1>. QED BY <1>2, <1>3, <1>4, <1>5 DEF SmsInv

LEMMA SmsMessagesReceivedStep ==
    ASSUME SmsInv, SmsMessagesReceived
    PROVE  SmsInv'
<1>0. SmsTypeOK /\ WindowTypeOK /\ FromPhone /\ SmsMessages
  BY DEF SmsInv, SmsMessagesReceived
<1>1. /\ SmsTypeOK' /\ CacheCoversFile'
      /\ phone' = phone /\ clock' = clock /\ linked' = linked /\ requests' = requests
      /\ memory' \subseteq phone /\ file' \subseteq phone
      /\ Range(wire) = {Head(wire)} \cup Range(wire')
  BY <1>0, SmsMessagesIs
<1>2. PICK batch \in SUBSET Message : batch = Head(wire) /\ batch \subseteq phone
  BY <1>0, SmsMessagesIs
<1>3. /\ convs' = convs /\ hidden' = hidden /\ lastSeen' = lastSeen
      /\ selected' = selected /\ stream' = stream
  BY DEF SmsMessagesReceived, shown
<1>4. \/ inbox' = inbox /\ unheard' = TRUE
      \/ Gives(Both(batch)) /\ unheard' = unheard
  BY <1>2 DEF SmsMessagesReceived
<1>5. /\ inbox' \in Seq(Event) /\ Range(inbox) \subseteq Range(inbox')
      /\ \A e \in Range(inbox') :
            \/ e \in Range(inbox)
            \/ e.batch = batch /\ \A m \in e.batch, t \in Thread : m.thread = t => Coming(t, Date(m))'
  <2>1. CASE inbox' = inbox
    BY <1>0, <2>1 DEF WindowTypeOK
  <2>2. CASE Gives(Both(batch))
    BY <1>0, <2>2, GivenIs
  <2>. QED BY <1>4, <2>1, <2>2
<1>6. WindowTypeOK'
  <2>1. unheard' \in BOOLEAN
    BY <1>0, <1>4 DEF WindowTypeOK
  <2>. QED BY <1>0, <1>3, <1>5, <2>1 DEF WindowTypeOK
<1>7. DeletedStaysAway' /\ OpenIsListed'
  BY <1>3, ListStays
<1>8. FromPhone'
  BY <1>0, <1>1, <1>2, <1>3, <1>5 DEF FromPhone
<1>9. ReadInv'
  <2>1. CASE unheard' = TRUE
    BY <2>1 DEF ReadInv
  <2>2. CASE Gives(Both(batch)) /\ unheard' = unheard
    <3>1. ASSUME NEW t \in Thread, NEW d \in Nat, Coming(t, d) PROVE Coming(t, d)'
      <4>1. CASE Holds(batch, t, d)
        <5>1. [type |-> "messages", batch |-> batch] \in Range(inbox')
          BY <1>0, <2>2, GivesBothIs
        <5>2. \E e \in Range(inbox') : e.type = "messages" /\ Holds(e.batch, t, d)
          BY <4>1, <5>1
        <5>. QED BY <5>2 DEF Coming, Holds
      <4>2. CASE [type |-> "conversation", thread |-> t] \in Range(requests) /\ Holds(phone, t, d)
        BY <1>1, <4>2 DEF Coming, Holds
      <4>3. CASE \E r \in Range(requests) : r.type = "send" /\ t = Recipient(r.thread) /\ d =< Latest
        <5>1. Latest' = Latest
          BY <1>1 DEF Latest
        <5>. QED BY <1>1, <4>3, <5>1 DEF Coming
      <4>4. CASE \E b \in Range(wire') : Holds(b, t, d)
        BY <4>4, Zenon DEF Coming, Holds
      <4>5. CASE \E e \in Range(inbox) : e.type = "messages" /\ Holds(e.batch, t, d)
        BY <1>5, <4>5, Zenon DEF Coming, Holds
      <4>6. (\E b \in Range(wire) : Holds(b, t, d)) =>
               Holds(batch, t, d) \/ \E b \in Range(wire') : Holds(b, t, d)
        BY <1>1, <1>2
      <4>. QED BY <3>1, <4>1, <4>2, <4>3, <4>4, <4>5, <4>6 DEF Coming
    <3>2. \A t \in Thread, d \in Nat : t = selected /\ WillBeRead(t, d) => WillBeRead(t, d)'
      BY <1>3, <3>1 DEF WillBeRead
    <3>3. \A e \in Range(inbox') :
             \/ e \in Range(inbox)
             \/ \A m \in e.batch, t \in Thread : m.thread = t => WillBeRead(t, Date(m))'
      BY <1>5 DEF WillBeRead
    <3>. QED BY <1>0, <1>3, <1>5, <2>2, <3>2, <3>3, ReadStays DEF WindowTypeOK
  <2>. QED BY <1>4, <2>1, <2>2
<1>. QED BY <1>1, <1>6, <1>7, <1>8, <1>9 DEF SmsInv

\* What breaks with the link is unheard, or was not asked for.
LEMMA LinkBreaksStep ==
    ASSUME SmsInv, LinkBreaks
    PROVE  SmsInv'
<1>0. SmsTypeOK /\ WindowTypeOK /\ FromPhone
  BY DEF SmsInv
<1>1. /\ phone' = phone /\ clock' = clock /\ linked' = FALSE /\ requests' = <<>>
      /\ memory' = memory /\ file' \in {{}, file} /\ clock \in Nat
      /\ inbox' = inbox /\ convs' = convs /\ hidden' = hidden /\ lastSeen' = lastSeen
      /\ selected' = selected /\ stream' = stream
      /\ unheard' = (unheard \/ requests # <<>> \/ wire' # wire)
  BY <1>0 DEF LinkBreaks, LinkLost, Unpairs, Unlinks, phoneSide, cache, shown, SmsTypeOK
<1>2. wire' \in Seq(SUBSET Message) /\ Range(wire') \subseteq Range(wire)
  <2>1. PICK n \in 0 .. Len(wire) : wire' = SubSeq(wire, 1, n)
    BY DEF LinkBreaks, LinkLost, Unpairs, Unlinks
  <2>2. wire \in Seq(SUBSET Message)
    BY <1>0 DEF SmsTypeOK
  <2>. QED BY <2>1, <2>2, InPrefix
<1>3. SmsTypeOK'
  <2>1. <<>> \in Seq(Request)
    OBVIOUS
  <2>. QED BY <1>0, <1>1, <1>2, <2>1 DEF SmsTypeOK
<1>4. WindowTypeOK'
  BY <1>0, <1>1 DEF WindowTypeOK
<1>5. CacheCoversFile' /\ DeletedStaysAway' /\ OpenIsListed'
  BY <1>1, ListStays DEF SmsInv, CacheCoversFile
<1>6. FromPhone'
  BY <1>0, <1>1, <1>2, InEmpty DEF FromPhone
<1>7. ReadInv'
  <2>1. CASE unheard'
    BY <2>1 DEF ReadInv
  <2>2. CASE ~unheard'
    <3>1. requests' = requests /\ wire' = wire
      BY <1>1, <2>2
    <3>. QED BY <1>0, <1>1, <3>1, ReadKept DEF WindowTypeOK
  <2>. QED BY <2>1, <2>2
<1>. QED BY <1>3, <1>4, <1>5, <1>6, <1>7 DEF SmsInv

LEMMA ServiceLostStep ==
    ASSUME SmsInv, ServiceLost
    PROVE  SmsInv'
<1>0. SmsTypeOK /\ WindowTypeOK /\ FromPhone
  BY DEF SmsInv
<1>1. /\ phone' = phone /\ clock' = clock /\ linked' = FALSE /\ memory' = NoCache
      /\ wire' = <<>> /\ requests' = <<>> /\ unheard' = TRUE
      /\ inbox' = inbox /\ convs' = convs /\ hidden' = hidden /\ lastSeen' = lastSeen
      /\ selected' = selected /\ stream' \in {"closed", "cache", "listening"}
  BY <1>0 DEF ServiceLost, ServiceRestarts, phoneSide, shown, WindowTypeOK
<1>2. <<>> \in Seq(Request) /\ <<>> \in Seq(SUBSET Message)
  OBVIOUS
<1>7. file' \subseteq phone /\ phone \subseteq Message
  <2>1. wire # <<>> => MergeSmsCache(Head(wire)) \subseteq phone
    BY MergedIs
  <2>2. file \subseteq phone
    BY <1>0 DEF FromPhone
  <2>. QED BY <1>0, <2>1, <2>2 DEF ServiceLost, ServiceRestarts, SmsTypeOK
<1>3. SmsTypeOK'
  BY <1>0, <1>1, <1>2, <1>7 DEF SmsTypeOK
<1>4. WindowTypeOK'
  BY <1>0, <1>1 DEF WindowTypeOK
<1>5. CacheCoversFile' /\ DeletedStaysAway' /\ OpenIsListed' /\ ReadInv'
  BY <1>1, ListStays DEF CacheCoversFile, ReadInv
<1>6. FromPhone'
  BY <1>0, <1>1, <1>7, InEmpty DEF FromPhone
<1>. QED BY <1>3, <1>4, <1>5, <1>6 DEF SmsInv

-----------------------------------------------------------------------------
(***************************************************************************)
(* The SMS window: the steps of update.                                    *)
(***************************************************************************)

\* What is taken from the inbox loses nothing else.
LEMMA TakingStays ==
    ASSUME SmsInv, UNCHANGED smsVars, NEW type, TakesEvent(type)
    PROVE  /\ SmsTypeOK' /\ CacheCoversFile'
           /\ inbox' \in Seq(Event) /\ Head(inbox) \in Event /\ Head(inbox).type = type
           /\ Range(inbox) = {Head(inbox)} \cup Range(inbox')
           /\ type # "select" =>
                 Head(inbox).batch \in SUBSET Message /\ Head(inbox).batch \subseteq phone
           /\ \A t \in Thread, d \in Nat : Coming(t, d) =>
                 \/ Coming(t, d)'
                 \/ type = "messages" /\ Holds(Head(inbox).batch, t, d)
<1>0. SmsTypeOK /\ WindowTypeOK /\ CacheCoversFile /\ FromPhone
  BY DEF SmsInv
<1>1. /\ phone' = phone /\ clock' = clock /\ linked' = linked /\ requests' = requests /\ wire' = wire
      /\ memory' = memory /\ file' = file
  BY DEF smsVars
<1>2. SmsTypeOK' /\ CacheCoversFile'
  BY <1>0, <1>1 DEF SmsTypeOK, CacheCoversFile
<1>3. /\ inbox' \in Seq(Event) /\ Head(inbox) \in Event /\ Head(inbox).type = type
      /\ Range(inbox) = {Head(inbox)} \cup Range(inbox')
  BY <1>0, TakesEventIs
<1>4. type # "select" => Head(inbox).batch \in SUBSET Message /\ Head(inbox).batch \subseteq phone
  BY <1>0, <1>3, EventIs DEF FromPhone
<1>5. ASSUME NEW t \in Thread, NEW d \in Nat, Coming(t, d),
             ~(type = "messages" /\ Holds(Head(inbox).batch, t, d))
      PROVE  Coming(t, d)'
  <2>1. CASE \E e \in Range(inbox) : e.type = "messages" /\ Holds(e.batch, t, d)
    <3>1. \E e \in Range(inbox') : e.type = "messages" /\ Holds(e.batch, t, d)
      BY <1>3, <1>5, <2>1
    <3>. QED BY <3>1 DEF Coming, Holds
  <2>2. CASE \E batch \in Range(wire) : Holds(batch, t, d)
    BY <1>1, <2>2, Zenon DEF Coming, Holds
  <2>3. Latest' = Latest
    BY <1>1 DEF Latest
  <2>. QED BY <1>1, <1>5, <2>1, <2>2, <2>3 DEF Coming, Holds
<1>. QED BY <1>2, <1>3, <1>4, <1>5

\* The dates of what the window looks at.
LEMMA DatesAre ==
    ASSUME SmsTypeOK, NEW msgs, msgs \subseteq phone
    PROVE  /\ NewestDate(msgs) \in 0 .. MaxDate
           /\ NewestDate(msgs) # 0 => \E m \in msgs : Date(m) = NewestDate(msgs)
           /\ \A m \in msgs : Date(m) =< NewestDate(msgs)
BY NewestDateIs DEF SmsTypeOK

LEMMA HandleMessagesReceivedStep ==
    ASSUME SmsInv, HandleMessagesReceived
    PROVE  SmsInv'
<1> DEFINE batch == {m \in Head(inbox).batch : m.thread \notin hidden}
           open == OfThread(batch, selected)
<1>0. /\ SmsTypeOK /\ WindowTypeOK /\ FromPhone /\ DeletedStaysAway /\ OpenIsListed
      /\ MaxDate \in Nat /\ Lag \in Nat
  BY SmsAssumption, LagIs DEF SmsInv
<1>1. TakesEvent("messages") /\ UNCHANGED smsVars
  BY DEF HandleMessagesReceived
<1>2. /\ SmsTypeOK' /\ CacheCoversFile' /\ inbox' \in Seq(Event)
      /\ Range(inbox) = {Head(inbox)} \cup Range(inbox')
      /\ Head(inbox).batch \subseteq phone /\ Head(inbox).type = "messages"
  BY <1>1, TakingStays
<1>3. /\ phone' = phone /\ clock' = clock /\ linked' = linked /\ requests' = requests /\ wire' = wire
      /\ memory' = memory /\ file' = file
      /\ stream' = stream /\ selected' = selected /\ hidden' = hidden /\ unheard' = unheard
  BY DEF HandleMessagesReceived, smsVars
<1>4. /\ lastSeen' = [t \in Chat |-> LaterOf(lastSeen[t], NewestDate(OfThread(open, t)))]
      /\ convs' = [t \in Chat |-> IF convs[t] = 0 THEN 0
                                  ELSE LaterOf(convs[t], NewestDate(OfThread(batch, t)))]
  BY DEF HandleMessagesReceived
<1>5. ASSUME NEW t \in Chat
      PROVE  /\ convs[t] \in 0 .. MaxDate /\ lastSeen[t] \in 0 .. MaxDate
             /\ NewestDate(OfThread(batch, t)) \in 0 .. MaxDate
             /\ NewestDate(OfThread(open, t)) \in 0 .. MaxDate
  <2>1. OfThread(batch, t) \subseteq phone /\ OfThread(open, t) \subseteq phone
    BY <1>2 DEF OfThread
  <2> HIDE DEF batch, open
  <2>. QED BY <1>0, <2>1, DatesAre DEF WindowTypeOK, FromPhone
<1> HIDE DEF batch, open
<1>6. ASSUME NEW t \in Chat
      PROVE  /\ convs'[t] \in 0 .. MaxDate
             /\ convs[t] = 0 => convs'[t] = 0
             /\ convs[t] # 0 => convs'[t] # 0
             /\ convs'[t] \in {convs[t], NewestDate(OfThread(batch, t))}
             /\ lastSeen'[t] \in 0 .. MaxDate /\ lastSeen[t] =< lastSeen'[t]
             /\ NewestDate(OfThread(open, t)) =< lastSeen'[t]
  <2>1. convs'[t] = IF convs[t] = 0 THEN 0 ELSE LaterOf(convs[t], NewestDate(OfThread(batch, t)))
    BY <1>4
  <2>2. lastSeen'[t] = LaterOf(lastSeen[t], NewestDate(OfThread(open, t)))
    BY <1>4
  <2>3. /\ LaterOf(convs[t], NewestDate(OfThread(batch, t)))
              \in {convs[t], NewestDate(OfThread(batch, t))}
        /\ convs[t] =< LaterOf(convs[t], NewestDate(OfThread(batch, t)))
    BY <1>0, <1>5, LaterIs
  <2>4. /\ LaterOf(lastSeen[t], NewestDate(OfThread(open, t)))
              \in {lastSeen[t], NewestDate(OfThread(open, t))}
        /\ lastSeen[t] =< LaterOf(lastSeen[t], NewestDate(OfThread(open, t)))
        /\ NewestDate(OfThread(open, t)) =< LaterOf(lastSeen[t], NewestDate(OfThread(open, t)))
    BY <1>0, <1>5, LaterIs
  <2>. QED BY <1>0, <1>5, <2>1, <2>2, <2>3, <2>4
<1>7. WindowTypeOK'
  <2>1. convs' \in [Chat -> 0 .. MaxDate] /\ lastSeen' \in [Chat -> 0 .. MaxDate]
    BY <1>4, <1>6
  <2>. QED BY <1>0, <1>2, <1>3, <2>1 DEF WindowTypeOK
<1>8. DeletedStaysAway' /\ OpenIsListed'
  <2>1. hidden \subseteq Chat /\ Thread \subseteq Chat
    BY <1>0 DEF WindowTypeOK, Chat
  <2>. QED BY <1>0, <1>3, <1>6, <2>1 DEF DeletedStaysAway, OpenIsListed
<1>9. FromPhone'
  BY <1>0, <1>2, <1>3, <1>6 DEF FromPhone
\* What is shown of the open conversation is seen.
<1>10. ASSUME NEW t \in Thread, t = selected,
              NEW m \in Head(inbox).batch, m.thread = t
       PROVE  Date(m) =< lastSeen'[t]
  <2>1. m \in OfThread(open, t) /\ OfThread(open, t) \subseteq phone
    BY <1>0, <1>2, <1>10 DEF OfThread, open, batch, DeletedStaysAway
  <2>2. Date(m) =< NewestDate(OfThread(open, t)) /\ Date(m) \in Nat
    BY <1>0, <2>1, DatesAre, MessageIs DEF SmsTypeOK
  <2>3. t \in Chat
    BY DEF Chat
  <2>. QED BY <1>0, <1>5, <1>6, <2>2, <2>3
<1>11. ReadInv'
  <2>1. ASSUME NEW t \in Thread, NEW d \in Nat, t = selected, WillBeRead(t, d)
        PROVE  WillBeRead(t, d)'
    <3>0. t \in Chat
      BY DEF Chat
    <3>1. CASE d =< lastSeen[t] + Lag
      BY <1>0, <1>5, <1>6, <3>0, <3>1 DEF WillBeRead
    <3>2. CASE Coming(t, d)'
      BY <3>2 DEF WillBeRead
    <3>3. CASE Holds(Head(inbox).batch, t, d)
      <4>1. PICK m \in Head(inbox).batch : m.thread = t /\ d =< Date(m) + Lag
        BY <3>3 DEF Holds
      <4>2. Date(m) =< lastSeen'[t] /\ Date(m) \in Nat /\ lastSeen'[t] \in Nat
        BY <1>0, <1>2, <1>6, <1>10, <2>1, <3>0, <4>1, MessageIs DEF SmsTypeOK
      <4>. QED BY <1>0, <4>1, <4>2 DEF WillBeRead
    <3>. QED BY <1>1, <2>1, <3>1, <3>2, <3>3, TakingStays DEF WillBeRead
  <2>2. ASSUME NEW t \in Thread, NEW d \in Nat, t = selected, d = convs'[t]
        PROVE  d = convs[t] \/ WillBeRead(t, d)'
    <3>1. CASE d = NewestDate(OfThread(batch, t)) /\ d # 0
      <4>1. OfThread(batch, t) \subseteq phone /\ OfThread(batch, t) \subseteq Head(inbox).batch
        BY <1>2 DEF OfThread, batch
      <4>2. PICK m \in OfThread(batch, t) : Date(m) = d
        BY <1>0, <3>1, <4>1, DatesAre
      <4>3. m \in Head(inbox).batch /\ m.thread = t
        BY <4>1 DEF OfThread
      <4>4. d =< lastSeen'[t] /\ lastSeen'[t] \in Nat /\ t \in Chat
        BY <1>6, <1>10, <2>2, <4>2, <4>3 DEF Chat
      <4>. QED BY <1>0, <4>4 DEF WillBeRead
    <3>2. t \in Chat
      BY DEF Chat
    <3>. QED BY <1>6, <2>2, <3>1, <3>2
  <2>3. Range(inbox') \subseteq Range(inbox)
    BY <1>2
  <2>. QED BY <1>2, <1>3, <1>7, <2>1, <2>2, <2>3, ReadStays DEF WindowTypeOK
<1>. QED BY <1>2, <1>7, <1>8, <1>9, <1>11 DEF SmsInv

LEMMA HandleConversationsReceivedStep ==
    ASSUME SmsInv, HandleConversationsReceived
    PROVE  SmsInv'
<1> DEFINE batch == Head(inbox).batch
<1>0. /\ SmsTypeOK /\ WindowTypeOK /\ FromPhone /\ DeletedStaysAway /\ OpenIsListed
      /\ MaxDate \in Nat /\ Lag \in Nat /\ NewChat \notin Thread /\ NewFor \in Thread
  BY SmsAssumption, LagIs DEF SmsInv
<1>1. TakesEvent("conversations") /\ UNCHANGED smsVars
  BY DEF HandleConversationsReceived
<1>2. /\ SmsTypeOK' /\ CacheCoversFile' /\ inbox' \in Seq(Event)
      /\ Head(inbox) \in Range(inbox) /\ Range(inbox') \subseteq Range(inbox)
      /\ batch \subseteq phone /\ Head(inbox).type = "conversations"
  BY <1>1, TakingStays
<1>3. /\ phone' = phone /\ clock' = clock /\ linked' = linked /\ requests' = requests /\ wire' = wire
      /\ memory' = memory /\ file' = file
      /\ stream' = stream /\ hidden' = hidden /\ lastSeen' = lastSeen
      /\ convs' = Merged(batch)
      /\ \/ selected' = selected /\ unheard' = unheard
         \/ selected' = NewFor /\ unheard' = TRUE /\ convs'[NewFor] # 0
  BY DEF HandleConversationsReceived, smsVars
<1> HIDE DEF batch
<1>4. ASSUME NEW t \in Chat
      PROVE  /\ convs[t] \in 0 .. MaxDate
             /\ NewestDate(OfThread(batch, t)) \in 0 .. MaxDate
  <2>1. OfThread(batch, t) \subseteq phone
    BY <1>2 DEF OfThread
  <2>. QED BY <1>0, <2>1, DatesAre DEF WindowTypeOK, FromPhone
<1>5. clock \in Nat 
  BY <1>0 DEF SmsTypeOK
<1>6. ASSUME NEW t \in Chat
      PROVE  /\ convs'[t] \in 0 .. MaxDate
             /\ t \in hidden => convs'[t] = 0
             /\ t \in Thread /\ t \notin hidden /\ convs[t] # 0 => convs'[t] # 0
             /\ t \in Thread /\ t \notin hidden =>
                   convs'[t] \in {convs[t], NewestDate(OfThread(batch, t))}
  <2>1. CASE t = NewChat
    <3>1. convs'[t] \in {0, convs[t]} /\ t \notin hidden /\ t \notin Thread
      BY <1>0, <1>3, <2>1 DEF Merged, WindowTypeOK
    <3>. QED BY <1>0, <1>4, <1>5, <3>1
  <2>2. CASE t # NewChat /\ t \in hidden
    <3>1. convs'[t] = 0
      BY <1>3, <2>2 DEF Merged
    <3>. QED BY <1>0, <1>5, <2>2, <3>1
  <2>3. CASE t # NewChat /\ t \notin hidden
    <3>1. convs'[t] = LaterOf(convs[t], NewestDate(OfThread(batch, t)))
      BY <1>3, <2>3 DEF Merged
    <3>2. /\ LaterOf(convs[t], NewestDate(OfThread(batch, t)))
                \in {convs[t], NewestDate(OfThread(batch, t))}
          /\ convs[t] =< LaterOf(convs[t], NewestDate(OfThread(batch, t)))
      BY <1>0, <1>4, LaterIs
    <3>. QED BY <1>0, <1>4, <2>3, <3>1, <3>2
  <2>. QED BY <2>1, <2>2, <2>3
<1>7. WindowTypeOK'
  <2>1. convs' \in [Chat -> 0 .. MaxDate]
    BY <1>3, <1>6 DEF Merged
  <2>2. selected' \in Chat \cup {NoThread} /\ unheard' \in BOOLEAN
    BY <1>0, <1>3 DEF WindowTypeOK, Chat
  <2>. QED BY <1>0, <1>2, <1>3, <2>1, <2>2 DEF WindowTypeOK
<1>8. DeletedStaysAway' /\ OpenIsListed'
  <2>1. hidden \subseteq Chat /\ Thread \subseteq Chat
    BY <1>0 DEF WindowTypeOK, Chat
  <2>2. \A t \in hidden' : convs'[t] = 0
    BY <1>3, <1>6, <2>1
  <2>3. selected' \notin hidden'
    BY <1>0, <1>3, <2>2 DEF DeletedStaysAway
  <2>4. selected' \in Thread => convs'[selected'] # 0
    BY <1>0, <1>3, <1>6, <2>1, <2>3 DEF OpenIsListed
  <2>. QED BY <2>2, <2>3, <2>4 DEF DeletedStaysAway, OpenIsListed
<1>9. FromPhone'
  BY <1>0, <1>2, <1>3, <1>6 DEF FromPhone
<1>10. ReadInv'
  <2>1. CASE unheard' = TRUE
    BY <2>1 DEF ReadInv
  <2>2. CASE selected' = selected /\ ~unheard' /\ selected \in Thread
    <3>1. \A t \in Thread, d \in Nat : WillBeRead(t, d) => WillBeRead(t, d)'
      BY <1>1, <1>3, TakingStays DEF WillBeRead
    <3>2. ASSUME NEW t \in Thread, NEW d \in Nat, t = selected, d = convs'[t]
          PROVE  d = convs[t] \/ WillBeRead(t, d)'
      <4>0. t \in Chat /\ t \notin hidden
        BY <1>0, <3>2 DEF Chat, DeletedStaysAway
      <4>1. CASE d = 0
        <5>1. 0 =< lastSeen[t] + Lag
          BY <1>0, <4>0 DEF WindowTypeOK
        <5>. QED BY <1>3, <4>1, <5>1 DEF WillBeRead
      <4>2. CASE d = NewestDate(OfThread(batch, t)) /\ d # 0
        <5>1. OfThread(batch, t) \subseteq phone
          BY <1>2 DEF OfThread
        <5>2. PICK m \in OfThread(batch, t) : Date(m) = d
          BY <1>0, <4>2, <5>1, DatesAre
        <5>3. m \in Head(inbox).batch /\ m.thread = t
          BY DEF OfThread, batch
        <5>4. ReadInv /\ ~unheard
          BY <1>3, <2>2 DEF SmsInv
        <5>5. WillBeRead(t, d)
          BY <1>2, <2>2, <3>2, <5>2, <5>3, <5>4 DEF ReadInv
        <5>. QED BY <3>1, <5>5
      <4>. QED BY <1>6, <3>2, <4>0, <4>1, <4>2
    <3>. QED BY <1>2, <1>3, <1>7, <2>2, <3>1, <3>2, ReadStays DEF WindowTypeOK
  <2>3. CASE selected' = selected /\ selected \notin Thread
    BY <2>3 DEF ReadInv
  <2>. QED BY <1>3, <2>1, <2>2, <2>3 DEF ReadInv
<1>. QED BY <1>2, <1>7, <1>8, <1>9, <1>10 DEF SmsInv

\* A thread is opened: what is listed of it is seen, and its messages are asked for.
LEMMA SelectsStays ==
    ASSUME SmsInv, NEW u \in Chat, Selects(u),
           inbox' \in Seq(Event), Range(inbox') \subseteq Range(inbox),
           u \in Thread => convs[u] # 0
    PROVE  SmsInv'
<1> DEFINE r == [type |-> "conversation", thread |-> u]
<1>0. SmsTypeOK /\ WindowTypeOK /\ FromPhone /\ DeletedStaysAway /\ NewChat \notin Thread
  BY SmsAssumption DEF SmsInv
<1>1. /\ phone' = phone /\ clock' = clock /\ linked' = linked /\ wire' = wire /\ memory' = memory /\ file' = file
      /\ stream' = stream /\ convs' = convs /\ hidden' = hidden /\ selected' = u
      /\ unheard' \in BOOLEAN /\ (~linked => unheard')
      /\ lastSeen' = IF convs[u] # 0 THEN [lastSeen EXCEPT ![u] = convs[u]] ELSE lastSeen
  BY DEF Selects, phoneSide, cache
<1>2. /\ requests' \in Seq(Request)
      /\ Range(requests') \subseteq Range(requests) \cup {r}
      /\ linked => r \in Range(requests')
      /\ ~linked => requests' = requests
  <2>1. r \in Request
    BY DEF Request, Chat
  <2>2. Asks(<<r>>)
    BY DEF Selects
  <2> HIDE DEF r
  <2>. QED BY <1>0, <2>1, <2>2, AsksIs
<1>3. SmsTypeOK' /\ CacheCoversFile'
  BY <1>0, <1>1, <1>2 DEF SmsInv, SmsTypeOK, CacheCoversFile
<1>4. WindowTypeOK'
  <2>1. lastSeen' \in [Chat -> 0 .. MaxDate]
    BY <1>0, <1>1 DEF WindowTypeOK
  <2>. QED BY <1>0, <1>1, <2>1 DEF WindowTypeOK
<1>5. DeletedStaysAway' /\ OpenIsListed'
  BY <1>0, <1>1 DEF DeletedStaysAway, OpenIsListed, Chat, WindowTypeOK
<1>6. FromPhone'
  <2>1. r.type # "send"
    OBVIOUS
  <2>. QED BY <1>0, <1>1, <1>2, <2>1 DEF FromPhone
<1>7. ReadInv'
  <2> SUFFICES ASSUME u \in Thread, linked
               PROVE  /\ WillBeRead(u, convs[u])'
                      /\ \A e \in Range(inbox') : e.type = "conversations" =>
                            \A m \in e.batch : m.thread = u => WillBeRead(u, Date(m))'
    BY <1>1 DEF ReadInv, WillBeRead, Coming, Holds
  <2>1. WillBeRead(u, convs[u])'
    <3>1. convs'[u] = convs[u] /\ lastSeen'[u] = convs[u] /\ convs[u] \in 0 .. MaxDate
      BY <1>0, <1>1 DEF WindowTypeOK
    <3>. QED BY <3>1, LagIs DEF WillBeRead
  <2>2. ASSUME NEW e \in Range(inbox'), e.type = "conversations",
               NEW m \in e.batch, m.thread = u
        PROVE  WillBeRead(u, Date(m))'
    <3>1. m \in phone /\ m \in Message
      BY <1>0, <2>2 DEF FromPhone, SmsTypeOK
    <3>2. Holds(phone, u, Date(m))'
      BY <1>1, <2>2, <3>1, MessageIs, LagIs DEF Holds
    <3>. QED BY <1>2, <3>2 DEF WillBeRead, Coming
  <2>. QED BY <2>1, <2>2
<1>. QED BY <1>3, <1>4, <1>5, <1>6, <1>7 DEF SmsInv

LEMMA SelectThreadStep ==
    ASSUME SmsInv, NEW t \in Chat, SelectThread(t)
    PROVE  SmsInv'
<1>1. inbox' = inbox /\ inbox \in Seq(Event)
  BY DEF SelectThread, SmsInv, WindowTypeOK
<1>. QED BY <1>1, SelectsStays DEF SelectThread

LEMMA SelectNewChatStep ==
    ASSUME SmsInv, SelectNewChat
    PROVE  SmsInv'
<1>1. inbox' \in Seq(Event) /\ Range(inbox') \subseteq Range(inbox)
  BY TakesEventIs DEF SelectNewChat, SmsInv
<1>2. NewChat \in Chat /\ NewChat \notin Thread
  BY SmsAssumption DEF Chat
<1>. QED BY <1>1, <1>2, SelectsStays DEF SelectNewChat

\* What the user sends makes the conversation newer than what is seen, until the
\* phone reports it.
LEMMA SendMessageStep ==
    ASSUME SmsInv, SendMessage
    PROVE  SmsInv'
<1> DEFINE r == [type |-> "send", thread |-> selected]
<1>0. /\ SmsTypeOK /\ WindowTypeOK /\ FromPhone /\ DeletedStaysAway /\ OpenIsListed
      /\ NewChat \notin Thread /\ MaxClock \in Nat /\ selected \in Chat
  BY SmsAssumption DEF SmsInv, WindowTypeOK, SendMessage
<1>1. /\ phone' = phone /\ clock' = clock + 1 /\ linked' = linked /\ wire' = wire /\ memory' = memory /\ file' = file
      /\ stream' = stream /\ inbox' = inbox /\ selected' = selected /\ hidden' = hidden
      /\ lastSeen' = lastSeen /\ unheard' = (unheard \/ ~linked)
      /\ convs' = [convs EXCEPT ![selected] = clock + DesktopAhead]
  BY DEF SendMessage, cache
<1>2. clock \in 1 .. MaxClock /\ clock' \in 1 .. MaxClock + 1 /\ clock' \in Nat
  BY <1>0, <1>1 DEF SendMessage, SmsTypeOK
<1>3. /\ requests' \in Seq(Request)
      /\ Range(requests) \subseteq Range(requests')
      /\ Range(requests') \subseteq Range(requests) \cup {r}
      /\ linked => r \in Range(requests')
      /\ ~linked => requests' = requests
  <2>1. r \in Request
    BY <1>0 DEF Request, Chat
  <2>2. Asks(<<r>>)
    BY DEF SendMessage
  <2> HIDE DEF r
  <2>. QED BY <1>0, <2>1, <2>2, AsksIs
<1>4. SmsTypeOK' /\ CacheCoversFile'
  BY <1>0, <1>1, <1>2, <1>3 DEF SmsInv, SmsTypeOK, CacheCoversFile
<1>5. convs' \in [Chat -> 0 .. MaxDate] /\ convs'[selected] = clock + DesktopAhead
  <2>1. clock + DesktopAhead \in 0 .. MaxDate
    BY <1>2, LagIs
  <2>. QED BY <1>0, <1>1, <2>1 DEF WindowTypeOK
<1>6. WindowTypeOK'
  BY <1>0, <1>1, <1>5 DEF WindowTypeOK
<1>7. DeletedStaysAway' /\ OpenIsListed'
  <2>1. \A t \in hidden : t # selected
    BY <1>0 DEF DeletedStaysAway
  <2>. QED BY <1>0, <1>1, <1>2, <1>5, <2>1, LagIs DEF DeletedStaysAway, OpenIsListed, WindowTypeOK, Chat
<1>8. FromPhone'
  <2>1. \A m \in phone : m.id < clock'
    BY <1>0, <1>1, <1>2, MessageIs DEF FromPhone, SmsTypeOK
  <2>. QED BY <1>0, <1>1, <1>3, <2>1 DEF FromPhone
<1>9. ReadInv'
  <2>1. CASE unheard'
    BY <2>1 DEF ReadInv
  <2>2. CASE ~unheard'
    <3>1. linked /\ ~unheard
      BY <1>1, <2>2
    <3>2. ASSUME NEW t \in Thread, NEW d \in Nat, t = selected, d = convs'[t]
          PROVE  d = convs[t] \/ WillBeRead(t, d)'
      <4>1. clock + DesktopAhead =< Latest'
        BY <1>1, <1>2, LagIs DEF Latest
      <4>2. d =< Latest' /\ t = Recipient(r.thread) /\ r.type = "send"
        BY <1>0, <1>5, <3>2, <4>1 DEF Recipient
      <4>3. \E q \in Range(requests') : q.type = "send" /\ t = Recipient(q.thread) /\ d =< Latest'
        BY <1>3, <3>1, <4>2
      <4>. QED BY <4>3 DEF WillBeRead, Coming
    <3>3. clock' >= clock /\ clock \in Nat
      BY <1>1, <1>2
    <3>. QED BY <1>0, <1>1, <1>2, <1>3, <1>5, <3>1, <3>2, <3>3, ReadKept DEF WindowTypeOK
  <2>. QED BY <2>1, <2>2
<1>. QED BY <1>4, <1>6, <1>7, <1>8, <1>9 DEF SmsInv

LEMMA CreateNewChatStep ==
    ASSUME SmsInv, CreateNewChat
    PROVE  SmsInv'
<1> DEFINE e == [type |-> "select", thread |-> NewChat]
<1>0. /\ SmsTypeOK /\ WindowTypeOK /\ FromPhone /\ DeletedStaysAway /\ OpenIsListed
      /\ NewChat \notin Thread /\ NewChat \in Chat /\ MaxClock \in Nat
  BY SmsAssumption DEF SmsInv, Chat
<1>1. /\ phone' = phone /\ clock' = clock + 1 /\ linked' = linked /\ requests' = requests /\ wire' = wire
      /\ memory' = memory /\ file' = file
      /\ stream' = stream /\ selected' = selected /\ hidden' = hidden
      /\ lastSeen' = lastSeen /\ unheard' = unheard
      /\ convs' = [convs EXCEPT ![NewChat] = clock + DesktopAhead]
  BY DEF CreateNewChat, cache, shown
<1>2. clock \in 1 .. MaxClock /\ clock' \in 1 .. MaxClock + 1 /\ clock' \in Nat
  BY <1>0, <1>1 DEF CreateNewChat, SmsTypeOK
<1>3. inbox' \in Seq(Event) /\ Range(inbox') = Range(inbox) \cup {e}
  <2>1. e \in Event
    BY DEF Event
  <2>2. inbox \in Seq(Event) /\ inbox' = inbox \o <<e>>
    BY <1>0 DEF CreateNewChat, Gives, WindowTypeOK
  <2> HIDE DEF e
  <2>3. <<e>> \in Seq(Event) /\ Range(<<e>>) = {e}
    BY <2>1, InOne, Zenon
  <2>4. inbox \o <<e>> \in Seq(Event) /\ Range(inbox \o <<e>>) = Range(inbox) \cup Range(<<e>>)
    BY <2>2, <2>3, InJoined, Zenon
  <2>. QED BY <2>2, <2>3, <2>4
<1>4. SmsTypeOK' /\ CacheCoversFile'
  BY <1>0, <1>1, <1>2 DEF SmsInv, SmsTypeOK, CacheCoversFile
<1>5. convs' \in [Chat -> 0 .. MaxDate] /\ \A t \in Thread : convs'[t] = convs[t]
  <2>1. clock + DesktopAhead \in 0 .. MaxDate
    BY <1>2, LagIs
  <2>. QED BY <1>0, <1>1, <2>1 DEF WindowTypeOK, Chat
<1>6. WindowTypeOK'
  BY <1>0, <1>1, <1>3, <1>5 DEF WindowTypeOK
<1>7. DeletedStaysAway' /\ OpenIsListed'
  BY <1>0, <1>1, <1>5 DEF DeletedStaysAway, OpenIsListed, WindowTypeOK
<1>8. FromPhone'
  <2>1. \A m \in phone : m.id < clock'
    BY <1>0, <1>1, <1>2, MessageIs DEF FromPhone, SmsTypeOK
  <2>3. e.type = "select"
    OBVIOUS
  <2>. QED BY <1>0, <1>1, <1>3, <2>1, <2>3 DEF FromPhone
<1>9. ReadInv'
  <2>1. e.type # "conversations"
    OBVIOUS
  <2>. QED BY <1>0, <1>1, <1>2, <1>3, <1>5, <2>1, ReadKept
<1>. QED BY <1>4, <1>6, <1>7, <1>8, <1>9 DEF SmsInv

LEMMA DeleteConversationStep ==
    ASSUME SmsInv, NEW u \in Chat, DeleteConversation(u)
    PROVE  SmsInv'
<1>0. /\ SmsTypeOK /\ WindowTypeOK /\ FromPhone /\ DeletedStaysAway /\ OpenIsListed
      /\ NoThread \notin Thread /\ MaxDate \in Nat /\ clock \in Nat
  BY SmsAssumption, LagIs DEF SmsInv, SmsTypeOK
<1>1. /\ phone' = phone /\ clock' = clock /\ linked' = linked /\ requests' = requests /\ wire' = wire
      /\ memory' = memory /\ file' = file
      /\ stream' = stream /\ inbox' = inbox /\ lastSeen' = lastSeen /\ unheard' = unheard
      /\ convs' = [convs EXCEPT ![u] = 0]
      /\ hidden' = hidden \cup ({u} \cap Thread)
      /\ \/ selected = u /\ selected' = NoThread
         \/ selected # u /\ selected' = selected
  BY DEF DeleteConversation, smsVars, shown
<1>2. SmsTypeOK' /\ CacheCoversFile'
  BY <1>0, <1>1 DEF SmsInv, SmsTypeOK, CacheCoversFile
<1>3. /\ convs' \in [Chat -> 0 .. MaxDate] /\ convs'[u] = 0
      /\ \A t \in Chat : t # u => convs'[t] = convs[t]
  BY <1>0, <1>1 DEF WindowTypeOK
<1>4. hidden' \in SUBSET Thread
  BY <1>0, <1>1 DEF WindowTypeOK
<1>5. WindowTypeOK'
  BY <1>0, <1>1, <1>3, <1>4 DEF WindowTypeOK
<1>6. DeletedStaysAway' /\ OpenIsListed'
  <2>1. \A t \in hidden' : convs'[t] = 0
    BY <1>0, <1>1, <1>3, <1>4 DEF DeletedStaysAway, Chat
  <2>2. selected' \notin hidden'
    BY <1>0, <1>1, <1>4 DEF DeletedStaysAway
  <2>3. selected' \in Thread => convs'[selected'] # 0
    BY <1>0, <1>1, <1>3 DEF OpenIsListed, Chat
  <2>. QED BY <2>1, <2>2, <2>3 DEF DeletedStaysAway, OpenIsListed
<1>7. FromPhone'
  BY <1>0, <1>1, <1>3 DEF FromPhone
<1>8. ReadInv'
  <2>1. CASE selected = u
    BY <1>0, <1>1, <2>1 DEF ReadInv
  <2>2. CASE selected # u
    <3>1. \A t \in Thread : t = selected => convs'[t] = convs[t]
      BY <1>3, <2>2 DEF Chat
    <3>. QED BY <1>0, <1>1, <1>3, <2>2, <3>1, ReadKept DEF WindowTypeOK
  <2>. QED BY <2>1, <2>2
<1>. QED BY <1>2, <1>5, <1>6, <1>7, <1>8 DEF SmsInv

-----------------------------------------------------------------------------
(***************************************************************************)
(* The SMS window: the theorems.                                           *)
(***************************************************************************)

LEMMA SmsStep == SmsInv /\ [WindowNext]_vars => SmsInv'
<1> SUFFICES ASSUME SmsInv, [WindowNext]_vars PROVE SmsInv'
  OBVIOUS
<1>1. CASE UNCHANGED vars
  <2>1. SmsTypeOK' /\ WindowTypeOK' /\ CacheCoversFile'
    BY <1>1 DEF vars, smsVars, windowVars, SmsInv, SmsTypeOK, WindowTypeOK, CacheCoversFile
  <2>2. DeletedStaysAway' /\ OpenIsListed'
    BY <1>1, ListStays DEF vars, windowVars
  <2>3. FromPhone' /\ ReadInv'
    BY <1>1 DEF vars, smsVars, windowVars, SmsInv, FromPhone, ReadInv, WillBeRead, Coming, Holds,
                Latest
  <2>. QED BY <2>1, <2>2, <2>3 DEF SmsInv
<1>2. CASE PhoneNext /\ UNCHANGED windowVars
  BY <1>2, PhoneConversationsStep, PhoneConversationStep, PhoneSmsStep, PhoneConnectsStep,
     SeedCacheStep DEF PhoneNext
<1>3. CASE StreamNext
  BY <1>3, OpensStep, ListensStep, StreamEndsStep, SmsMessagesReceivedStep, LinkBreaksStep,
     ServiceLostStep, HappensOnPhoneStep DEF StreamNext
<1>4. CASE UpdateNext
  BY <1>4, HandleMessagesReceivedStep, HandleConversationsReceivedStep, SelectNewChatStep,
     SendMessageStep, CreateNewChatStep, LoadConversationsStep, SelectThreadStep,
     DeleteConversationStep DEF UpdateNext
<1>. QED BY <1>1, <1>2, <1>3, <1>4 DEF WindowNext

\* The list of conversations is given what the service has kept, no deleted
\* conversation comes back or stays open, the open one is in the list, and when
\* nothing is on its way it is newer than what is seen of it by no more than the
\* desktop's clock is ahead, however far apart the clocks are.
THEOREM ConversationsHold == WindowSpec => []WindowInv
<1>. QED BY SmsStarts, SmsStep, SmsHolds, PTL DEF WindowSpec

\* Nothing that was kept of the conversations is dropped message by message, whatever
\* answers come in what order and whatever of the phone's link, the service or its
\* writes fails: the file is lost as a whole or not at all, and what the memory has
\* comes back with the next packet saved.
THEOREM SavedSmsStay == WindowSpec => SavedSmsAreKept
<1> DEFINE Kept == /\ \/ file \subseteq file'
                      \/ file' = {} /\ (wire' # wire \/ ~linked')
                   /\ memory # NoCache =>
                         /\ memory' # NoCache => memory \subseteq memory'
                         /\ file' \in {file, {}} \/ memory \subseteq file'
<1>1. SmsInv /\ [WindowNext]_vars => [Kept]_smsVars
  <2> SUFFICES ASSUME SmsInv, WindowNext \/ UNCHANGED vars
               PROVE  Kept \/ UNCHANGED smsVars
    OBVIOUS
  <2>0. wire # <<>> => /\ file \subseteq MergeSmsCache(Head(wire))
                       /\ memory # NoCache => memory \subseteq MergeSmsCache(Head(wire))
    BY MergedIs DEF MergeSmsCache, CachedSms
  <2>1. UNCHANGED cache => Kept
    BY DEF cache
  <2>2. CASE UNCHANGED vars
    BY <2>2 DEF vars
  <2>3. CASE PhoneNext /\ UNCHANGED windowVars
    <3>1. CASE SeedCache
      BY <3>1 DEF SeedCache
    <3>2. CASE PhoneConversations \/ PhoneConversation \/ PhoneSms \/ PhoneConnects
      <4>1. UNCHANGED cache
        BY <3>2 DEF PhoneConversations, PhoneConversation, PhoneSms, PhoneConnects
      <4>. QED BY <2>1, <4>1
    <3>. QED BY <2>3, <3>1, <3>2 DEF PhoneNext
  <2>4. CASE SmsMessages
    <3>1. /\ wire # <<>> /\ wire' = Tail(wire) /\ memory' = MergeSmsCache(Head(wire))
          /\ file' \in {MergeSmsCache(Head(wire)), file, {}}
      BY <2>4 DEF SmsMessages
    <3>2. wire' # wire
      <4>1. wire \in Seq(SUBSET Message)
        BY DEF SmsInv, SmsTypeOK
      <4>2. Len(Tail(wire)) = Len(wire) - 1 /\ Len(wire) \in Nat
        BY <3>1, <4>1
      <4>3. Tail(wire) # wire
        BY <4>2
      <4>. QED BY <3>1, <4>3
    <3>. QED BY <2>0, <3>1, <3>2
  <2>5. CASE ServiceLost
    <3>1. /\ memory' = NoCache /\ linked' = FALSE
          /\ \/ file' \in {file, {}}
             \/ wire # <<>> /\ file' = MergeSmsCache(Head(wire))
      BY <2>5 DEF ServiceLost, ServiceRestarts
    <3>. QED BY <2>0, <3>1
  <2>6. CASE LinkBreaks
    <3>1. memory' = memory /\ linked' = FALSE /\ file' \in {file, {}}
      BY <2>6 DEF LinkBreaks, LinkLost, Unpairs, Unlinks, cache
    <3>. QED BY <3>1
  <2>7. CASE StreamNext
    <3>1. CASE Opens \/ Listens \/ StreamEnds \/ \E t \in Thread, own \in BOOLEAN : HappensOnPhone(t, own)
      <4>1. UNCHANGED cache
        BY <3>1 DEF Opens, Listens, StreamEnds, HappensOnPhone, PhoneMessage, smsVars, cache
      <4>. QED BY <2>1, <4>1
    <3>. QED BY <2>4, <2>5, <2>6, <2>7, <3>1 DEF StreamNext, SmsMessagesReceived
  <2>8. CASE UpdateNext
    <3>1. UNCHANGED cache
      BY <2>8 DEF UpdateNext, HandleMessagesReceived, HandleConversationsReceived, SelectNewChat,
                  SelectThread, Selects, SendMessage, CreateNewChat, LoadConversations,
                  DeleteConversation, smsVars, cache
    <3>. QED BY <2>1, <3>1
  <2>. QED BY <2>2, <2>3, <2>7, <2>8 DEF WindowNext
<1>. QED BY <1>1, SmsStarts, SmsStep, PTL DEF WindowSpec, SavedSmsAreKept

-----------------------------------------------------------------------------
(***************************************************************************)
(* The SMS window: one message is inserted or merged.                      *)
(***************************************************************************)

Unique(msgs) == \A i, j \in DOMAIN msgs : i # j => msgs[i].id # msgs[j].id

\* With unique IDs the rebuilt index finds every message where it is, and no
\* other index does.
LEMMA RebuiltIs ==
    ASSUME NEW msgs, Unique(msgs)
    PROVE  /\ DOMAIN Rebuilt(msgs).byId = {msgs[i].id : i \in DOMAIN msgs}
           /\ \A i \in DOMAIN msgs : Rebuilt(msgs).byId[msgs[i].id] = i
           /\ Rebuilt(msgs).pending = {i \in DOMAIN msgs : IsSending(msgs[i]) /\ msgs[i].own}
           /\ Rebuilt(msgs) = [byId |-> Rebuilt(msgs).byId, pending |-> Rebuilt(msgs).pending]
<1>1. ASSUME NEW i \in DOMAIN msgs PROVE Rebuilt(msgs).byId[msgs[i].id] = i
  <2>1. Rebuilt(msgs).byId[msgs[i].id] = CHOOSE j \in DOMAIN msgs : msgs[j].id = msgs[i].id
    BY DEF Rebuilt
  <2>2. \A j \in DOMAIN msgs : msgs[j].id = msgs[i].id => j = i
    BY DEF Unique
  <2>. QED BY <2>1, <2>2
<1>. QED BY <1>1 DEF Rebuilt

LEMMA IndexIs ==
    ASSUME NEW msgs, Unique(msgs), NEW f,
           f = [n \in {msgs[i].id : i \in DOMAIN msgs} |-> f[n]],
           \A i \in DOMAIN msgs : f[msgs[i].id] = i
    PROVE  f = Rebuilt(msgs).byId
<1> DEFINE ids == {msgs[i].id : i \in DOMAIN msgs}
           g == Rebuilt(msgs).byId
<1>1. \A n \in ids : f[n] = g[n]
  BY RebuiltIs
<1>2. g = [n \in ids |-> g[n]]
  BY DEF Rebuilt
<1>. QED BY <1>1, <1>2

LEMMA LeastOf ==
    ASSUME NEW S, S \subseteq Nat, S # {}
    PROVE  Min(S) \in S
BY LeastIs DEF Min

\* What is shown once a message has come to a list whose index is right: it is
\* there once, in the place of one being sent or at the end, nothing else is lost,
\* and the index agrees with the list.
Keeps(msgs, m, new) ==
    /\ new = [messages |-> new.messages, index |-> new.index]
    /\ new.messages \in Seq(Displayed) /\ Unique(new.messages)
    /\ new.index = Rebuilt(new.messages)
    /\ \E i \in DOMAIN new.messages : new.messages[i].id = m.id
    /\ \A i \in DOMAIN msgs :
          \/ i \in DOMAIN new.messages /\ new.messages[i] = msgs[i]
          \/ IsSending(msgs[i]) /\ new.messages[i].id = m.id

\* What an index holds that agrees with a list.
Agrees(ix, msgs) ==
    /\ DOMAIN ix.byId = {msgs[i].id : i \in DOMAIN msgs}
    /\ \A i \in DOMAIN msgs : ix.byId[msgs[i].id] = i
    /\ ix.pending = {i \in DOMAIN msgs : IsSending(msgs[i]) /\ msgs[i].own}

Replaces(msgs, m, new) ==
    \E s \in Range(msgs) :
       /\ IsSending(s) /\ s.own /\ m.own
       /\ Range(new.messages) = (Range(msgs) \ {s}) \cup {m}

LEMMA EchoTakesPlace ==
    ASSUME NEW msgs \in Seq(Displayed), Unique(msgs),
           NEW ix, Agrees(ix, msgs),
           NEW list, list = [messages |-> msgs, index |-> ix],
           NEW m \in Message, m \in Displayed, ~IsSending(m), m.id \notin DOMAIN ix.byId,
           NEW echo, echo = (IF m.own THEN EchoOf(list, m) ELSE {}), echo # {},
           NEW new, new = InsertOrMerge(list, m)
    PROVE  Keeps(msgs, m, new) /\ Replaces(msgs, m, new)
<1>1. PICK pos : pos = Min(echo)
  OBVIOUS
<1>2. PICK msgs2 : msgs2 = [msgs EXCEPT ![pos].id = m.id, ![pos].thread = m.thread]
  OBVIOUS
<1>3. PICK at : at = Placed([n \in DOMAIN ix.byId \ {msgs[pos].id} |-> ix.byId[n]], m.id, pos)
  OBVIOUS
<1>4. PICK rest : rest = ix.pending \ {pos}
  OBVIOUS
<1>5. new.messages = msgs2 /\ new.index = [byId |-> at, pending |-> rest]
  <2>1. new = [messages |-> msgs2, index |-> [byId |-> at, pending |-> rest]]
    BY <1>1, <1>2, <1>3, <1>4 DEF InsertOrMerge
  <2>. QED BY <2>1
<1> DEFINE ids == {msgs[i].id : i \in DOMAIN msgs}
           old == msgs[pos].id
<1>6. Len(msgs) \in Nat /\ DOMAIN msgs = 1 .. Len(msgs) /\ \A i \in DOMAIN msgs : msgs[i] \in Displayed
  OBVIOUS
<1>7. pos \in DOMAIN msgs /\ IsSending(msgs[pos]) /\ msgs[pos].own
  <2>1. echo \subseteq ix.pending
    BY DEF EchoOf
  <2>2. echo \subseteq DOMAIN msgs /\ echo \subseteq Nat
    BY <1>6, <2>1 DEF Agrees
  <2>3. pos \in echo
    BY <1>1, <2>2, LeastOf
  <2>. QED BY <2>1, <2>3 DEF Agrees
<1>8. /\ DOMAIN msgs2 = DOMAIN msgs
      /\ msgs2[pos] = [id |-> m.id, thread |-> m.thread, own |-> msgs[pos].own]
      /\ \A i \in DOMAIN msgs : i # pos => msgs2[i] = msgs[i]
  BY <1>2, <1>6, <1>7 DEF Displayed
<1>9. msgs2[pos] \in Displayed
  BY <1>6, <1>7, <1>8 DEF Displayed
<1>10. msgs2 \in Seq(Displayed)
  <2>1. \A i \in DOMAIN msgs2 : msgs2[i] \in Displayed
    BY <1>6, <1>8, <1>9
  <2>2. msgs2 = [i \in 1 .. Len(msgs) |-> msgs2[i]]
    BY <1>2, <1>6
  <2>3. msgs2 \in [1 .. Len(msgs) -> Displayed]
    BY <1>6, <1>8, <2>1, <2>2
  <2>. QED BY <1>6, <2>3
<1>11. Unique(msgs2)
  BY <1>8 DEF Unique, Agrees
<1>12. {msgs2[i].id : i \in DOMAIN msgs2} = {m.id} \cup (ids \ {old})
  BY <1>7, <1>8 DEF Unique
<1>13. at = Rebuilt(msgs2).byId
  <2>1. at = [n \in {m.id} \cup (ids \ {old}) |-> IF n = m.id THEN pos ELSE ix.byId[n]]
    BY <1>3 DEF Placed, Agrees
  <2>2. \A i \in DOMAIN msgs2 : at[msgs2[i].id] = i
    BY <1>7, <1>8, <1>12, <2>1 DEF Unique, Agrees
  <2>. QED BY <1>11, <1>12, <2>1, <2>2, IndexIs
<1>14. rest = Rebuilt(msgs2).pending
  <2>1. ~IsSending(msgs2[pos])
    BY <1>8 DEF IsSending
  <2>. QED BY <1>4, <1>8, <1>11, <2>1, RebuiltIs DEF Agrees
<1>15. new.index = Rebuilt(new.messages)
  BY <1>5, <1>11, <1>13, <1>14, RebuiltIs
<1>16. Keeps(msgs, m, new)
  <2>1. new = [messages |-> new.messages, index |-> new.index]
    BY <1>1, <1>2, <1>3, <1>4 DEF InsertOrMerge
  <2>. QED BY <1>5, <1>7, <1>8, <1>10, <1>11, <1>15, <2>1 DEF Keeps
\* The one that is replaced is shown nowhere else.
<1>17. m.own /\ msgs2[pos] = m
  <2>1. m.own
    OBVIOUS
  <2>2. m = [id |-> m.id, thread |-> m.thread, own |-> TRUE]
    BY <2>1 DEF Message
  <2>3. msgs[pos].own = TRUE
    BY <1>6, <1>7 DEF Displayed
  <2>. QED BY <1>8, <2>1, <2>2, <2>3
<1>18. Range(msgs2) = (Range(msgs) \ {msgs[pos]}) \cup {m}
  <2>1. \A i \in DOMAIN msgs : i # pos => msgs[i] # msgs[pos]
    BY <1>7 DEF Unique
  <2>2. \A i \in DOMAIN msgs : msgs2[i] \in (Range(msgs) \ {msgs[pos]}) \cup {m}
    BY <1>8, <1>17, <2>1 DEF Range
  <2>3. \A i \in DOMAIN msgs : msgs[i] # msgs[pos] => msgs[i] \in Range(msgs2)
    BY <1>8 DEF Range
  <2>4. m \in Range(msgs2)
    BY <1>7, <1>8, <1>17 DEF Range
  <2>. QED BY <1>8, <2>2, <2>3, <2>4 DEF Range
<1>19. msgs[pos] \in Range(msgs)
  BY <1>7 DEF Range
<1>. QED BY <1>5, <1>7, <1>16, <1>17, <1>18, <1>19 DEF Replaces

LEMMA GoesToTheEnd ==
    ASSUME NEW msgs \in Seq(Displayed), Unique(msgs),
           NEW ix, Agrees(ix, msgs),
           NEW list, list = [messages |-> msgs, index |-> ix],
           NEW m \in Message, m \in Displayed, ~IsSending(m), m.id \notin DOMAIN ix.byId,
           (IF m.own THEN EchoOf(list, m) ELSE {}) = {},
           NEW new, new = InsertOrMerge(list, m)
    PROVE  Keeps(msgs, m, new) /\ Range(new.messages) = Range(msgs) \cup {m}
<1>1. PICK end : end = Len(msgs) + 1
  OBVIOUS
<1>2. PICK msgs2 : msgs2 = Append(msgs, m)
  OBVIOUS
<1>3. PICK at : at = Placed(ix.byId, m.id, end)
  OBVIOUS
<1>4. new = [messages |-> msgs2, index |-> [byId |-> at, pending |-> ix.pending]]
  BY <1>1, <1>2, <1>3 DEF InsertOrMerge
<1>5. new.messages = msgs2 /\ new.index = [byId |-> at, pending |-> ix.pending]
  BY <1>4
<1> DEFINE ids == {msgs[i].id : i \in DOMAIN msgs}
<1>6. Len(msgs) \in Nat /\ DOMAIN msgs = 1 .. Len(msgs)
  OBVIOUS
<1>7. /\ msgs2 \in Seq(Displayed) /\ DOMAIN msgs2 = DOMAIN msgs \cup {end}
      /\ msgs2[end] = m /\ end \notin DOMAIN msgs
      /\ \A i \in DOMAIN msgs : msgs2[i] = msgs[i]
  BY <1>1, <1>2, <1>6
<1>8. Unique(msgs2)
  BY <1>7 DEF Unique, Agrees
<1>9. {msgs2[i].id : i \in DOMAIN msgs2} = ids \cup {m.id}
  BY <1>7
<1>10. at = Rebuilt(msgs2).byId
  <2>1. at = [n \in ids \cup {m.id} |-> IF n = m.id THEN end ELSE ix.byId[n]]
    BY <1>3 DEF Placed, Agrees
  <2>2. \A i \in DOMAIN msgs2 : at[msgs2[i].id] = i
    BY <1>7, <2>1 DEF Agrees
  <2>. QED BY <1>8, <1>9, <2>1, <2>2, IndexIs
<1>11. ix.pending = Rebuilt(msgs2).pending
  BY <1>7, <1>8, RebuiltIs DEF Agrees
<1>12. new.index = Rebuilt(new.messages)
  BY <1>5, <1>8, <1>10, <1>11, RebuiltIs
<1>13. Keeps(msgs, m, new)
  <2>1. new = [messages |-> new.messages, index |-> new.index]
    BY <1>4, <1>5
  <2>. QED BY <1>5, <1>7, <1>8, <1>12, <2>1 DEF Keeps
<1>14. Range(msgs2) = Range(msgs) \cup {m}
  BY <1>7 DEF Range
<1>. QED BY <1>5, <1>13, <1>14

\* What is shown instead: the same, the message for one being sent that it echoes,
\* or the message as well, which is then no echo.
Inserts(msgs, m, new) ==
    \/ Range(new.messages) = Range(msgs)
    \/ Replaces(msgs, m, new)
    \/ /\ Range(new.messages) = Range(msgs) \cup {m}
       /\ m.own => \A s \in Range(msgs) : IsSending(s) /\ s.own =>
             Date(s) - Date(m) >= EchoWindow \/ Date(m) - Date(s) >= EchoWindow

\* Whatever is shown and whatever message comes, in whatever order: it is shown
\* once, in the place of the optimistic message it echoes or at the end, nothing
\* else is lost, and the index agrees with the list (insert_or_merge in app.rs).
THEOREM InsertKeepsIndex ==
    ASSUME NEW msgs \in Seq(Displayed), Unique(msgs), NEW m \in Message,
           NEW list, list = [messages |-> msgs, index |-> Rebuilt(msgs)]
    PROVE  Keeps(msgs, m, InsertOrMerge(list, m)) /\ Inserts(msgs, m, InsertOrMerge(list, m))
<1>1. PICK ix : ix = Rebuilt(msgs)
  OBVIOUS
<1>2. PICK echo : echo = (IF m.own THEN EchoOf(list, m) ELSE {})
  OBVIOUS
<1>3. PICK new : new = InsertOrMerge(list, m)
  OBVIOUS
<1>4. Agrees(ix, msgs) /\ list = [messages |-> msgs, index |-> ix]
  BY <1>1, RebuiltIs DEF Agrees
<1>5. list.messages = msgs /\ list.index = ix
  BY <1>4
<1>6. m \in Displayed /\ ~IsSending(m)
  BY MessageIs, SmsAssumption DEF Message, Displayed, Chat, IsSending
<1>7. CASE m.id \in DOMAIN ix.byId
  <2>1. new = list
    BY <1>3, <1>5, <1>7 DEF InsertOrMerge
  <2>2. Keeps(msgs, m, new)
    BY <1>1, <1>4, <1>5, <1>7, <2>1 DEF Keeps, Agrees
  <2>. QED BY <1>3, <1>5, <2>1, <2>2 DEF Inserts
<1>8. CASE m.id \notin DOMAIN ix.byId /\ echo # {}
  <2>1. Keeps(msgs, m, new) /\ Replaces(msgs, m, new)
    BY <1>2, <1>3, <1>4, <1>6, <1>8, EchoTakesPlace
  <2>2. Inserts(msgs, m, new)
    BY <2>1, Zenon DEF Inserts
  <2>. QED BY <1>3, <2>1, <2>2
<1>9. CASE m.id \notin DOMAIN ix.byId /\ echo = {}
  <2>1. Keeps(msgs, m, new) /\ Range(new.messages) = Range(msgs) \cup {m}
    BY <1>2, <1>3, <1>4, <1>6, <1>9, GoesToTheEnd
  <2>2. ASSUME m.own, NEW s \in Range(msgs), IsSending(s), s.own
        PROVE  Date(s) - Date(m) >= EchoWindow \/ Date(m) - Date(s) >= EchoWindow
    <3>1. PICK i \in DOMAIN msgs : s = msgs[i]
      BY DEF Range
    <3>2. i \in list.index.pending /\ i \notin EchoOf(list, m) /\ list.messages[i] = s
      BY <1>2, <1>4, <1>5, <1>9, <2>2, <3>1 DEF Agrees
    <3>3. ~(Date(s) - Date(m) < EchoWindow /\ Date(m) - Date(s) < EchoWindow)
      BY <3>2 DEF EchoOf
    <3>4. Date(s) \in Int /\ Date(m) \in Int /\ EchoWindow \in Int
      <4>1. MaxClock \in Nat /\ DesktopAhead \in Nat /\ EchoWindow \in Nat /\ Date(m) \in Nat
        BY MessageIs, LagIs, WindowAssumption
      <4>2. msgs[i] \in Displayed
        OBVIOUS
      <4>3. s.id \in Int
        BY <3>1, <4>1, <4>2 DEF Displayed
      <4>4. PhoneAhead \in Nat
        BY LagIs
      <4>. QED BY <4>1, <4>3, <4>4 DEF Date
    <3>. QED BY <3>3, <3>4
  <2>. QED BY <1>3, <2>1, <2>2 DEF Inserts
<1>. QED BY <1>7, <1>8, <1>9

-----------------------------------------------------------------------------
(***************************************************************************)
(* The SMS window: the list is sorted.                                     *)
(***************************************************************************)

Dated(msgs) == \A i \in DOMAIN msgs : Date(msgs[i]) \in Int

\* Of two positions exactly one comes first, and what comes before it is fewer.
LEMMA PlaceIs ==
    ASSUME NEW n \in Nat, NEW msgs, DOMAIN msgs = 1 .. n, Dated(msgs)
    PROVE  /\ \A i \in 1 .. n : Place(msgs, i) \in 1 .. n
           /\ \A i, j \in 1 .. n : i # j /\ NotAfter(msgs, i, j) =>
                 Place(msgs, i) < Place(msgs, j)
           /\ \A i, j \in 1 .. n : NotAfter(msgs, i, j) \/ NotAfter(msgs, j, i)
<1> DEFINE First(i) == {j \in 1 .. n : NotAfter(msgs, j, i)}
<1>0. IsFiniteSet(1 .. n) /\ Cardinality(1 .. n) = n
  BY FS_Interval
<1>1. ASSUME NEW i \in 1 .. n
      PROVE  /\ Place(msgs, i) = Cardinality(First(i))
             /\ First(i) \subseteq 1 .. n /\ i \in First(i)
             /\ IsFiniteSet(First(i)) /\ Cardinality(First(i)) \in Nat
             /\ Cardinality(First(i)) =< n
  <2>1. Place(msgs, i) = Cardinality(First(i))
    BY DEF Place
  <2>2. First(i) \subseteq 1 .. n /\ i \in First(i)
    BY DEF Dated, NotAfter
  <2> HIDE DEF First
  <2>3. IsFiniteSet(First(i)) /\ Cardinality(First(i)) =< n
    BY <1>0, <2>2, FS_Subset
  <2>4. Cardinality(First(i)) \in Nat
    BY <2>3, FS_CardinalityType
  <2>. QED BY <2>1, <2>2, <2>3, <2>4
<1>2. ASSUME NEW i \in 1 .. n PROVE Place(msgs, i) \in 1 .. n
  <2>1. PICK f : f = First(i)
    OBVIOUS
  <2>2. IsFiniteSet(f) /\ i \in f /\ Place(msgs, i) = Cardinality(f)
        /\ Cardinality(f) \in Nat /\ Cardinality(f) =< n
    BY <1>1, <2>1
  <2>3. Cardinality(f) # 0
    BY <2>2, FS_EmptySet
  <2>. QED BY <2>2, <2>3
<1>3. ASSUME NEW i \in 1 .. n, NEW j \in 1 .. n, i # j, NotAfter(msgs, i, j)
      PROVE  Place(msgs, i) < Place(msgs, j)
  <2>1. First(i) \subseteq First(j) /\ j \notin First(i)
    BY <1>3 DEF Dated, NotAfter
  <2>2. PICK f : f = First(i)
    OBVIOUS
  <2>3. PICK g : g = First(j)
    OBVIOUS
  <2>4. /\ IsFiniteSet(f) /\ IsFiniteSet(g) /\ f \subseteq g /\ j \in g /\ j \notin f
        /\ Place(msgs, i) = Cardinality(f) /\ Place(msgs, j) = Cardinality(g)
        /\ Cardinality(f) \in Nat /\ Cardinality(g) \in Nat
    BY <1>1, <2>1, <2>2, <2>3
  <2>5. Cardinality(f) =< Cardinality(g) /\ (Cardinality(f) = Cardinality(g) => f = g)
    BY <2>4, FS_Subset
  <2>. QED BY <2>4, <2>5
<1>4. ASSUME NEW i \in 1 .. n, NEW j \in 1 .. n
      PROVE  NotAfter(msgs, i, j) \/ NotAfter(msgs, j, i)
  BY DEF Dated, NotAfter
<1>. QED BY <1>2, <1>3, <1>4

\* Every place is taken.
LEMMA PlacesTaken ==
    ASSUME NEW n \in Nat, NEW msgs, DOMAIN msgs = 1 .. n, Dated(msgs), NEW k \in 1 .. n
    PROVE  \E i \in 1 .. n : Place(msgs, i) = k
<1>1. PICK f : f = [i \in 1 .. n |-> Place(msgs, i)]
  OBVIOUS
<1>2. \A i \in 1 .. n : f[i] \in 1 .. n /\ f[i] = Place(msgs, i)
  BY <1>1, PlaceIs
<1>3. \A i, j \in 1 .. n : i # j => f[i] # f[j]
  <2>1. ASSUME NEW i \in 1 .. n, NEW j \in 1 .. n, i # j, NotAfter(msgs, i, j)
        PROVE  f[i] # f[j]
    <3>1. Place(msgs, i) < Place(msgs, j)
      BY <2>1, PlaceIs
    <3>. QED BY <1>2, <3>1
  <2>2. \A i, j \in 1 .. n : NotAfter(msgs, i, j) \/ NotAfter(msgs, j, i)
    BY PlaceIs
  <2>. QED BY <2>1, <2>2
<1>4. PICK T : T = Range(f)
  OBVIOUS
<1>5. IsFiniteSet(1 .. n) /\ Cardinality(1 .. n) = n
  BY FS_Interval
<1>6. f \in Bijection(1 .. n, T)
  BY <1>1, <1>2, <1>3, <1>4 DEF Bijection, Injection, Surjection, IsInjective, Range
<1>7. Cardinality(T) = n /\ T \subseteq 1 .. n
  <2>1. ExistsBijection(1 .. n, T)
    BY <1>6 DEF ExistsBijection
  <2>2. T \subseteq 1 .. n
    BY <1>1, <1>2, <1>4 DEF Range
  <2>. QED BY <1>5, <2>1, <2>2, FS_Bijection
<1>8. T = 1 .. n
  BY <1>5, <1>7, FS_Subset
<1>9. k \in Range(f)
  BY <1>4, <1>8
<1>. QED BY <1>1, <1>2, <1>9 DEF Range

\* Whatever the list: sorting it moves its messages and loses and doubles none, the
\* result goes by date, and messages of one date stay as they were (sort_by_key in
\* handle_messages_received and send_message).
THEOREM ByDateSorts ==
    ASSUME NEW n \in Nat, NEW msgs, DOMAIN msgs = 1 .. n, Dated(msgs)
    PROVE  \E p \in Bijection(1 .. n, 1 .. n) :
              /\ ByDate(msgs) = [k \in 1 .. n |-> msgs[p[k]]]
              /\ \A k, l \in 1 .. n : k < l =>
                    \/ Date(ByDate(msgs)[k]) < Date(ByDate(msgs)[l])
                    \/ Date(ByDate(msgs)[k]) = Date(ByDate(msgs)[l]) /\ p[k] < p[l]
<1>1. PICK p : p = [k \in 1 .. n |-> CHOOSE i \in 1 .. n : Place(msgs, i) = k]
  OBVIOUS
<1>2. \A k \in 1 .. n : p[k] \in 1 .. n /\ Place(msgs, p[k]) = k
  <2>1. ASSUME NEW k \in 1 .. n PROVE p[k] \in 1 .. n /\ Place(msgs, p[k]) = k
    <3>1. p[k] = CHOOSE i \in 1 .. n : Place(msgs, i) = k
      BY <1>1
    <3>2. \E i \in 1 .. n : Place(msgs, i) = k
      BY PlacesTaken
    <3>. QED BY <3>1, <3>2, Zenon
  <2>. QED BY <2>1
<1>3. ASSUME NEW i \in 1 .. n, NEW j \in 1 .. n, Place(msgs, i) = Place(msgs, j)
      PROVE  i = j
  <2>1. NotAfter(msgs, i, j) \/ NotAfter(msgs, j, i)
    BY PlaceIs
  <2>2. i # j => Place(msgs, i) < Place(msgs, j) \/ Place(msgs, j) < Place(msgs, i)
    BY <2>1, PlaceIs
  <2>3. Place(msgs, i) \in Int
    BY PlaceIs
  <2>. QED BY <1>3, <2>2, <2>3
<1>4. \A i \in 1 .. n : Place(msgs, i) \in 1 .. n
  BY PlaceIs
<1>5. p \in Bijection(1 .. n, 1 .. n)
  <2>1. \A i \in 1 .. n : \E k \in 1 .. n : p[k] = i
    BY <1>2, <1>3, <1>4
  <2>2. p \in [1 .. n -> 1 .. n]
    BY <1>1, <1>2
  <2>3. \A k, l \in 1 .. n : p[k] = p[l] => k = l
    BY <1>2
  <2>4. p \in Injection(1 .. n, 1 .. n)
    BY <2>2, <2>3 DEF Injection, IsInjective
  <2>5. p \in Surjection(1 .. n, 1 .. n)
    BY <2>1, <2>2 DEF Surjection
  <2>. QED BY <2>4, <2>5 DEF Bijection
<1>6. ByDate(msgs) = [k \in 1 .. n |-> msgs[p[k]]]
  BY <1>1 DEF ByDate
<1>7. ASSUME NEW k \in 1 .. n, NEW l \in 1 .. n, k < l
      PROVE  \/ Date(ByDate(msgs)[k]) < Date(ByDate(msgs)[l])
             \/ Date(ByDate(msgs)[k]) = Date(ByDate(msgs)[l]) /\ p[k] < p[l]
  <2>1. PICK i \in 1 .. n : i = p[k] /\ Place(msgs, i) = k
    BY <1>2
  <2>2. PICK j \in 1 .. n : j = p[l] /\ Place(msgs, j) = l
    BY <1>2
  <2>3. i # j /\ ~NotAfter(msgs, j, i)
    <3>1. NotAfter(msgs, j, i) /\ i # j => Place(msgs, j) < Place(msgs, i)
      BY PlaceIs
    <3>. QED BY <1>7, <2>1, <2>2, <3>1
  <2>4. ByDate(msgs)[k] = msgs[i] /\ ByDate(msgs)[l] = msgs[j]
    BY <1>6, <2>1, <2>2
  <2>. QED BY <2>1, <2>2, <2>3, <2>4 DEF NotAfter, Dated
<1>. QED BY <1>5, <1>6, <1>7

-----------------------------------------------------------------------------
(***************************************************************************)
(* The SMS window: the messages of a batch, one after another.             *)
(***************************************************************************)

\* A set with 0 that has n + 1 with every n has every natural number.
LEMMA StepsReachAll ==
    ASSUME NEW S, 0 \in S, \A n \in Nat : n \in S => n + 1 \in S
    PROVE  \A n \in Nat : n \in S
<1> DEFINE T == Nat \ S
<1> SUFFICES ASSUME T # {} PROVE FALSE
  OBVIOUS
<1>1. PICK x \in T : \A y \in T : x =< y
  BY LeastIs
<1>2. x # 0 /\ x - 1 \in Nat /\ x - 1 \notin T
  BY <1>1
<1>3. (x - 1) + 1 \in S
  BY <1>2
<1>. QED BY <1>1, <1>3

\* The lists after each of the first n messages of a batch.
Insertions(f, n, list, batch) ==
    f = [k \in 0 .. n |-> IF k = 0 THEN list ELSE InsertOrMerge(f[k - 1], batch[k])]

LEMMA InsertionsGoOn ==
    ASSUME NEW list, NEW batch, NEW n \in Nat, NEW g, Insertions(g, n, list, batch)
    PROVE  \E h : Insertions(h, n + 1, list, batch)
<1>1. PICK next : next = InsertOrMerge(g[n], batch[n + 1])
  OBVIOUS
<1>2. PICK h : h = [k \in 0 .. n + 1 |-> IF k = n + 1 THEN next ELSE g[k]]
  OBVIOUS
<1>3. PICK r : r = [k \in 0 .. n + 1 |->
                      IF k = 0 THEN list ELSE InsertOrMerge(h[k - 1], batch[k])]
  OBVIOUS
<1>4. ASSUME NEW k \in 0 .. n + 1 PROVE h[k] = r[k]
  <2>1. CASE k = 0
    BY <1>2, <1>3, <2>1 DEF Insertions
  <2>2. CASE k = n + 1
    <3>1. k # 0 /\ k - 1 = n /\ n \in 0 .. n + 1 /\ n # n + 1
      BY <2>2
    <3>2. h[k] = next /\ h[n] = g[n]
      BY <1>2, <2>2, <3>1
    <3>3. r[k] = InsertOrMerge(h[n], batch[k])
      BY <1>3, <3>1
    <3>. QED BY <1>1, <2>2, <3>2, <3>3
  <2>3. CASE k \in 1 .. n
    <3>1. k - 1 \in 0 .. n /\ k - 1 \in 0 .. n + 1 /\ k - 1 # n + 1 /\ k # n + 1 /\ k # 0
          /\ k \in 0 .. n
      BY <2>3
    <3>2. h[k] = g[k] /\ h[k - 1] = g[k - 1]
      BY <1>2, <3>1
    <3>3. g[k] = InsertOrMerge(g[k - 1], batch[k])
      BY <3>1 DEF Insertions
    <3>4. r[k] = InsertOrMerge(h[k - 1], batch[k])
      BY <1>3, <3>1
    <3>. QED BY <3>2, <3>3, <3>4
  <2>. QED BY <2>1, <2>2, <2>3
<1>5. h = r
  <2>1. h = [k \in 0 .. n + 1 |-> h[k]] /\ r = [k \in 0 .. n + 1 |-> r[k]]
    BY <1>2, <1>3
  <2>. QED BY <1>4, <2>1
<1>6. Insertions(h, n + 1, list, batch)
  BY <1>3, <1>5 DEF Insertions
<1>. QED BY <1>6

LEMMA InsertionsAre ==
    ASSUME NEW list, NEW batch, NEW n \in Nat
    PROVE  \E f : Insertions(f, n, list, batch)
<1> DEFINE S == {k \in Nat : \E f : Insertions(f, k, list, batch)}
<1>1. 0 \in S
  <2>1. PICK f : f = [k \in 0 .. 0 |-> list]
    OBVIOUS
  <2>2. Insertions(f, 0, list, batch)
    <3>1. \A k \in 0 .. 0 : k = 0
      OBVIOUS
    <3>. QED BY <2>1, <3>1 DEF Insertions
  <2>. QED BY <2>2
<1>2. \A k \in Nat : k \in S => k + 1 \in S
  BY InsertionsGoOn
<1> HIDE DEF S
<1>3. n \in S
  BY <1>1, <1>2, StepsReachAll
<1>. QED BY <1>3 DEF S

\* What the loop leaves is the last of its lists.
LEMMA InsertAllIs ==
    ASSUME NEW list, NEW batch, Len(batch) \in Nat
    PROVE  \E f : Insertions(f, Len(batch), list, batch) /\ InsertAll(list, batch) = f[Len(batch)]
<1>1. PICK n \in Nat : n = Len(batch)
  OBVIOUS
<1>2. PICK f : f = CHOOSE g : Insertions(g, n, list, batch)
  OBVIOUS
<1>3. Insertions(f, n, list, batch)
  BY <1>2, InsertionsAre, Zenon
<1>4. InsertAll(list, batch) = f[n]
  BY <1>1, <1>2, Zenon DEF InsertAll, Insertions
<1>. QED BY <1>1, <1>3, <1>4

-----------------------------------------------------------------------------
(***************************************************************************)
(* The SMS window: the inductive invariant of the open thread.             *)
(***************************************************************************)

Shows(msgs, id) == \E s \in Range(msgs) : s.id = id

OwnOf(msgs) == {m \in msgs : m.own}
Unsent == {i \in DOMAIN requests : requests[i].type = "send"}
SentByUser == Cardinality(OwnOf(phone)) + Cardinality(Unsent)

\* What is shown is of the open thread, sent before the clock's time, and the
\* phone's unless it is being sent.
Real(msgs) ==
    \A s \in Range(msgs) :
       /\ s.thread = selected \/ (s.thread = NewChat /\ selected = NewFor)
       /\ -clock < s.id
       /\ IsSending(s) \/ s \in phone

\* Each message of the user's that is shown has one on the phone or on its way to it,
\* if no report is too late to be taken for an echo.
OwnBound(msgs) ==
    EchoWindow >= MaxDate /\ ~unheard =>
        Cardinality(OwnOf(Range(msgs))) =< SentByUser

Sound(msgs) ==
    /\ msgs \in Seq(Displayed) /\ Unique(msgs)
    /\ Real(msgs) /\ OwnBound(msgs)

\* The phone will send message m, or it is on its way to the window.
OnItsWay(m) ==
    \/ [type |-> "conversation", thread |-> m.thread] \in Range(requests)
    \/ \E batch \in Range(wire) : m \in batch
    \/ \E e \in Range(inbox) : e.type = "messages" /\ m \in e.batch

CompleteInv ==
    selected \in Thread /\ ~unheard =>
        \A m \in OfThread(phone, selected) : OnItsWay(m) \/ Shows(messages, m.id)

ShownInv ==
    /\ Sound(messages) /\ index = Rebuilt(messages)
    /\ IsFiniteSet(phone) /\ CompleteInv

LEMMA ListIsFinite ==
    ASSUME NEW S, NEW q \in Seq(S)
    PROVE  IsFiniteSet(Range(q)) /\ IsFiniteSet(DOMAIN q)
<1>1. Len(q) \in Nat /\ DOMAIN q = 1 .. Len(q)
  OBVIOUS
<1>2. IsFiniteSet(DOMAIN q)
  BY <1>1, FS_Interval
<1>3. q \in Surjection(DOMAIN q, Range(q))
  BY DEF Surjection, Range
<1>. QED BY <1>2, <1>3, FS_Surjection

LEMMA UnsentIs ==
    ASSUME SmsTypeOK
    PROVE  IsFiniteSet(Unsent) /\ Cardinality(Unsent) \in Nat
<1>1. IsFiniteSet(DOMAIN requests) /\ Unsent \in SUBSET DOMAIN requests
  BY ListIsFinite DEF SmsTypeOK, Unsent
<1>. QED BY <1>1, FS_Subset, FS_CardinalityType

\* What is shown has a date.
LEMMA DisplayedIs ==
    ASSUME NEW s \in Displayed
    PROVE  /\ s.id \in Int /\ s.id # 0 /\ s.own \in BOOLEAN
           /\ Date(s) \in 1 .. MaxDate
<1>1. MaxClock \in Nat /\ PhoneAhead \in Nat /\ DesktopAhead \in Nat
  BY LagIs
<1>. QED BY <1>1 DEF Displayed, MaxDate, Date, IsSending

\* One more own message than the phone's is never shown.
LEMMA InsertBound ==
    ASSUME SmsInv, IsFiniteSet(phone), NEW msgs, Sound(msgs), NEW m \in phone,
           NEW new, Inserts(msgs, m, new), new.messages \in Seq(Displayed),
           \A s \in Range(new.messages) : IsSending(s) \/ s \in phone
    PROVE  OwnBound(new.messages)
<1> DEFINE own == OwnOf(Range(msgs))
<1> SUFFICES ASSUME EchoWindow >= MaxDate, ~unheard
             PROVE  Cardinality(OwnOf(Range(new.messages)))
                       =< Cardinality(OwnOf(phone)) + Cardinality(Unsent)
  BY DEF OwnBound, SentByUser
<1>0. /\ Cardinality(own) =< Cardinality(OwnOf(phone)) + Cardinality(Unsent)
      /\ msgs \in Seq(Displayed)
  BY DEF Sound, OwnBound, SentByUser
<1>1. IsFiniteSet(own) /\ Cardinality(own) \in Nat
  <2>1. IsFiniteSet(Range(msgs)) /\ own \in SUBSET Range(msgs)
    BY <1>0, ListIsFinite DEF OwnOf
  <2>. QED BY <2>1, FS_Subset, FS_CardinalityType
<1>2. IsFiniteSet(OwnOf(phone)) /\ Cardinality(OwnOf(phone)) \in Nat
  <2>1. OwnOf(phone) \in SUBSET phone
    BY DEF OwnOf
  <2>. QED BY <2>1, FS_Subset, FS_CardinalityType
<1>3. Cardinality(Unsent) \in Nat
  BY UnsentIs DEF SmsInv
<1>4. CASE OwnOf(Range(new.messages)) = own
  BY <1>0, <1>4
<1>5. CASE Replaces(msgs, m, new)
  <2>1. PICK s \in Range(msgs) : /\ s.own /\ m.own
                                /\ Range(new.messages) = (Range(msgs) \ {s}) \cup {m}
    BY <1>5 DEF Replaces
  <2>2. OwnOf(Range(new.messages)) = (own \ {s}) \cup {m} /\ s \in own
    BY <2>1 DEF OwnOf
  <2> HIDE DEF own
  <2>3. IsFiniteSet(own \ {s}) /\ Cardinality(own \ {s}) = Cardinality(own) - 1
    BY <1>1, <2>2, FS_RemoveElement
  <2>4. Cardinality((own \ {s}) \cup {m}) =< Cardinality(own)
    <3>1. PICK rest : rest = own \ {s}
      OBVIOUS
    <3>2. IsFiniteSet(rest) /\ Cardinality(rest) = Cardinality(own) - 1
      BY <2>3, <3>1
    <3>3. \/ Cardinality(rest \cup {m}) = Cardinality(rest)
          \/ Cardinality(rest \cup {m}) = Cardinality(rest) + 1
      BY <3>2, FS_AddElement
    <3>. QED BY <1>1, <3>1, <3>2, <3>3
  <2>5. Cardinality((own \ {s}) \cup {m}) \in Nat
    BY <2>3, FS_AddElement, FS_CardinalityType
  <2>. QED BY <1>0, <1>1, <1>2, <1>3, <2>2, <2>4, <2>5
<1>6. CASE /\ Range(new.messages) = Range(msgs) \cup {m} /\ m.own
           /\ \A s \in Range(msgs) : IsSending(s) /\ s.own =>
                 Date(s) - Date(m) >= EchoWindow \/ Date(m) - Date(s) >= EchoWindow
  \* No message that waits for an echo is older or newer than the window allows.
  <2>1. ASSUME NEW s \in Range(msgs), s.own PROVE ~IsSending(s)
    <3>1. s \in Displayed
      BY <1>0, InSeq
    <3>2. Date(s) \in 1 .. MaxDate /\ Date(m) \in 1 .. MaxDate
      BY <3>1, DisplayedIs, MessageIs DEF SmsInv, SmsTypeOK
    <3>3. MaxDate \in Nat /\ EchoWindow \in Nat
      BY LagIs, WindowAssumption
    <3>4. ~(Date(s) - Date(m) >= EchoWindow) /\ ~(Date(m) - Date(s) >= EchoWindow)
      BY <3>2, <3>3
    <3>. QED BY <1>6, <2>1, <3>4
  <2>2. ~IsSending(m)
    BY MessageIs DEF SmsInv, SmsTypeOK, IsSending
  <2>3. OwnOf(Range(new.messages)) \in SUBSET OwnOf(phone)
    BY <1>6, <2>1, <2>2 DEF OwnOf
  <2>4. /\ Cardinality(OwnOf(Range(new.messages))) =< Cardinality(OwnOf(phone))
        /\ Cardinality(OwnOf(Range(new.messages))) \in Nat
    BY <1>2, <2>3, FS_Subset, FS_CardinalityType
  <2>. QED BY <1>2, <1>3, <2>4
<1>7. CASE Range(new.messages) = Range(msgs) \cup {m} /\ ~m.own
  BY <1>4, <1>7 DEF OwnOf
<1>8. CASE Range(new.messages) = Range(msgs)
  BY <1>4, <1>8
<1>. QED BY <1>5, <1>6, <1>7, <1>8 DEF Inserts

\* One message comes to a list that is sound.
LEMMA InsertSound ==
    ASSUME SmsInv, IsFiniteSet(phone), NEW msgs, Sound(msgs),
           NEW m \in phone, m.thread = selected,
           NEW list, list = [messages |-> msgs, index |-> Rebuilt(msgs)],
           NEW new, new = InsertOrMerge(list, m)
    PROVE  /\ new = [messages |-> new.messages, index |-> Rebuilt(new.messages)]
           /\ Sound(new.messages) /\ Shows(new.messages, m.id)
           /\ \A id \in Nat : Shows(msgs, id) => Shows(new.messages, id)
<1>0. SmsTypeOK /\ FromPhone /\ m \in Message /\ msgs \in Seq(Displayed) /\ Unique(msgs) /\ Real(msgs)
  BY DEF SmsInv, SmsTypeOK, Sound
<1>1. Keeps(msgs, m, new) /\ Inserts(msgs, m, new)
  BY <1>0, InsertKeepsIndex
<1>2. /\ new = [messages |-> new.messages, index |-> Rebuilt(new.messages)]
      /\ new.messages \in Seq(Displayed) /\ Unique(new.messages) /\ Shows(new.messages, m.id)
  BY <1>1 DEF Keeps, Shows, Range
<1>3. Range(new.messages) \subseteq Range(msgs) \cup {m}
  BY <1>1 DEF Inserts, Replaces
<1>4. Real(new.messages)
  <2>1. -clock < m.id
    <3>1. m.id \in Nat /\ clock \in 1 .. MaxClock + 1 /\ MaxClock \in Nat
      BY <1>0, MessageIs, LagIs DEF SmsTypeOK
    <3>. QED BY <3>1
  <2>. QED BY <1>0, <1>3, <2>1 DEF Real
<1>5. ASSUME NEW id \in Nat, Shows(msgs, id) PROVE Shows(new.messages, id)
  <2>1. PICK s \in Range(msgs) : s.id = id
    BY <1>5 DEF Shows
  <2>2. ~IsSending(s)
    BY <2>1 DEF IsSending
  <2>3. s \in Range(new.messages)
    BY <1>1, <2>2, Zenon DEF Inserts, Replaces
  <2>. QED BY <2>1, <2>3 DEF Shows
<1>6. OwnBound(new.messages)
  BY <1>1, <1>2, <1>4, InsertBound DEF Real
<1>. QED BY <1>2, <1>4, <1>5, <1>6 DEF Sound

\* All of a batch comes, in any order.
LEMMA BatchSound ==
    ASSUME SmsInv, IsFiniteSet(phone), NEW msgs, Sound(msgs), NEW batch, Len(batch) \in Nat,
           \A k \in 1 .. Len(batch) : batch[k] \in phone /\ batch[k].thread = selected,
           NEW list, list = [messages |-> msgs, index |-> Rebuilt(msgs)],
           NEW new, new = InsertAll(list, batch)
    PROVE  /\ new = [messages |-> new.messages, index |-> Rebuilt(new.messages)]
           /\ Sound(new.messages)
           /\ \A k \in 1 .. Len(batch) : Shows(new.messages, batch[k].id)
           /\ \A id \in Nat : Shows(msgs, id) => Shows(new.messages, id)
<1> DEFINE Good(l, n) ==
              /\ l = [messages |-> l.messages, index |-> Rebuilt(l.messages)]
              /\ Sound(l.messages)
              /\ \A k \in 1 .. n : Shows(l.messages, batch[k].id)
              /\ \A id \in Nat : Shows(msgs, id) => Shows(l.messages, id)
<1>1. PICK f : Insertions(f, Len(batch), list, batch) /\ new = f[Len(batch)]
  BY InsertAllIs
<1> DEFINE S == {n \in Nat : n =< Len(batch) => Good(f[n], n)}
<1>2. 0 \in S
  <2>1. f[0] = list /\ list.messages = msgs
    BY <1>1 DEF Insertions
  <2>2. Good(list, 0)
    BY <2>1
  <2>. QED BY <2>1, <2>2
<1>3. ASSUME NEW n \in Nat, n \in S PROVE n + 1 \in S
  <2> SUFFICES ASSUME n + 1 =< Len(batch) PROVE Good(f[n + 1], n + 1)
    OBVIOUS
  <2>1. PICK old : old = f[n] /\ Good(old, n)
    BY <1>3
  <2>2. PICK l : l = f[n + 1]
    OBVIOUS
  <2>3. PICK m : m = batch[n + 1]
    OBVIOUS
  <2>4. l = InsertOrMerge(old, m)
    <3>1. n + 1 \in 0 .. Len(batch) /\ n + 1 # 0 /\ (n + 1) - 1 = n
      OBVIOUS
    <3>. QED BY <1>1, <2>1, <2>2, <2>3, <3>1 DEF Insertions
  <2>5. m \in phone /\ m.thread = selected
    BY <2>3
  <2> HIDE DEF Good
  <2>6. PICK ms : /\ ms = old.messages /\ old = [messages |-> ms, index |-> Rebuilt(ms)]
                  /\ Sound(ms)
                  /\ \A k \in 1 .. n : Shows(ms, batch[k].id)
                  /\ \A id \in Nat : Shows(msgs, id) => Shows(ms, id)
    BY <2>1 DEF Good
  <2>7. /\ l = [messages |-> l.messages, index |-> Rebuilt(l.messages)]
        /\ Sound(l.messages) /\ Shows(l.messages, m.id)
        /\ \A id \in Nat : Shows(ms, id) => Shows(l.messages, id)
    BY <2>4, <2>5, <2>6, InsertSound
  <2>8. ASSUME NEW k \in 1 .. n + 1 PROVE Shows(l.messages, batch[k].id)
    <3>1. k = n + 1 \/ k \in 1 .. n
      OBVIOUS
    <3>2. batch[k] \in phone /\ phone \subseteq Message
      BY DEF SmsInv, SmsTypeOK
    <3>3. batch[k].id \in Nat
      BY <3>2, MessageIs
    <3>. QED BY <2>3, <2>6, <2>7, <3>1, <3>3
  <2>9. \A id \in Nat : Shows(msgs, id) => Shows(l.messages, id)
    BY <2>6, <2>7
  <2>. QED BY <2>2, <2>7, <2>8, <2>9 DEF Good
<1> HIDE DEF S
<1>4. Len(batch) \in S
  BY <1>2, <1>3, StepsReachAll
<1>5. Good(f[Len(batch)], Len(batch))
  BY <1>4 DEF S
<1>. QED BY <1>1, <1>5

\* Sorting changes nothing but the order.
LEMMA SortedIs ==
    ASSUME NEW msgs \in Seq(Displayed), Unique(msgs),
           NEW new, new = ByDate(msgs)
    PROVE  new \in Seq(Displayed) /\ Unique(new) /\ Range(new) = Range(msgs)
<1>1. PICK n \in Nat : n = Len(msgs) /\ DOMAIN msgs = 1 .. n
  OBVIOUS
<1>2. Dated(msgs)
  BY DisplayedIs DEF Dated
<1>3. PICK p \in Bijection(1 .. n, 1 .. n) : new = [k \in 1 .. n |-> msgs[p[k]]]
  BY <1>1, <1>2, ByDateSorts
<1>4. /\ \A k \in 1 .. n : p[k] \in 1 .. n /\ new[k] = msgs[p[k]]
      /\ \A k, l \in 1 .. n : k # l => p[k] # p[l]
      /\ \A i \in 1 .. n : \E k \in 1 .. n : p[k] = i
  BY <1>3 DEF Bijection, Injection, Surjection, IsInjective
<1>5. DOMAIN new = 1 .. n /\ new \in Seq(Displayed)
  BY <1>1, <1>3, <1>4
<1>6. Unique(new)
  <2>1. ASSUME NEW k \in 1 .. n, NEW l \in 1 .. n, k # l PROVE new[k].id # new[l].id
    <3>1. PICK i \in 1 .. n : i = p[k] /\ new[k] = msgs[i]
      BY <1>4
    <3>2. PICK j \in 1 .. n : j = p[l] /\ new[l] = msgs[j]
      BY <1>4
    <3>3. i # j
      BY <1>4, <2>1, <3>1, <3>2
    <3>. QED BY <1>1, <3>1, <3>2, <3>3 DEF Unique
  <2>. QED BY <1>5, <2>1 DEF Unique
<1>7. Range(new) = Range(msgs)
  <2>1. \A k \in 1 .. n : new[k] \in Range(msgs)
    BY <1>1, <1>4 DEF Range
  <2>2. \A i \in 1 .. n : msgs[i] \in Range(new)
    <3>1. ASSUME NEW i \in 1 .. n PROVE msgs[i] \in Range(new)
      <4>1. PICK k \in 1 .. n : p[k] = i
        BY <1>4
      <4>2. new[k] = msgs[i]
        BY <1>4, <4>1
      <4>. QED BY <1>5, <4>2 DEF Range
    <3>. QED BY <3>1
  <2>. QED BY <1>1, <1>5, <2>1, <2>2 DEF Range
<1>. QED BY <1>5, <1>6, <1>7

-----------------------------------------------------------------------------
(***************************************************************************)
(* The SMS window: what the steps have in common.                          *)
(***************************************************************************)

LEMMA OwnIs ==
    ASSUME NEW S, IsFiniteSet(S)
    PROVE  IsFiniteSet(OwnOf(S)) /\ Cardinality(OwnOf(S)) \in Nat
<1>1. OwnOf(S) \in SUBSET S
  BY DEF OwnOf
<1>. QED BY <1>1, FS_Subset, FS_CardinalityType

LEMMA OwnGrows ==
    ASSUME NEW S, NEW T, IsFiniteSet(T), S \subseteq T
    PROVE  Cardinality(OwnOf(S)) =< Cardinality(OwnOf(T))
<1>1. OwnOf(S) \in SUBSET OwnOf(T)
  BY DEF OwnOf
<1>. QED BY <1>1, OwnIs, FS_Subset

LEMMA SentIs ==
    ASSUME SmsTypeOK, IsFiniteSet(phone)
    PROVE  SentByUser \in Nat
BY OwnIs, UnsentIs DEF SentByUser

\* A request of the window's to send is one more unsent, if there is a link.
LEMMA UnsentAsked ==
    ASSUME SmsTypeOK, NEW r \in Request, Asks(<<r>>)
    PROVE  Cardinality(Unsent') = IF linked /\ r.type = "send" THEN Cardinality(Unsent) + 1
                                                              ELSE Cardinality(Unsent)
<1>1. PICK n \in Nat : n = Len(requests) /\ DOMAIN requests = 1 .. n
  BY DEF SmsTypeOK
<1>2. CASE linked
  <2>1. /\ DOMAIN requests' = 1 .. n + 1 /\ requests'[n + 1] = r
        /\ \A i \in 1 .. n : requests'[i] = requests[i]
    <3>1. requests \in Seq(Request) /\ requests' = requests \o <<r>>
      BY <1>2 DEF Asks, SmsTypeOK
    <3>. QED BY <1>1, <3>1
  <2>2. Unsent' = IF r.type = "send" THEN Unsent \cup {n + 1} ELSE Unsent
    BY <1>1, <2>1 DEF Unsent
  <2>3. n + 1 \notin Unsent
    BY <1>1 DEF Unsent
  <2>4. IsFiniteSet(Unsent)
    BY UnsentIs
  <2> HIDE DEF Unsent
  <2>5. Cardinality(Unsent \cup {n + 1}) = Cardinality(Unsent) + 1
    BY <2>3, <2>4, FS_AddElement
  <2>. QED BY <1>2, <2>2, <2>5
<1>3. CASE ~linked
  <2>1. Unsent' = Unsent
    BY <1>3 DEF Asks, Unsent
  <2> HIDE DEF Unsent
  <2>. QED BY <1>3, <2>1
<1>. QED BY <1>2, <1>3

\* The phone has taken a request.
LEMMA UnsentTaken ==
    ASSUME SmsTypeOK, NEW type, TakesRequest(type)
    PROVE  Cardinality(Unsent) = IF type = "send" THEN Cardinality(Unsent') + 1
                                                  ELSE Cardinality(Unsent')
<1>1. PICK n \in Nat : n = Len(requests) /\ DOMAIN requests = 1 .. n /\ n > 0
  BY DEF SmsTypeOK, TakesRequest
<1>2. /\ DOMAIN requests' = 1 .. n - 1 /\ requests[1].type = type
      /\ \A i \in 1 .. n - 1 : requests'[i] = requests[i + 1]
  <2>1. requests \in Seq(Request) /\ requests' = Tail(requests) /\ Head(requests).type = type
    BY DEF TakesRequest, SmsTypeOK
  <2>. QED BY <1>1, <2>1
<1>3. PICK rest : rest = Unsent \ {1}
  OBVIOUS
<1>4. PICK f : f = [i \in Unsent' |-> i + 1]
  OBVIOUS
<1>5. f \in Bijection(Unsent', rest)
  <2>1. \A i \in Unsent' : i \in 1 .. n - 1 /\ i + 1 \in rest
    BY <1>1, <1>2, <1>3 DEF Unsent
  <2>2. \A i \in rest : i - 1 \in Unsent' /\ (i - 1) + 1 = i
    BY <1>1, <1>2, <1>3 DEF Unsent
  <2>3. f \in Injection(Unsent', rest)
    BY <1>4, <2>1 DEF Injection, IsInjective
  <2>4. f \in Surjection(Unsent', rest)
    BY <1>4, <2>1, <2>2 DEF Surjection
  <2>. QED BY <2>3, <2>4 DEF Bijection
<1>6. IsFiniteSet(Unsent) /\ Cardinality(Unsent) \in Nat
  BY UnsentIs
<1>7. IsFiniteSet(Unsent') /\ Cardinality(Unsent') \in Nat
  <2>1. Unsent' \in SUBSET (1 .. n - 1) /\ IsFiniteSet(1 .. n - 1)
    BY <1>1, <1>2, FS_Interval DEF Unsent
  <2>. QED BY <2>1, FS_Subset, FS_CardinalityType
<1>8. Cardinality(Unsent') = Cardinality(rest)
  <2>1. ExistsBijection(Unsent', rest)
    BY <1>5 DEF ExistsBijection
  <2>. QED BY <1>7, <2>1, FS_Bijection
<1>9. 1 \in Unsent <=> type = "send"
  BY <1>1, <1>2 DEF Unsent
<1> HIDE DEF Unsent
<1>10. Cardinality(rest) = IF 1 \in Unsent THEN Cardinality(Unsent) - 1 ELSE Cardinality(Unsent)
  BY <1>3, <1>6, FS_RemoveElement
<1>. QED BY <1>6, <1>7, <1>8, <1>9, <1>10

\* What is on its way stays on its way if nothing of it is lost.
LEMMA StaysOnItsWay ==
    ASSUME NEW m, OnItsWay(m),
           \A r \in Range(requests) : r.type = "conversation" => r \in Range(requests'),
           Range(wire) \subseteq Range(wire'),
           \A e \in Range(inbox) : e.type = "messages" => e \in Range(inbox')
    PROVE  OnItsWay(m)'
<1>1. CASE [type |-> "conversation", thread |-> m.thread] \in Range(requests)
  <2>1. [type |-> "conversation", thread |-> m.thread].type = "conversation"
    OBVIOUS
  <2>. QED BY <1>1, <2>1, Zenon DEF OnItsWay
<1>2. CASE \E batch \in Range(wire) : m \in batch
  BY <1>2, Zenon DEF OnItsWay
<1>3. CASE \E e \in Range(inbox) : e.type = "messages" /\ m \in e.batch
  BY <1>3, Zenon DEF OnItsWay
<1>. QED BY <1>1, <1>2, <1>3 DEF OnItsWay

\* A step that does not touch what is shown, and loses nothing of the open thread.
LEMMA ThreadKept ==
    ASSUME SmsInv, ShownInv, UNCHANGED shown,
           phone \subseteq phone', IsFiniteSet(phone'), clock' \in Nat, clock =< clock',
           ~unheard' => ~unheard, SentByUser' \in Nat, ~unheard' => SentByUser =< SentByUser',
           ~unheard' => \A m \in phone' : m.thread = selected =>
                           OnItsWay(m)' \/ (m \in phone /\ ~OnItsWay(m))
    PROVE  ShownInv'
<1>0. SmsTypeOK /\ Sound(messages) /\ IsFiniteSet(phone) /\ clock \in Nat
  BY DEF SmsInv, SmsTypeOK, ShownInv
<1>1. messages' = messages /\ index' = index /\ selected' = selected
  BY DEF shown
<1>2. messages' \in Seq(Displayed) /\ Unique(messages')
  BY <1>0, <1>1 DEF Sound
<1>3. Real(messages)'
  <2>1. ASSUME NEW s \in Range(messages) PROVE -clock' < s.id
    <3>1. -clock < s.id /\ s.id \in Int
      BY <1>0, InSeq, DisplayedIs DEF Sound, Real
    <3>. QED BY <1>0, <3>1
  <2>2. \A s \in Range(messages) :
           /\ s.thread = selected \/ (s.thread = NewChat /\ selected = NewFor)
           /\ IsSending(s) \/ s \in phone
    BY <1>0 DEF Sound, Real
  <2>. QED BY <1>1, <2>1, <2>2 DEF Real
<1>4. OwnBound(messages)'
  <2> SUFFICES ASSUME EchoWindow >= MaxDate, ~unheard'
               PROVE  Cardinality(OwnOf(Range(messages'))) =< SentByUser'
    BY DEF OwnBound
  <2>1. Cardinality(OwnOf(Range(messages))) =< SentByUser
    BY <1>0 DEF Sound, OwnBound
  <2>2. Cardinality(OwnOf(Range(messages))) \in Nat
    BY <1>0, ListIsFinite, OwnIs DEF Sound
  <2>3. SentByUser \in Nat
    BY <1>0, SentIs
  <2>. QED BY <1>1, <2>1, <2>2, <2>3
<1>5. CompleteInv'
  <2> SUFFICES ASSUME selected \in Thread, ~unheard',
                      NEW m \in phone', m.thread = selected
               PROVE  OnItsWay(m)' \/ Shows(messages, m.id)
    BY <1>1 DEF CompleteInv, OfThread, Shows, OnItsWay
  <2>1. m \in phone => OnItsWay(m) \/ Shows(messages, m.id)
    BY DEF ShownInv, CompleteInv, OfThread
  <2>. QED BY <2>1
<1>6. index' = Rebuilt(messages')
  BY <1>1 DEF ShownInv
<1>7. Sound(messages)'
  BY <1>2, <1>3, <1>4 DEF Sound
<1>. QED BY <1>5, <1>6, <1>7 DEF ShownInv

\* The same where requests for conversations, packets and events are not lost.
LEMMA ThreadKeeps ==
    ASSUME SmsInv, ShownInv, UNCHANGED <<shown, phone>>, clock' \in Nat, clock =< clock',
           ~unheard' => ~unheard, Cardinality(Unsent') = Cardinality(Unsent),
           \A r \in Range(requests) : r.type = "conversation" => r \in Range(requests'),
           Range(wire) \subseteq Range(wire'),
           \A e \in Range(inbox) : e.type = "messages" => e \in Range(inbox')
    PROVE  ShownInv'
<1>1. phone' = phone /\ UNCHANGED shown /\ IsFiniteSet(phone)
  BY DEF ShownInv
<1>2. SentByUser \in Nat /\ SentByUser' = SentByUser
  <2>1. SentByUser \in Nat
    BY <1>1, SentIs DEF SmsInv
  <2>2. Cardinality(OwnOf(phone))' = Cardinality(OwnOf(phone))
    BY <1>1 DEF OwnOf
  <2>. QED BY <2>1, <2>2 DEF SentByUser
<1>3. \A m \in phone : OnItsWay(m) => OnItsWay(m)'
  BY StaysOnItsWay
<1>. QED BY <1>1, <1>2, <1>3, ThreadKept

LEMMA EmptyIs ==
    ASSUME UNCHANGED phone, IsFiniteSet(phone), messages' = <<>>, index' = Empty,
           SentByUser' \in Nat
    PROVE  Sound(messages)' /\ (index = Rebuilt(messages))' /\ IsFiniteSet(phone)'
<1>1. <<>> \in Seq(Displayed) /\ DOMAIN <<>> = {} /\ Range(<<>>) = {}
  BY InEmpty
<1>2. Rebuilt(<<>>) = Empty
  <2>1. [n \in {} |-> CHOOSE i \in {} : <<>>[i].id = n] = <<>>
    OBVIOUS
  <2>. QED BY <1>1, <2>1 DEF Rebuilt, Empty
<1>3. Unique(<<>>)
  BY <1>1 DEF Unique
<1>4. Real(messages)'
  BY <1>1 DEF Real
<1>5. OwnBound(messages)'
  <2>1. OwnOf({}) = {}
    BY DEF OwnOf
  <2>2. Cardinality({}) = 0
    BY FS_EmptySet
  <2>3. Cardinality(OwnOf(Range(messages'))) = 0
    BY <1>1, <2>1, <2>2
  <2>4. 0 =< SentByUser'
    OBVIOUS
  <2>. QED BY <2>3, <2>4 DEF OwnBound
<1>. QED BY <1>1, <1>2, <1>3, <1>4, <1>5 DEF Sound

LEMMA ShownStarts == WindowInit => ShownInv
<1> SUFFICES ASSUME WindowInit PROVE ShownInv
  OBVIOUS
<1>1. /\ phone = {} /\ messages = <<>> /\ index = Empty /\ selected = NoThread
      /\ requests = <<>>
  BY DEF WindowInit, SmsInit
<1>2. Rebuilt(<<>>) = Empty /\ Unique(<<>>) /\ Range(<<>>) = {} /\ <<>> \in Seq(Displayed)
  <2>1. DOMAIN <<>> = {} /\ <<>> \in Seq(Displayed)
    OBVIOUS
  <2>2. [n \in {} |-> CHOOSE i \in {} : <<>>[i].id = n] = <<>>
    OBVIOUS
  <2>. QED BY <2>1, <2>2, InEmpty DEF Rebuilt, Empty, Unique
<1>3. IsFiniteSet({}) /\ Cardinality({}) = 0 /\ OwnOf({}) = {}
  BY FS_EmptySet DEF OwnOf
<1>4. SentByUser = 0
  <2>1. Unsent = {}
    BY <1>1 DEF Unsent
  <2>. QED BY <1>1, <1>3, <2>1 DEF SentByUser
<1>5. Sound(messages)
  <2>1. OwnBound(messages)
    <3>1. Cardinality(OwnOf(Range(messages))) = 0
      BY <1>1, <1>2, <1>3
    <3>. QED BY <1>4, <3>1 DEF OwnBound
  <2>2. Real(messages)
    BY <1>1, <1>2 DEF Real
  <2>. QED BY <1>1, <1>2, <2>1, <2>2 DEF Sound
<1>6. CompleteInv
  BY <1>1, SmsAssumption DEF CompleteInv
<1>. QED BY <1>1, <1>2, <1>3, <1>5, <1>6 DEF ShownInv

-----------------------------------------------------------------------------
(***************************************************************************)
(* The SMS window: the steps and the open thread.                          *)
(***************************************************************************)

\* The phone makes a message, and reports it if there is a link.
LEMMA MakesKeeps ==
    ASSUME SmsInv, ShownInv, NEW t \in Thread, NEW own \in BOOLEAN, Makes(t, own),
           UNCHANGED <<shown, inbox>>, ~unheard' => ~unheard,
           ~unheard' => linked \/ t # selected,
           \A r \in Range(requests) : r.type = "conversation" => r \in Range(requests'),
           Cardinality(Unsent') \in Nat,
           \/ Cardinality(Unsent') = Cardinality(Unsent)
           \/ own /\ Cardinality(Unsent') = Cardinality(Unsent) - 1
    PROVE  ShownInv'
<1>0. SmsTypeOK /\ FromPhone /\ IsFiniteSet(phone)
  BY DEF SmsInv, ShownInv
<1>a. PICK m \in Message : MadeNow(m, t, own)
  BY <1>0, MakesIs
<1>1. /\ m.id = clock /\ m.thread = t /\ m.own = own
      /\ phone' = phone \cup {m}
      /\ clock \in 1 .. MaxClock /\ clock' = clock + 1
      /\ wire' \in Seq(SUBSET Message) /\ Range(wire) \subseteq Range(wire')
      /\ Range(wire') \subseteq Range(wire) \cup {{m}}
      /\ linked => {m} \in Range(wire')
  BY <1>a DEF MadeNow
<1>2. inbox' = inbox /\ UNCHANGED shown
  OBVIOUS
<1>3. clock \in Nat /\ clock' \in Nat /\ clock =< clock'
  BY <1>1, SmsAssumption
<1>4. m \notin phone
  BY <1>0, <1>1, <1>3 DEF FromPhone
<1>5. IsFiniteSet(phone')
  BY <1>0, <1>1, FS_AddElement
<1>6. SentByUser' \in Nat /\ SentByUser =< SentByUser'
  <2>1. Cardinality(OwnOf(phone)) \in Nat /\ IsFiniteSet(OwnOf(phone))
    BY <1>0, OwnIs
  <2>2. Cardinality(Unsent) \in Nat
    BY <1>0, UnsentIs
  <2>3. OwnOf(phone') = (IF own THEN OwnOf(phone) \cup {m} ELSE OwnOf(phone))
        /\ m \notin OwnOf(phone)
    BY <1>1, <1>4 DEF OwnOf
  <2>4. Cardinality(OwnOf(phone')) = IF own THEN Cardinality(OwnOf(phone)) + 1
                                            ELSE Cardinality(OwnOf(phone))
    BY <2>1, <2>3, FS_AddElement
  <2>5. SentByUser = Cardinality(OwnOf(phone)) + Cardinality(Unsent)
    BY DEF SentByUser
  <2>6. SentByUser' = Cardinality(OwnOf(phone')) + Cardinality(Unsent')
    BY DEF SentByUser, OwnOf
  <2>. QED BY <2>1, <2>2, <2>4, <2>5, <2>6
<1>7. \A n \in phone : OnItsWay(n) => OnItsWay(n)'
  BY <1>1, <1>2, StaysOnItsWay
<1>8. linked => OnItsWay(m)'
  <2>1. linked => \E batch \in Range(wire') : m \in batch
    BY <1>1
  <2>. QED BY <2>1 DEF OnItsWay
<1>. QED BY <1>1, <1>2, <1>3, <1>5, <1>6, <1>7, <1>8, ThreadKept

LEMMA HappensOnPhoneKeeps ==
    ASSUME SmsInv, ShownInv, NEW t \in Thread, NEW own \in BOOLEAN, HappensOnPhone(t, own)
    PROVE  ShownInv'
<1>1. requests' = requests /\ Makes(t, own)
  BY DEF HappensOnPhone, PhoneMessage
<1>2. UNCHANGED <<shown, inbox>> /\ unheard' = (unheard \/ (~linked /\ t = selected))
  BY DEF HappensOnPhone
<1>3. Unsent' = Unsent
  BY <1>1 DEF Unsent
<1>4. Cardinality(Unsent) \in Nat
  BY UnsentIs DEF SmsInv
<1> HIDE DEF Unsent
<1>. QED BY <1>1, <1>2, <1>3, <1>4, MakesKeeps

LEMMA PhoneSmsKeeps ==
    ASSUME SmsInv, ShownInv, PhoneSms, UNCHANGED windowVars
    PROVE  ShownInv'
<1>0. SmsTypeOK /\ FromPhone
  BY DEF SmsInv
<1>1. TakesRequest("send")
  BY DEF PhoneSms
<1>2. /\ Head(requests) \in Request /\ Head(requests).type = "send"
      /\ Range(requests) = {Head(requests)} \cup Range(requests')
  BY <1>0, <1>1, TakesRequestIs
<1>3. PICK t \in Thread : t = Recipient(Head(requests).thread)
  BY <1>0, <1>2, SmsAssumption DEF FromPhone, Recipient, Chat
<1>4. Makes(t, TRUE)
  BY <1>3 DEF PhoneSms, Recipient
<1>5. Cardinality(Unsent) = Cardinality(Unsent') + 1
  BY <1>0, <1>1, UnsentTaken
<1>6. Cardinality(Unsent') \in Nat
  <2>1. requests' \in Seq(Request)
    BY <1>0, <1>1, TakesRequestIs
  <2>2. IsFiniteSet(DOMAIN requests') /\ Unsent' \in SUBSET DOMAIN requests'
    BY <2>1, ListIsFinite DEF Unsent
  <2>. QED BY <2>2, FS_Subset, FS_CardinalityType
<1>7. Cardinality(Unsent') = Cardinality(Unsent) - 1
  BY <1>5, <1>6
<1>8. linked /\ UNCHANGED <<shown, inbox, unheard>>
  BY <1>0, <1>1 DEF TakesRequest, FromPhone, windowVars, shown
<1>. QED BY <1>2, <1>4, <1>6, <1>7, <1>8, MakesKeeps

LEMMA PhoneConversationsKeeps ==
    ASSUME SmsInv, ShownInv, PhoneConversations, UNCHANGED windowVars
    PROVE  ShownInv'
<1> DEFINE batch == UNION {Newest(OfThread(phone, t)) : t \in Thread}
<1>0. SmsTypeOK
  BY DEF SmsInv
<1>1. batch \subseteq phone /\ Sends(batch) /\ TakesRequest("conversations")
  BY DEF PhoneConversations, Newest, OfThread
<1>2. /\ phone' = phone /\ clock' = clock /\ clock \in Nat
      /\ inbox' = inbox /\ unheard' = unheard /\ UNCHANGED shown
  BY <1>0 DEF PhoneConversations, phoneSide, windowVars, shown, SmsTypeOK
<1>3. PICK b \in SUBSET Message : b = batch
  BY <1>0, <1>1 DEF SmsTypeOK
<1>4. Range(wire) \subseteq Range(wire')
  BY <1>0, <1>1, <1>3, SendsIs
<1>5. \A r \in Range(requests) : r.type = "conversation" => r \in Range(requests')
  BY <1>0, <1>1, TakesRequestIs
<1>6. Cardinality(Unsent') = Cardinality(Unsent)
  BY <1>0, <1>1, UnsentTaken
<1>. QED BY <1>2, <1>4, <1>5, <1>6, ThreadKeeps

\* What is asked for of the open thread comes.
LEMMA PhoneConversationKeeps ==
    ASSUME SmsInv, ShownInv, PhoneConversation, UNCHANGED windowVars
    PROVE  ShownInv'
<1>0. SmsTypeOK /\ IsFiniteSet(phone)
  BY DEF SmsInv, ShownInv
<1>1. PICK b \in SUBSET Message : b = OfThread(phone, Head(requests).thread)
  BY <1>0 DEF OfThread, SmsTypeOK
<1>2. TakesRequest("conversation") /\ Sends(b)
  BY <1>1 DEF PhoneConversation
<1>3. /\ phone' = phone /\ clock' = clock /\ clock \in Nat /\ clock =< clock
      /\ inbox' = inbox /\ unheard' = unheard /\ UNCHANGED shown
  BY <1>0 DEF PhoneConversation, phoneSide, windowVars, shown, SmsTypeOK
<1>4. Range(requests) = {Head(requests)} \cup Range(requests')
  BY <1>0, <1>2, TakesRequestIs
<1>5. Range(wire) \subseteq Range(wire') /\ (b # {} => b \in Range(wire'))
  BY <1>0, <1>2, SendsIs
<1>6. ASSUME NEW m \in phone, OnItsWay(m) PROVE OnItsWay(m)'
  <2>1. CASE [type |-> "conversation", thread |-> m.thread] = Head(requests)
    <3>1. Head(requests).thread = m.thread
      BY <2>1
    <3>2. m \in b
      BY <1>1, <3>1 DEF OfThread
    <3>3. \E batch \in Range(wire') : m \in batch
      BY <1>5, <3>2
    <3>. QED BY <3>3 DEF OnItsWay
  <2>2. CASE [type |-> "conversation", thread |-> m.thread] \in Range(requests')
    BY <2>2 DEF OnItsWay
  <2>3. CASE \E batch \in Range(wire) : m \in batch
    <3>1. \E batch \in Range(wire') : m \in batch
      BY <1>5, <2>3
    <3>. QED BY <3>1 DEF OnItsWay
  <2>4. CASE \E e \in Range(inbox) : e.type = "messages" /\ m \in e.batch
    BY <1>3, <2>4, Zenon DEF OnItsWay
  <2>. QED BY <1>4, <1>6, <2>1, <2>2, <2>3, <2>4 DEF OnItsWay
<1>7. SentByUser' = SentByUser /\ SentByUser \in Nat
  <2>1. Cardinality(Unsent') = Cardinality(Unsent)
    BY <1>0, <1>2, UnsentTaken
  <2>2. Cardinality(OwnOf(phone))' = Cardinality(OwnOf(phone))
    BY <1>3 DEF OwnOf
  <2>3. SentByUser \in Nat
    BY <1>0, SentIs
  <2>. QED BY <2>1, <2>2, <2>3 DEF SentByUser
<1>8. IsFiniteSet(phone') /\ phone \subseteq phone'
  BY <1>0, <1>3
<1>. QED BY <1>3, <1>6, <1>7, <1>8, ThreadKept

LEMMA PhoneConnectsKeeps ==
    ASSUME SmsInv, ShownInv, PhoneConnects, UNCHANGED windowVars
    PROVE  ShownInv'
<1>1. /\ phone' = phone /\ clock' = clock /\ clock \in Nat /\ wire' = wire
      /\ requests = <<>> /\ requests' \in {<<>>, <<ToAll>>}
      /\ inbox' = inbox /\ unheard' = unheard /\ UNCHANGED shown
  BY DEF PhoneConnects, phoneSide, windowVars, shown, SmsInv, SmsTypeOK, FromPhone
<1>2. Unsent = {} /\ Unsent' = {}
  BY <1>1 DEF Unsent, ToAll
<1>3. Cardinality(Unsent') = Cardinality(Unsent)
  BY <1>2
<1>4. Range(requests) = {}
  BY <1>1, InEmpty
<1> HIDE DEF Unsent
<1>. QED BY <1>1, <1>3, <1>4, ThreadKeeps

LEMMA AskingKeeps ==
    ASSUME SmsInv, ShownInv, Asks(<<ToAll>>),
           UNCHANGED <<phoneSide, wire, inbox, shown, unheard>>
    PROVE  ShownInv'
<1>0. SmsTypeOK
  BY DEF SmsInv
<1>1. ToAll \in Request /\ ToAll.type # "send"
  BY DEF ToAll, Request
<1>2. Range(requests) \subseteq Range(requests')
  BY <1>0, <1>1, AsksIs
<1>3. Cardinality(Unsent') = Cardinality(Unsent)
  BY <1>0, <1>1, UnsentAsked
<1>4. /\ phone' = phone /\ clock' = clock /\ clock \in Nat /\ wire' = wire
      /\ inbox' = inbox /\ unheard' = unheard
  BY <1>0 DEF phoneSide, SmsTypeOK
<1>. QED BY <1>2, <1>3, <1>4, ThreadKeeps

\* Steps that leave the requests, and lose nothing on its way.
LEMMA StreamKeeps ==
    ASSUME SmsInv, ShownInv, UNCHANGED <<phone, clock, requests, wire, shown, unheard>>,
           \A e \in Range(inbox) : e.type = "messages" => e \in Range(inbox')
    PROVE  ShownInv'
<1>1. clock \in Nat /\ clock' = clock /\ Unsent' = Unsent
  BY DEF SmsInv, SmsTypeOK, Unsent
<1> HIDE DEF Unsent
<1>. QED BY <1>1, ThreadKeeps

LEMMA OpensKeeps ==
    ASSUME SmsInv, ShownInv, Opens
    PROVE  ShownInv'
<1>1. PICK batch \in SUBSET Message : batch = CachedSms
  BY CachedIs
<1>2. Range(inbox) \subseteq Range(inbox')
  <2>1. CASE inbox' = inbox
    BY <2>1
  <2>2. CASE Gives(Both(batch))
    BY <2>2, GivenIs DEF SmsInv
  <2>. QED BY <1>1, <2>1, <2>2 DEF Opens
<1>. QED BY <1>2, StreamKeeps DEF Opens, smsVars

\* A packet that nobody hears is not waited for.
LEMMA SmsMessagesReceivedKeeps ==
    ASSUME SmsInv, ShownInv, SmsMessagesReceived
    PROVE  ShownInv'
<1>0. SmsTypeOK /\ WindowTypeOK /\ SmsMessages /\ IsFiniteSet(phone)
  BY DEF SmsInv, SmsMessagesReceived, ShownInv
<1>1. /\ phone' = phone /\ clock' = clock /\ requests' = requests
      /\ Range(wire) = {Head(wire)} \cup Range(wire')
      /\ clock \in Nat /\ clock =< clock
  BY <1>0, SmsMessagesIs DEF SmsTypeOK
<1>2. PICK batch \in SUBSET Message : batch = Head(wire)
  BY <1>0, SmsMessagesIs
<1>3. UNCHANGED shown
  BY DEF SmsMessagesReceived
<1>4. \/ unheard' = TRUE
      \/ Gives(Both(batch)) /\ unheard' = unheard
  BY <1>2 DEF SmsMessagesReceived
<1>5. SentByUser' = SentByUser /\ SentByUser \in Nat
  <2>1. OwnOf(phone)' = OwnOf(phone) /\ Unsent' = Unsent
    BY <1>1 DEF OwnOf, Unsent
  <2>2. SentByUser \in Nat
    BY <1>0, SentIs
  <2>. QED BY <2>1, <2>2 DEF SentByUser
<1>6. ASSUME Gives(Both(batch)), NEW m \in phone, OnItsWay(m) PROVE OnItsWay(m)'
  <2>1. Range(inbox) \subseteq Range(inbox') /\ [type |-> "messages", batch |-> batch] \in Range(inbox')
    BY <1>0, <1>6, GivesBothIs
  <2>2. CASE m \in batch
    <3>1. \E e \in Range(inbox') : e.type = "messages" /\ m \in e.batch
      BY <2>1, <2>2
    <3>. QED BY <3>1 DEF OnItsWay
  <2>3. CASE \E b \in Range(wire') : m \in b
    BY <2>3 DEF OnItsWay
  <2>4. CASE \E e \in Range(inbox) : e.type = "messages" /\ m \in e.batch
    BY <2>1, <2>4, Zenon DEF OnItsWay
  <2>5. CASE [type |-> "conversation", thread |-> m.thread] \in Range(requests)
    BY <1>1, <2>5 DEF OnItsWay
  <2>6. (\E b \in Range(wire) : m \in b) => m \in batch \/ \E b \in Range(wire') : m \in b
    BY <1>1, <1>2
  <2>. QED BY <1>6, <2>2, <2>3, <2>4, <2>5, <2>6 DEF OnItsWay
<1>7. IsFiniteSet(phone') /\ phone \subseteq phone'
  BY <1>0, <1>1
<1>8. unheard \in BOOLEAN
  BY <1>0 DEF WindowTypeOK
<1>. QED BY <1>1, <1>3, <1>4, <1>5, <1>6, <1>7, <1>8, ThreadKept

\* What is lost with the link is not waited for.
LEMMA LinkBreaksKeeps ==
    ASSUME SmsInv, ShownInv, LinkBreaks
    PROVE  ShownInv'
<1>0. SmsTypeOK /\ IsFiniteSet(phone)
  BY DEF SmsInv, ShownInv
<1>1. /\ phone' = phone /\ clock' = clock /\ clock \in Nat /\ clock =< clock
      /\ requests' = <<>> /\ inbox' = inbox /\ UNCHANGED shown
      /\ unheard' = (unheard \/ requests # <<>> \/ wire' # wire)
  BY <1>0 DEF LinkBreaks, LinkLost, Unpairs, Unlinks, phoneSide, SmsTypeOK
<1>2. CASE unheard'
  <2>1. SentByUser' \in Nat
    <3>1. Unsent' = {}
      BY <1>1 DEF Unsent
    <3>2. Cardinality(Unsent') = 0
      BY <3>1, FS_EmptySet
    <3>3. Cardinality(OwnOf(phone)) \in Nat /\ OwnOf(phone)' = OwnOf(phone)
      BY <1>0, <1>1, OwnIs DEF OwnOf
    <3>4. Cardinality(OwnOf(phone))' \in Nat
      BY <3>3
    <3>. QED BY <3>2, <3>4 DEF SentByUser
  <2>2. IsFiniteSet(phone') /\ phone \subseteq phone'
    BY <1>0, <1>1
  <2>. QED BY <1>1, <1>2, <2>1, <2>2, ThreadKept
<1>3. CASE ~unheard'
  <2>1. requests' = requests /\ wire' = wire /\ unheard' = unheard
    <3>1. unheard \in BOOLEAN
      BY DEF SmsInv, WindowTypeOK
    <3>. QED BY <1>1, <1>3, <3>1
  <2>. QED BY <1>1, <2>1, StreamKeeps
<1>. QED BY <1>2, <1>3

LEMMA ServiceLostKeeps ==
    ASSUME SmsInv, ShownInv, ServiceLost
    PROVE  ShownInv'
<1>0. SmsTypeOK /\ IsFiniteSet(phone)
  BY DEF SmsInv, ShownInv
<1>1. /\ phone' = phone /\ clock' = clock /\ clock \in Nat /\ clock =< clock
      /\ requests' = <<>> /\ unheard' = TRUE /\ UNCHANGED shown
  BY <1>0 DEF ServiceLost, ServiceRestarts, phoneSide, SmsTypeOK
<1>2. SentByUser' \in Nat
  <2>1. Unsent' = {}
    BY <1>1 DEF Unsent
  <2>2. Cardinality(Unsent') = 0
    BY <2>1, FS_EmptySet
  <2>3. Cardinality(OwnOf(phone)) \in Nat /\ OwnOf(phone)' = OwnOf(phone)
    BY <1>0, <1>1, OwnIs DEF OwnOf
  <2>4. Cardinality(OwnOf(phone))' \in Nat
    BY <2>3
  <2>. QED BY <2>2, <2>4 DEF SentByUser
<1>3. IsFiniteSet(phone') /\ phone \subseteq phone'
  BY <1>0, <1>1
<1>. QED BY <1>1, <1>2, <1>3, ThreadKept

\* A new chat that turns into a conversation keeps what it shows, and what the phone
\* has of the conversation is not waited for.
LEMMA HandleConversationsReceivedKeeps ==
    ASSUME SmsInv, ShownInv, HandleConversationsReceived
    PROVE  ShownInv'
<1>0. WindowTypeOK
  BY DEF SmsInv
<1>1. /\ phone' = phone /\ clock' = clock /\ requests' = requests /\ wire' = wire
      /\ messages' = messages /\ index' = index
      /\ \/ selected' = selected /\ unheard' = unheard
         \/ selected = NewChat /\ selected' = NewFor /\ unheard' = TRUE
  BY DEF HandleConversationsReceived, smsVars
<1>2. \A e \in Range(inbox) : e.type = "messages" => e \in Range(inbox')
  BY <1>0, TakesEventIs DEF HandleConversationsReceived
<1>3. CASE selected' = selected /\ unheard' = unheard
  BY <1>1, <1>2, <1>3, StreamKeeps DEF shown
<1>4. CASE selected = NewChat /\ selected' = NewFor /\ unheard' = TRUE
  <2>1. Real(messages)'
    <3>1. NewChat # NewFor
      BY SmsAssumption
    <3>. QED BY <1>1, <1>4, <3>1 DEF ShownInv, Sound, Real
  <2>2. OwnBound(messages)' /\ CompleteInv'
    BY <1>4 DEF OwnBound, CompleteInv
  <2>3. messages' \in Seq(Displayed) /\ Unique(messages')
    BY <1>1 DEF ShownInv, Sound
  <2>4. index' = Rebuilt(messages') /\ IsFiniteSet(phone')
    BY <1>1 DEF ShownInv
  <2>. QED BY <2>1, <2>2, <2>3, <2>4 DEF ShownInv, Sound
<1>. QED BY <1>1, <1>3, <1>4

\* An opened thread shows nothing yet, and all of it is asked for.
LEMMA SelectsKeeps ==
    ASSUME SmsInv, ShownInv, NEW u \in Chat, Selects(u)
    PROVE  ShownInv'
<1> DEFINE r == [type |-> "conversation", thread |-> u]
<1>0. SmsTypeOK /\ IsFiniteSet(phone)
  BY DEF SmsInv, ShownInv
<1>1. /\ phone' = phone /\ selected' = u /\ messages' = <<>> /\ index' = Empty
  BY DEF Selects, phoneSide
<1>2. r \in Request /\ Asks(<<r>>) /\ r.type # "send"
  BY DEF Request, Chat, Selects
<1> HIDE DEF r
<1>3. linked => r \in Range(requests')
  BY <1>0, <1>2, AsksIs
<1>4. SentByUser' \in Nat
  <2>1. Cardinality(Unsent') = Cardinality(Unsent)
    BY <1>0, <1>2, UnsentAsked
  <2>2. OwnOf(phone)' = OwnOf(phone)
    BY <1>1 DEF OwnOf
  <2>3. SentByUser \in Nat
    BY <1>0, SentIs
  <2>. QED BY <2>1, <2>2, <2>3 DEF SentByUser
<1>5. Sound(messages)' /\ index' = Rebuilt(messages') /\ IsFiniteSet(phone')
  BY <1>0, <1>1, <1>4, EmptyIs
<1>6. CompleteInv'
  <2>1. ASSUME NEW m, m.thread = u, linked PROVE OnItsWay(m)'
    BY <1>3, <2>1 DEF OnItsWay, r
  <2>2. ~linked => unheard'
    BY DEF Selects
  <2>. QED BY <1>1, <2>1, <2>2 DEF CompleteInv, OfThread
<1>. QED BY <1>5, <1>6 DEF ShownInv

LEMMA CreateNewChatKeeps ==
    ASSUME SmsInv, ShownInv, CreateNewChat
    PROVE  ShownInv'
<1> DEFINE e == [type |-> "select", thread |-> NewChat]
<1>0. SmsTypeOK /\ inbox \in Seq(Event)
  BY DEF SmsInv, WindowTypeOK
<1>1. /\ phone' = phone /\ clock' = clock + 1 /\ requests' = requests /\ wire' = wire
      /\ unheard' = unheard /\ UNCHANGED shown /\ clock \in Nat
  BY <1>0 DEF CreateNewChat, SmsTypeOK
<1>2. Range(inbox) \subseteq Range(inbox')
  <2>1. e \in Event /\ inbox' = inbox \o <<e>>
    BY DEF Event, CreateNewChat, Gives
  <2> HIDE DEF e
  <2>2. <<e>> \in Seq(Event)
    BY <2>1, InOne
  <2>3. Range(inbox \o <<e>>) = Range(inbox) \cup Range(<<e>>)
    BY <1>0, <2>2, InJoined, Zenon
  <2>. QED BY <2>1, <2>3
<1>3. Unsent' = Unsent /\ clock' \in Nat /\ clock =< clock'
  BY <1>1 DEF Unsent
<1> HIDE DEF Unsent
<1>. QED BY <1>1, <1>2, <1>3, ThreadKeeps

LEMMA DeleteConversationKeeps ==
    ASSUME SmsInv, ShownInv, NEW u \in Chat, DeleteConversation(u)
    PROVE  ShownInv'
<1>1. /\ phone' = phone /\ clock' = clock /\ requests' = requests /\ wire' = wire
      /\ inbox' = inbox /\ unheard' = unheard
      /\ \/ selected' = NoThread /\ messages' = <<>> /\ index' = Empty
         \/ UNCHANGED shown
  BY DEF DeleteConversation, smsVars
<1>2. CASE UNCHANGED shown
  BY <1>1, <1>2, StreamKeeps
<1>3. CASE selected' = NoThread /\ messages' = <<>> /\ index' = Empty
  <2>1. IsFiniteSet(phone)
    BY DEF ShownInv
  <2>2. SentByUser' \in Nat
    <3>1. OwnOf(phone)' = OwnOf(phone) /\ Unsent' = Unsent
      BY <1>1 DEF OwnOf, Unsent
    <3>2. SentByUser \in Nat
      BY <2>1, SentIs DEF SmsInv
    <3>. QED BY <3>1, <3>2 DEF SentByUser
  <2>3. CompleteInv'
    BY <1>3, SmsAssumption DEF CompleteInv
  <2>. QED BY <1>1, <1>3, <2>1, <2>2, <2>3, EmptyIs DEF ShownInv
<1>. QED BY <1>1, <1>2, <1>3

\* What the user sends is shown as not yet on the phone, under an ID no other has.
LEMMA SendMessageKeeps ==
    ASSUME SmsInv, ShownInv, SendMessage
    PROVE  ShownInv'
<1> DEFINE q == [type |-> "send", thread |-> selected]
<1>0. /\ SmsTypeOK /\ WindowTypeOK /\ Sound(messages) /\ IsFiniteSet(phone)
      /\ selected \in Chat /\ MaxClock \in Nat
  BY SmsAssumption DEF SmsInv, WindowTypeOK, SendMessage, ShownInv
<1>1. PICK s : s = [id |-> -clock, thread |-> selected, own |-> TRUE]
  OBVIOUS
<1>2. PICK msgs : msgs = Append(messages, s)
  OBVIOUS
<1>3. /\ phone' = phone /\ clock' = clock + 1 /\ clock \in 1 .. MaxClock
      /\ wire' = wire /\ inbox' = inbox /\ selected' = selected /\ unheard' = (unheard \/ ~linked)
      /\ messages' = ByDate(msgs) /\ index' = Rebuilt(messages')
  BY <1>0, <1>1, <1>2 DEF SendMessage, SmsTypeOK
<1>4. s \in Displayed /\ IsSending(s) /\ s.own
  BY <1>0, <1>1, <1>3 DEF Displayed, IsSending
<1>5. q \in Request /\ Asks(<<q>>) /\ q.type = "send"
  BY <1>0 DEF Request, Chat, SendMessage
<1> HIDE DEF q
<1>6. messages \in Seq(Displayed) /\ Unique(messages) /\ Real(messages)
  BY <1>0 DEF Sound
<1>7. \A m \in Range(messages) : m.id # s.id /\ -clock' < m.id
  <2>1. ASSUME NEW m \in Range(messages) PROVE m.id # s.id /\ -clock' < m.id
    <3>1. -clock < m.id /\ m.id \in Int
      BY <1>0, <1>6, InSeq, DisplayedIs DEF Real
    <3>2. s.id = -clock
      BY <1>1
    <3>. QED BY <1>3, <3>1, <3>2
  <2>. QED BY <2>1
<1>8. /\ msgs \in Seq(Displayed) /\ Range(msgs) = Range(messages) \cup {s}
      /\ Unique(msgs)
  <2>1. /\ DOMAIN msgs = DOMAIN messages \cup {Len(messages) + 1}
        /\ msgs[Len(messages) + 1] = s /\ Len(messages) + 1 \notin DOMAIN messages
        /\ \A i \in DOMAIN messages : msgs[i] = messages[i]
    BY <1>2, <1>6
  <2>2. \A i \in DOMAIN messages : messages[i].id # s.id
    BY <1>7 DEF Range
  <2>3. Unique(msgs)
    BY <1>6, <2>1, <2>2 DEF Unique
  <2>. QED BY <1>2, <1>4, <1>6, <2>3, InAppended
<1>9. PICK new : new = messages'
  OBVIOUS
<1>10. new \in Seq(Displayed) /\ Unique(new) /\ Range(new) = Range(messages) \cup {s}
  BY <1>3, <1>8, <1>9, SortedIs
<1>11. Real(messages)'
  <2>1. s.thread = selected /\ -clock' < s.id
    BY <1>1, <1>3, <1>4
  <2>. QED BY <1>3, <1>4, <1>6, <1>7, <1>9, <1>10, <2>1 DEF Real
<1>12. OwnBound(messages)'
  <2> DEFINE own == OwnOf(Range(messages))
  <2>1. IsFiniteSet(own) /\ Cardinality(own) \in Nat
    BY <1>6, ListIsFinite, OwnIs
  <2>2. OwnOf(Range(new)) = own \cup {s} /\ s \notin own
    BY <1>4, <1>7, <1>10 DEF OwnOf
  <2>3. linked => SentByUser' = SentByUser + 1 /\ SentByUser \in Nat
    <3>1. linked => Cardinality(Unsent') = Cardinality(Unsent) + 1
      BY <1>0, <1>5, UnsentAsked
    <3>2. OwnOf(phone)' = OwnOf(phone) /\ Cardinality(OwnOf(phone)) \in Nat
      BY <1>0, <1>3, OwnIs DEF OwnOf
    <3>3. SentByUser \in Nat /\ Cardinality(Unsent) \in Nat
      BY <1>0, SentIs, UnsentIs
    <3>. QED BY <3>1, <3>2, <3>3 DEF SentByUser
  <2>4. EchoWindow >= MaxDate /\ ~unheard => Cardinality(own) =< SentByUser
    BY <1>0 DEF Sound, OwnBound
  <2> HIDE DEF own
  <2>5. Cardinality(OwnOf(Range(new))) = Cardinality(own) + 1
    BY <2>1, <2>2, FS_AddElement
  <2> SUFFICES ASSUME EchoWindow >= MaxDate, ~unheard'
               PROVE  Cardinality(OwnOf(Range(new))) =< SentByUser'
    BY <1>9 DEF OwnBound
  <2>6. linked /\ ~unheard
    BY <1>3
  <2>. QED BY <2>1, <2>3, <2>4, <2>5, <2>6
<1>13. CompleteInv'
  <2>1. Range(requests) \subseteq Range(requests')
    BY <1>0, <1>5, AsksIs
  <2>2. \A m \in phone : OnItsWay(m) => OnItsWay(m)'
    BY <1>3, <2>1, StaysOnItsWay
  <2>3. \A id : Shows(messages, id) => Shows(new, id)
    BY <1>10 DEF Shows
  <2>4. \A m \in phone : selected \in Thread /\ ~unheard /\ m.thread = selected =>
           OnItsWay(m) \/ Shows(messages, m.id)
    BY DEF ShownInv, CompleteInv, OfThread
  <2>. QED BY <1>3, <1>9, <2>2, <2>3, <2>4 DEF CompleteInv, OfThread, Shows
<1>14. Sound(messages)'
  BY <1>9, <1>10, <1>11, <1>12 DEF Sound
<1>. QED BY <1>0, <1>3, <1>13, <1>14 DEF ShownInv

\* What is in an order that a batch comes in.
LEMMA OrderIs ==
    ASSUME NEW S, IsFiniteSet(S), NEW order \in SetToSeqs(S)
    PROVE  /\ Len(order) \in Nat /\ \A k \in 1 .. Len(order) : order[k] \in S
           /\ \A m \in S : \E k \in 1 .. Len(order) : order[k] = m
<1>1. PICK n \in Nat : n = Cardinality(S)
  BY FS_CardinalityType
<1>2. order \in [1 .. n -> S] /\ \A i, j \in 1 .. n : i # j => order[i] # order[j]
  BY <1>1 DEF SetToSeqs
<1>3. Len(order) = n /\ DOMAIN order = 1 .. n
  BY <1>2
<1>4. PICK T : T = Range(order)
  OBVIOUS
<1>5. order \in Bijection(1 .. n, T)
  BY <1>2, <1>4 DEF Bijection, Injection, Surjection, IsInjective, Range
<1>6. IsFiniteSet(1 .. n) /\ Cardinality(1 .. n) = n
  BY FS_Interval
<1>7. T \in SUBSET S /\ Cardinality(T) = n
  <2>1. ExistsBijection(1 .. n, T)
    BY <1>5 DEF ExistsBijection
  <2>2. T \in SUBSET S
    BY <1>2, <1>4 DEF Range
  <2>. QED BY <1>6, <2>1, <2>2, FS_Bijection
<1>8. T = S
  BY <1>1, <1>7, FS_Subset
<1>9. \A m \in S : \E k \in 1 .. n : order[k] = m
  BY <1>2, <1>4, <1>8 DEF Range
<1>. QED BY <1>2, <1>3, <1>9

\* All that has come of the open thread is shown, each message once.
LEMMA HandleMessagesReceivedKeeps ==
    ASSUME SmsInv, ShownInv, HandleMessagesReceived
    PROVE  ShownInv'
<1>0. /\ SmsTypeOK /\ WindowTypeOK /\ FromPhone /\ DeletedStaysAway
      /\ Sound(messages) /\ IsFiniteSet(phone)
  BY DEF SmsInv, ShownInv
<1>1. TakesEvent("messages") /\ UNCHANGED smsVars
  BY DEF HandleMessagesReceived
<1>2. /\ Range(inbox) = {Head(inbox)} \cup Range(inbox')
      /\ Head(inbox).batch \subseteq phone
  BY <1>1, TakingStays
<1>3. /\ phone' = phone /\ clock' = clock /\ requests' = requests /\ wire' = wire
      /\ selected' = selected /\ unheard' = unheard
  BY DEF HandleMessagesReceived, smsVars
<1>4. PICK open : open = OfThread({m \in Head(inbox).batch : m.thread \notin hidden}, selected)
  OBVIOUS
<1>5. open \in SUBSET phone /\ \A m \in open : m.thread = selected
  BY <1>2, <1>4 DEF OfThread
<1>6. PICK order \in SetToSeqs(open) :
         LET merged == InsertAll([messages |-> messages, index |-> index], order)
         IN  /\ messages' = ByDate(merged.messages)
             /\ index' = IF messages' = <<>> THEN merged.index ELSE Rebuilt(messages')
  BY <1>4 DEF HandleMessagesReceived
<1>7. /\ Len(order) \in Nat /\ \A k \in 1 .. Len(order) : order[k] \in open
      /\ \A m \in open : \E k \in 1 .. Len(order) : order[k] = m
  <2>1. IsFiniteSet(open)
    BY <1>0, <1>5, FS_Subset
  <2>. QED BY <2>1, OrderIs
<1>8. PICK first : first = [messages |-> messages, index |-> Rebuilt(messages)]
  OBVIOUS
<1>9. PICK list :
         /\ list = InsertAll(first, order)
         /\ messages' = ByDate(list.messages)
         /\ index' = IF messages' = <<>> THEN list.index ELSE Rebuilt(messages')
  BY <1>6, <1>8 DEF ShownInv
<1>10. /\ list = [messages |-> list.messages, index |-> Rebuilt(list.messages)]
       /\ Sound(list.messages)
       /\ \A k \in 1 .. Len(order) : Shows(list.messages, order[k].id)
       /\ \A id \in Nat : Shows(messages, id) => Shows(list.messages, id)
  BY <1>0, <1>5, <1>7, <1>8, <1>9, BatchSound
<1>11. PICK msgs : msgs = list.messages
  OBVIOUS
<1>12. PICK new : new = messages'
  OBVIOUS
<1>13. new \in Seq(Displayed) /\ Unique(new) /\ Range(new) = Range(msgs)
  BY <1>9, <1>10, <1>11, <1>12, SortedIs DEF Sound
<1>14. Real(messages)'
  BY <1>3, <1>10, <1>11, <1>12, <1>13 DEF Sound, Real
<1>15. OwnBound(messages)'
  <2>1. SentByUser' = SentByUser
    BY <1>3 DEF SentByUser, OwnOf, Unsent
  <2>2. OwnBound(msgs)
    BY <1>10, <1>11 DEF Sound
  <2>. QED BY <1>3, <1>12, <1>13, <2>1, <2>2 DEF OwnBound
<1>16. index' = Rebuilt(messages')
  <2>1. CASE new = <<>>
    <3>1. msgs = <<>>
      <4>1. Range(msgs) = {} /\ msgs \in Seq(Displayed)
        BY <1>10, <1>11, <1>13, <2>1, InEmpty DEF Sound
      <4>2. DOMAIN msgs = {}
        BY <4>1 DEF Range
      <4>. QED BY <4>1, <4>2
    <3>2. list.index = Rebuilt(msgs)
      BY <1>10, <1>11
    <3>. QED BY <1>9, <1>12, <2>1, <3>1, <3>2
  <2>. QED BY <1>9, <1>12, <2>1
<1>17. CompleteInv'
  <2> SUFFICES ASSUME selected \in Thread, ~unheard, NEW m \in phone, m.thread = selected
               PROVE  OnItsWay(m)' \/ Shows(new, m.id)
    BY <1>3, <1>12 DEF CompleteInv, OfThread, Shows, OnItsWay
  <2>1. \A id \in Nat : Shows(msgs, id) => Shows(new, id)
    BY <1>13 DEF Shows
  <2>2. m.id \in Nat
    BY <1>0, MessageIs DEF SmsTypeOK
  <2>3. CASE Shows(messages, m.id)
    BY <1>10, <1>11, <2>1, <2>2, <2>3
  <2>4. CASE m \in Head(inbox).batch
    <3>1. m \in open
      BY <1>0, <1>4, <2>4 DEF OfThread, DeletedStaysAway
    <3>2. Shows(msgs, m.id)
      BY <1>7, <1>10, <1>11, <3>1
    <3>. QED BY <2>1, <2>2, <3>2
  <2>5. CASE OnItsWay(m) /\ m \notin Head(inbox).batch
    <3>1. CASE \E e \in Range(inbox) : e.type = "messages" /\ m \in e.batch
      <4>1. \E e \in Range(inbox') : e.type = "messages" /\ m \in e.batch
        BY <1>2, <2>5, <3>1
      <4>. QED BY <4>1 DEF OnItsWay
    <3>. QED BY <1>3, <2>5, <3>1 DEF OnItsWay
  <2>6. OnItsWay(m) \/ Shows(messages, m.id)
    BY DEF ShownInv, CompleteInv, OfThread
  <2>. QED BY <2>3, <2>4, <2>5, <2>6
<1>18. Sound(messages)'
  BY <1>12, <1>13, <1>14, <1>15 DEF Sound
<1>. QED BY <1>0, <1>3, <1>16, <1>17, <1>18 DEF ShownInv

-----------------------------------------------------------------------------
(***************************************************************************)
(* The SMS window: the theorems about the open thread.                     *)
(***************************************************************************)

LEMMA ShownStep == SmsInv /\ ShownInv /\ [WindowNext]_vars => ShownInv'
<1> SUFFICES ASSUME SmsInv, ShownInv, [WindowNext]_vars PROVE ShownInv'
  OBVIOUS
<1>1. CASE UNCHANGED vars
  BY <1>1, StreamKeeps DEF vars, smsVars, windowVars, shown
<1>2. CASE PhoneNext /\ UNCHANGED windowVars
  <2>1. CASE SeedCache
    BY <1>2, <2>1, StreamKeeps DEF SeedCache, phoneSide, windowVars, shown
  <2>. QED BY <1>2, <2>1, PhoneConversationsKeeps, PhoneConversationKeeps, PhoneSmsKeeps,
              PhoneConnectsKeeps DEF PhoneNext
<1>3. CASE StreamNext
  <2>1. CASE Listens
    BY <2>1, AskingKeeps DEF Listens
  <2>2. CASE StreamEnds
    BY <2>2, StreamKeeps DEF StreamEnds, smsVars
  <2>. QED BY <1>3, <2>1, <2>2, OpensKeeps, SmsMessagesReceivedKeeps, LinkBreaksKeeps,
              ServiceLostKeeps, HappensOnPhoneKeeps DEF StreamNext
<1>4. CASE UpdateNext
  <2>1. CASE LoadConversations
    BY <2>1, AskingKeeps DEF LoadConversations, windowVars, shown
  <2>2. CASE SelectNewChat
    BY <2>2, SelectsKeeps DEF SelectNewChat, Chat
  <2>3. CASE \E t \in Chat : SelectThread(t)
    BY <2>3, SelectsKeeps DEF SelectThread
  <2>. QED BY <1>4, <2>1, <2>2, <2>3, HandleMessagesReceivedKeeps,
              HandleConversationsReceivedKeeps, SendMessageKeeps, CreateNewChatKeeps,
              DeleteConversationKeeps DEF UpdateNext
<1>. QED BY <1>1, <1>2, <1>3, <1>4 DEF WindowNext

LEMMA ThreadAlways == WindowSpec => [](SmsInv /\ ShownInv)
<1>. QED BY SmsStarts, SmsStep, ShownStarts, ShownStep, PTL DEF WindowSpec

LEMMA ThreadHolds ==
    ASSUME SmsInv, ShownInv
    PROVE  ThreadTypeOK /\ OnlyOpenThread /\ IndexIsInSync
<1>1. /\ messages \in Seq(Displayed) /\ Unique(messages) /\ Real(messages)
      /\ index = Rebuilt(messages)
  BY DEF ShownInv, Sound
<1>2. \A i \in DOMAIN messages : i \in Nat \ {0} /\ messages[i] \in Displayed
  BY <1>1
<1>3. ThreadTypeOK
  <2>1. /\ DOMAIN index.byId = {messages[i].id : i \in DOMAIN messages}
        /\ index.pending \subseteq DOMAIN messages
        /\ index = [byId |-> index.byId, pending |-> index.pending]
    BY <1>1, RebuiltIs
  <2>2. DOMAIN index = {"byId", "pending"}
    BY <2>1
  <2>3. DOMAIN index.byId \subseteq (-MaxClock .. MaxClock) \ {0}
    BY <1>2, <2>1 DEF Displayed
  <2>. QED BY <1>1, <1>2, <2>1, <2>2, <2>3 DEF ThreadTypeOK
<1>4. OnlyOpenThread
  <2>1. \A i \in DOMAIN messages : messages[i] \in Range(messages)
    BY DEF Range
  <2>. QED BY <1>1, <2>1 DEF OnlyOpenThread, Unique, Real
<1>. QED BY <1>1, <1>3, <1>4 DEF IndexIsInSync

LEMMA OwnHolds ==
    ASSUME SmsInv, ShownInv, EchoWindow >= MaxDate
    PROVE  OwnShownOnce
<1> SUFFICES ASSUME ~unheard
             PROVE  Cardinality({i \in DOMAIN messages : messages[i].own}) =< SentByUser
  BY DEF OwnShownOnce, SentByUser, OwnOf, Unsent
<1>1. PICK own : own = {i \in DOMAIN messages : messages[i].own}
  OBVIOUS
<1>2. PICK S : S = OwnOf(Range(messages))
  OBVIOUS
<1>3. messages \in Seq(Displayed) /\ Unique(messages) /\ Cardinality(S) =< SentByUser
  BY <1>2 DEF ShownInv, Sound, OwnBound
<1>4. PICK f : f = [i \in own |-> messages[i]]
  OBVIOUS
<1>5. f \in Bijection(own, S)
  <2>1. \A i \in own : f[i] = messages[i] /\ f[i] \in S
    BY <1>1, <1>2, <1>4 DEF OwnOf, Range
  <2>2. \A s \in S : \E i \in own : f[i] = s
    BY <1>1, <1>2, <1>4 DEF OwnOf, Range
  <2>3. \A i, j \in own : f[i] = f[j] => i = j
    BY <1>1, <1>3, <2>1 DEF Unique
  <2>4. f \in Injection(own, S)
    BY <1>4, <2>1, <2>3 DEF Injection, IsInjective
  <2>5. f \in Surjection(own, S)
    BY <1>4, <2>1, <2>2 DEF Surjection
  <2>. QED BY <2>4, <2>5 DEF Bijection
<1>6. IsFiniteSet(own)
  <2>1. IsFiniteSet(DOMAIN messages) /\ own \in SUBSET DOMAIN messages
    BY <1>1, <1>3, ListIsFinite
  <2>. QED BY <2>1, FS_Subset
<1>7. Cardinality(own) = Cardinality(S)
  <2>1. ExistsBijection(own, S)
    BY <1>5 DEF ExistsBijection
  <2>. QED BY <1>6, <2>1, FS_Bijection
<1>. QED BY <1>1, <1>3, <1>7

\* Whatever batches come and in whatever order, whatever the user opens, deletes and
\* sends: no message is shown twice and none of another conversation, and the index
\* finds each message where it is.
THEOREM NoneShownTwice == WindowSpec => [](ThreadTypeOK /\ OnlyOpenThread /\ IndexIsInSync)
<1>. QED BY ThreadAlways, ThreadHolds, PTL

\* The same, and what the user has sent is not shown beside its own echo, if no report
\* comes later than the window of an echo, the difference of the clocks included, and
\* nothing of the open conversation was lost with the link or sent without one.
THEOREM EachShownOnce == EchoWindow >= MaxDate => (WindowSpec => []ShownOnce)
<1> SUFFICES ASSUME EchoWindow >= MaxDate PROVE WindowSpec => []ShownOnce
  OBVIOUS
<1>1. SmsInv /\ ShownInv => ShownOnce
  BY ThreadHolds, OwnHolds DEF ShownOnce
<1>. QED BY <1>1, ThreadAlways, PTL

\* When nothing is on its way, all the phone has of the open conversation is shown, if
\* it was asked for and its answer heard, and none of it was lost with the link or made
\* without one: nothing of a batch is skipped, and no answer is lost between the
\* service and the list.
THEOREM ThreadsComplete == WindowSpec => []ThreadIsComplete
<1>1. SmsInv /\ ShownInv => ThreadIsComplete
  <2> SUFFICES ASSUME ShownInv, selected \in Thread, ~unheard,
                      requests = <<>>, wire = <<>>, inbox = <<>>,
                      NEW m \in OfThread(phone, selected)
               PROVE  \E i \in DOMAIN messages : messages[i].id = m.id
    BY DEF ThreadIsComplete
  <2>1. ~OnItsWay(m)
    BY InEmpty DEF OnItsWay
  <2>2. Shows(messages, m.id)
    BY <2>1 DEF ShownInv, CompleteInv
  <2>. QED BY <2>2 DEF Shows, Range
<1>. QED BY <1>1, ThreadAlways, PTL
=============================================================================
