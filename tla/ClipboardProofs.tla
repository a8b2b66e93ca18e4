-------------------------- MODULE ClipboardProofs --------------------------
(***************************************************************************)
(* Theorems about ClipboardSync, for any seats, texts and bounds.          *)
(***************************************************************************)
EXTENDS ClipboardSync, FiniteSetTheorems, TLAPS

-----------------------------------------------------------------------------
(***************************************************************************)
(* The inductive invariant.                                                *)
(***************************************************************************)

\* A read whose result will count: in its thread, or on its way to the worker.
FreshAt(i) == i \in DOMAIN commands /\ ~IsSetText(commands[i]) /\ ~commands[i].read.late
IsFresh(r) == (r \in reads /\ ~r.late) \/ \E i : FreshAt(i) /\ commands[i].read = r

\* Each selection supersedes the read of the one before.
OneFresh ==
    /\ \A r, q \in reads : ~r.late /\ ~q.late => r = q
    /\ \A i, j : FreshAt(i) /\ FreshAt(j) => i = j
    /\ \A r \in reads : \A i : ~r.late => ~FreshAt(i)

\* What was on the clipboard at the start is only the first selection of a seat.
OldIsFirst ==
    /\ \A s \in Seat \ seats : selection[s] = Old
    /\ \A i \in DOMAIN inbox : inbox[i].seat \in seats
    /\ \A i \in DOMAIN inbox : inbox[i].text = Old =>
          /\ inbox[i].seat \notin seeded
          /\ \A j \in DOMAIN inbox : j < i => inbox[j].seat # inbox[i].seat

\* What is read is marked as secret if it is, and published if it is new.
ReadFits(r) ==
    /\ r.publish => r.text # Old
    /\ r.text \in Secret => r.secret
    /\ r.secret => r.text \in Secret \cup {NoText}

ReadsFit ==
    /\ \A r \in reads : ReadFits(r)
    /\ \A i \in DOMAIN commands : ~IsSetText(commands[i]) => ReadFits(commands[i].read)

Harmless(t) == t \notin Secret \cup {Old}

TextsFit ==
    /\ \A i \in DOMAIN commands : IsSetText(commands[i]) => Harmless(commands[i].text)
    /\ \A i \in DOMAIN events : events[i].text # Old
    /\ \A i \in DOMAIN events : events[i].text \in Secret => events[i].secret
    /\ current.text \in Secret => current.secret
    /\ Harmless(quiet)
    /\ ~leaked

\* The echoes of the text set in quiet come before every other selection, and as
\* long as one is to come that text is the current one.
InInbox(t) == \E i \in DOMAIN inbox : inbox[i].text = t
Held(t) == current = [text |-> t, secret |-> FALSE]

QuietFits ==
    quiet # NoText =>
        /\ \A i, j \in DOMAIN inbox : i < j /\ inbox[j].text = quiet => inbox[i].text = quiet
        /\ InInbox(quiet) => Held(quiet) /\ \A r : IsFresh(r) => r.text \in {quiet, NoText}
        /\ \A r : IsFresh(r) /\ r.text = quiet => Held(quiet)

\* The last selection under way is that of its seat.
OnSomeSeat(t) == \E s \in seats : selection[s] = t

LastIsTheSelection ==
    /\ inbox # <<>> => selection[Last(inbox).seat] = Last(inbox).text
    /\ inbox = <<>> =>
          /\ \A r : IsFresh(r) => r.text = NoText \/ OnSomeSeat(r.text)
          /\ (\A r : ~IsFresh(r)) => current = Nothing \/ OnSomeSeat(current.text)

ClipIndInv ==
    /\ ClipTypeOK
    /\ PendingIsCached
    /\ OneFresh
    /\ OldIsFirst
    /\ ReadsFit
    /\ TextsFit
    /\ QuietFits
    /\ LastIsTheSelection

-----------------------------------------------------------------------------
(***************************************************************************)
(* Data.                                                                   *)
(***************************************************************************)

\* A read and a command stay what they are when a newer selection overtakes them.
LEMMA LateIs ==
    ASSUME NEW r \in Read
    PROVE  /\ Late(r) \in Read
           /\ Late(r).late = TRUE
           /\ Late(r).publish = r.publish
           /\ Late(r).text = r.text
           /\ Late(r).secret = r.secret
BY DEF Read, Late

LEMMA CommandIs ==
    ASSUME NEW c \in Command
    PROVE  /\ IsSetText(c) => c.text \in Text
           /\ ~IsSetText(c) => c = SelectionRead(c.read) /\ c.read \in Read
BY DEF Command, IsSetText, SelectionRead

LEMMA SupersededType ==
    ASSUME ClipTypeOK
    PROVE  /\ Superseded \subseteq Read
           /\ \A r \in Superseded : r.late
           /\ SupersededCommands \in Seq(Command)
           /\ DOMAIN SupersededCommands = DOMAIN commands
           /\ \A i \in DOMAIN commands :
                 /\ IsSetText(commands[i]) <=> IsSetText(SupersededCommands[i])
                 /\ IsSetText(commands[i]) => SupersededCommands[i] = commands[i]
                 /\ ~IsSetText(commands[i]) =>
                       SupersededCommands[i].read = Late(commands[i].read)
<1>0. reads \subseteq Read /\ commands \in Seq(Command)
  BY DEF ClipTypeOK
<1>1. Superseded \subseteq Read /\ \A r \in Superseded : r.late
  BY <1>0, LateIs DEF Superseded
<1>2. ASSUME NEW i \in DOMAIN commands
      PROVE  /\ SupersededCommands[i] \in Command
             /\ IsSetText(commands[i]) <=> IsSetText(SupersededCommands[i])
             /\ IsSetText(commands[i]) => SupersededCommands[i] = commands[i]
             /\ ~IsSetText(commands[i]) =>
                   SupersededCommands[i].read = Late(commands[i].read)
  <2>1. commands[i] \in Command
    BY <1>0
  <2>2. CASE IsSetText(commands[i])
    BY <2>1, <2>2 DEF SupersededCommands
  <2>3. CASE ~IsSetText(commands[i])
    <3>1. SupersededCommands[i] = SelectionRead(Late(commands[i].read))
      BY <2>3 DEF SupersededCommands
    <3>2. Late(commands[i].read) \in Read
      BY <2>1, <2>3, CommandIs, LateIs
    <3>. QED BY <2>3, <3>1, <3>2 DEF Command, IsSetText, SelectionRead
  <2>. QED BY <2>2, <2>3
<1>3. SupersededCommands \in Seq(Command) /\ DOMAIN SupersededCommands = DOMAIN commands
  <2>1. DOMAIN commands = 1..Len(commands) /\ Len(commands) \in Nat
    BY <1>0
  <2>2. DOMAIN SupersededCommands = DOMAIN commands
    BY DEF SupersededCommands
  <2>3. SupersededCommands \in [1..Len(commands) -> Command]
    <3>1. SupersededCommands = [i \in 1..Len(commands) |-> SupersededCommands[i]]
      BY <2>1 DEF SupersededCommands
    <3>. QED BY <1>2, <2>1, <3>1
  <2>4. \A q, n : n \in Nat /\ q \in [1..n -> Command] => q \in Seq(Command)
    OBVIOUS
  <2>. QED BY <2>1, <2>2, <2>3, <2>4
<1>. QED BY <1>1, <1>2, <1>3

\* What the compositor announces after set_text is announced in some order.
LEMMA SomeOrder ==
    ASSUME NEW Offers, IsFiniteSet(Offers)
    PROVE  SetToSeq(Offers) \in Seq(Offers) /\ (Offers # {} => SetToSeq(Offers) # <<>>)
<1>1. Cardinality(Offers) \in Nat /\ ExistsBijection(1..Cardinality(Offers), Offers)
  BY FS_CardinalityType
<1>2. \E q \in [1..Cardinality(Offers) -> Offers] : IsInjective(q)
  BY <1>1 DEF ExistsBijection, Bijection, Injection
<1>3. SetToSeq(Offers) \in [1..Cardinality(Offers) -> Offers]
  BY <1>2 DEF SetToSeq
<1>4. Offers # {} => Cardinality(Offers) # 0
  BY FS_EmptySet
<1>5. \A n, q : n \in Nat /\ q \in [1..n -> Offers] => q \in Seq(Offers) /\ (n # 0 => q # <<>>)
  OBVIOUS
<1>. QED BY <1>1, <1>3, <1>4, <1>5

LEMMA TailOf ==
    ASSUME NEW T, NEW q \in Seq(T), q # <<>>
    PROVE  /\ 1 \in DOMAIN q /\ Head(q) = q[1] /\ q[1] \in T
           /\ Tail(q) \in Seq(T)
           /\ \A i \in DOMAIN Tail(q) : i + 1 \in DOMAIN q /\ Tail(q)[i] = q[i + 1]
           /\ \A i \in DOMAIN q : i # 1 => i - 1 \in DOMAIN Tail(q) /\ Tail(q)[i - 1] = q[i]
           /\ Tail(q) # <<>> => Last(Tail(q)) = Last(q)
           /\ Tail(q) = <<>> => Last(q) = q[1]
           /\ \A i \in DOMAIN q : i \in Nat /\ i >= 1
           /\ \A i \in DOMAIN Tail(q) : i \in Nat /\ i >= 1
<1>1. Len(q) \in Nat /\ DOMAIN q = 1..Len(q) /\ Len(q) # 0
  OBVIOUS
<1>2. Tail(q) \in Seq(T) /\ Len(Tail(q)) = Len(q) - 1 /\ DOMAIN Tail(q) = 1..(Len(q) - 1)
  BY <1>1
<1>3. \A i \in 1..(Len(q) - 1) : Tail(q)[i] = q[i + 1]
  BY <1>1
<1>4. Tail(q) # <<>> => Last(Tail(q)) = Last(q)
  BY <1>1, <1>2, <1>3 DEF Last
<1>5. Tail(q) = <<>> => Last(q) = q[1]
  BY <1>1, <1>2 DEF Last
<1>. QED BY <1>1, <1>2, <1>3, <1>4, <1>5

LEMMA AppendOf ==
    ASSUME NEW T, NEW q \in Seq(T), NEW x \in T
    PROVE  /\ Append(q, x) \in Seq(T)
           /\ DOMAIN Append(q, x) = DOMAIN q \cup {Len(q) + 1}
           /\ \A i \in DOMAIN q : Append(q, x)[i] = q[i] /\ i \in Nat /\ i < Len(q) + 1
           /\ Append(q, x)[Len(q) + 1] = x
           /\ Append(q, x) # <<>>
           /\ Last(Append(q, x)) = x
<1>1. Len(q) \in Nat /\ DOMAIN q = 1..Len(q)
  OBVIOUS
<1>2. Append(q, x) \in Seq(T) /\ Len(Append(q, x)) = Len(q) + 1
  OBVIOUS
<1>3. DOMAIN Append(q, x) = 1..(Len(q) + 1)
  BY <1>1, <1>2
<1>. QED BY <1>1, <1>2, <1>3 DEF Last

\* After set_text the selections under way are those there were and its echoes.
\* e is q with one or more of Offers behind it.
Follow(Offers, q, e) ==
    /\ e # <<>>
    /\ \A i \in DOMAIN e : i \in Nat /\ i >= 1
    /\ Last(e) \in Offers
    /\ \A i \in DOMAIN q : i \in DOMAIN e /\ e[i] = q[i] /\ i \in Nat /\ i <= Len(q)
    /\ \A i \in DOMAIN e \ DOMAIN q : i > Len(q) /\ e[i] \in Offers
    /\ Len(q) \in Nat

LEMMA EchoesFollow ==
    ASSUME NEW T, NEW q \in Seq(T),
           NEW Offers, IsFiniteSet(Offers), Offers # {}, Offers \subseteq T,
           NEW e, e = q \o SetToSeq(Offers)
    PROVE  e \in Seq(T) /\ Follow(Offers, q, e)
<1>1. SetToSeq(Offers) \in Seq(Offers) /\ SetToSeq(Offers) # <<>>
  BY SomeOrder
<1>2. \A u \in Seq(Offers) : u # <<>> =>
         /\ q \o u \in Seq(T)
         /\ q \o u # <<>>
         /\ \A i \in DOMAIN (q \o u) : i \in Nat /\ i >= 1
         /\ Last(q \o u) \in Offers
         /\ \A i \in DOMAIN q : i \in DOMAIN (q \o u) /\ (q \o u)[i] = q[i] /\ i \in Nat /\ i <= Len(q)
         /\ \A i \in DOMAIN (q \o u) \ DOMAIN q : i > Len(q) /\ (q \o u)[i] \in Offers
         /\ Len(q) \in Nat
  <2>. SUFFICES ASSUME NEW u \in Seq(Offers), u # <<>>
       PROVE  /\ q \o u \in Seq(T)
              /\ q \o u # <<>>
              /\ \A i \in DOMAIN (q \o u) : i \in Nat /\ i >= 1
              /\ Last(q \o u) \in Offers
              /\ \A i \in DOMAIN q : i \in DOMAIN (q \o u) /\ (q \o u)[i] = q[i] /\ i \in Nat /\ i <= Len(q)
              /\ \A i \in DOMAIN (q \o u) \ DOMAIN q : i > Len(q) /\ (q \o u)[i] \in Offers
              /\ Len(q) \in Nat
    OBVIOUS
  <2>1. u \in Seq(T)
    OBVIOUS
  <2>2. /\ Len(q) \in Nat /\ DOMAIN q = 1..Len(q)
        /\ Len(u) \in Nat /\ DOMAIN u = 1..Len(u) /\ Len(u) # 0
    OBVIOUS
  <2>3. /\ q \o u \in Seq(T)
        /\ Len(q \o u) = Len(q) + Len(u)
        /\ DOMAIN (q \o u) = 1..(Len(q) + Len(u))
    BY <2>1, <2>2
  <2>4. \A i \in 1..(Len(q) + Len(u)) :
           (q \o u)[i] = IF i <= Len(q) THEN q[i] ELSE u[i - Len(q)]
    BY <2>1, <2>2
  <2>5. \A i \in 1..Len(u) : u[i] \in Offers
    BY <2>2
  <2>6. \A i \in (1..(Len(q) + Len(u))) \ (1..Len(q)) :
           i > Len(q) /\ (q \o u)[i] \in Offers
    BY <2>2, <2>4, <2>5
  <2>7. Last(q \o u) \in Offers
    BY <2>2, <2>3, <2>6 DEF Last
  <2>. QED BY <2>2, <2>3, <2>4, <2>6, <2>7
<1>. QED BY <1>1, <1>2 DEF Follow

-----------------------------------------------------------------------------
(***************************************************************************)
(* The read that counts: what each step makes of it.                       *)
(***************************************************************************)

\* A text to set is queued.
LEMMA QueuesKeepsFresh ==
    ASSUME ClipTypeOK, NEW t \in Text, Queues(t), reads' = reads
    PROVE  /\ \A r : IsFresh(r)' <=> IsFresh(r)
           /\ OneFresh => OneFresh'
<1> DEFINE c == [type |-> "SetText", text |-> t]
<1>1. commands \in Seq(Command) /\ c \in Command /\ IsSetText(c)
  BY DEF ClipTypeOK, Command, IsSetText
<1>2. commands' = Append(commands, c)
  BY DEF Queues
<1>. HIDE DEF c
<1>3. \A i : FreshAt(i)' <=> FreshAt(i)
  BY <1>1, <1>2, AppendOf DEF FreshAt
<1>4. \A i : FreshAt(i) => commands'[i] = commands[i]
  BY <1>1, <1>2, AppendOf DEF FreshAt
<1>5. \A r : IsFresh(r)' <=> IsFresh(r)
  BY <1>3, <1>4 DEF IsFresh
<1>. QED BY <1>3, <1>5 DEF OneFresh

\* A command is taken.
LEMMA TakesFresh ==
    ASSUME ClipTypeOK, OneFresh, NEW type, Takes(type), reads' = reads
    PROVE  /\ \A r : IsFresh(r)' => IsFresh(r)
           /\ ~FreshAt(1) => \A r : IsFresh(r) => IsFresh(r)'
           /\ FreshAt(1) => IsFresh(Head(commands).read) /\ \A r : ~IsFresh(r)'
           /\ OneFresh'
<1>1. /\ commands \in Seq(Command) /\ commands # <<>>
      /\ commands' = Tail(commands)
  BY DEF ClipTypeOK, Takes
<1>2. \A i : FreshAt(i)' => FreshAt(i + 1) /\ commands'[i] = commands[i + 1] /\ i \in Nat /\ i >= 1
  BY <1>1, TailOf DEF FreshAt
<1>3. \A i : FreshAt(i) /\ i # 1 => FreshAt(i - 1)' /\ commands'[i - 1] = commands[i]
  BY <1>1, TailOf DEF FreshAt
<1>4. \A r : IsFresh(r)' => IsFresh(r)
  BY <1>2 DEF IsFresh
<1>5. ~FreshAt(1) => \A r : IsFresh(r) => IsFresh(r)'
  BY <1>3 DEF IsFresh
<1>6. ASSUME FreshAt(1)
      PROVE  IsFresh(Head(commands).read) /\ \A r : ~IsFresh(r)'
  <2>1. Head(commands) = commands[1]
    BY <1>1, TailOf
  <2>2. IsFresh(Head(commands).read)
    BY <1>6, <2>1 DEF IsFresh
  <2>3. \A i : ~FreshAt(i)'
    BY <1>2, <1>6 DEF OneFresh
  <2>4. \A r \in reads : r.late
    BY <1>6 DEF OneFresh
  <2>. QED BY <2>2, <2>3, <2>4 DEF IsFresh
<1>7. OneFresh'
  <2>1. \A i, j : FreshAt(i)' /\ FreshAt(j)' => i = j
    BY <1>2 DEF OneFresh
  <2>. QED BY <1>2, <2>1 DEF OneFresh
<1>. QED BY <1>4, <1>5, <1>6, <1>7

\* A reading thread reports: its read is fresh if it was, whatever came of it.
LEMMA ReadEndsFresh ==
    ASSUME ClipTypeOK, OneFresh, NEW r \in reads, NEW text \in {r.text, NoText},
           NEW e, e = [r EXCEPT !.text = text],
           reads' = reads \ {r}, commands' = Append(commands, SelectionRead(e))
    PROVE  /\ \A q : IsFresh(q)' => IsFresh(q) \/ (IsFresh(r) /\ q = e)
           /\ \A q : IsFresh(q) => q = r \/ IsFresh(q)'
           /\ IsFresh(r) => IsFresh(e)'
           /\ OneFresh'
<1> DEFINE c == SelectionRead(e)
           n == Len(commands) + 1
<1>1. r \in Read /\ e \in Read /\ e.late = r.late
  BY DEF ClipTypeOK, Read, TextOrNone
<1>2. c \in Command /\ ~IsSetText(c) /\ c.read = e
  BY <1>1 DEF Command, IsSetText, SelectionRead
<1>3. commands \in Seq(Command) /\ commands' = Append(commands, c)
  BY DEF ClipTypeOK
<1>. HIDE DEF c, n
<1>4. /\ DOMAIN commands' = DOMAIN commands \cup {n}
      /\ \A i \in DOMAIN commands : commands'[i] = commands[i] /\ i # n
      /\ commands'[n] = c
  BY <1>2, <1>3, AppendOf DEF n
<1>5. \A i : FreshAt(i) => FreshAt(i)' /\ commands'[i] = commands[i]
  BY <1>4 DEF FreshAt
<1>6. \A i : FreshAt(i)' => \/ FreshAt(i) /\ commands'[i] = commands[i]
                            \/ i = n /\ ~r.late
  BY <1>1, <1>2, <1>4 DEF FreshAt
<1>7. ~r.late => IsFresh(e)'
  <2>1. \A i : i = n /\ ~r.late => FreshAt(i)' /\ commands'[i].read = e
    BY <1>1, <1>2, <1>4 DEF FreshAt
  <2>. QED BY <2>1 DEF IsFresh
<1>8. ~r.late <=> IsFresh(r)
  <2>1. ASSUME r.late, IsFresh(r) PROVE FALSE
    <3>1. PICK i : FreshAt(i) /\ commands[i].read = r
      BY <2>1 DEF IsFresh
    <3>. QED BY <2>1, <3>1 DEF FreshAt
  <2>2. ~r.late => IsFresh(r)
    BY DEF IsFresh
  <2>. QED BY <2>1, <2>2
<1>9. \A q : IsFresh(q)' => IsFresh(q) \/ (IsFresh(r) /\ q = e)
  <2>. SUFFICES ASSUME NEW q, IsFresh(q)', ~IsFresh(q) PROVE ~r.late /\ q = e
    BY <1>8
  <2>1. ~(q \in reads /\ ~q.late) /\ \A i : FreshAt(i) => commands[i].read # q
    BY DEF IsFresh
  <2>2. PICK i : FreshAt(i)' /\ commands'[i].read = q
    BY <2>1 DEF IsFresh
  <2>3. i = n /\ ~r.late
    BY <1>6, <2>1, <2>2
  <2>. QED BY <1>2, <1>4, <2>2, <2>3
<1>10. \A q : IsFresh(q) => q = r \/ IsFresh(q)'
  BY <1>5 DEF IsFresh
<1>11. OneFresh'
  <2>1. \A q, s \in reads' : ~q.late /\ ~s.late => q = s
    BY DEF OneFresh
  <2>2. ASSUME NEW i, NEW j, FreshAt(i)', FreshAt(j)' PROVE i = j
    BY <1>6, <2>2 DEF OneFresh
  <2>3. ASSUME NEW q \in reads', NEW i, ~q.late, FreshAt(i)' PROVE FALSE
    BY <1>6, <2>3 DEF OneFresh
  <2>. QED BY <2>1, <2>2, <2>3 DEF OneFresh
<1>. QED BY <1>7, <1>8, <1>9, <1>10, <1>11

\* A newer selection overtakes every read.
LEMMA SelectionFresh ==
    ASSUME ClipTypeOK, HandleSelection
    PROVE  /\ \A r : IsFresh(r)' <=> (Head(inbox).text # NoText /\ r = NewRead(Head(inbox)))
           /\ OneFresh'
<1> DEFINE o == Head(inbox)
           new == NewRead(o)
<1>1. new.late = FALSE
  BY DEF NewRead
<1>2. commands' = SupersededCommands
  BY DEF HandleSelection
<1>3. reads' = Superseded \/ reads' = Superseded \cup {new}
  BY DEF HandleSelection
<1>3b. (o.text # NoText => reads' = Superseded \cup {new}) /\ (o.text = NoText => reads' = Superseded)
  BY DEF HandleSelection
<1>. HIDE DEF new, o
<1>4. \A i : ~FreshAt(i)'
  <2>1. ASSUME NEW i \in DOMAIN commands, ~IsSetText(commands[i])
        PROVE  commands[i].read \in Read
    BY <2>1, CommandIs DEF ClipTypeOK
  <2>. QED BY <1>2, <2>1, SupersededType, LateIs DEF FreshAt
<1>5. \A r \in Superseded : r.late
  BY SupersededType
<1>6. \A r : IsFresh(r)' <=> (o.text # NoText /\ r = new)
  BY <1>1, <1>3b, <1>4, <1>5 DEF IsFresh
<1>7. OneFresh'
  BY <1>3, <1>4, <1>5 DEF OneFresh
<1>. QED BY <1>6, <1>7 DEF new, o

-----------------------------------------------------------------------------
(***************************************************************************)
(* Each part of the invariant, one step.                                   *)
(***************************************************************************)

LEMMA Texts ==
    /\ Old \in Text \ Secret
    /\ Old # NoText
    /\ NoText \notin Secret
    /\ NoText \notin Text
    /\ Harmless(NoText)
BY ClipboardAssumption DEF Harmless

\* An offer the compositor announces, and one the worker takes.
LEMMA AnnouncesIs ==
    ASSUME ClipTypeOK, NEW s \in Seat, NEW text \in TextOrNone, Announces(OfferOf(s, text))
    PROVE  /\ inbox' \in Seq(Offer)
           /\ inbox' # <<>>
           /\ Last(inbox') = OfferOf(s, text)
           /\ DOMAIN inbox' = DOMAIN inbox \cup {Len(inbox) + 1}
           /\ \A i \in DOMAIN inbox : inbox'[i] = inbox[i] /\ i \in Nat /\ i < Len(inbox) + 1
           /\ inbox'[Len(inbox) + 1] = OfferOf(s, text)
           /\ Len(inbox) \in Nat
<1>1. OfferOf(s, text) \in Offer /\ inbox \in Seq(Offer)
  BY DEF OfferOf, Offer, ClipTypeOK
<1>2. inbox' = Append(inbox, OfferOf(s, text))
  BY DEF Announces
<1>. QED BY <1>1, <1>2, AppendOf

\* The texts on their way from set_text.
LEMMA SetTextIs ==
    ASSUME ClipTypeOK, SetText
    PROVE  /\ Head(commands) \in Command /\ IsSetText(Head(commands))
           /\ Head(commands).text \in Text
           /\ Head(commands) = commands[1] /\ 1 \in DOMAIN commands
           /\ commands' \in Seq(Command)
           /\ Takes("SetText")
           /\ ~FreshAt(1)
           /\ {OfferOf(s, Head(commands).text) : s \in seats} \subseteq Offer
<1>1. commands \in Seq(Command) /\ commands # <<>> /\ Head(commands).type = "SetText" /\ commands' = Tail(commands)
  BY DEF SetText, Takes, ClipTypeOK
<1>2. Head(commands) \in Command /\ IsSetText(Head(commands)) /\ Head(commands) = commands[1]
      /\ 1 \in DOMAIN commands /\ commands' \in Seq(Command)
  BY <1>1, TailOf DEF IsSetText
<1>3. Head(commands).text \in Text
  BY <1>2, CommandIs
<1>4. {OfferOf(s, Head(commands).text) : s \in seats} \subseteq Offer
  BY <1>3 DEF OfferOf, Offer, ClipTypeOK, TextOrNone
<1>. QED BY <1>1, <1>2, <1>3, <1>4 DEF SetText, FreshAt

LEMMA FinishReadIs ==
    ASSUME ClipTypeOK, FinishRead
    PROVE  /\ Head(commands).read \in Read
           /\ commands' \in Seq(Command)
           /\ Takes("SelectionRead")
           /\ FreshAt(1)
           /\ Head(commands) = commands[1]
<1>1. commands \in Seq(Command) /\ commands # <<>> /\ Head(commands).type = "SelectionRead" /\ commands' = Tail(commands)
  BY DEF FinishRead, Takes, ClipTypeOK
<1>2. Head(commands) \in Command /\ ~IsSetText(Head(commands)) /\ Head(commands) = commands[1]
      /\ 1 \in DOMAIN commands /\ commands' \in Seq(Command)
  BY <1>1, TailOf DEF IsSetText
<1>3. Head(commands).read \in Read
  BY <1>2, CommandIs
<1>. QED BY <1>1, <1>2, <1>3 DEF FinishRead, FreshAt

LEMMA SetTextEchoes ==
    ASSUME ClipTypeOK, SetText, seats # {},
           NEW Offers, Offers = {OfferOf(s, Head(commands).text) : s \in seats}
    PROVE  inbox' \in Seq(Offer) /\ Follow(Offers, inbox, inbox')
<1>1. inbox' = inbox \o SetToSeq(Offers)
  BY DEF SetText
<1>2. inbox \in Seq(Offer)
  BY DEF ClipTypeOK
<1>3. Offers \subseteq Offer
  BY SetTextIs
<1>4. IsFiniteSet(seats)
  BY FS_Subset, ClipboardAssumption DEF ClipTypeOK
<1>5. [s \in seats |-> OfferOf(s, Head(commands).text)] \in Surjection(seats, Offers)
  BY DEF Surjection
<1>6. IsFiniteSet(Offers)
  BY <1>4, <1>5, FS_Surjection
<1>7. Offers # {}
  OBVIOUS
<1>8. LET e == inbox \o SetToSeq(Offers) IN e \in Seq(Offer) /\ Follow(Offers, inbox, e)
  BY ONLY <1>2, <1>3, <1>6, <1>7, EchoesFollow, Zenon
<1>. QED BY <1>1, <1>8, Zenon

\* The outcomes of a read: no text, one known already, or a new one.
LEMMA FinishReadCases ==
    ASSUME FinishRead, NEW r, r = Head(commands).read,
           NEW content, content = [text |-> r.text, secret |-> r.secret]
    PROVE  \/ /\ r.text = NoText
              /\ current' = Nothing /\ pending' = NoText /\ events' = events
              /\ quiet' = NoText \/ (quiet' = quiet /\ ~InInbox(quiet))
           \/ /\ r.text # NoText /\ r.text \in {pending, current.text}
              /\ current' = current /\ pending' = NoText /\ quiet' = quiet /\ events' = events
           \/ /\ r.text # NoText /\ r.text # pending
              /\ ~(r.text = current.text /\ r.secret = current.secret)
              /\ current' = content /\ pending' = NoText /\ quiet' = quiet
              /\ events' = events \/ (r.publish /\ events' = Append(events, content))
BY DEF FinishRead, Clear, Emit, QuietToCome, InInbox

\* A selection is taken: it is read, or nothing is left of the one before.
LEMMA SelectionCases ==
    ASSUME HandleSelection
    PROVE  \/ /\ Head(inbox).text = NoText
              /\ current' = Nothing /\ pending' = NoText
              /\ quiet' = NoText \/ (quiet' = quiet /\ ~InInbox(quiet))
           \/ /\ Head(inbox).text # NoText
              /\ current' = current /\ pending' = pending /\ quiet' = quiet
BY DEF HandleSelection, Clear, QuietToCome, InInbox

LEMMA NothingIs == Nothing \in Content /\ Nothing.text = NoText /\ Nothing.secret = FALSE
BY DEF Nothing, Content, TextOrNone

LEMMA HeldIs ==
    ASSUME NEW t, NEW b \in BOOLEAN
    PROVE  /\ [text |-> t, secret |-> b].text = t
           /\ [text |-> t, secret |-> b].secret = b
           /\ t \in TextOrNone => [text |-> t, secret |-> b] \in Content
BY DEF Content

LEMMA TypeStep ==
    ASSUME ClipTypeOK, OldIsFirst, ClipNext
    PROVE  ClipTypeOK'
<1>1. ASSUME NEW s \in Seat, SeatAppears(s) PROVE ClipTypeOK'
  <2>1. selection[s] \in TextOrNone
    BY DEF ClipTypeOK
  <2>2. inbox' \in Seq(Offer)
    BY <1>1, <2>1, AnnouncesIs DEF SeatAppears
  <2>. QED BY <1>1, <2>2 DEF ClipTypeOK, SeatAppears, worker, service
<1>2. ASSUME NEW s \in Seat, NEW text \in TextOrNone, Copy(s, text) PROVE ClipTypeOK'
  <2>1. inbox' \in Seq(Offer)
    BY <1>2, AnnouncesIs DEF Copy
  <2>2. selection' \in [Seat -> TextOrNone] /\ quiet' \in TextOrNone
    BY <1>2 DEF Copy, ClipTypeOK, TextOrNone
  <2>. QED BY <1>2, <2>1, <2>2 DEF ClipTypeOK, Copy, worker, service
<1>3. CASE HandleSelection
  <2> DEFINE o == Head(inbox)
  <2>1. inbox \in Seq(Offer) /\ inbox # <<>> /\ inbox' = Tail(inbox) /\ seeded' = seeded \cup {o.seat}
    BY <1>3 DEF HandleSelection, ClipTypeOK
  <2>2. o \in Offer /\ o.seat \in seats /\ inbox' \in Seq(Offer)
    BY <2>1, TailOf DEF OldIsFirst
  <2>3. NewRead(o) \in Read
    BY <2>2 DEF NewRead, Offer, Read
  <2>4. reads' \in SUBSET Read /\ commands' \in Seq(Command)
    BY <1>3, <2>3, SupersededType DEF HandleSelection
  <2>5. pending' \in TextOrNone /\ current' \in Content /\ quiet' \in TextOrNone
    BY <1>3, SelectionCases, NothingIs DEF TextOrNone, ClipTypeOK
  <2>. QED BY <1>3, <2>1, <2>2, <2>4, <2>5 DEF ClipTypeOK, HandleSelection, desktop, service
<1>4. CASE SetText
  <2>1. commands' \in Seq(Command) /\ Head(commands).text \in Text
    BY <1>4, SetTextIs
  <2>2. CASE seats = {}
    BY <1>4, <2>1, <2>2 DEF SetText, ClipTypeOK, service
  <2>3. CASE seats # {}
    <3>1. inbox' \in Seq(Offer)
      BY <1>4, <2>3, SetTextEchoes
    <3>2. selection' \in [Seat -> TextOrNone]
      BY <1>4, <2>1, <2>3 DEF SetText, ClipTypeOK, TextOrNone
    <3>3. pending' \in TextOrNone /\ current' \in Content /\ quiet' \in TextOrNone
      <4>1. current' = [text |-> Head(commands).text, secret |-> FALSE]
            /\ pending' = Head(commands).text /\ quiet' \in {Head(commands).text, NoText}
        BY <1>4, <2>3 DEF SetText
      <4>. QED BY <2>1, <4>1, HeldIs DEF TextOrNone
    <3>. QED BY <1>4, <2>1, <3>1, <3>2, <3>3 DEF SetText, ClipTypeOK, service
  <2>. QED BY <2>2, <2>3
<1>5. CASE LateRead
  <2>1. commands' \in Seq(Command)
    BY <1>5, TailOf DEF LateRead, Takes, ClipTypeOK
  <2>. QED BY <1>5, <2>1 DEF LateRead, ClipTypeOK, desktop, worker, service
<1>6. CASE FinishRead
  <2>1. commands' \in Seq(Command) /\ Head(commands).read \in Read
    BY <1>6, FinishReadIs
  <2>2. [text |-> Head(commands).read.text, secret |-> Head(commands).read.secret] \in Content
    BY <2>1 DEF Read, Content
  <2>3. pending' \in TextOrNone /\ current' \in Content /\ quiet' \in TextOrNone
    BY <1>6, <2>2, FinishReadCases, NothingIs DEF TextOrNone, ClipTypeOK
  <2>4. events' \in Seq(Content)
    <3> DEFINE content == [text |-> Head(commands).read.text, secret |-> Head(commands).read.secret]
    <3>1. events' = events \/ events' = Append(events, content)
      BY <1>6, FinishReadCases
    <3>2. events \in Seq(Content)
      BY DEF ClipTypeOK
    <3>3. Append(events, content) \in Seq(Content)
      BY <2>2, <3>2, AppendOf
    <3>. QED BY <3>1, <3>2, <3>3
  <2>. QED BY <1>6, <2>1, <2>3, <2>4 DEF FinishRead, ClipTypeOK, desktop
<1>7. ASSUME NEW r \in reads, ReadEnds(r) PROVE ClipTypeOK'
  <2>1. PICK text \in {r.text, NoText} : commands' = Append(commands, SelectionRead([r EXCEPT !.text = text]))
    BY <1>7 DEF ReadEnds
  <2>2. r \in Read /\ [r EXCEPT !.text = text] \in Read
    BY DEF ClipTypeOK, Read, TextOrNone
  <2>3. SelectionRead([r EXCEPT !.text = text]) \in Command
    BY <2>2 DEF SelectionRead, Command
  <2>4. commands' \in Seq(Command)
    BY <2>1, <2>3, AppendOf DEF ClipTypeOK
  <2>. QED BY <1>7, <2>4 DEF ReadEnds, ClipTypeOK, desktop, service
<1>8. ASSUME NEW t \in Text, ClipboardReceived(t) PROVE ClipTypeOK'
  <2>1. [type |-> "SetText", text |-> t] \in Command
    BY DEF Command
  <2>2. commands' \in Seq(Command)
    BY <1>8, <2>1, AppendOf DEF ClipboardReceived, Queues, ClipTypeOK
  <2>. QED BY <1>8, <2>2 DEF ClipboardReceived, ClipTypeOK, desktop, worker, service
<1>9. ASSUME NEW leave \in Leave, AutoShare(leave) PROVE ClipTypeOK'
  <2>1. events' \in Seq(Content)
    BY <1>9, TailOf DEF AutoShare, ClipTypeOK
  <2>2. leaked' \in BOOLEAN
    BY <1>9 DEF AutoShare, HandsOver, ClipTypeOK
  <2>. QED BY <1>9, <2>1, <2>2 DEF AutoShare, ClipTypeOK, desktop, worker
<1>10. ASSUME NEW leave \in Leave, SendConnect(leave) PROVE ClipTypeOK'
  <2>1. leaked' \in BOOLEAN
    BY <1>10 DEF SendConnect, HandsOver, ClipTypeOK
  <2>. QED BY <1>10, <2>1 DEF SendConnect, ClipTypeOK, desktop, worker
<1>. QED BY <1>1, <1>2, <1>3, <1>4, <1>5, <1>6, <1>7, <1>8, <1>9, <1>10
         DEF ClipNext, Worker, ClipboardReceived, ClipboardConnectReceived

\* The worker's steps but the handling of a read leave what is cached alone, or
\* cache and remember the text they set.
LEMMA PendingStep ==
    ASSUME PendingIsCached, ClipNext
    PROVE  PendingIsCached'
<1>1. CASE HandleSelection
  BY <1>1, SelectionCases DEF PendingIsCached
<1>2. CASE SetText
  BY <1>2 DEF SetText, PendingIsCached
<1>3. CASE FinishRead
  BY <1>3, FinishReadCases DEF PendingIsCached
<1>4. CASE UNCHANGED <<pending, current>>
  BY <1>4 DEF PendingIsCached
<1>. QED BY <1>1, <1>2, <1>3, <1>4
         DEF ClipNext, Worker, SeatAppears, Copy, LateRead, ReadEnds, ClipboardReceived,
             ClipboardConnectReceived, AutoShare, SendConnect, worker

\* What a step may be.
LEMMA StepIs ==
    ASSUME ClipNext
    PROVE  \/ \E s \in Seat : SeatAppears(s)
           \/ \E s \in Seat, text \in TextOrNone : Copy(s, text)
           \/ HandleSelection
           \/ SetText
           \/ LateRead
           \/ FinishRead
           \/ \E r \in reads : ReadEnds(r)
           \/ \E t \in Text : ClipboardReceived(t)
           \/ \E leave \in Leave : AutoShare(leave)
           \/ \E leave \in Leave : SendConnect(leave)
BY DEF ClipNext, Worker, ClipboardReceived, ClipboardConnectReceived

LEMMA FreshStep ==
    ASSUME ClipTypeOK, OneFresh, ClipNext
    PROVE  OneFresh'
<1>1. CASE UNCHANGED <<reads, commands>>
  BY <1>1 DEF OneFresh, FreshAt
<1>2. CASE HandleSelection
  BY <1>2, SelectionFresh
<1>3. CASE SetText
  BY <1>3, TakesFresh DEF SetText
<1>4. CASE LateRead
  BY <1>4, TakesFresh DEF LateRead, worker
<1>5. CASE FinishRead
  BY <1>5, TakesFresh DEF FinishRead
<1>6. ASSUME NEW r \in reads, ReadEnds(r) PROVE OneFresh'
  BY <1>6, ReadEndsFresh DEF ReadEnds
<1>7. ASSUME NEW t \in Text, ClipboardReceived(t) PROVE OneFresh'
  BY <1>7, QueuesKeepsFresh DEF ClipboardReceived, worker
<1>. QED BY <1>1, <1>2, <1>3, <1>4, <1>5, <1>6, <1>7, StepIs
         DEF SeatAppears, Copy, AutoShare, SendConnect, worker

LEMMA OldStep ==
    ASSUME ClipTypeOK, OldIsFirst, TextsFit, ClipNext
    PROVE  OldIsFirst'
<1>1. ASSUME NEW s \in Seat, SeatAppears(s) PROVE OldIsFirst'
  <2>1. /\ s \notin seats /\ seats' = seats \cup {s} /\ Announces(OfferOf(s, selection[s]))
        /\ selection' = selection /\ seeded' = seeded
    BY <1>1 DEF SeatAppears, worker
  <2>2. selection[s] \in TextOrNone /\ s \notin seeded
    BY <2>1 DEF ClipTypeOK
  <2>3. OfferOf(s, selection[s]).seat = s
    BY DEF OfferOf
  <2>4. /\ DOMAIN inbox' = DOMAIN inbox \cup {Len(inbox) + 1}
        /\ \A i \in DOMAIN inbox : inbox'[i] = inbox[i] /\ i \in Nat /\ i < Len(inbox) + 1
        /\ inbox'[Len(inbox) + 1].seat = s
        /\ Len(inbox) \in Nat
    BY <2>1, <2>2, <2>3, AnnouncesIs
  <2>5. \A i \in DOMAIN inbox' : inbox'[i].seat \in seats'
    BY <2>1, <2>4 DEF OldIsFirst
  <2>6. ASSUME NEW i \in DOMAIN inbox', inbox'[i].text = Old
        PROVE  inbox'[i].seat \notin seeded /\ \A j \in DOMAIN inbox' : j < i => inbox'[j].seat # inbox'[i].seat
    <3>1. CASE i \in DOMAIN inbox
      BY <2>4, <2>6, <3>1 DEF OldIsFirst
    <3>2. CASE i = Len(inbox) + 1
      BY <2>1, <2>2, <2>4, <3>2 DEF OldIsFirst
    <3>. QED BY <2>4, <3>1, <3>2
  <2>. QED BY <2>1, <2>5, <2>6 DEF OldIsFirst
<1>2. ASSUME NEW s \in Seat, NEW text \in TextOrNone, Copy(s, text) PROVE OldIsFirst'
  <2>1. /\ s \in seats /\ text # Old /\ Announces(OfferOf(s, text))
        /\ selection' = [selection EXCEPT ![s] = text] /\ seeded' = seeded /\ seats' = seats
    BY <1>2 DEF Copy, worker
  <2>2. OfferOf(s, text).seat = s /\ OfferOf(s, text).text = text
    BY DEF OfferOf
  <2>3. /\ DOMAIN inbox' = DOMAIN inbox \cup {Len(inbox) + 1}
        /\ \A i \in DOMAIN inbox : inbox'[i] = inbox[i] /\ i \in Nat /\ i < Len(inbox) + 1
        /\ inbox'[Len(inbox) + 1].seat = s
        /\ inbox'[Len(inbox) + 1].text = text
        /\ Len(inbox) \in Nat
    BY <2>1, <2>2, AnnouncesIs
  <2>4. \A u \in Seat \ seats : selection'[u] = Old
    BY <2>1 DEF OldIsFirst, ClipTypeOK
  <2>. QED BY <2>1, <2>3, <2>4 DEF OldIsFirst
<1>3. CASE HandleSelection
  <2>1. /\ inbox \in Seq(Offer) /\ inbox # <<>> /\ inbox' = Tail(inbox) /\ seeded' = seeded \cup {Head(inbox).seat}
        /\ seats' = seats /\ selection' = selection
    BY <1>3 DEF HandleSelection, ClipTypeOK, desktop
  <2>2. /\ Head(inbox) = inbox[1] /\ 1 \in DOMAIN inbox
        /\ \A i \in DOMAIN inbox' : i + 1 \in DOMAIN inbox /\ inbox'[i] = inbox[i + 1] /\ i \in Nat /\ i >= 1
    BY <2>1, TailOf
  <2>3. ASSUME NEW i \in DOMAIN inbox', inbox'[i].text = Old
        PROVE  inbox'[i].seat \notin seeded' /\ \A j \in DOMAIN inbox' : j < i => inbox'[j].seat # inbox'[i].seat
    <3>1. inbox'[i].seat \notin seeded /\ \A j \in DOMAIN inbox : j < i + 1 => inbox[j].seat # inbox'[i].seat
      BY <2>2, <2>3 DEF OldIsFirst
    <3>. QED BY <2>1, <2>2, <3>1
  <2>. QED BY <2>1, <2>2, <2>3 DEF OldIsFirst
<1>4. CASE SetText
  <2>1. CASE seats = {}
    BY <1>4, <2>1 DEF SetText, OldIsFirst
  <2>2. CASE seats # {}
    <3> DEFINE t == Head(commands).text
    <3>1. t \notin Secret \cup {Old}
      BY <1>4, SetTextIs DEF TextsFit, Harmless
    <3>2. PICK Offers : Offers = {OfferOf(s, t) : s \in seats}
      OBVIOUS
    <3>3. Follow(Offers, inbox, inbox')
      BY <1>4, <2>2, <3>2, SetTextEchoes
    <3>4. \A o \in Offers : o.seat \in seats /\ o.text # Old
      BY <3>1, <3>2 DEF OfferOf
    <3>5. seats' = seats /\ seeded' = seeded /\ \A s \in Seat \ seats : selection'[s] = Old
      BY <1>4, <2>2 DEF SetText, OldIsFirst
    <3>6. \A i \in DOMAIN inbox' : inbox'[i].seat \in seats'
      BY <3>3, <3>4, <3>5 DEF OldIsFirst, Follow
    <3>7. ASSUME NEW i \in DOMAIN inbox', inbox'[i].text = Old
          PROVE  inbox'[i].seat \notin seeded' /\ \A j \in DOMAIN inbox' : j < i => inbox'[j].seat # inbox'[i].seat
      <4>1. i \in DOMAIN inbox /\ inbox'[i] = inbox[i]
        BY <3>3, <3>4, <3>7 DEF Follow
      <4>2. \A j \in DOMAIN inbox' : j < i => j \in DOMAIN inbox /\ inbox'[j] = inbox[j]
        BY <3>3, <4>1 DEF Follow
      <4>. QED BY <3>5, <3>7, <4>1, <4>2 DEF OldIsFirst
    <3>. QED BY <3>5, <3>6, <3>7 DEF OldIsFirst
  <2>. QED BY <2>1, <2>2
<1>5. CASE UNCHANGED <<selection, seats, inbox, seeded>>
  BY <1>5 DEF OldIsFirst
<1>. QED BY <1>1, <1>2, <1>3, <1>4, <1>5, StepIs
         DEF LateRead, FinishRead, ReadEnds, ClipboardReceived, AutoShare, SendConnect, desktop, worker

LEMMA ReadsStep ==
    ASSUME ClipTypeOK, OldIsFirst, ReadsFit, ClipNext
    PROVE  ReadsFit'
<1>1. CASE UNCHANGED <<reads, commands>>
  BY <1>1 DEF ReadsFit
<1>2. CASE HandleSelection
  <2> DEFINE o == Head(inbox)
  <2>1. inbox \in Seq(Offer) /\ inbox # <<>>
    BY <1>2 DEF HandleSelection, ClipTypeOK
  <2>2. 1 \in DOMAIN inbox /\ o = inbox[1]
    BY <2>1, TailOf
  <2>3. ReadFits(NewRead(o))
    BY <2>2 DEF ReadFits, NewRead, OldIsFirst
  <2>4. \A r \in Read : ReadFits(r) => ReadFits(Late(r))
    BY LateIs DEF ReadFits
  <2>5. \A r \in Superseded : ReadFits(r)
    BY <2>4 DEF Superseded, ReadsFit, ClipTypeOK
  <2>6. \A r \in reads' : ReadFits(r)
    BY <1>2, <2>3, <2>5 DEF HandleSelection
  <2>7. ASSUME NEW i \in DOMAIN commands', ~IsSetText(commands'[i])
        PROVE  ReadFits(commands'[i].read)
    <3>1. commands' = SupersededCommands
      BY <1>2 DEF HandleSelection
    <3>2. /\ i \in DOMAIN commands /\ ~IsSetText(commands[i])
          /\ commands'[i].read = Late(commands[i].read)
      BY <2>7, <3>1, SupersededType
    <3>3. commands[i].read \in Read
      BY <3>2, CommandIs DEF ClipTypeOK
    <3>. QED BY <2>4, <3>2, <3>3 DEF ReadsFit
  <2>8. \A i : ReadFits(commands'[i].read) <=> ReadFits(commands[i].read)'
    BY DEF ReadFits
  <2>. QED BY <2>6, <2>7, <2>8 DEF ReadsFit
<1>3. ASSUME NEW type, Takes(type), reads' = reads PROVE ReadsFit'
  <2>1. commands \in Seq(Command) /\ commands # <<>> /\ commands' = Tail(commands)
    BY <1>3 DEF Takes, ClipTypeOK
  <2>2. \A i \in DOMAIN commands' : i + 1 \in DOMAIN commands /\ commands'[i] = commands[i + 1]
    BY <2>1, TailOf
  <2>. QED BY <1>3, <2>2 DEF ReadsFit
<1>4. ASSUME NEW r \in reads, ReadEnds(r) PROVE ReadsFit'
  <2>1. PICK text \in {r.text, NoText} : commands' = Append(commands, SelectionRead([r EXCEPT !.text = text]))
    BY <1>4 DEF ReadEnds
  <2>2. PICK e : e = [r EXCEPT !.text = text]
    OBVIOUS
  <2>3. r \in Read /\ e \in Read /\ ReadFits(r)
    BY <2>2 DEF ClipTypeOK, Read, TextOrNone, ReadsFit
  <2>4. e.text = text /\ e.publish = r.publish /\ e.secret = r.secret
    BY <2>2, <2>3 DEF Read
  <2>5. ReadFits(e)
    BY <2>3, <2>4, Texts DEF ReadFits
  <2>6. SelectionRead(e) \in Command /\ SelectionRead(e).read = e
    BY <2>3 DEF SelectionRead, Command
  <2>7. /\ commands' = Append(commands, SelectionRead(e))
        /\ commands \in Seq(Command)
    BY <2>1, <2>2 DEF ClipTypeOK
  <2>8. \A i \in DOMAIN commands' : (i \in DOMAIN commands /\ commands'[i] = commands[i]) \/ commands'[i].read = e
    BY <2>6, <2>7, AppendOf
  <2>. QED BY <1>4, <2>5, <2>8 DEF ReadsFit, ReadEnds
<1>5. ASSUME NEW t \in Text, ClipboardReceived(t) PROVE ReadsFit'
  <2> DEFINE c == [type |-> "SetText", text |-> t]
  <2>1. c \in Command /\ IsSetText(c) /\ commands' = Append(commands, c) /\ commands \in Seq(Command)
    BY <1>5 DEF Command, IsSetText, ClipboardReceived, Queues, ClipTypeOK
  <2>2. \A i \in DOMAIN commands' : (i \in DOMAIN commands /\ commands'[i] = commands[i]) \/ IsSetText(commands'[i])
    BY <2>1, AppendOf
  <2>. QED BY <1>5, <2>2 DEF ReadsFit, ClipboardReceived, worker
<1>. QED BY <1>1, <1>2, <1>3, <1>4, <1>5, StepIs
         DEF SeatAppears, Copy, SetText, LateRead, FinishRead, AutoShare, SendConnect, worker

LEMMA TextsStep ==
    ASSUME ClipTypeOK, ReadsFit, TextsFit, ClipNext
    PROVE  TextsFit'
<1> DEFINE SetTexts == \A i \in DOMAIN commands : IsSetText(commands[i]) => Harmless(commands[i].text)
           Changes == /\ \A i \in DOMAIN events : events[i].text # Old
                      /\ \A i \in DOMAIN events : events[i].text \in Secret => events[i].secret
           Hint == current.text \in Secret => current.secret
<1>0. TextsFit <=> SetTexts /\ Changes /\ Hint /\ Harmless(quiet) /\ ~leaked
  BY DEF TextsFit
<1>1. CASE UNCHANGED <<commands, events, current, leaked>> /\ quiet' \in {quiet, NoText}
  BY <1>1, Texts DEF TextsFit, Harmless
<1>2. CASE HandleSelection
  <2>1. SetTexts'
    <3>1. commands' = SupersededCommands
      BY <1>2 DEF HandleSelection
    <3>2. DOMAIN commands' = DOMAIN commands
      BY <3>1, SupersededType
    <3>3. \A i \in DOMAIN commands : IsSetText(commands'[i]) => IsSetText(commands[i]) /\ commands'[i] = commands[i]
      BY <3>1, SupersededType
    <3>. QED BY <1>0, <3>2, <3>3 DEF Harmless
  <2>2. Hint' /\ Harmless(quiet)'
    BY <1>0, <1>2, SelectionCases, NothingIs, Texts DEF Harmless
  <2>3. events' = events /\ leaked' = leaked
    BY <1>2 DEF HandleSelection, service
  <2>. QED BY <2>1, <2>2, <2>3 DEF TextsFit
<1>3. ASSUME NEW type, Takes(type) PROVE SetTexts'
  <2>1. commands \in Seq(Command) /\ commands # <<>> /\ commands' = Tail(commands)
    BY <1>3 DEF Takes, ClipTypeOK
  <2>2. \A i \in DOMAIN commands' : i + 1 \in DOMAIN commands /\ commands'[i] = commands[i + 1]
    BY <2>1, TailOf
  <2>. QED BY <1>0, <2>2 DEF Harmless
<1>4. CASE SetText
  <2>1. Harmless(Head(commands).text)
    BY <1>4, SetTextIs DEF TextsFit
  <2>2. \/ current' = [text |-> Head(commands).text, secret |-> FALSE] /\ quiet' \in {Head(commands).text, NoText}
        \/ current' = current /\ quiet' = quiet
    BY <1>4 DEF SetText
  <2>3. Hint' /\ Harmless(quiet)'
    BY <1>0, <2>1, <2>2, Texts DEF Harmless
  <2>. QED BY <1>0, <1>3, <1>4, <2>3 DEF SetText, service, TextsFit
<1>5. CASE LateRead
  BY <1>3, <1>5 DEF LateRead, worker, service, TextsFit
<1>6. CASE FinishRead
  <2> DEFINE r == Head(commands).read
             content == [text |-> r.text, secret |-> r.secret]
  <2>1. r \in Read /\ ReadFits(r)
    BY <1>6, FinishReadIs DEF ReadsFit, FreshAt
  <2>2. content \in Content /\ content.text = r.text /\ content.secret = r.secret
    BY <2>1 DEF Read, Content
  <2>3. content.text \in Secret => content.secret
    BY <2>1, <2>2 DEF ReadFits
  <2>4. Hint' /\ Harmless(quiet)'
    BY <1>0, <1>6, <2>3, FinishReadCases, NothingIs, Texts DEF Harmless
  <2>5. Changes'
    <3>1. events' = events \/ (r.publish /\ events' = Append(events, content))
      BY <1>6, FinishReadCases
    <3>2. r.publish => content.text # Old
      BY <2>1, <2>2 DEF ReadFits
    <3>3. CASE events' = events
      BY <1>0, <3>3
    <3>4. CASE r.publish /\ events' = Append(events, content)
      <4>1. events \in Seq(Content)
        BY DEF ClipTypeOK
      <4>2. \A i \in DOMAIN events' : (i \in DOMAIN events /\ events'[i] = events[i]) \/ events'[i] = content
        BY <2>2, <3>4, <4>1, AppendOf
      <4>. QED BY <1>0, <2>3, <3>2, <3>4, <4>2
    <3>. QED BY <3>1, <3>3, <3>4
  <2>. QED BY <1>3, <1>6, <2>4, <2>5 DEF FinishRead, TextsFit
<1>7. ASSUME NEW r \in reads, ReadEnds(r) PROVE TextsFit'
  <2>1. PICK text \in {r.text, NoText} : commands' = Append(commands, SelectionRead([r EXCEPT !.text = text]))
    BY <1>7 DEF ReadEnds
  <2>2. [r EXCEPT !.text = text] \in Read
    BY DEF ClipTypeOK, Read, TextOrNone
  <2>3. SelectionRead([r EXCEPT !.text = text]) \in Command /\ ~IsSetText(SelectionRead([r EXCEPT !.text = text]))
    BY <2>2 DEF SelectionRead, Command, IsSetText
  <2>4. commands \in Seq(Command)
    BY DEF ClipTypeOK
  <2>5. \A i \in DOMAIN commands' : (i \in DOMAIN commands /\ commands'[i] = commands[i]) \/ ~IsSetText(commands'[i])
    BY <2>1, <2>3, <2>4, AppendOf
  <2>6. SetTexts'
    BY <1>0, <2>5 DEF Harmless
  <2>. QED BY <1>0, <1>7, <2>6 DEF ReadEnds, service, TextsFit
<1>8. ASSUME NEW t \in Text, ClipboardReceived(t) PROVE TextsFit'
  <2> DEFINE c == [type |-> "SetText", text |-> t]
  <2>1. c \in Command /\ c.text = t /\ Harmless(t) /\ commands' = Append(commands, c) /\ commands \in Seq(Command)
    BY <1>8 DEF Command, ClipboardReceived, Queues, ClipTypeOK, Harmless
  <2>2. \A i \in DOMAIN commands' : (i \in DOMAIN commands /\ commands'[i] = commands[i]) \/ commands'[i].text = t
    BY <2>1, AppendOf
  <2>3. SetTexts'
    BY <1>0, <2>1, <2>2 DEF Harmless
  <2>. QED BY <1>0, <1>8, <2>3 DEF ClipboardReceived, worker, service, TextsFit
<1>9. ASSUME NEW leave \in Leave, AutoShare(leave) PROVE TextsFit'
  <2>1. events \in Seq(Content) /\ events # <<>> /\ events' = Tail(events)
    BY <1>9 DEF AutoShare, ClipTypeOK
  <2>2. /\ Head(events) = events[1] /\ 1 \in DOMAIN events
        /\ \A i \in DOMAIN events' : i + 1 \in DOMAIN events /\ events'[i] = events[i + 1]
    BY <2>1, TailOf
  <2>3. Changes'
    BY <1>0, <2>2
  <2>4. leaked' = leaked
    BY <1>0, <1>9, <2>2 DEF AutoShare, Allows, HandsOver, Leave, ClipTypeOK
  <2>. QED BY <1>0, <1>9, <2>3, <2>4 DEF AutoShare, worker, TextsFit
<1>10. ASSUME NEW leave \in Leave, SendConnect(leave) PROVE TextsFit'
  <2>1. leaked' = leaked
    BY <1>0, <1>10 DEF SendConnect, Allows, HandsOver, Leave, ClipTypeOK
  <2>. QED BY <1>0, <1>10, <2>1 DEF SendConnect, worker, TextsFit
<1>. QED BY <1>1, <1>2, <1>4, <1>5, <1>6, <1>7, <1>8, <1>9, <1>10, StepIs
         DEF SeatAppears, Copy, worker, service

\* Where the selections under way are those there were, less the first, and the
\* reads that count are among those there were, the echoes stay in front.
LEMMA QuietStays ==
    ASSUME QuietFits, quiet' \in {quiet, NoText}, current' = current,
           \A i \in DOMAIN inbox' : inbox'[i].text = quiet => i \in DOMAIN inbox /\ inbox'[i] = inbox[i],
           \A i, j \in DOMAIN inbox' : i < j /\ j \in DOMAIN inbox => i \in DOMAIN inbox /\ inbox'[i] = inbox[i],
           \A q : IsFresh(q)' => \E r : IsFresh(r) /\ q.text \in {r.text, NoText}
    PROVE  QuietFits'
<1>. SUFFICES ASSUME quiet' # NoText PROVE QuietFits'
  BY DEF QuietFits
<1>1. quiet' = quiet /\ quiet # NoText
  OBVIOUS
<1>2. \A i, j \in DOMAIN inbox' : i < j /\ inbox'[j].text = quiet => inbox'[i].text = quiet
  BY <1>1 DEF QuietFits
<1>3. InInbox(quiet)' => InInbox(quiet)
  BY <1>1 DEF InInbox
<1>4. InInbox(quiet)' => Held(quiet)' /\ \A r : IsFresh(r)' => r.text \in {quiet, NoText}
  BY <1>1, <1>3 DEF QuietFits, Held
<1>5. \A r : IsFresh(r)' /\ r.text = quiet => Held(quiet)'
  BY <1>1 DEF QuietFits, Held
<1>. QED BY <1>1, <1>2, <1>4, <1>5 DEF QuietFits

LEMMA QuietStep ==
    ASSUME ClipTypeOK, OneFresh, ReadsFit, TextsFit, QuietFits, OldIsFirst, ClipNext
    PROVE  QuietFits'
<1>0. Harmless(quiet)
  BY DEF TextsFit
<1>f. ASSUME UNCHANGED <<reads, commands>> PROVE \A r : IsFresh(r)' <=> IsFresh(r)
  BY <1>f DEF IsFresh, FreshAt
<1>1. ASSUME NEW s \in Seat, SeatAppears(s) PROVE QuietFits'
  <2>1. /\ s \notin seats /\ Announces(OfferOf(s, selection[s]))
        /\ quiet' = quiet /\ current' = current /\ UNCHANGED <<reads, commands>>
    BY <1>1 DEF SeatAppears, worker
  <2>2. selection[s] = Old /\ selection[s] \in TextOrNone /\ OfferOf(s, selection[s]).text = selection[s]
    BY <1>1, <2>1 DEF OldIsFirst, OfferOf, ClipTypeOK
  <2>3. /\ DOMAIN inbox' = DOMAIN inbox \cup {Len(inbox) + 1}
        /\ \A i \in DOMAIN inbox : inbox'[i] = inbox[i] /\ i \in Nat /\ i < Len(inbox) + 1
        /\ inbox'[Len(inbox) + 1].text = Old
        /\ Len(inbox) \in Nat
    BY <2>1, <2>2, AnnouncesIs
  <2>4. \A r : IsFresh(r)' <=> IsFresh(r)
    BY <1>f, <2>1
  <2>. QED BY <1>0, <2>1, <2>3, <2>4, QuietStays DEF Harmless
<1>2. ASSUME NEW s \in Seat, NEW text \in TextOrNone, Copy(s, text) PROVE QuietFits'
  <2>1. /\ Announces(OfferOf(s, text)) /\ quiet' = (IF text = quiet THEN NoText ELSE quiet)
        /\ current' = current /\ UNCHANGED <<reads, commands>>
    BY <1>2 DEF Copy, worker
  <2>2. OfferOf(s, text).text = text
    BY DEF OfferOf
  <2>3. /\ DOMAIN inbox' = DOMAIN inbox \cup {Len(inbox) + 1}
        /\ \A i \in DOMAIN inbox : inbox'[i] = inbox[i] /\ i \in Nat /\ i < Len(inbox) + 1
        /\ inbox'[Len(inbox) + 1].text = text
        /\ Len(inbox) \in Nat
    BY <2>1, <2>2, AnnouncesIs
  <2>4. \A r : IsFresh(r)' <=> IsFresh(r)
    BY <1>f, <2>1
  <2>5. CASE text = quiet
    BY <2>1, <2>5 DEF QuietFits
  <2>6. CASE text # quiet
    BY <2>1, <2>3, <2>4, <2>6, QuietStays
  <2>. QED BY <2>5, <2>6
<1>3. CASE HandleSelection
  <2> DEFINE o == Head(inbox)
  <2>1. inbox \in Seq(Offer) /\ inbox # <<>> /\ inbox' = Tail(inbox)
    BY <1>3 DEF HandleSelection, ClipTypeOK
  <2>2. /\ o = inbox[1] /\ 1 \in DOMAIN inbox
        /\ \A i \in DOMAIN inbox' : i + 1 \in DOMAIN inbox /\ inbox'[i] = inbox[i + 1] /\ i \in Nat /\ i >= 1
    BY <2>1, TailOf
  <2>3. CASE o.text = NoText
    <3>1. CASE quiet' = NoText
      BY <3>1 DEF QuietFits
    <3>2. CASE quiet' = quiet /\ quiet # NoText /\ ~InInbox(quiet)
      <4>1. \A r : ~IsFresh(r)'
        BY <1>3, <2>3, SelectionFresh
      <4>2. \A i \in DOMAIN inbox' : inbox'[i].text # quiet
        BY <2>2, <3>2 DEF InInbox
      <4>. QED BY <3>2, <4>1, <4>2 DEF QuietFits, InInbox
    <3>. QED BY <1>3, <2>3, <3>1, <3>2, SelectionCases
  <2>4. CASE o.text # NoText /\ quiet # NoText
    <3>1. current' = current /\ quiet' = quiet
      BY <1>3, <2>4, SelectionCases
    <3>2. \A r : IsFresh(r)' => r.text = o.text
      BY <1>3, SelectionFresh DEF NewRead
    <3>3. \A i, j \in DOMAIN inbox' : i < j /\ inbox'[j].text = quiet => inbox'[i].text = quiet
      <4>1. ASSUME NEW i \in DOMAIN inbox', NEW j \in DOMAIN inbox', i < j, inbox'[j].text = quiet
            PROVE  inbox'[i].text = quiet
        <5>1. i + 1 < j + 1 /\ i + 1 \in DOMAIN inbox /\ j + 1 \in DOMAIN inbox
          BY <2>2, <4>1
        <5>. QED BY <2>2, <2>4, <4>1, <5>1 DEF QuietFits
      <4>. QED BY <4>1
    <3>4. InInbox(quiet)' => o.text = quiet
      <4>1. ASSUME NEW i \in DOMAIN inbox', inbox'[i].text = quiet PROVE o.text = quiet
        <5>1. 1 < i + 1 /\ i + 1 \in DOMAIN inbox /\ inbox[i + 1].text = quiet
          BY <2>2, <4>1
        <5>. QED BY <2>2, <2>4, <5>1 DEF QuietFits
      <4>. QED BY <3>1, <4>1 DEF InInbox
    <3>5. o.text = quiet => Held(quiet)
      BY <2>2, <2>4 DEF QuietFits, InInbox
    <3>. QED BY <3>1, <3>2, <3>3, <3>4, <3>5 DEF QuietFits, Held
  <2>5. CASE o.text # NoText /\ quiet = NoText
    BY <1>3, <2>5, SelectionCases DEF QuietFits
  <2>. QED BY <2>3, <2>4, <2>5
<1>4. CASE SetText
  <2>0. PICK t : t = Head(commands).text
    OBVIOUS
  <2>1. \A r : IsFresh(r)' <=> IsFresh(r)
    BY <1>4, SetTextIs, TakesFresh DEF SetText
  <2>2. CASE seats = {}
    BY <1>4, <2>1, <2>2, QuietStays DEF SetText
  <2>3. CASE seats # {} /\ ~NothingUnderWay
    BY <1>4, <2>3 DEF SetText, QuietFits
  <2>4. CASE seats # {} /\ NothingUnderWay
    <3>1. \A r : ~IsFresh(r)
      BY <2>4 DEF NothingUnderWay, IsFresh, FreshAt
    <3>2. PICK Offers : Offers = {OfferOf(s, Head(commands).text) : s \in seats}
      OBVIOUS
    <3>3. Follow(Offers, inbox, inbox')
      BY <1>4, <2>4, <3>2, SetTextEchoes
    <3>4. \A o \in Offers : o.text = t
      BY <2>0, <3>2 DEF OfferOf
    <3>5. DOMAIN inbox = {}
      BY <2>4 DEF NothingUnderWay
    <3>6. \A i \in DOMAIN inbox' : inbox'[i].text = t
      BY <3>3, <3>4, <3>5 DEF Follow
    <3>7. quiet' = t /\ Held(t)'
      BY <1>4, <2>0, <2>4 DEF SetText, Held
    <3>. QED BY <2>1, <3>1, <3>6, <3>7 DEF QuietFits, Held
  <2>. QED BY <2>2, <2>3, <2>4
<1>5. CASE LateRead
  <2>1. ~FreshAt(1)
    <3>1. commands \in Seq(Command) /\ commands # <<>>
      BY <1>5 DEF LateRead, Takes, ClipTypeOK
    <3>2. Head(commands) = commands[1]
      BY <3>1, TailOf
    <3>. QED BY <1>5, <3>2 DEF LateRead, FreshAt
  <2>2. \A r : IsFresh(r)' <=> IsFresh(r)
    BY <1>5, <2>1, TakesFresh DEF LateRead, worker
  <2>. QED BY <1>5, <2>2, QuietStays DEF LateRead, worker
<1>6. CASE FinishRead
  <2> DEFINE r == Head(commands).read
             content == [text |-> r.text, secret |-> r.secret]
  <2>1. IsFresh(r) /\ \A q : ~IsFresh(q)'
    BY <1>6, FinishReadIs, TakesFresh DEF FinishRead
  <2>2. r \in Read /\ ReadFits(r)
    BY <1>6, FinishReadIs DEF ReadsFit, FreshAt
  <2>3. inbox' = inbox
    BY <1>6 DEF FinishRead
  <2>4. CASE quiet' = NoText
    BY <2>4 DEF QuietFits
  <2>5. CASE quiet' # NoText /\ r.text = NoText
    <3>1. quiet' = quiet /\ \A i \in DOMAIN inbox' : inbox'[i].text # quiet
      BY <1>6, <2>3, <2>5, FinishReadCases DEF InInbox
    <3>. QED BY <2>1, <3>1 DEF QuietFits, InInbox
  <2>6. CASE quiet' # NoText /\ r.text # NoText
    <3>1. quiet' = quiet /\ r.text # NoText
      BY <1>6, <2>6, FinishReadCases
    <3>2. ASSUME InInbox(quiet) PROVE Held(quiet)'
      <4>1. r.text = quiet /\ Held(quiet)
        BY <2>1, <2>6, <3>1, <3>2 DEF QuietFits
      <4>2. r.secret = FALSE
        BY <1>0, <2>2, <3>1, <4>1 DEF ReadFits, Harmless, Read
      <4>3. current.text = r.text /\ current.secret = r.secret
        BY <4>1, <4>2 DEF Held
      <4>4. current' = current
        BY <1>6, <3>1, <4>3, FinishReadCases
      <4>. QED BY <3>1, <4>1, <4>4 DEF Held
    <3>3. InInbox(quiet)' => InInbox(quiet)
      BY <2>3, <3>1 DEF InInbox
    <3>4. \A i, j \in DOMAIN inbox : i < j /\ inbox[j].text = quiet => inbox[i].text = quiet
      BY <2>6, <3>1 DEF QuietFits
    <3>. QED BY <2>1, <2>3, <3>1, <3>2, <3>3, <3>4 DEF QuietFits, Held
  <2>. QED BY <2>4, <2>5, <2>6
<1>7. ASSUME NEW r \in reads, ReadEnds(r) PROVE QuietFits'
  <2>1. PICK text \in {r.text, NoText} : commands' = Append(commands, SelectionRead([r EXCEPT !.text = text]))
    BY <1>7 DEF ReadEnds
  <2>2. PICK e : e = [r EXCEPT !.text = text]
    OBVIOUS
  <2>3. e.text = text
    BY <2>2 DEF ClipTypeOK, Read
  <2>4. \A q : IsFresh(q)' => IsFresh(q) \/ (IsFresh(r) /\ q = e)
    BY <1>7, <2>1, <2>2, ReadEndsFresh DEF ReadEnds
  <2>5. \A q : IsFresh(q)' => \E p : IsFresh(p) /\ q.text \in {p.text, NoText}
    BY <2>3, <2>4
  <2>. QED BY <1>7, <2>5, QuietStays DEF ReadEnds
<1>8. ASSUME NEW t \in Text, ClipboardReceived(t) PROVE QuietFits'
  <2>1. \A r : IsFresh(r)' <=> IsFresh(r)
    BY <1>8, QueuesKeepsFresh DEF ClipboardReceived, worker
  <2>. QED BY <1>8, <2>1, QuietStays DEF ClipboardReceived, worker
<1>9. CASE UNCHANGED <<reads, commands, inbox, current, quiet>>
  BY <1>9, <1>f, QuietStays
<1>. QED BY <1>1, <1>2, <1>3, <1>4, <1>5, <1>6, <1>7, <1>8, <1>9, StepIs
         DEF AutoShare, SendConnect, worker

LEMMA LastStep ==
    ASSUME ClipTypeOK, PendingIsCached, OneFresh, OldIsFirst, LastIsTheSelection, ClipNext
    PROVE  LastIsTheSelection'
<1> DEFINE LastFits == inbox # <<>> => selection[Last(inbox).seat] = Last(inbox).text
           ReadIsOne == \A r : IsFresh(r) => r.text = NoText \/ OnSomeSeat(r.text)
           CacheIsOne == (\A r : ~IsFresh(r)) => current = Nothing \/ OnSomeSeat(current.text)
<1>0. LastIsTheSelection <=> LastFits /\ (inbox = <<>> => ReadIsOne /\ CacheIsOne)
  BY DEF LastIsTheSelection
<1>f. ASSUME UNCHANGED <<reads, commands>> PROVE \A r : IsFresh(r)' <=> IsFresh(r)
  BY <1>f DEF IsFresh, FreshAt
<1>s. ASSUME UNCHANGED <<inbox, selection, seats, current>>, \A r : IsFresh(r)' <=> IsFresh(r)
      PROVE  LastIsTheSelection'
  BY <1>s DEF LastIsTheSelection, OnSomeSeat
<1>1. ASSUME NEW s \in Seat, SeatAppears(s) PROVE LastIsTheSelection'
  <2>1. selection' = selection /\ selection[s] \in TextOrNone /\ Announces(OfferOf(s, selection[s]))
    BY <1>1 DEF SeatAppears, ClipTypeOK
  <2>2. inbox' # <<>> /\ Last(inbox') = OfferOf(s, selection[s])
    BY <2>1, AnnouncesIs
  <2>. QED BY <2>1, <2>2 DEF LastIsTheSelection, OfferOf
<1>2. ASSUME NEW s \in Seat, NEW text \in TextOrNone, Copy(s, text) PROVE LastIsTheSelection'
  <2>1. selection' = [selection EXCEPT ![s] = text] /\ Announces(OfferOf(s, text))
    BY <1>2 DEF Copy
  <2>2. inbox' # <<>> /\ Last(inbox') = OfferOf(s, text)
    BY <2>1, AnnouncesIs
  <2>. QED BY <2>1, <2>2 DEF LastIsTheSelection, OfferOf, ClipTypeOK
<1>3. CASE HandleSelection
  <2> DEFINE o == Head(inbox)
  <2>1. /\ inbox \in Seq(Offer) /\ inbox # <<>> /\ inbox' = Tail(inbox)
        /\ selection' = selection /\ seats' = seats
    BY <1>3 DEF HandleSelection, ClipTypeOK, desktop
  <2>2. /\ o = inbox[1] /\ 1 \in DOMAIN inbox
        /\ inbox' # <<>> => Last(inbox') = Last(inbox)
        /\ inbox' = <<>> => Last(inbox) = o
    BY <2>1, TailOf
  <2>3. LastFits'
    BY <1>0, <2>1, <2>2
  <2>4. ASSUME inbox' = <<>> PROVE ReadIsOne' /\ CacheIsOne'
    <3>1. selection[o.seat] = o.text /\ o.seat \in seats
      BY <1>0, <2>1, <2>2, <2>4 DEF OldIsFirst
    <3>2. \A r : IsFresh(r)' => r.text = o.text
      BY <1>3, SelectionFresh DEF NewRead
    <3>3. \A t : t = o.text => OnSomeSeat(t)'
      BY <2>1, <3>1 DEF OnSomeSeat
    <3>4. ReadIsOne'
      BY <3>2, <3>3
    <3>5. (\A r : ~IsFresh(r)') => o.text = NoText
      BY <1>3, SelectionFresh
    <3>6. CacheIsOne'
      BY <1>3, <3>5, SelectionCases DEF Nothing
    <3>. QED BY <3>4, <3>6
  <2>. QED BY <2>3, <2>4 DEF LastIsTheSelection
<1>4. CASE SetText
  <2>1. CASE seats = {}
    <3>1. \A r : IsFresh(r)' <=> IsFresh(r)
      BY <1>4, SetTextIs, TakesFresh DEF SetText
    <3>. QED BY <1>4, <1>s, <2>1, <3>1 DEF SetText
  <2>2. CASE seats # {}
    <3>1. PICK Offers : Offers = {OfferOf(s, Head(commands).text) : s \in seats}
      OBVIOUS
    <3>2. inbox' # <<>> /\ Last(inbox') \in Offers
      BY <1>4, <2>2, <3>1, SetTextEchoes DEF Follow
    <3>3. \A o \in Offers : o.seat \in seats /\ o.text = Head(commands).text
      BY <3>1 DEF OfferOf
    <3>4. \A s \in seats : selection'[s] = Head(commands).text
      BY <1>4, <2>2 DEF SetText, ClipTypeOK
    <3>. QED BY <3>2, <3>3, <3>4 DEF LastIsTheSelection
  <2>. QED BY <2>1, <2>2
<1>5. CASE LateRead
  <2>1. commands \in Seq(Command) /\ commands # <<>>
    BY <1>5 DEF LateRead, Takes, ClipTypeOK
  <2>2. Head(commands) = commands[1]
    BY <2>1, TailOf
  <2>3. ~FreshAt(1)
    BY <1>5, <2>2 DEF LateRead, FreshAt
  <2>4. \A r : IsFresh(r)' <=> IsFresh(r)
    BY <1>5, <2>3, TakesFresh DEF LateRead, worker
  <2>. QED BY <1>5, <1>s, <2>4 DEF LateRead, worker, desktop
<1>6. CASE FinishRead
  <2> DEFINE r == Head(commands).read
             content == [text |-> r.text, secret |-> r.secret]
  <2>1. IsFresh(r) /\ \A q : ~IsFresh(q)'
    BY <1>6, FinishReadIs, TakesFresh DEF FinishRead
  <2>2. inbox' = inbox /\ selection' = selection /\ seats' = seats
    BY <1>6 DEF FinishRead, desktop
  <2>3. ASSUME inbox = <<>> PROVE CacheIsOne'
    <3>1. r.text # NoText => OnSomeSeat(r.text)
      BY <1>0, <2>1, <2>3
    <3>2. r.text # NoText => current'.text = r.text
      <4>1. content.text = r.text
        OBVIOUS
      <4>2. r.text # NoText /\ r.text = pending => current.text = r.text
        BY DEF PendingIsCached
      <4>. QED BY <1>6, <4>1, <4>2, FinishReadCases
    <3>3. r.text = NoText => current' = Nothing
      BY <1>6, FinishReadCases
    <3>4. \A t : OnSomeSeat(t) => OnSomeSeat(t)'
      BY <2>2 DEF OnSomeSeat
    <3>5. r.text # NoText => \E s \in seats' : selection'[s] = current'.text
      BY <2>2, <3>1, <3>2 DEF OnSomeSeat
    <3>. QED BY <3>3, <3>5 DEF OnSomeSeat, Nothing
  <2>. QED BY <1>0, <2>1, <2>2, <2>3 DEF LastIsTheSelection
<1>7. ASSUME NEW r \in reads, ReadEnds(r) PROVE LastIsTheSelection'
  <2>1. PICK text \in {r.text, NoText} : commands' = Append(commands, SelectionRead([r EXCEPT !.text = text]))
    BY <1>7 DEF ReadEnds
  <2>2. PICK e : e = [r EXCEPT !.text = text]
    OBVIOUS
  <2>3. e.text = text
    BY <2>2 DEF ClipTypeOK, Read
  <2>4. /\ \A q : IsFresh(q)' => IsFresh(q) \/ (IsFresh(r) /\ q = e)
        /\ \A q : IsFresh(q) => q = r \/ IsFresh(q)'
        /\ IsFresh(r) => IsFresh(e)'
    BY <1>7, <2>1, <2>2, ReadEndsFresh DEF ReadEnds
  <2>5. UNCHANGED <<inbox, selection, seats, current>>
    BY <1>7 DEF ReadEnds, desktop
  <2>6. \A t : OnSomeSeat(t)' <=> OnSomeSeat(t)
    BY <2>5 DEF OnSomeSeat
  <2>7. inbox = <<>> => ReadIsOne'
    BY <1>0, <2>3, <2>4, <2>6
  <2>8. (\A q : ~IsFresh(q)') => \A q : ~IsFresh(q)
    BY <2>4
  <2>9. inbox = <<>> => CacheIsOne'
    BY <1>0, <2>5, <2>8 DEF OnSomeSeat
  <2>. QED BY <1>0, <2>5, <2>7, <2>9 DEF LastIsTheSelection
<1>8. ASSUME NEW t \in Text, ClipboardReceived(t) PROVE LastIsTheSelection'
  <2>1. \A r : IsFresh(r)' <=> IsFresh(r)
    BY <1>8, QueuesKeepsFresh DEF ClipboardReceived, worker
  <2>. QED BY <1>8, <1>s, <2>1 DEF ClipboardReceived, worker, desktop
<1>9. CASE UNCHANGED <<reads, commands, inbox, selection, seats, current>>
  BY <1>9, <1>f, <1>s
<1>. QED BY <1>1, <1>2, <1>3, <1>4, <1>5, <1>6, <1>7, <1>8, <1>9, StepIs
         DEF AutoShare, SendConnect, worker, desktop

-----------------------------------------------------------------------------
(***************************************************************************)
(* The theorems.                                                           *)
(***************************************************************************)

LEMMA ClipInductive == ClipSpec => []ClipIndInv
<1>1. ClipInit => ClipIndInv
  <2>. SUFFICES ASSUME ClipInit PROVE ClipIndInv
    OBVIOUS
  <2>1. ClipTypeOK
    <3>1. Old \in TextOrNone /\ NoText \in TextOrNone /\ Nothing \in Content
      BY Texts, NothingIs DEF TextOrNone
    <3>2. \A S : <<>> \in Seq(S)
      OBVIOUS
    <3>3. selection \in [Seat -> TextOrNone]
      BY <3>1 DEF ClipInit, ClipInitWith
    <3>. QED BY <3>1, <3>2, <3>3 DEF ClipInit, ClipInitWith, ClipTypeOK
  <2>2. (\A r : ~IsFresh(r)) /\ \A i : ~FreshAt(i)
    BY DEF ClipInit, ClipInitWith, IsFresh, FreshAt
  <2>. QED BY <2>1, <2>2, Texts, NothingIs
           DEF ClipInit, ClipInitWith, ClipIndInv, PendingIsCached, OneFresh, OldIsFirst, ReadsFit,
               TextsFit, QuietFits, LastIsTheSelection
<1>2. ClipIndInv /\ [ClipNext]_clipVars => ClipIndInv'
  <2>. SUFFICES ASSUME ClipIndInv, [ClipNext]_clipVars PROVE ClipIndInv'
    OBVIOUS
  <2>1. CASE ClipNext
    BY <2>1, TypeStep, PendingStep, FreshStep, OldStep, ReadsStep, TextsStep, QuietStep, LastStep
       DEF ClipIndInv
  <2>2. CASE UNCHANGED clipVars
    BY <2>2 DEF clipVars, ClipIndInv, ClipTypeOK, PendingIsCached, OneFresh, OldIsFirst, ReadsFit,
                TextsFit, QuietFits, LastIsTheSelection, IsFresh, FreshAt, InInbox, Held, OnSomeSeat
  <2>. QED BY <2>1, <2>2
<1>. QED BY <1>1, <1>2, PTL DEF ClipSpec

\* What the service holds for the clipboard is, once all is dealt with, what some seat
\* has selected, and what it waits to see come back is what it holds.
THEOREM CacheIsSound == ClipSpec => []ClipInv
<1>1. ClipIndInv => ClipInv
  <2>. SUFFICES ASSUME ClipIndInv PROVE ClipInv
    OBVIOUS
  <2>1. ASSUME inbox = <<>>, commands = <<>>, \A r \in reads : r.late
        PROVE  current = Nothing \/ \E s \in seats : selection[s] = current.text
    <3>1. \A r : ~IsFresh(r)
      BY <2>1 DEF IsFresh, FreshAt
    <3>. QED BY <2>1, <3>1 DEF ClipIndInv, LastIsTheSelection, OnSomeSeat
  <2>. QED BY <2>1 DEF ClipIndInv, ClipInv, CacheIsTheSelection
<1>. QED BY <1>1, ClipInductive, PTL

\* Neither what was on the clipboard at the start nor, against the settings, a password
\* is sent unasked.
THEOREM PrivateIsKept == ClipSpec => []PrivateStaysHome
<1>1. ClipIndInv => PrivateStaysHome
  BY DEF ClipIndInv, TextsFit, PrivateStaysHome, InitialStaysHome, SecretStaysHome
<1>. QED BY <1>1, ClipInductive, PTL

\* No change is reported for a text of the phone that was set while nothing else was
\* under way, unless, of several seats, one is found empty or cannot be read before
\* another has reported the text (Clear), or an application copies that text.
THEOREM NoEcho == ClipSpec => PhoneTextIsNotEchoed
<1>1. ASSUME ClipIndInv, ClipNext PROVE Len(events') > Len(events) => Last(events').text # quiet
  <2>0. events \in Seq(Content) /\ Len(events) \in Nat
    BY <1>1 DEF ClipIndInv, ClipTypeOK
  <2>1. CASE events' = events
    BY <2>0, <2>1
  <2>2. CASE FinishRead
    <3> DEFINE r == Head(commands).read
               content == [text |-> r.text, secret |-> r.secret]
    <3>1. IsFresh(r)
      BY <1>1, <2>2, FinishReadIs, TakesFresh DEF FinishRead, ClipIndInv
    <3>2. r \in Read /\ ReadFits(r)
      BY <1>1, <2>2, FinishReadIs DEF ReadsFit, FreshAt, ClipIndInv
    <3>3. content \in Content /\ content.text = r.text
      BY <3>2 DEF Read, Content
    <3>4. CASE events' = Append(events, content) /\ r.text # NoText /\ ~(r.text = current.text /\ r.secret = current.secret)
      <4>1. Last(events') = content
        BY <2>0, <3>3, <3>4, AppendOf
      <4>2. ASSUME r.text = quiet PROVE FALSE
        <5>1. Held(quiet)
          BY <1>1, <3>1, <3>4, <4>2 DEF ClipIndInv, QuietFits
        <5>2. r.secret = FALSE
          BY <1>1, <3>2, <3>4, <4>2 DEF ClipIndInv, TextsFit, Harmless, ReadFits, Read
        <5>. QED BY <3>4, <4>2, <5>1, <5>2 DEF Held
      <4>. QED BY <3>3, <4>1, <4>2
    <3>. QED BY <2>1, <2>2, <3>4, FinishReadCases
  <2>3. ASSUME NEW leave \in Leave, AutoShare(leave) PROVE ~(Len(events') > Len(events))
    BY <2>0, <2>3 DEF AutoShare
  <2>. QED BY <1>1, <2>1, <2>2, <2>3, StepIs
           DEF SeatAppears, Copy, HandleSelection, SetText, LateRead, ReadEnds, ClipboardReceived,
               SendConnect, service
<1>2. ClipIndInv /\ [ClipNext]_clipVars =>
          [Len(events') > Len(events) => Last(events').text # quiet]_clipVars
  BY <1>1
<1>. QED BY <1>2, ClipInductive, PTL DEF ClipSpec, PhoneTextIsNotEchoed
=============================================================================
