---------------------------- MODULE PhonePlayers ----------------------------
(***************************************************************************)
(* A phone's media players on the desktop: expose_phone_mpris in mpris.rs  *)
(* keeps a proxy on the session bus for each player the phone speaks of,   *)
(* asks for what is playing and for album art, and passes the controls of  *)
(* the proxies on to the phone.  Art is downloaded by tasks of their own.  *)
(***************************************************************************)
EXTENDS SequencesExt, FiniteSets, Naturals

CONSTANTS
    Name,       \* the names of the phone's players
    Art,        \* the album art URLs the phone advertises
    None,
    FlightCap   \* bound on what is on its way when something new is begun

ASSUME PlayersAssumption ==
    IsFiniteSet(Name) /\ None \notin Art /\ FlightCap \in Nat \ {0}

VARIABLES
    phone,     \* the phone: its players, which of them play, what they play
    link,      \* the connection to it: "dead" until its end is noticed
    toPhone,   \* the requests on their way to the phone
    events,    \* conn_rx, the events on their way to expose_phone_mpris
    active,    \* active_players: what each proxy shows
    requested, \* requested_art, None where there is no entry
    fetching,  \* the downloads of art under way
    soon,      \* the players asked about 200 ms after they were used
    spoilt     \* for the properties: players whose art was lost or crossed

playersVars == <<phone, link, toPhone, events, active, requested, fetching, soon, spoilt>>

Shows == [playing : BOOLEAN, art : {None} \cup [local : BOOLEAN, art : Art]]

\* The phone; what is asked of it, and what expose_phone_mpris receives.
Phone == [running : SUBSET Name, playing : SUBSET Name, track : [Name -> Art \cup {None}]]

Request ==
    [kind : {"list"}, name : {None}, art : {None}]
    \cup [kind : {"now", "Play", "Pause", "PlayPause"}, name : Name, art : {None}]
    \cup [kind : {"art"}, name : Name, art : Art]

Event ==
    [kind : {"list"}, names : SUBSET Name]
    \cup [kind : {"info"}, name : Name, playing : BOOLEAN, art : Art \cup {None}]
    \cup [kind : {"ready"}, name : Name, art : Art]
    \cup [kind : {"gone"}]

PhonePlayersTypeOK ==
    /\ phone \in Phone
    /\ link \in {"up", "dead", "down"}
    /\ toPhone \in Seq(Request) /\ events \in Seq(Event)
    /\ DOMAIN active \subseteq Name
    /\ \A n \in DOMAIN active : active[n] \in Shows
    /\ requested \in [Name -> Art \cup {None}]
    /\ fetching \subseteq Name \X Art
    /\ soon \subseteq Name /\ spoilt \subseteq Name

AskForList == [kind |-> "list", name |-> None, art |-> None]

\* The phone is connected to, and DevicePaired has asked for its list.
PhonePlayersInit ==
    /\ phone \in [running : SUBSET Name, playing : {{}}, track : [Name -> {None}]]
    /\ link = "up"
    /\ toPhone = <<AskForList>>
    /\ events = <<>>
    /\ active = [n \in {} |-> None]
    /\ requested = [n \in Name |-> None]
    /\ fetching = {} /\ soon = {} /\ spoilt = {}

-----------------------------------------------------------------------------
(* The phone                                                               *)

List(p) == [kind |-> "list", names |-> p.running]
\* A report always says whether the player is playing (isPlaying): the desktop takes a
\* report without it for a player that is not.
Info(p, n) == [kind |-> "info", name |-> n, playing |-> n \in p.playing, art |-> p.track[n]]

\* What the phone sends arrives while the connection lives.
Says(e) == events' = IF link = "up" THEN Append(events, e) ELSE events

MoreMayFly == Len(events) + Len(toPhone) + Cardinality(fetching) + Cardinality(soon) < FlightCap

\* What happens on the phone; it tells of it.
Becomes(p, e) ==
    /\ link = "up" => MoreMayFly
    /\ phone' = p
    /\ Says(e)
    /\ UNCHANGED <<link, toPhone, active, requested, fetching, soon, spoilt>>

Opens(n) ==
    LET p == [phone EXCEPT !.running = @ \cup {n}]
    IN n \notin phone.running /\ Becomes(p, List(p))

Closes(n) ==
    LET p == [phone EXCEPT !.running = @ \ {n}, !.playing = @ \ {n}]
    IN n \in phone.running /\ Becomes(p, List(p))

Toggled(n) == [phone EXCEPT !.playing = IF n \in @ THEN @ \ {n} ELSE @ \cup {n}]

StartsOrStops(n) == n \in phone.running /\ Becomes(Toggled(n), Info(Toggled(n), n))

NextTrack(n) ==
    /\ n \in phone.running
    /\ \E a \in (Art \cup {None}) \ {phone.track[n]} :
          LET p == [phone EXCEPT !.track[n] = a] IN Becomes(p, Info(p, n))

PhoneChanges == \E n \in Name : Opens(n) \/ Closes(n) \/ StartsOrStops(n) \/ NextTrack(n)

Outstanding(n) ==
    \/ \E a \in Art : <<n, a>> \in fetching
    \/ \E i \in DOMAIN toPhone : toPhone[i].kind = "art" /\ toPhone[i].name = n
    \/ \E i \in DOMAIN events : events[i].kind = "ready" /\ events[i].name = n

NextAsks(kinds) ==
    toPhone # <<>> /\ Head(toPhone).kind \in kinds /\ toPhone' = Tail(toPhone)

AnswersList ==
    /\ NextAsks({"list"})
    /\ Says(List(phone))
    /\ UNCHANGED <<phone, link, active, requested, fetching, soon, spoilt>>

AnswersNow ==
    /\ NextAsks({"now"})
    /\ LET n == Head(toPhone).name
       IN IF n \in phone.running THEN Says(Info(phone, n)) ELSE events' = events
    /\ UNCHANGED <<phone, link, active, requested, fetching, soon, spoilt>>

\* The phone sends art only of what it plays; TransferringArt starts a download.
AnswersArt ==
    /\ NextAsks({"art"})
    /\ LET n == Head(toPhone).name
           art == Head(toPhone).art
       IN IF link = "up" /\ n \in phone.running /\ phone.track[n] = art
          THEN fetching' = fetching \cup {<<n, art>>} /\ spoilt' = spoilt
          ELSE fetching' = fetching /\ spoilt' = spoilt \cup {n}
    /\ UNCHANGED <<phone, link, events, active, requested, soon>>

\* The phone does what a control says and tells of it, or does not.
AnswersControl ==
    /\ NextAsks({"Play", "Pause", "PlayPause"})
    /\ LET n == Head(toPhone).name
           starts == \/ Head(toPhone).kind = "Play"
                     \/ Head(toPhone).kind = "PlayPause" /\ n \notin phone.playing
           p == [phone EXCEPT !.playing = IF starts THEN @ \cup {n} ELSE @ \ {n}]
       IN \/ phone' = phone /\ events' = events
          \/ /\ n \in phone.running /\ p # phone
             /\ phone' = p /\ Says(Info(p, n))
    /\ UNCHANGED <<link, active, requested, fetching, soon, spoilt>>

PhoneAnswers == AnswersList \/ AnswersNow \/ AnswersArt \/ AnswersControl

\* Requests to a phone without a connection go nowhere.
Sends(requests) == toPhone' = IF link = "down" THEN toPhone ELSE toPhone \o requests

NowPlaying(n) == [kind |-> "now", name |-> n, art |-> None]

-----------------------------------------------------------------------------
(* The connection and the downloads                                        *)

\* The connection breaks: what is sent from now on is lost.
Breaks ==
    /\ link = "up"
    /\ link' = "dead"
    /\ UNCHANGED <<phone, toPhone, events, active, requested, fetching, soon, spoilt>>

Disconnects ==
    /\ link # "down"
    /\ link' = "down"
    /\ events' = Append(events, [kind |-> "gone"])
    /\ toPhone' = <<>>
    /\ spoilt' = Name
    /\ UNCHANGED <<phone, active, requested, fetching, soon>>

\* A connection to a paired phone, whether there was none or it replaces one
Connects ==
    /\ MoreMayFly
    /\ link' = "up"
    /\ toPhone' = <<AskForList>>
    /\ spoilt' = Name
    /\ UNCHANGED <<phone, events, active, requested, fetching, soon>>

\* download_album_art has ended; what it downloaded is announced as an event.
FetchEnds ==
    /\ \E f \in fetching :
          /\ fetching' = fetching \ {f}
          /\ \/ /\ events' = Append(events, [kind |-> "ready", name |-> f[1], art |-> f[2]])
                /\ spoilt' = spoilt
             \/ events' = events /\ spoilt' = spoilt \cup {f[1]}
    /\ UNCHANGED <<phone, link, toPhone, active, requested, soon>>

-----------------------------------------------------------------------------
(* expose_phone_mpris                                                      *)

NextIs(kind) == events # <<>> /\ Head(events).kind = kind /\ events' = Tail(events)

\* Mutant of TakesList: the proxies of closed players stay.
TakesListOpen ==
    /\ NextIs("list")
    /\ LET names == Head(events).names
       IN /\ Sends(SetToSeq({NowPlaying(n) : n \in names}))
          /\ active' = active
          /\ requested' = [n \in Name |-> IF n \in names THEN requested[n] ELSE None]
          /\ spoilt' = spoilt \cap names
    /\ UNCHANGED <<phone, link, fetching, soon>>

\* The phone's list is authoritative: players that are not on it go.
TakesList ==
    /\ NextIs("list")
    /\ LET names == Head(events).names
       IN /\ Sends(SetToSeq({NowPlaying(n) : n \in names}))
          /\ active' = [n \in DOMAIN active \cap names |-> active[n]]
          /\ requested' = [n \in Name |-> IF n \in names THEN requested[n] ELSE None]
          /\ spoilt' = spoilt \cap names
    /\ UNCHANGED <<phone, link, fetching, soon>>

\* Art that was not the last asked for is asked for.
AsksForArt(n, art) ==
    IF art \in {None, requested[n]}
    THEN UNCHANGED <<requested, toPhone, spoilt>>
    ELSE /\ requested' = [requested EXCEPT ![n] = art]
         /\ Sends(<<[kind |-> "art", name |-> n, art |-> art]>>)
         /\ spoilt' = IF link = "down" \/ Outstanding(n) THEN spoilt \cup {n} ELSE spoilt

Remote(art) == IF art = None THEN None ELSE [local |-> FALSE, art |-> art]

\* Mutant of Updated: the phone's URL replaces the art that was resolved.
UpdatedArt(old, i) == [playing |-> i.playing, art |-> Remote(i.art)]

\* An update of a proxy keeps the art it has resolved.
Updated(old, i) == [playing |-> i.playing, art |-> old.art]

\* Updates a proxy or registers one, which may fail.
TakesInfo ==
    /\ NextIs("info")
    /\ LET i == Head(events)
           n == i.name
       IN /\ AsksForArt(n, i.art)
          /\ IF n \in DOMAIN active
             THEN active' = [active EXCEPT ![n] = Updated(@, i)]
             ELSE active' \in {active,
                      [k \in DOMAIN active \cup {n} |->
                          IF k = n THEN [playing |-> i.playing, art |-> Remote(i.art)] ELSE active[k]]}
    /\ UNCHANGED <<phone, link, fetching, soon>>

\* TransferringArt from a download of ours: the proxy shows the local file.
TakesArt ==
    /\ NextIs("ready")
    /\ LET n == Head(events).name
       IN IF n \in DOMAIN active
          THEN /\ active' = [active EXCEPT ![n].art = [local |-> TRUE, art |-> Head(events).art]]
               /\ spoilt' = spoilt
          ELSE active' = active /\ spoilt' = spoilt \cup {n}
    /\ UNCHANGED <<phone, link, toPhone, requested, fetching, soon>>

\* Disconnected: the phone's proxies go; requested_art is kept.
TakesDisconnected ==
    /\ NextIs("gone")
    /\ active' = [n \in {} |-> None]
    /\ spoilt' = Name
    /\ UNCHANGED <<phone, link, toPhone, requested, fetching, soon>>

\* Every five seconds, and bounded to when nothing is on its way.
Ticks ==
    /\ toPhone = <<>> /\ events = <<>>
    /\ Sends(SetToSeq({NowPlaying(n) : n \in DOMAIN active}))
    /\ UNCHANGED <<phone, link, events, active, requested, fetching, soon, spoilt>>

-----------------------------------------------------------------------------
(* The proxies' methods: the state shown changes at once.                  *)

Uses(n, action, playing) ==
    /\ MoreMayFly
    /\ active' = [active EXCEPT ![n].playing = playing]
    /\ Sends(<<[kind |-> action, name |-> n, art |-> None]>>)
    /\ soon' = soon \cup {n}
    /\ UNCHANGED <<phone, link, events, requested, fetching, spoilt>>

Play(n) ==
    IF active[n].playing THEN Uses(n, "Pause", FALSE) ELSE Uses(n, "Play", TRUE)

Pause(n) == Uses(n, "Pause", FALSE)

PlayPause(n) == Uses(n, "PlayPause", ~active[n].playing)

\* Mutant of AsksSoon: the phone is not asked how it took what it was sent.
AsksSoonNothing ==
    /\ \E n \in soon : soon' = soon \ {n}
    /\ UNCHANGED <<phone, link, toPhone, events, active, requested, fetching, spoilt>>

\* The rest of send_request, 200 ms later
AsksSoon ==
    /\ \E n \in soon : soon' = soon \ {n} /\ Sends(<<NowPlaying(n)>>)
    /\ UNCHANGED <<phone, link, events, active, requested, fetching, spoilt>>

PhonePlayersNext ==
    \/ PhoneChanges \/ PhoneAnswers
    \/ Breaks \/ Disconnects \/ Connects \/ FetchEnds
    \/ TakesList \/ TakesInfo \/ TakesArt \/ TakesDisconnected \/ Ticks
    \/ \E n \in DOMAIN active : Play(n) \/ Pause(n) \/ PlayPause(n)
    \/ AsksSoon

PhonePlayersSpec == PhonePlayersInit /\ [][PhonePlayersNext]_playersVars

-----------------------------------------------------------------------------
Quiet == toPhone = <<>> /\ events = <<>> /\ soon = {}

\* Once nothing is on its way a proxy shows what its player does, whatever the
\* controls guessed and the phone refused (send_request asks again).
ProxyAgrees ==
    Quiet /\ link = "up" => \A n \in DOMAIN active : active[n].playing = (n \in phone.playing)

\* A player that was closed, or whose phone is disconnected, has no proxy
\* left (the list is authoritative, and Disconnected comes after all else).
ClosedPlayersGo ==
    Quiet => /\ link = "up" => DOMAIN active \subseteq phone.running
             /\ link = "down" => DOMAIN active = {}

\* Art that was asked for once and neither lost nor crossed ends up shown, and
\* is not taken away again by news of the player.
ArtIsShownOrComing ==
    \A n \in DOMAIN active \ spoilt :
        requested[n] # None /\ ~Outstanding(n) =>
            active[n].art = [local |-> TRUE, art |-> requested[n]]

\* The proxies are those of the phone's players and carry all their parts.
PhonePlayersInv == PhonePlayersTypeOK /\ ClosedPlayersGo
=============================================================================
