--------------------------- MODULE DesktopPlayers ---------------------------
(***************************************************************************)
(* The desktop's media players: telephony.rs signals a phone's calls to    *)
(* the supervisor thread of mpris.rs, which polls: it takes one signal,    *)
(* pauses or resumes players one by one, and compares the players on the   *)
(* bus with those it knows.  Every new one gets a thread that watches it.  *)
(***************************************************************************)
EXTENDS Sequences, FiniteSets

CONSTANT Player \* the names under which players appear on the session bus

VARIABLES
    player,    \* what each player does; users, phones and the supervisor change it
    telephony, \* how far received_packet is with a telephony packet
    signal,    \* the channel of capacity one to the supervisor
    monitor,   \* what the supervisor does and the players it has yet to see to
    kept,      \* paused_players
    known,     \* known_players
    watched,   \* watched_players
    watchers,  \* the threads: those that look for their player, those that found it
    owed,      \* for the properties: paused for a call and not resumed since
    missed     \* for the properties: known players whose watcher has ended

callVars == <<telephony, signal, kept, owed>>
watchVars == <<known, watched, watchers, missed>>
playerVars == <<player, callVars, monitor, watchVars>>

Doing == {"starting", "polling", "pausing", "resuming", "listing"}

PlayersTypeOK ==
    /\ player \in [Player -> {"gone", "paused", "playing"}]
    /\ telephony \in {"idle", "pause", "resume", "show"}
    /\ signal \in {<<>>, <<TRUE>>, <<FALSE>>}
    /\ monitor \in [doing : Doing, todo : SUBSET Player]
    /\ watchers \in [looking : SUBSET Player, on : SUBSET Player]
    /\ {kept, known, watched, owed, missed} \subseteq SUBSET Player

PlayersInit ==
    /\ player \in [Player -> {"gone", "playing"}]
    /\ telephony = "idle"
    /\ signal = <<>>
    /\ monitor = [doing |-> "starting", todo |-> {}]
    /\ kept = {} /\ owed = {}
    /\ known = {} /\ watched = {} /\ missed = {}
    /\ watchers = [looking |-> {}, on |-> {}]

Running == {p \in Player : player[p] # "gone"}

-----------------------------------------------------------------------------
(* telephony.rs                                                            *)

\* isCancel: the call has ended.  Before the supervisor has set the channel
\* there is nothing to signal to.
CallEnds ==
    /\ telephony = "idle"
    /\ telephony' = IF monitor.doing = "starting" THEN "idle" ELSE "resume"
    /\ UNCHANGED <<player, signal, kept, owed, monitor, watchVars>>

\* A ringing, a talking or a missedCall event; only the first two pause.
CallEvent(missedCall) ==
    /\ telephony = "idle"
    /\ telephony' = IF missedCall \/ monitor.doing = "starting" THEN "show" ELSE "pause"
    /\ UNCHANGED <<player, signal, kept, owed, monitor, watchVars>>

\* Mutant of Signals: the channel is not waited for.
SignalsOrDrops ==
    /\ telephony \in {"pause", "resume"}
    /\ signal' = IF signal = <<>> THEN <<telephony = "pause">> ELSE signal
    /\ telephony' = IF telephony = "pause" THEN "show" ELSE "idle"
    /\ UNCHANGED <<player, kept, owed, monitor, watchVars>>

\* tx.send, which holds up its caller while the channel is full
Signals ==
    /\ telephony \in {"pause", "resume"}
    /\ signal = <<>>
    /\ signal' = <<telephony = "pause">>
    /\ telephony' = IF telephony = "pause" THEN "show" ELSE "idle"
    /\ UNCHANGED <<player, kept, owed, monitor, watchVars>>

\* The desktop's notification of the call has been shown, or could not be.
CallShown ==
    /\ telephony = "show"
    /\ telephony' = "idle"
    /\ UNCHANGED <<player, signal, kept, owed, monitor, watchVars>>

-----------------------------------------------------------------------------
(* The players                                                             *)

Starts(p) ==
    /\ player[p] = "gone"
    /\ player' = [player EXCEPT ![p] = "paused"]
    /\ UNCHANGED <<callVars, monitor, watchVars>>

\* A player that exits ends the events its watcher waits for.
Exits(p) ==
    /\ player[p] # "gone"
    /\ player' = [player EXCEPT ![p] = "gone"]
    /\ watchers' = [watchers EXCEPT !.on = @ \ {p}]
    /\ missed' = IF p \in known THEN missed \cup {p} ELSE missed
    /\ UNCHANGED <<callVars, monitor, known, watched>>

\* A request of a phone, or the desktop's user, plays or pauses it.
Controlled(p) ==
    /\ player[p] # "gone"
    /\ player' = [player EXCEPT ![p] = IF @ = "playing" THEN "paused" ELSE "playing"]
    /\ UNCHANGED <<callVars, monitor, watchVars>>

-----------------------------------------------------------------------------
(* monitor_mpris, the supervisor                                           *)

SetsChannel ==
    /\ monitor.doing = "starting"
    /\ monitor' = [doing |-> "polling", todo |-> {}]
    /\ UNCHANGED <<player, callVars, watchVars>>

\* try_recv: a call pauses what plays, its end resumes what was paused.  The
\* players may not be found at all.
Polls ==
    /\ monitor.doing = "polling"
    /\ \/ /\ signal = <<>>
          /\ monitor' = [doing |-> "listing", todo |-> {}]
          /\ UNCHANGED <<kept, signal>>
       \/ /\ signal = <<TRUE>>
          /\ \E found \in {Running, {}} : monitor' = [doing |-> "pausing", todo |-> found]
          /\ kept' = {}
          /\ signal' = <<>>
       \/ /\ signal = <<FALSE>>
          /\ monitor' = [doing |-> "resuming", todo |-> kept]
          /\ kept' = kept
          /\ signal' = <<>>
    /\ UNCHANGED <<player, telephony, owed, watchVars>>

\* One of the players found: it is paused if it plays and lets itself be.
Pauses(p) ==
    /\ monitor.doing = "pausing"
    /\ p \in monitor.todo
    /\ monitor' = [monitor EXCEPT !.todo = @ \ {p}]
    /\ \/ UNCHANGED <<player, kept, owed>>
       \/ /\ player[p] = "playing"
          /\ player' = [player EXCEPT ![p] = "paused"]
          /\ kept' = kept \cup {p}
          /\ owed' = owed \cup {p}
    /\ UNCHANGED <<telephony, signal, watchVars>>

\* play, or play_pause where that fails; what cannot be resumed is let be.
Resumes(p) ==
    /\ monitor.doing = "resuming"
    /\ p \in monitor.todo
    /\ monitor' = [monitor EXCEPT !.todo = @ \ {p}]
    /\ player' \in {player, [player EXCEPT ![p] = IF @ = "gone" THEN @ ELSE "playing"]}
    /\ owed' = owed \ {p}
    /\ UNCHANGED <<telephony, signal, kept, watchVars>>

\* All players have been seen to; resumed players are no longer kept.
Seen ==
    /\ monitor.doing \in {"pausing", "resuming"}
    /\ monitor.todo = {}
    /\ monitor' = [doing |-> "listing", todo |-> {}]
    /\ kept' = IF monitor.doing = "resuming" THEN {} ELSE kept
    /\ UNCHANGED <<player, telephony, signal, owed, watchVars>>

\* Mutant of Lists: players that have gone stay in watched_players.
ListsForgetful ==
    /\ monitor.doing = "listing"
    /\ monitor' = [doing |-> "polling", todo |-> {}]
    /\ known' \in {Running, {}}
    /\ watched' = watched \cup known'
    /\ watchers' = [watchers EXCEPT !.looking = @ \cup (watched' \ watched)]
    /\ missed' = missed \cap known'
    /\ UNCHANGED <<player, callVars>>

\* The list is compared with known_players and, if it changed, sent to all
\* devices; every player without an entry in watched_players gets a thread.
\* Where the bus cannot be asked the list is empty.
Lists ==
    /\ monitor.doing = "listing"
    /\ monitor' = [doing |-> "polling", todo |-> {}]
    /\ known' \in {Running, {}}
    /\ watched' = IF known' = known THEN watched ELSE known'
    /\ watchers' = [watchers EXCEPT !.looking = @ \cup (watched' \ watched)]
    /\ missed' = missed \cap known'
    /\ UNCHANGED <<player, callVars>>

\* A watcher's thread finds its player, or ends.
Attaches(p) ==
    /\ p \in watchers.looking
    /\ \/ /\ p \in Running
          /\ watchers' = [looking |-> watchers.looking \ {p}, on |-> watchers.on \cup {p}]
          /\ UNCHANGED missed
       \/ /\ watchers' = [watchers EXCEPT !.looking = @ \ {p}]
          /\ missed' = IF p \in known \ watchers.on THEN missed \cup {p} ELSE missed
    /\ UNCHANGED <<player, callVars, monitor, known, watched>>

\* An event arrives as an error: the watcher ends although its player runs on.
WatcherFails(p) ==
    /\ p \in watchers.on
    /\ watchers' = [watchers EXCEPT !.on = @ \ {p}]
    /\ missed' = IF p \in known THEN missed \cup {p} ELSE missed
    /\ UNCHANGED <<player, callVars, monitor, known, watched>>

Supervisor ==
    \/ SetsChannel \/ Polls \/ Seen \/ Lists
    \/ \E p \in Player : Pauses(p) \/ Resumes(p)

PlayerStep ==
    \E p \in Player :
        Starts(p) \/ Exits(p) \/ Controlled(p) \/ Attaches(p) \/ WatcherFails(p)

-----------------------------------------------------------------------------
\* What is started when a call ends was paused for one and has not been
\* started since: a second end of a call starts nothing (paused_players).
NothingStartsUnasked ==
    kept \subseteq owed \cup (IF monitor.doing = "resuming" THEN Player \ monitor.todo ELSE {})

\* A known player that has been up since it became known is watched, a player
\* that left and came back among them (watched_players follows known_players).
KnownIsWatched ==
    \A p \in (known \cap Running) \ missed : p \in watchers.looking \cup watchers.on

\* Every call and every end of one gets to the players, however the phones'
\* calls overlap (the channel is waited for, not given up).
SignalIsActedOn ==
    /\ (telephony = "pause") ~> (monitor.doing = "pausing")
    /\ (telephony = "resume") ~> (monitor.doing = "resuming")

\* What telephony.rs:42 says of the end of a call, "resume any paused players":
\* once it has been acted on, no player that was paused for a call is left.
PausedAreResumed ==
    [][monitor.doing = "resuming" /\ monitor'.doing = "listing" => owed' = {}]_playerVars
=============================================================================
