----------------------------- MODULE PhoneEvents -----------------------------
(***************************************************************************)
(* The phones' calls and notifications together: the event loop dispatches *)
(* one packet at a time and waits for its handler, for the telephony's     *)
(* while the channel to the supervisor is full and for the notification's  *)
(* while the desktop shows it.                                             *)
(***************************************************************************)
EXTENDS DesktopPlayers, Notifications

eventVars == <<playerVars, noteVars>>

EventsInit == PlayersInit /\ NoteInit

\* dispatch has returned: the loop is free for the next packet.
LoopIsFree == telephony = "idle" /\ showing = NoContent

TelephonyPacket ==
    /\ LoopIsFree
    /\ CallEnds \/ \E missedCall \in BOOLEAN : CallEvent(missedCall)
    /\ UNCHANGED noteVars

NotificationPacket ==
    /\ LoopIsFree
    /\ NotePacket
    /\ UNCHANGED playerVars

TelephonyGoesOn == (Signals \/ CallShown) /\ UNCHANGED noteVars
NotificationGoesOn == (Shown \/ ShowFails) /\ UNCHANGED playerVars

EventsNext ==
    \/ TelephonyPacket \/ NotificationPacket
    \/ TelephonyGoesOn \/ NotificationGoesOn
    \/ (Supervisor \/ PlayerStep) /\ UNCHANGED noteVars

\* The supervisor's loop never ends, and the desktop answers what it is asked
\* to show.  The two fairness conjuncts of a handler are those of one task.
EventsSpec ==
    /\ EventsInit
    /\ [][EventsNext]_eventVars
    /\ WF_eventVars(TelephonyGoesOn)
    /\ WF_eventVars(NotificationGoesOn)
    /\ WF_eventVars(Supervisor /\ UNCHANGED noteVars)

-----------------------------------------------------------------------------
\* What is kept of calls, players and notifications is typed, bounded and never
\* more than was asked for: nothing is started that no call has paused, and a
\* player that is known and has not been missed is watched.
EventsInv ==
    /\ PlayersTypeOK
    /\ NoteTypeOK
    /\ NothingStartsUnasked
    /\ KnownIsWatched
=============================================================================
