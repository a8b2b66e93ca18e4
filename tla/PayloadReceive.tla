--------------------------- MODULE PayloadReceive ---------------------------
(***************************************************************************)
(* Files a phone sends: a task per file that fetches the payload into a    *)
(* temporary file and publishes it (share.rs, sms.rs, download.rs,         *)
(* receive_payload in transport.rs), the statuses it reports               *)
(* (filetransfer.rs), and the service's list of recent transfers           *)
(* (dbus_interface.rs).                                                    *)
(*                                                                         *)
(* Tasks, the service, the phone and the user, who may move or create      *)
(* files in Downloads, interleave between any two awaits.  A payload is    *)
(* counted in chunks.                                                      *)
(***************************************************************************)
EXTENDS Naturals, Sequences

CONSTANTS
    Transfer,    \* transfers; an id is never used twice
    Name,        \* file names that are valid
    MaxSize,     \* bound on the chunks of a payload
    NoSize,      \* no payload size was announced
    MaxSuffix,   \* bound on the " (n)" of a name in Downloads (u32 in the code)
    RecentCap    \* MAX_RECENT_TRANSFERS (50 in the code)

ASSUME ReceiveAssumption ==
    /\ {MaxSize, MaxSuffix} \subseteq Nat
    /\ RecentCap \in Nat \ {0}
    /\ Name # {}
    /\ NoSize \notin Nat

Free == "free"
User == "user"
ASSUME OwnerAssumption == {Free, User} \cap Transfer = {}

VARIABLES
    job,      \* per transfer: its request and how far its task is
    temp,     \* transfers whose temporary file exists
    folder,   \* per destination: who made the file that is there
    statusQ,  \* TransferStatus announcements not yet handled
    recent,   \* recent_transfers, newest first
    saved     \* history: transfers whose file was published

recvVars == <<job, temp, folder, statusQ, recent, saved>>

\* "share" goes to Downloads under a name that is free, "attachment" into the
\* cache in place of what was there.
Request == [kind : {"share", "attachment"}, name : Name,
            size : (0 .. MaxSize) \cup {NoSize}, port : BOOLEAN]

Phase == {"none", "started", "prepared", "connected", "receiving", "received",
          "publishing", "published", "ended", "lost"}

Job == [phase : Phase, req : Request, got : 0 .. MaxSize, suffix : 0 .. MaxSuffix]

Destination == [dir : {"Downloads"}, name : Name, suffix : 0 .. MaxSuffix]
               \cup [dir : {"cache"}, name : Name, suffix : {0}]

Status == [id : Transfer, state : {"receiving", "completed", "failed"}]

RecvTypeOK ==
    /\ job \in [Transfer -> Job]
    /\ temp \in SUBSET Transfer
    /\ folder \in [Destination -> Transfer \cup {Free, User}]
    /\ statusQ \in Seq(Status)
    /\ recent \in Seq(Status)
    /\ Len(recent) <= RecentCap
    /\ saved \in SUBSET Transfer

NoJob == [phase |-> "none", req |-> CHOOSE r \in Request : TRUE, got |-> 0, suffix |-> 0]

RecvInit ==
    /\ job = [t \in Transfer |-> NoJob]
    /\ temp = {}
    /\ folder = [d \in Destination |-> Free]
    /\ statusQ = <<>>
    /\ recent = <<>>
    /\ saved = {}

-----------------------------------------------------------------------------
\* IncomingTransfer::send
Report(t, state) == statusQ' = Append(statusQ, [id |-> t, state |-> state])

Enter(t, phase) == job' = [job EXCEPT ![t].phase = phase]

\* Mutant of Fail: the temporary file is kept.
FailKeepsTemp(t) ==
    /\ Enter(t, "ended")
    /\ Report(t, "failed")
    /\ UNCHANGED <<temp, folder, recent, saved>>

\* IncomingTransfer::failed, once Download has been dropped with its file
Fail(t) ==
    /\ Enter(t, "ended")
    /\ temp' = temp \ {t}
    /\ Report(t, "failed")
    /\ UNCHANGED <<folder, recent, saved>>

\* dispatch of a ShareRequest or SmsAttachmentFile.  An attachment without a
\* port is rejected before a transfer is started.
Dispatch(t, r) ==
    /\ job[t].phase = "none"
    /\ r.kind = "share" \/ r.port
    /\ job' = [job EXCEPT ![t].phase = "started", ![t].req = r]
    /\ Report(t, "receiving")
    /\ UNCHANGED <<temp, folder, recent, saved>>

\* The temporary file is made; without a port this is not even tried.
Prepare(t) ==
    /\ job[t].phase = "started"
    /\ \/ /\ job[t].req.port
          /\ Enter(t, "prepared")
          /\ temp' = temp \cup {t}
          /\ UNCHANGED <<folder, statusQ, recent, saved>>
       \/ Fail(t)

\* The phone accepts the connection; this is tried if a size was announced.
Connect(t) ==
    /\ job[t].phase = "prepared"
    /\ job[t].req.size # NoSize
    /\ Enter(t, "connected")
    /\ UNCHANGED <<temp, folder, statusQ, recent, saved>>

\* The TLS handshake, and verify_payload_peer, succeed.
Handshake(t) ==
    /\ job[t].phase = "connected"
    /\ Enter(t, "receiving")
    /\ UNCHANGED <<temp, folder, statusQ, recent, saved>>

\* A read of n chunks; a progress report is sent unless one was sent just now.
Read(t, n) ==
    /\ job[t].phase = "receiving"
    /\ n <= job[t].req.size - job[t].got
    /\ job' = [job EXCEPT ![t].got = @ + n]
    /\ Report(t, "receiving") \/ UNCHANGED statusQ
    /\ UNCHANGED <<temp, folder, recent, saved>>

\* Mutant of GivesUp: reading has no deadline.
GivesUpBeforeReading(t) ==
    /\ job[t].phase \in {"prepared", "connected"}
    /\ Fail(t)

\* No size, no connection, no handshake or nothing read within its deadline;
\* another peer; more chunks than announced; an error.
GivesUp(t) ==
    /\ job[t].phase \in {"prepared", "connected", "receiving"}
    /\ Fail(t)

\* Mutant of ReadEnds: the size is not validated.
ReadEndsUnchecked(t) ==
    /\ job[t].phase = "receiving"
    /\ Enter(t, "received")
    /\ UNCHANGED <<temp, folder, statusQ, recent, saved>>

\* The end of the payload; validate_payload_size.
ReadEnds(t) ==
    /\ job[t].phase = "receiving"
    /\ IF job[t].got = job[t].req.size
         THEN /\ Enter(t, "received")
              /\ UNCHANGED <<temp, folder, statusQ, recent, saved>>
         ELSE Fail(t)

\* The stream is closed and the temporary file synced.
Finalize(t) ==
    /\ job[t].phase = "received"
    /\ \/ /\ Enter(t, "publishing")
          /\ UNCHANGED <<temp, folder, statusQ, recent, saved>>
       \/ Fail(t)

Target(t) ==
    IF job[t].req.kind = "share"
      THEN [dir |-> "Downloads", name |-> job[t].req.name, suffix |-> job[t].suffix]
      ELSE [dir |-> "cache", name |-> job[t].req.name, suffix |-> 0]

Publish(t) ==
    /\ Enter(t, "published")
    /\ folder' = [folder EXCEPT ![Target(t)] = t]
    /\ temp' = temp \ {t}
    /\ saved' = saved \cup {t}
    /\ UNCHANGED <<statusQ, recent>>

\* Mutant of Finish: every name is taken, free or not.
FinishReplaces(t) ==
    /\ job[t].phase = "publishing"
    /\ Publish(t) \/ Fail(t)

\* persist_noclobber, which takes the name only if it is free, or persist.
Finish(t) ==
    /\ job[t].phase = "publishing"
    /\ \/ /\ job[t].req.kind = "attachment" \/ folder[Target(t)] = Free
          /\ Publish(t)
       \/ /\ job[t].req.kind = "share" /\ folder[Target(t)] # Free
          /\ job[t].suffix < MaxSuffix
          /\ job' = [job EXCEPT ![t].suffix = @ + 1]
          /\ UNCHANGED <<temp, folder, statusQ, recent, saved>>
       \/ Fail(t)

\* Mutant of Complete: success is reported before the file is published.
CompleteEarly(t) ==
    /\ job[t].phase \in {"publishing", "published"}
    /\ Enter(t, "ended")
    /\ Report(t, "completed")
    /\ temp' = temp \ {t}
    /\ UNCHANGED <<folder, recent, saved>>

\* IncomingTransfer::completed
Complete(t) ==
    /\ job[t].phase = "published"
    /\ Enter(t, "ended")
    /\ Report(t, "completed")
    /\ UNCHANGED <<temp, folder, recent, saved>>

PhoneStep(t) ==
    Connect(t) \/ Handshake(t) \/ ReadEnds(t) \/ \E n \in 1 .. MaxSize : Read(t, n)

OwnStep(t) ==
    Prepare(t) \/ GivesUp(t) \/ Finalize(t) \/ Finish(t) \/ Complete(t)

-----------------------------------------------------------------------------
\* record_transfer_status: in place if it is listed, else in front, and the
\* oldest entries go.
Recorded(list, s) ==
    IF \E i \in DOMAIN list : list[i].id = s.id
      THEN [i \in DOMAIN list |-> IF list[i].id = s.id THEN s ELSE list[i]]
      ELSE <<s>> \o SubSeq(list, 1, IF Len(list) < RecentCap THEN Len(list)
                                                            ELSE RecentCap - 1)

\* Mutant of HandleStatus: the newest announcement is handled first.
HandleNewestStatus ==
    /\ statusQ # <<>>
    /\ recent' = Recorded(recent, statusQ[Len(statusQ)])
    /\ statusQ' = SubSeq(statusQ, 1, Len(statusQ) - 1)
    /\ UNCHANGED <<job, temp, folder, saved>>

\* handle_event, TransferStatus
HandleStatus ==
    /\ statusQ # <<>>
    /\ recent' = Recorded(recent, Head(statusQ))
    /\ statusQ' = Tail(statusQ)
    /\ UNCHANGED <<job, temp, folder, saved>>

\* The user puts a file somewhere in Downloads, or takes one away.
UserPuts(d) ==
    /\ d.dir = "Downloads"
    /\ folder[d] = Free
    /\ folder' = [folder EXCEPT ![d] = User]
    /\ UNCHANGED <<job, temp, statusQ, recent, saved>>

UserTakes(d) ==
    /\ d.dir = "Downloads"
    /\ folder[d] # Free
    /\ folder' = [folder EXCEPT ![d] = Free]
    /\ UNCHANGED <<job, temp, statusQ, recent, saved>>

Active(t) == job[t].phase \notin {"none", "ended", "lost"}

\* The service stops, at any point: temporary files stay, the list does not.
Restart ==
    /\ job' = [t \in Transfer |-> IF Active(t) THEN [job[t] EXCEPT !.phase = "lost"]
                                              ELSE job[t]]
    /\ statusQ' = <<>>
    /\ recent' = <<>>
    /\ UNCHANGED <<temp, folder, saved>>

RecvNext ==
    \/ \E t \in Transfer : \/ \E r \in Request : Dispatch(t, r)
                           \/ PhoneStep(t)
                           \/ OwnStep(t)
    \/ HandleStatus
    \/ \E d \in Destination : UserPuts(d) \/ UserTakes(d)
    \/ Restart

RecvSpec == RecvInit /\ [][RecvNext]_recvVars

\* A task goes on by itself where it waits for a local file, and gives up where
\* it waits for the phone, which owes it nothing; reads, which put the deadline
\* off, are bounded by the announced size.  The service handles what is
\* announced.
RecvFairSpec ==
    /\ RecvSpec
    /\ \A t \in Transfer : WF_recvVars(OwnStep(t))
    /\ WF_recvVars(HandleStatus)

-----------------------------------------------------------------------------
\* A file under its final name is complete, whoever is cut off when
\* (receive_payload validates before Download::finish publishes).
PublishedIsWhole ==
    \A d \in Destination :
        folder[d] \in Transfer => job[folder[d]].got = job[folder[d]].req.size

\* A temporary file does not outlive its transfer, except that of a process
\* that was killed (dropping Download removes it).
TempOnlyWhileActive ==
    \A t \in temp : Active(t) \/ job[t].phase = "lost"

\* What the list calls completed was saved, and what it calls failed was not.
ListedResultIsTrue ==
    \A i \in DOMAIN recent :
        /\ recent[i].state = "completed" => recent[i].id \in saved
        /\ recent[i].state = "failed" => recent[i].id \notin saved

\* The list shows a transfer once, and a result it shows is final: no progress
\* and no other result follows (filetransfer.rs:16 "terminal results are always
\* sent exactly once").
ResultIsFinal ==
    [][ \A i \in DOMAIN recent, j \in DOMAIN recent' :
          recent[i].id = recent'[j].id /\ recent[i].state # "receiving"
              => recent'[j] = recent[i] ]_recvVars

\* A file in Downloads is never replaced, neither the user's nor another
\* transfer's that took the name in between (download.rs test
\* concurrent_names_do_not_overwrite).
NothingIsOverwritten ==
    [][ \A d \in Destination :
          d.dir = "Downloads" /\ folder[d] # Free => folder'[d] \in {folder[d], Free} ]_recvVars

\* A transfer that is listed as receiving does not stay so, whatever the phone
\* does (the deadlines of receive_payload, file_payload_info).
ReceivingEnds ==
    \A t \in Transfer :
        (\E i \in DOMAIN recent : recent[i] = [id |-> t, state |-> "receiving"])
            ~> ~(\E i \in DOMAIN recent : recent[i] = [id |-> t, state |-> "receiving"])
=============================================================================
