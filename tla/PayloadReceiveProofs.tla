------------------------ MODULE PayloadReceiveProofs ------------------------
(***************************************************************************)
(* Theorems about PayloadReceive, for any transfers, any names and sizes   *)
(* and any number of listed transfers.                                     *)
(***************************************************************************)
EXTENDS PayloadReceive, TLAPS

\* What the phase of a transfer says of its file.
PhaseFits(t) ==
    /\ job[t].phase \in {"connected", "receiving"} => job[t].req.size # NoSize
    /\ job[t].phase \in {"received", "publishing", "published"} \/ t \in saved
           => job[t].got = job[t].req.size
    /\ t \in saved => job[t].phase \in {"published", "ended", "lost"}
    /\ job[t].phase = "published" => t \in saved
    /\ t \in temp => job[t].phase \in {"prepared", "connected", "receiving",
                                       "received", "publishing", "lost"}

FilesFit ==
    /\ \A t \in Transfer : PhaseFits(t)
    /\ \A d \in Destination : folder[d] \in Transfer => folder[d] \in saved

\* A result, on its way or listed, is true, and its task has ended.
Result(s) == s.state # "receiving"

ResultFits(s) ==
    /\ Result(s) => job[s.id].phase = "ended"
    /\ s.state = "completed" => s.id \in saved
    /\ s.state = "failed" => s.id \notin saved

ResultsFit ==
    /\ \A i \in DOMAIN statusQ : ResultFits(statusQ[i])
    /\ \A i \in DOMAIN recent : ResultFits(recent[i])

\* A result is the last that is said of its transfer, which is listed once.
ResultsAreLast ==
    /\ \A i, j \in DOMAIN statusQ :
          i < j /\ Result(statusQ[i]) => statusQ[j].id # statusQ[i].id
    /\ \A i \in DOMAIN recent, j \in DOMAIN statusQ :
          Result(recent[i]) => statusQ[j].id # recent[i].id

ListedOnce ==
    \A i, j \in DOMAIN recent : recent[i].id = recent[j].id => i = j

RecvInv == RecvTypeOK /\ FilesFit /\ ResultsFit /\ ResultsAreLast /\ ListedOnce

-----------------------------------------------------------------------------
\* Sequences.

LEMMA Appended ==
    ASSUME NEW S, NEW s \in Seq(S), NEW e \in S
    PROVE  /\ Append(s, e) \in Seq(S)
           /\ DOMAIN s = 1 .. Len(s) /\ Len(s) \in Nat
           /\ DOMAIN Append(s, e) = 1 .. Len(s) + 1
           /\ \A i \in DOMAIN s : Append(s, e)[i] = s[i]
           /\ Append(s, e)[Len(s) + 1] = e
OBVIOUS

LEMMA Shifted ==
    ASSUME NEW S, NEW s \in Seq(S), s # <<>>
    PROVE  /\ Tail(s) \in Seq(S) /\ Head(s) = s[1] /\ 1 \in DOMAIN s
           /\ DOMAIN s = 1 .. Len(s) /\ Len(s) \in Nat
           /\ \A i \in DOMAIN Tail(s) : i + 1 \in DOMAIN s /\ i \in Nat \ {0}
                                        /\ Tail(s)[i] = s[i + 1]
OBVIOUS

\* What record_transfer_status leaves in the list: the status, and of the
\* entries of other transfers some or all, each still once.
LEMMA RecordedList ==
    ASSUME NEW list \in Seq(Status), Len(list) <= RecentCap, NEW s \in Status,
           \A i, j \in DOMAIN list : list[i].id = list[j].id => i = j
    PROVE  /\ Recorded(list, s) \in Seq(Status)
           /\ Len(Recorded(list, s)) <= RecentCap
           /\ \A j \in DOMAIN Recorded(list, s) :
                 \/ Recorded(list, s)[j] = s
                 \/ /\ Recorded(list, s)[j].id # s.id
                    /\ \E i \in DOMAIN list : Recorded(list, s)[j] = list[i]
           /\ \A i, j \in DOMAIN Recorded(list, s) :
                 Recorded(list, s)[i].id = Recorded(list, s)[j].id => i = j
<1> DEFINE R == Recorded(list, s)
<1>0. RecentCap \in Nat \ {0}
  BY ReceiveAssumption
<1>1. CASE \E i \in DOMAIN list : list[i].id = s.id
  <2>0. DOMAIN list = 1 .. Len(list)
    OBVIOUS
  <2>1. R = [i \in 1 .. Len(list) |-> IF list[i].id = s.id THEN s ELSE list[i]]
    BY <1>1, <2>0, Zenon DEF Recorded
  <2> HIDE DEF R
  <2>2. R \in Seq(Status) /\ Len(R) = Len(list) /\ DOMAIN R = 1 .. Len(list)
    BY <2>1
  <2>3. \A j \in DOMAIN R : R[j].id = list[j].id
    BY <2>1, <2>2
  <2>4. \A j \in DOMAIN R : R[j] = s \/ (R[j].id # s.id /\ R[j] = list[j])
    BY <2>1, <2>2
  <2>5. \A i, j \in DOMAIN R : R[i].id = R[j].id => i = j
    BY <2>2, <2>3
  <2>6. \A j \in DOMAIN R : \/ R[j] = s
                            \/ R[j].id # s.id /\ \E i \in DOMAIN list : R[j] = list[i]
    BY <2>2, <2>4
  <2> QED BY <2>2, <2>5, <2>6 DEF R
<1>2. CASE ~ \E i \in DOMAIN list : list[i].id = s.id
  <2> DEFINE n == IF Len(list) < RecentCap THEN Len(list) ELSE RecentCap - 1
  <2>1. n \in 0 .. Len(list) /\ n + 1 <= RecentCap
    BY <1>0
  <2> HIDE DEF n
  <2> DEFINE Old == SubSeq(list, 1, n)
  <2>2. Old \in Seq(Status) /\ Len(Old) = n /\ \A i \in 1 .. n : Old[i] = list[i]
    BY <2>1
  <2>3. R = <<s>> \o Old
    BY <1>2 DEF Recorded, n
  <2> HIDE DEF Old, R
  <2>4. R \in Seq(Status) /\ Len(R) = n + 1 /\ R[1] = s
        /\ \A j \in 2 .. n + 1 : R[j] = Old[j - 1]
    BY <2>1, <2>2, <2>3
  <2>5. \A j \in 2 .. n + 1 : j - 1 \in DOMAIN list /\ R[j] = list[j - 1]
    BY <2>1, <2>2, <2>4
  <2>6. \A j \in 2 .. n + 1 : R[j].id # s.id
    BY <2>5, <1>2
  <2>7. DOMAIN R = 1 .. n + 1
    BY <2>4
  <2>8. \A i, j \in DOMAIN R : R[i].id = R[j].id => i = j
    <3> TAKE i, j \in DOMAIN R
    <3>1. CASE i = 1 \/ j = 1
      BY <3>1, <2>1, <2>4, <2>6, <2>7
    <3>2. CASE i # 1 /\ j # 1
      <4>1. i \in 2 .. n + 1 /\ j \in 2 .. n + 1
        BY <3>2, <2>7, <2>1
      <4>2. HAVE R[i].id = R[j].id
      <4>3. i - 1 = j - 1
        BY <4>1, <4>2, <2>5
      <4> QED BY <4>1, <4>3
    <3> QED BY <3>1, <3>2
  <2>9. \A j \in DOMAIN R : R[j] = s \/ (R[j].id # s.id /\ \E i \in DOMAIN list : R[j] = list[i])
    <3> TAKE j \in DOMAIN R
    <3>1. CASE j = 1
      BY <3>1, <2>4
    <3>2. CASE j # 1
      <4>1. j \in 2 .. n + 1
        BY <3>2, <2>7, <2>1
      <4>2. j - 1 \in DOMAIN list /\ R[j] = list[j - 1] /\ R[j].id # s.id
        BY <4>1, <2>5, <2>6
      <4> QED BY <4>2, Zenon
    <3> QED BY <3>1, <3>2
  <2> QED BY <2>1, <2>4, <2>8, <2>9 DEF R
<1> QED BY <1>1, <1>2

-----------------------------------------------------------------------------
\* Type correctness.

LEMMA NoJobType == NoJob \in Job /\ NoJob.phase = "none"
<1>1. PICK n \in Name : TRUE
  BY ReceiveAssumption
<1>2. [kind |-> "share", name |-> n, size |-> NoSize, port |-> TRUE] \in Request
  BY DEF Request
<1>3. (CHOOSE r \in Request : TRUE) \in Request
  BY <1>2
<1>4. 0 \in 0 .. MaxSize /\ 0 \in 0 .. MaxSuffix
  BY ReceiveAssumption
<1> QED BY <1>3, <1>4 DEF NoJob, Job, Phase

LEMMA ReportType ==
    ASSUME RecvTypeOK, NEW t \in Transfer,
           NEW state \in {"receiving", "completed", "failed"}, Report(t, state)
    PROVE  statusQ' \in Seq(Status)
<1>1. [id |-> t, state |-> state] \in Status
  BY DEF Status
<1>2. statusQ \in Seq(Status)
  BY DEF RecvTypeOK
<1> QED BY <1>1, <1>2, Appended DEF Report

LEMMA EnterType ==
    ASSUME RecvTypeOK, NEW t \in Transfer, NEW p \in Phase, Enter(t, p)
    PROVE  job' \in [Transfer -> Job]
BY DEF RecvTypeOK, Enter, Job

LEMMA FailType ==
    ASSUME RecvTypeOK, NEW t \in Transfer, Fail(t)
    PROVE  RecvTypeOK'
<1>1. job' \in [Transfer -> Job]
  BY EnterType DEF Fail, Phase
<1>2. statusQ' \in Seq(Status)
  BY ReportType DEF Fail
<1> QED BY <1>1, <1>2 DEF Fail, RecvTypeOK

LEMMA TypeInit == RecvInit => RecvTypeOK
<1> SUFFICES ASSUME RecvInit PROVE RecvTypeOK
  OBVIOUS
<1>1. <<>> \in Seq(Status) /\ Len(<<>>) <= RecentCap
  BY ReceiveAssumption
<1>2. job \in [Transfer -> Job]
  BY NoJobType DEF RecvInit
<1> QED BY <1>1, <1>2 DEF RecvInit, RecvTypeOK

LEMMA TypeStep == RecvInv /\ [RecvNext]_recvVars => RecvTypeOK'
<1> SUFFICES ASSUME RecvInv, [RecvNext]_recvVars
             PROVE  RecvTypeOK'
  OBVIOUS
<1> USE DEF RecvInv
<1>1. ASSUME NEW t \in Transfer, NEW r \in Request, Dispatch(t, r)
      PROVE  RecvTypeOK'
  <2>1. job' \in [Transfer -> Job]
    BY <1>1 DEF Dispatch, RecvTypeOK, Job, Phase
  <2>2. statusQ' \in Seq(Status)
    BY <1>1, ReportType DEF Dispatch
  <2> QED BY <1>1, <2>1, <2>2 DEF Dispatch, RecvTypeOK
<1>2. ASSUME NEW t \in Transfer, Prepare(t) PROVE RecvTypeOK'
  <2>1. CASE Fail(t)
    BY <2>1, FailType
  <2>2. CASE Enter(t, "prepared")
    BY <1>2, <2>1, <2>2, EnterType DEF Prepare, RecvTypeOK, Phase
  <2> QED BY <1>2, <2>1, <2>2 DEF Prepare
<1>3. ASSUME NEW t \in Transfer, Connect(t) \/ Handshake(t) PROVE RecvTypeOK'
  BY <1>3, EnterType DEF Connect, Handshake, RecvTypeOK, Phase
<1>4. ASSUME NEW t \in Transfer, NEW n \in 1 .. MaxSize, Read(t, n) PROVE RecvTypeOK'
  <2>1. job[t] \in Job /\ job[t].req.size \in 0 .. MaxSize
    BY <1>4 DEF Read, RecvTypeOK, FilesFit, PhaseFits, Job, Request
  <2>2. job[t].got + n \in 0 .. MaxSize
    BY <1>4, <2>1, ReceiveAssumption DEF Read, Job
  <2>3. job' \in [Transfer -> Job]
    BY <1>4, <2>2 DEF Read, RecvTypeOK, Job
  <2>4. statusQ' \in Seq(Status)
    BY <1>4, ReportType DEF Read, RecvTypeOK
  <2> QED BY <1>4, <2>3, <2>4 DEF Read, RecvTypeOK
<1>5. ASSUME NEW t \in Transfer, ReadEnds(t) PROVE RecvTypeOK'
  <2>1. CASE Fail(t)
    BY <2>1, FailType
  <2>2. CASE Enter(t, "received") /\ UNCHANGED <<temp, folder, statusQ, recent, saved>>
    BY <2>2, EnterType DEF RecvTypeOK, Phase
  <2> QED BY <1>5, <2>1, <2>2 DEF ReadEnds
<1>6. ASSUME NEW t \in Transfer, GivesUp(t) PROVE RecvTypeOK'
  BY <1>6, FailType DEF GivesUp
<1>7. ASSUME NEW t \in Transfer, Finalize(t) PROVE RecvTypeOK'
  <2>1. CASE Fail(t)
    BY <2>1, FailType
  <2>2. CASE Enter(t, "publishing") /\ UNCHANGED <<temp, folder, statusQ, recent, saved>>
    BY <2>2, EnterType DEF RecvTypeOK, Phase
  <2> QED BY <1>7, <2>1, <2>2 DEF Finalize
<1>8. ASSUME NEW t \in Transfer, Finish(t) PROVE RecvTypeOK'
  <2>1. CASE Fail(t)
    BY <2>1, FailType
  <2>2. CASE Publish(t)
    <3>1. folder' \in [Destination -> Transfer \cup {Free, User}]
      BY <2>2 DEF Publish, RecvTypeOK
    <3> QED BY <2>2, <3>1, EnterType DEF Publish, RecvTypeOK, Phase
  <2>3. CASE /\ job[t].suffix < MaxSuffix
             /\ job' = [job EXCEPT ![t].suffix = @ + 1]
             /\ UNCHANGED <<temp, folder, statusQ, recent, saved>>
    <3>1. job[t].suffix + 1 \in 0 .. MaxSuffix
      BY <2>3, ReceiveAssumption DEF RecvTypeOK, Job
    <3> QED BY <2>3, <3>1 DEF RecvTypeOK, Job
  <2> QED BY <1>8, <2>1, <2>2, <2>3 DEF Finish
<1>9. ASSUME NEW t \in Transfer, Complete(t) PROVE RecvTypeOK'
  <2>1. job' \in [Transfer -> Job]
    BY <1>9, EnterType DEF Complete, Phase
  <2>2. statusQ' \in Seq(Status)
    BY <1>9, ReportType DEF Complete
  <2> QED BY <1>9, <2>1, <2>2 DEF Complete, RecvTypeOK
<1>10. CASE HandleStatus
  <2>1. statusQ \in Seq(Status) /\ statusQ # <<>>
    BY <1>10 DEF HandleStatus, RecvTypeOK
  <2>2. Head(statusQ) \in Status /\ Tail(statusQ) \in Seq(Status)
    BY <2>1
  <2>3. recent' \in Seq(Status) /\ Len(recent') <= RecentCap
    BY <1>10, <2>2, RecordedList DEF HandleStatus, RecvTypeOK, ListedOnce
  <2> QED BY <1>10, <2>2, <2>3 DEF HandleStatus, RecvTypeOK
<1>11. ASSUME NEW d \in Destination, UserPuts(d) \/ UserTakes(d) PROVE RecvTypeOK'
  BY <1>11 DEF UserPuts, UserTakes, RecvTypeOK
<1>12. CASE Restart
  <2>1. <<>> \in Seq(Status) /\ Len(<<>>) <= RecentCap
    BY ReceiveAssumption
  <2>2. job' \in [Transfer -> Job]
    BY <1>12 DEF Restart, RecvTypeOK, Job, Phase
  <2> QED BY <1>12, <2>1, <2>2 DEF Restart, RecvTypeOK
<1>13. CASE UNCHANGED recvVars
  BY <1>13 DEF recvVars, RecvTypeOK
<1> QED
  BY <1>1, <1>2, <1>3, <1>4, <1>5, <1>6, <1>7, <1>8, <1>9, <1>10, <1>11, <1>12,
     <1>13 DEF RecvNext, PhoneStep, OwnStep

-----------------------------------------------------------------------------
\* Files.

LEMMA FilesInit == RecvInit => FilesFit
<1> SUFFICES ASSUME RecvInit PROVE FilesFit
  OBVIOUS
<1>1. \A t \in Transfer : job[t].phase = "none"
  BY NoJobType DEF RecvInit
<1> QED BY <1>1, OwnerAssumption DEF RecvInit, FilesFit, PhaseFits

\* A step of one transfer leaves the others as they are.
OthersKept(t) ==
    \A u \in Transfer \ {t} :
        job'[u] = job[u] /\ (u \in temp' <=> u \in temp) /\ (u \in saved' <=> u \in saved)

LEMMA OneTransfer ==
    ASSUME FilesFit, NEW t \in Transfer, OthersKept(t), PhaseFits(t)', UNCHANGED folder,
           saved \subseteq saved'
    PROVE  FilesFit'
<1>1. ASSUME NEW u \in Transfer \ {t} PROVE PhaseFits(u)'
  BY <1>1 DEF OthersKept, FilesFit, PhaseFits
<1> QED BY <1>1 DEF FilesFit

LEMMA FailFits ==
    ASSUME RecvTypeOK, FilesFit, NEW t \in Transfer, t \notin saved, Fail(t)
    PROVE  FilesFit'
<1>1. OthersKept(t)
  BY DEF OthersKept, Fail, Enter, RecvTypeOK
<1>2. PhaseFits(t)'
  BY DEF PhaseFits, Fail, Enter, RecvTypeOK
<1> QED BY <1>1, <1>2, OneTransfer DEF Fail

LEMMA FilesStep == RecvInv /\ [RecvNext]_recvVars => FilesFit'
<1> SUFFICES ASSUME RecvInv, [RecvNext]_recvVars
             PROVE  FilesFit'
  OBVIOUS
<1> USE DEF RecvInv
<1>1. ASSUME NEW t \in Transfer, NEW r \in Request, Dispatch(t, r)
      PROVE  FilesFit'
  <2>1. OthersKept(t) /\ PhaseFits(t)'
    BY <1>1 DEF Dispatch, OthersKept, RecvTypeOK, FilesFit, PhaseFits
  <2> QED BY <1>1, <2>1, OneTransfer DEF Dispatch
<1>2. ASSUME NEW t \in Transfer, Prepare(t) PROVE FilesFit'
  <2>1. CASE Fail(t)
    BY <1>2, <2>1, FailFits DEF Prepare, FilesFit, PhaseFits
  <2>2. CASE Enter(t, "prepared") /\ temp' = temp \cup {t} /\ UNCHANGED <<folder, saved>>
    <3>1. OthersKept(t) /\ PhaseFits(t)'
      BY <1>2, <2>2 DEF Prepare, Enter, OthersKept, RecvTypeOK, FilesFit, PhaseFits
    <3> QED BY <2>2, <3>1, OneTransfer
  <2> QED BY <1>2, <2>1, <2>2 DEF Prepare
<1>3. ASSUME NEW t \in Transfer, Connect(t) \/ Handshake(t) PROVE FilesFit'
  <2>1. OthersKept(t)
    BY <1>3 DEF Connect, Handshake, Enter, OthersKept, RecvTypeOK
  <2>2. CASE Connect(t)
    <3>1. PhaseFits(t)'
      BY <2>2 DEF Connect, Enter, RecvTypeOK, FilesFit, PhaseFits
    <3> QED BY <2>1, <2>2, <3>1, OneTransfer DEF Connect
  <2>3. CASE Handshake(t)
    <3>1. PhaseFits(t)'
      BY <2>3 DEF Handshake, Enter, RecvTypeOK, FilesFit, PhaseFits
    <3> QED BY <2>1, <2>3, <3>1, OneTransfer DEF Handshake
  <2> QED BY <1>3, <2>2, <2>3
<1>4. ASSUME NEW t \in Transfer, NEW n \in 1 .. MaxSize, Read(t, n) PROVE FilesFit'
  <2>1. OthersKept(t) /\ PhaseFits(t)'
    BY <1>4 DEF Read, OthersKept, RecvTypeOK, FilesFit, PhaseFits
  <2> QED BY <1>4, <2>1, OneTransfer DEF Read
<1>5. ASSUME NEW t \in Transfer, ReadEnds(t) PROVE FilesFit'
  <2>1. CASE Fail(t)
    BY <1>5, <2>1, FailFits DEF ReadEnds, FilesFit, PhaseFits
  <2>2. CASE /\ job[t].got = job[t].req.size
             /\ Enter(t, "received")
             /\ UNCHANGED <<temp, folder, saved>>
    <3>1. OthersKept(t) /\ PhaseFits(t)'
      BY <1>5, <2>2 DEF ReadEnds, Enter, OthersKept, RecvTypeOK, FilesFit, PhaseFits
    <3> QED BY <2>2, <3>1, OneTransfer
  <2> QED BY <1>5, <2>1, <2>2 DEF ReadEnds
<1>6. ASSUME NEW t \in Transfer, GivesUp(t) PROVE FilesFit'
  BY <1>6, FailFits DEF GivesUp, FilesFit, PhaseFits
<1>7. ASSUME NEW t \in Transfer, Finalize(t) PROVE FilesFit'
  <2>1. CASE Fail(t)
    BY <1>7, <2>1, FailFits DEF Finalize, FilesFit, PhaseFits
  <2>2. CASE Enter(t, "publishing") /\ UNCHANGED <<temp, folder, saved>>
    <3>1. OthersKept(t) /\ PhaseFits(t)'
      BY <1>7, <2>2 DEF Finalize, Enter, OthersKept, RecvTypeOK, FilesFit, PhaseFits
    <3> QED BY <2>2, <3>1, OneTransfer
  <2> QED BY <1>7, <2>1, <2>2 DEF Finalize
<1>8. ASSUME NEW t \in Transfer, Finish(t) PROVE FilesFit'
  <2>1. CASE Fail(t)
    BY <1>8, <2>1, FailFits DEF Finish, FilesFit, PhaseFits
  <2>2. CASE Publish(t)
    <3>1. OthersKept(t) /\ PhaseFits(t)'
      BY <1>8, <2>2 DEF Finish, Publish, Enter, OthersKept, RecvTypeOK, FilesFit, PhaseFits
    <3>2. ASSUME NEW u \in Transfer \ {t} PROVE PhaseFits(u)'
      BY <3>1, <3>2 DEF OthersKept, FilesFit, PhaseFits
    <3>3. ASSUME NEW d \in Destination PROVE folder'[d] = t \/ folder'[d] = folder[d]
      BY <2>2 DEF Publish, RecvTypeOK
    <3> QED BY <2>2, <3>1, <3>2, <3>3 DEF Publish, FilesFit
  <2>3. CASE /\ job' = [job EXCEPT ![t].suffix = @ + 1]
             /\ UNCHANGED <<temp, folder, statusQ, recent, saved>>
    <3>1. OthersKept(t) /\ PhaseFits(t)'
      BY <2>3 DEF OthersKept, RecvTypeOK, FilesFit, PhaseFits
    <3> QED BY <2>3, <3>1, OneTransfer
  <2> QED BY <1>8, <2>1, <2>2, <2>3 DEF Finish
<1>9. ASSUME NEW t \in Transfer, Complete(t) PROVE FilesFit'
  <2>1. OthersKept(t) /\ PhaseFits(t)'
    BY <1>9 DEF Complete, Enter, OthersKept, RecvTypeOK, FilesFit, PhaseFits
  <2> QED BY <1>9, <2>1, OneTransfer DEF Complete
<1>10. CASE HandleStatus
  BY <1>10 DEF HandleStatus, FilesFit, PhaseFits
<1>11. ASSUME NEW d \in Destination, UserPuts(d) \/ UserTakes(d) PROVE FilesFit'
  <2>1. \A e \in Destination : folder'[e] \in {folder[e], Free, User}
    BY <1>11 DEF UserPuts, UserTakes, RecvTypeOK
  <2>2. \A u \in Transfer : PhaseFits(u)'
    BY <1>11 DEF UserPuts, UserTakes, FilesFit, PhaseFits
  <2>3. UNCHANGED saved
    BY <1>11 DEF UserPuts, UserTakes
  <2> QED BY <2>1, <2>2, <2>3, OwnerAssumption DEF FilesFit
<1>12. CASE Restart
  <2>1. ASSUME NEW u \in Transfer PROVE PhaseFits(u)'
    BY <1>12 DEF Restart, Active, RecvTypeOK, FilesFit, PhaseFits
  <2> QED BY <1>12, <2>1 DEF Restart, FilesFit
<1>13. CASE UNCHANGED recvVars
  BY <1>13 DEF recvVars, FilesFit, PhaseFits
<1> QED
  BY <1>1, <1>2, <1>3, <1>4, <1>5, <1>6, <1>7, <1>8, <1>9, <1>10, <1>11, <1>12,
     <1>13 DEF RecvNext, PhoneStep, OwnStep

-----------------------------------------------------------------------------
\* What a step means for the announced results: it is a step of one transfer
\* that has not ended, the handling of an announcement, something else, or a
\* restart.

TransferStep(t) ==
    /\ OthersKept(t)
    /\ job[t].phase # "ended"
    /\ UNCHANGED recent
    /\ \/ UNCHANGED statusQ
       \/ \E state \in {"receiving", "completed", "failed"} :
             Report(t, state) /\ ResultFits([id |-> t, state |-> state])'

FolderStep == UNCHANGED <<job, saved, statusQ, recent>>

LEMMA FailIsStep ==
    ASSUME RecvInv, NEW t \in Transfer, t \notin saved, job[t].phase # "ended", Fail(t)
    PROVE  TransferStep(t)
<1>1. OthersKept(t)
  BY DEF RecvInv, OthersKept, Fail, Enter, RecvTypeOK
<1>2. ResultFits([id |-> t, state |-> "failed"])'
  BY DEF RecvInv, ResultFits, Result, Fail, Enter, RecvTypeOK
<1> QED BY <1>1, <1>2 DEF TransferStep, Fail

LEMMA SilentStep ==
    ASSUME RecvInv, NEW t \in Transfer, OthersKept(t), job[t].phase # "ended",
           UNCHANGED recent,
           UNCHANGED statusQ \/ Report(t, "receiving")
    PROVE  TransferStep(t)
BY DEF TransferStep, ResultFits, Result

LEMMA StepKind ==
    ASSUME RecvInv, [RecvNext]_recvVars
    PROVE  (\E t \in Transfer : TransferStep(t)) \/ HandleStatus \/ FolderStep \/ Restart
<1> USE DEF RecvInv
<1>1. ASSUME NEW t \in Transfer, NEW r \in Request, Dispatch(t, r)
      PROVE  TransferStep(t)
  <2>1. OthersKept(t)
    BY <1>1 DEF Dispatch, OthersKept, RecvTypeOK
  <2> QED BY <1>1, <2>1, SilentStep DEF Dispatch
<1>2. ASSUME NEW t \in Transfer, Prepare(t) PROVE TransferStep(t)
  <2>1. CASE Fail(t)
    BY <1>2, <2>1, FailIsStep DEF Prepare, FilesFit, PhaseFits
  <2>2. CASE Enter(t, "prepared") /\ temp' = temp \cup {t} /\ UNCHANGED <<statusQ, recent, saved>>
    <3>1. OthersKept(t)
      BY <2>2 DEF Enter, OthersKept, RecvTypeOK
    <3> QED BY <1>2, <2>2, <3>1, SilentStep DEF Prepare
  <2> QED BY <1>2, <2>1, <2>2 DEF Prepare
<1>3. ASSUME NEW t \in Transfer, Connect(t) \/ Handshake(t) PROVE TransferStep(t)
  <2>1. OthersKept(t)
    BY <1>3 DEF Connect, Handshake, Enter, OthersKept, RecvTypeOK
  <2> QED BY <1>3, <2>1, SilentStep DEF Connect, Handshake
<1>4. ASSUME NEW t \in Transfer, NEW n \in 1 .. MaxSize, Read(t, n) PROVE TransferStep(t)
  <2>1. OthersKept(t)
    BY <1>4 DEF Read, OthersKept, RecvTypeOK
  <2> QED BY <1>4, <2>1, SilentStep DEF Read
<1>5. ASSUME NEW t \in Transfer, ReadEnds(t) PROVE TransferStep(t)
  <2>1. CASE Fail(t)
    BY <1>5, <2>1, FailIsStep DEF ReadEnds, FilesFit, PhaseFits
  <2>2. CASE Enter(t, "received") /\ UNCHANGED <<temp, statusQ, recent, saved>>
    <3>1. OthersKept(t)
      BY <2>2 DEF Enter, OthersKept, RecvTypeOK
    <3> QED BY <1>5, <2>2, <3>1, SilentStep DEF ReadEnds
  <2> QED BY <1>5, <2>1, <2>2 DEF ReadEnds
<1>6. ASSUME NEW t \in Transfer, GivesUp(t) PROVE TransferStep(t)
  BY <1>6, FailIsStep DEF GivesUp, FilesFit, PhaseFits
<1>7. ASSUME NEW t \in Transfer, Finalize(t) PROVE TransferStep(t)
  <2>1. CASE Fail(t)
    BY <1>7, <2>1, FailIsStep DEF Finalize, FilesFit, PhaseFits
  <2>2. CASE Enter(t, "publishing") /\ UNCHANGED <<temp, statusQ, recent, saved>>
    <3>1. OthersKept(t)
      BY <2>2 DEF Enter, OthersKept, RecvTypeOK
    <3> QED BY <1>7, <2>2, <3>1, SilentStep DEF Finalize
  <2> QED BY <1>7, <2>1, <2>2 DEF Finalize
<1>8. ASSUME NEW t \in Transfer, Finish(t) PROVE TransferStep(t)
  <2>1. CASE Fail(t)
    BY <1>8, <2>1, FailIsStep DEF Finish, FilesFit, PhaseFits
  <2>2. CASE Publish(t)
    <3>1. OthersKept(t)
      BY <2>2 DEF Publish, Enter, OthersKept, RecvTypeOK
    <3> QED BY <1>8, <2>2, <3>1, SilentStep DEF Finish, Publish
  <2>3. CASE /\ job' = [job EXCEPT ![t].suffix = @ + 1]
             /\ UNCHANGED <<temp, statusQ, recent, saved>>
    <3>1. OthersKept(t)
      BY <2>3 DEF OthersKept, RecvTypeOK
    <3> QED BY <1>8, <2>3, <3>1, SilentStep DEF Finish
  <2> QED BY <1>8, <2>1, <2>2, <2>3 DEF Finish
<1>9. ASSUME NEW t \in Transfer, Complete(t) PROVE TransferStep(t)
  <2>1. OthersKept(t)
    BY <1>9 DEF Complete, Enter, OthersKept, RecvTypeOK
  <2>2. ResultFits([id |-> t, state |-> "completed"])'
    BY <1>9 DEF Complete, Enter, ResultFits, Result, FilesFit, PhaseFits, RecvTypeOK
  <2> QED BY <1>9, <2>1, <2>2 DEF TransferStep, Complete
<1>10. ASSUME NEW d \in Destination, UserPuts(d) \/ UserTakes(d) PROVE FolderStep
  BY <1>10 DEF UserPuts, UserTakes, FolderStep
<1>11. CASE UNCHANGED recvVars
  BY <1>11 DEF recvVars, FolderStep
<1> QED
  BY <1>1, <1>2, <1>3, <1>4, <1>5, <1>6, <1>7, <1>8, <1>9, <1>10, <1>11
     DEF RecvNext, PhoneStep, OwnStep

-----------------------------------------------------------------------------
\* Results.

\* A result that is there stays true, whatever the transfers do.
LEMMA ResultKept ==
    ASSUME NEW t \in Transfer, TransferStep(t)
    PROVE  \A s \in Status : ResultFits(s) => ResultFits(s)'
<1> SUFFICES ASSUME NEW s \in Status, ResultFits(s) PROVE ResultFits(s)'
  OBVIOUS
<1>1. s.id \in Transfer /\ (s.state = "completed" => Result(s)) /\ (s.state = "failed" => Result(s))
  BY DEF Status, Result
<1>2. CASE ~Result(s)
  BY <1>1, <1>2 DEF ResultFits
<1>3. CASE Result(s)
  <2>1. s.id # t
    BY <1>3 DEF ResultFits, TransferStep
  <2> QED BY <1>1, <2>1 DEF ResultFits, TransferStep, OthersKept
<1> QED BY <1>2, <1>3

LEMMA ResultsFitStep == RecvInv /\ [RecvNext]_recvVars => ResultsFit'
<1> SUFFICES ASSUME RecvInv, [RecvNext]_recvVars
             PROVE  ResultsFit'
  OBVIOUS
<1>1. statusQ \in Seq(Status) /\ recent \in Seq(Status)
  BY DEF RecvInv, RecvTypeOK
<1>2. \A i \in DOMAIN statusQ : statusQ[i] \in Status /\ ResultFits(statusQ[i])
  BY <1>1 DEF RecvInv, ResultsFit
<1>3. \A i \in DOMAIN recent : recent[i] \in Status /\ ResultFits(recent[i])
  BY <1>1 DEF RecvInv, ResultsFit
<1>4. ASSUME NEW t \in Transfer, TransferStep(t) PROVE ResultsFit'
  <2>1. \A s \in Status : ResultFits(s) => ResultFits(s)'
    BY <1>4, ResultKept
  <2>2. ASSUME NEW i \in DOMAIN recent' PROVE ResultFits(recent[i])'
    <3>1. recent' = recent
      BY <1>4 DEF TransferStep
    <3> QED BY <3>1, <2>1, <1>3, <2>2 DEF ResultFits
  <2>3. CASE UNCHANGED statusQ
    <3>1. ASSUME NEW i \in DOMAIN statusQ' PROVE ResultFits(statusQ[i])'
      BY <2>3, <2>1, <1>2, <3>1 DEF ResultFits
    <3> QED BY <2>2, <3>1 DEF ResultsFit
  <2>4. ASSUME NEW state \in {"receiving", "completed", "failed"},
               Report(t, state), ResultFits([id |-> t, state |-> state])'
        PROVE  ResultsFit'
    <3> DEFINE new == [id |-> t, state |-> state]
    <3>1. new \in Status
      BY DEF Status
    <3>2. \A i \in DOMAIN statusQ' : statusQ'[i] = new \/ (i \in DOMAIN statusQ /\ statusQ'[i] = statusQ[i])
      BY <1>1, <2>4, <3>1 DEF Report
    <3>3. ASSUME NEW i \in DOMAIN statusQ' PROVE ResultFits(statusQ[i])'
      BY <2>4, <3>2, <2>1, <1>2, <3>3 DEF ResultFits
    <3> QED BY <2>2, <3>3 DEF ResultsFit
  <2> QED BY <1>4, <2>3, <2>4 DEF TransferStep
<1>5. CASE HandleStatus
  <2>1. /\ Tail(statusQ) \in Seq(Status) /\ Head(statusQ) = statusQ[1] /\ 1 \in DOMAIN statusQ
        /\ \A i \in DOMAIN Tail(statusQ) : i + 1 \in DOMAIN statusQ /\ Tail(statusQ)[i] = statusQ[i + 1]
    BY <1>1, <1>5, Shifted DEF HandleStatus
  <2>2. Head(statusQ) \in Status /\ ResultFits(Head(statusQ))
    BY <2>1, <1>2
  <2>3. \A j \in DOMAIN recent' : recent'[j] = Head(statusQ) \/ \E i \in DOMAIN recent : recent'[j] = recent[i]
    BY <1>1, <1>5, <2>2, RecordedList DEF HandleStatus, RecvInv, RecvTypeOK, ListedOnce
  <2>4. ASSUME NEW j \in DOMAIN recent' PROVE ResultFits(recent[j])'
    <3>1. ResultFits(recent'[j])
      BY <2>2, <2>3, <1>3
    <3> QED BY <3>1, <1>5 DEF HandleStatus, ResultFits, Result
  <2>5. ASSUME NEW i \in DOMAIN statusQ' PROVE ResultFits(statusQ[i])'
    <3>1. ResultFits(statusQ'[i])
      BY <2>1, <2>5, <1>2, <1>5 DEF HandleStatus
    <3> QED BY <3>1, <1>5 DEF HandleStatus, ResultFits, Result
  <2> QED BY <2>4, <2>5 DEF ResultsFit
<1>6. CASE FolderStep
  BY <1>6 DEF FolderStep, RecvInv, ResultsFit, ResultFits
<1>7. CASE Restart
  BY <1>7 DEF Restart, ResultsFit
<1> QED BY <1>4, <1>5, <1>6, <1>7, StepKind

-----------------------------------------------------------------------------
\* The order of the announcements.

LEMMA OrderStep == RecvInv /\ [RecvNext]_recvVars => ResultsAreLast' /\ ListedOnce'
<1> SUFFICES ASSUME RecvInv, [RecvNext]_recvVars
             PROVE  ResultsAreLast' /\ ListedOnce'
  OBVIOUS
<1>1. statusQ \in Seq(Status) /\ recent \in Seq(Status)
  BY DEF RecvInv, RecvTypeOK
<1>2. ASSUME NEW t \in Transfer, TransferStep(t) PROVE ResultsAreLast' /\ ListedOnce'
  <2>1. CASE UNCHANGED statusQ
    BY <1>2, <2>1 DEF TransferStep, RecvInv, ResultsAreLast, ListedOnce
  <2>2. ASSUME NEW state \in {"receiving", "completed", "failed"}, Report(t, state)
        PROVE  ResultsAreLast'
    <3> DEFINE new == [id |-> t, state |-> state]
    <3>1. new \in Status /\ new.id = t
      BY DEF Status
    <3> HIDE DEF new
    <3>2. /\ DOMAIN statusQ = 1 .. Len(statusQ) /\ Len(statusQ) \in Nat
          /\ DOMAIN statusQ' = 1 .. Len(statusQ) + 1
          /\ \A i \in DOMAIN statusQ : statusQ'[i] = statusQ[i]
          /\ statusQ'[Len(statusQ) + 1] = new
      BY <1>1, <2>2, <3>1, Appended DEF Report, new
    <3>3. \A i \in DOMAIN statusQ : Result(statusQ[i]) => statusQ[i].id # t
      BY <1>2, <1>1 DEF RecvInv, ResultsFit, ResultFits, TransferStep
    <3>4. \A i \in DOMAIN recent : Result(recent[i]) => recent[i].id # t
      BY <1>2, <1>1 DEF RecvInv, ResultsFit, ResultFits, TransferStep
    <3>5. ASSUME NEW i \in DOMAIN statusQ', NEW j \in DOMAIN statusQ', i < j,
                 Result(statusQ'[i])
          PROVE  statusQ'[j].id # statusQ'[i].id
      <4>1. i \in DOMAIN statusQ /\ statusQ'[i] = statusQ[i]
        BY <3>2, <3>5
      <4>2. CASE j \in DOMAIN statusQ
        BY <4>1, <4>2, <3>2, <3>5 DEF RecvInv, ResultsAreLast
      <4>3. CASE j = Len(statusQ) + 1
        BY <4>1, <4>3, <3>1, <3>2, <3>3, <3>5
      <4> QED BY <4>2, <4>3, <3>2
    <3>6. ASSUME NEW i \in DOMAIN recent', NEW j \in DOMAIN statusQ', Result(recent'[i])
          PROVE  statusQ'[j].id # recent'[i].id
      <4>1. recent' = recent
        BY <1>2 DEF TransferStep
      <4>2. CASE j \in DOMAIN statusQ
        BY <4>1, <4>2, <3>2, <3>6 DEF RecvInv, ResultsAreLast
      <4>3. CASE j = Len(statusQ) + 1
        BY <4>1, <4>3, <3>1, <3>2, <3>4, <3>6
      <4> QED BY <4>2, <4>3, <3>2
    <3> QED BY <3>5, <3>6 DEF ResultsAreLast, Result
  <2>3. ListedOnce'
    BY <1>2 DEF TransferStep, RecvInv, ListedOnce
  <2> QED BY <1>2, <2>1, <2>2, <2>3 DEF TransferStep
<1>3. CASE HandleStatus
  <2> DEFINE s == Head(statusQ)
  <2>1. /\ Tail(statusQ) \in Seq(Status) /\ s = statusQ[1] /\ 1 \in DOMAIN statusQ
        /\ \A i \in DOMAIN Tail(statusQ) : i + 1 \in DOMAIN statusQ /\ i \in Nat \ {0}
                                          /\ Tail(statusQ)[i] = statusQ[i + 1]
    BY <1>1, <1>3, Shifted DEF HandleStatus
  <2>2. s \in Status
    BY <1>1, <2>1
  <2> HIDE DEF s
  <2>3. /\ \A j \in DOMAIN recent' : recent'[j] = s \/ \E i \in DOMAIN recent : recent'[j] = recent[i]
        /\ \A i, j \in DOMAIN recent' : recent'[i].id = recent'[j].id => i = j
    BY <1>1, <1>3, <2>2, RecordedList DEF HandleStatus, RecvInv, RecvTypeOK, ListedOnce, s
  <2>4. statusQ' = Tail(statusQ)
    BY <1>3 DEF HandleStatus
  <2>5. ASSUME NEW i \in DOMAIN statusQ', NEW j \in DOMAIN statusQ', i < j,
               Result(statusQ'[i])
        PROVE  statusQ'[j].id # statusQ'[i].id
    <3>1. i + 1 \in DOMAIN statusQ /\ j + 1 \in DOMAIN statusQ /\ i + 1 < j + 1
      BY <2>1, <2>4, <2>5
    <3>2. statusQ'[i] = statusQ[i + 1] /\ statusQ'[j] = statusQ[j + 1]
      BY <2>1, <2>4
    <3> QED BY <3>1, <3>2, <2>5 DEF RecvInv, ResultsAreLast
  <2>6. ASSUME NEW i \in DOMAIN recent', NEW j \in DOMAIN statusQ', Result(recent'[i])
        PROVE  statusQ'[j].id # recent'[i].id
    <3>1. j + 1 \in DOMAIN statusQ /\ 1 < j + 1 /\ statusQ'[j] = statusQ[j + 1]
      BY <2>1, <2>4
    <3>2. CASE recent'[i] = s
      BY <3>1, <3>2, <2>1, <2>6 DEF RecvInv, ResultsAreLast
    <3>3. CASE \E k \in DOMAIN recent : recent'[i] = recent[k]
      BY <3>1, <3>3, <2>6 DEF RecvInv, ResultsAreLast
    <3> QED BY <3>2, <3>3, <2>3
  <2> QED BY <2>3, <2>5, <2>6 DEF ResultsAreLast, ListedOnce, Result
<1>4. CASE FolderStep
  BY <1>4 DEF FolderStep, RecvInv, ResultsAreLast, ListedOnce
<1>5. CASE Restart
  BY <1>5 DEF Restart, ResultsAreLast, ListedOnce
<1> QED BY <1>2, <1>3, <1>4, <1>5, StepKind

-----------------------------------------------------------------------------
\* The theorems.

LEMMA InitInv == RecvInit => RecvInv
<1> SUFFICES ASSUME RecvInit PROVE RecvInv
  OBVIOUS
<1>1. ResultsFit /\ ResultsAreLast /\ ListedOnce
  BY DEF RecvInit, ResultsFit, ResultsAreLast, ListedOnce
<1> QED BY <1>1, TypeInit, FilesInit DEF RecvInv

\* What is known of the phases, the files, the announcements and the list
\* holds in every reachable state.
THEOREM RecvInductive == RecvSpec => []RecvInv
<1>1. RecvInv /\ [RecvNext]_recvVars => RecvInv'
  BY TypeStep, FilesStep, ResultsFitStep, OrderStep DEF RecvInv
<1> QED BY <1>1, InitInv, PTL DEF RecvSpec

\* Every reachable state of the incoming transfers is well typed; in
\* particular the list of recent transfers keeps to its bound.
THEOREM RecvTypeCorrect == RecvSpec => []RecvTypeOK
<1>1. RecvInv => RecvTypeOK
  BY DEF RecvInv
<1> QED BY <1>1, RecvInductive, PTL

\* No file is published before it is complete, at whatever point the phone,
\* the network, the disk or a restart cuts its transfer off.
THEOREM WholeFiles == RecvSpec => []PublishedIsWhole
<1>1. RecvInv => PublishedIsWhole
  BY DEF RecvInv, FilesFit, PhaseFits, PublishedIsWhole
<1> QED BY <1>1, RecvInductive, PTL

\* No failure leaves a temporary file.
THEOREM NoTempLeft == RecvSpec => []TempOnlyWhileActive
<1>1. RecvInv => TempOnlyWhileActive
  BY DEF RecvInv, RecvTypeOK, FilesFit, PhaseFits, TempOnlyWhileActive, Active
<1> QED BY <1>1, RecvInductive, PTL

\* What the list of recent transfers says of a transfer's result is true.
THEOREM TrueResults == RecvSpec => []ListedResultIsTrue
<1>1. RecvInv => ListedResultIsTrue
  BY DEF RecvInv, ResultsFit, ResultFits, ListedResultIsTrue
<1> QED BY <1>1, RecvInductive, PTL

\* No progress and no second result follows a result that is listed.
THEOREM FinalResults == RecvSpec => ResultIsFinal
<1> DEFINE Final ==
      \A i \in DOMAIN recent, j \in DOMAIN recent' :
          recent[i].id = recent'[j].id /\ recent[i].state # "receiving"
              => recent'[j] = recent[i]
<1>1. RecvInv /\ [RecvNext]_recvVars => Final
  <2> SUFFICES ASSUME RecvInv, [RecvNext]_recvVars,
                      NEW i \in DOMAIN recent, NEW j \in DOMAIN recent',
                      recent[i].id = recent'[j].id, recent[i].state # "receiving"
               PROVE  recent'[j] = recent[i]
    OBVIOUS
  <2>1. CASE UNCHANGED recent
    BY <2>1 DEF RecvInv, ListedOnce
  <2>2. CASE HandleStatus
    <3>1. statusQ \in Seq(Status) /\ recent \in Seq(Status) /\ statusQ # <<>>
      BY <2>2 DEF HandleStatus, RecvInv, RecvTypeOK
    <3>2. Head(statusQ) \in Status /\ Head(statusQ) = statusQ[1] /\ 1 \in DOMAIN statusQ
      BY <3>1
    <3>3. recent'[j] = Head(statusQ) \/ \E k \in DOMAIN recent : recent'[j] = recent[k]
      BY <3>1, <3>2, <2>2, RecordedList DEF HandleStatus, RecvInv, RecvTypeOK, ListedOnce
    <3>4. recent'[j] # Head(statusQ)
      BY <3>2 DEF RecvInv, ResultsAreLast, Result
    <3> QED BY <3>3, <3>4 DEF RecvInv, ListedOnce
  <2>3. CASE Restart
    BY <2>3 DEF Restart
  <2> QED BY <2>1, <2>2, <2>3, StepKind DEF TransferStep, FolderStep
<1>2. RecvInv /\ [RecvNext]_recvVars => [Final]_recvVars
  BY <1>1
<1> QED BY <1>2, RecvInductive, PTL DEF RecvSpec, ResultIsFinal

\* Nothing in Downloads is replaced, whoever else puts files there.
THEOREM NoOverwriting == RecvSpec => NothingIsOverwritten
<1> DEFINE Kept ==
      \A d \in Destination :
          d.dir = "Downloads" /\ folder[d] # Free => folder'[d] \in {folder[d], Free}
<1>1. RecvInv /\ [RecvNext]_recvVars => Kept
  <2> SUFFICES ASSUME RecvInv, [RecvNext]_recvVars,
                      NEW d \in Destination, d.dir = "Downloads", folder[d] # Free
               PROVE  folder'[d] \in {folder[d], Free}
    OBVIOUS
  <2>1. folder \in [Destination -> Transfer \cup {Free, User}]
    BY DEF RecvInv, RecvTypeOK
  <2>2. ASSUME NEW t \in Transfer, Finish(t), ~ UNCHANGED folder
        PROVE  folder'[d] = folder[d]
    <3>1. Target(t) # d
      BY <2>2 DEF Finish, Fail, Target
    <3>2. folder' = [folder EXCEPT ![Target(t)] = t]
      BY <2>2 DEF Finish, Publish, Fail
    <3> QED BY <2>1, <3>1, <3>2
  <2>3. ASSUME NEW e \in Destination, UserPuts(e) \/ UserTakes(e)
        PROVE  folder'[d] \in {folder[d], Free}
    BY <2>1, <2>3 DEF UserPuts, UserTakes
  <2>4. \/ UNCHANGED folder
        \/ \E t \in Transfer : Finish(t)
        \/ \E e \in Destination : UserPuts(e) \/ UserTakes(e)
    BY DEF RecvNext, PhoneStep, OwnStep, Dispatch, Prepare, Connect, Handshake, Read,
           ReadEnds, GivesUp, Finalize, Complete, Fail, HandleStatus, Restart, recvVars
  <2> QED BY <2>2, <2>3, <2>4
<1>2. RecvInv /\ [RecvNext]_recvVars => [Kept]_recvVars
  BY <1>1
<1> QED BY <1>2, RecvInductive, PTL DEF RecvSpec, NothingIsOverwritten
=============================================================================
