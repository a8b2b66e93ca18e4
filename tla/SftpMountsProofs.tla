-------------------------- MODULE SftpMountsProofs --------------------------
(***************************************************************************)
(* Theorems about SftpMounts, for any devices, names, tasks and bound.     *)
(***************************************************************************)
EXTENDS SftpMounts, TLAPS

-----------------------------------------------------------------------------
(***************************************************************************)
(* The inductive invariant.                                                *)
(***************************************************************************)

\* The task has its device's lock.
Inside(k) == task[k].stage \notin {"idle", "waiting"}

\* A mount point, a registered one and a task's alike, bears the name of each
\* device mounted, registered or at work there.
NamesFit ==
    /\ \A p \in Point : \A i \in DOMAIN table[p] : name[table[p][i]] = p.name
    /\ \A d \in Device : registered[d] # NoPoint => registered[d].name = name[d]
    /\ \A k \in Task : Inside(k) =>
          /\ task[k].point \in Point
          /\ task[k].point.name = name[task[k].dev]
    /\ \A h \in left : h.point.name = name[h.dev]

HasShare(d, p) == \E i \in DOMAIN table[p] : table[p][i] = d

\* Where a task has found nothing mounted, its own share has not come since,
\* unless a command that was left has mounted it.
OwnIsAway ==
    \A k \in Task :
        FoundNone(k) /\ ~task[k].crossed => ~HasShare(task[k].dev, task[k].point)

MountIndInv == MountTypeOK /\ LockIsHeld /\ NamesFit /\ OwnIsAway

-----------------------------------------------------------------------------
(***************************************************************************)
(* What a step can do.                                                     *)
(***************************************************************************)

Popped == \E p \in Point : Retire(p)

\* The task of a browse mounts its device's share.
Pushed(k) ==
    /\ Is(k, {"browse"}, "made")
    /\ Push(task[k].point, task[k].dev)

Starts(k) ==
    /\ task[k] = IdleTask
    /\ \E d \in Device, kind \in {"browse", "open", "unmount"} :
          task' = [task EXCEPT ![k] = [kind |-> kind, dev |-> d, stage |-> "waiting",
                                       point |-> NoPoint, saw |-> "nothing",
                                       crossed |-> FALSE]]
    /\ UNCHANGED <<table, registered, lock>>

\* The task goes on inside its critical section.
CarriesTo(k, stage, saw, crossed) ==
    /\ Inside(k)
    /\ task' = [task EXCEPT ![k].stage = stage, ![k].saw = saw, ![k].crossed = crossed]
    /\ stage \in Looked /\ saw = "nothing" =>
          /\ UNCHANGED table \/ Popped
          /\ \/ table[task[k].point] = <<>> /\ UNCHANGED table
             \/ FoundNone(k) /\ crossed = task[k].crossed
    /\ UNCHANGED table \/ Popped \/ (Pushed(k) /\ stage = "mounted")
    /\ registered' \in {registered, [registered EXCEPT ![task[k].dev] = task[k].point]}
    /\ UNCHANGED lock

Carries(k) ==
    \E stage \in Stage \ {"idle", "waiting"}, saw \in {"nothing", "share", "unread"},
       crossed \in BOOLEAN :
        CarriesTo(k, stage, saw, crossed)

Leaves(k) ==
    /\ task[k].stage # "idle"
    /\ Ends(k)
    /\ UNCHANGED table
    /\ registered' \in {registered, [registered EXCEPT ![task[k].dev] = NoPoint]}

Outside ==
    /\ UNCHANGED table \/ Popped
    /\ \/ UNCHANGED registered
       \/ \E d \in Device : registered' = [registered EXCEPT ![d] = NoPoint]
    /\ UNCHANGED <<task, lock>>

\* A command that was left mounts its device's share.
Crosses(h) ==
    /\ Push(h.point, h.dev)
    /\ task' = [k \in Task |-> IF /\ FoundNone(k)
                                  /\ task[k].dev = h.dev
                                  /\ task[k].point = h.point
                                 THEN [task[k] EXCEPT !.crossed = TRUE]
                                 ELSE task[k]]
    /\ UNCHANGED <<registered, lock>>

Idles == UNCHANGED <<table, registered, task, lock>>

StepKind ==
    /\ legacy' \subseteq legacy
    /\ closing' \subseteq closing \cup Device
    /\ UNCHANGED name
    /\ \/ \E k \in Task : Starts(k) \/ TakeLock(k) \/ Carries(k) \/ Leaves(k)
       \/ Outside
       \/ \E h \in left : Crosses(h)
       \/ Idles
       \/ Exit

LEMMA TaskTyped ==
    ASSUME MountTypeOK, NEW k \in Task
    PROVE  /\ task[k] = [kind |-> task[k].kind, dev |-> task[k].dev,
                         stage |-> task[k].stage, point |-> task[k].point,
                         saw |-> task[k].saw, crossed |-> task[k].crossed]
           /\ task[k].crossed \in BOOLEAN
           /\ task[k].dev \in Device \cup {NoDevice}
           /\ task[k].stage \in Stage
           /\ task[k].saw \in {"nothing", "share", "unread"}
           /\ task[k].point \in PointOrNone
BY DEF MountTypeOK, TaskState

\* The steps of browse and open_mounted inside.
LEMMA BrowseKinds ==
    ASSUME MountIndInv, NEW k \in Task,
           \/ ReadTable(k) \/ Adopt(k) \/ RetireStale(k) \/ NotOpened(k) \/ MakeDir(k)
           \/ RunSshfs(k) \/ RegisterMount(k) \/ Opened(k)
    PROVE  StepKind
<1>0. MountTypeOK /\ task \in [Task -> TaskState]
  BY DEF MountIndInv, MountTypeOK
<1>1. CASE ReadTable(k)
  <2>1. PICK saw \in {"nothing", "share", "unread"} :
           /\ Reads(task[k].point, saw)
           /\ RetireLegacy(k, saw)
           /\ task' = [task EXCEPT ![k].saw = saw,
                                  ![k].crossed = FALSE,
                                  ![k].stage = IF saw = "share" THEN "listed" ELSE "clear"]
    BY <1>1 DEF ReadTable
  <2>2. PICK stage : stage = IF saw = "share" THEN "listed" ELSE "clear"
    OBVIOUS
  <2>3. stage \in Stage \ {"idle", "waiting"}
    BY <2>2 DEF Stage
  <2>4. task' = [task EXCEPT ![k].stage = stage, ![k].saw = saw, ![k].crossed = FALSE]
    BY <1>0, <2>1, <2>2 DEF TaskState
  <2>5. saw = "nothing" => table[task[k].point] = <<>>
    BY <2>1 DEF Reads
  <2>6. CarriesTo(k, stage, saw, FALSE)
    BY <1>1, <2>2, <2>4, <2>5 DEF CarriesTo, ReadTable, Inside
  <2>7. legacy' \subseteq legacy
    BY <2>1 DEF RetireLegacy
  <2>. QED BY <1>1, <2>3, <2>6, <2>7 DEF ReadTable, StepKind, Carries
<1>2. CASE Adopt(k) \/ RegisterMount(k)
  <2>1. CarriesTo(k, "opening", "nothing", FALSE)
    BY <1>2 DEF Adopt, RegisterMount, Settles, Is, CarriesTo, Inside, Looked, hostVars
  <2>. QED BY <1>2, <2>1 DEF Adopt, RegisterMount, hostVars, StepKind, Carries, Stage
<1>3. CASE RetireStale(k)
  <2>1. task[k].point \in Point
    BY <1>3 DEF MountIndInv, NamesFit, RetireStale, Is, Inside
  <2>2. task' = [task EXCEPT ![k].stage = "dead", ![k].saw = task[k].saw,
                             ![k].crossed = task[k].crossed]
    BY <1>0, <1>3, TaskTyped DEF RetireStale, Goes
  <2>3. CarriesTo(k, "dead", task[k].saw, task[k].crossed)
    BY <1>0, <1>3, <2>1, <2>2
       DEF RetireStale, FailsToUnmount, Is, CarriesTo, Inside, FoundNone, Looked, Popped
  <2>. QED BY <1>0, <1>3, <2>3, TaskTyped DEF RetireStale, StepKind, Carries, Stage
<1>4. CASE NotOpened(k) \/ Opened(k)
  <2>1. Leaves(k)
    BY <1>4 DEF NotOpened, Opened, Is, Leaves, hostVars
  <2>. QED BY <1>4, <2>1 DEF NotOpened, Opened, hostVars, StepKind
<1>5. CASE MakeDir(k)
  <2>1. CASE Goes(k, "made") /\ UNCHANGED lock
    <3>1. task' = [task EXCEPT ![k].stage = "made", ![k].saw = task[k].saw,
                               ![k].crossed = task[k].crossed]
      BY <1>0, <2>1, TaskTyped DEF Goes
    <3>2. CarriesTo(k, "made", task[k].saw, task[k].crossed)
      BY <1>0, <1>5, <2>1, <3>1
         DEF MakeDir, Is, CarriesTo, Inside, FoundNone, Looked, hostVars
    <3>. QED BY <1>0, <1>5, <3>2, TaskTyped DEF MakeDir, hostVars, StepKind, Carries, Stage
  <2>2. CASE Ends(k)
    <3>1. Leaves(k)
      BY <1>5, <2>2 DEF MakeDir, Is, Leaves, hostVars
    <3>. QED BY <1>5, <3>1 DEF MakeDir, hostVars, StepKind
  <2>. QED BY <1>5, <2>1, <2>2 DEF MakeDir
<1>6. CASE RunSshfs(k)
  <2>1. CASE Push(task[k].point, task[k].dev) /\ Settles(k, "mounted") /\ UNCHANGED lock
    <3>1. CarriesTo(k, "mounted", "nothing", FALSE)
      BY <1>6, <2>1 DEF RunSshfs, Settles, Is, CarriesTo, Inside, Looked, Pushed
    <3>. QED BY <1>6, <3>1 DEF RunSshfs, StepKind, Carries, Stage
  <2>2. CASE Ends(k) /\ UNCHANGED table
    <3>1. Leaves(k)
      BY <1>6, <2>2 DEF RunSshfs, Is, Leaves
    <3>. QED BY <1>6, <3>1 DEF RunSshfs, StepKind
  <2>. QED BY <1>6, <2>1, <2>2 DEF RunSshfs
<1>. QED BY <1>1, <1>2, <1>3, <1>4, <1>5, <1>6

\* The steps of unmount, and what any task does outside.
LEMMA OtherTaskKinds ==
    ASSUME MountIndInv, NEW k \in Task,
           \/ Refused(k) \/ TakeLock(k) \/ LegacyStays(k) \/ Unmount(k) \/ UnregisterMount(k)
    PROVE  StepKind
<1>0. MountTypeOK /\ task \in [Task -> TaskState]
  BY DEF MountIndInv, MountTypeOK
<1>1. CASE Refused(k) \/ LegacyStays(k)
  <2>1. Leaves(k)
    BY <1>1 DEF Refused, LegacyStays, Is, Leaves, hostVars
  <2>. QED BY <1>1, <2>1 DEF Refused, LegacyStays, hostVars, StepKind
<1>2. CASE TakeLock(k)
  BY <1>2 DEF TakeLock, hostVars, StepKind
<1>3. CASE Unmount(k)
  <2>0. task[k].point \in Point
    BY <1>3 DEF MountIndInv, NamesFit, Unmount, Is, Inside
  <2>1. CASE Retire(task[k].point) /\ Settles(k, "retired") /\ UNCHANGED lock
    <3>1. CarriesTo(k, "retired", "nothing", FALSE)
      BY <1>3, <2>0, <2>1 DEF Unmount, Settles, Is, CarriesTo, Inside, Looked, Popped
    <3>. QED BY <1>3, <3>1 DEF Unmount, StepKind, Carries, Stage
  <2>2. CASE UNCHANGED table /\ Ends(k)
    <3>1. Leaves(k)
      BY <1>3, <2>2 DEF Unmount, Is, Leaves
    <3>. QED BY <1>3, <3>1 DEF Unmount, StepKind
  <2>. QED BY <1>3, <2>1, <2>2 DEF Unmount, FailsToUnmount
<1>4. CASE UnregisterMount(k)
  <2>1. Leaves(k)
    BY <1>4 DEF UnregisterMount, Is, Leaves, hostVars
  <2>. QED BY <1>4, <2>1 DEF UnregisterMount, hostVars, StepKind
<1>. QED BY <1>1, <1>2, <1>3, <1>4

\* Every step is of one of these kinds.
LEMMA Kinds == MountIndInv /\ [MountNext]_mountVars => StepKind
<1> SUFFICES ASSUME MountIndInv, [MountNext]_mountVars PROVE StepKind
  OBVIOUS
<1>0. registered \in [Device -> PointOrNone]
  BY DEF MountIndInv, MountTypeOK
<1>1. ASSUME NEW k \in Task, NEW d \in Device,
             \/ SftpPacket(k, d) \/ BrowseDevice(k, d)
             \/ UnmountDevice(k, d) \/ AutoUnmount(k, d)
      PROVE  StepKind
  <2>1. PICK kind \in {"browse", "open", "unmount"} : Start(k, kind, d)
    BY <1>1 DEF SftpPacket, BrowseDevice, UnmountDevice, AutoUnmount
  <2>2. Starts(k)
    BY <2>1 DEF Start, Starts, hostVars
  <2>. QED BY <2>1, <2>2 DEF Start, hostVars, StepKind
<1>2. ASSUME NEW k \in Task, TaskStep(k) PROVE StepKind
  BY <1>2, BrowseKinds, OtherTaskKinds DEF TaskStep
<1>3. ASSUME NEW p \in Point, Eject(p) PROVE StepKind
  BY <1>3 DEF Eject, StepKind, Outside, Idles, Popped
<1>8. ASSUME NEW d \in Device, EjectLegacy(d) PROVE StepKind
  BY <1>8 DEF EjectLegacy, StepKind, Idles
<1>9. ASSUME NEW h \in left, HelperEnds(h) PROVE StepKind
  <2>1. h.point \in Point
    BY DEF MountIndInv, MountTypeOK, Helper
  <2>2. CASE UNCHANGED <<table, task>>
    BY <1>9, <2>2 DEF HelperEnds, StepKind, Idles
  <2>3. CASE Retire(h.point) /\ UNCHANGED task
    BY <1>9, <2>1, <2>3 DEF HelperEnds, StepKind, Outside, Popped
  <2>4. CASE ~UNCHANGED <<table, task>> /\ ~(Retire(h.point) /\ UNCHANGED task)
    <3>1. Crosses(h)
      BY <1>9, <2>4 DEF HelperEnds, Crosses
    <3>. QED BY <1>9, <3>1 DEF HelperEnds, StepKind
  <2>. QED BY <2>2, <2>3, <2>4
<1>4. CASE UnmountAll
  BY <1>4 DEF UnmountAll, hostVars, StepKind, Idles
<1>5. ASSUME NEW d \in Device, UnmountOne(d) PROVE StepKind
  <2>1. Popped \/ UNCHANGED table
    BY <1>0, <1>5 DEF UnmountOne, Popped, PointOrNone
  <2>2. Outside
    BY <1>5, <2>1 DEF UnmountOne, Outside
  <2>. QED BY <1>5, <2>2 DEF UnmountOne, StepKind
<1>6. CASE Exit
  BY <1>6 DEF Exit, StepKind
<1>7. CASE UNCHANGED mountVars
  BY <1>7 DEF mountVars, StepKind, Idles
<1>. QED BY <1>1, <1>2, <1>3, <1>4, <1>5, <1>6, <1>7, <1>8, <1>9 DEF MountNext

\* A task at work has a device.
LEMMA TaskDevice ==
    ASSUME MountTypeOK, LockIsHeld, NEW k \in Task, task[k].stage # "idle"
    PROVE  task[k].dev \in Device
BY TaskTyped DEF LockIsHeld

\* The commands that are left were started at their devices' mount points.
LeftFits == left \in SUBSET Helper /\ \A h \in left : h.point.name = name[h.dev]

LEMMA HelperFits ==
    ASSUME MountIndInv, NEW k \in Task, Inside(k), NEW does \in {"mount", "unmount"}
    PROVE  /\ HelperOf(k, does) \in Helper
           /\ HelperOf(k, does).point.name = name[HelperOf(k, does).dev]
<1>1. task[k].dev \in Device
  BY TaskDevice DEF MountIndInv, Inside
<1>2. task[k].point \in Point /\ task[k].point.name = name[task[k].dev]
  BY DEF MountIndInv, NamesFit
<1>. QED BY <1>1, <1>2 DEF HelperOf, Helper

LEMMA ClosingFits ==
    ASSUME MountIndInv, NEW h \in ClosingHelpers
    PROVE  h \in Helper /\ h.point.name = name[h.dev]
BY DEF ClosingHelpers, MountIndInv, NamesFit, Helper

LEMMA LeftStep == MountIndInv /\ [MountNext]_mountVars => LeftFits'
<1> SUFFICES ASSUME MountIndInv, [MountNext]_mountVars PROVE LeftFits'
  OBVIOUS
<1>0. LeftFits /\ name' = name
  <2>1. name' = name
    BY Kinds DEF StepKind
  <2>. QED BY <2>1 DEF MountIndInv, MountTypeOK, NamesFit, LeftFits
<1>1. CASE left' \subseteq left
  BY <1>0, <1>1 DEF LeftFits
<1>2. ASSUME NEW helpers, LeavesBehind(helpers),
             \A h \in helpers : h \in Helper /\ h.point.name = name[h.dev]
      PROVE  LeftFits'
  BY <1>0, <1>2 DEF LeftFits, LeavesBehind
<1>3. ASSUME NEW k \in Task, RetireStale(k) \/ Unmount(k) PROVE LeftFits'
  <2>1. Inside(k)
    BY <1>3 DEF RetireStale, Unmount, Is, Inside
  <2>. QED BY <1>1, <1>2, <1>3, <2>1, HelperFits DEF RetireStale, Unmount, FailsToUnmount
<1>4. ASSUME NEW k \in Task, RunSshfs(k) PROVE LeftFits'
  <2>1. Inside(k)
    BY <1>4 DEF RunSshfs, Is, Inside
  <2>. QED BY <1>1, <1>2, <1>4, <2>1, HelperFits DEF RunSshfs
<1>5. ASSUME NEW d \in Device, UnmountOne(d) PROVE LeftFits'
  BY <1>1, <1>2, <1>5, ClosingFits DEF UnmountOne
<1>6. CASE Exit
  <2>1. PICK helpers \in SUBSET Running : LeavesBehind(helpers)
    BY <1>6 DEF Exit
  <2>2. \A h \in Running : h \in Helper /\ h.point.name = name[h.dev]
    BY HelperFits, ClosingFits DEF Running, Is, Inside
  <2>. QED BY <1>2, <2>1, <2>2
<1>7. ASSUME NEW h \in left, HelperEnds(h) PROVE LeftFits'
  BY <1>1, <1>7 DEF HelperEnds
<1>8. ASSUME NEW k \in Task, NEW d \in Device,
             \/ SftpPacket(k, d) \/ BrowseDevice(k, d)
             \/ UnmountDevice(k, d) \/ AutoUnmount(k, d)
      PROVE  LeftFits'
  BY <1>1, <1>8 DEF SftpPacket, BrowseDevice, UnmountDevice, AutoUnmount, Start
<1>9. ASSUME NEW k \in Task, TaskStep(k) PROVE LeftFits'
  <2>1. CASE Refused(k) \/ TakeLock(k) \/ ReadTable(k) \/ LegacyStays(k) \/ Adopt(k)
    BY <1>1, <2>1 DEF Refused, TakeLock, ReadTable, LegacyStays, Adopt
  <2>2. CASE NotOpened(k) \/ MakeDir(k) \/ RegisterMount(k) \/ Opened(k) \/ UnregisterMount(k)
    BY <1>1, <2>2 DEF NotOpened, MakeDir, RegisterMount, Opened, UnregisterMount
  <2>. QED BY <1>3, <1>4, <1>9, <2>1, <2>2 DEF TaskStep
<1>10. CASE \/ \E p \in Point : Eject(p)
            \/ \E d \in Device : EjectLegacy(d)
            \/ UnmountAll
            \/ UNCHANGED mountVars
  BY <1>1, <1>10 DEF Eject, EjectLegacy, UnmountAll, mountVars
<1>. QED BY <1>5, <1>6, <1>7, <1>8, <1>9, <1>10 DEF MountNext

-----------------------------------------------------------------------------
(***************************************************************************)
(* The step preserves each part.                                           *)
(***************************************************************************)

\* A device's mount point is one, and bears its name.
LEMMA PointForFits ==
    ASSUME MountTypeOK, NamesFit, NEW d \in Device
    PROVE  PointFor(d) \in Point /\ PointFor(d).name = name[d]
<1>1. name[d] \in Name /\ registered[d] \in Point \cup {NoPoint}
  BY DEF MountTypeOK, PointOrNone
<1>2. CASE registered[d] # NoPoint
  BY <1>1, <1>2 DEF PointFor, NamesFit
<1>3. ASSUME NEW i \in {d, NoDevice}
      PROVE  /\ [name |-> name[d], id |-> i] \in Point
             /\ [name |-> name[d], id |-> i].name = name[d]
  BY <1>1 DEF Point
<1>4. CASE registered[d] = NoPoint /\ \E e \in Device \ {d} : registered[e] = Plain(d)
  <2>1. PointFor(d) = [name |-> name[d], id |-> d]
    BY <1>4 DEF PointFor
  <2>. QED BY <1>3, <2>1
<1>5. CASE registered[d] = NoPoint /\ ~\E e \in Device \ {d} : registered[e] = Plain(d)
  <2>1. PointFor(d) = Plain(d)
    BY <1>5 DEF PointFor
  <2>. QED BY <1>3, <2>1 DEF Plain
<1>. QED BY <1>2, <1>4, <1>5

LEMMA TypeStep == MountIndInv /\ StepKind /\ LeftFits' => MountTypeOK'
<1> SUFFICES ASSUME MountIndInv, StepKind, LeftFits' PROVE MountTypeOK'
  OBVIOUS
<1>0. MountTypeOK /\ LockIsHeld
  BY DEF MountIndInv
<1>1. /\ name' \in [Device -> Name]
      /\ legacy' \in SUBSET Device
      /\ closing' \in SUBSET Device
  BY <1>0 DEF MountTypeOK, StepKind
<1> SUFFICES /\ table' \in [Point -> Seq(Device)]
             /\ registered' \in [Device -> PointOrNone]
             /\ lock' \in [Device -> Task \cup {NoTask}]
             /\ task' \in [Task -> TaskState]
  BY <1>1 DEF MountTypeOK, LeftFits
<1>2. Popped => table' \in [Point -> Seq(Device)]
  BY <1>0 DEF Popped, Retire, Pop, Front, MountTypeOK
<1>3. ASSUME NEW k \in Task, Pushed(k) PROVE table' \in [Point -> Seq(Device)]
  <2>1. task[k].dev \in Device /\ task[k].point \in Point
    BY <1>0, <1>3, TaskDevice DEF MountIndInv, NamesFit, Inside, Pushed, Is
  <2>. QED BY <1>0, <1>3, <2>1 DEF Pushed, Push, MountTypeOK
<1>4. ASSUME NEW k \in Task, Ends(k)
      PROVE  lock' \in [Device -> Task \cup {NoTask}] /\ task' \in [Task -> TaskState]
  <2>1. IdleTask \in TaskState
    BY DEF IdleTask, TaskState, Stage, PointOrNone
  <2>. QED BY <1>0, <1>4, <2>1 DEF Ends, MountTypeOK
<1>5. ASSUME NEW k \in Task, Starts(k)
      PROVE  task' \in [Task -> TaskState]
  BY <1>0, <1>5 DEF Starts, MountTypeOK, TaskState, Stage, PointOrNone
<1>6. ASSUME NEW k \in Task, TakeLock(k)
      PROVE  task' \in [Task -> TaskState] /\ lock' \in [Device -> Task \cup {NoTask}]
  <2>1. task[k].dev \in Device
    BY <1>0, <1>6, TaskDevice DEF TakeLock
  <2>2. PointFor(task[k].dev) \in PointOrNone
    BY <1>0, <2>1, PointForFits DEF MountIndInv, PointOrNone
  <2>3. "chosen" \in Stage
    BY DEF Stage
  <2>4. task \in [Task -> TaskState]
    BY <1>0 DEF MountTypeOK
  <2>5. task' \in [Task -> TaskState]
    BY <1>6, <2>2, <2>3, <2>4 DEF TakeLock, TaskState
  <2>. QED BY <1>0, <1>6, <2>5 DEF TakeLock, MountTypeOK
<1>7. ASSUME NEW k \in Task, Carries(k) PROVE task' \in [Task -> TaskState]
  <2>1. PICK stage \in Stage, saw \in {"nothing", "share", "unread"}, crossed \in BOOLEAN :
           task' = [task EXCEPT ![k].stage = stage, ![k].saw = saw, ![k].crossed = crossed]
    BY <1>7 DEF Carries, CarriesTo
  <2>2. task \in [Task -> TaskState]
    BY <1>0 DEF MountTypeOK
  <2>3. [[[task[k] EXCEPT !.stage = stage] EXCEPT !.saw = saw] EXCEPT !.crossed = crossed]
           \in TaskState
    BY <2>2 DEF TaskState
  <2>4. task' = [task EXCEPT ![k] =
                    [[[@ EXCEPT !.stage = stage] EXCEPT !.saw = saw] EXCEPT !.crossed = crossed]]
    BY <2>1, <2>2 DEF TaskState
  <2>. QED BY <2>2, <2>3, <2>4
<1>8. ASSUME NEW k \in Task, Carries(k) \/ Leaves(k)
      PROVE  registered' \in [Device -> PointOrNone]
  <2>1. task[k].point \in PointOrNone /\ NoPoint \in PointOrNone
    BY <1>0, TaskTyped DEF PointOrNone
  <2>. QED BY <1>0, <1>8, <2>1 DEF Carries, CarriesTo, Leaves, MountTypeOK
<1>9. CASE Outside
  BY <1>0, <1>2, <1>9 DEF Outside, MountTypeOK, PointOrNone
<1>10. CASE Exit
  <2>1. IdleTask \in TaskState
    BY DEF IdleTask, TaskState, Stage, PointOrNone
  <2>. QED
    BY <1>0, <1>10, <2>1
       DEF Exit, NothingRegistered, MountTypeOK, PointOrNone
<1>11. CASE Idles
  BY <1>0, <1>11 DEF Idles, MountTypeOK
<1>12. ASSUME NEW k \in Task, Starts(k) \/ TakeLock(k) \/ Carries(k) \/ Leaves(k)
       PROVE  table' \in [Point -> Seq(Device)]
  BY <1>0, <1>2, <1>3, <1>12
     DEF Starts, TakeLock, hostVars, Carries, CarriesTo, Leaves, MountTypeOK
<1>13. ASSUME NEW k \in Task, Starts(k) \/ TakeLock(k) \/ Carries(k) \/ Leaves(k)
       PROVE  /\ registered' \in [Device -> PointOrNone]
              /\ lock' \in [Device -> Task \cup {NoTask}]
              /\ task' \in [Task -> TaskState]
  <2>1. CASE Starts(k)
    BY <1>0, <1>5, <2>1 DEF Starts, MountTypeOK
  <2>2. CASE TakeLock(k)
    BY <1>0, <1>6, <2>2 DEF TakeLock, MountTypeOK
  <2>3. CASE Carries(k)
    BY <1>0, <1>7, <1>8, <2>3 DEF Carries, CarriesTo, MountTypeOK
  <2>4. CASE Leaves(k)
    BY <1>4, <1>8, <2>4 DEF Leaves
  <2>. QED BY <1>13, <2>1, <2>2, <2>3, <2>4
<1>14. ASSUME NEW h \in left, Crosses(h)
       PROVE  /\ table' \in [Point -> Seq(Device)]
              /\ task' \in [Task -> TaskState]
              /\ UNCHANGED <<registered, lock>>
  <2>1. h.point \in Point /\ h.dev \in Device
    BY <1>0 DEF MountTypeOK, Helper
  <2>2. table' \in [Point -> Seq(Device)]
    BY <1>0, <1>14, <2>1 DEF Crosses, Push, MountTypeOK
  <2>3. \A k \in Task : task[k] \in TaskState /\ [task[k] EXCEPT !.crossed = TRUE] \in TaskState
    BY <1>0 DEF MountTypeOK, TaskState
  <2>. QED BY <1>14, <2>2, <2>3 DEF Crosses
<1>. QED BY <1>0, <1>9, <1>10, <1>11, <1>12, <1>13, <1>14 DEF StepKind, MountTypeOK

\* A command that was left changes no task but for the mark.
LEMMA CrossesTasks ==
    ASSUME MountTypeOK, NEW h \in left, Crosses(h), NEW k \in Task
    PROVE  /\ task'[k].dev = task[k].dev /\ task'[k].point = task[k].point
           /\ task'[k].stage = task[k].stage /\ task'[k].saw = task[k].saw
           /\ FoundNone(k) /\ task[k].dev = h.dev /\ task[k].point = h.point
                 => task'[k].crossed
           /\ ~(FoundNone(k) /\ task[k].dev = h.dev /\ task[k].point = h.point)
                 => task'[k] = task[k]
<1>1. task[k] \in TaskState
  BY DEF MountTypeOK
<1>. QED BY <1>1 DEF Crosses, TaskState

\* Only its own step makes a task enter, and only over a free lock.
LEMMA LockStep == MountIndInv /\ StepKind => LockIsHeld'
<1> SUFFICES ASSUME MountIndInv, StepKind PROVE LockIsHeld'
  OBVIOUS
<1>0. /\ MountTypeOK /\ LockIsHeld
      /\ task \in [Task -> TaskState] /\ lock \in [Device -> Task \cup {NoTask}]
      /\ IdleTask.stage = "idle" /\ IdleTask.dev = NoDevice
  BY DEF MountIndInv, MountTypeOK, IdleTask
<1>1. ASSUME NEW k \in Task, Starts(k) PROVE LockIsHeld'
  <2>1. PICK d \in Device : \E t : /\ t.stage = "waiting" /\ t.dev = d
                                   /\ task' = [task EXCEPT ![k] = t]
    BY <1>1 DEF Starts
  <2>2. PICK t : /\ t.stage = "waiting" /\ t.dev = d
                 /\ task' = [task EXCEPT ![k] = t]
    BY <2>1
  <2>. QED BY <1>0, <1>1, <2>2, SftpAssumption DEF Starts, LockIsHeld
<1>2. ASSUME NEW k \in Task, TakeLock(k) PROVE LockIsHeld'
  <2>1. task[k].dev \in Device /\ lock[task[k].dev] = NoTask
    BY <1>0, <1>2, TaskDevice DEF TakeLock
  <2>2. /\ task'[k].dev = task[k].dev /\ task'[k].stage = "chosen"
        /\ \A j \in Task \ {k} : task'[j] = task[j]
        /\ lock' = [lock EXCEPT ![task[k].dev] = k]
    BY <1>0, <1>2 DEF TakeLock, TaskState
  <2>3. ASSUME NEW j \in Task, j # k, Inside(j)
        PROVE  lock'[task'[j].dev] = j
    <3>1. lock[task[j].dev] = j /\ task[j].dev \in Device
      BY <1>0, <2>3, TaskDevice DEF LockIsHeld, Inside
    <3>2. task[j].dev # task[k].dev
      BY <2>1, <3>1, SftpAssumption
    <3>. QED BY <1>0, <2>2, <2>3, <3>1, <3>2
  <2>4. lock'[task'[k].dev] = k
    BY <1>0, <2>1, <2>2
  <2>. QED BY <1>0, <2>1, <2>2, <2>3, <2>4, SftpAssumption DEF LockIsHeld, Inside
<1>3. ASSUME NEW k \in Task, Carries(k) PROVE LockIsHeld'
  <2>1. /\ task'[k].dev = task[k].dev /\ task'[k].stage # "idle"
        /\ \A j \in Task \ {k} : task'[j] = task[j]
        /\ UNCHANGED lock /\ Inside(k)
    BY <1>0, <1>3 DEF Carries, CarriesTo, TaskState
  <2>. QED BY <1>0, <2>1 DEF LockIsHeld, Inside
<1>4. ASSUME NEW k \in Task, Leaves(k) PROVE LockIsHeld'
  <2>1. /\ task'[k] = IdleTask
        /\ \A j \in Task \ {k} : task'[j] = task[j]
        /\ \A d \in Device : lock[d] # k => lock'[d] = lock[d]
    BY <1>0, <1>4 DEF Leaves, Ends
  <2>2. ASSUME NEW j \in Task \ {k}, Inside(j) PROVE lock'[task'[j].dev] = j
    BY <1>0, <2>1, <2>2, TaskDevice DEF LockIsHeld, Inside
  <2>. QED BY <1>0, <2>1, <2>2 DEF LockIsHeld, Inside
<1>5. CASE Outside \/ Idles
  BY <1>0, <1>5 DEF Outside, Idles, LockIsHeld
<1>6. CASE Exit
  <2>1. \A k \in Task : task'[k] = IdleTask
    BY <1>6 DEF Exit
  <2>. QED BY <1>0, <2>1 DEF LockIsHeld
<1>7. ASSUME NEW h \in left, Crosses(h) PROVE LockIsHeld'
  BY <1>0, <1>7, CrossesTasks DEF LockIsHeld, Crosses
<1>. QED BY <1>1, <1>2, <1>3, <1>4, <1>5, <1>6, <1>7 DEF StepKind

\* What is left at a point where nothing was mounted was there before.
LEMMA PopKeeps ==
    ASSUME MountTypeOK, UNCHANGED table \/ Popped, NEW p \in Point, NEW i \in DOMAIN table'[p]
    PROVE  i \in DOMAIN table[p] /\ table'[p][i] = table[p][i]
<1>0. table \in [Point -> Seq(Device)]
  BY DEF MountTypeOK
<1>1. CASE UNCHANGED table
  BY <1>1
<1>2. CASE Popped
  <2>1. PICK q \in Point : table[q] # <<>> /\ table' = [table EXCEPT ![q] = Front(@)]
    BY <1>2 DEF Popped, Retire, Pop
  <2>2. CASE p # q
    BY <1>0, <2>1, <2>2
  <2>3. CASE p = q
    <3>1. table'[p] = SubSeq(table[p], 1, Len(table[p]) - 1) /\ table[p] \in Seq(Device)
      BY <1>0, <2>1, <2>3 DEF Front
    <3>2. Len(table[p]) \in Nat /\ Len(table[p]) # 0
      BY <2>1, <2>3, <3>1
    <3>. QED BY <3>1, <3>2
  <2>. QED BY <2>2, <2>3
<1>. QED BY <1>1, <1>2

\* What a share is added to was there before.
LEMMA PushAdds ==
    ASSUME MountTypeOK, NEW q \in Point, NEW d \in Device, Push(q, d),
           NEW p \in Point, NEW i \in DOMAIN table'[p]
    PROVE  \/ i \in DOMAIN table[p] /\ table'[p][i] = table[p][i]
           \/ p = q /\ table'[p][i] = d
<1>0. table \in [Point -> Seq(Device)] /\ table' = [table EXCEPT ![q] = Append(@, d)]
  BY DEF MountTypeOK, Push
<1>1. CASE p # q
  BY <1>0, <1>1
<1>2. CASE p = q
  <2>1. table'[p] = Append(table[p], d) /\ table[p] \in Seq(Device)
    BY <1>0, <1>2
  <2>. QED BY <1>2, <2>1
<1>. QED BY <1>1, <1>2

LEMMA PushedAdds ==
    ASSUME MountIndInv, NEW k \in Task, Pushed(k), NEW p \in Point, NEW i \in DOMAIN table'[p]
    PROVE  \/ i \in DOMAIN table[p] /\ table'[p][i] = table[p][i]
           \/ /\ p = task[k].point
              /\ task[k].dev \in Device /\ table'[p][i] = task[k].dev
<1>1. MountTypeOK /\ task[k].dev \in Device /\ task[k].point \in Point
  BY TaskDevice DEF MountIndInv, NamesFit, Inside, Pushed, Is
<1>. QED BY <1>1, PushAdds DEF Pushed

LEMMA CrossesAdds ==
    ASSUME MountIndInv, NEW h \in left, Crosses(h), NEW p \in Point, NEW i \in DOMAIN table'[p]
    PROVE  \/ i \in DOMAIN table[p] /\ table'[p][i] = table[p][i]
           \/ p = h.point /\ table'[p][i] = h.dev
<1>1. MountTypeOK /\ h.dev \in Device /\ h.point \in Point
  BY DEF MountIndInv, MountTypeOK, Helper
<1>. QED BY <1>1, PushAdds DEF Crosses

\* What a step leaves at each point was there, or is the share of the task or the
\* command that worked there.
LEMMA TableStep ==
    ASSUME MountIndInv, StepKind, NEW p \in Point, NEW i \in DOMAIN table'[p]
    PROVE  \/ i \in DOMAIN table[p] /\ table'[p][i] = table[p][i]
           \/ \E k \in Task : /\ Pushed(k) /\ p = task[k].point
                               /\ task[k].dev \in Device /\ table'[p][i] = task[k].dev
           \/ \E h \in left : p = h.point /\ table'[p][i] = h.dev
<1>1. \/ UNCHANGED table \/ Popped
      \/ \E k \in Task : Pushed(k)
      \/ \E h \in left : Crosses(h)
  BY DEF StepKind, Starts, TakeLock, hostVars, Carries, CarriesTo, Leaves, Outside,
         Idles, Exit, Pushed
<1>. QED BY <1>1, PopKeeps, PushedAdds, CrossesAdds DEF MountIndInv

\* A task's step, seen from all tasks: inside, device and point stay.
LEMMA TaskStepFits ==
    ASSUME MountIndInv, StepKind, NEW k \in Task, Inside(k)'
    PROVE  \/ Inside(k) /\ task'[k].dev = task[k].dev /\ task'[k].point = task[k].point
           \/ /\ TakeLock(k) /\ task[k].dev \in Device
              /\ task'[k].stage = "chosen" /\ task'[k].dev = task[k].dev
              /\ task'[k].point = PointFor(task[k].dev)
<1>0. /\ MountTypeOK /\ LockIsHeld /\ task \in [Task -> TaskState]
      /\ IdleTask.stage = "idle"
  BY DEF MountIndInv, MountTypeOK, IdleTask
<1>1. ASSUME NEW j \in Task, Starts(j) PROVE Inside(k) /\ task'[k] = task[k]
  BY <1>0, <1>1 DEF Starts, Inside
<1>2. ASSUME NEW j \in Task, TakeLock(j)
      PROVE  \/ Inside(k) /\ task'[k] = task[k]
             \/ /\ k = j /\ task[k].dev \in Device
                /\ task'[k].stage = "chosen" /\ task'[k].dev = task[k].dev
                /\ task'[k].point = PointFor(task[k].dev)
  BY <1>0, <1>2, TaskDevice DEF TakeLock, Inside, TaskState
<1>3. ASSUME NEW j \in Task, Carries(j)
      PROVE  Inside(k) /\ task'[k].dev = task[k].dev /\ task'[k].point = task[k].point
  BY <1>0, <1>3 DEF Carries, CarriesTo, Inside, TaskState
<1>4. ASSUME NEW j \in Task, Leaves(j) PROVE Inside(k) /\ task'[k] = task[k]
  BY <1>0, <1>4 DEF Leaves, Ends, Inside
<1>5. CASE Outside \/ Idles
  BY <1>5 DEF Outside, Idles, Inside
<1>6. CASE Exit
  BY <1>0, <1>6 DEF Exit, Inside
<1>7. ASSUME NEW h \in left, Crosses(h)
      PROVE  Inside(k) /\ task'[k].dev = task[k].dev /\ task'[k].point = task[k].point
  BY <1>0, <1>7, CrossesTasks DEF Inside
<1>. QED BY <1>1, <1>2, <1>3, <1>4, <1>5, <1>6, <1>7 DEF StepKind

LEMMA NamesStep == MountIndInv /\ StepKind /\ LeftFits' => NamesFit'
<1> SUFFICES ASSUME MountIndInv, StepKind, LeftFits' PROVE NamesFit'
  OBVIOUS
<1>0. MountTypeOK /\ LockIsHeld /\ NamesFit /\ name' = name
      /\ registered \in [Device -> PointOrNone]
  BY DEF MountIndInv, StepKind, MountTypeOK
<1>1. ASSUME NEW p \in Point, NEW i \in DOMAIN table'[p]
      PROVE  name[table'[p][i]] = p.name
  <2>1. CASE i \in DOMAIN table[p] /\ table'[p][i] = table[p][i]
    BY <1>0, <2>1 DEF NamesFit
  <2>2. ASSUME NEW k \in Task, Pushed(k), p = task[k].point, table'[p][i] = task[k].dev
        PROVE  name[table'[p][i]] = p.name
    BY <1>0, <2>2 DEF NamesFit, Inside, Pushed, Is
  <2>3. ASSUME NEW h \in left, p = h.point, table'[p][i] = h.dev
        PROVE  name[table'[p][i]] = p.name
    BY <1>0, <2>3 DEF NamesFit
  <2>. QED BY <2>1, <2>2, <2>3, TableStep
<1>2. ASSUME NEW d \in Device, registered'[d] # NoPoint
      PROVE  registered'[d].name = name[d]
  <2>1. CASE registered'[d] = registered[d]
    BY <1>0, <1>2, <2>1 DEF NamesFit
  <2>2. CASE registered'[d] # registered[d]
    <3>1. PICK k \in Task :
             /\ Carries(k)
             /\ registered' = [registered EXCEPT ![task[k].dev] = task[k].point]
      BY <1>0, <1>2, <2>2
         DEF StepKind, Starts, TakeLock, Carries, CarriesTo, Leaves, Outside, Crosses,
             Idles, Exit, NothingRegistered
    <3>2. Inside(k) /\ task[k].dev = d /\ registered'[d] = task[k].point
      BY <1>0, <2>2, <3>1 DEF Carries, CarriesTo
    <3>. QED BY <1>0, <3>2 DEF NamesFit
  <2>. QED BY <2>1, <2>2
<1>3. ASSUME NEW k \in Task, Inside(k)'
      PROVE  task'[k].point \in Point /\ task'[k].point.name = name[task'[k].dev]
  BY <1>0, <1>3, TaskStepFits, PointForFits DEF NamesFit
<1>. QED BY <1>0, <1>1, <1>2, <1>3 DEF NamesFit, LeftFits

\* Two tasks inside are of two devices.
LEMMA Exclusive ==
    ASSUME LockIsHeld, NEW j \in Task, NEW k \in Task, Inside(j), Inside(k),
           task[j].dev = task[k].dev
    PROVE  j = k
BY DEF LockIsHeld, Inside

LEMMA OwnStep == MountIndInv /\ StepKind => OwnIsAway'
<1> SUFFICES ASSUME MountIndInv, StepKind, NEW k \in Task,
                    task'[k].stage \in Looked, task'[k].saw = "nothing", ~task'[k].crossed
             PROVE  ~HasShare(task[k].dev, task[k].point)'
  BY DEF OwnIsAway, FoundNone
<1> DEFINE p == task[k].point
           d == task[k].dev
<1>0. /\ MountTypeOK /\ LockIsHeld /\ NamesFit /\ OwnIsAway
      /\ task \in [Task -> TaskState]
  BY DEF MountIndInv, MountTypeOK
<1>1. Inside(k)'
  BY DEF Looked, Inside
<1>2. Inside(k) /\ task'[k].dev = d /\ task'[k].point = p
  BY <1>1, TaskStepFits DEF Looked
<1>3. p \in Point
  BY <1>0, <1>2 DEF NamesFit
<1>. HIDE DEF p, d
<1> SUFFICES ASSUME NEW i \in DOMAIN table'[p], table'[p][i] = d
             PROVE  FALSE
  BY <1>2 DEF HasShare
<1>4. ASSUME FoundNone(k), ~task[k].crossed, UNCHANGED table \/ Popped
      PROVE  FALSE
  BY <1>0, <1>3, <1>4, PopKeeps DEF OwnIsAway, HasShare, p, d
<1>5. ASSUME task'[k] = task[k], NEW j \in Task \ {k}, Inside(j), Pushed(j)
      PROVE  FALSE
  <2>1. task[j].dev # d
    BY <1>0, <1>2, <1>5, Exclusive DEF d
  <2>2. FoundNone(k) /\ ~task[k].crossed
    BY <1>5 DEF FoundNone
  <2>. QED BY <1>0, <1>3, <1>5, <2>1, <2>2, PushedAdds DEF OwnIsAway, HasShare, p, d
<1>6. ASSUME NEW j \in Task, Starts(j) \/ TakeLock(j) PROVE FALSE
  <2>1. task'[k] = task[k] /\ UNCHANGED table
    BY <1>0, <1>2, <1>6 DEF Starts, TakeLock, Inside, IdleTask, hostVars
  <2>. QED BY <1>4, <2>1 DEF FoundNone
<1>7. ASSUME NEW j \in Task, Carries(j) PROVE FALSE
  <2>1. CASE j = k
    <3>1. PICK stage, saw, crossed : CarriesTo(k, stage, saw, crossed)
      BY <1>7, <2>1 DEF Carries
    <3>2. stage = task'[k].stage /\ saw = task'[k].saw /\ crossed = task'[k].crossed
      BY <1>0, <3>1 DEF CarriesTo, TaskState
    <3>3. ~(table[p] = <<>> /\ UNCHANGED table)
      OBVIOUS
    <3>. QED BY <1>4, <3>1, <3>2, <3>3 DEF CarriesTo, p
  <2>2. CASE j # k
    <3>1. task'[k] = task[k] /\ Inside(j) /\ (UNCHANGED table \/ Popped \/ Pushed(j))
      BY <1>0, <1>7, <2>2 DEF Carries, CarriesTo
    <3>. QED BY <1>4, <1>5, <2>2, <3>1 DEF FoundNone
  <2>. QED BY <2>1, <2>2
<1>8. ASSUME NEW j \in Task, Leaves(j) PROVE FALSE
  <2>1. j # k
    BY <1>0, <1>1, <1>8 DEF Leaves, Ends, Inside, IdleTask
  <2>2. task'[k] = task[k] /\ UNCHANGED table
    BY <1>0, <1>8, <2>1 DEF Leaves, Ends
  <2>. QED BY <1>4, <2>2 DEF FoundNone
<1>9. CASE Outside \/ Idles
  BY <1>4, <1>9 DEF Outside, Idles, FoundNone
<1>11. ASSUME NEW h \in left, Crosses(h) PROVE FALSE
  <2>1. task[k].stage \in Looked /\ task[k].saw = "nothing"
    BY <1>0, <1>11, CrossesTasks
  <2>2. task'[k] = task[k] /\ ~(d = h.dev /\ p = h.point)
    BY <1>0, <1>11, <2>1, CrossesTasks DEF FoundNone, d, p
  <2>3. ~HasShare(d, p)
    BY <1>0, <2>1, <2>2 DEF OwnIsAway, FoundNone, d, p
  <2>. QED BY <1>3, <1>11, <2>2, <2>3, CrossesAdds DEF HasShare
<1>10. CASE Exit
  BY <1>1, <1>10 DEF Exit, Inside, IdleTask
<1>. QED BY <1>6, <1>7, <1>8, <1>9, <1>10, <1>11 DEF StepKind

-----------------------------------------------------------------------------
(***************************************************************************)
(* The invariants.                                                         *)
(***************************************************************************)

LEMMA IndInvInit == MountInit => MountIndInv
<1> SUFFICES ASSUME MountInit PROVE MountIndInv
  OBVIOUS
<1>1. IdleTask \in TaskState /\ IdleTask.stage = "idle" /\ IdleTask.dev = NoDevice
  BY DEF IdleTask, TaskState, Stage, PointOrNone
<1>2. MountTypeOK
  BY <1>1, SftpAssumption DEF MountInit, MountTypeOK, NothingRegistered, PointOrNone
<1>3. \A k \in Task : task[k] = IdleTask
  BY DEF MountInit
<1>4. LockIsHeld /\ OwnIsAway
  BY <1>1, <1>3 DEF LockIsHeld, OwnIsAway, FoundNone, Looked
<1>5. \A p \in Point : DOMAIN table[p] = {}
  BY DEF MountInit
<1>6. NamesFit
  BY <1>1, <1>3, <1>5 DEF MountInit, NothingRegistered, NamesFit, Inside
<1>. QED BY <1>2, <1>4, <1>6 DEF MountIndInv

LEMMA IndInvStep == MountIndInv /\ [MountNext]_mountVars => MountIndInv'
BY Kinds, LeftStep, TypeStep, LockStep, NamesStep, OwnStep DEF MountIndInv

\* The inductive invariant: the lock's holder is the only task inside, every
\* point bears its devices' names, and a share found missing stays missing until
\* its own task mounts it.
THEOREM MountInductive == MountSpec => []MountIndInv
BY IndInvInit, IndInvStep, PTL DEF MountSpec

LEMMA Opens == MountIndInv => OpensOwnShare
<1> SUFFICES ASSUME MountIndInv, NEW k \in Task, task[k].stage = "opening",
                    Unshared(task[k].dev), table[task[k].point] # <<>>
             PROVE  Top(task[k].point) = task[k].dev
  BY DEF OpensOwnShare
<1> DEFINE p == task[k].point
<1>1. /\ MountTypeOK /\ LockIsHeld
      /\ p \in Point /\ p.name = name[task[k].dev] /\ task[k].dev \in Device
  BY TaskDevice DEF MountIndInv, NamesFit, Inside
<1>2. table[p] \in Seq(Device)
  BY <1>1 DEF MountTypeOK
<1>3. Len(table[p]) \in DOMAIN table[p]
  BY <1>2
<1>4. Last(table[p]) \in Device /\ name[Last(table[p])] = p.name
  BY <1>1, <1>2, <1>3 DEF Last, MountIndInv, NamesFit
<1>. QED BY <1>1, <1>4 DEF Unshared, Top

LEMMA Listed == MountIndInv => ListedIsMounted
<1> SUFFICES ASSUME MountIndInv, NEW d \in Device, table[PointFor(d)] # <<>>, Unshared(d)
             PROVE  \E i \in DOMAIN table[PointFor(d)] : table[PointFor(d)][i] = d
  BY DEF ListedIsMounted, MountedDevices
<1> DEFINE p == PointFor(d)
<1>1. MountTypeOK /\ p \in Point /\ p.name = name[d]
  BY PointForFits DEF MountIndInv
<1>. HIDE DEF p
<1>2. table[p] \in Seq(Device) /\ table[p] # <<>>
  BY <1>1 DEF MountTypeOK, p
<1>3. 1 \in DOMAIN table[p] /\ table[p][1] \in Device
  BY <1>2
<1>4. name[table[p][1]] = p.name
  BY <1>1, <1>3 DEF MountIndInv, NamesFit
<1>5. table[p][1] = d
  BY <1>1, <1>3, <1>4 DEF Unshared
<1>. QED BY <1>3, <1>5 DEF p

\* At every step of every task, under any ejections, unreadable tables and ends
\* of the process: one task of a device is past its lock, a phone whose name is
\* its own is shown its own files, and one listed as mounted is mounted.
THEOREM MountsSound == MountSpec => []MountInv
<1>1. MountIndInv => MountInv
  BY Opens, Listed DEF MountIndInv, MountInv
<1>. QED BY <1>1, MountInductive, PTL

-----------------------------------------------------------------------------
(***************************************************************************)
(* Operations of one device.                                               *)
(***************************************************************************)

LEMMA PulledAway ==
    ASSUME MountIndInv, StepKind, NEW k \in Task, PulledAwayBy(k),
           NEW j \in Task \ {k}, task[j].dev = task[k].dev
    PROVE  task'[j] = task[j]
<1> DEFINE p == task[k].point
<1>0. /\ MountTypeOK /\ LockIsHeld /\ table \in [Point -> Seq(Device)]
      /\ task \in [Task -> TaskState]
  BY DEF MountIndInv, MountTypeOK
<1>1. Inside(k) /\ p \in Point /\ Inside(k)'
  BY DEF PulledAwayBy, Inside, MountIndInv, NamesFit
<1>2. table' # table /\ Len(table'[p]) < Len(table[p])
  BY <1>0, <1>1 DEF PulledAwayBy
<1>3. ~Inside(j)
  BY <1>0, <1>1, Exclusive
<1>4. ASSUME NEW i \in Task, Pushed(i) PROVE FALSE
  <2>1. task[i].dev \in Device /\ task[i].point \in Point
    BY <1>0, <1>4, TaskDevice DEF MountIndInv, NamesFit, Inside, Pushed, Is
  <2>2. table' = [table EXCEPT ![task[i].point] = Append(@, task[i].dev)]
    BY <1>4 DEF Pushed, Push
  <2>3. table[p] \in Seq(Device) /\ table'[p] \in {table[p], Append(table[p], task[i].dev)}
    BY <1>0, <1>1, <2>1, <2>2
  <2>. QED BY <1>2, <2>1, <2>3
<1>5. ASSUME NEW i \in Task, Starts(i) \/ TakeLock(i) PROVE FALSE
  BY <1>2, <1>5 DEF Starts, TakeLock, hostVars
<1>6. ASSUME NEW i \in Task, Carries(i) PROVE task'[j] = task[j]
  BY <1>0, <1>3, <1>6 DEF Carries, CarriesTo
<1>7. ASSUME NEW i \in Task, Leaves(i) PROVE FALSE
  BY <1>2, <1>7 DEF Leaves
<1>10. ASSUME NEW h \in left, Crosses(h) PROVE FALSE
  <2>1. h.dev \in Device /\ h.point \in Point
    BY <1>0 DEF MountTypeOK, Helper
  <2>2. table' = [table EXCEPT ![h.point] = Append(@, h.dev)]
    BY <1>10 DEF Crosses, Push
  <2>3. table[p] \in Seq(Device) /\ table'[p] \in {table[p], Append(table[p], h.dev)}
    BY <1>0, <1>1, <2>1, <2>2
  <2>. QED BY <1>2, <2>1, <2>3
<1>8. CASE Outside \/ Idles
  BY <1>8 DEF Outside, Idles
<1>9. CASE Exit
  BY <1>1, <1>9 DEF Exit, Inside, IdleTask
<1>. QED BY <1>5, <1>6, <1>7, <1>8, <1>9, <1>10 DEF StepKind

LEMMA MountsOver ==
    ASSUME MountIndInv, NEW k \in Task, MountsOverOwn(k)
    PROVE  task[k].saw # "nothing" \/ task[k].crossed
BY DEF MountIndInv, OwnIsAway, HasShare, FoundNone, Looked, MountsOverOwn, Is

\* No second click, late disconnection or other running operation of a device acts
\* on the share that a task of this device is about to open, and no task mounts
\* over the device's own share where it found nothing mounted, unless an sshfs of
\* an earlier operation has come to mount it meanwhile.  Commands that outlive
\* their operation are not excluded, and may take such a share away.
THEOREM Exclusion == MountSpec => OperationsExcludeEachOther
<1>1. MountIndInv /\ [MountNext]_mountVars
        => [ \A k \in Task :
               /\ PulledAwayBy(k) =>
                     \A j \in Task \ {k} : task[j].dev = task[k].dev => task'[j] = task[j]
               /\ MountsOverOwn(k) => task[k].saw # "nothing" \/ task[k].crossed ]_mountVars
  BY Kinds, PulledAway, MountsOver
<1>. QED BY <1>1, MountInductive, PTL DEF MountSpec, OperationsExcludeEachOther
=============================================================================
