----------------------------- MODULE SftpMounts -----------------------------
(***************************************************************************)
(* Browsing a phone's files (sftp.rs): mounting its share with sshfs,      *)
(* opening it in the file manager, unmounting it again.                    *)
(*                                                                         *)
(* The truth is the host's mount table, which the user and the network     *)
(* change as well.  An operation is a task that holds its device's lock    *)
(* and reads the table, acts and registers in separate steps: it waits for *)
(* a command on the host in between.  A command that an operation gives up *)
(* on is not ended with it: it may do what it was started for at any later *)
(* time.  The shutdown takes no lock.  Whether a mount point's directory   *)
(* exists is left out: mkdir and sshfs may fail.                           *)
(***************************************************************************)
EXTENDS Naturals, Sequences, FiniteSets, SequencesExt

CONSTANTS
    Device,
    NoDevice,
    OldDevice,  \* those that may have been mounted by an earlier version
    Task,       \* tasks spawned for browse, open_mounted and unmount
    NoTask,
    Name,       \* the names phones call themselves
    NoPoint,    \* no entry in MOUNTS
    ShareCap,   \* bound on the shares mounted at a time
    SlowDevice, \* bound: those whose mounts and unmounts may outlast an operation
    LeftCap     \* bound on the commands left running, no two of them alike

ASSUME SftpAssumption ==
    /\ NoDevice \notin Device
    /\ OldDevice \subseteq Device
    /\ NoTask \notin Task
    /\ ShareCap \in Nat \ {0}
    /\ SlowDevice \subseteq Device
    /\ LeftCap \in Nat

VARIABLES
    name,       \* the devices' names
    table,      \* the host's mount table: whose shares are mounted at each point
    legacy,     \* devices whose share an earlier version has left mounted
    registered, \* MOUNTS
    lock,       \* OP_LOCKS: the task in a device's critical section
    task,       \* what each task is doing
    closing,    \* the devices unmount_all has still to unmount
    left        \* sshfs and fusermount nobody waits for any more

hostVars == <<table, legacy>>
mountVars == <<name, table, legacy, registered, lock, task, closing, left>>

\* mount_point_for: $HOME/KDE Connect/<name>, or <name> (<id>).
Point == [name : Name, id : Device \cup {NoDevice}]
PointOrNone == Point \cup {NoPoint}

\* "chosen": has the lock and its mount point; "listed", "clear": what it read;
\* "dead": the listed share does not answer; "made": sshfs is about to run;
\* "mounted", "retired": the host has done it, MOUNTS does not know yet.
Stage == {"idle", "waiting", "chosen", "listed", "dead", "clear", "made",
          "mounted", "opening", "retired"}
TaskState ==
    [kind  : {"none", "browse", "open", "unmount"},
     dev   : Device \cup {NoDevice},
     stage : Stage,
     point : PointOrNone,
     saw   : {"nothing", "share", "unread"},
     crossed : BOOLEAN]  \* history: a left sshfs has mounted since it looked

IdleTask == [kind |-> "none", dev |-> NoDevice, stage |-> "idle",
             point |-> NoPoint, saw |-> "nothing", crossed |-> FALSE]

\* A command that was given up on, what it does and for which device.
Helper == [does : {"mount", "unmount"}, dev : Device, point : Point]

NothingRegistered == [d \in Device |-> NoPoint]

MountTypeOK ==
    /\ name \in [Device -> Name]
    /\ table \in [Point -> Seq(Device)]
    /\ legacy \in SUBSET Device
    /\ registered \in [Device -> PointOrNone]
    /\ lock \in [Device -> Task \cup {NoTask}]
    /\ task \in [Task -> TaskState]
    /\ closing \in SUBSET Device
    /\ left \in SUBSET Helper

MountInit ==
    /\ name \in [Device -> Name]
    /\ table = [p \in Point |-> <<>>]
    /\ legacy \in SUBSET OldDevice
    /\ registered = NothingRegistered
    /\ lock = [d \in Device |-> NoTask]
    /\ task = [k \in Task |-> IdleTask]
    /\ closing = {}
    /\ left = {}

-----------------------------------------------------------------------------
\* The host.

Top(p) == Last(table[p])

Push(p, d) ==
    /\ Cardinality(UNION {{q} \X DOMAIN table[q] : q \in Point}) < ShareCap
    /\ table' = [table EXCEPT ![p] = Append(@, d)]

Pop(p) == table' = [table EXCEPT ![p] = Front(@)]

Retire(p) == table[p] # <<>> /\ Pop(p)

\* These commands go on without whoever started them.
LeavesBehind(helpers) ==
    /\ \A h \in helpers : h.dev \in SlowDevice
    /\ left' = left \cup helpers
    /\ Cardinality(left') <= LeftCap

\* What task k starts on the host to mount or unmount its share.
HelperOf(k, does) == [does |-> does, dev |-> task[k].dev, point |-> task[k].point]

\* force_unmount by task k fails, or times out: tokio does not end a child with
\* the future that waits for it, so fusermount may still unmount later.
FailsToUnmount(k) ==
    /\ UNCHANGED table
    /\ UNCHANGED left \/ LeavesBehind({HelperOf(k, "unmount")})

\* host_mount_points: what cannot be read counts as empty.
Reads(p, saw) ==
    \/ saw = "share" /\ table[p] # <<>>
    \/ saw = "nothing" /\ table[p] = <<>>
    \/ saw = "unread"

\* Unmounted in the file manager.
Eject(p) ==
    /\ Retire(p)
    /\ UNCHANGED <<name, legacy, registered, lock, task, closing, left>>

\* A share of an earlier version goes, by hand or by a fusermount that was left.
EjectLegacy(d) ==
    /\ d \in legacy
    /\ legacy' = legacy \ {d}
    /\ UNCHANGED <<name, table, registered, lock, task, closing, left>>

\* The task has read the table and not yet acted on a mount of its own.
Looked == {"listed", "dead", "clear", "made"}

FoundNone(k) == task[k].stage \in Looked /\ task[k].saw = "nothing"

\* A command that was left does in the end what it was started for, or fails.
HelperEnds(h) ==
    /\ h \in left
    /\ left' = left \ {h}
    /\ \/ UNCHANGED <<table, task>>
       \/ h.does = "unmount" /\ Retire(h.point) /\ UNCHANGED task
       \/ /\ h.does = "mount"
          /\ Push(h.point, h.dev)
          /\ task' = [k \in Task |-> IF /\ FoundNone(k)
                                        /\ task[k].dev = h.dev
                                        /\ task[k].point = h.point
                                       THEN [task[k] EXCEPT !.crossed = TRUE]
                                       ELSE task[k]]
    /\ UNCHANGED <<name, legacy, registered, lock, closing>>

-----------------------------------------------------------------------------
\* Tasks and their device's lock.

Plain(d) == [name |-> name[d], id |-> NoDevice]

\* mount_point_for
PointFor(d) ==
    CASE registered[d] # NoPoint -> registered[d]
      [] registered[d] = NoPoint /\ \E e \in Device \ {d} : registered[e] = Plain(d)
            -> [name |-> name[d], id |-> d]
      [] OTHER -> Plain(d)

Is(k, kinds, stage) == task[k].kind \in kinds /\ task[k].stage = stage

Goes(k, stage) == task' = [task EXCEPT ![k].stage = stage]

\* What was read does not matter any more.
Settles(k, stage) ==
    task' = [task EXCEPT ![k].stage = stage, ![k].saw = "nothing", ![k].crossed = FALSE]

\* The task is over; a browse has been announced, or its failure has.
Ends(k) ==
    /\ task' = [task EXCEPT ![k] = IdleTask]
    /\ lock' = [d \in Device |-> IF lock[d] = k THEN NoTask ELSE lock[d]]

Start(k, kind, d) ==
    /\ task[k] = IdleTask
    /\ task' = [task EXCEPT ![k] = [kind |-> kind, dev |-> d, stage |-> "waiting",
                                    point |-> NoPoint, saw |-> "nothing",
                                    crossed |-> FALSE]]
    /\ UNCHANGED <<name, hostVars, registered, lock, closing, left>>

\* The phone has answered a request to browse.
SftpPacket(k, d) == Start(k, "browse", d)

\* The user's click: open_mounted, and the request to the phone if that fails.
BrowseDevice(k, d) == Start(k, "open", d)

UnmountDevice(k, d) == Start(k, "unmount", d)

\* Disconnected: the share is unmounted, for the phone has gone.
AutoUnmount(k, d) == Start(k, "unmount", d)

\* preflight, or a user name that looks like an option
Refused(k) ==
    /\ Is(k, {"browse"}, "waiting")
    /\ Ends(k)
    /\ UNCHANGED <<name, hostVars, registered, closing, left>>

\* Mutant of TakeLock: unmount does not wait for the lock.
TakeLockUnlessUnmount(k) ==
    LET d == task[k].dev IN
    /\ task[k].stage = "waiting"
    /\ lock[d] = NoTask \/ task[k].kind = "unmount"
    /\ lock' = [lock EXCEPT ![d] = IF @ = NoTask THEN k ELSE @]
    /\ task' = [task EXCEPT ![k].stage = "chosen", ![k].point = PointFor(d)]
    /\ UNCHANGED <<name, hostVars, registered, closing, left>>

TakeLock(k) ==
    LET d == task[k].dev IN
    /\ task[k].stage = "waiting"
    /\ lock[d] = NoTask
    /\ lock' = [lock EXCEPT ![d] = k]
    /\ task' = [task EXCEPT ![k].stage = "chosen", ![k].point = PointFor(d)]
    /\ UNCHANGED <<name, hostVars, registered, closing, left>>

\* A share of an earlier version is retired; only browse goes on if it stays.
RetireLegacy(k, saw) ==
    LET d == task[k].dev IN
    \/ task[k].kind # "open" /\ saw # "unread" /\ legacy' = legacy \ {d}
    \/ (task[k].kind = "unmount" => saw = "unread" \/ d \notin legacy) /\ UNCHANGED legacy

ReadTable(k) ==
    /\ task[k].stage = "chosen"
    /\ \E saw \in {"nothing", "share", "unread"} :
          /\ Reads(task[k].point, saw)
          /\ RetireLegacy(k, saw)
          /\ task' = [task EXCEPT ![k].saw = saw,
                                 ![k].crossed = FALSE,
                                 ![k].stage = IF saw = "share" THEN "listed" ELSE "clear"]
    /\ UNCHANGED <<name, table, registered, lock, closing, left>>

\* unmount gives up, and leaves the device's share itself mounted.
LegacyStays(k) ==
    /\ Is(k, {"unmount"}, "chosen")
    /\ task[k].dev \in legacy
    /\ Ends(k)
    /\ UNCHANGED <<name, hostVars, registered, closing, left>>

-----------------------------------------------------------------------------
\* browse and open_mounted

\* is_healthy says yes: the share is adopted, or known already.
Adopt(k) ==
    LET p == task[k].point IN
    /\ Is(k, {"browse", "open"}, "listed")
    /\ registered' = [registered EXCEPT ![task[k].dev] = p]
    /\ Settles(k, "opening")
    /\ UNCHANGED <<name, hostVars, lock, closing, left>>

\* is_healthy says no: browse mounts anew whether the old share goes or not.
RetireStale(k) ==
    LET p == task[k].point IN
    /\ Is(k, {"browse"}, "listed")
    /\ (Retire(p) /\ UNCHANGED left) \/ FailsToUnmount(k)
    /\ Goes(k, "dead")
    /\ UNCHANGED <<name, legacy, registered, lock, closing>>

\* open_mounted found nothing it could open.
NotOpened(k) ==
    /\ Is(k, {"open"}, "listed") \/ Is(k, {"open"}, "clear")
    /\ Ends(k)
    /\ UNCHANGED <<name, hostVars, registered, closing, left>>

MakeDir(k) ==
    /\ Is(k, {"browse"}, "clear") \/ Is(k, {"browse"}, "dead")
    /\ \/ Goes(k, "made") /\ UNCHANGED lock
       \/ Ends(k)
    /\ UNCHANGED <<name, hostVars, registered, closing, left>>

\* sshfs mounts the share, fails, or is given up after MOUNT_TIMEOUT: what is then
\* killed is the child, in a sandbox flatpak-spawn and not the sshfs on the host.
RunSshfs(k) ==
    /\ Is(k, {"browse"}, "made")
    /\ \/ Push(task[k].point, task[k].dev) /\ Settles(k, "mounted") /\ UNCHANGED <<lock, left>>
       \/ UNCHANGED <<table, left>> /\ Ends(k)
       \/ UNCHANGED table /\ Ends(k) /\ LeavesBehind({HelperOf(k, "mount")})
    /\ UNCHANGED <<name, legacy, registered, closing>>

RegisterMount(k) ==
    /\ task[k].stage = "mounted"
    /\ registered' = [registered EXCEPT ![task[k].dev] = task[k].point]
    /\ Settles(k, "opening")
    /\ UNCHANGED <<name, hostVars, lock, closing, left>>

\* open, and what it is told as: MountStateChanged or BrowseFailed
Opened(k) ==
    /\ task[k].stage = "opening"
    /\ Ends(k)
    /\ UNCHANGED <<name, hostVars, registered, closing, left>>

-----------------------------------------------------------------------------
\* unmount

\* force_unmount; if it fails, the share stays registered.
Unmount(k) ==
    LET p == task[k].point IN
    /\ Is(k, {"unmount"}, "listed")
    /\ \/ Retire(p) /\ Settles(k, "retired") /\ UNCHANGED <<lock, left>>
       \/ FailsToUnmount(k) /\ Ends(k)
    /\ UNCHANGED <<name, legacy, registered, closing>>

UnregisterMount(k) ==
    /\ Is(k, {"unmount"}, "retired") \/ Is(k, {"unmount"}, "clear")
    /\ registered' = [registered EXCEPT ![task[k].dev] = NoPoint]
    /\ Ends(k)
    /\ UNCHANGED <<name, hostVars, closing, left>>

\* Mutant of MountedDevices: the cache is believed.
MountedDevicesCached == {d \in Device : registered[d] # NoPoint}

\* mounted_devices, when the table can be read
MountedDevices == {d \in Device : table[PointFor(d)] # <<>>}

-----------------------------------------------------------------------------
\* The end of the process.

\* unmount_all: what is registered now is unmounted if it can be, and forgotten.
UnmountAll ==
    /\ closing = {}
    /\ closing' = {d \in Device : registered[d] # NoPoint}
    /\ UNCHANGED <<name, hostVars, registered, lock, task, left>>

ClosingHelpers ==
    {h \in Helper : /\ h.does = "unmount"
                    /\ h.dev \in closing
                    /\ registered[h.dev] # NoPoint
                    /\ h.point = registered[h.dev]}

UnmountOne(d) ==
    LET p == registered[d] IN
    /\ d \in closing
    /\ \/ p # NoPoint /\ Retire(p) /\ UNCHANGED left
       \/ UNCHANGED <<table, left>>
       \/ \E h \in ClosingHelpers : h.dev = d /\ LeavesBehind({h}) /\ UNCHANGED table
    /\ registered' = [registered EXCEPT ![d] = NoPoint]
    /\ closing' = closing \ {d}
    /\ UNCHANGED <<name, legacy, lock, task>>

\* The commands that may be running now.
Running ==
    ClosingHelpers
        \cup {HelperOf(k, "mount") : k \in {j \in Task : Is(j, {"browse"}, "made")}}
        \cup {HelperOf(k, "unmount") : k \in {j \in Task : Is(j, {"browse", "unmount"}, "listed")}}

\* The process ends, in whatever it was doing: what is mounted stays, and what it
\* was waiting for on the host may go on.
Exit ==
    /\ UNCHANGED table
    /\ \E helpers \in SUBSET Running : LeavesBehind(helpers)
    /\ registered' = NothingRegistered
    /\ lock' = [d \in Device |-> NoTask]
    /\ task' = [k \in Task |-> IdleTask]
    /\ closing' = {}
    /\ UNCHANGED <<name, legacy>>

TaskStep(k) ==
    \/ Refused(k) \/ TakeLock(k) \/ ReadTable(k) \/ LegacyStays(k)
    \/ Adopt(k) \/ RetireStale(k) \/ NotOpened(k) \/ MakeDir(k) \/ RunSshfs(k)
    \/ RegisterMount(k) \/ Opened(k)
    \/ Unmount(k) \/ UnregisterMount(k)

MountNext ==
    \/ \E k \in Task :
          \/ \E d \in Device :
                \/ SftpPacket(k, d) \/ BrowseDevice(k, d)
                \/ UnmountDevice(k, d) \/ AutoUnmount(k, d)
          \/ TaskStep(k)
    \/ \E p \in Point : Eject(p)
    \/ \E d \in Device : EjectLegacy(d)
    \/ \E h \in left : HelperEnds(h)
    \/ UnmountAll
    \/ \E d \in Device : UnmountOne(d)
    \/ Exit

MountSpec == MountInit /\ [][MountNext]_mountVars

-----------------------------------------------------------------------------
\* A device's critical section: the task in it, and no other, is past waiting.
LockIsHeld ==
    \A k \in Task :
        /\ task[k].stage \notin {"idle", "waiting"} => lock[task[k].dev] = k
        /\ task[k].stage = "idle" <=> task[k].dev = NoDevice

Unshared(d) == \A e \in Device \ {d} : name[e] # name[d]

\* What the file manager is opened on is the device's own share, or a point
\* that has just been unmounted, whatever earlier runs left mounted; of two
\* devices of one name this cannot be said (mount_point_for, browse).
OpensOwnShare ==
    \A k \in Task :
        (/\ task[k].stage = "opening"
         /\ Unshared(task[k].dev)
         /\ table[task[k].point] # <<>>) => Top(task[k].point) = task[k].dev

\* A device the applet lists as mounted has its share mounted, whatever the user
\* has ejected in the file manager (sftp.rs:43 "the user can unmount from the
\* file manager at any time, behind our back").
ListedIsMounted ==
    \A d \in MountedDevices :
        Unshared(d) => \E i \in DOMAIN table[PointFor(d)] : table[PointFor(d)][i] = d

\* All of this together, at every step of every task.
MountInv ==
    /\ MountTypeOK
    /\ LockIsHeld
    /\ OpensOwnShare
    /\ ListedIsMounted

\* Something is taken off a task's mount point while it has a share there to open.
PulledAwayBy(k) ==
    LET p == task[k].point IN
    /\ task[k].stage \in {"mounted", "opening"}
    /\ task'[k].stage \in {"mounted", "opening"}
    /\ Len(table'[p]) < Len(table[p])

\* A task mounts a device's share over another one of that device.
MountsOverOwn(k) ==
    LET p == task[k].point IN
    /\ Is(k, {"browse"}, "made")
    /\ task'[k] # task[k]
    /\ Len(table'[p]) > Len(table[p])
    /\ \E i \in DOMAIN table[p] : table[p][i] = task[k].dev

\* The share a browse has just mounted or found is not taken from under it by
\* another operation of its device, a second click or the unmounting after a
\* disconnection, and is not mounted over another one of the device unless that
\* one did not answer or the table could not be read (sftp.rs:48 "could race two
\* `sshfs` processes onto the same mount point (or a mount against an unmount)").
\* The lock covers operations, not the commands they gave up on: a fusermount that
\* timed out may yet take away the share of a later browse (HelperEnds, a step of
\* no task), and an sshfs that timed out may mount a share after a later browse
\* has looked, which that browse then mounts over (crossed).
OperationsExcludeEachOther ==
    [][ \A k \in Task :
          /\ PulledAwayBy(k) =>
                \A j \in Task \ {k} : task[j].dev = task[k].dev => task'[j] = task[j]
          /\ MountsOverOwn(k) => task[k].saw # "nothing" \/ task[k].crossed ]_mountVars
=============================================================================
