----------------------------- MODULE DeviceList -----------------------------
(***************************************************************************)
(* The device list of kdeconnect-service (dbus_interface.rs), which the    *)
(* applet and the settings window show, composed with the core that feeds  *)
(* it.  The service handles the core's announcements one after the other;  *)
(* the list is all it knows of them.                                       *)
(***************************************************************************)
EXTENDS CoreLoop

CONSTANT NoDevice

ASSUME NoDeviceAssumption == NoDevice \notin Device

VARIABLES
    shown,     \* devices: what the list says of each device
    current    \* current_device_id: the device connected or paired last

listVars == <<shown, current>>
allVars == <<vars, listVars>>

Entry == [known : BOOLEAN, paired : BOOLEAN, reachable : BOOLEAN]

DeviceOrNone == Device \cup {NoDevice}

ListTypeOK ==
    /\ shown \in [Device -> Entry]
    /\ current \in DeviceOrNone

\* At start the list holds the devices whose file says Paired, unreachable.
Restored ==
    [d \in Device |-> [known     |-> disk[d].state = "Paired",
                       paired    |-> disk[d].state = "Paired",
                       reachable |-> FALSE]]

ListInit ==
    /\ Init
    /\ shown = Restored
    /\ current = NoDevice

ListRestart ==
    /\ Restart
    /\ shown' = Restored
    /\ current' = NoDevice

\* Mutant of Updated: DevicePaired is missed.
UpdatedWithoutDevicePaired(old, e) ==
    CASE e.type = "Connected" ->
            [known |-> TRUE, paired |-> e.state = "Paired", reachable |-> TRUE]
      [] e.type = "Disconnected" ->
            [old EXCEPT !.reachable = FALSE]
      [] e.type = "PairStateChanged" ->
            [old EXCEPT !.paired = old.known /\ e.state = "Paired"]
      [] OTHER -> old

\* The entry after an announcement; a change to an unknown device is dropped.
Updated(old, e) ==
    CASE e.type = "Connected" ->
            [known |-> TRUE, paired |-> e.state = "Paired", reachable |-> TRUE]
      [] e.type = "DevicePaired" ->
            [known |-> TRUE, paired |-> TRUE, reachable |-> TRUE]
      [] e.type = "Disconnected" ->
            [old EXCEPT !.reachable = FALSE]
      [] e.type = "PairStateChanged" ->
            [old EXCEPT !.paired = old.known /\ e.state = "Paired"]
      [] OTHER -> old

\* Mutant of HandleEvent: the device that was current stays so.
HandleEventKeepsCurrent ==
    LET e == Head(connQ) IN
    /\ ListenerTakes
    /\ shown' = [shown EXCEPT ![e.dev] = Updated(@, e)]
    /\ current' = IF e.type \in {"Connected", "DevicePaired"} THEN e.dev ELSE current

\* handle_event
HandleEvent ==
    LET e == Head(connQ) IN
    /\ ListenerTakes
    /\ shown' = [shown EXCEPT ![e.dev] = Updated(@, e)]
    /\ current' = CASE e.type \in {"Connected", "DevicePaired"} -> e.dev
                    [] e.type = "Disconnected" /\ current = e.dev -> NoDevice
                    [] OTHER -> current

ListNext ==
    \/ RunStep /\ UNCHANGED listVars
    \/ HandleEvent
    \/ ListRestart

ListSpec == ListInit /\ [][ListNext]_allVars

ListFairSpec == ListSpec /\ LoopFairness /\ WF_allVars(HandleEvent)

-----------------------------------------------------------------------------
\* Nothing is left to handle or to announce, and every connection the core has
\* dropped has ended.
Quiescent ==
    /\ transportQ = <<>> /\ eventQ = <<>> /\ connQ = <<>>
    /\ \A c \in Conn : link[c].phase = "live" => writer[link[c].dev] = c

\* Once everything is handled, a connected device is shown as paired exactly
\* if the core trusts it, and any other as its file says, although pairing is
\* announced through a queue that connections and unpairing overtake
\* (DevicePaired, Connected, PairStateChanged in lib.rs and dbus_interface.rs).
PairingShownIsReal ==
    Quiescent => \A d \in Device :
        /\ connId[d] # NoConn => (shown[d].paired <=> Trusted(disk[d]))
        /\ shown[d].paired => disk[d].state = "Paired"
        /\ shown[d].known /\ Trusted(disk[d]) => shown[d].paired

\* Once everything is handled, a connected device is not shown as unreachable,
\* whichever of the old connection's end and the new one's start came first.
ConnectedIsShownReachable ==
    Quiescent => \A d \in Device :
        connId[d] # NoConn => shown[d].known /\ shown[d].reachable

\* Battery and signal are attributed to current_device_id, which is always a
\* device the list shows as reachable (StateUpdated in dbus_interface.rs).
StatusGoesToReachable ==
    current # NoDevice => shown[current].known /\ shown[current].reachable

\* A device that was paired does get shown as paired, unless it is unpaired.
PairingGetsShown ==
    \A d \in Device :
        Trusted(devices[d]) ~> (shown[d].paired \/ ~Trusted(devices[d]))

\* What the list tells the applet is what the core holds: of a device that is
\* connected, paired or neither, once the announcements have been handled.
ListAgreesWithCore ==
    /\ ListTypeOK
    /\ PairingShownIsReal
    /\ ConnectedIsShownReachable
=============================================================================
