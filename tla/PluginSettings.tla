--------------------------- MODULE PluginSettings ---------------------------
(***************************************************************************)
(* The settings window (settings.rs): its list of devices, fetched again   *)
(* whenever the service signals a change, and the plugin switches of the   *)
(* selected device, which show what was last heard or clicked.  Composed   *)
(* with PluginGate, whose handler takes the clicks one by one.             *)
(*                                                                         *)
(* The window and the service are two processes; this is the service while *)
(* it stays up, seen through one phone.  Every fetch is a task of its own, *)
(* and answers arrive in any order.                                        *)
(***************************************************************************)
EXTENDS PluginGate, Sequences

CONSTANTS
    ClickCap,   \* bound on the clicks on their way (unbounded in the code)
    FetchCap    \* bound on the fetches under way (unbounded in the code)

ASSUME CapAssumption == {ClickCap, FetchCap} \subseteq Nat \ {0}

VARIABLES
    served,   \* the service's own list says that the phone is paired
    listed,   \* devices: the window's list says so
    noticed,  \* a signal of a change that update has not handled
    fetches,  \* fetch_devices: those that have not read, and those that read what
    selected, \* the phone is the selected device
    view,     \* plugin_states: the plugins shown as off
    answer,   \* the answer to GetDisabledPlugins, while one is awaited
    clicks,   \* SetPluginEnabled calls on their way to the event loop
    spoilt    \* history: a signal or answer was lost or may have been overtaken

listVars == <<served, listed, noticed, fetches, spoilt>>
panelVars == <<selected, view, answer, clicks>>
windowVars == <<listVars, panelVars>>
settingsVars == <<gateVars, windowVars>>

Click == [plugin : Plugin, on : BOOLEAN]
Answer == [state : {"none", "asked", "read"}, off : SUBSET Plugin]
Fetches == [asked : 0 .. FetchCap, paired : 0 .. FetchCap, other : 0 .. FetchCap]

NoAnswer == [state |-> "none", off |-> {}]

WindowTypeOK ==
    /\ GateTypeOK
    /\ {served, listed, noticed, selected, spoilt} \subseteq BOOLEAN
    /\ fetches \in Fetches
    /\ view \in SUBSET Plugin
    /\ answer \in Answer
    /\ clicks \in Seq(Click)

\* The window has just been opened: it lists nothing, shows everything as on,
\* and has asked for the devices.
WindowInit ==
    /\ GateInit
    /\ served = paired
    /\ listed = FALSE
    /\ noticed = FALSE
    /\ fetches = [asked |-> 1, paired |-> 0, other |-> 0]
    /\ selected = FALSE
    /\ view = {}
    /\ answer = NoAnswer
    /\ clicks = <<>>
    /\ spoilt = FALSE

-----------------------------------------------------------------------------
\* The list of devices.

UnderWay == fetches.asked + fetches.paired + fetches.other

\* refresh_devices_task
Fetch ==
    /\ UnderWay < FetchCap
    /\ fetches' = [fetches EXCEPT !.asked = @ + 1]
    /\ spoilt' = (UnderWay > 0)

\* The service has handled the announcement of the phone's pair state, changed
\* its list and signalled that, to a window whose event stream listens.
ServiceSignals ==
    /\ served # paired
    /\ served' = paired
    /\ \/ noticed' = TRUE /\ UNCHANGED spoilt
       \/ spoilt' = TRUE /\ UNCHANGED noticed
    /\ UNCHANGED <<gateVars, listed, fetches, panelVars>>

\* Mutant of ServiceEvent: the change is not one of those looked for.
ServiceEventUnneeded ==
    /\ noticed
    /\ noticed' = FALSE
    /\ UNCHANGED <<gateVars, served, listed, fetches, spoilt, panelVars>>

\* ServiceEvent: a device has connected, disconnected or paired.
ServiceEvent ==
    /\ noticed
    /\ noticed' = FALSE
    /\ Fetch
    /\ UNCHANGED <<gateVars, served, listed, panelVars>>

\* Refresh after a click has been taken, SelectTab, PairDevice, or another
\* signal of the phone or of another one.
Refresh ==
    /\ Fetch
    /\ UNCHANGED <<gateVars, served, listed, noticed, panelVars>>

\* list_devices in the service; where it cannot be asked the list is empty.
ListDevices ==
    /\ fetches.asked > 0
    /\ \/ /\ served
          /\ fetches' = [fetches EXCEPT !.asked = @ - 1, !.paired = @ + 1]
          /\ UNCHANGED spoilt
       \/ /\ fetches' = [fetches EXCEPT !.asked = @ - 1, !.other = @ + 1]
          /\ spoilt' = (spoilt \/ served)
    /\ UNCHANGED <<gateVars, served, listed, noticed, panelVars>>

\* The states of the plugins are asked for.  Only one answer is awaited at a time.
Selects ==
    /\ answer.state = "none"
    /\ selected' = TRUE
    /\ answer' = [state |-> "asked", off |-> {}]

\* DevicesLoaded, with the phone as a paired device: it is selected if none is
\* and it comes first.
LoadedPaired ==
    /\ fetches.paired > 0
    /\ fetches' = [fetches EXCEPT !.paired = @ - 1]
    /\ listed' = TRUE
    /\ \/ UNCHANGED <<selected, answer>>
       \/ ~selected /\ Selects
    /\ UNCHANGED <<gateVars, served, noticed, view, clicks, spoilt>>

\* DevicesLoaded, with the phone not there or not paired
LoadedOther ==
    /\ fetches.other > 0
    /\ fetches' = [fetches EXCEPT !.other = @ - 1]
    /\ listed' = FALSE
    /\ selected' = FALSE
    /\ view' = IF selected THEN {} ELSE view
    /\ UNCHANGED <<gateVars, served, noticed, answer, clicks, spoilt>>

-----------------------------------------------------------------------------
\* The selected device and its switches.

\* The handler takes any device; the view offers those of the list (listed), and a click
\* is taken to be handled before the list changes again.
SelectDevice ==
    /\ listed
    /\ ~selected
    /\ Selects
    /\ UNCHANGED <<gateVars, listVars, view, clicks>>

\* Another device is selected; what is shown of this one is kept.
SelectOther ==
    /\ selected
    /\ selected' = FALSE
    /\ UNCHANGED <<gateVars, listVars, view, answer, clicks>>

\* UnpairDevice: the phone is deselected at once, and the devices are fetched
\* whether or not the event loop has carried it out by then (Unpaired).
UnpairDevice ==
    /\ selected
    /\ selected' = FALSE
    /\ view' = {}
    /\ Fetch
    /\ UNCHANGED <<gateVars, served, listed, noticed, answer, clicks>>

\* get_disabled_plugins in the service, which does not wait for the event loop
GetDisabledPlugins ==
    /\ answer.state = "asked"
    /\ answer' = [state |-> "read", off |-> ReadFile]
    /\ UNCHANGED <<gateVars, listVars, selected, view, clicks>>

PluginStatesLoaded ==
    /\ answer.state = "read"
    /\ view' = answer.off
    /\ answer' = NoAnswer
    /\ UNCHANGED <<gateVars, listVars, selected, clicks>>

\* A switch is shown in its new position at once.
TogglePlugin(p) ==
    /\ selected
    /\ Len(clicks) < ClickCap
    /\ view' = IF p \in view THEN view \ {p} ELSE view \cup {p}
    /\ clicks' = Append(clicks, [plugin |-> p, on |-> p \in view])
    /\ UNCHANGED <<gateVars, listVars, selected, answer>>

\* The event loop takes the next click.
TakeClick ==
    /\ clicks # <<>>
    /\ LET k == Head(clicks) IN SetPluginEnabled(k.plugin, k.on)
    /\ clicks' = Tail(clicks)
    /\ UNCHANGED <<listVars, selected, view, answer>>

WindowNext ==
    \/ (PhoneStep \/ Unpaired \/ Saves) /\ UNCHANGED windowVars
    \/ ServiceSignals \/ ServiceEvent \/ Refresh
    \/ ListDevices \/ LoadedPaired \/ LoadedOther
    \/ SelectDevice \/ SelectOther \/ UnpairDevice
    \/ GetDisabledPlugins \/ PluginStatesLoaded
    \/ \E p \in Plugin : TogglePlugin(p)
    \/ TakeClick

\* The loop gets on with a handler it has begun, and takes what is queued: a
\* click waits only while another one is being carried out.
WindowSpec ==
    /\ WindowInit
    /\ [][WindowNext]_settingsVars
    /\ WF_settingsVars(Saves /\ UNCHANGED windowVars)
    /\ WF_settingsVars(TakeClick)

-----------------------------------------------------------------------------
\* The window works on a phone that its list shows as paired, and on no other.
SelectedIsListed == selected => listed

\* Once the service has said so and nothing is on its way, the window shows what
\* the phone's pairing is, unless something was lost or overtaken on the way
\* (every answer replaces the list, in the order in which the tasks end).
ListSettles ==
    (~noticed /\ UnderWay = 0 /\ served = paired /\ ~spoilt) => listed = paired

SettingsInv == WindowTypeOK /\ SelectedIsListed /\ ListSettles

Clicked(p, on) ==
    \E i \in DOMAIN clicks : clicks[i] = [plugin |-> p, on |-> on]

\* A click that switches a plugin off gets to the registry, whatever else is
\* clicked or under way (app_rx is taken in order, one handler at a time).
ClickTakesEffect ==
    \A p \in Plugin : Clicked(p, FALSE) ~> (Idle /\ p \in gate)
=============================================================================
