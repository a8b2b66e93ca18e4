----------------------------- MODULE PluginGate -----------------------------
(***************************************************************************)
(* Which plugins of one phone are switched off.  The fact is kept three    *)
(* times: in the file <id>_plugins.json, in the plugin registry the event  *)
(* loop consults (plugin_interface.rs), and in the capabilities the phone  *)
(* was told in the handshake of its connection (transport.rs).             *)
(*                                                                         *)
(* The event loop runs one handler at a time; the handler that switches a  *)
(* plugin is four steps here because handshakes, which read the same file, *)
(* run in tasks of their own.  What pairing and connections promise beyond *)
(* this is CoreLoop's.                                                     *)
(***************************************************************************)
EXTENDS Naturals

CONSTANTS
    Plugin,       \* the plugins that can be switched
    Gated,        \* those whose packets packet_plugin_id assigns to them
    Announced,    \* those whose capabilities the handshake can withhold
    Seed,         \* off as long as there is no file
    Conn,         \* connection instances
    NoConn,
    DiskMayFail   \* whether a write to the file can fail

ASSUME PluginAssumption ==
    /\ {Gated, Announced, Seed} \subseteq SUBSET Plugin
    /\ NoConn \notin Conn
    /\ DiskMayFail \in BOOLEAN

VARIABLES
    file,      \* the file: absent, cut off in the middle of a write, or whole
    gate,      \* PluginRegistry.disabled for this phone; no entry is {}
    paired,    \* the phone is paired
    current,   \* the registered connection
    link,      \* per connection: how far it is, what it was told is off, and
               \* (history) whether the file changed before it was registered
    saving,    \* the handler of SetPluginEnabled, and the set it computed
    running,   \* plugins at work on a packet of the phone
    wish,      \* history: what the user last said of each plugin
    since      \* history: plugins the user switched in this run

connVars == <<current, link>>
history == <<wish, since>>
gateVars == <<file, gate, paired, current, link, saving, running, wish, since>>

File == [state : {"absent", "torn", "whole"}, off : SUBSET Plugin]
Link == [phase     : {"gone", "offered", "live"},
         withheld  : SUBSET Plugin,
         overtaken : BOOLEAN]
Saving == [stage : {"idle", "loaded", "opened", "saved"}, off : SUBSET Plugin]

GateTypeOK ==
    /\ file \in File
    /\ gate \in SUBSET Plugin
    /\ paired \in BOOLEAN
    /\ current \in Conn \cup {NoConn}
    /\ link \in [Conn -> Link]
    /\ saving \in Saving
    /\ running \in SUBSET Plugin
    /\ wish \in [Plugin -> {"on", "off", "unsaid"}]
    /\ since \in SUBSET Plugin

Idle == saving.stage = "idle"

\* load_disabled_plugins: what cannot be parsed is read as "all enabled".
ReadFile == CASE file.state = "absent" -> Seed
              [] file.state = "torn"   -> {}
              [] file.state = "whole"  -> file.off

\* filtered_identity_for_device: what a phone connecting now is told is off.
Withheld == ReadFile \cap Announced

\* packet_plugin_id and is_plugin_enabled: packets no id covers always pass.
HeldBack(p) == p \in gate \cap Gated

NoFile == [state |-> "absent", off |-> {}]
Torn == [state |-> "torn", off |-> {}]
Whole(off) == [state |-> "whole", off |-> off]

NoLinks == [c \in Conn |-> [phase |-> "gone", withheld |-> {}, overtaken |-> FALSE]]

\* The links once the file has changed under the handshakes under way.
Overtaken ==
    [c \in Conn |-> [link[c] EXCEPT !.overtaken = @ \/ link[c].phase = "offered"]]

NothingSaving == [stage |-> "idle", off |-> {}]
Unsaid == [p \in Plugin |-> "unsaid"]

GateInit ==
    /\ file \in {NoFile, Torn} \cup {Whole(off) : off \in SUBSET Plugin}
    /\ gate = {}
    /\ paired \in BOOLEAN
    /\ current = NoConn
    /\ link = NoLinks
    /\ saving = NothingSaving
    /\ running = {}
    /\ wish = Unsaid
    /\ since = {}

-----------------------------------------------------------------------------
\* Connections.

\* complete_handshake: reads the file, tells the phone, offers the connection.
Handshake(c) ==
    /\ link[c].phase = "gone"
    /\ link' = [link EXCEPT ![c] = [phase     |-> "offered",
                                    withheld  |-> Withheld,
                                    overtaken |-> FALSE]]
    /\ UNCHANGED <<file, gate, paired, current, saving, running, history>>

\* The handshake fails or is refused, or a connection nobody refers to ends.
Abandoned(c) ==
    /\ link[c].phase # "gone"
    /\ current # c
    /\ link' = [link EXCEPT ![c].phase = "gone"]
    /\ UNCHANGED <<file, gate, paired, current, saving, running, history>>

\* NewConnection
Register(c) ==
    /\ Idle
    /\ link[c].phase = "offered"
    /\ link' = [link EXCEPT ![c].phase = "live"]
    /\ current' = c
    /\ UNCHANGED <<file, gate, paired, saving, running, history>>

Disconnected ==
    /\ Idle
    /\ current # NoConn
    /\ link' = [link EXCEPT ![current].phase = "gone"]
    /\ current' = NoConn
    /\ UNCHANGED <<file, gate, paired, saving, running, history>>

-----------------------------------------------------------------------------
\* Pairing.

Paired ==
    /\ Idle
    /\ ~paired
    /\ paired' = TRUE
    /\ UNCHANGED <<file, gate, connVars, saving, running, history>>

\* Unpair, or the phone's pair:false, whose clean-up follows even when the new
\* state cannot be stored: cleanup_device_data removes the file.  The registry
\* and the connection stay as they are.
Unpaired ==
    /\ Idle
    /\ paired' = FALSE \/ (DiskMayFail /\ paired' = paired)
    /\ \/ file' = NoFile /\ link' = Overtaken
       \/ DiskMayFail /\ UNCHANGED <<file, link>>
    /\ wish' = Unsaid
    /\ since' = {}
    /\ UNCHANGED <<gate, current, saving, running>>

-----------------------------------------------------------------------------
\* SetPluginEnabled, step by step.

Switched(off, p, on) == IF on THEN off \ {p} ELSE off \cup {p}

\* The stored set is loaded and changed in memory.
SetPluginEnabled(p, on) ==
    /\ Idle
    /\ saving' = [stage |-> "loaded", off |-> Switched(ReadFile, p, on)]
    /\ wish' = [wish EXCEPT ![p] = IF on THEN "on" ELSE "off"]
    /\ since' = since \cup {p}
    /\ UNCHANGED <<file, gate, paired, connVars, running>>

\* fs::write opens the file, which empties it.  A failure is only logged.
OpenFile ==
    /\ saving.stage = "loaded"
    /\ \/ /\ file' = Torn
          /\ link' = Overtaken
          /\ saving' = [saving EXCEPT !.stage = "opened"]
       \/ /\ DiskMayFail
          /\ saving' = [saving EXCEPT !.stage = "saved"]
          /\ UNCHANGED <<file, link>>
    /\ UNCHANGED <<gate, paired, current, running, history>>

WriteFile ==
    /\ saving.stage = "opened"
    /\ \/ file' = Whole(saving.off) /\ link' = Overtaken
       \/ DiskMayFail /\ UNCHANGED <<file, link>>
    /\ saving' = [saving EXCEPT !.stage = "saved"]
    /\ UNCHANGED <<gate, paired, current, running, history>>

\* Mutants of Apply: only the file is changed; the phone is left connected.
ApplyToFileOnly ==
    /\ saving.stage = "saved"
    /\ current' = NoConn
    /\ saving' = NothingSaving
    /\ UNCHANGED <<file, gate, paired, link, running, history>>

ApplyKeepsConnection ==
    /\ saving.stage = "saved"
    /\ gate' = saving.off
    /\ saving' = NothingSaving
    /\ UNCHANGED <<file, paired, connVars, running, history>>

\* The registry is told and the connection dropped, so that the phone
\* reconnects and is told as well.
Apply ==
    /\ saving.stage = "saved"
    /\ gate' = saving.off
    /\ current' = NoConn
    /\ saving' = NothingSaving
    /\ UNCHANGED <<file, paired, link, running, history>>

Saves == OpenFile \/ WriteFile \/ Apply

-----------------------------------------------------------------------------
\* Mutant of Dispatch: the gate is not asked.
DispatchUngated(p) ==
    /\ Idle
    /\ current # NoConn
    /\ paired
    /\ running' = running \cup {p}
    /\ UNCHANGED <<file, gate, paired, connVars, saving, history>>

\* dispatch of a packet of plugin p
Dispatch(p) ==
    /\ Idle
    /\ current # NoConn
    /\ paired
    /\ ~HeldBack(p)
    /\ running' = running \cup {p}
    /\ UNCHANGED <<file, gate, paired, connVars, saving, history>>

\* A plugin has finished with its packets.
Finishes(p) ==
    /\ p \in running
    /\ running' = running \ {p}
    /\ UNCHANGED <<file, gate, paired, connVars, saving, history>>

\* The service stops, at any point, and is started again.
Restart ==
    /\ gate' = {}
    /\ current' = NoConn
    /\ link' = NoLinks
    /\ saving' = NothingSaving
    /\ running' = {}
    /\ since' = {}
    /\ UNCHANGED <<file, paired, wish>>

PhoneStep ==
    \/ \E c \in Conn : Handshake(c) \/ Abandoned(c) \/ Register(c)
    \/ Disconnected
    \/ Paired
    \/ \E p \in Plugin : Dispatch(p) \/ Finishes(p)

GateNext ==
    \/ PhoneStep
    \/ Unpaired
    \/ \E p \in Plugin, on \in BOOLEAN : SetPluginEnabled(p, on)
    \/ Saves
    \/ Restart

GateSpec == GateInit /\ [][GateNext]_gateVars

-----------------------------------------------------------------------------
\* Between two handlers the registry and the file hold what the user last said
\* in this run, although each switch starts from what the file says
\* (SetPluginEnabled loads, changes and saves the whole set).
GateFollowsUser ==
    Idle => \A p \in since :
        /\ p \in gate <=> wish[p] = "off"
        /\ p \in ReadFile <=> wish[p] = "off"

\* What makes it inductive: while the handler runs, the set it will store.
SavingFollowsUser ==
    /\ \A p \in since : wish[p] # "unsaid"
    /\ ~Idle => \A p \in since : p \in saving.off <=> wish[p] = "off"
    /\ saving.stage = "saved" => ReadFile = saving.off

\* A plugin the user has switched off in this run does not go to work on a
\* packet, whatever the phone was told and however late the packet arrives
\* (dispatch).
WorkOnlyIfEnabled ==
    [][ \A p \in (running' \ running) \cap Gated \cap since : wish[p] = "on" ]_gateVars

\* transport.rs:614 "so the phone receives accurate capabilities on every
\* connection": once the user has switched a plugin of the phone, a connected
\* phone was told what the file says, unless the file changed between its
\* handshake and the registration of its connection (filtered_identity_for_device
\* reads it in the handshake's own task; SetPluginEnabled drops only the
\* registered connection).
ConnectedWasTold ==
    Idle /\ since # {} /\ current # NoConn /\ ~link[current].overtaken =>
        link[current].withheld = Withheld

\* What makes it inductive.
HandshakeWasTold ==
    /\ current # NoConn => link[current].phase = "live"
    /\ \A c \in Conn :
          link[c].phase = "offered" /\ ~link[c].overtaken => link[c].withheld = Withheld
=============================================================================
