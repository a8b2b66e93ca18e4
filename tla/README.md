# A TLA+ model of kdeconnect (COSMIC applet, service and core)

This directory specifies the program in `src/`: a KDE Connect implementation in
Rust made of a protocol core (`kdeconnect-core`), a session service that owns it
and publishes it over D-Bus and Varlink (`kdeconnect-service`), and a panel applet,
a settings window and an SMS application that use the service
(`cosmic-ext-connect-applet`). The modules are translated from the code; the
configurations check them on small instances with TLC; the modules whose name ends in
`Proofs` prove the central results for every instance with TLAPS.

`PROJECT.json` lists, per definition, the lines it stands for (`map`), the runs, the
hazards, the disagreements found between code and documentation (`findings`), and
for each property a plausible bug (`mutants`) that the property catches. The mutants
are the definitions whose comment begins with "Mutant of"; nothing else uses them.

## 1. The system

### 1.1 Processes and how they interact

    phone  <--TLS-->  connection task ──┐  transport_rx (bounded, 16)
                                        ├──> event loop ── writer_map ──> connection task
    plugins' own tasks ── event_tx ─────┤  event_rx (unbounded)
    D-Bus / Varlink calls ── AppEvent ──┘  app_rx
                                        │
                                        └── conn_tx ──> service task ── signals ──> applet
                                                   └──> MPRIS bridge

* One **event loop** (`lib.rs`, `run_event_loop`) owns the device manager and the maps
  of connections. It takes one event from any of three queues, in no fixed order, and
  runs its handler to the end before it takes another.
* Each **control connection** is a task of its own: it ends by itself (peer closed, I/O
  error) or because the loop drops the sender that feeds it, and reports through the
  bounded transport queue.
* **Plugins** run inside the loop when a packet is dispatched; some (MPRIS, PulseAudio,
  SFTP, payloads) start tasks or threads that talk back through `event_tx`.
* The **service** handles the core's announcements one at a time and keeps what the UIs
  show. UIs poll lists and listen to signals.

### 1.2 Components

| Component | State | Operations | What is hard | What makes it correct | Module |
|---|---|---|---|---|---|
| Event loop (`lib.rs`, `event.rs`) | `conn_id_map`, `writer_map`, three queues, listeners | one handler per transport, core and user event | a change announced through one queue is overtaken on another; work queued under an old connection | no effect outside the current, trusted connection; an old connection's end never removes its successor | `CoreLoop` |
| Device records (`device.rs`) | `<id>.ron`, in-memory `Device` | load, bind certificate, store, `set_paired`, `update_pair_state` | memory and file written one after the other, either may fail; pending or legacy records on disk | memory and file trust the same certificate | `DeviceStore`, `CoreLoop` |
| Pairing (`pairing.rs`) | pair state in the device | request, accept, reject, unpair, from either side | clicks and packets cross, phones reconnect in between | trust only after both sides agreed in one exchange | `CoreLoop` implements `Trust` |
| Control connections (`transport.rs`) | per connection: peer, certificate, writer | TLS handshake, offer to the core, deadline, read, write, end | the deadline races the core's answer | no connection that was served stays registered after its end | `CoreLoop` |
| Discovery, handshake slots (`transport.rs`) | 32 slots, UDP socket, address→connection attempts | broadcast, identity, connect | slots at their limit, repeated broadcasts | – | not modelled: they decide which connections are offered, `CoreLoop` lets any be |
| Device list (`dbus_interface.rs`) | `devices`, `current_device_id` | `handle_event` for every announcement | announcements in another order than the changes | when all is handled the list agrees with the core | `DeviceList` |
| Plugin registry (`plugin_interface.rs`, `plugin_config.rs`) | disabled plugins: on disk, in memory; capabilities sent in the handshake | toggle, dispatch, load, clean-up at unpairing | three copies of one fact, refreshed at different times; handshakes read the file while it is written | a plugin that is off does no work; the phone is told what is off | `PluginGate` |
| Settings window (`settings.rs`) | device list, fetches under way, selected device, shown switches, one awaited answer | fetch, select, load, toggle | answers in any order, lost signals, clicks behind slow handlers | it works on a paired phone, its list settles, every click takes effect | `PluginSettings`, extending `PluginGate` |
| Receiving files (`share.rs`, `sms.rs`, `download.rs`, `filetransfer.rs`, `receive_payload` in `transport.rs`; the list of transfers in `dbus_interface.rs`) | temporary and published files, announced statuses, 50 recent transfers | connect, verify, copy, validate, publish, report, record | stall, cut, oversize, wrong peer, name collision, kill | whole files only, nothing replaced, one true final result | `PayloadReceive` |
| Sending files (`plugin_interface.rs`, `filetransfer.rs`) | 30 ports, one progress value | listen, announce, accept, copy | a phone that never connects keeps the port | progress ends | not modelled |
| SFTP (`sftp.rs`) | the host's mount table, `MOUNTS`, a lock per device | browse, open, unmount, unmount all | operations that wait between reading the table and acting on it; ejected and dead shares; two devices of one name; an unreadable table | operations on a phone exclude each other; a phone whose name is its own is never shown another's files | `SftpMounts` |
| System volume (`systemvolume.rs`) | PulseAudio threads, the sender registered for the phone | connect, drain, end | an old thread's clean-up after its replacement; messages merged | the registered sender has a thread, others end | `SystemVolume` |
| Notifications (`notification.rs`) | bounded history of fingerprints | show, dismiss, forget a failed one | eviction, repeats, failures | news is shown, a repeat is not while it is remembered | `Notifications`, `PhoneEvents` |
| Clipboard (`clipboard.rs` in service and plugins) | cached content, awaited echo, reads under way | selection change, text from phone, connect | a read that finishes late; the echo of the phone's text; the first selection of each seat | the cache is the selection; no echo to the phone; nothing private leaves unasked | `ClipboardSync` |
| Media and calls (`mpris.rs`, `telephony.rs`) | desktop players known and watched, those paused for a call, a channel of one signal; proxies of phone players, their art | call events, polling, lists, states, controls, art | overlapping calls, players that vanish, lists against controls, downloads out of order | every call is acted on, nothing else is started; proxies show what the phone does | `DesktopPlayers`, `PhoneEvents`, `PhonePlayers` |
| SMS cache (`dbus_interface.rs`) | per-device messages, in memory and in a file | merge, save, seed | partial batches, failed writes, restarts | what was saved is kept | `SmsCache` |
| SMS application (`plugins/sms/*`) | conversations, the open thread and its index, hidden ones, read marks | open, send, begin a chat, delete, batches | answers for another thread; the echo of an optimistic message; deleting | each message once, the open thread whole and read, deleted stays deleted | `SmsWindow`, extending `SmsCache` |
| Applet (`main.rs`, `backend.rs`) | device cards, pairing cards, transfers | poll every 10 s while open, signals, clicks | a poll result older than a signal | a card goes away when its request does | not modelled |
| Status and command plugins (`battery.rs`, `ping.rs`, ...) | – | one packet, one announcement or answer | – | – | the announcement and `PluginSends` in `CoreLoop` |
| D-Bus and Varlink front ends, client library | – | forward a call, read a map | none of their own: one `AppEvent` each | – | `AppStep` in `CoreLoop` for the calls that reach the loop |
| Packet format, configuration, keys (`protocol.rs`, `config.rs`, `crypto.rs`) | read once at start | serialise, load | – | – | not modelled: data and I/O |
| Rendering, theme, portal, process start | – | – | – | – | not modelled |

## 2. The modules

| Module | What it is |
|---|---|
| `Trust` | the abstract specification of pairing: certificates, two agreements, revocation, restart |
| `DeviceStore` | the data of `device.rs`: the stored record, the device in memory, and the functions between them; no state |
| `CoreLoop` | the event loop with device manager, pairing manager and control connections; extends `DeviceStore`; refines `Trust` |
| `DeviceList` | the service's list composed with `CoreLoop`, whose announcements it consumes |
| `PluginGate` | the plugins switched off for one phone: file, registry, what the phone was told |
| `PluginSettings` | the settings window's device list and switches, composed with `PluginGate`, which takes its clicks |
| `PayloadReceive` | the files a phone sends, up to the list of recent transfers |
| `SftpMounts` | the operations on a phone's share, the shutdown, the host's mount table |
| `ClipboardSync` | the clipboard worker, its reading threads, and the service between it and a phone |
| `SmsCache` | a phone's messages and the service's cache of them |
| `SmsWindow` | the SMS window, composed with `SmsCache` |
| `SystemVolume` | the PulseAudio threads of one phone |
| `DesktopPlayers` | the supervisor of the desktop's players, with the signals of calls |
| `Notifications` | the tracker of notifications |
| `PhoneEvents` | `DesktopPlayers` and `Notifications` behind the one dispatcher that waits in both |
| `PhonePlayers` | the proxies of a phone's players |
| `CoreLoopProofs`, `DeviceListProofs`, `PluginProofs`, `PayloadReceiveProofs`, `SftpMountsProofs`, `ClipboardProofs` | the theorems about the module of that name, or, of `PluginProofs`, about `PluginGate` and `PluginSettings` |
| `MediaProofs` | the theorems about `SystemVolume` and `PhonePlayers` |
| `EventsProofs` | the theorems about `PhoneEvents`, `SmsCache` and `SmsWindow` |
| `MC...` | values of constants and symmetry sets for TLC |

### 2.1 `CoreLoop` against the code

Every handler of the loop runs to its end, so it is one action that makes all the
changes the handler makes: `AcceptConnection` reloads the device from its file, binds
the certificate, registers connection and writer, announces the device and, for a
paired one, sends the contacts request and queues the command request; `AcceptTooLate`
is the same handler when the handshake has meanwhile given up, with the roll-back the
code does. Between the two lies a third outcome: the deadline (`spawn_handshake`) elapses
after the handshake last looked at the acceptance and before its receiver is dropped. Then
`accepted.send(true)` succeeds although no task will run, and the core registers and
announces a connection that nobody serves and whose end nobody reports: the phase
`abandoned`, which `AcceptConnection` chooses freely. Such an entry stays until the phone
reconnects, the user disconnects or switches a plugin, or the service restarts; the roll-back
does not reach it, and the properties about the end of connections
(`DeadEntryIsBeingRemoved`, `DeadEntryIsRemoved`) say that they except it.

| Variable | Code |
|---|---|
| `disk` | `<id>.ron` files; absent or unreadable is `Blank` |
| `devices` | `DeviceManager.devices`; `cert = NoCert` means not in the map |
| `connId`, `writer` | `conn_id_map`, `writer_map` |
| `link`, `out` | per connection task: peer and certificate, phase; packets given to its writer |
| `transportQ`, `eventQ`, `connQ` | `transport_rx`, `event_rx`, `conn_tx` |
| `phoneYes`, `userYes` | history variables: who agreed in the exchange in progress |

User clicks (`AppStep`) are actions that may happen at any time rather than a third
queue: the order in which the loop takes clicks relative to everything else is free
either way. `Restart` may happen between any two steps; it keeps only `disk`, and `Init`
starts from any file an earlier run, or an earlier version (paired without a pin), may
have left. When `DiskMayFail`, each write of a device file may fail, leaving file,
memory and queue as they were, as the early returns of `device.rs` do. The bytes of
a record are abstract: name and address are refreshed from every connection and no
property here depends on them, and a file that cannot be parsed is `Blank`.

A connection instance (`Conn`) is reused once no queue and no map holds it, which is
how an unbounded supply of `conn_id`s is represented finitely.

### 2.2 `DeviceList` against the code

`shown` is the `devices` map (its `is_paired` and `is_reachable`), `current` is
`current_device_id`, the device that battery and signal are attributed to.
`HandleEvent` is `handle_event` for one announcement; announcements that do not
touch these two (SMS, contacts, transfers, clipboard) are not in the core's queue
here. Restart rebuilds the list from the files, as `KdeConnectService::new` does.

### 2.3 `PluginGate` and `PluginSettings` against the code

| Variable | Code |
|---|---|
| `file` | `<id>_plugins.json`: absent (a seed list is used), cut off inside a write (`fs::write` truncates first; what cannot be parsed counts as nothing disabled), or whole |
| `gate` | `PluginRegistry.disabled` for the phone |
| `current`, `link` | the registered connection; per connection, which plugins its handshake withheld |
| `saving` | how far the handler of `SetPluginEnabled` is |
| `running` | plugins at work on a packet that `dispatch` let through |
| `wish`, `since`, `link.overtaken` | history variables: what the user last said, what was switched in this run, whether the file changed between a handshake and its registration |

A handler of the loop runs to its end, but handshakes read the same file in tasks of
their own, so the switch is four steps (load, open, write, apply) that only handshakes
and a kill can come between; every other action of the loop waits for `Idle`. Packets
whose type `packet_plugin_id` does not assign to a plugin are never held back, and only
some plugins' capabilities are withheld in a handshake: these are the constants `Gated`
and `Announced`. The instance has two ordinary plugins, `share` and `sms`, and `mousepad`,
which is off as long as there is no file, whose packets are not gated and whose
capabilities are not withheld.

`PluginSettings` adds the window. Its list: `served` (what the service's list says of the
phone), `noticed` (a signal of a change not yet handled), `fetches` (tasks of
`fetch_devices`, counted by what they have read), `listed` (`devices`). Its panel:
`selected`, `view` (`plugin_states`), `answer` (the one outstanding `GetDisabledPlugins`,
read by the service without the event loop) and `clicks` (the `SetPluginEnabled` events in
`app_rx`, of which the loop takes the next when it is idle). Each fetch is a task of its
own and its answer replaces the list, so answers arrive in any order; `spoilt` remembers
that a signal was lost or that an answer may have been overtaken, which the property about
the list excepts because the code does nothing about it. The list may also hold another
phone, which the window then selects. This is the service while it stays up, so it has no
restart; what a restart does to the gate is in `PluginGate`.

### 2.4 `SystemVolume` against the code

`entry` is the phone's sender in `PA_CONNECTIONS`, `phase` and `queue` belong to a thread
(`pa_thread`) and its channel, `notify` are subscribe callbacks PulseAudio has still to
run, `mixer` is PulseAudio's state (external), `told` the last sink list sent to the phone.
One pass of the message loop is one action: it takes the first message and, as the code
does, those that follow it up to the first of another kind, that one included. A thread
instance is reused after it has ended.

### 2.5 `PayloadReceive` against the code

Each transfer is a task; its `phase` says at which `await` of `receive_file_inner` /
`receive_payload` it is, and an action is the code from one `await` to the next. `Fail` is
any early return: the `Download` is dropped with its temporary file and the failure
reported. `folder` says who made the file at each destination (a transfer, the user, or
nobody), so that `persist_noclobber` can meet files that appeared meanwhile. `statusQ` and
`recent` are the announcements and the service's list; a progress report is sent or not
(it is throttled by time). Sizes are counted in chunks; the last progress need not be the
size. The phone's identity and the bytes are abstract: a wrong certificate, an oversize
chunk, a stall and an I/O error all end in `GivesUp`. A restart may happen at any time; it
leaves temporary files, as the code does, and forgets the list.

### 2.6 `SftpMounts` against the code

| Variable | Code |
|---|---|
| `table` | the host's mount table: per mount point the shares mounted there, the last one on top (external) |
| `legacy` | shares an earlier version of the program has left mounted at its old place |
| `registered` | `MOUNTS` |
| `lock` | `OP_LOCKS` |
| `task` | the tasks of `browse`, `open_mounted`, `unmount`: device, mount point, what was last read, how far it is |
| `closing` | the snapshot of `unmount_all`, as far as it has not been worked through |
| `left` | sshfs and fusermount commands the service no longer waits for (external) |

An action is the code from one `await` to the next. `ReadTable` reads the host's table,
which may fail and then reads as empty (`host_mount_points`); the user ejects shares and
shares die between any two steps; sshfs and fusermount succeed or fail, and mounting over a
mounted point is possible, as it is on the host.

A command the service gives up on is not ended with the operation: the `tokio` command of
`force_unmount` is not killed when `AUX_CMD_TIMEOUT` drops it, and what `child.kill` ends in a
sandbox is `flatpak-spawn`, not the sshfs on the host. Such a command, and any that runs when
the process ends, may stay in `left` and does its work at any later time, or never
(`HelperEnds`). So a fusermount that timed out can take away the share the next browse has
mounted, and an sshfs that timed out can mount a share after the next browse has found none
(`crossed`), which that browse then mounts over. The lock does not protect against either:
`OperationsExcludeEachOther` speaks of running operations, and excepts `crossed`. `unmount_all`
takes no lock, unlike what the comment at `sftp.rs:51` says of every operation, and is modelled
so. A crash clears `MOUNTS` and the tasks and leaves the host's mounts. Device names are constant
in a run.

### 2.7 `ClipboardSync` against the code

`selection` and `inbox` are the compositor (external): the text selected on each seat, and
its events on their way. The worker's loop takes one of them (`HandleSelection`) or one of its
`commands`: `SetText`, or the result of a reading thread (`reads`), which is `late` when its
generation is no longer the current one. `seeded` is `initialized_devices`, `pending` is
`pending_remote_write`, `current` the cached content. `SetText` sets the text on every seat, so
each seat's selection comes back. The service's two ways to the phone are `AutoShare`
(a change is sent, if the settings allow) and `SendConnect`
(`send_clipboard_connect_when_ready`); `leaked` records that a password went through one of
them against the settings. A reading thread may fail and then reads nothing.

`quiet` is the text last set for the phone while nothing else was under way, which must not be
sent back. It ends when an application copies that text, and in one more case, in which the code
does send it back: each seat reports the text, and when one of them is found empty or cannot be
read (`Clear`) the worker forgets what it waited for (`clipboard.rs:388-394`), so that the next
seat's report of the text counts as the user's (`QuietToCome`). `clipboard.rs:170` says
without exception that such changes are not emitted. With one seat nothing but the
application's copy ends it.

### 2.8 `SmsCache` and `SmsWindow` against the code

`SmsCache`: `requests` and `wire` are the packets between the desktop and the phone, which
repeats the newest message of every conversation or one conversation in part; `memory` and
`file` are the service's cache. All messages have the same text, since the window recognises the
user's own by its text: this is the worst case. A message's ID is the time it was made; the
"sending_" ID of an optimistic message is that time made negative. `linked` says that the phone is
paired and has a connection. It comes (`PhoneConnects`) and goes at any time, alone (`LinkLost`),
with the pairing (`Unpairs`) or with the service (`ServiceRestarts`):

* Requests on their way are lost with it, and the phone's packets but for those the core has
  already passed on, since the core drops what comes from an ended connection (`Unlinks`).
* What is asked of the phone without a link is dropped and nobody is told (`Asks`,
  `lib.rs:507-515`), and the phone reports nothing it makes meanwhile. Nothing is repeated when the
  link is back: only pairing makes the service ask, for the newest message of each conversation.
* `save_sms_cache` empties the file before it writes, so a write that fails or is cut off by the end
  of the service leaves the file as it was, empty, or written. `file` is what can be read of it:
  nothing, of a torn one.
* Unpairing removes the file, if that succeeds, and nobody clears the memory: the next packet
  saves all of it again.

`SmsWindow`: `stream` and `inbox` are the event stream and what it has given to `update`,
`messages` and `index` the open thread and its `MessageIndex`, `convs` the list of
conversations with the date of each. Every branch of `update` that changes them is an action.
A batch is a set, and its messages are merged in any order (`SetToSeqs`), since the order is that of
the phone's packet or of the cache; the list is then sorted by date and stays as it was where dates
are equal (`ByDate`), as `sort_by_key` does. The desktop's clock and the phone's differ
(`DesktopAhead`, `PhoneAhead`; they do not drift): an optimistic message and the entry of its
conversation have the desktop's date, what the phone reports has the phone's (`Date`).

`unheard` records that something of the open thread was never asked for, was made or sent without
a link, or was lost on its way. The code repairs this only when the thread is opened again, so
`ThreadIsComplete`, `OpenIsRead` and `OwnShownOnce` except it. Of a desktop whose clock is ahead
`OpenIsRead` allows that the open conversation is newer than what was seen of it by that
difference (`Lag`): the window then marks it as unread until the next message.

### 2.9 `DesktopPlayers`, `Notifications`, `PhoneEvents` and `PhonePlayers` against the code

`DesktopPlayers`: `monitor` is the supervisor's loop (a signal taken from the channel, players
paused or resumed one after another, then the list compared with the known one), `kept` is
`paused_players`, `known` and `watched` the two sets of names, `watchers` the threads. Users and
applications start, close and use `player`s at any time. `telephony` is how far a telephony
packet's handler is: it waits while the `signal` channel is full.

`Notifications`: `seen` is the history in the order of its sequence numbers; `showing` is the
notification the handler waits for the desktop to show, under the lock. `PhoneEvents` puts the
two behind `dispatch`, which handles one packet at a time and waits in both handlers.

`PhonePlayers`: `active` is `active_players` with what each proxy shows, `requested` is
`requested_art`, `soon` the queries 200 ms after a control, `fetching` the downloads of art,
`events` the announcements `expose_phone_mpris` has still to take. The phone (external) changes
its players at any time, refuses controls it likes, and answers every request; its reports always
say whether the player is playing (`expose_phone_mpris` replaces the whole state by the report, so
one without it would show a player as stopped, `mpris.rs:976`). `link` is the
connection: `up`, `dead` once it broke and nothing more gets through, `down` once its end has been
announced, which comes after everything that was sent over it.

## 3. What is checked

| Run | Question | Instance |
|---|---|---|
| `core_safety` | does pairing implement `Trust`; do maps, memory and files agree; are entries those of live peers; is a pending request always from this exchange; does a packet take effect only over the current connection of a trusted device? | 1 device, 2 certificates, 2 connections, writes may fail |
| `list_converges` | when everything has been handled, does the list agree with the core; does a dead entry go away, does a pairing get shown? | 2 connections, fair |
| `gate_kept` | do registry and file follow the user, does a plugin that is off stay idle, was a connected phone told? | 3 plugins, 2 connections |
| `clicks_taken` | does the window work on a listed phone, does its list settle, does every click that switches a plugin off reach the registry? | 1 plugin, 2 clicks, 2 fetches, fair |
| `payload_receive` | whole files only, nothing replaced, nothing left behind, one true final result, no transfer for ever "receiving"? | 2 transfers of one name, list of 1, fair |
| `sftp_mounts` | do operations on a phone exclude each other; is what is opened the phone's own; is what is listed mounted? | 2 phones, 1 or 2 names, 2 tasks, 2 shares at a time, a command left of one phone |
| `clipboard` | is the cache the selection; is the phone's text not echoed (but for the case of 2.7); do old texts and passwords stay home? | 2 seats, 4 texts (old, two, a password), 2 events, 2 reads |
| `sms_window` | each message once, the open thread whole and read, deleted ones away, nothing saved lost? | 2 conversations and a new chat, 3 messages, links that break, a desktop whose clock is ahead |
| `phone_events` | is every call acted on; is nothing started unasked; is news shown and a repeat not? | 1 player, 3 notifications of 2 phones, history of 2, fair |
| `phone_players` | do proxies end up showing what the phone does and go with its players; is art shown? | 1 player, 2 pictures, 4 packets under way |
| `volume_threads` | does a registered sender have a thread, and does a thread that lost its sender end? | 2 threads, queue 2, fair |
| `call_end_resumes` | (violation) are the players that a call paused resumed at its end? | 1 player |

`call_end_resumes` states what a comment of the repository says, "resume any paused players"
at the end of a call (`telephony.rs:42`), and shows the code doing otherwise: a call that rings
and is then answered signals twice; the supervisor clears `paused_players` at each signal and
then keeps what it pauses, which the second time is nothing.

Other behaviours met while modelling are modelled as the code has them; the most important are
noted under `hazards`. Those that differ from what a comment says: the registry does not know
after a restart what is off in its file; `unmount_all` takes no lock; after an unpairing, which
removes "all persisted data" (`lib.rs:737`), the SMS cache in memory is saved again with the next
packet once the phone is paired anew; a player restarted between
two polls is never watched again; a superseded PulseAudio thread removes its successor's entry.
Those no document speaks of: a connection accepted at the very deadline of its handshake stays
registered without a task; `RejectPairing` unpairs a device paired meanwhile; a pairing
announced after the disconnection marks a phone as reachable; battery and signal are attributed
to the device that connected last; after a failed write of the plugin file the next switch
undoes the choice; an answer on its way overwrites a click or a newer list in the settings
window; merging volume messages drops one; a killed process leaves its temporary files; a text
the phone sends while an application copies is echoed, and so is one for which, of two seats, the
first to report it cannot be read; the end of one phone's call resumes players during another's;
art that failed to load is not asked for again; a text message sent without a connection is dropped
and stays shown; an SMS cache whose writing was cut off is gone after a restart; the open
conversation is marked unread after a send when the desktop's clock is ahead.

### 3.1 Bounds

`TransportCap` is the code's 16 made smaller: the channel is bounded in the code too, a
task waits while it is full. `EventCap` and `UiCap` bound queues that are unbounded in the
code; a handler that would have to append to a full queue waits. This only removes
behaviours in which more than that many announcements are pending. One pending
announcement already allows every overtaking between queues, and two allow an order
inside one queue to matter. One device suffices for the trust and registry properties,
as no handler relates two devices (the maps are indexed by device; the proofs cover any
number). Two connections are an old one and its successor. Two certificates are the pinned
one and another.

`ClickCap = 2` lets a click wait behind another; that the switches of several plugins do
not undo each other is `GateFollowsUser`, checked with three. `FetchCap = 2` is one fetch
that can overtake another. `clicks_taken` has no connections: they make no difference to the
window, and `gate_kept` checks what they do to the gate.

In `payload_receive` two transfers compete for one name with one alternative
(`MaxSuffix = 1`), a payload of one chunk can be empty, cut off and whole, and a list of one
entry makes each report of one transfer drop the other's: the proofs cover every size, suffix
and length. In `sftp_mounts` two tasks are two operations at once, of one phone or of two;
`ShareCap = 2` is a share over another, and only one of the phones may have an old mount and a
command that outlives its operation; the proofs cover any number of phones, tasks, shares and
commands.

`clipboard`: two seats give two first selections and echoes of one text; `InboxCap`
bounds what applications and the phone have set and the worker has not seen, `ReadCap` lets a
slow read be overtaken. `sms_window`: three messages are one that was there, one the user sends
and one that comes in between (`EchoWindow = 4` makes any of them a possible echo);
`InboxCap = 2` is a batch behind another one for another thread; the link may break and a write of
the cache fail only while the clock is at most `LastFailure = 3`, which is until the last message
is made: links break and writes fail before, between and after the first two, and the service may
restart at any time. `DesktopAhead = 1` is the case in which a report is older than what it is the
echo of; the phone's clock ahead is left to the proofs, which cover every value of all these (only
`OwnShownOnce` needs an echo's window that no report misses, as `EchoWindow = 4` is here). Bounds
apply where something
new begins (a message, a request), never to a handler, so no bound stops what is under way.
`phone_events`: a history of two with three notifications evicts; one player suffices, as
players do not influence each other. `phone_players`: one player, since keys of different
players never meet; two pictures are a track and the next; `FlightCap` bounds what is on its
way when the phone or the user begins something new. Two volume threads are one and its
successor; `QueueCap = 2` is a message and the one that ends the merging.

### 3.2 Fairness

`LoopFairness` assumes of the program only what its scheduling gives: `select!` takes
its branches in random order, so an event at the head of a queue is handled in the end
(strong fairness, because the bounds on the event queues can switch a handler off for a
while where the code's queues would not); a task whose sender was dropped ends; the
handshake deadline expires. Nothing obliges a phone to send, to close or to accept, nor
a user to click.

`WindowSpec` of `PluginSettings`: the handler of a switch goes on once it has begun (its file
operations return), and the loop takes the next click when idle. Both are weak: nothing can
disable them for ever. `PaFairness`: a thread that is ready takes a step and PulseAudio answers
and calls back, in spite of contexts that are lost again and again (strong, since each loss
switches the thread's steps off; the code's loop looks at its messages in each pass that
finds the context ready). Without it a PulseAudio that is never ready keeps a superseded
thread for ever, which the code does allow. `RecvFairSpec`: a transfer's task goes on where it
waits for local files and gives up where it waits for the phone (the deadlines of
`receive_payload`), and the service handles what is announced; the phone owes nothing. That
the copy ends although each read puts the deadline off rests on the announced size, which the
code checks before each write. `EventsSpec`: the supervisor's loop polls for ever, the handler
under way goes on and the desktop answers what it is asked to show; a full channel delays a
call's handler, and only the supervisor's fairness empties it.

## 4. What is proved

### 4.1 `CoreLoopProofs`

For any sets of devices, certificates and connections, any bounds, and whether or not
writes fail (assumptions `NoCertAssumption`, `NoConnAssumption`, `DiskMayFailAssumption`,
`CapAssumption`):

* `TypeCorrect`: `Spec => []TypeOK`;
* `Inductive`: `Spec => []IndInv`, and from it `MemoryAgrees`, `EntryAuthentic` and
  `PendingFresh`;
* `EntriesSound`: `Spec => []EntriesAreSound`, a registered connection is the trusted peer's
  and alive, or its end is on its way, or it was accepted at the deadline of its handshake
  and never served;
* `LiveEntryKept`: `Spec => StaleEventKeepsLiveEntry`, no end of an old connection removes a
  live one;
* `EffectsAreTrusted`: `Spec => EffectOnlyUnderTrust`;
* `Refinement`: `Spec => ImplementsTrust`, pairing implements `Trust`.

**The invariant.** None of the conjuncts is inductive alone. `MemoryAgreesWithFile` is
preserved by approving a request only because a device whose request is pending has a
certificate to pin, which is `StateIsBacked`; `EntryIsAuthentic` says which certificate
the registered connection carries, and is preserved when a device is approved because
the certificate that is pinned is the one the connection presented.
`PendingIsFromThisExchange` is what makes the refinement work: the step that sets a
device to `Paired` is only possible while one of the two parties has already agreed, and
the other agrees in that very step.

The two properties about the end of connections speak of the contents of `transportQ`. What
makes them inductive is `ReportsInOrder`: a registered connection has left the phase
`offered`; while a connection's arrival or its end is queued it is not live; and a connection
whose arrival is queued is registered for no device and has no other event in the queue. A
connection instance can then be reused without an old report meeting the new use.

**The layout.** Handlers fall into eight kinds (`StepKind`: a step that leaves devices,
files and maps alone; an offer; a reload of a device; a detachment of a connection; what
the phone says; what the user says; the end of an exchange; a restart). One lemma per
handler shows which kind it is; one lemma per conjunct of the invariant goes through the
kinds. `EffectsAreTrusted` first shows that only `PacketReceived` announces a status and
then reads the result off the invariant. `Refinement` maps each kind to a step of `Trust`
or to a stutter (`TrustStep`). The proof of `ReportsInOrder` goes through the steps
of the queue instead: those that append a report, those that take one, and those that leave it
alone.

### 4.2 `PluginProofs`

For any plugins and connections (`PluginAssumption`): `GateTypeCorrect`, and `ToldOnConnect`
(a connected phone was told what the file says). `RegistryFollows` (`GateFollowsUser`) and
`OffMeansOff` (`WorkOnlyIfEnabled`) assume in addition `DiskMayFail = FALSE`: with writes
that may fail they are false, because a switch starts from what the file says. The
inductive invariant adds `SavingFollowsUser`, the set the handler is about to store, and for
`ToldOnConnect` what each handshake under way was told (`HandshakeWasTold`).

For the window, with writes that may fail: `SettingsSound` (`WindowSpec => []SettingsInv`) and
`WindowUsesGate` (`WindowSpec => GateSpec`: window and gate together implement the specification
of the gate alone, so the theorems about it hold of the composition). What makes `ListSettles`
inductive is `FetchesFollow`: as long as nothing was lost or may have been overtaken there is at
most one fetch, and unless a signal has still to be handled, what it has read is what the
service says; when there is none, the window has it.

### 4.3 `DeviceListProofs`

For any devices, certificates, connections and bounds: `ListUsesCore` (`ListSpec => Spec`, so
every theorem of 4.1 holds of core and service together), `StatusReachable`
(`StatusGoesToReachable`, an invariant as it stands once the announcements are typed),
`ConnectedShown` (`ConnectedIsShownReachable`), and `ListAgrees` (`ListAgreesWithCore`).

The last one assumes `DiskMayFail = FALSE`, as the run does, and is false without it: when the
phone unpairs and the file cannot be written, `PairStateChanged` announces a device as unpaired
whose file still says it is paired.

The invariants say what the list will show rather than what it shows. `PairingInv(d)`: take the
core's own queue as coming after the listeners' queue; then the last announcement about the
pairing of `d` that is on its way tells what the file says, and if there is none, the list does.
`ReachInv(d)`: the last announcement that a connected device comes or goes is that it came, or
there is none and it is shown as reachable. Each step of the core is sorted by what it does to
the two queues (`AnnounceKind`: nothing, a write of the file with its announcement, an arrival,
an end, an announcement handed on), and one lemma per kind shows that the end of the queues
stays right.

### 4.4 `PayloadReceiveProofs`

For any transfers, names, sizes and list lengths (`ReceiveAssumption`, `OwnerAssumption`):
`RecvTypeCorrect`, `WholeFiles`, `NoTempLeft`, `TrueResults`, and the action properties
`FinalResults` and `NoOverwriting`. The invariant `RecvInv` says what each phase means for
the transfer's file (`FilesFit`), that a result, in the queue or in the list, is true and
its task over (`ResultsFit`), that nothing about a transfer is queued behind its result
(`ResultsAreLast`), and that the list names a transfer once (`ListedOnce`); the last two are
what `FinalResults` needs. Type correctness is part of the same induction: that a read stays
within the size needs to know that a size was announced. `RecordedList` is the lemma about
`record_transfer_status`.

### 4.5 `SftpMountsProofs`

For any phones, names, tasks and shares (`SftpAssumption`): `MountsSound`
(`MountSpec => []MountInv`) and `Exclusion` (`MountSpec => OperationsExcludeEachOther`). The
invariant adds two facts: every mount point, in the table, in `registered` or of a task,
bears the name of each phone it is used for (`NamesFit`), so that phones of different names
never meet, and where a task has found nothing of its phone mounted, nothing of it has been
mounted since, unless by a command that was left (`OwnIsAway`, `crossed`). Exclusion then rests on
`LockIsHeld`: of two tasks on one phone only one is past taking the lock, and every step of a task
that changes the table is past it. A command that was left is no task's step and holds no lock; what it
may undo is not claimed.

### 4.6 `ClipboardProofs`

For any finite set of seats, any texts and bounds (`ClipboardAssumption`): `CacheIsSound`
(`ClipInv`: once nothing is under way, the cache is what some seat has selected),
`PrivateIsKept` (`PrivateStaysHome`) and `NoEcho` (`PhoneTextIsNotEchoed`). The invariant
`ClipIndInv` adds that at most one read counts as fresh, whether it is being made or waits
as a command (`OneFresh`); that what was on the clipboard at the start is only ever the first
selection of a seat (`OldIsFirst`); that what is read carries the password hint if it is a
password (`ReadsFit`), as do the texts cached and published (`TextsFit`); that the echoes of a
phone's text set in quiet come before every other selection and the text stays cached while
they do (`QuietFits`), unless a seat could not be read and none has still to report the text; and
that the last selection in the inbox is that of its seat, or with an empty inbox the fresh read, or
else the cache, is what some seat has selected (`LastIsTheSelection`). Lemmas say for each step what it does to the fresh read. The seats must
be finite, as `SetText` brings about one selection of each in some order.

### 4.7 `MediaProofs`

`SystemVolume`, for any sinks, levels, threads and queue length: `RegisteredRuns`
(`Spec => []VolumeInv`).
The invariant is inductive as it stands. The lemmas are about the merging of messages: that a
handler takes at least one message and only those that are there (`TakenIs`), and that the
volume it sets is one the phone sent (`NewestIs`); both need that a set of naturals has a least
element, which comes from the library's theorem on well-founded relations.

`PhonePlayers`, for any finite set of names, any pictures and any number of packets under way
(`PlayersAssumption`): `ProxiesGo` (`PhonePlayersInv`), `ProxiesAgree` (`ProxyAgrees`) and
`ArtIsShown` (`ArtIsShownOrComing`). The first two speak only of states in which nothing is on
its way; the invariant `ProxyInv` says what holds before. Of the events about a player that
wait for `expose_phone_mpris` only the last counts (`WillEnd`). `GoInv`: unless the list has still
to be asked for, the last event about a player that does not run takes its proxy away, or there
is no such event and no proxy. `AgreeInv`: the last event about a player says what it does or
takes the proxy away, or it will be asked about, now, on taking the list, or 200 ms after a
control. `ArtInv`: all that is on its way for a player is the picture last asked for, and with
nothing on its way that picture is shown. The lemmas about `WillEnd` (an event is appended, one is
taken) are stated once and serve both of the first two.

### 4.8 `EventsProofs`

`PhoneEvents`, for any players and notifications and a history of any length
(`TrackedAssumption`): `EventsSound` (`EventsSpec => []EventsInv`), `NoReplay`
(`RecentIsNotReplayed`) and `NoNewsIsLost` (`NewsIsShown`). The players' half strengthens
`KnownIsWatched` to all known players, whether they run or not (`PlayersInv`): a player that has
gone and comes back between two steps is otherwise out of reach. The history's half (`NoteInv`)
says what the variables `last` and `since`, which only the properties read, have to do with the
history: an entry holds what was last taken in (`LastIsSeen`), entries behind another one have
been sent since (`LaterIsSince`), and what is no longer tracked has made way for at least
`MaxTracked` others (`ForgottenIsOld`). The last one is preserved because the entry that goes is
the first of a full history: all others in it, and the newcomer, are different notifications
sent since, which is a count of an injection (`FullIsMany`).

`SmsCache` and `SmsWindow`, for any conversations, number of messages and bounds
(`SmsAssumption`, `WindowAssumption`): `ConversationsHold` (`WindowSpec => []WindowInv`) and
`SavedSmsStay` (`WindowSpec => SavedSmsAreKept`). `SavedSmsAreKept` says that the file is lost
as a whole or not at all, and that the memory loses nothing until the service ends. It rests on
both: it is the memory, not the file, that a batch is merged with, so the memory must cover the
file (`CacheCoversFile`) through failed and torn writes, unpairing and restarts. `OpenIsRead` speaks of
states in which nothing is on its way; `ReadInv` says, for every state, that whatever makes the
open conversation newer than it was seen will come to the window in messages for it (`Coming`):
as an event, a batch, an answer still to be asked for, or the phone's report of what the user
sends, whose date on the phone's clock is behind by at most `Lag` (`Latest`). A step that breaks
this chain sets `unheard`. It needs `FromPhone`: all that is cached or on its way is the phone's and
older than the clock.

`InsertKeepsIndex` is about `insert_or_merge` alone: given any list with unique IDs and its
index, and any message of the phone, the message is in the list once afterwards, in the place of
the optimistic message it echoes or at the end; nothing else is lost; IDs stay unique and the
index is what `MessageIndex::rebuild` would make of the list. `ByDateSorts` is about the sort:
the rank of a message (`Place`) is a bijection, so the sorted list is a permutation of the list,
goes by date, and keeps the order of messages of one date.

`NoneShownTwice` (types, `OnlyOpenThread`, `IndexIsInSync`), `EachShownOnce` (`ShownOnce`) and
`ThreadsComplete` (`ThreadIsComplete`) are about the open thread, for batches of any size that come
in any order. Their invariant is `SmsInv` with `ShownInv`, and each part of it is there because the
next one needs it. `Sound` says of a list that its IDs are unique, that what it shows is of the open
thread, older than the clock, and the phone's unless it is being sent (`Real`), and that it shows no
more of the user's messages than the phone has or is still to be sent (`OwnBound`). `CompleteInv`
says for every state that a message of the open thread is shown or will come: it is in an event, in
a packet, or the thread is still to be answered (`OnItsWay`).

* A batch is a recursive function over its length (`InsertAll`). That it exists and what its last
  value is are proved from the least number for which they would fail (`InsertionsAre`,
  `InsertAllIs`, `StepsReachAll`); that every list on the way is `Sound` and has what has come so far
  is `BatchSound`, whose step is `InsertSound`, which rests on `InsertKeepsIndex`. The sort then
  leaves the same messages (`SortedIs`).
* `OwnBound` through an insertion (`InsertBound`): an echo takes the place of one of the user's, so
  the number stays; a message of the user's that is no echo comes only when none is waiting for its
  echo, and then all that are shown are on the phone. Sending adds one to what is shown and one to
  what is unsent, and the phone's report turns one that is unsent into one it has (`UnsentAsked`,
  `UnsentTaken`, which count positions of a queue).

`EachShownOnce` assumes `EchoWindow >= MaxDate`: the property says "if the phone reports what was
sent within the window of an echo, the clocks' difference included", and dates of at most `MaxDate`
then always are. The code's
window is five minutes (`ECHO_MATCH_WINDOW_MS`), and a phone reports what it has sent at once. The
other two theorems need nothing of the kind.

### 4.9 Only model-checked

Every invariant and every action property that a passing run checks is stated by a theorem
above. What remains with TLC:

* All liveness (`DeadEntryIsRemoved`, `PairingGetsShown`, `ClickTakesEffect`, `SignalIsActedOn`
  and the others): fairness and `ENABLED` are outside what the prover treats.
* `OwnShownOnce` with reports later than the echo's window: it is then false, as it is of the code
  (`EchoWindow = 1` in `SmsWindow.cfg` shows it), and `app.rs:226` tests that the late report is
  shown as a second message.

## 5. What is not modelled

* Sending files: one listener per file and one progress value that no other part reads; a
  listener whose phone never connects waits for ever, and there is no step after it.
* Discovery, the 32 handshake slots and the attempts per address: they decide which
  connections are offered, and `CoreLoop` lets any be offered at any time.
* The applet's cards and polling: its list is replaced every ten seconds while it is open; the
  same fetches and signals are modelled for the settings window, which does not poll.
* The files of hidden and read conversations of the SMS window, attachments and contacts.
* A phone's requests to desktop players, and the phone's proxies seen as desktop players.
* Bytes on the wire, serialisation, TLS itself (a connection simply presents one certificate),
  logging, wording, rendering; the front ends, which turn one call into one event.

## 6. Plan

Done: the modules of section 2 with their runs and proofs.

What would add most next, in this order:

1. The sending side of payloads, as a module beside `PayloadReceive`: the listener and its
   port, the announcement, the copy and its progress.
2. The applet's cards against the service's signals and its polling.
3. `PhonePlayers` composed with `DesktopPlayers`, so that a call pauses and resumes a phone's
   own proxies.
4. Two cores composed through one connection.
