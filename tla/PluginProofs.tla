---------------------------- MODULE PluginProofs ----------------------------
(***************************************************************************)
(* Theorems about PluginGate and PluginSettings, for any plugins, any      *)
(* connections and any bounds.  Those about the user's choices assume that *)
(* the file can be written (DiskMayFail = FALSE): a failed write is only   *)
(* logged, and the next switch of another plugin starts from what the file *)
(* says.                                                                   *)
(***************************************************************************)
EXTENDS PluginSettings, TLAPS

\* The inductive invariant: between the steps of a switch it is the set still
\* to be stored that follows the user, and what has been saved is that set.
GateInv == GateTypeOK /\ GateFollowsUser /\ SavingFollowsUser

-----------------------------------------------------------------------------
\* Type correctness.

LEMMA ReadFileType == GateTypeOK => ReadFile \in SUBSET Plugin
<1> SUFFICES ASSUME GateTypeOK PROVE ReadFile \in SUBSET Plugin
  OBVIOUS
<1>1. file.state \in {"absent", "torn", "whole"} /\ file.off \in SUBSET Plugin
  BY DEF GateTypeOK, File
<1>2. CASE file.state = "absent"
  BY <1>2, PluginAssumption DEF ReadFile
<1>3. CASE file.state = "torn"
  BY <1>3 DEF ReadFile
<1>4. CASE file.state = "whole"
  BY <1>1, <1>4 DEF ReadFile
<1>5. file.state = "absent" \/ file.state = "torn" \/ file.state = "whole"
  BY <1>1
<1> QED BY <1>2, <1>3, <1>4, <1>5

LEMMA TypeInit == GateInit => GateTypeOK
<1> SUFFICES ASSUME GateInit PROVE GateTypeOK
  OBVIOUS
<1>1. file \in File
  BY DEF GateInit, File, NoFile, Torn, Whole
<1>2. link \in [Conn -> Link] /\ saving \in Saving
  BY DEF GateInit, NoLinks, Link, Saving, NothingSaving
<1>3. wish \in [Plugin -> {"on", "off", "unsaid"}]
  BY DEF GateInit, Unsaid
<1> QED BY <1>1, <1>2, <1>3 DEF GateInit, GateTypeOK

LEMMA OvertakenType == GateTypeOK => Overtaken \in [Conn -> Link]
<1> SUFFICES ASSUME GateTypeOK, NEW c \in Conn
             PROVE  [link[c] EXCEPT !.overtaken = @ \/ link[c].phase = "offered"] \in Link
  BY DEF Overtaken
<1>1. link[c] \in Link
  BY DEF GateTypeOK
<1>2. (link[c].overtaken \/ link[c].phase = "offered") \in BOOLEAN
  OBVIOUS
<1> QED BY <1>1, <1>2, Zenon DEF Link

LEMMA TypeStep == GateTypeOK /\ [GateNext]_gateVars => GateTypeOK'
<1> SUFFICES ASSUME GateTypeOK, [GateNext]_gateVars
             PROVE  GateTypeOK'
  OBVIOUS
<1> USE PluginAssumption
<1>1. ASSUME NEW c \in Conn, Handshake(c) PROVE GateTypeOK'
  <2>1. [phase |-> "offered", withheld |-> Withheld, overtaken |-> FALSE] \in Link
    BY ReadFileType DEF Withheld, Link
  <2> QED BY <1>1, <2>1 DEF Handshake, GateTypeOK, history
<1>2. ASSUME NEW c \in Conn, Abandoned(c) PROVE GateTypeOK'
  BY <1>2 DEF Abandoned, GateTypeOK, Link, history
<1>3. ASSUME NEW c \in Conn, Register(c) PROVE GateTypeOK'
  BY <1>3 DEF Register, GateTypeOK, Link, history
<1>4. CASE Disconnected
  BY <1>4 DEF Disconnected, GateTypeOK, Link, history
<1>5. CASE Paired
  BY <1>5 DEF Paired, GateTypeOK, connVars, history
<1>6. CASE Unpaired
  <2>1. file' \in File
    BY <1>6 DEF Unpaired, GateTypeOK, File, NoFile
  <2>2. paired' \in BOOLEAN
    BY <1>6, Zenon DEF Unpaired, GateTypeOK
  <2>3. wish' \in [Plugin -> {"on", "off", "unsaid"}] /\ since' \in SUBSET Plugin
    BY <1>6 DEF Unpaired, Unsaid
  <2>4. link' \in [Conn -> Link]
    BY <1>6, OvertakenType DEF Unpaired, GateTypeOK
  <2> QED BY <1>6, <2>1, <2>2, <2>3, <2>4 DEF Unpaired, GateTypeOK
<1>7. ASSUME NEW p \in Plugin, NEW on \in BOOLEAN, SetPluginEnabled(p, on)
      PROVE  GateTypeOK'
  <2>1. Switched(ReadFile, p, on) \in SUBSET Plugin
    BY ReadFileType DEF Switched
  <2>2. saving' \in Saving
    BY <1>7, <2>1 DEF SetPluginEnabled, Saving
  <2> QED BY <1>7, <2>2 DEF SetPluginEnabled, GateTypeOK, connVars
<1>8. CASE OpenFile
  <2>1. link' \in [Conn -> Link]
    BY <1>8, OvertakenType DEF OpenFile, GateTypeOK
  <2> QED BY <1>8, <2>1 DEF OpenFile, GateTypeOK, history, File, Saving, Torn
<1>9. CASE WriteFile
  <2>1. link' \in [Conn -> Link]
    BY <1>9, OvertakenType DEF WriteFile, GateTypeOK
  <2> QED BY <1>9, <2>1 DEF WriteFile, GateTypeOK, history, File, Saving, Whole
<1>10. CASE Apply
  BY <1>10 DEF Apply, GateTypeOK, history, Saving, NothingSaving
<1>11. ASSUME NEW p \in Plugin, Dispatch(p) \/ Finishes(p) PROVE GateTypeOK'
  BY <1>11 DEF Dispatch, Finishes, GateTypeOK, connVars, history
<1>12. CASE Restart
  BY <1>12 DEF Restart, GateTypeOK, NoLinks, Link, Saving, NothingSaving
<1>13. CASE UNCHANGED gateVars
  BY <1>13 DEF gateVars, GateTypeOK
<1> QED
  BY <1>1, <1>2, <1>3, <1>4, <1>5, <1>6, <1>7, <1>8, <1>9, <1>10, <1>11,
     <1>12, <1>13 DEF GateNext, PhoneStep, Saves

\* Every reachable state of the plugin switches is well typed.
THEOREM GateTypeCorrect == GateSpec => []GateTypeOK
BY TypeInit, TypeStep, PTL DEF GateSpec

-----------------------------------------------------------------------------
\* The registry and the file follow the user.

LEMMA FollowInit == GateInit => GateFollowsUser /\ SavingFollowsUser
BY DEF GateInit, GateFollowsUser, SavingFollowsUser, Idle, NothingSaving

\* Steps that leave file, registry, switching and the user's choices alone.
Elsewhere == UNCHANGED <<file, gate, saving, wish, since>>

LEMMA ElsewhereStep ==
    GateFollowsUser /\ SavingFollowsUser /\ Elsewhere
        => GateFollowsUser' /\ SavingFollowsUser'
BY DEF Elsewhere, GateFollowsUser, SavingFollowsUser, Idle, ReadFile

LEMMA PhoneStepIsElsewhere == PhoneStep => Elsewhere
BY DEF PhoneStep, Handshake, Abandoned, Register, Disconnected, Paired,
       Dispatch, Finishes, Elsewhere, history

LEMMA FollowStep ==
    ASSUME DiskMayFail = FALSE, GateInv, [GateNext]_gateVars
    PROVE  GateFollowsUser' /\ SavingFollowsUser'
<1>1. CASE PhoneStep
  BY <1>1, PhoneStepIsElsewhere, ElsewhereStep DEF GateInv
<1>2. CASE Unpaired
  BY <1>2 DEF Unpaired, GateInv, GateFollowsUser, SavingFollowsUser, Idle
<1>3. ASSUME NEW p \in Plugin, NEW on \in BOOLEAN, SetPluginEnabled(p, on)
      PROVE  GateFollowsUser' /\ SavingFollowsUser'
  <2>1. ~Idle' /\ saving'.stage # "saved"
    BY <1>3 DEF SetPluginEnabled, Idle
  <2>2. wish' = [wish EXCEPT ![p] = IF on THEN "on" ELSE "off"]
        /\ since' = since \cup {p}
    BY <1>3 DEF SetPluginEnabled
  <2>3. saving'.off = Switched(ReadFile, p, on)
    BY <1>3 DEF SetPluginEnabled
  <2>4. wish \in [Plugin -> {"on", "off", "unsaid"}] /\ since \subseteq Plugin
    BY DEF GateInv, GateTypeOK
  <2>5. ASSUME NEW q \in since'
        PROVE  wish'[q] # "unsaid" /\ (q \in saving'.off <=> wish'[q] = "off")
    <3>1. CASE q = p
      BY <3>1, <2>2, <2>3, <2>4 DEF Switched
    <3>2. CASE q # p
      <4>1. q \in since /\ wish'[q] = wish[q]
        BY <3>2, <2>2, <2>4, <2>5
      <4>2. wish[q] # "unsaid" /\ (q \in ReadFile <=> wish[q] = "off")
        BY <4>1, <1>3
        DEF GateInv, SetPluginEnabled, GateFollowsUser, SavingFollowsUser
      <4>3. q \in saving'.off <=> q \in ReadFile
        BY <3>2, <2>3 DEF Switched
      <4> QED BY <4>1, <4>2, <4>3
    <3> QED BY <3>1, <3>2
  <2> QED BY <2>1, <2>5 DEF GateFollowsUser, SavingFollowsUser
<1>4. CASE OpenFile
  <2>1. ~Idle /\ ~Idle' /\ saving'.stage # "saved" /\ saving'.off = saving.off
    BY <1>4 DEF OpenFile, Idle, GateInv, GateTypeOK, Saving
  <2> QED BY <1>4, <2>1 DEF OpenFile, history, GateInv, GateFollowsUser, SavingFollowsUser
<1>5. CASE WriteFile
  <2>1. ~Idle /\ ~Idle' /\ saving'.off = saving.off
    BY <1>5 DEF WriteFile, Idle, GateInv, GateTypeOK, Saving
  <2>2. ReadFile' = saving'.off
    BY <1>5, <2>1 DEF WriteFile, Whole, ReadFile
  <2> QED
    BY <1>5, <2>1, <2>2
    DEF WriteFile, history, GateInv, GateFollowsUser, SavingFollowsUser
<1>6. CASE Apply
  <2>1. Idle' /\ ~Idle /\ saving.stage = "saved" /\ saving'.stage = "idle"
    BY <1>6 DEF Apply, Idle, NothingSaving
  <2>2. gate' = saving.off /\ ReadFile' = saving.off
    BY <1>6, <2>1 DEF Apply, GateInv, SavingFollowsUser, ReadFile
  <2>3. wish' = wish /\ since' = since
    BY <1>6 DEF Apply, history
  <2> QED BY <2>1, <2>2, <2>3 DEF GateInv, GateFollowsUser, SavingFollowsUser
<1>7. CASE Restart
  BY <1>7 DEF Restart, GateFollowsUser, SavingFollowsUser, Idle, NothingSaving
<1>8. CASE UNCHANGED gateVars
  BY <1>8, ElsewhereStep DEF GateInv, gateVars, Elsewhere
<1> QED
  BY <1>1, <1>2, <1>3, <1>4, <1>5, <1>6, <1>7, <1>8 DEF GateNext, Saves

\* The invariant holds as long as writes succeed.
THEOREM GateInductive ==
    ASSUME DiskMayFail = FALSE
    PROVE  GateSpec => []GateInv
<1>1. GateInit => GateInv
  BY TypeInit, FollowInit DEF GateInv
<1>2. GateInv /\ [GateNext]_gateVars => GateInv'
  BY TypeStep, FollowStep DEF GateInv
<1> QED BY <1>1, <1>2, PTL DEF GateSpec

\* Between two handlers the registry and the file hold what the user last said
\* of every plugin switched in this run (SetPluginEnabled).
THEOREM RegistryFollows ==
    ASSUME DiskMayFail = FALSE
    PROVE  GateSpec => []GateFollowsUser
BY GateInductive, PTL DEF GateInv

-----------------------------------------------------------------------------
\* What a step may not do.

NoWorkWhenOff == \A p \in (running' \ running) \cap Gated \cap since : wish[p] = "on"

LEMMA WorkStep == GateInv /\ [GateNext]_gateVars => NoWorkWhenOff
<1> SUFFICES ASSUME GateInv, [GateNext]_gateVars,
                    NEW p \in (running' \ running) \cap Gated \cap since
             PROVE  wish[p] = "on"
  BY DEF NoWorkWhenOff
<1>1. PICK q \in Plugin : Dispatch(q)
  BY DEF GateNext, gateVars, PhoneStep, Handshake, Abandoned, Register, Disconnected, Paired,
         Finishes, Unpaired, SetPluginEnabled, Saves, OpenFile,
         WriteFile, Apply, Restart
<1>2. p = q /\ Idle /\ p \notin gate
  BY <1>1 DEF Dispatch, HeldBack
<1>3. wish[p] # "off" /\ wish[p] # "unsaid"
  BY <1>2 DEF GateInv, GateFollowsUser, SavingFollowsUser
<1> QED BY <1>3 DEF GateInv, GateTypeOK

\* A plugin the user has switched off in this run does not go to work on a
\* packet of the phone (dispatch).
THEOREM OffMeansOff ==
    ASSUME DiskMayFail = FALSE
    PROVE  GateSpec => WorkOnlyIfEnabled
<1>1. GateInv /\ [GateNext]_gateVars => [NoWorkWhenOff]_gateVars
  BY WorkStep
<1> QED BY GateInductive, <1>1, PTL DEF GateSpec, WorkOnlyIfEnabled, NoWorkWhenOff

-----------------------------------------------------------------------------
\* What a phone was told, whether or not writes succeed.

ToldInv == GateTypeOK /\ ConnectedWasTold /\ HandshakeWasTold

LEMMA ToldInit == GateInit => ConnectedWasTold /\ HandshakeWasTold
BY DEF GateInit, NoLinks, ConnectedWasTold, HandshakeWasTold

\* The file changes: the handshakes under way are overtaken.
FileChanges ==
    /\ link' = Overtaken
    /\ current' = current

LEMMA OvertakenStep ==
    ASSUME ToldInv, FileChanges
    PROVE  HandshakeWasTold'
<1>1. ASSUME NEW c \in Conn PROVE link'[c].phase = link[c].phase
  BY DEF FileChanges, Overtaken, ToldInv, GateTypeOK, Link
<1>2. ASSUME NEW c \in Conn, link'[c].phase = "offered" PROVE link'[c].overtaken
  BY <1>2, <1>1, Zenon DEF FileChanges, Overtaken, ToldInv, GateTypeOK, Link
<1>3. current' # NoConn => link'[current'].phase = "live"
  BY <1>1 DEF FileChanges, ToldInv, HandshakeWasTold, GateTypeOK
<1> QED BY <1>2, <1>3 DEF HandshakeWasTold

\* The file, the connections and who is switching stay as they are.
ToldElsewhere == UNCHANGED <<file, link, current>> /\ (Idle' => Idle /\ since' = since)

LEMMA ToldElsewhereStep ==
    ASSUME ToldInv, ToldElsewhere
    PROVE  ConnectedWasTold' /\ HandshakeWasTold'
BY DEF ToldInv, ToldElsewhere, ConnectedWasTold, HandshakeWasTold, Withheld, ReadFile

LEMMA ToldStep ==
    ASSUME ToldInv, [GateNext]_gateVars
    PROVE  ConnectedWasTold' /\ HandshakeWasTold'
<1> USE PluginAssumption
<1>1. ASSUME NEW c \in Conn, Handshake(c) PROVE ConnectedWasTold' /\ HandshakeWasTold'
  <2>1. current # c
    BY <1>1 DEF Handshake, ToldInv, HandshakeWasTold
  <2>2. link' = [link EXCEPT ![c] = [phase     |-> "offered",
                                     withheld  |-> Withheld,
                                     overtaken |-> FALSE]]
        /\ link \in [Conn -> Link] /\ current \in Conn \cup {NoConn}
    BY <1>1 DEF Handshake, ToldInv, GateTypeOK
  <2>3. Withheld' = Withheld /\ current' = current /\ since' = since /\ Idle' = Idle
    BY <1>1 DEF Handshake, Withheld, ReadFile, Idle, history
  <2>4. ASSUME NEW e \in Conn, e # c PROVE link'[e] = link[e]
    BY <2>2, <2>4
  <2>5. link'[c].phase = "offered" /\ link'[c].withheld = Withheld
    BY <2>2
  <2>6. ConnectedWasTold'
    BY <2>1, <2>2, <2>3, <2>4 DEF ToldInv, ConnectedWasTold
  <2> QED BY <2>1, <2>2, <2>3, <2>4, <2>5, <2>6 DEF ToldInv, HandshakeWasTold
<1>2. ASSUME NEW c \in Conn, Abandoned(c) PROVE ConnectedWasTold' /\ HandshakeWasTold'
  BY <1>2
  DEF Abandoned, history, ToldInv, GateTypeOK, Link, ConnectedWasTold, HandshakeWasTold,
      Withheld, ReadFile, Idle
<1>3. ASSUME NEW c \in Conn, Register(c) PROVE ConnectedWasTold' /\ HandshakeWasTold'
  BY <1>3
  DEF Register, history, ToldInv, GateTypeOK, Link, ConnectedWasTold, HandshakeWasTold,
      Withheld, ReadFile, Idle
<1>4. CASE Disconnected
  BY <1>4
  DEF Disconnected, history, ToldInv, GateTypeOK, Link, ConnectedWasTold,
      HandshakeWasTold, Withheld, ReadFile, Idle
<1>5. CASE Paired \/ \E p \in Plugin : Dispatch(p) \/ Finishes(p)
  <2>1. ToldElsewhere
    BY <1>5 DEF Paired, Dispatch, Finishes, connVars, history, ToldElsewhere, Idle
  <2> QED BY <2>1, ToldElsewhereStep
<1>6. CASE Unpaired
  <2>1. CASE link' = Overtaken
    <3>1. HandshakeWasTold'
      BY <1>6, <2>1, OvertakenStep DEF Unpaired, FileChanges
    <3> QED BY <1>6, <3>1 DEF Unpaired, ConnectedWasTold
  <2>2. CASE UNCHANGED <<file, link>>
    BY <1>6, <2>2
    DEF Unpaired, ToldInv, ConnectedWasTold, HandshakeWasTold, Withheld, ReadFile
  <2> QED BY <1>6, <2>1, <2>2 DEF Unpaired
<1>7. ASSUME NEW p \in Plugin, NEW on \in BOOLEAN, SetPluginEnabled(p, on)
      PROVE  ConnectedWasTold' /\ HandshakeWasTold'
  <2>1. ToldElsewhere
    BY <1>7 DEF SetPluginEnabled, connVars, ToldElsewhere, Idle
  <2> QED BY <2>1, ToldElsewhereStep
<1>8. CASE OpenFile \/ WriteFile
  <2>1. ~Idle' /\ current' = current
    BY <1>8 DEF OpenFile, WriteFile, Idle, ToldInv, GateTypeOK, Saving
  <2>2. CASE link' = Overtaken
    <3>1. HandshakeWasTold'
      BY <2>1, <2>2, OvertakenStep DEF FileChanges
    <3> QED BY <2>1, <3>1 DEF ConnectedWasTold
  <2>3. CASE UNCHANGED <<file, link>>
    BY <2>1, <2>3
    DEF ToldInv, ConnectedWasTold, HandshakeWasTold, Withheld, ReadFile
  <2> QED BY <1>8, <2>2, <2>3 DEF OpenFile, WriteFile
<1>9. CASE Apply
  BY <1>9
  DEF Apply, ToldInv, ConnectedWasTold, HandshakeWasTold, Withheld, ReadFile
<1>10. CASE Restart
  BY <1>10 DEF Restart, NoLinks, ConnectedWasTold, HandshakeWasTold
<1>11. CASE UNCHANGED gateVars
  <2>1. ToldElsewhere
    BY <1>11 DEF gateVars, ToldElsewhere, Idle
  <2> QED BY <2>1, ToldElsewhereStep
<1> QED
  BY <1>1, <1>2, <1>3, <1>4, <1>5, <1>6, <1>7, <1>8, <1>9, <1>10, <1>11
  DEF GateNext, PhoneStep, Saves

\* Once the user has switched a plugin, a connected phone was told in its
\* handshake what the file says, unless the file changed between handshake and
\* registration (filtered_identity_for_device, SetPluginEnabled).
THEOREM ToldOnConnect == GateSpec => []ConnectedWasTold
<1>1. GateInit => ToldInv
  BY TypeInit, ToldInit DEF ToldInv
<1>2. ToldInv /\ [GateNext]_gateVars => ToldInv'
  BY TypeStep, ToldStep DEF ToldInv
<1>3. ToldInv => ConnectedWasTold
  BY DEF ToldInv
<1> QED BY <1>1, <1>2, <1>3, PTL DEF GateSpec

-----------------------------------------------------------------------------
(***************************************************************************)
(* The settings window.                                                    *)
(***************************************************************************)

\* What makes ListSettles inductive.  As long as nothing was lost or may have
\* been overtaken there is at most one fetch under way; unless a signal still
\* has to be handled, what it has read is what the service says, and when there
\* is none the window has it.
FetchesFollow ==
    /\ UnderWay <= FetchCap
    /\ ~spoilt =>
          /\ UnderWay <= 1
          /\ ~noticed =>
                /\ fetches.paired > 0 => served
                /\ fetches.other > 0 => ~served
                /\ UnderWay = 0 => listed = served

WindowInv == WindowTypeOK /\ SelectedIsListed /\ FetchesFollow

\* The steps that only concern the gate.
GateMoves == (PhoneStep \/ Unpaired \/ Saves) /\ UNCHANGED windowVars

LEMMA WindowIsGate ==
    ASSUME WindowTypeOK, [WindowNext]_settingsVars
    PROVE  [GateNext]_gateVars
<1>1. CASE GateMoves
  BY <1>1 DEF GateMoves, GateNext
<1>2. CASE TakeClick
  <2>1. Head(clicks) \in Click
    BY <1>2 DEF TakeClick, WindowTypeOK
  <2>2. Head(clicks).plugin \in Plugin /\ Head(clicks).on \in BOOLEAN
    BY <2>1 DEF Click
  <2>. QED BY <1>2, <2>2 DEF TakeClick, GateNext
<1>3. CASE UNCHANGED settingsVars
  BY <1>3 DEF settingsVars
<1>4. CASE \/ ServiceSignals \/ ServiceEvent \/ Refresh
           \/ ListDevices \/ LoadedPaired \/ LoadedOther
  BY <1>4 DEF ServiceSignals, ServiceEvent, Refresh, ListDevices, LoadedPaired,
              LoadedOther
<1>5. CASE \/ SelectDevice \/ SelectOther \/ UnpairDevice
           \/ GetDisabledPlugins \/ PluginStatesLoaded
           \/ \E p \in Plugin : TogglePlugin(p)
  BY <1>5 DEF SelectDevice, SelectOther, UnpairDevice, GetDisabledPlugins,
              PluginStatesLoaded, TogglePlugin
<1>. QED BY <1>1, <1>2, <1>3, <1>4, <1>5 DEF WindowNext, GateMoves

LEMMA WindowInitial == WindowInit => WindowInv
<1> SUFFICES ASSUME WindowInit PROVE WindowInv
  OBVIOUS
<1>1. GateTypeOK
  BY TypeInit DEF WindowInit
<1>2. fetches = [asked |-> 1, paired |-> 0, other |-> 0] /\ FetchCap \in Nat \ {0}
  BY CapAssumption DEF WindowInit
<1>3. fetches \in Fetches /\ UnderWay = 1
  BY <1>2 DEF Fetches, UnderWay
<1>4. served \in BOOLEAN
  BY <1>1, Zenon DEF WindowInit, GateTypeOK
<1>5. WindowTypeOK
  <2>1. {served, listed, noticed, selected, spoilt} \subseteq BOOLEAN
    BY <1>4, Zenon DEF WindowInit
  <2>2. clicks \in Seq(Click) /\ view \in SUBSET Plugin /\ answer \in Answer
    BY DEF WindowInit, NoAnswer, Answer
  <2>. QED BY <1>1, <1>3, <2>1, <2>2 DEF WindowTypeOK
<1>6. FetchesFollow
  BY <1>2, <1>3 DEF FetchesFollow
<1>. QED BY <1>5, <1>6 DEF WindowInit, WindowInv, SelectedIsListed

\* What the fetches are, in numbers.
LEMMA FetchNumbers ==
    ASSUME WindowTypeOK
    PROVE  /\ {fetches.asked, fetches.paired, fetches.other} \subseteq Nat
           /\ UnderWay \in Nat
           /\ FetchCap \in Nat \ {0}
           /\ fetches = [asked |-> fetches.asked, paired |-> fetches.paired,
                         other |-> fetches.other]
<1>1. fetches \in Fetches /\ FetchCap \in Nat \ {0}
  BY CapAssumption DEF WindowTypeOK
<1>2. {fetches.asked, fetches.paired, fetches.other} \subseteq Nat
  BY <1>1 DEF Fetches
<1>. QED BY <1>1, <1>2 DEF UnderWay, Fetches

\* A fetch that is begun is the only one, or nothing is promised of it.
LEMMA FetchFollows ==
    ASSUME WindowTypeOK, FetchesFollow, Fetch, noticed' \in BOOLEAN
    PROVE  fetches' \in Fetches /\ spoilt' \in BOOLEAN /\ FetchesFollow'
<1>1. /\ fetches.asked \in Nat /\ fetches.paired \in Nat /\ fetches.other \in Nat
      /\ FetchCap \in Nat
      /\ fetches.asked + fetches.paired + fetches.other < FetchCap
      /\ fetches' = [asked |-> fetches.asked + 1, paired |-> fetches.paired,
                     other |-> fetches.other]
      /\ spoilt' = (fetches.asked + fetches.paired + fetches.other > 0)
  BY FetchNumbers DEF Fetch, UnderWay
<1>2. fetches' \in Fetches
  BY <1>1 DEF Fetches
<1>3. /\ fetches'.asked = fetches.asked + 1
      /\ fetches'.paired = fetches.paired
      /\ fetches'.other = fetches.other
  BY <1>1
<1>4. FetchesFollow'
  <2>1. fetches'.asked + fetches'.paired + fetches'.other <= FetchCap
    BY <1>1, <1>3
  <2>2. ASSUME ~spoilt'
        PROVE  /\ fetches'.paired = 0 /\ fetches'.other = 0
               /\ fetches'.asked + fetches'.paired + fetches'.other = 1
    <3>1. ~(fetches.asked + fetches.paired + fetches.other > 0)
      BY <1>1, <2>2, Zenon
    <3>. QED BY <1>1, <1>3, <3>1
  <2>. QED BY <2>1, <2>2 DEF FetchesFollow, UnderWay
<1>. QED BY <1>1, <1>2, <1>4

LEMMA WindowStep ==
    ASSUME WindowInv, [WindowNext]_settingsVars
    PROVE  WindowInv'
<1> USE DEF WindowInv
<1>0. GateTypeOK'
  BY WindowIsGate, TypeStep DEF WindowTypeOK
<1>n. /\ fetches.asked \in Nat /\ fetches.paired \in Nat /\ fetches.other \in Nat
      /\ FetchCap \in Nat \ {0}
  BY FetchNumbers
<1>b. /\ served \in BOOLEAN /\ listed \in BOOLEAN /\ noticed \in BOOLEAN
      /\ selected \in BOOLEAN /\ spoilt \in BOOLEAN /\ fetches \in Fetches
      /\ view \in SUBSET Plugin /\ answer \in Answer /\ clicks \in Seq(Click)
  BY DEF WindowTypeOK
<1>t. ASSUME served' \in BOOLEAN, listed' \in BOOLEAN, noticed' \in BOOLEAN,
             selected' \in BOOLEAN, spoilt' \in BOOLEAN, fetches' \in Fetches,
             view' \in SUBSET Plugin, answer' \in Answer, clicks' \in Seq(Click)
      PROVE  WindowTypeOK'
  BY <1>0, <1>t, Zenon DEF WindowTypeOK
<1>1. CASE GateMoves \/ UNCHANGED settingsVars
  BY <1>0, <1>1
     DEF GateMoves, settingsVars, windowVars, listVars, panelVars, WindowTypeOK,
         SelectedIsListed, FetchesFollow, UnderWay
<1>2. CASE ServiceSignals
  <2>1. UNCHANGED <<listed, fetches, selected, view, answer, clicks>>
    BY <1>2 DEF ServiceSignals, panelVars
  <2>2. served' \in BOOLEAN
    BY <1>0, <1>2, Zenon DEF ServiceSignals, GateTypeOK, gateVars
  <2>3. \/ noticed' = TRUE /\ spoilt' = spoilt
        \/ spoilt' = TRUE /\ noticed' = noticed
    BY <1>2 DEF ServiceSignals
  <2>4. WindowTypeOK'
    BY <1>b, <1>t, <2>1, <2>2, <2>3
  <2>. QED BY <2>1, <2>3, <2>4 DEF SelectedIsListed, FetchesFollow, UnderWay
<1>3. CASE ServiceEvent \/ Refresh
  <2>1. Fetch /\ UNCHANGED <<served, listed, selected, view, answer, clicks>>
    BY <1>3 DEF ServiceEvent, Refresh, panelVars
  <2>2. noticed' \in BOOLEAN
    BY <1>b, <1>3, Zenon DEF ServiceEvent, Refresh
  <2>3. fetches' \in Fetches /\ spoilt' \in BOOLEAN /\ FetchesFollow'
    BY <2>1, <2>2, FetchFollows
  <2>4. WindowTypeOK'
    BY <1>b, <1>t, <2>1, <2>2, <2>3
  <2>. QED BY <2>1, <2>3, <2>4 DEF SelectedIsListed
<1>4. CASE ListDevices
  <2>1. UNCHANGED <<served, listed, noticed, selected, view, answer, clicks>>
    BY <1>4 DEF ListDevices, panelVars
  <2>2. fetches.asked > 0
    BY <1>4 DEF ListDevices
  <2>3. CASE /\ served
             /\ fetches' = [fetches EXCEPT !.asked = @ - 1, !.paired = @ + 1]
             /\ UNCHANGED spoilt
    <3>1. fetches' = [asked |-> fetches.asked - 1, paired |-> fetches.paired + 1,
                      other |-> fetches.other]
      BY <2>3, FetchNumbers
    <3>2. fetches.asked + fetches.paired + fetches.other <= FetchCap
      BY DEF FetchesFollow, UnderWay
    <3>3. fetches' \in Fetches
      BY <1>b, <1>n, <2>2, <3>1, <3>2 DEF Fetches
    <3>4. WindowTypeOK'
      BY <1>b, <1>t, <2>1, <2>3, <3>3
    <3>5. UnderWay' = UnderWay /\ UnderWay > 0 /\ fetches'.other = fetches.other
      BY <1>n, <2>2, <3>1 DEF UnderWay
    <3>6. FetchesFollow'
      BY <2>1, <2>3, <3>5 DEF FetchesFollow
    <3>. QED BY <2>1, <3>4, <3>6 DEF SelectedIsListed
  <2>4. CASE /\ fetches' = [fetches EXCEPT !.asked = @ - 1, !.other = @ + 1]
             /\ spoilt' = (spoilt \/ served)
    <3>1. fetches' = [asked |-> fetches.asked - 1, paired |-> fetches.paired,
                      other |-> fetches.other + 1]
      BY <2>4, FetchNumbers
    <3>2. fetches.asked + fetches.paired + fetches.other <= FetchCap
      BY DEF FetchesFollow, UnderWay
    <3>3. fetches' \in Fetches
      BY <1>b, <1>n, <2>2, <3>1, <3>2 DEF Fetches
    <3>4. spoilt' \in BOOLEAN /\ (~spoilt' => ~spoilt /\ ~served)
      BY <2>4, Zenon
    <3>5. WindowTypeOK'
      BY <1>b, <1>t, <2>1, <3>3, <3>4
    <3>6. UnderWay' = UnderWay /\ UnderWay > 0 /\ fetches'.paired = fetches.paired
      BY <1>n, <2>2, <3>1 DEF UnderWay
    <3>7. FetchesFollow'
      BY <2>1, <3>4, <3>6 DEF FetchesFollow
    <3>. QED BY <2>1, <3>5, <3>7 DEF SelectedIsListed
  <2>. QED BY <1>4, <2>3, <2>4 DEF ListDevices
<1>5. CASE LoadedPaired
  <2>1. UNCHANGED <<served, noticed, view, clicks, spoilt>> /\ listed' = TRUE
    BY <1>5 DEF LoadedPaired
  <2>2. /\ fetches.paired > 0
        /\ fetches' = [asked |-> fetches.asked, paired |-> fetches.paired - 1,
                       other |-> fetches.other]
    BY <1>5, FetchNumbers DEF LoadedPaired
  <2>3. fetches' \in Fetches /\ UnderWay' = UnderWay - 1 /\ UnderWay \in Nat
    BY <1>b, <1>n, <2>2 DEF Fetches, UnderWay
  <2>4. selected' \in BOOLEAN /\ answer' \in Answer
    <3>1. CASE UNCHANGED <<selected, answer>>
      BY <1>b, <3>1
    <3>2. CASE Selects
      <4>1. [state |-> "asked", off |-> {}] \in Answer
        BY DEF Answer
      <4>. QED BY <3>2, <4>1 DEF Selects
    <3>. QED BY <1>5, <3>1, <3>2 DEF LoadedPaired
  <2>5. WindowTypeOK'
    BY <1>b, <1>t, <2>1, <2>3, <2>4
  <2>6. FetchesFollow'
    <3>1. UnderWay' <= FetchCap
      BY <1>n, <2>3 DEF FetchesFollow
    <3>2. ASSUME ~spoilt'
          PROVE  UnderWay' = 0 /\ fetches'.paired = 0 /\ fetches'.other = 0
      <4>1. UnderWay <= 1
        BY <2>1, <3>2 DEF FetchesFollow
      <4>. QED BY <1>n, <2>2, <4>1 DEF UnderWay
    <3>3. ~spoilt' /\ ~noticed' => served' = TRUE
      <4>1. ~spoilt /\ ~noticed => served
        BY <2>2 DEF FetchesFollow
      <4>. QED BY <1>b, <2>1, <4>1, Zenon
    <3>4. ~spoilt' => UnderWay' <= 1 /\ ~(fetches'.paired > 0) /\ ~(fetches'.other > 0)
      BY <3>2
    <3>. QED BY <2>1, <3>1, <3>3, <3>4, Zenon DEF FetchesFollow
  <2>. QED BY <2>1, <2>5, <2>6 DEF SelectedIsListed
<1>6. CASE LoadedOther
  <2>1. /\ UNCHANGED <<served, noticed, answer, clicks, spoilt>>
        /\ listed' = FALSE /\ selected' = FALSE
    BY <1>6 DEF LoadedOther
  <2>2. /\ fetches.other > 0
        /\ fetches' = [asked |-> fetches.asked, paired |-> fetches.paired,
                       other |-> fetches.other - 1]
    BY <1>6, FetchNumbers DEF LoadedOther
  <2>3. fetches' \in Fetches /\ UnderWay' = UnderWay - 1 /\ UnderWay \in Nat
    BY <1>b, <1>n, <2>2 DEF Fetches, UnderWay
  <2>4. view' \in SUBSET Plugin
    BY <1>b, <1>6 DEF LoadedOther
  <2>5. WindowTypeOK'
    BY <1>b, <1>t, <2>1, <2>3, <2>4
  <2>6. FetchesFollow'
    <3>1. UnderWay' <= FetchCap
      BY <1>n, <2>3 DEF FetchesFollow
    <3>2. ASSUME ~spoilt'
          PROVE  UnderWay' = 0 /\ fetches'.paired = 0 /\ fetches'.other = 0
      <4>1. UnderWay <= 1
        BY <2>1, <3>2 DEF FetchesFollow
      <4>. QED BY <1>n, <2>2, <4>1 DEF UnderWay
    <3>3. ~spoilt' /\ ~noticed' => served' = FALSE
      <4>1. ~spoilt /\ ~noticed => ~served
        BY <2>2 DEF FetchesFollow
      <4>. QED BY <1>b, <2>1, <4>1, Zenon
    <3>4. ~spoilt' => UnderWay' <= 1 /\ ~(fetches'.paired > 0) /\ ~(fetches'.other > 0)
      BY <3>2
    <3>. QED BY <2>1, <3>1, <3>3, <3>4, Zenon DEF FetchesFollow
  <2>. QED BY <2>1, <2>5, <2>6 DEF SelectedIsListed
<1>7. CASE UnpairDevice
  <2>1. Fetch /\ UNCHANGED <<served, listed, noticed, answer, clicks>>
    BY <1>7 DEF UnpairDevice
  <2>2. selected' = FALSE /\ view' = {}
    BY <1>7 DEF UnpairDevice
  <2>3. fetches' \in Fetches /\ spoilt' \in BOOLEAN /\ FetchesFollow'
    BY <1>b, <2>1, FetchFollows
  <2>4. WindowTypeOK'
    BY <1>b, <1>t, <2>1, <2>2, <2>3
  <2>. QED BY <2>1, <2>2, <2>3, <2>4 DEF SelectedIsListed
<1>8. CASE \/ SelectDevice \/ SelectOther \/ GetDisabledPlugins \/ PluginStatesLoaded
           \/ \E p \in Plugin : TogglePlugin(p)
           \/ TakeClick
  <2>1. UNCHANGED <<served, listed, noticed, fetches, spoilt>>
    BY <1>8 DEF SelectDevice, SelectOther, GetDisabledPlugins, PluginStatesLoaded,
                TogglePlugin, TakeClick, listVars
  <2>2. selected' \in BOOLEAN /\ (selected' => selected \/ listed)
    <3>1. CASE SelectDevice
      BY <3>1 DEF SelectDevice, Selects
    <3>2. CASE SelectOther
      BY <3>2 DEF SelectOther
    <3>3. CASE UNCHANGED selected
      BY <1>b, <3>3, Zenon
    <3>. QED
      BY <1>8, <3>1, <3>2, <3>3 DEF GetDisabledPlugins, PluginStatesLoaded, TogglePlugin,
                                    TakeClick
  <2>3. view' \in SUBSET Plugin
    BY <1>b, <1>8 DEF SelectDevice, SelectOther, GetDisabledPlugins, PluginStatesLoaded,
                      TogglePlugin, TakeClick, Answer
  <2>4. answer' \in Answer
    <3>1. ReadFile \in SUBSET Plugin
      BY ReadFileType DEF WindowTypeOK
    <3>2. /\ [state |-> "asked", off |-> {}] \in Answer
          /\ [state |-> "read", off |-> ReadFile] \in Answer
          /\ [state |-> "none", off |-> {}] \in Answer
      BY <3>1 DEF Answer
    <3>3. \/ answer' \in {answer, [state |-> "asked", off |-> {}], NoAnswer}
          \/ answer' = [state |-> "read", off |-> ReadFile]
      BY <1>8 DEF SelectDevice, Selects, SelectOther, GetDisabledPlugins,
                  PluginStatesLoaded, TogglePlugin, TakeClick
    <3>. QED BY <1>b, <3>2, <3>3 DEF NoAnswer
  <2>5. clicks' \in Seq(Click)
    <3>1. ASSUME NEW p \in Plugin, TogglePlugin(p) PROVE clicks' \in Seq(Click)
      <4>1. [plugin |-> p, on |-> p \in view] \in Click
        BY DEF Click
      <4>. QED BY <1>b, <3>1, <4>1 DEF TogglePlugin
    <3>2. CASE TakeClick
      BY <1>b, <3>2 DEF TakeClick
    <3>. QED
      BY <1>b, <1>8, <3>1, <3>2 DEF SelectDevice, SelectOther, GetDisabledPlugins,
                                    PluginStatesLoaded
  <2>6. WindowTypeOK'
    BY <1>b, <1>t, <2>1, <2>2, <2>3, <2>4, <2>5
  <2>. QED BY <2>1, <2>2, <2>6 DEF SelectedIsListed, FetchesFollow, UnderWay
<1>. QED
  BY <1>1, <1>2, <1>3, <1>4, <1>5, <1>6, <1>7, <1>8 DEF WindowNext, GateMoves

\* The settings window works on the phone only while its list shows it as
\* paired, and what it shows is the phone's pairing once everything is handled,
\* unless something was lost or overtaken (DevicesLoaded, ServiceEvent and
\* UnpairDevice in settings.rs).
THEOREM SettingsSound == WindowSpec => []SettingsInv
<1>1. WindowInv => SettingsInv
  BY Zenon DEF WindowInv, SettingsInv, FetchesFollow, ListSettles
<1>2. WindowInv /\ [WindowNext]_settingsVars => WindowInv'
  BY WindowStep
<1>. QED BY <1>1, <1>2, WindowInitial, PTL DEF WindowSpec

\* With the window's clicks for the user's, the service is the one of PluginGate:
\* what is proved of its plugin switches holds whatever the window does.
THEOREM WindowUsesGate == WindowSpec => GateSpec
<1>1. WindowInit => GateInit
  BY DEF WindowInit
<1>2. WindowInv /\ [WindowNext]_settingsVars => [GateNext]_gateVars
  BY WindowIsGate DEF WindowInv
<1>3. WindowInv /\ [WindowNext]_settingsVars => WindowInv'
  BY WindowStep
<1>. QED BY <1>1, <1>2, <1>3, WindowInitial, PTL DEF WindowSpec, GateSpec
=============================================================================
