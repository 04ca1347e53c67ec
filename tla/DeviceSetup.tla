------------------------------ MODULE DeviceSetup ------------------------------
(***************************************************************************)
(* The rail: AudioIo and the panel that opens a device, the fault line fed *)
(* by three sources on three threads, the channel roles and the two tables *)
(* that show them, and the switch to the synthetic input.  Handlers and    *)
(* timers run on the message thread, one at a time; opening a device and   *)
(* the panel's refresh are two steps each, because a device error may land *)
(* between them.  Every channel is of transfer function 0: RoutingMatrix's *)
(* activeTfIndex_ has no caller that sets it, and so every route has one   *)
(* reference, the lowest.                                                  *)
(***************************************************************************)
EXTENDS Integers, Sequences, FiniteSets, SequencesExt, FiniteSetsExt

CONSTANTS DvDevices,   \* devices: type, name and number of inputs
          DvMax,       \* kMaxChannels
          DvSlots,     \* kMaxTransferFunctions
          DvSynthetic, \* kSyntheticChannelNames.size()
          DvBounds     \* bounds, one record for a behaviour: device operations, roles set, faults, modes

ASSUME DvAssumption == /\ DvMax \in Nat /\ DvSlots \in Nat /\ DvSynthetic \in 2..DvMax
                       /\ \A d \in DvDevices : d.inputs \in 0..DvMax

VARIABLES dvIo,     \* AudioIo and its device manager
          dvBus,    \* CaptureBus: channels, active, resyncAckTimeouts
          dvRole,   \* ChannelConfig::roles_
          dvThread, \* AnalysisThread: its fault, the positions of the latest snapshot
          dvPanel,  \* DevicePanel
          dvTable,  \* RoutingMatrix, ChannelRoleTable, lastChannelNames_; asOf: the channels it last planned with
          dvMode,   \* isSyntheticMode
          dvUsed    \* the bounds and what has been used of them

dvVars == <<dvIo, dvBus, dvRole, dvThread, dvPanel, dvTable, dvMode, dvUsed>>

DvCount(k) == dvUsed.used[k] < dvUsed.max[k] /\ dvUsed' = [dvUsed EXCEPT !.used[k] = @ + 1]

NoFault == [kind |-> "None", of |-> 0]
NoDevice == [type |-> "", name |-> "", inputs |-> 0]
NotApplicable == "--"   \* kNotApplicable
Stale == -1             \* the cells of the matrix are of no routing

-----------------------------------------------------------------------------
(* AudioIo.  Which device the manager opens, or that it opens none, is its own affair. *)

\* recordFault: the message is told apart by its number.
recordFault(f, kind) == [kind |-> kind, sequence |-> f.sequence + 1]

stop(io) == IF io.running THEN [io EXCEPT !.running = FALSE, !.device = NoDevice] ELSE io
busAfterStop(io, bus) == IF io.running THEN [bus EXCEPT !.active = FALSE] ELSE bus

audioDeviceAboutToStart(bus, d) == [bus EXCEPT !.channels = d.inputs, !.active = TRUE]

\* start on an AudioIo that is not running: none opens, or d up to addAudioCallback.
start(io, d) ==
    IF d = NoDevice THEN [io EXCEPT !.device = NoDevice, !.fault = recordFault(@, "OpenFailed")]
    ELSE [io EXCEPT !.device = d, !.type = d.type, !.fault = recordFault(@, "None")]
busAfterStart(bus, d) == IF d = NoDevice THEN [bus EXCEPT !.active = FALSE] ELSE audioDeviceAboutToStart(bus, d)

\* currentState().inputChannelNames
inputChannelNames(io) == IF io.device.inputs = 0 THEN <<"", 0>> ELSE <<io.device.name, io.device.inputs>>

-----------------------------------------------------------------------------
(* FaultLine.h and DevicePanel. *)

selectFaultOfLatest(audio, thread, timeouts) ==
    LET of(kind, n) == [kind |-> kind, of |-> n, sequence |-> Max({audio.sequence, thread.sequence, timeouts})]
    IN  IF audio.kind # "None" THEN of(audio.kind, audio.sequence)
        ELSE IF thread.kind # "None" THEN of(thread.kind, thread.sequence)
        ELSE IF timeouts > 0 THEN of("Unacknowledged", timeouts) ELSE of("None", 0)

\* The device wins over the analysis thread, which wins over the resync timeouts.
selectFault(audio, thread, timeouts) ==
    LET of(kind, n) == [kind |-> kind, of |-> n, sequence |-> audio.sequence + thread.sequence + timeouts]
    IN  IF audio.kind # "None" THEN of(audio.kind, audio.sequence)
        ELSE IF thread.kind # "None" THEN of(thread.kind, thread.sequence)
        ELSE IF timeouts > 0 THEN of("Unacknowledged", timeouts) ELSE of("None", 0)

currentFault == selectFault(dvIo.fault, dvThread.fault, dvBus.timeouts)
faultText(f) == [kind |-> f.kind, of |-> f.of]

deviceTypeNotice(requested, actual) == requested # "" /\ actual # "" /\ requested # actual

\* refreshFromState up to the button and the notice; the sequence is read later, in DvMark.
refreshFromState(panel, io) ==
    [panel EXCEPT !.running = io.running, !.type = io.type, !.device = io.device.name,
                  !.notice = io.running /\ deviceTypeNotice(panel.requested, io.type),
                  !.pc = "mark", !.behind = "no"]

PanelIdle == dvPanel.pc = "idle"

\* A handler that opened d has running_.store still to come.
afterStart(panel, io, d) == IF d = NoDevice THEN refreshFromState(panel, io) ELSE [panel EXCEPT !.pc = "store"]

\* The end of start and of its handler, whatever the device thread did since addAudioCallback.
DvStored ==
    /\ dvPanel.pc = "store"
    /\ dvIo' = [dvIo EXCEPT !.running = TRUE]
    /\ dvPanel' = refreshFromState(dvPanel, dvIo')
    /\ UNCHANGED <<dvBus, dvRole, dvThread, dvTable, dvMode, dvUsed>>

DvMark ==
    /\ dvPanel.pc = "mark"
    /\ dvPanel' = [dvPanel EXCEPT !.pc = "idle", !.sequence = currentFault.sequence, !.dirty = TRUE]
    /\ UNCHANGED <<dvIo, dvBus, dvRole, dvThread, dvTable, dvMode, dvUsed>>

DvPaint ==
    /\ PanelIdle /\ dvPanel.dirty
    /\ dvPanel' = [dvPanel EXCEPT !.dirty = FALSE, !.painted = faultText(currentFault)]
    /\ UNCHANGED <<dvIo, dvBus, dvRole, dvThread, dvTable, dvMode, dvUsed>>

\* timerCallback: a new fault means a fresh read of everything.
DvPanelTimer ==
    /\ PanelIdle /\ currentFault.sequence # dvPanel.sequence
    /\ dvPanel' = refreshFromState(dvPanel, dvIo)
    /\ UNCHANGED <<dvIo, dvBus, dvRole, dvThread, dvTable, dvMode, dvUsed>>

\* The panel is disabled in synthetic mode.
DvPanelUsed == PanelIdle /\ ~dvMode /\ DvCount("devices")

Opened(d) == d \in DvDevices \cup {NoDevice}

\* startStopClicked
DvStartStop(d) ==
    /\ DvPanelUsed
    /\ IF dvIo.running THEN d = NoDevice /\ dvIo' = stop(dvIo) /\ dvBus' = busAfterStop(dvIo, dvBus)
       ELSE Opened(d) /\ dvIo' = start(dvIo, d) /\ dvBus' = busAfterStart(dvBus, d)
    /\ dvPanel' = afterStart(dvPanel, dvIo', d)
    /\ UNCHANGED <<dvRole, dvThread, dvTable, dvMode>>

\* A running device is restarted at once, a stopped one waits for START.
DvRestart(d) ==
    IF dvIo.running THEN Opened(d) /\ dvIo' = start(stop(dvIo), d) /\ dvBus' = busAfterStart(busAfterStop(dvIo, dvBus), d)
    ELSE d = NoDevice /\ UNCHANGED <<dvIo, dvBus>>

deviceTypeChanged(t, d) ==
    /\ DvPanelUsed
    /\ DvRestart(d)
    /\ dvPanel' = afterStart([dvPanel EXCEPT !.requested = t], dvIo', d)
    /\ UNCHANGED <<dvRole, dvThread, dvTable, dvMode>>

deviceChanged(d) ==
    /\ DvPanelUsed
    /\ DvRestart(d)
    /\ dvPanel' = afterStart(dvPanel, dvIo', d)
    /\ UNCHANGED <<dvRole, dvThread, dvTable, dvMode>>

\* sampleRateChanged and bufferSizeChanged: the device reopens, or is closed with running_ left set.
DvReconfigure(ok) ==
    /\ DvPanelUsed /\ dvIo.device # NoDevice
    /\ dvIo' = IF ok THEN dvIo ELSE [dvIo EXCEPT !.device = NoDevice]
    /\ dvBus' = IF ok THEN audioDeviceAboutToStart(dvBus, dvIo.device) ELSE [dvBus EXCEPT !.active = FALSE]
    /\ dvPanel' = refreshFromState(dvPanel, dvIo')
    /\ UNCHANGED <<dvRole, dvThread, dvTable, dvMode>>

-----------------------------------------------------------------------------
(* The device thread, the analysis thread and the bus. *)

\* audioDeviceError: the device object stays, and the callback stays with it.  One that lands inside
\* a refresh is counted by the sequence read after it; the running_ that one before DvStored clears is
\* set again.
audioDeviceError ==
    /\ dvIo.device # NoDevice /\ DvCount("faults")
    /\ dvIo' = [dvIo EXCEPT !.running = FALSE, !.fault = recordFault(@, "DeviceError")]
    /\ dvBus' = [dvBus EXCEPT !.active = FALSE]
    /\ dvPanel' = IF PanelIdle THEN dvPanel ELSE [dvPanel EXCEPT !.behind = "race"]
    /\ UNCHANGED <<dvRole, dvThread, dvTable, dvMode>>

\* audioDeviceStopped: unplugged; neither running_ nor the fault says so.
audioDeviceStopped ==
    /\ dvIo.device # NoDevice /\ DvCount("faults")
    /\ dvIo' = [dvIo EXCEPT !.device = NoDevice]
    /\ dvBus' = [dvBus EXCEPT !.active = FALSE]
    /\ UNCHANGED <<dvRole, dvThread, dvPanel, dvTable, dvMode>>

\* A rebuild that fails is reported once and then taken back; an exception ends the thread.
DvThreadFault(kind) ==
    /\ \/ kind = "Recovering" /\ dvThread.fault.kind = "None"
       \/ kind = "None" /\ dvThread.fault.kind = "Recovering"
       \/ kind = "Stopped" /\ dvThread.fault.kind # "Stopped"
    /\ DvCount("faults")
    /\ dvThread' = [dvThread EXCEPT !.fault = recordFault(@, kind)]
    /\ UNCHANGED <<dvIo, dvBus, dvRole, dvPanel, dvTable, dvMode>>

\* serviceResyncAsConsumer gives up on an acknowledgement while the bus is active.
DvTimeout ==
    /\ dvBus.active /\ DvCount("faults")
    /\ dvBus' = [dvBus EXCEPT !.timeouts = @ + 1]
    /\ UNCHANGED <<dvIo, dvRole, dvThread, dvPanel, dvTable, dvMode>>

\* The measured channels of planRouting with one transfer function, in order.
routes(role, channels) ==
    LET as(r) == {c \in 1..channels : role[c] = r}
        upTo(c) == {m \in as("Measurement") : m <= c}
    IN  IF as("Reference") = {} THEN <<>>
        ELSE [i \in 1..Cardinality(as("Measurement")) |-> CHOOSE c \in as("Measurement") : Cardinality(upTo(c)) = i]

\* mergeRoutePositions: one position for every route; past the cap there is no analyser to average.
\* A position has its route's place and no channel: `of` is kept for the properties.
DvPublished(role, channels) ==
    LET plan == routes(role, channels)
    IN  [i \in 1..Len(plan) |->
            [of |-> plan[i], membership |-> IF i <= DvSlots THEN "Member" ELSE "ExcludedOverCapacity"]]

\* publishIfDue: a snapshot is published while samples arrive.
DvPublish ==
    /\ dvBus.active /\ dvThread.fault.kind = "None"
    /\ dvThread' = [dvThread EXCEPT !.positions = DvPublished(dvRole, dvBus.channels)]
    /\ dvTable' = [dvTable EXCEPT !.asOf = IF dvThread.positions = DvPublished(dvRole, dvBus.channels) THEN @ ELSE Stale]
    /\ UNCHANGED <<dvIo, dvBus, dvRole, dvPanel, dvMode, dvUsed>>

-----------------------------------------------------------------------------
(* RoutingMatrix, ChannelRoleTable and the timer of MainComponent. *)

nextRole(r) == CASE r = "Unused" -> "Measurement" [] r = "Measurement" -> "Reference" [] OTHER -> "Unused"

currentRoutingPlan == routes(dvRole, dvBus.channels)

refreshFromConfig(table, role) == [table EXCEPT !.text = [c \in 1..table.rows |-> role[c]]]

membershipLabel(membership) == IF membership = "Member" THEN "AVG" ELSE "CAP"

updateMembership(table, plan, positions) ==
    LET zipped == 1..Min({Len(plan), Len(positions)})
        of(c) == {i \in zipped : plan[i] = c}
        cell(c) == IF of(c) = {} THEN NotApplicable ELSE membershipLabel(positions[Max(of(c))].membership)
    IN  [table EXCEPT !.avg = [c \in 1..table.rows |-> cell(c)]]

\* setChannelNames of both tables: new rows, every AVG cell blank.
setChannelNames(table, names, role) ==
    refreshFromConfig([table EXCEPT !.rows = names[2], !.avg = [c \in 1..names[2] |-> NotApplicable]], role)

\* applyChannelNames: a channel without a row holds no role, unless there is no row at all.
applyChannelNames(table, names, role) ==
    IF names = table.names THEN [table |-> table, role |-> role]
    ELSE LET kept == IF names[2] = 0 THEN role
                     ELSE [c \in 1..DvMax |-> IF c > names[2] THEN "Unused" ELSE role[c]]
         IN  [table |-> setChannelNames([table EXCEPT !.names = names], names, kept), role |-> kept]

\* timerCallback: roles, membership, and the names of the device unless the input is synthetic.
DvMainTimer ==
    LET shown == updateMembership(refreshFromConfig(dvTable, dvRole), currentRoutingPlan, dvThread.positions)
        named == IF dvMode THEN [table |-> shown, role |-> dvRole]
                 ELSE applyChannelNames(shown, inputChannelNames(dvIo), dvRole)
    IN  /\ PanelIdle
        /\ dvTable' = [named.table EXCEPT !.asOf = IF named.table.names = dvTable.names THEN dvBus.channels ELSE Stale]
        /\ dvRole' = named.role
        /\ UNCHANGED <<dvIo, dvBus, dvThread, dvPanel, dvMode, dvUsed>>

SetRole(c) == dvRole' = [dvRole EXCEPT ![c] = nextRole(@)]

onCellClicked(c) ==
    /\ PanelIdle /\ c <= dvTable.rows /\ DvCount("roles")
    /\ SetRole(c)
    /\ dvTable' = [refreshFromConfig(dvTable, dvRole') EXCEPT !.asOf = Stale]
    /\ UNCHANGED <<dvIo, dvBus, dvThread, dvPanel, dvMode>>

\* A click on ChannelRoleTable: the matrix hears of it at the next timer.
listBoxItemClicked(c) ==
    /\ PanelIdle /\ c <= dvTable.rows /\ DvCount("roles")
    /\ SetRole(c)
    /\ dvTable' = [dvTable EXCEPT !.asOf = Stale]
    /\ UNCHANGED <<dvIo, dvBus, dvThread, dvPanel, dvMode>>

-----------------------------------------------------------------------------
(* setSyntheticMode. *)

SyntheticNames == <<"Synthetic", DvSynthetic>>

DvEnterSynthetic ==
    /\ PanelIdle /\ ~dvMode /\ DvCount("modes")
    /\ dvMode' = TRUE
    /\ dvIo' = stop(dvIo)
    /\ dvBus' = [dvBus EXCEPT !.channels = DvSynthetic, !.active = TRUE]
    /\ dvRole' = [dvRole EXCEPT ![1] = "Measurement", ![2] = "Reference"]
    /\ dvTable' = [setChannelNames([dvTable EXCEPT !.names = SyntheticNames], SyntheticNames, dvRole')
                        EXCEPT !.asOf = Stale]
    /\ dvPanel' = [dvPanel EXCEPT !.behind = IF dvIo.running THEN "synthetic" ELSE @]
    /\ UNCHANGED dvThread

DvLeaveSynthetic ==
    LET role == [dvRole EXCEPT ![1] = "Unused", ![2] = "Unused"]
        named == applyChannelNames([dvTable EXCEPT !.names = <<"", 0>>], inputChannelNames(dvIo), role)
    IN  /\ PanelIdle /\ dvMode /\ DvCount("modes")
        /\ dvMode' = FALSE
        /\ dvBus' = [dvBus EXCEPT !.active = FALSE]
        /\ dvRole' = named.role
        /\ dvTable' = [refreshFromConfig(named.table, named.role) EXCEPT !.asOf = Stale]
        /\ UNCHANGED <<dvIo, dvThread, dvPanel>>

-----------------------------------------------------------------------------
DvInit ==
    /\ dvIo = [device |-> NoDevice, type |-> "", running |-> FALSE, fault |-> [kind |-> "None", sequence |-> 0]]
    /\ dvBus = [channels |-> 0, active |-> FALSE, timeouts |-> 0]
    /\ dvRole = [c \in 1..DvMax |-> "Unused"]
    /\ dvThread = [fault |-> [kind |-> "None", sequence |-> 0], positions |-> <<>>]
    /\ dvPanel = [running |-> FALSE, type |-> "", device |-> "", notice |-> FALSE, requested |-> "",
                  sequence |-> 0, dirty |-> TRUE, painted |-> NoFault, pc |-> "idle", behind |-> "no"]
    /\ dvTable = [names |-> <<"", 0>>, rows |-> 0, text |-> <<>>, avg |-> <<>>, asOf |-> Stale]
    /\ dvMode = FALSE
    /\ \E b \in DvBounds : dvUsed = [max |-> b, used |-> [k \in DOMAIN b |-> 0]]

DvNext ==
    \/ DvStored \/ DvMark \/ DvPaint \/ DvPanelTimer \/ DvMainTimer
    \/ \E d \in DvDevices \cup {NoDevice} :
           \/ DvStartStop(d) \/ deviceChanged(d)
           \/ \E t \in {e.type : e \in DvDevices} : deviceTypeChanged(t, d)
    \/ \E ok \in BOOLEAN : DvReconfigure(ok)
    \/ audioDeviceError \/ audioDeviceStopped \/ DvTimeout \/ DvPublish
    \/ \E kind \in {"Recovering", "None", "Stopped"} : DvThreadFault(kind)
    \/ \E c \in 1..DvMax : onCellClicked(c) \/ listBoxItemClicked(c)
    \/ DvEnterSynthetic \/ DvLeaveSynthetic

DvSpec == DvInit /\ [][DvNext]_dvVars

-----------------------------------------------------------------------------
(* Properties *)

\* FaultLine.h: the sum of the sequences moves whenever a source says something new, so a fault
\* line that is out of date is one the next timer repaints.
DvFaultShown ==
    (PanelIdle /\ ~dvPanel.dirty /\ currentFault.sequence = dvPanel.sequence) => dvPanel.painted = faultText(currentFault)

\* The START button and the notice are those of the device, until the panel's timer runs; two ways
\* of falling behind are left: SYNTHETIC stops the device without a word to the panel, and an error
\* that lands inside a refresh is counted as seen.
DvPanelFollows ==
    (PanelIdle /\ dvPanel.behind = "no" /\ currentFault.sequence = dvPanel.sequence) =>
        /\ dvPanel.running = dvIo.running
        /\ dvPanel.notice = (dvIo.running /\ deviceTypeNotice(dvPanel.requested, dvIo.type))

\* Once the tables show the device that is open, no channel without a row holds a role: it could
\* neither be seen nor cleared, and would starve the analysis of its measurement channel.
DvNoHiddenRole ==
    (~dvMode /\ dvTable.names = inputChannelNames(dvIo) /\ dvTable.names[2] > 0) =>
        /\ dvTable.rows = dvIo.device.inputs
        /\ \A c \in 1..DvMax : c > dvTable.rows => dvRole[c] = "Unused"

\* What the cell of a channel should say: with a reference, the first measured channels are averaged.
DvCellOf(role, channels, c) ==
    LET as(r) == {m \in 1..channels : role[m] = r}
    IN  IF as("Reference") = {} \/ c \notin as("Measurement") THEN NotApplicable
        ELSE IF Cardinality({m \in as("Measurement") : m <= c}) <= DvSlots THEN "AVG" ELSE "CAP"

\* After a timer that kept the rows, and before a role, a snapshot or the number of channels changes,
\* the matrix shows every role; if the snapshot is of the present routing, a row says AVG when the
\* channel has a route with an analyser, CAP when its route came past the cap, and -- without a route.
DvRowsAreOwn ==
    dvTable.asOf = dvBus.channels =>
        /\ \A c \in 1..dvTable.rows : dvTable.text[c] = dvRole[c]
        /\ dvThread.positions = DvPublished(dvRole, dvBus.channels) =>
               \A c \in 1..dvTable.rows : dvTable.avg[c] = DvCellOf(dvRole, dvBus.channels, c)

\* The rail tells the truth of the device, its faults, the roles and the membership.
DvInv == DvFaultShown /\ DvPanelFollows /\ DvNoHiddenRole /\ DvRowsAreOwn
=============================================================================
