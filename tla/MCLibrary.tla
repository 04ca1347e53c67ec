------------------------------- MODULE MCLibrary -------------------------------
(* What is kept and shown: TraceStore, SessionCodec, Crossover, Drawing and  *)
(* DeviceSetup, which share no state here, on small instances, for TLC.      *)
EXTENDS TraceStore, SessionCodec, Crossover, Drawing, DeviceSetup
VARIABLE focus   \* the component that moves in this behaviour; the others rest

\* SessionCodec: the characters an escape may meet, alone and next to each other.
MCTexts == {<<>>, <<"x">>, <<Backslash, "n">>, <<NewLine, Backslash>>, <<Backslash, NewLine, "n">>}

\* Crossover: traces that differ in phase, rate or FFT size.
XoTrace(phase, fft, rate, h) == [phase |-> phase, fft |-> fft, rate |-> rate, h |-> h]
MCXoH == <<<<1, 0>>, <<2, 1>>, <<1, 2>>>>
MCXoTraces == {XoTrace(TRUE, 4, 8, MCXoH), XoTrace(TRUE, 4, 8, <<<<2, 0>>, <<1, 3>>, <<1, 1>>>>),
               XoTrace(FALSE, 4, 8, MCXoH), XoTrace(TRUE, 4, 16, MCXoH), XoTrace(TRUE, 8, 16, MCXoH)}
\* The low-pass side is the high-pass one, at another level and `late` later.
MCXoSide(late, lead) == XoTrace(TRUE, 4, 8, [k \in 1..3 |-> Bin(lead, -(k - 1) * late)])
MCXoRun(high, late, cycle, sum) ==
    [highPass |-> high, late |-> late, cycle |-> cycle, sum |-> sum, inversion |-> "No",
     topology |-> [family |-> "LinkwitzRiley", order |-> 4],
     main |-> MCXoSide(IF high = "Main" THEN 0 ELSE late, 2), sub |-> MCXoSide(IF high = "Main" THEN late ELSE 0, 1)]
MCXoRuns == {MCXoRun(high, late, cycle, sum) : high \in {"Main", "Sub"}, late \in -2..2,
                 cycle \in {{}, {0}, {1}, {-1}, {2}, {-2}}, sum \in {<<>>, <<9, 4, 1>>, <<9, 4>>}}
MCXoAsked == [topologies |-> {[family |-> "LinkwitzRiley", order |-> 2], [family |-> "Butterworth", order |-> 3]},
              inversions |-> {"Unknown"}]

\* Drawing: four bins over at most four columns.
DwZeros == <<0, 0, 0, 0>>
DwBins(S) == {<<a, b, c, d>> : a \in S, b \in S, c \in S, d \in S}
MCDwInputs ==
    [deg : DwBins({-170, -90, 0, 100, 180}), level : {DwZeros}, coherence : {DwZeros},
     columns : {DwZeros, <<0, 0, 1, 1>>, <<-1, 0, 0, 2>>}]
    \cup UNION {[deg : {DwZeros}, level : {l}, coherence : {l},
                 columns : {DwZeros, <<0, 0, 1, 1>>, <<-1, 0, 0, 2>>, <<0, 3, 3, -1>>, <<-1, 1, 2, -1>>, <<1, 3, 3, 3>>}] :
                l \in DwBins({DwNaN, 0, 16, 48})}
MCDwPlain == [deg |-> <<>>, level |-> <<>>, coherence |-> <<>>, columns |-> <<>>]   \* no bins
MCDwStored == {[id |-> 1, fields |-> {"magnitude", "phase"}], [id |-> 2, fields |-> {"magnitude"}]}
MCDwBound == [edits |-> 2, swaps |-> 1, sizes |-> 1]

\* DeviceSetup: a wide device and a narrow one of another type; roles, faults and modes in turn.
MCDvDevice(type, name, inputs) == [type |-> type, name |-> name, inputs |-> inputs]
MCDvDevices == {MCDvDevice("Alsa", "card", 4), MCDvDevice("Jack", "port", 2)}
MCDvBound(devices, roles, faults, modes) == [devices |-> devices, roles |-> roles, faults |-> faults, modes |-> modes]
\* Five clicks make a reference and three measured channels, one more than the cap.
MCDvBounds == {MCDvBound(2, 3, 0, 0), MCDvBound(1, 5, 0, 0), MCDvBound(1, 0, 3, 0), MCDvBound(2, 0, 1, 1), MCDvBound(1, 1, 1, 2)}

--------------------------------------------------------------------------------
\* A component at rest has one initial state.  A pane and the ALIGN gap are two owners of the
\* crossover surface; "plot" draws one curve of every kind, "view" keeps one and changes the rest.
MCDoc == CHOOSE d \in CodecDocs : TRUE
MCPoints == [fields |-> {"Magnitude"}, points |-> 2, id |-> "c"]
MCInit ==
    /\ focus \in {"store", "codec", "pane", "gap", "plot", "view", "device"}
    /\ StoreInit /\ XoInit
    /\ DvInit /\ (focus # "device" => dvUsed.max = MCDvBound(2, 3, 0, 0))
    /\ IF focus = "codec" THEN CodecInit
       ELSE doc = MCDoc /\ panes = <<>> /\ points = MCPoints /\ NothingSaved
    /\ IF focus = "plot" THEN DwInit ELSE dwIn = MCDwPlain /\ DwViewInit

MCNext ==
    \/ focus = "store" /\ StoreNext /\ UNCHANGED <<codecVars, xoVars, dwVars, dvVars, focus>>
    \/ focus = "codec" /\ CodecNext /\ UNCHANGED <<storeVars, xoVars, dwVars, dvVars, focus>>
    \/ focus = "pane" /\ XoPaneNext /\ UNCHANGED <<storeVars, codecVars, dwVars, dvVars, focus>>
    \/ focus = "gap" /\ alignRefresh /\ UNCHANGED <<storeVars, codecVars, dwVars, dvVars, focus>>
    \/ focus = "view" /\ DwNext /\ UNCHANGED <<storeVars, codecVars, xoVars, dvVars, focus>>
    \/ focus = "device" /\ DvNext /\ UNCHANGED <<storeVars, codecVars, xoVars, dwVars, focus>>
================================================================================
