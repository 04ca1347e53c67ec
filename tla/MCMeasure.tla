------------------------------- MODULE MCMeasure -------------------------------
(* What is measured and computed: Publishing, Alignment, EqWorkflow,        *)
(* SampleRing, Analysing, Estimating and Decay, which share no state, on    *)
(* small instances, for TLC.                                                *)
EXTENDS Publishing, Alignment, EqWorkflow, SampleRing, Analysing, Estimating, Decay
VARIABLE focus   \* the component that moves in this behaviour; the others rest

\* Publishing: pairs, a shared reference, two functions, a missing reference or measurement.
Ref(tf) == [role |-> "Reference", tf |-> tf]
Mea(tf) == [role |-> "Measurement", tf |-> tf]
Off == [role |-> "Off", tf |-> 0]
MCPbConfigs ==
    {<<Ref(0), Mea(0), Mea(0), Mea(0)>>, <<Ref(0), Mea(0), Ref(1), Mea(1)>>,
     <<Off, Mea(0), Ref(1), Mea(1)>>, <<Ref(0), Off, Off, Mea(0)>>,
     <<Off, Mea(0), Off, Off>>, <<Ref(1), Off, Off, Mea(1)>>}
MCPbBound(e, c, d, p, r, t, f) ==
    [epochs |-> e, configs |-> c, delays |-> d, publishes |-> p, requests |-> r, ticks |-> t,
     failures |-> f]
MCPbBounds ==
    {MCPbBound(1, 1, 0, 1, 0, 0, 1), MCPbBound(1, 0, 1, 1, 0, 0, 0), MCPbBound(0, 2, 0, 3, 0, 0, 0),
     MCPbBound(0, 0, 1, 2, 2, 0, 0), MCPbBound(0, 0, 0, 0, 4, 2, 0)}

\* Alignment: the sub is nearer than the main loudspeaker.
MCAlArrival == (0 :> 4) @@ (1 :> 2)
MCAlBound(r, e, d, s) == [runs |-> r, edits |-> e, disturbances |-> d, sweeps |-> s]
MCAlBounds == {MCAlBound(1, 1, 1, 0), MCAlBound(1, 1, 0, 2), MCAlBound(2, 0, 0, 0)}

\* EqWorkflow: many rooms for one AUTO, and one room for the sequences of presses.
MCEqGrids == [A |-> <<0, 1, 2, 3, 4, 6>>, B |-> <<0, 2, 4, 6>>]
MCEqHz == {0, 1, 2, 3, 4, 6}
MCEqWorld(room, phase, valid, coh) ==
    [room |-> [f \in MCEqHz |-> room[f]], phase |-> [f \in MCEqHz |-> phase[f]],
     phaseValid |-> valid, coherence |-> [A |-> coh, B |-> <<2, 2, 1, 2>>]]
MCEqRoom(a, b, c, d) == (0 :> 0) @@ (1 :> a) @@ (2 :> b) @@ (3 :> c) @@ (4 :> d) @@ (6 :> 0)
MCEqFlat == [f \in MCEqHz |-> 0]
MCEqWorlds == {MCEqWorld(MCEqRoom(0, 2, -1, -2), MCEqFlat, TRUE, <<2, 2, 2, 2, 1, 2>>)}
MCEqMany ==
    {MCEqWorld(MCEqRoom(a, b, c, d), ph, v, coh) : a, b, c, d \in {-2, 0, 1},
        ph \in {MCEqFlat, [MCEqFlat EXCEPT ![2] = 9]}, v \in BOOLEAN,
        coh \in {<<2, 2, 2, 2, 2, 2>>, <<2, 1, 0, 2, 2, 2>>}}
MCEqSigma == (0 :> 9) @@ (1 :> 1) @@ (2 :> 0)
MCEqBound(steps, kinds) == [steps |-> steps, kinds |-> kinds, rooms |-> MCEqWorlds]
MCEqBounds ==
    {[steps |-> 1, kinds |-> {"pick"}, rooms |-> MCEqMany],
     MCEqBound(7, {"pick", "chip", "clear"}), MCEqBound(6, {"pick", "chip", "target", "apply"}),
     MCEqBound(7, {"pick", "auto", "verify", "apply"}),
     MCEqBound(5, {"pick", "auto", "verify", "live"}),
     MCEqBound(5, {"pick", "auto", "hide", "target", "verify"}),
     MCEqBound(5, {"pick", "auto", "export"})}

\* Analysing: a delay longer than a block either way, a reset, and the layouts of the app.
MCAn(fft, hop, depth, delay, top, octaves, paired, length, resets, shows) ==
    [fft |-> fft, hop |-> hop, depth |-> depth, delay |-> delay, top |-> top,
     octaves |-> octaves, paired |-> paired, length |-> length, resets |-> resets,
     publishes |-> shows, averaging |-> "Fifo", mtwAveraging |-> "Fifo", mtwEnabled |-> TRUE]
\* Exponential averages: of the fixed engine, of the bands, of both; and no bands.
MCAnVaried ==
    {[MCAn(4, 3, 2, d, 8, 1, TRUE, 20, 1, 1) EXCEPT !.averaging = a[1], !.mtwAveraging = a[2]] :
         d \in {-1, 2},
         a \in {<<"Exponential", "Fifo">>, <<"Fifo", "Exponential">>, <<"Exponential", "Exponential">>}}
    \cup {[MCAn(4, 3, 2, 0, 8, 1, TRUE, 24, 1, 1) EXCEPT !.mtwEnabled = FALSE]}
MCAnConfigs ==
    {MCAn(4, 1, 3, d, 8, 1, TRUE, 40, 0, 0) : d \in {-20, 0, 20}}
    \cup {MCAn(4, 3, 2, d, 8, 1, TRUE, 26, 1, 0) : d \in {-1, 2}}
    \cup {MCAn(4, 3, 2, 0, 8, 1, p, 24, 0, 1) : p \in BOOLEAN}
    \cup {MCAn(4096, 1024, 16, 0, top, k, TRUE, 1, 0, 1) : top \in {512, 1024, 2048}, k \in {1, 2, 6, 10}}
    \cup MCAnVaried
MCAnCorrelation == <<4345, 278, 1>>
MCAnAlpha == <<1, 2>>

\* Estimating: small correlations, positions, impulse responses and runs of full scale.
MCEsPeaks ==
    {[kind |-> "peaks", r |-> r, m |-> 6, window |-> w[1], restricted |-> w[2], max |-> k] :
        r \in [0..5 -> {-2, 0, 1}],
        w \in {<< <<-9, 9>>, FALSE >>, << <<-1, 1>>, TRUE >>, << <<4, 5>>, TRUE >>},
        k \in {0, 4}}
MCEsPosition == [trim : {0, 1, 2}, level : [1..2 -> {1, 4}], coherence : [1..2 -> {-1, 0, 2}]]
MCEsSpatial ==
    {[kind |-> "spatial", positions |-> <<p, q>>] : p \in MCEsPosition,
        q \in {s \in MCEsPosition : s.level[2] = 4 /\ s.trim < 2}}
MCEsCall(n, s, h, t, l) ==
    [kind |-> "polarity", samples |-> <<n, 1 - n>> \o s \o <<0>>, origin |-> 2, last |-> 5,
     h2 |-> h, trusted |-> t, loud |-> l[1], loudLonger |-> l[2]]
MCEsPolarity ==
    {MCEsCall(1, s, h, TRUE, l) : s \in [1..3 -> {-4, -1, 0, 2}], h \in {0, 1, 2, 3},
        l \in {<<{}, {}>>, <<{1}, {}>>, <<{1, 3}, {2, 3}>>, <<{2, 3}, {}>>, <<{3}, {1, 3}>>, <<{2}, {}>>}}
    \cup {MCEsCall(0, s, 1, t, <<{2, 3}, {}>>) : s \in [1..3 -> {-4, 0, 1}], t \in BOOLEAN}
MCEsRelative ==
    {[kind |-> "relative", a |-> a, b |-> b] : a \in [1..3 -> {-1, 0, 2}],
        b \in [1..3 -> {-1, 0, 2}] \cup [1..1 -> {1}]}
MCEsBands ==
    {[kind |-> "bands", responses |-> <<a, b>>, nearest |-> <<1, 2>>, density |-> <<1, 3, 5>>] :
        a, b \in [1..3 -> {0, 1, 2}]}
MCEsOverload ==
    {[kind |-> "overload", x |-> x, run |-> n] : x \in [1..5 -> BOOLEAN], n \in 0..3}
MCEsInputs == MCEsPeaks \cup MCEsSpatial \cup MCEsPolarity \cup MCEsRelative \cup MCEsBands \cup MCEsOverload
MCEsGate == <<2, 3>>

\* Decay: the falls of EDT, T20 and T30 as ratios of energy, and ensembles with refusals.
Gave(n) == Figure(n, "None")
MCDcFall == [edt |-> <<1, 3>>, t20 |-> <<2, 5>>, t30 |-> <<2, 9>>]
MCDcSpread == {<<>>, <<Gave(1)>>, <<Gave(3), Gave(1)>>, <<Gave(5), Figure(0, "NoDecayFound"), Gave(1)>>, <<Gave(4), Gave(1), Gave(2)>>,
   <<Figure(0, "RangeTooSmall"), Figure(0, "NoDecayFound")>>}
MCDcSplit == <<1, 2>>

--------------------------------------------------------------------------------
\* A component at rest has one initial state.
MCPbConfig == <<Ref(0), Mea(0), Mea(0), Mea(0)>>
MCEsSilence == [kind |-> "overload", x |-> [i \in 1..5 |-> FALSE], run |-> 0]
MCDcIn == CHOOSE d \in DcInputs : TRUE
MCInit ==
    /\ focus \in {"publish", "align", "eq", "ring", "analyse", "estimate", "decay"}
    /\ RgInit
    /\ EqInit /\ (focus # "eq" => eqCount.steps = 5 /\ eqCount.kinds = {"pick", "auto", "export"})
    /\ PbInit /\ (focus # "publish" => /\ pbBus.config = MCPbConfig
                                      /\ pbCount.max = MCPbBound(0, 0, 0, 0, 4, 2, 0))
    /\ AlInit /\ (focus # "align" => /\ alAns.high = "unasked" /\ alAns.seed = "unasked"
                                    /\ alCount.max = MCAlBound(2, 0, 0, 0))
    /\ focus = "analyse" \/ anCfg = MCAn(4, 3, 2, 0, 8, 1, TRUE, 24, 0, 1)
    /\ AnInit
    /\ IF focus = "estimate" THEN EsInit ELSE esIn = MCEsSilence
    /\ IF focus = "decay" THEN DcInit ELSE dcIn = MCDcIn

MCNext ==
    \/ focus = "eq" /\ EqNext /\ UNCHANGED <<pbVars, alVars, rgVars, anVars, esVars, dcVars, focus>>
    \/ focus = "publish" /\ PbNext /\ UNCHANGED <<eqVars, alVars, rgVars, anVars, esVars, dcVars, focus>>
    \/ focus = "align" /\ AlNext /\ UNCHANGED <<eqVars, pbVars, rgVars, anVars, esVars, dcVars, focus>>
    \/ focus = "ring" /\ RgNext /\ UNCHANGED <<eqVars, pbVars, alVars, anVars, esVars, dcVars, focus>>
    \/ focus = "analyse" /\ AnNext /\ UNCHANGED <<eqVars, pbVars, alVars, rgVars, esVars, dcVars, focus>>
================================================================================
