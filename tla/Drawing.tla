------------------------------- MODULE Drawing -------------------------------
(***************************************************************************)
(* What the transfer pane draws: bins gathered into pixel columns          *)
(* (TraceDecimator, PhaseDecimator, CoherenceAlpha), the engine each pane  *)
(* draws, and the cached image of the stored traces (StoredTraceLayer).    *)
(* Phases are whole degrees; levels and opacities are whole numbers, an    *)
(* interpolated one rounded down.  The drawn phase's pen lift has no       *)
(* reader in the program and is left out.                                  *)
(***************************************************************************)
EXTENDS Integers, Sequences, FiniteSets, SequencesExt, FiniteSetsExt

CONSTANTS DwInputs,     \* bins to draw: [deg, level, coherence, columns], a coherence of DwNaN is NaN
          DwColumns,    \* columns of the plot: 0..DwColumns - 1
          DwFull,       \* full opacity, and a coherence of 1
          DwNaN,
          DwStored,     \* what a stored trace may be: [id, fields]
          DwBound       \* [edits, swaps, sizes]: changes of the library, libraries, resizes

VARIABLES dwIn,     \* the bins of one curve
          dwLibs,   \* the libraries there have been: entries and revision; the place is the generation
          dwView,   \* TransferView: library (0: none), preferences, geometry, caches, the last paint
          dwLeft    \* changes left

dwVars == <<dwIn, dwLibs, dwView, dwLeft>>

-----------------------------------------------------------------------------
(* TraceDecimator.h.  An extent is {} without data, {<<min, max>>} with. *)

inColumn(columns, c) == {i \in DOMAIN columns : columns[i] = c}

decimateToColumns(values, columns) ==
    IF values = <<>> \/ Len(values) # Len(columns) THEN <<>>
    ELSE [c \in 1..DwColumns |-> LET vs == {values[i] : i \in inColumn(columns, c - 1)}
                                 IN  IF vs = {} THEN {} ELSE {<<Min(vs), Max(vs)>>}]

filled(extents) == {c \in DOMAIN extents : extents[c] # {}}

bridgeGaps(extents) ==
    [c \in DOMAIN extents |->
        LET before == {d \in filled(extents) : d < c}
            after == {d \in filled(extents) : d > c}
            a == Max(before)
            b == Min(after)
            between(k) == LET lo == (CHOOSE x \in extents[a] : TRUE)[k]
                              hi == (CHOOSE x \in extents[b] : TRUE)[k]
                          IN  lo + ((c - a) * (hi - lo)) \div (b - a)
        IN  IF extents[c] # {} \/ before = {} \/ after = {} THEN extents[c]
            ELSE {<<between(1), between(2)>>}]

-----------------------------------------------------------------------------
(* PhaseDecimator.h and TraceStroke.cpp *)

wrapTo180(deg) == LET w == (deg + 180) % 360 IN (IF w = 0 THEN 360 ELSE w) - 180

\* A whole turn less where the step is half a turn or more (std::round takes a half away from zero).
shortStep(delta) == IF delta >= 180 THEN delta - 360 ELSE IF delta <= -180 THEN delta + 360 ELSE delta

unwrapAlongBins(deg) ==
    IF deg = <<>> THEN <<>>
    ELSE FoldLeft(LAMBDA out, i : Append(out, Last(out) + shortStep(deg[i] - deg[i - 1])),
                  <<deg[1]>>, [k \in 1..(Len(deg) - 1) |-> k + 1])

decimatePhaseToColumns(deg, columns) == decimateToColumns(unwrapAlongBins(deg), columns)

\* Never the whole band: an extent of a turn or more is drawn by its two ends.
wrapExtentByEnds(extent) == LET lo == wrapTo180(extent[1])
                                hi == wrapTo180(extent[2])
                            IN  [min |-> lo, max |-> hi, straddles |-> lo > hi]

wrapExtent(extent) == LET lo == wrapTo180(extent[1])
                          hi == wrapTo180(extent[2])
                      IN  IF extent[2] - extent[1] >= 360 THEN [min |-> -180, max |-> 180, straddles |-> FALSE]
                          ELSE [min |-> lo, max |-> hi, straddles |-> lo > hi]

wrapForDrawing(extents) == [c \in DOMAIN extents |-> {wrapExtent(e) : e \in extents[c]}]

\* strokePhaseColumns: a straddle is two pieces at the edges of the pane.
drawnAt(drawn, deg) == IF drawn.straddles THEN deg >= drawn.min \/ deg <= drawn.max
                       ELSE drawn.min <= deg /\ deg <= drawn.max

-----------------------------------------------------------------------------
(* CoherenceAlpha.h *)

kUntrustedAlphaFloor == DwFull \div 4

alphaForCoherence(g) == kUntrustedAlphaFloor + (3 * (IF g > DwFull THEN DwFull ELSE IF g > 0 THEN g ELSE 0)) \div 4

weakest(extent) == extent[1]

columnAlpha(coherence, columns) ==
    LET measurable == [i \in DOMAIN coherence |-> IF coherence[i] = DwNaN THEN 0 ELSE coherence[i]]
        extents == decimateToColumns(measurable, columns)
        alphas == [c \in DOMAIN extents |-> {<<alphaForCoherence(weakest(e)), alphaForCoherence(weakest(e))>> :
                                             e \in extents[c]}]
        bridged == bridgeGaps(alphas)
    IN  [c \in DOMAIN extents |-> IF bridged[c] = {} THEN kUntrustedAlphaFloor
                                  ELSE (CHOOSE e \in bridged[c] : TRUE)[1]]

-----------------------------------------------------------------------------
(* StoredTraceLayer.cpp.  A cache is the key it was built for and the image; key <<>>: none. *)

Forgotten == [key |-> <<>>, image |-> <<>>]

rebuildImage(entries, geometry, field) ==
    IF geometry <= 0 THEN <<>>
    ELSE SelectSeq(entries, LAMBDA e : e.visible /\ field \in e.trace.fields)

cacheKey(generation, revision, geometry) == <<generation, revision, geometry>>

layerDraw(cache, generation, geometry, field) ==
    LET key == cacheKey(generation, dwLibs[generation].revision, geometry)
    IN  IF cache.key = key THEN cache
        ELSE [key |-> key, image |-> rebuildImage(dwLibs[generation].entries, geometry, field)]

-----------------------------------------------------------------------------
(* TransferView.cpp.  A snapshot has some of the engines' blocks. *)

resolveEffectiveSource(preferred, blocks) ==
    IF preferred \in blocks THEN preferred ELSE IF "Fixed" \in blocks THEN "Fixed" ELSE "Mtw"

\* Stored phases are left out on the unwrapped axis, and the pane says so.
renderTo(view) ==
    LET magnitude == resolveEffectiveSource(view.prefers.magnitude, view.blocks)
        phase == resolveEffectiveSource(view.prefers.phase, view.blocks)
        unwrapped == "Fixed" \in view.blocks /\ view.unwrapped /\ phase = "Fixed"
        stored == view.library # 0 /\ view.blocks # {}
        levels == IF stored THEN layerDraw(view.levels, view.library, view.geometry, "magnitude") ELSE view.levels
        phases == IF stored /\ ~view.unwrapped THEN layerDraw(view.phases, view.library, view.geometry, "phase")
                  ELSE view.phases
        paint == [curves |-> IF view.blocks = {} THEN {} ELSE {magnitude, phase},
                  extended |-> unwrapped,
                  hidden |-> stored /\ view.unwrapped,
                  levels |-> IF stored THEN levels.image ELSE <<>>,
                  phases |-> IF stored /\ ~view.unwrapped THEN phases.image ELSE <<>>]
    IN  [view EXCEPT !.levels = levels, !.phases = phases, !.paint = {paint}]

Blank == [library |-> 0, prefers |-> [magnitude |-> "Mtw", phase |-> "Mtw"], unwrapped |-> FALSE, blocks |-> {},
          geometry |-> 1, levels |-> Forgotten, phases |-> Forgotten, paint |-> {}]

DwViewInit == dwLibs = <<[entries |-> <<>>, revision |-> 0]>> /\ dwView = Blank /\ dwLeft = DwBound
DwInit == dwIn \in DwInputs /\ DwViewInit

Spend(kind) == dwLeft[kind] > 0 /\ dwLeft' = [dwLeft EXCEPT ![kind] = @ - 1]
Repaint(view) == dwView' = [view EXCEPT !.paint = {}] /\ UNCHANGED <<dwIn, dwLibs>>

\* A paint is forgotten when anything it was made of changes: then it is due, not wrong.
Edited(g, entries) == /\ dwLibs' = [dwLibs EXCEPT ![g] = [entries |-> entries, revision |-> @.revision + 1]]
                      /\ dwView' = [dwView EXCEPT !.paint = {}]
                      /\ Spend("edits") /\ UNCHANGED dwIn

DwAdd == \E t \in DwStored, g \in DOMAIN dwLibs :
            /\ \A i \in DOMAIN dwLibs[g].entries : dwLibs[g].entries[i].trace.id # t.id
            /\ Edited(g, Append(dwLibs[g].entries, [trace |-> t, visible |-> TRUE]))
DwHide == \E g \in DOMAIN dwLibs : \E i \in DOMAIN dwLibs[g].entries :
            Edited(g, [dwLibs[g].entries EXCEPT ![i].visible = ~@])

\* A session's library destroyed and another made: a new generation, revision 0.
DwNewLibrary == /\ Spend("swaps")
                /\ dwLibs' = Append(dwLibs, [entries |-> <<>>, revision |-> 0])
                /\ UNCHANGED <<dwIn, dwView>>

viewSetLibrary == \E g \in 0..Len(dwLibs) :
                    /\ g # dwView.library
                    /\ Repaint([dwView EXCEPT !.library = g, !.levels = Forgotten, !.phases = Forgotten])
                    /\ UNCHANGED dwLeft
setSource == \E pane \in {"magnitude", "phase"}, s \in {"Fixed", "Mtw"} :
                Repaint([dwView EXCEPT !.prefers[pane] = s]) /\ UNCHANGED dwLeft
setPhaseUnwrapped == Repaint([dwView EXCEPT !.unwrapped = ~@]) /\ UNCHANGED dwLeft
resized == \E w \in 0..2 : Repaint([dwView EXCEPT !.geometry = w]) /\ Spend("sizes")
publishes == \E b \in SUBSET {"Fixed", "Mtw"} : Repaint([dwView EXCEPT !.blocks = b]) /\ UNCHANGED dwLeft

paintView == dwView' = renderTo(dwView) /\ UNCHANGED <<dwIn, dwLibs, dwLeft>>

DwNext == DwAdd \/ DwHide \/ DwNewLibrary \/ viewSetLibrary \/ setSource \/ setPhaseUnwrapped \/ resized
          \/ publishes \/ paintView

DwSpec == DwInit /\ [][DwNext]_dwVars

-----------------------------------------------------------------------------
between(x, a, b) == (a <= x /\ x <= b) \/ (b <= x /\ x <= a)

\* No bin's level is lost in its column, however narrow the peak; a column without a bin is drawn only
\* between two that have one, and no higher or lower than they are (decimateToColumns, bridgeGaps).
DwLevelsShown ==
    LET drawn == bridgeGaps(decimateToColumns(dwIn.level, dwIn.columns))
        seen == {dwIn.columns[i] + 1 : i \in DOMAIN dwIn.columns} \ {0}
    IN  /\ \A i \in DOMAIN dwIn.columns : dwIn.columns[i] >= 0 =>
               \E e \in drawn[dwIn.columns[i] + 1] : e[1] <= dwIn.level[i] /\ dwIn.level[i] <= e[2]
        /\ \A c \in filled(drawn) \ seen :
               \E a, b \in seen : /\ a < c /\ c < b
                                  /\ \A d \in seen : d <= a \/ d >= b
                                  /\ \A e \in drawn[c], x \in drawn[a], y \in drawn[b] :
                                         between(e[1], x[1], y[1]) /\ between(e[2], x[2], y[2])

\* Every bin's phase lies in what is drawn of its column, where the curve wraps inside a column and where
\* a column holds a whole turn (unwrapAlongBins, decimatePhaseToColumns, wrapForDrawing, strokePhaseColumns).
DwPhaseShown ==
    LET drawn == wrapForDrawing(decimatePhaseToColumns(dwIn.deg, dwIn.columns))
    IN  \A i \in DOMAIN dwIn.columns : dwIn.columns[i] >= 0 =>
            \E d \in drawn[dwIn.columns[i] + 1] : drawnAt(d, dwIn.deg[i])

\* A column is never drawn with more confidence than its least coherent bin has, an unmeasurable bin
\* included, and a column outside the measured ones with none (columnAlpha).
DwAlphaHonest ==
    LET alpha == columnAlpha(dwIn.coherence, dwIn.columns)
        seen == {dwIn.columns[i] + 1 : i \in DOMAIN dwIn.columns} \ {0}
    IN  /\ \A i \in DOMAIN dwIn.columns : dwIn.columns[i] >= 0 =>
               alpha[dwIn.columns[i] + 1] <= alphaForCoherence(IF dwIn.coherence[i] = DwNaN THEN 0 ELSE dwIn.coherence[i])
        /\ \A c \in DOMAIN alpha : (\A d \in seen : d < c) \/ (\A d \in seen : d > c) => alpha[c] = kUntrustedAlphaFloor

\* What a paint shows of the stored traces is what the pane's library holds now, in any order of edits,
\* resizes, repaints and libraries that replace one another at the same revision (StoredTraceLayer::draw).
DwStoredIsCurrent ==
    \A p \in dwView.paint :
        LET truth(field) == IF dwView.library = 0 \/ dwView.blocks = {} \/ dwView.geometry <= 0 THEN <<>>
                            ELSE SelectSeq(dwLibs[dwView.library].entries,
                                           LAMBDA e : e.visible /\ field \in e.trace.fields)
        IN  p.levels = truth("magnitude") /\ (p.phases = truth("phase") \/ (p.hidden /\ p.phases = <<>>))

\* No pane draws an engine's block that the snapshot does not have, and no stored phase is drawn on an
\* extended axis, nor left out without a word (resolveEffectiveSource, TransferView::renderTo).
DwPaneHonest ==
    \A p \in dwView.paint : /\ p.curves \subseteq dwView.blocks
                            /\ p.extended => p.phases = <<>>
                            /\ p.extended /\ dwView.library # 0 => p.hidden

\* The panes draw what was measured: levels, phases, opacity, stored traces and pane states.
DwInv == DwLevelsShown /\ DwPhaseShown /\ DwAlphaHonest /\ DwStoredIsCurrent /\ DwPaneHonest
=============================================================================
