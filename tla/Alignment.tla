------------------------------ MODULE Alignment -------------------------------
(***************************************************************************)
(* ALIGN: the operator answers four questions, AlignRunner plays pink      *)
(* noise on one output and then on the other, AlignmentWizard fits the two *)
(* captures, and the readout says which output to delay.  Impulse          *)
(* responses swept on the two sides may choose the cycle of the fit.       *)
(* Rendering, time and the memory of the transfer average are counted in   *)
(* chunks; a trace is what was heard while it was averaged.                *)
(***************************************************************************)
EXTENDS Integers, Sequences, FiniteSets, SequencesExt, FiniteSetsExt

CONSTANTS AlArrival,  \* output -> the true arrival of its loudspeaker, in samples
          AlPeriod,   \* the period at the crossover, in samples
          AlSettle,   \* kSettleSamplesAt48k
          AlSpan,     \* what the transfer average remembers
          AlLag,      \* how far the published snapshot may be behind what is rendered
          AlDwell,    \* transferDwellSeconds
          AlWord,     \* modulus of the 64-bit sample counter
          AlBounds    \* bounds, one record for a behaviour: runs, edits, disturbances, sweeps

\* TransferDwell.h: the dwell is "deliberately the generous reading"; the settling time is positive.
ASSUME AlAssumption ==
    /\ AlSettle \in Nat \ {0} /\ AlSpan \in Nat \ {0} /\ AlLag \in Nat /\ AlDwell \in Nat /\ AlWord \in Nat
    /\ AlDwell >= AlSpan + AlLag + AlSettle /\ AlWord > 4 * AlDwell
    /\ AlPeriod \in Nat /\ AlArrival \in [{0, 1} -> Int]

VARIABLES alEnv,   \* AlignEnvironment, and what the snapshots are made of
          alEng,   \* OutputEngine: armed, routing, renderedSamples, epoch; what was heard
          alAns,   \* AlignRunner::answers
          alRun,   \* AlignRunnerState
          alIr,    \* the bound impulse responses, the sweep in progress and the pending side
          alCount  \* the bounds of this behaviour and what has been used of them

alVars == <<alEnv, alEng, alAns, alRun, alIr, alCount>>

Sides == {"Main", "Sub"}
Other(side) == CHOOSE s \in Sides : s # side

AlMay(k) == alCount.used[k] < alCount.max[k]
AlUse(k) == alCount' = [alCount EXCEPT !.used[k] = @ + 1]

-----------------------------------------------------------------------------
(* OutputEngine as ALIGN uses it: OutputPolicy routes, a routed gate ramps. *)

Quiescent(e) == ~e.armed /\ ~e.ramping
Solo(e, outs) == [e EXCEPT !.tail = e.routed \ outs, !.routed = outs]
ArmSource(e) == [e EXCEPT !.armed = TRUE, !.rendered = 0]
DisarmSource(e) == [e EXCEPT !.armed = FALSE, !.ramping = e.armed]

\* What a chunk holds: the outputs that are audible in it.
Audible(e) == IF e.armed \/ e.ramping THEN (e.routed \cup e.tail) \cap (0..(alEnv.outs - 1)) ELSE {}

AlRender ==
    /\ alEnv.synthetic \/ alEnv.running
    /\ alEng.behind < AlLag
    /\ alEng.rendered < 2 * AlDwell
    /\ LET heard == Append(alEng.heard, Audible(alEng))
       IN  alEng' = [alEng EXCEPT
               !.heard = IF Len(heard) > AlSpan THEN Tail(heard) ELSE heard,
               !.rendered = IF alEng.armed \/ alEng.ramping THEN @ + 1 ELSE @,
               !.ramping = FALSE, !.tail = {}, !.behind = @ + 1]
    /\ UNCHANGED <<alEnv, alAns, alRun, alIr, alCount>>

\* The analysis thread publishes; the transfer, or its coherence, may be absent.
AlPublish ==
    /\ alEng.behind > 0 \/ alEng.snap.transfer # alEnv.transfer \/ alEng.snap.fft # alEnv.fft
    /\ alEng' = [alEng EXCEPT !.behind = 0,
           !.snap = [heard |-> Range(alEng.heard), fft |-> alEnv.fft, transfer |-> alEnv.transfer]]
    /\ UNCHANGED <<alEnv, alAns, alRun, alIr, alCount>>

-----------------------------------------------------------------------------
(* AlignmentWizard. *)

Measuring(w) == w.step \in {"MeasuringHigh", "MeasuringLow", "MeasuringSum"}
measuring == alRun.wizard # <<>> /\ Measuring(alRun.wizard[1])

OutputOf(ans, side) == IF side = "Main" THEN ans.main ELSE ans.sub

\* AlignmentWizard::arm: the count is read before armSource sets it back.
arm(e, ans) ==
    LET solo == Solo(e, {OutputOf(ans, ans.high)})
    IN  [eng |-> ArmSource(solo),
         wizard |-> [step |-> "MeasuringHigh", ans |-> ans, window |-> FALSE, start |-> solo.rendered,
                     traces |-> <<>>, sum |-> <<>>, verdict |-> <<>>, cycle |-> <<>>, fromIr |-> FALSE,
                     hint |-> <<>>, seedFar |-> FALSE, irs |-> <<>>, refusal |-> "None"]]

\* AlignmentWizard::poll, with the unsigned difference of the two counts.
wizardPoll(w, rendered) ==
    [w EXCEPT !.window = @ \/ (rendered - w.start) % AlWord >= AlSettle]

\* resolveCycle and candidateWithinGuard: the candidate nearest a target, the first of equals.
Distance(a, b) == IF a > b THEN a - b ELSE b - a
nearest(candidates, target) ==
    candidates[Min({i \in DOMAIN candidates :
                       \A j \in DOMAIN candidates :
                           Distance(candidates[i], target) <= Distance(candidates[j], target)})]
candidateWithinGuard(candidates, target) ==
    4 * Distance(nearest(candidates, target), target) <= AlPeriod

\* The bound impulse responses a press hands over: the ones of the output's sample rate.
supplyBoundIrs == [side \in {s \in Sides : alIr.bound[s] # <<>> /\ alIr.bound[s][1].rateOk} |-> alIr.bound[side][1]]

\* irHint_: low-pass side minus high-pass side, the topology's lag taken out.
irHint(w) == w.irs[Other(w.ans.high)].arrival - w.irs[w.ans.high].arrival

\* productOf over the two sides, and the sign of rho: they may contradict each other.
productOf(a, b) == IF "?" \in {a, b} THEN "?" ELSE IF a = b THEN "+" ELSE "-"
Contradict(signs) ==
    LET sides == productOf(signs.high, signs.low)
    IN  sides # "?" /\ signs.rho # "?" /\ sides # signs.rho

\* compute: what it needs of the two traces, the fit, and who chooses the cycle, which an offset the
\* operator has typed settles.  The fit knows the offset up to whole periods; f is what the data
\* says: the period, phase, signs, or a refusal.  fft is the grid: the size and the sample rate.
compute(w, f) ==
    LET high == w.traces[1]
        low == w.traces[2]
        true == AlArrival[OutputOf(w.ans, Other(w.ans.high))] - AlArrival[OutputOf(w.ans, w.ans.high)]
        candidates == <<true + f.slip * AlPeriod, true + (f.slip + 1) * AlPeriod, true + (f.slip - 1) * AlPeriod>>
        irs == w.cycle = <<>> /\ DOMAIN w.irs = Sides
        far == irs /\ w.ans.seed = "far"
        chosen == irs /\ ~far /\ candidateWithinGuard(candidates, irHint(w))
        cycle == IF chosen THEN <<irHint(w)>> ELSE w.cycle
    IN  IF high.fft # low.fft THEN [w EXCEPT !.refusal = "GridMismatch"]
        ELSE IF high.roles # low.roles THEN [w EXCEPT !.refusal = "ReferenceMismatch"]
        ELSE IF ~f.phase THEN [w EXCEPT !.refusal = "TraceNotUsable"]
        ELSE [w EXCEPT !.verdict = <<[tau |-> candidates[1], candidates |-> candidates, refusal |-> f.refusal]>>,
                       !.hint = IF irs THEN <<irHint(w)>> ELSE <<>>,
                       !.seedFar = far,
                       !.cycle = cycle,
                       !.fromIr = chosen,
                       !.step = IF cycle = <<>> THEN "AskingCycle"
                                ELSE IF Contradict(f.signs) THEN "AskingPolarity" ELSE "Computed"]

Fits == {[slip |-> s, phase |-> p, refusal |-> r, signs |-> g] :
            s \in {-1, 0, 1}, p \in BOOLEAN, r \in {"None", "TooFewBins"},
            g \in {[high |-> "+", low |-> "-", rho |-> "-"], [high |-> "+", low |-> "+", rho |-> "-"],
                   [high |-> "?", low |-> "+", rho |-> "-"]}}

\* submitCapture: the trace of this step; after the first the other side is soloed.
submitCapture(w, e, trace, f) ==
    LET kept == [w EXCEPT !.traces = Append(@, trace), !.refusal = "None"]
        solo == Solo(e, {OutputOf(w.ans, Other(w.ans.high))})
    IN  IF w.step = "MeasuringHigh"
        THEN [wizard |-> [kept EXCEPT !.step = "MeasuringLow", !.window = FALSE, !.start = e.rendered], eng |-> solo]
        ELSE [wizard |-> compute(kept, f), eng |-> DisarmSource(e)]

-----------------------------------------------------------------------------
(* AlignRunner. *)

complete(ans) == ans.high # "unasked" /\ ans.seed # "unasked"

AlInit ==
    /\ alEnv = [synthetic |-> FALSE, running |-> TRUE, outs |-> 2, fft |-> 1, roles |-> 1,
                exponential |-> FALSE, transfer |-> "whole", ratesOk |-> TRUE]
    /\ alEng = [armed |-> FALSE, ramping |-> FALSE, routed |-> {}, tail |-> {}, rendered |-> 0, epoch |-> 1,
                heard |-> <<>>, behind |-> 0, snap |-> [heard |-> {}, fft |-> 1, transfer |-> "whole"]]
    /\ \E high \in Sides \cup {"unasked"}, seed \in {"near", "far", "unasked"} :
           alAns = [main |-> 0, sub |-> 1, high |-> high, seed |-> seed]
    /\ alRun = [wizard |-> <<>>, outcome |-> "None", epoch |-> 0, synthetic |-> FALSE, fft |-> 0,
                start |-> 0, cycle |-> <<>>, fromIr |-> FALSE]
    /\ alIr = [bound |-> [s \in Sides |-> <<>>], sweep |-> <<>>, pending |-> <<>>]
    /\ \E b \in AlBounds : alCount = [max |-> b, used |-> [k \in DOMAIN b |-> 0]]

\* AlignRunner::blocker, the refusals in their order; the sweep is the other holder of the output.
Blockers == {measuring, ~complete(alAns), alAns.main = alAns.sub, ~alEnv.synthetic /\ ~alEnv.running,
             alIr.sweep # <<>>, alAns.main >= alEnv.outs \/ alAns.sub >= alEnv.outs,
             alEng.snap.transfer = "none", ~alEnv.ratesOk, alEnv.exponential, ~Quiescent(alEng)}
blocker == TRUE \in Blockers

\* press: the run keeps the answers and what it was pressed under.
press ==
    /\ ~blocker /\ AlMay("runs") /\ AlUse("runs")
    /\ LET armed == arm(alEng, alAns)
       IN  /\ alEng' = armed.eng
           /\ alRun' = [wizard |-> <<[armed.wizard EXCEPT !.irs = supplyBoundIrs]>>, outcome |-> "None",
                        epoch |-> alEng.epoch, synthetic |-> alEnv.synthetic, fft |-> alEng.snap.fft,
                        start |-> armed.eng.rendered, cycle |-> <<>>, fromIr |-> FALSE]
    /\ UNCHANGED <<alEnv, alAns, alIr>>

\* pressSum: both outputs, on the same source as the two steps.
pressSum ==
    /\ alRun.wizard # <<>> /\ alRun.wizard[1].verdict # <<>>
    /\ alRun.wizard[1].step \in {"Computed", "AskingPolarity"}
    /\ alEnv.synthetic \/ alEnv.running
    /\ alIr.sweep = <<>> /\ Quiescent(alEng)
    /\ LET w == alRun.wizard[1]
           e == ArmSource(Solo(alEng, {w.ans.main, w.ans.sub}))
       IN  /\ alEng' = e
           /\ alRun' = [alRun EXCEPT !.wizard = <<[w EXCEPT !.step = "MeasuringSum", !.window = FALSE, !.start = 0]>>,
                            !.epoch = alEng.epoch, !.synthetic = alEnv.synthetic, !.outcome = "None",
                            !.start = 0]
    /\ UNCHANGED <<alEnv, alAns, alIr, alCount>>

\* answerCycleMs: the typed offset goes to the wizard and is kept beside it.
answerCycleMs(samples) ==
    /\ alRun.wizard # <<>> /\ alRun.wizard[1].step \in {"AskingCycle", "Computed"}
    /\ AlMay("edits") /\ AlUse("edits")
    /\ LET w == alRun.wizard[1]
           asked == [w EXCEPT !.cycle = <<samples>>, !.step = "Computed",
                              !.fromIr = IF w.step = "AskingCycle" THEN @ ELSE FALSE]
       IN  alRun' = [alRun EXCEPT !.wizard = <<asked>>, !.cycle = <<samples>>, !.fromIr = FALSE]
    /\ UNCHANGED <<alEnv, alEng, alAns, alIr>>

\* AlignRunnerState::abort: silence, and no wizard.
abortRun(outcome) ==
    /\ alEng' = DisarmSource(alEng)
    /\ alRun' = [alRun EXCEPT !.wizard = <<>>, !.outcome = outcome]

\* poll: the environment first; another input mode, a stopped or a reopened device ends the run.
MustAbort == \/ alEnv.synthetic # alRun.synthetic \/ (~alEnv.synthetic /\ ~alEnv.running)
             \/ alEng.epoch # alRun.epoch
AlPollAborts ==
    LET stopped == alEnv.synthetic = alRun.synthetic /\ ~alEnv.synthetic /\ ~alEnv.running
    IN  /\ measuring /\ MustAbort
        /\ abortRun(IF stopped THEN "DeviceStopped" ELSE "OutputChanged")
        /\ UNCHANGED <<alEnv, alAns, alIr, alCount>>

\* trySubmit counts from the start of the step on the runner's own count.
renderedSince == IF alEng.rendered >= alRun.start THEN alEng.rendered - alRun.start ELSE 0
RipeAtWindow(w) == w.window

Ripe(w) == w.window /\ renderedSince >= AlDwell

\* A snapshot with a transfer whose coherence gate has opened.
Coherent == alEng.snap.transfer = "whole"

\* Not yet: until the clock, which the rendering does not drive, says it took too long.
AlPollWaits ==
    LET w == wizardPoll(alRun.wizard[1], alEng.rendered)
    IN  /\ measuring /\ ~MustAbort /\ ~(Ripe(w) /\ Coherent)
        /\ \/ abortRun("TimedOut")
           \/ alRun' = [alRun EXCEPT !.wizard = <<w>>] /\ UNCHANGED alEng
        /\ UNCHANGED <<alEnv, alAns, alIr, alCount>>

AlPollSettings ==
    /\ measuring /\ ~MustAbort /\ Coherent
    /\ Ripe(wizardPoll(alRun.wizard[1], alEng.rendered))
    /\ alEng.snap.fft # alRun.fft \/ alEnv.exponential
    /\ abortRun("SettingsChanged")
    /\ UNCHANGED <<alEnv, alAns, alIr, alCount>>

Trace == [heard |-> alEng.snap.heard, fft |-> alEng.snap.fft, roles |-> alEnv.roles, epoch |-> alEng.epoch, outs |-> alEnv.outs]

\* The capture of this step, and what follows it: the other side, an abort, or the verdict.
AlPollSubmits(f) ==
    LET w == wizardPoll(alRun.wizard[1], alEng.rendered)
        done == submitCapture(w, alEng, Trace, f)
        next == done.wizard
    IN  /\ measuring /\ ~MustAbort /\ Coherent /\ Ripe(w)
        /\ alEng.snap.fft = alRun.fft /\ ~alEnv.exponential
        /\ IF w.step = "MeasuringSum"
           THEN /\ alEng' = DisarmSource(alEng)
                /\ alRun' = [alRun EXCEPT !.wizard = <<[w EXCEPT !.sum = <<Trace>>, !.step = "Done"]>>,
                                          !.outcome = "SumMeasured"]
           ELSE IF next.refusal # "None" THEN abortRun("SettingsChanged")
           ELSE /\ alEng' = done.eng
                /\ alRun' = IF next.step = "MeasuringLow"
                            THEN [alRun EXCEPT !.wizard = <<next>>, !.start = alEng.rendered]
                            ELSE [alRun EXCEPT !.wizard = <<next>>,
                                     !.outcome = IF next.verdict[1].refusal = "None" THEN "Measured" ELSE "FitRefused",
                                     !.fromIr = IF next.verdict[1].refusal = "None" /\ next.step # "AskingCycle"
                                                THEN next.fromIr ELSE @]
        /\ UNCHANGED <<alEnv, alAns, alIr, alCount>>

-----------------------------------------------------------------------------
(* MainComponentAlign: a sweep on one side, bound when it is stored. *)

\* sweepOnSide: a refused press leaves the side a running sweep is pending for.
sweepOnSide(side) ==
    LET out == OutputOf(alAns, side)
        starts == alIr.sweep = <<>> /\ ~measuring /\ Quiescent(alEng) /\ out < alEnv.outs /\ alEnv.ratesOk
    IN  /\ AlMay("sweeps") /\ AlUse("sweeps")
        /\ alIr' = IF starts THEN [alIr EXCEPT !.pending = <<[side |-> side, out |-> out]>>,
                                               !.sweep = <<[side |-> side, out |-> out]>>]
                   ELSE alIr
        /\ UNCHANGED <<alEnv, alEng, alAns, alRun>>

\* The sweep ends: aborted or refused, or stored and handed to onSwept.
SweepFails ==
    /\ alIr.sweep # <<>>
    /\ alIr' = [alIr EXCEPT !.sweep = <<>>]
    /\ UNCHANGED <<alEnv, alEng, alAns, alRun, alCount>>

onSwept ==
    /\ alIr.sweep # <<>>
    /\ LET s == alIr.sweep[1]
           ir == [out |-> s.out, asked |-> s.side, arrival |-> AlArrival[s.out], rateOk |-> alEnv.ratesOk]
       IN  alIr' = IF alIr.pending = <<>> \/ alIr.pending[1].out # s.out THEN [alIr EXCEPT !.sweep = <<>>]
                   ELSE [bound |-> [alIr.bound EXCEPT ![alIr.pending[1].side] = <<ir>>],
                         sweep |-> <<>>, pending |-> <<>>]
    /\ UNCHANGED <<alEnv, alEng, alAns, alRun, alCount>>

\* AlignRunner::bindIr from the list of the pane: none.
bindIr(side) ==
    /\ alIr.bound[side] # <<>> /\ AlMay("edits") /\ AlUse("edits")
    /\ alIr' = [alIr EXCEPT !.bound[side] = <<>>]
    /\ UNCHANGED <<alEnv, alEng, alAns, alRun>>

-----------------------------------------------------------------------------
(* The operator edits the answers at any time; the world changes. *)

AlAnswer(field, value) ==
    /\ alAns[field] # value /\ AlMay("edits") /\ AlUse("edits")
    /\ alAns' = [alAns EXCEPT ![field] = value]
    /\ UNCHANGED <<alEnv, alEng, alRun, alIr>>

\* OutputEngine::prepare, on every opening: disarmed, and another epoch.
Reopened(e) == [e EXCEPT !.armed = FALSE, !.ramping = FALSE, !.tail = {}, !.epoch = @ + 1]

AlReopen(field) ==
    /\ AlMay("disturbances") /\ AlUse("disturbances")
    /\ alEnv' = [alEnv EXCEPT ![field] = ~@]
    /\ alEng' = IF alEnv'.running \/ alEnv'.synthetic THEN Reopened(alEng) ELSE alEng
    /\ UNCHANGED <<alAns, alRun, alIr>>

\* The device panel closes and opens the device between two polls.
AlReopenAtOnce ==
    /\ alEnv.running /\ AlMay("disturbances") /\ AlUse("disturbances")
    /\ alEng' = Reopened(alEng)
    /\ \E n \in {1, 2} : alEnv' = [alEnv EXCEPT !.outs = n]
    /\ UNCHANGED <<alAns, alRun, alIr>>

AlValues(field) == CASE field \in {"fft", "roles"} -> {1, 2}
                     [] field = "transfer" -> {"none", "blank", "whole"}
                     [] OTHER -> BOOLEAN

AlDisturb(field) ==
    /\ AlMay("disturbances") /\ AlUse("disturbances")
    /\ \E value \in AlValues(field) \ {alEnv[field]} : alEnv' = [alEnv EXCEPT ![field] = value]
    /\ UNCHANGED <<alEng, alAns, alRun, alIr>>

AlEdits == {<<"high", "Main">>, <<"high", "Sub">>, <<"seed", "near">>, <<"seed", "far">>, <<"main", 1>>, <<"sub", 0>>}

AlNext ==
    \/ AlRender \/ AlPublish
    \/ press \/ pressSum
    \/ \E s \in {0, AlPeriod} : answerCycleMs(s)
    \/ AlPollAborts \/ AlPollWaits \/ AlPollSettings
    \/ \E f \in Fits : AlPollSubmits(f)
    \/ \E s \in Sides : sweepOnSide(s) \/ bindIr(s)
    \/ SweepFails \/ onSwept
    \/ \E e \in AlEdits : AlAnswer(e[1], e[2])
    \/ \E f \in {"running", "synthetic"} : AlReopen(f)
    \/ AlReopenAtOnce
    \/ \E f \in {"fft", "roles", "exponential", "transfer", "ratesOk"} : AlDisturb(f)

AlSpec == AlInit /\ [][AlNext]_alVars

-----------------------------------------------------------------------------
(* Properties. *)

Wizards == Range(alRun.wizard)

\* A stored capture heard one output, the one its side named when MEASURE was pressed, and nothing of
\* the step before or of the room in silence; the sum heard both, or those of them the device still has,
\* which pressSum does not ask (AlignRunner.cpp:173-198, 273-276).
AlCaptureIsSolo ==
    \A w \in Wizards :
        /\ \A i \in DOMAIN w.traces :
               w.traces[i].heard = {{OutputOf(w.ans, IF i = 1 THEN w.ans.high ELSE Other(w.ans.high))}}
        /\ \A t \in Range(w.sum) : t.heard = {{w.ans.main, w.ans.sub} \cap (0..(t.outs - 1))}

\* The two captures a verdict compares are of one opening of the device, one grid and one set of roles
\* (AlignmentWizard.cpp:219-236, AlignRunner.cpp:252, 289).
SameSetup(a, b) == a.epoch = b.epoch /\ a.fft = b.fft /\ a.roles = b.roles
AlPairOfOneRun == \A w \in Wizards : w.verdict # <<>> => SameSetup(w.traces[1], w.traces[2])

\* The cycle the runner shows is the wizard's, and it says rightly whether the impulse responses chose
\* it: each keeps it on its own (AlignRunner.cpp:43-47, 368).
AlCycleAgrees ==
    \A w \in Wizards : w.verdict # <<>> /\ w.verdict[1].refusal = "None" =>
        /\ alRun.cycle # <<>> => alRun.cycle = w.cycle
        /\ alRun.fromIr = w.fromIr
        /\ w.fromIr => w.cycle = w.hint

\* delayInstruction of resolveCycle: the output the operator is told to delay, and by how much.
resolveCycle(w) == IF w.cycle = <<>> THEN w.verdict[1].tau ELSE nearest(w.verdict[1].candidates, w.cycle[1])
delayInstruction(w) ==
    LET tau == resolveCycle(w)
        delayed == IF tau > 0 THEN w.ans.high ELSE Other(w.ans.high)
    IN  [s \in Sides |-> IF s = delayed THEN Distance(tau, 0) ELSE 0]

\* When impulse responses of the two measured outputs chose the cycle, following the instruction makes
\* the two arrivals coincide, whichever side is the high-pass one and whichever period the fit took
\* (AlignReadout.cpp:59-70, CycleArrival.h:49-65).
AlInstructionAligns ==
    \A w \in Wizards :
        w.fromIr /\ (\A s \in Sides : w.irs[s].out = OutputOf(w.ans, s)) =>
            LET after == [s \in Sides |-> AlArrival[OutputOf(w.ans, s)] + delayInstruction(w)[s]]
            IN  after["Main"] = after["Sub"]

\* An impulse response is bound to the side its sweep was asked for, on the output that side then had
\* (MainComponentAlign.cpp:47-60).
AlIrOfSide == \A s \in Sides : \A ir \in Range(alIr.bound[s]) : ir.asked = s

\* An alignment step hears one side of one run, and what the wizard tells the operator to do aligns
\* the two.
AlInv == AlCaptureIsSolo /\ AlPairOfOneRun /\ AlCycleAgrees /\ AlInstructionAligns /\ AlIrOfSide
=============================================================================
