# rta-tool: TLA+ models, checks and proofs

rta-tool is a real-time audio analyser: it captures sound-card input, analyses
it (spectrum, transfer function, impulse response, sound pressure level), plays
measurement signals, logs SPL, keeps traces and sessions, and serves its results
over HTTP. This directory models its control: the threads that share state
without locks, the features that share one output, the log and the folder that
have to survive failures, the decisions the analysis makes of what it measured,
and the panes that show it. TLC checks the models on small instances; TLAPS
proves the safety of fourteen components, first of all those whose threads share state,
for every size.

A file is named by its base name where that is unique under `src/`.

## 1. The system

### Threads

| thread | runs | period |
|---|---|---|
| audio callback | `CaptureBus::pushFromCallback`, `OutputEngine::render` | one device block |
| synthetic feed | the same two, in place of a device (`SyntheticInput`) | paced by deadlines |
| device | `AudioIo::audioDeviceAboutToStart/Stopped/Error` -> `prepare`, `setActive`, fault | on (re)start |
| analysis | `AnalysisThread::run`: resync, drain, rebuild, analyse, publish, feed the SPL log | about 10 ms |
| message | operator presses, timers (2 Hz, and faster ones while something runs) | events |
| workers | `SweepIrWorker`, `Rt60Worker`, the SPL log writer | jobs |
| HTTP pool | `ApiServer` handlers | requests |

Audio, device and analysis threads exchange data only through atomics and
single-producer rings; every guarantee is an ordering argument, written down in
comments and in `docs/dsp/`. The workers use a mutex and a ticket or a flag. All
else runs on the message thread, where nothing interleaves inside a handler but
anything may happen between two.

### Components

| component | state | operations | what makes it correct |
|---|---|---|---|
| `CaptureBus` | one ring per channel, resync gate, epoch, counters | push, prepare, setActive, attach/detach, service resync, paired read | after a reconfiguration all rings restart on ONE callback boundary; a pair of channels is never offset |
| `RingBuffer` | head, tail, the other side's cached index, storage | write, read, peek, discard | bounded FIFO, one writer and one reader |
| `OutputEngine`, `RampedGain` | source slot, armed flag, epochs, gates | setSource, arm, disarm, route, render, prepare | no write to the slot under a render; no source at a foreign rate; every fall ends |
| output clients (LOCATE, CAL, SWEEP, GEN, VERIFY, ALIGN) | one small state machine each | press, poll, cancel, timeout | one holder at a time; nothing plays that nobody will stop; every run ends; no result of something else |
| generator strip, `MeasurementDrive` | settings, drive, outputs | click, poll, device event | what plays is what the strip shows |
| raw capture (`AnalysisThread`) | request, accumulator, published capture | arm, accumulate, publish, poll | an accepted capture is uninterrupted and is the one asked for |
| `SyntheticInput` | delay lines, pacing, wait for room | render, push, sleep | delays never lost; never stuck; never the cause of an offset pair |
| `AnalysisThread` publishing, `ApiServer` | analysers by slot, group, snapshot; limiter | tick, rebuild, publish; request | nothing of an old configuration is published; order of refusals; hard limits |
| `Analyser` and its FFT engines | rings, skip, running sums | push, process, delay, reset | every frame a pair `delay` apart; no sample lost or read twice |
| delay, polarity, average estimators | none | one call | an answer or a named refusal, never a guess |
| ALIGN (`AlignRunner`, `AlignmentWizard`) | step, captures, cycle, impulse responses | answer, measure, poll, sweep | each capture is of its side alone; the instruction aligns |
| EQ (`EqSession`, `EqPaneModel`, `EqVerify`, allocator) | filters, chips, declined places, verdict | pick, suggest, auto, accept, verify, adopt, export | what is placed, declined or verified belongs to the inputs of now |
| RT60 (`Rt60Worker`, `Decay`) | ticket, job, cancel flag; figures | ask, cancel, poll; analyse | no answer of a superseded job; no figure of a decay that was not there |
| SPL logging | request, session, block queue, writer, segments, calibration | poll, apply, feed, push, drain, rotate, stop | each block is written or counted; a failure stays visible; one session, one rate |
| SPL metering | accumulators, windows, alarms, history, Ln bins | hop | no sample unaccounted for; an alarm sees the window of its own block |
| SPL report | files, calibration record | write, fail part way, read back | the report never says more than the session was |
| trace library, session folder | entries, revision, ids; index and blobs | store, sweep, edit, save, open, crash | a session can always be read; a trace is itself |
| session codec | lines, words | encode, decode | round trip; newer and damaged are refused by name |
| crossover surface | two picks, chain, prediction | edits of the library, picks, a finished ALIGN run | what is drawn is of the traces that are there |
| transfer view | decimated curves, cached image | paint, edit, resize, swap library | no bin lost, no more confidence than was measured, no stale curve |
| rail (`DevicePanel`, fault line, channel tables) | copies of the device's state | start, stop, error, roles, timers, SYNTHETIC | what is shown is what is, or will be at the next timer |
| FIR design, FFT and filters, painting, tools | | | numeric or no protocol: not modelled |

The clients play through `OutputEngine`; the callback renders that and writes the
answer into `CaptureBus`; the analysis thread drains it, fills the raw capture,
feeds analysers and SPL log and publishes snapshots; the clients poll those and
put traces into the library, which the panes draw and the session folder keeps.
`prepare` hits bus and engine together on every device restart, from a thread
none of the others waits for.

### What is hard

* **Interleavings of atomics**: a callback past its gate check against a drain; a
  block in progress against a source swap; `prepare` against everything.
* **Stale reads**: an idle flag that describes the last block, an epoch loaded after
  the thing it labels, a resync sequence read before the capture it vouches for, a
  snapshot published before its dwell, a cached curve, a chip ranked for an older target.
* **Timeouts and abandoned work**: a device that stops calling back; a capture given
  up by its client that still fills up; a ticket that was cancelled; a consumer that
  takes nothing.
* **Failure part way**: a save killed between blobs and index, a log row cut by a full
  disk, an allocation that fails in the middle of a rebuild.
* **Identity over time**: ids, folder names and sequences that start over.
* **Liveness**: waits for callbacks, workers or room that may never come.

`PROJECT.json` lists the hazards line by line with the properties that cover each.

## 2. Modules and the code they model

| module | code | granularity of a step |
|---|---|---|
| `CaptureBus`, `CaptureBusProofs` | `CaptureBus.cpp`, `ChannelConfig`, `AudioIo` start/stop, the tick and paired drain of `AnalysisThread` | one atomic access |
| `SampleRing`, `BoundedFifo`, `SampleRingProofs` | `RingBuffer.h`, and what it promises | one index access or one sample copied |
| `OutputEngine`, proved in `AudioProofs` | `OutputEngine.cpp`, `RampedGain` (`Oscillator.cpp`) | one atomic access |
| `OutputClients`, `OutputClientsProofs` | `MainComponent*.cpp`, `GeneratorRunner`, `EqVerifyRunner`, `AlignRunner`, `SweepRunner` handlers | one press or poll |
| `Generating`, proved in `PanelProofs` | `GeneratorRunner`, `GeneratorModel`, `MainComponentGenerator*`, `MeasurementDrive` | one handler |
| `RawCapture`, `RawCaptureProofs` | `AnalysisThread` raw capture, the polls of LOCATE, SWEEP, CAL | one atomic access |
| `SyntheticFeed`, proved in `AudioProofs` | `SyntheticInput.cpp`, pacing, delay lines | one check of a shared flag, one block |
| `Publishing`, proved in `MeasureProofs` | `AnalysisThread`, `AnalysisThreadLoop`, `AnalysisPublish`, `AnalyserRebuild`, `RoutingPlan`, `AverageGroup`, `ApiServer`, `ApiPolicy` | one phase of a tick, one request |
| `Analysing` | `Analyser`, `SpectrumEngine`, `DualFftEngine`, `MtwEngine`, `MtwLayout`, `AverageCount` | one block pushed |
| `Estimating` | `PhatCorrelation`, `DelayPolicy`, `SpatialAverage`, `SpatialMtw`, `Polarity`, `RelativePolarity`, `BandWeights`, `OverloadDetector` | one call |
| `Alignment`, proved in `MeasureProofs` | `AlignRunner`, `AlignmentWizard`, `AlignReadout`, `CycleArrival`, `MainComponentAlign` | one handler or chunk |
| `EqAllocator`, `EqWorkflow`, proved in `MeasureProofs` | `EqAllocator.cpp`, `DipClassifier`, `EqGainSolve`; `EqSession`, `EqPaneModel`, `EqVerify`, `EqVerifyRunner`, `MainComponentEq*` | one press, one poll |
| `Rt60`, proved in `PanelProofs`; `Decay` | `MainComponentRt60`, `Rt60Worker`, `Rt60Analysis`; `Decay`, `DecayLundeby`, `DecayEnsemble`, drawn curves | one lock scope; one call |
| `SplLogging`, `SplLoggingProofs` | `AnalysisThreadSpl`, `SplSession`, `SplLogPipeline`, `SplLogWriter`, `MainComponentSpl`, `MainComponentCalibration` | one lock scope or flag |
| `SplMetering` | `SplMeter`, `Block`, `SplSession`, `SplChannelState`, `Alarm`, `SplAlarms`, `SplHistory`, `LevelHistogram`, `Dose` | one hop |
| `SplReport` | `SplLog.h`, `SplLogWriter`, `SplCalibrationRecord`, `CalibrationSession`, `SplReportPayloadBuilder`, `SplReportHistorySections` | one write, one failure, one reading |
| `TraceStore`, proved in `PanelProofs` | `TraceLibrary`, `CaptureConverter`, `IrStore`, `SessionStore`, SAVE and OPEN of `MainComponentSession` | one file operation |
| `SessionCodec` | `SessionCodec`, `SessionDecode`, `TraceBlobCodec`, panes (`Workspace.h`) | one call |
| `Crossover` | `CrossoverSurface`, `VirtualTrace`, `CrossoverTopology`, `CrossoverPaneView`, `AlignPaneView` | one handler |
| `Drawing` | `TraceDecimator`, `PhaseDecimator`, `TraceStroke`, `CoherenceAlpha`, `TransferView`, `StoredTraceLayer` | one edit, one paint |
| `DeviceSetup`, proved in `AudioProofs` | `AudioIo`, `AudioIo_Devices`, `DevicePanel`, `FaultLine`, `ChannelRoleTable`, `RoutingMatrix`, `MainComponentSynthetic` | one handler; opening a device and the panel's refresh in two |
| `MC*` | put modules side by side for TLC and define the values of constants | |

The `map` of `PROJECT.json` gives each definition's lines.

**CaptureBus.** `roles`, `active`, `resyncPending`, `gateSeen`, `gateSeenAtRaise`,
`resyncSeq`, ... are the atomics of the class. A `...Pc` variable per thread says
which atomic access comes next; `cb...`, `dev...`, `con...` are that thread's
locals. A block of samples is the number of its callback, so "two rings are
aligned" is "they hold the same numbers". `disturbed` and `conOverlap` are
history variables that only properties read. A tick reads what `planRouting` says of
roles and indices: one group for each distinct reference, or, with nothing routed, each
measurement and each reference by itself (`Plan`); every group looks at its own
availability once and advances its own rings, while the callback writes.

**SampleRing.** Head and tail are free-running counters of a small word, so that
they wrap; `std::memcpy` is one sample per step, so that the producer's and the
consumer's copies overlap in every way. It implements `BoundedFifo`, which knows
neither indices nor storage: `RgImplementsFifo` instantiates it with the queue
read out of the storage between the published indices.

**OutputEngine.** A source is the device session it was built for, so "wrong rate"
is `slot # sampleRate`. A gate has a target, a position on a ramp of `RampLen`
chunks and a state. `swapRaced`, `overlapped` and `slotOverlapped` are history.

**OutputClients** and **Generating.** The engine is used through its message-thread
contract, which `OutputEngine` checks step by step: `armed`, `idle`, `epoch`, the
slot's owner. The rendered-sample counter keeps the three values that clients tell
apart. Between the six polls of one timer tick callbacks, device events, the
analysis thread and the sweep worker may run. `Generating` takes the generator
apart: its settings, the strip and the drive a measurement takes its level from.

**RawCapture.** One pair of rings as one sequence of callback numbers, the
arm/accumulate/publish hand-over and each client's reads in source order. A capture
carries the number of the arm it was made for, so "somebody else's" is visible.

**Publishing.** A slot carries the rate and the delay it was built with and the number of
its build; a snapshot is what each position was read from. The API's limiter, its refusals in
order and the ETag are one request each. A rebuild that runs out of memory leaves a fault and is
tried again; any other exception ends the analysis thread (`PbThrows`, `AnalysisThreadLoop.cpp:24-41`),
and the API goes on answering from the last snapshot.

**Analysing.** A sample is the instant it was captured at and a frame pair's power
is the instant its frame begins at, so a sum shows exactly which frames are in it; an
exponential average is the list of frames that made it, the one that seeded it first.

**Alignment, EqWorkflow.** What is played and heard has a history: a capture is what
was heard while it was averaged; a verdict remembers the inputs it was made of. The
fit of a band, the biquads and the least squares are answers from outside, limited
to what the code relies on; a snapshot may have no transfer function, one without a
coherence, or a whole one, and a stored capture may be of another grid than the next.

**Rt60, Decay.** A figure of a band is which capture and band it was computed from.
The decay curve stays an energy, so a level in decibels is a fraction of its start
and the comparison is exact. The condition variable of the worker is taken apart: it
looks at what it waits for and falls asleep in one hold of the mutex (`RtSleep`), a
submitter's notification comes after its own hold (`RtNotify`), wakes only a thread that
is asleep by then, and a thread may wake for no reason. A band that throws is an empty
figure, an ensemble that throws an empty answer.

**SplLogging, SplMetering, SplReport.** A segment opens, does not open, or opens and
loses its header, which the writer notices only with the next row. A block is the session
that closed it and a number; a level is an energy; a line of a file is a key, a value and whether its
newline arrived.

**TraceStore, SessionCodec.** A file is there or not, a tmp file is another file, a
rename is a step; the program may be killed between any two and started again. The
codec works on lines and values, where only escapes are characters.

**Crossover, Drawing.** A bin is a Gaussian integer (a phase in quarter turns), so
that sums are exact; phases to be drawn are whole degrees.

**DeviceSetup.** Which device JUCE opens, and what it reports, is a choice. Opening has two
steps, because a device error may land between `addAudioCallback` and the store of
`running_`. A snapshot carries one position for each route, those past the cap of
`kMaxTransferFunctions` as `CAP` (`AnalysisPublish.cpp:119-148`); the matrix zips the plan of
now with them. The cells remember the number of channels they were last planned with (`asOf`).

Memory order: every atomic access is one sequentially consistent step. The
release/acquire pairs of the code give the orders these models rely on; relaxed
accesses that the hardware could reorder further are not explored.

## 3. Runs

Several modules share no state with one another. An MC module puts such modules
side by side and a variable `focus` names the one that moves in a behaviour; the
others rest in one initial state, so the state spaces add up and do not multiply.
Every component explores all of its behaviours under its own focus, and a property
of a component is about the states reached there. The modules that do compose
(`OutputClients` over the engine's contract, `Generating` with the device and a
measurement, `Alignment` with what the room answers, `EqWorkflow` over
`EqAllocator`, `Publishing` from the device to the HTTP client) do so inside one
state space.

A name ending in `Inv` is a conjunction of the named properties behind it, each
stated with its own comment in the module.

| run | checks | shows |
|---|---|---|
| `CaptureBus_safety` | `TypeOK`, `IInv`, `AckedDrainExclusive`, `EmptyAtLower`, `AlignedInv` (`RingsAligned`, `PairedHopAligned`) | an acknowledged drain never overlaps a writing callback and leaves every ring empty; outside the disturbances of `Causes`, the rings and hops a tick reads together are of the same callbacks; `IInv` is the inductive invariant of the proofs |
| `CaptureBus_restart` | `GateComesDown` | a device reconfigured while blocks wait: the gate comes down whether or not the device calls back |
| `OutputClients_safety` | `ClientsInv` (`OneHolder`), `ArmedIsOwned`, `GenStaysInSession`, `AlignHearsItsStep` | one holder; no source without a client that will stop it; a restart ends the generator; ALIGN stores only what it played |
| `OutputClients_live` | `ClientsLetGo` | CAL, SWEEP, ALIGN and a generator's swap or stop end whatever the device does |
| `RawCapture_safety` | `TypeOK`, `ConsumedIsWhole`, `ConsumedIsOwn` | an accepted capture has no hole and is of its own arm, outside three named races |
| `Spl_check` | `LogInv` (`NoBlockLostInSilence`, `EndedLogIsWhole`), `LogSessionInv` (`MirrorIsOwn`, `HopsOfOneRate`, `RecordIsFlagged`), `SplInv` (`SamplesAccounted`, `HistoryFindsBlocks`, `WindowEndsAtItsBlock`, `AlarmsInConfigOrder`, `AlarmMarkersAlternate`, `LnIsPercentile`, `ViewIsOfOneBlock`), `RpInv` (`RpRowsSurvive`, `RpBracketExact`, `RpPassIsEarned`, `RpNoticeIsHonest`, `RpReadoutAgrees`, `RpDrawnOnStrip`), `HeadroomForetells` | log, meters and report of an SPL session over restarts, full queues, failed writes and cut records |
| `Threads_check` | `EngineInv` (`SwapExclusive`, `RateMatches`), `BecomesQuiescent`; `GnInv` (`GnPlaysWhatItShows`, `GnStoppedIsSilent`, `GnArmedIsHeld`, `GnDriveIsShown`), `GnSettles`; `SyInv` (`SyMeasuredIsDelayed`, `SyReferenceIsPlayed`, `SyDropsOnlyWhenStalled`, `SyBurstBounded`), `SyLive` (`SyResyncCompletes`, `SyFeedNeverStuck`); `RtInv` (`RtShownIsAsked`, `RtEnsembleTrusted`, `RtWindowInside`), `RtAnswers` (`RtRevisionTells`, `RtSettles`, `RtJoins`) | the parts that wait for another thread, with their liveness |
| `Measure_check` | `PublishInv` (`PbOneConfiguration`, `PbPositionsAreRoutes`, `ApiHardBound`, `ApiRefusalIsEarned`, `ApiNotModified`), `AlInv` (`AlCaptureIsSolo`, `AlPairOfOneRun`, `AlCycleAgrees`, `AlInstructionAligns`, `AlIrOfSide`), `EqInv` (`EqPlacesUsable`, `EqStopsWhenDone`, `EqDeclinedStaysOut`, `EqChipsCurrent`), `EqAdoptVerified`, `AnInv` (`AnPairsAligned`, `AnNoSampleLost`, `AnSumIsWindow`, `AnCoherenceEarned`, `AnStitched`), `EsInv` (`EsPeaksSeparated`, `EsWindowHonoured`, `EsAverageHonest`, `EsPolarityFlips`, `EsRowsAreOwn`, `EsOverloadIsRun`), `DcInv` (`DcRangeReached`, `DcIgnoresOutside`, `DcMedianSplits`, `DcDrawnCovers`), `RgImplementsFifo` | from samples to answers; the ring implements a bounded FIFO |
| `Library_check` | `StoreInv` (`LibraryIdsUnique`, `ShadesDistinct`, `IndexNamesBlobs`, `SessionSurvives`, `IrOfOwnTrace`), `CodecInv` (`RoundTrip`, `NewerIsNamed`, `DamageRefused`, `BoundToItsDevice`, `SharesAreWhole`), `XoInv` (`XoShownIsCurrent`, `XoRefusalNamed`, `XoMarksFitTarget`, `XoSuggestionAligns`, `XoGapOfPrediction`), `DwInv` (`DwLevelsShown`, `DwPhaseShown`, `DwAlphaHonest`, `DwStoredIsCurrent`, `DwPaneHonest`), `DvInv` (`DvFaultShown`, `DvPanelFollows`, `DvNoHiddenRole`, `DvRowsAreOwn`) | what is kept and shown |

Runs that refute a sentence of the repository (each quoted in `PROJECT.json`):

| run | the sentence is about | what happens |
|---|---|---|
| `OutputClients_verify` | VERIFY submits its own excitation | after a reopen the rendered counter stands still, the dwell stays "over" and silence is submitted |
| `Spl_frozen` | `lastEpoch_` is never stale when a log starts | an epoch that rises between the tick's check and `applyPendingSplRequest` freezes the log until something else restarts it |
| `Store_ir` | an opened trace comes back without its impulse response | ids start over with the process: the trace finds another capture's response |

### The exceptions the passing properties name

A safety property that holds except in a known race names the race as a history
variable, so that it says: this is the only way it goes wrong.

* `disturbed` (`RingsAligned`, `PairedHopAligned`). Counted drops, short blocks, a
  `prepare`, role or index change not served yet; `missedRole`: a change that leaves the
  writer mask equal, a role cleared and set again between two ticks or a measurement made a
  reference, is not detected and the pair stays offset (`CaptureBus.cpp:83`;
  `CaptureBus.h:157-159` says it is);
  `overlap`: a drain by timeout or of an inactive bus beside a callback in mid-block
  (`AudioIo::stop` clears the active flag before it removes the callback, so
  "inactive" does not mean "nothing in flight"); `detach`: the gate lowered without a
  drain.
* `GateComesDown` asks for an attached consumer: `prepare` loads `consumerAttached_`
  first and raises the gate afterwards, so a consumer that leaves in between leaves
  the gate up until the next one attaches.
* `swapRaced` (`SwapExclusive`): arm, pick-up and disarm inside one block; the idle flag
  is still that of the block before, and `setSource` writes the slot under a render
  (`OutputEngine.cpp:211`; `docs/dsp/2026-09-06-l7-output-path.md:173-176` rules it out).
* `slotOverlapped` (`RateMatches`): a `prepare` between the building of a source and
  `setSource`'s load of the epoch labels the old source with the new session, and it
  plays at the wrong rate.
* `holeAhead` (`ConsumedIsWhole`): a hole already in the ring when SWEEP takes its
  baseline of drops is not noticed (`MainComponentSweep.cpp:136`, 178-183). `resyncUnder`:
  LOCATE reads the resync sequence (`MainComponentDelay.cpp:117`) before the capture.
* `inFlight` (`ConsumedIsOwn`): a client that gives up leaves the accumulator running;
  if it fills between the next arm's clear and its request being taken, the old
  capture is taken for the new one.
* `ClientsLetGo` leaves out VERIFY, whose `Settling` branch has no timeout
  (`EqVerifyRunner.cpp:204` against `EqVerifyRunner.h:46`), and LOCATE, whose poll has
  none; `docs/HUMAN-QA-QUEUE.md` records a plain device stop as deferred.
* `HopsOfOneRate`: a bus reopened after the tick looked at its epoch and before the hop
  was fed (`AnalysisThreadSpl.cpp:176`). `RecordIsFlagged`: a failed end check whose flag is set while
  a request is on its way is lost. `EndedLogIsWhole`: two sessions of the same epoch
  within one second share a folder (`SplSessionFolderName.h:53` against 13-17).
* `HistoryFindsBlocks`, `AlarmMarkersAlternate`: a hop that closes more blocks than the
  ready buffer holds leaves a hole; markers past `kMaxMarkers` are dropped and counted.
* `ApiNotModified`: a rebuilt `Analyser` counts its snapshots from 1 (`Analyser.cpp:162`
  against `Snapshot.h:209-211`), so an ETag may come back.
* `SessionSurvives`: a cut save over a folder whose ids an earlier run of the program
  used for other captures.
* `DvPanelFollows`: an error that lands inside `DevicePanel`'s refresh (93-138) is counted
  as seen at its end (142); SYNTHETIC stops the device without a word to the panel
  (`MainComponentSynthetic.cpp:50` against `DevicePanel.h:99-101`).

### Other disagreements met while modelling

They are no run's subject: a property is stated so that it says what does hold.

* A role change raises the gate only when the set of written channels changes, while
  `CaptureBus.cpp:78-81` says a role assigned to a running device must raise it ("the pair is
  offset for good"). A click cycles Unused, Measurement, Reference (`RoutingMatrix.cpp:51-56`):
  of two measurements the first is read and the second only written; the click that makes the
  second the reference pairs its backlog with the other's empty ring. Taking `missedRole` out of
  the exceptions of `AlignedInv` lets TLC show it from two measurements and one role change.
* ALIGN: on its second use the wizard's window opens at once, since `renderedSamples` is
  that of the last run (`AlignmentWizard.cpp:105`, 129-143 against `AlignmentWizard.h:153-157`);
  the runner's own dwell hides it. `pressSum` does not ask again whether the device still
  has both outputs (`AlignRunner.cpp:173-198`).
* A stored phase is in radians and drawn on an axis of degrees (`CaptureConverter.cpp:132`,
  `StoredTraceLayer.cpp:153`, 178).
* Analysers are keyed by the position of their route: after a role change a slot goes on
  with the history of another route (`AnalysisThread.h:119-125`).
* STORE is refused as a duplicate after OPEN of an older session, until the counter has
  passed its ids (`CaptureConverter.h:36-41`). SAVE says SAVED although a blob failed
  (`MainComponentSession.cpp:160`). A text that ends in a carriage return loses it.
* SPL: a restart by calibration does not update `lastSplEpoch_`
  (`MainComponentCalibration.cpp:253-257`); a hop that closes two blocks gives the older
  one's alarms a window shorter than configured (`SplChannelState.h:35-56`); an alarm longer
  than the longest metric window never fills (`SplSession.cpp:68-76`); the live Ln is attached to
  the first metric, whatever it is (`SplReportPayloadBuilder.cpp:346`); a
  record cut before its `offsetApplied` line loses the notice that the offset was never applied
  (`RpBracketExact` and `RpNoticeIsHonest` say what holds of a cut record, against "either
  well-formed or absent, never partially trusted", `SplCalibrationRecord.h:178-179`);
  a failed header is not a failure until the next row is written
  (`SplLogWriter.cpp:76-90`); `calibrationChannelRefused_` may be of an earlier check
  (`MainComponentCalibration.cpp:213`, 284).
* EQ: nobody sets `roomT60Sec`, and the clamp of `EqAllocator.cpp:143` would have its bounds
  the wrong way round if it were large; choosing an older measurement keeps the applied marks.
* `findPolarity` answers NoSignal when the noise is exactly zero (`Polarity.cpp:202`).
* The AVG column may be out of step longer than the one tick of `MainComponent.cpp:350-353`,
  while nothing is published. Leaving SYNTHETIC with the device closed leaves its two rows
  (`MainComponentSynthetic.cpp:143`); roles of channels 2 and up are held under SYNTHETIC.
* An error between `addAudioCallback` and the store of `running_` (`AudioIo.cpp:60-66`) clears a
  flag that is then set: AudioIo says running with an inactive bus, until STOP.
* `AudioIo::audioDeviceError` leaves the callback registered, so a later `start` may meet it; a
  failed `setSampleRate` or `setBufferSize` leaves `running_` set with no device and no
  fault (`AudioIo_Devices.cpp:66-102`). `Fault::Kind::DeviceStopped` is recorded by nobody.
* Code without a caller in the program is left out and named in the module's header:
  `setActiveTransferFunction`, `SplLogWriter::reconfigure`, `spatialAverageMtw`'s view,
  `Analyser::reset` outside of tests, the trims of the average group.

### Bounds

| constants | values | why they are enough |
|---|---|---|
| `NumChannels`; `Capacity`; `AckTicks` | 2; 2; 1 | alignment relates two rings, in one group or one by one; full, partly full and empty rings occur; one waiting tick, then the timeout |
| `TfIndices`, `InitialRouting`; `Received`, `Prepared`; `MaxBlocks`, `MaxPrepares`, `MaxRoleChanges` | two, a pair or a measurement alone; {1,2}, {2}; 3, 1-2, 0-1 | a routed pair, and channels read one after the other when nothing is routed (two groups of a pair each take four channels: the theorem); blocks with a channel missing; blocks before, during and after a gate; a start and a reconfiguration |
| `Length`, `MaxBlocks`, `MaxRaises`, `MaxArms` (capture) | 2, 5, 1, 2 | the shortest capture that can be cut, a hole on either side; an abandoned arm and a new one |
| `RampLen`, `MaxChunks`, `MaxPrepares`, `MaxArms` (engine) | 2, 2, 2, 3 | a ramp cut in the middle, a block that ends in mid-ramp; arm, disarm and arm again across a swap |
| `Timeout`, `MaxEpochs` (clients) | 2, 1-2 | a wait that goes on and one that is over; a start and a reopen in mid-run |
| `GnCeiling`, `GnHz`, `GnRates`, `GnOutputs`, `GnTimeout`, `GnBounds` | 2, two each, 1 | levels below and at the ceiling; a rate too low for a tone; clicks, device events and another client's press in three mixes |
| `SyFrames`, `SyDelays`, `SyRoom`, `SyGiveUp`, `SyMaxLag` | 2, <<1,3>>, 1, 2, 1 | one delay shorter than a block and one longer; a ring that is full after a block; late, and too late |
| `RtIrOf`, `RtStoreSize`, `RtMaxEnsemble`, `RtMaxAsks` | 4 captures, 2, 2, 5 | a capture thrown out of the store, an arrival before the record, another rate; a request, its cancel and the next |
| `RgMin`, `RgWord`, `RgTags`, `RgChunk` | 3, 8, 5, 2 | a capacity rounded up to 4; both indices wrap; more tags than places, so an overwritten sample shows |
| `QueueBlocks`, `SegmentBlocks`, `MaxSessions`, `LogBounds` | 1, 1, 2 (3 in `Spl_frozen`) | a full queue; rotation at every block; a log restarted while the old one drains |
| `ReadyCapacity`, `MaxWindowBlocks`, `MaxMarkers`, `MaxMetrics`, `MaxHops` | 2 each | every buffer overflows; a hop closes several blocks |
| `RpSegment`, `RpLimit`, `RpBounds` | 1, 1 | a failure in every row and line; two checks within and beyond the limit |
| `PbSlots`, `PbRate`, `PbWindow`, `PbConfigs`, `PbBounds` | 2, 2, 2, 6 routings | shared references, a missing measurement; a window that begins anywhere |
| `AlPeriod`, `AlDwell`, `AlSpan`, `AlLag`, `AlSettle`, `AlArrival` | 4, 3, 1, 1, 1, sub 2 earlier | half a period apart, the worst case of the cycle; `AlAssumption` is what `TransferDwell.h` says of the dwell |
| `EqNyquist`, `EqChips`, `EqGrids`, `EqBounds` | 6, 3, two grids | every room of three levels at four frequencies for one AUTO; seven presses of each mix on one room |
| `AnConfigs`, `AnChunks`, `AnAlpha` | 4-point frames; {1,2,7,23}; one half | delays longer than a block both ways, a reset; FIFO and exponential averages of the fixed engine and of the bands, whose gate opens at the fourth frame; the bands switched off; the layouts of the program at its real sizes |
| `EsInputs`; `DcLength`, `DcSquares` | six to a call; 5, {0,1,5} | all inputs of that size, negative, zero and clipped samples among them |
| `IrCapacity`, `MaxCaptures`, `MaxRuns`, `MaxSaves`, `MaxOpens` | 2, 3, 2, 2, 2 | a response thrown out; a second run that reuses an id; a save over a save |
| `Texts`, `Schema`, `MaxPanes`, `PaneWeights` | five texts, 3, 2 | escapes next to what they escape; older and newer; an unusable weight |
| `XoTraces`, `XoRuns`, `XoMaxChanges`; `DwColumns`, `DwBound` | 5, both sides by five lags, 3; 4 | sides that differ in phase, rate or size; columns empty, at an edge, with all bins |
| `DvMax`, `DvSlots`, `DvSynthetic`, `DvBounds` | 4, 2, 2 | a wide device and a narrow one; five clicks make a reference and three measured channels, one route past the cap; faults and modes in turn |

What the instances do not reach: with `LnTop` 1 the percentiles have two bins, so the
interpolation inside one is not exercised; `DcMedianSplits` meets lists without ties, and
`DcRangeReached` stays near the guard of `fitOne`; a crossing beside its neighbours is
held fixed in `DcIgnoresOutside`; the codec's documents have no empty line and one
`[average]`; a crossover's target orders are those of the run, compared by parity; `fBand` of
an estimator is 1.

| run | distinct states | time |
|---|---|---|
| `CaptureBus_safety`, `CaptureBus_restart` | 5 963 849, 284 190 | 87 s, 25 s |
| `OutputClients_safety`, `OutputClients_live` | 1 946 097, 342 818 | 51 s, 50 s |
| `RawCapture_safety` | 6 960 763 | 60 s |
| `Library_check` | 441 526 | 59 s |
| `Spl_check` | 643 825 | 99 s |
| `Threads_check` | 380 251 | 165 s |
| `Measure_check` | 399 675 | 85 s |

The bounds are guards of the actions that count, never of another thread's step. A
`...Bounds` constant is a set of records: each behaviour draws one, so that what is
long in one direction is short in the others. Deadlock is not checked where bounded
actors all come to rest.

### Fairness

* `CaptureBus!FairSpec`: the consumer's loop goes on; a callback or a `prepare` that
  has begun ends. Nothing says that the device calls back, that it is started, or
  that the operator does anything.
* `OutputClients!FairSpec`: the message thread's timer fires and the sweep worker
  finishes its (finite) job. `DeliverySpec` adds that a device that calls back
  renders, resyncs and fills captures; `OutputClients_verify` uses it, so that what it
  shows is not due to a device that stopped calling.
* `MCThreads!MCFairness`, each owed only by the component that moves: the callback renders
  (`BecomesQuiescent` is about a running device); the strip's fast timer fires and the clock goes on; the feed thread and the
  consumer that serves a resync run, and time passes while the feed sleeps; `SyFeedNeverStuck`
  assumes in its own text that time passes while it waits; the RT60 worker and the pane's
  revision poll run. Nothing is assumed of the operator or the device.
* `SplLogging!LogFairness`: message thread, writer and analysis thread each go on; the
  refuted property therefore fails although everybody does his part.

## 4. Refinement and proofs

| module | theorem | states | assumes of the constants |
|---|---|---|---|
| `CaptureBusProofs` | `TypeCorrect`, `GateInvariant`, `AcknowledgedDrainIsExclusive`, `AcknowledgedDrainEmpties`, `RingsStayAligned` | `TypeOK`, `IInv`, `AckedDrainExclusive`, `EmptyAtLower`, `AlignedInv` | naturals in range |
| `SampleRingProofs` | `RingImplementsFifo` | `RgSpec => RgImplementsFifo` | the word is a larger multiple of the capacity; more tags than places |
| `AudioProofs` | `EngineInvariant`, `EngineIsSafe` | `EngineInv`: types, `SwapExclusive`, `RateMatches` | ramp and block of at least one chunk |
| `OutputClientsProofs` | `ClientsInvariant`, `OutputHasOneClient`, `NothingPlaysUnowned`, `GeneratorStaysInSession`, `AlignHearsItself` | `ClientsInv`, `ArmedIsOwned`, `GenStaysInSession`, the action property `AlignHearsItsStep` | a timeout of at least two ticks |
| `RawCaptureProofs` | `RawInvariant`, `TypeCorrect`, `AcceptedIsWhole`, `AcceptedIsOwn` | `TypeOK`, `ConsumedIsWhole`, `ConsumedIsOwn` | ring and capture of at least one hop |
| `SplLoggingProofs` | `SessionSaysItsOwn`, `LogKeepsItsBlocks` | `LogSessionInv`, `LogInv` | queue and segment of at least one block; a rate, an epoch and a second exist |
| `PanelProofs` | `GnTypesHold`, `GnAgrees` | `GnInv` and the types behind it | a highest frequency and a largest device exist; naturals in range |
| | `RtTypesHold`, `RtShowsTheAnswer`, `RtTellsOfChanges` | `RtInv`, its types, the step property `RtRevisionTells` | a capture and a band have natural edges and sizes, an arrival of either sign; the octave set exists |
| | `StoreKeepsItsSessions` | `StoreInv` | a response store of at least one place; a number of captures |
| `AudioProofs` | `SyTypesHold`, `SyKeepsItsPromises` | `SyInv` and the types behind it | a block, a ring, a give-up time and a block time of at least one; two delays that are naturals |
| | `DvRailIsTrue` | `DvInv` | every device has at most `DvMax` inputs; the synthetic one has 2 to `DvMax` |
| `MeasureProofs` | `EqHoldsTogether`, `EqOffersWhatItMay`, `EqAdoptsWhatItHeard` | `EqInv`, the action property `EqAdoptVerified`, and the types and bindings behind them | grids of at least two bins, none above a common multiple of the widths; a room with a level, a phase and a coherence for each bin; limits of the allocator that are positive |
| | `AlHearsOneSide` | `AlInv` and the types behind it | the dwell covers the average, the publication lag and the settling time, all naturals; arrivals are integers |
| | `PublishesOneConfiguration` | `PublishInv` and the types behind it | at least one analyser, a limit, a window of at least one tick; finitely many channels |

The theorems hold for every value of the constants under those assumptions, the
bounds on counters among them, so none of them depends on how far a run counts. TLC
evaluates the assumptions in the runs. None of the properties is inductive as it
stands; what each proof adds is the argument the code's comments only hint at. Each
proof has one case per action, and the facts of an action that assigns several fields
of a record are a lemma of their own (`...Effect`).

**CaptureBus.** Nothing in `AckedDrainExclusive` says why an acknowledgement means
that no callback is in mid-block. `IInv`, which TLC checks in `CaptureBus_safety`, adds:

* `PrepareQuiesced`: while `prepare` runs there is no callback (the driver's contract);
* `DeviceMarkCurrent`, `ConsumerMarkCurrent`: the mark a raise stores is the count at
  that moment, because the count only moves while the gate is up. The second holds
  only while the gate is down: the consumer may raise a gate that `prepare` raises too;
* `MovedPastMark`: a count past the mark, with the gate up, means that a callback came
  after the raise; there is one callback at a time, so none is writing. The same is
  said of the count the consumer has loaded and not yet compared;
* `GateUpWhileServing`: nobody lowers the gate under a consumer that serves it;
* `DrainedSoFar`: rings the drain has passed stay empty, as nobody writes;
* `HopsAvailable`, `LoopsHaveWork`: the loops never read past a ring's content, needed
  for the types (a `Tail` of a nonempty ring, a least element of a nonempty set).

Alignment takes less than expected on top of it (`AlignIInv`): a drain that began
beside no callback stays alone with the rings and leaves them empty (`DrainAlone`), the
group that is read is one of the present plan, unless a change of roles, which is on record,
came under the tick (`GroupIsPlanned`), and a callback has rings left to
write only while it writes. The groups of a plan share no channel (`PlanDisjoint`), so reading
one leaves what the others hold alone. `RingsAligned` compares what the rings hold once the
callback in progress is through, so each single write leaves it alone.

**SampleRing.** `RgImplementsFifo` is a refinement: every step of the lock-free ring,
torn apart into index loads, single copies and index stores, is a step of
`BoundedFifo` or a stutter. The producer's step is the store that publishes its
index, the consumer's the one that gives places back, and a look is its return.
The proof rests on modular arithmetic that the provers have to be led through
(division with remainder, `(x % RgWord) % RgCapacity = x % RgCapacity` as the capacity
divides the word, distinct slots for distances below the capacity), and on an
invariant that says how far each copy has come: no more than a capacity lies
between the indices (`RgFits`), a block being written fits into what is free and is in
place up to `done` (`RgWriting`), what a peek has copied is what lies there still
(`RgLooking`), a discard drops no more than there is (`RgDropping`).

**OutputEngine.** `SwapExclusive` needs what `publishedIdle` is worth: it is true of the
master gate until a block that plays replaces it (`IdleIsCurrent`), so from
`setSource`'s look on a disarmed engine stays silent (`QuietWhileSetting`).
`RateMatches` needs the order of `prepare`'s stores against those of `setSource`: one that
no `prepare` overlapped knows the rate and epoch in force (`SettingIsCurrent`), and a
source labelled with that epoch is of that rate (`SlotIsCurrent`).

**OutputClients.** `OneHolder` alone does not say who owns the slot: the active
client does, CAL apart, which plays nothing (`HolderOwns`); a sweep's pre-roll will arm
a source of the session it noted (`PreRollSlot`); ALIGN's source is armed while its
session lasts, and once the dwell is over the snapshot is of that source or has no
coherence (`AlignPlays`), from which `AlignHearsItsStep` follows step by step.

**RawCapture.** Accumulator and ring, put end to end, are one line of callbacks which
the next one carries on while the gate is down; what breaks the line moves one of the
two counters the client noted (`UncutIsWhole`, `GotIsWhole`). An arm is asked for,
being filled or published, one of the three (`ArmIsSomewhere`), and with no abandoned
capture in flight there is none but the client's own (`NoneButOwn`).

**SplLogging.** The largest: four threads. What the message thread has still to post
ends in what it wants (`TodoIsWanted`), so with no request under way the session is
what the last one asked for (`Applied`); a hop in the ring is of the device's rate once
the analysis thread has seen its epoch, or behind a gate only a drain lowers
(`HopIsOfDevice`, `SessionIsOfDevice`); folder names only move on (`FoldersMoveOn`), which
is why a record never meets a folder written later under its name; the writer lives as
long as its sink (`WriterLives`) and a failure travels from writer to pipeline to mirror
(`FailureTravels`). For the blocks: those of the running log are in a file, queued,
refused or lost, and as many are refused as were counted (`BlocksAccounted`); a block of
the running log is in a segment the writer has opened, so the truncation of the next
one destroys none (`FilesAreOwn`); and logs before it stay as they were unless their
folder is used again (`OldLogsKept`).

**Generating.** Three records written by different handlers have to agree: the strip's
settings, the runner and the engine. `GnIInv` says what they owe each other in the form in
which each of `GeneratorRunner`'s operations keeps it (`GnAgree`): a session's number only
grows, so one that differs from `armedEpoch` is later; a runner that is not idle was started
in the input mode of now, as `setSyntheticMode` ends it first; LOCATE and a generator that is
not idle exclude each other; and a level is already inside the clamp when it is shown.

**Rt60.** The pane and its worker share a ticket and a slot. `RtIInv` says of the worker alone
that what it builds belongs to the request it took, and is whole when it publishes and nobody
cancelled (`RtBuilds`), and that no ticket is newer than the newest (`RtTickets`); of the two
together that the pane's ticket carries the pane's present question, or its answer (`RtLink`).
`reanalyse` restores all of it whatever part of the question a handler changed, which is one
lemma for five handlers (`ReanalyseIs`). That an ensemble reports only what each capture would
needs the largest and the smallest of what its captures state to exist, for any number of
them (`SpanIsCommon`). The worker's cancel flag is never set back while a request is built,
which is why an uncancelled one is whole.

**SyntheticFeed.** Three arguments of their own in `SyIInv`. Room: between the look at the rings
and the push nobody else writes, so what fitted still fits, unless a role came in between
(`SyRoomKept`). Pace: each block without a sleep pays for a block of lag, so a burst is no longer
than the lag that is allowed (`SyLagPaid`). Delay: a line of `d` frames holds, from its cursor on
and around its end, the last `d` frames that were played (`SyHolds`), which needs the modular
lemmas of `SampleRingProofs`.

**DeviceSetup.** A refresh reads one thing and paints later. `DvIInv` counts: of the three
sequences a refresh copies, each word that is said makes the sum grow, so a line that shows the
present counts shows the present words; what `DvMark` read is still true in `DvPaint` unless a
count has moved; roles are cleared with the rows that hid them, on every path that shrinks the
table. What a cell says is a question of places: channel `c` is at the place in the plan which is its
rank among the measured channels, and the position zipped with it is the one of that place; that an
increasing list of a set has each element at its rank is shown once (`DvRank`, `DvEveryPlace`, by
the pigeonhole), and the cut between AVG and CAP follows for any cap (`DvCellOf`). The cells of the
matrix are of a routing as of some number of channels. The attempt to
prove `DvRowsAreOwn` as it first stood failed, and TLC agreed on a larger instance: after a
device error, SYNTHETIC in and out leaves the bus at two channels, the timer plans with those,
START restores three, and the AVG cells are of the old plan until the timer's next turn. The
property now speaks of cells planned with the channels in force, which is what the code keeps.

**EQ.** Two arguments. The first is about one call of the allocator, for any grid and any
residual. `greedyPlace` is a recursive function of its own state, so a proof has to show first that
a run of it exists at all (`TurnsExist`), then what one turn does: it stops (`TurnStops`), or it
takes a bin that no turn took before, placed or refused (`TurnTakesABin`). `PlacingOK` says what
holds after every turn; with as many turns as there are bins the loop has stopped, and what it
left is small, covered or refused (`GreedyPlaceEnds`). That a placed filter is one the design
accepts needs the peak's flanks and half crossings to be bins of the grid (`FlankIsBin`,
`CrossingIsNat`, `PeakIsValid`). The second is about the handlers. `EqIInv` says that the masks are
those of the coherence and of the declined bands on whatever grid the measurement now is
(`PaneMasks`), that chips on screen are a ranking of what the pane holds (`ChipsOf`; every handler
that changes an input either ranks again or shows none), that a pane stays bound to the trace it
copied (`BoundTo`), and that a report compares the stored trace with what the noted filters predict
of the noted measurement (`VerOK`). `inputsUnchanged` then makes the pane's ghost of the moment of
ADOPT that same prediction, which is `EqAdoptVerified`. It rests on an id never meaning another
trace: with ids that are given twice TLC finds an adoption of a trace that was not heard, so the
model gives each stored trace an id of its own, as `TraceLibrary::add` refuses a duplicate.

**Alignment.** What a capture heard is a question of counts kept by different hands: the engine
counts what it rendered, the runner keeps where its step began, the average remembers so many
chunks and the published snapshot is so many behind. `AlSolo` puts them together: since the step
began the source is armed on the step's outputs, every chunk the average holds from after the first
holds those alone (in the first one the old route still sounds), and once the count less the lag
exceeds the average's memory so does the snapshot. It is owed only in the opening the run was pressed
in; a reopened device is another epoch, and `poll` looks at the epoch before it submits. At the dwell
the snapshot is therefore of one side (`DwellHearsOneSide`), which for the first step needs that
*both* outputs existed when MEASURE was pressed: the second step solos without asking. For the
instruction, a cycle the responses chose is their lag, and the true lag is among the candidates
whatever period the fit took (`AlChosen`), so `nearest` returns it (`NearestIsIt`); its sign then
names the side to delay (`InstructionAligns`).

**TraceStore.** `StIInv` says what a save has done at every step: the document so far is entries
before the one the save is at, whose blobs are on disk as the library has them; so whatever step is
the last, the index that is there names blobs that are there, and they are its traces unless the
blob that was renamed into place overwrote another capture's (`torn`). The counter is above every
id of this run and of every response, so a STORE that is not refused gives a fresh id, and only an
opened trace can meet a response that is not its own. The second part is what OPEN computes.
`loaded` and `restored` are loops over documents of any length: a run of each exists
(`LoadsExist`, `RestoresExist`), each turn keeps `LoadedFrom` and `RestoredTo` (by the least turn
that does not), and so a document whose blobs are its traces is loaded as it is (`LoadedIs`) and is
the library afterwards, shade by shade (`RestoredIs`), which is `SessionSurvives`.

**Publishing.** `PbIInv` has one argument for each promise. A slot that is fresh was built with
the configuration in force (`PbFreshSlots`): a rebuild makes every slot stale in the step that
changes the configuration, and publishing asks for slot 1 and for every slot a route may read. The
average group is in step with any plan after `syncAverageGroupMembership`, whichever plan it was
built for (`SyncIs`): its members are on one reference under the tags it last published, so when
those tags come out of the plan again the members are the plan's routes, even with other channels
behind them. A slot is rebuilt once for each rebuild and only counts up between two, so
(build, sequence) names a snapshot (`PbSnapshots`); that is exactly what the ETag, made of the
sequence alone, leaves out, and why `ApiNotModified` excepts a rebuild. For the limiter, what it
remembers is the end of the log of what it admitted, and what it dropped has left the window
(`PbWindowed`); hence of any limit + 1 admissions in a row the last comes a window after the first
(`PbSpaced`), and a window, wherever it begins, holds no more than the limit (`SpacedIsBounded`).

### Only model-checked

* Liveness and everything else under fairness: out of the prover's reach.
* What a fold or a recursive function computes for every input. The induction theorems of the
  library take an operator as a parameter, which the provers cannot instantiate; where a safety
  proof could not do without (`greedyPlace`, `loaded`, `restored`), it argues by the least turn
  that fails. `Estimating`, `Decay`, `Drawing`, `Analysing`, `SplMetering`, `SplReport`,
  `Crossover` and the codec are such computations throughout and stay with TLC (`EsInv`,
  `DcInv`, `DwInv`, `AnInv`, `SplInv`, `RpInv`, `XoInv`, `CodecInv`).

## 5. Not modelled

* Floating-point signal processing: FFT, filters, detector ballistics, deconvolution, the
  biquad, FIR and least-squares arithmetic. Where a decision is made of its results, the result is
  an answer from a set that holds every case the decision tells apart.
* FIR design and export, file formats of finished data, the wording of reports.
* Painting, layout and the other panes: no state beyond what their model classes keep.
* Device enumeration, the HTTP library and the windowing of JUCE: seen as the choices they
  leave to the code.
* Developer tools and tests: not part of the program.
* Memory orders weaker than sequential consistency.

The status and note of each component are in `PROJECT.json`.

## 6. Plan

Every component whose control is within reach is modelled, and the safety of each that does not
rest on what a computation returns for every input is proved.

Further modelling worth its run: relaxed loads of the telemetry counters, and
`Generating` composed with all six clients in place of one.
