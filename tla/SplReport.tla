------------------------------ MODULE SplReport ------------------------------
(***************************************************************************)
(* What an SPL session leaves on disk and what the report makes of it: the *)
(* per-channel log segments of SplLogWriter, the calibration record that   *)
(* the END check writes beside them, and the report that reads both back.  *)
(* A write may fail part way (a full disk): the lines of the failing call  *)
(* arrive as a prefix, the last one possibly cut, and the stream refuses   *)
(* every later row until the next segment opens.                           *)
(*                                                                         *)
(* A line of a file is [k, v, cut]: its key, its value as a tuple of       *)
(* numbers, and whether its newline never arrived.  Levels are whole       *)
(* offsets; the flags of a block are a set.                                *)
(***************************************************************************)
EXTENDS Integers, Sequences, FiniteSets
LOCAL INSTANCE SequencesExt
LOCAL INSTANCE FiniteSetsExt

CONSTANTS RpChannels,   \* the channels the session logs, as the plan numbers them
          RpSegment,    \* SplConfig::segmentBlocks
          RpLimit,      \* CalibrationSession::kDriftLimitDb
          RpBounds      \* the bounds of one behaviour: records [blocks, flags, gens, logs, faults, checks, offsets]

ASSUME RpAssumption == /\ RpChannels \subseteq Nat /\ 0 \in RpChannels
                       /\ RpSegment \in Nat \ {0} /\ RpLimit \in Nat

VARIABLES rpLog,      \* MainComponent's view: the session directory, whether it logs, what it was told
          rpWr,       \* one SplLogWriter per channel
          rpDisk,     \* the session directory's segments: <<channel, gen, seg>> -> lines
          rpCal,      \* CalibrationSession: the start and the end check, <<>> when absent
          rpText,     \* calibration.txt, <<>> when there is none
          rpTold,     \* what the record on disk was written for: <<>> or <<[start, end, upTo]>>
          rpLeft      \* what is left of the behaviour's bounds

rpVars == <<rpLog, rpWr, rpDisk, rpCal, rpText, rpTold, rpLeft>>

NoRoute == -1    \* no measurement channel resolved

(***************************************************************************)
(* The log files.                                                          *)
(***************************************************************************)
RpLine(key, value) == [k |-> key, v |-> value, cut |-> FALSE]

\* logHeader() and csvHeaderRow(): what opens every segment.
logHeader(log, weighting) == << RpLine("rate", <<48>>), RpLine("weighting", <<weighting>>),
                   RpLine("offset", <<log.offset>>),
                   RpLine("unit", <<IF log.cal THEN 1 ELSE 0>>), RpLine("columns", <<>>) >>

\* logRow(): one closed block, its index and its flags.
logRow(b) == << RpLine("row", <<b.ix, b.flag>>) >>

\* A line whose newline never arrived: its value is whole, or lost its last digits (base 2 here)
\* or letters.
RpTorn(l) == {[l EXCEPT !.cut = TRUE],
              [l EXCEPT !.cut = TRUE,
                        !.v = CASE l.k \in {"channel", "startBlockIndex", "endBlockIndex"} -> <<@[1] \div 2>>
                                [] l.k \in {"verdict", "refusalReason"} -> <<"cut">>
                                [] OTHER -> @]}

\* What of these lines reaches the file: all of them or, while a fault is left, a prefix, with or
\* without part of the line after it.
RpArrives(lines) ==
    {[lines |-> lines, good |-> TRUE]}
    \cup (IF rpLeft.faults = 0 THEN {}
          ELSE {[lines |-> l, good |-> FALSE] :
                   l \in UNION {{SubSeq(lines, 1, n)} \cup {Append(SubSeq(lines, 1, n), t) : t \in RpTorn(lines[n + 1])} :
                                   n \in 0..(Len(lines) - 1)}})

\* openSegment(): truncates the file of this generation and segment and writes its header.  An
\* open that fails leaves no file; one that succeeds clears the stream's error state.
RpOpened(ch, w) ==
    {[w |-> [w EXCEPT !.inSeg = 0, !.good = a.good], file |-> <<<<ch, w.gen, w.seg>>, a.lines>>] :
        a \in RpArrives(logHeader(rpLog, w.weighting))}
    \cup (IF rpLeft.faults = 0 THEN {}
          ELSE {[w |-> [w EXCEPT !.inSeg = 0, !.good = FALSE], file |-> <<>>]})

RpPut(disk, file) ==
    IF file = <<>> THEN disk
    ELSE [f \in DOMAIN disk \cup {file[1]} |-> IF f = file[1] THEN file[2] ELSE disk[f]]

RpCharge(good) == [rpLeft EXCEPT !.faults = IF good THEN @ ELSE @ - 1]

\* write(): rotates when the segment is full, then appends the row to whatever stream there is.
RpAppend(ch, w, disk, b) ==
    {[w |-> [w EXCEPT !.inSeg = @ + 1, !.next = @ + 1, !.good = a.good],
      disk |-> IF w.good THEN [disk EXCEPT ![<<ch, w.gen, w.seg>>] = @ \o a.lines] ELSE disk,
      good |-> a.good \/ ~w.good] :
        a \in IF w.good THEN RpArrives(logRow(b))
              ELSE {[lines |-> <<>>, good |-> FALSE]}}

write(ch, b) ==
    LET w == rpWr[ch]
        rotates == w.inSeg >= RpSegment
        from == IF rotates THEN RpOpened(ch, [w EXCEPT !.seg = @ + 1]) ELSE {[w |-> w, file |-> <<>>]}
    IN  UNION {{[s EXCEPT !.good = @ /\ (rotates => o.w.good)] :
                   s \in RpAppend(ch, o.w, RpPut(rpDisk, o.file), b)} : o \in from}

\* A block of a running session reaches the channel's writer.
RpWrite(ch, flag) ==
    /\ rpLog.active /\ rpLeft.blocks > 0
    /\ \E s \in write(ch, [ix |-> rpWr[ch].next, flag |-> flag]) :
          /\ RpCharge(s.good).faults >= 0
          /\ rpWr' = [rpWr EXCEPT ![ch] = s.w] /\ rpDisk' = s.disk
          /\ rpLeft' = [RpCharge(s.good) EXCEPT !.blocks = @ - 1]
    /\ UNCHANGED <<rpLog, rpCal, rpText, rpTold>>

\* reconfigure(): another weighting opens a new generation, whose segments start at 0 again.
RpReconfigure(ch) ==
    /\ rpLog.active /\ rpLeft.gens > 0
    /\ LET w == [rpWr[ch] EXCEPT !.weighting = 1 - @, !.gen = @ + 1, !.seg = 0]
       IN  \E o \in RpOpened(ch, w) :
             /\ rpWr' = [rpWr EXCEPT ![ch] = o.w] /\ rpDisk' = RpPut(rpDisk, o.file)
             /\ rpLeft' = [RpCharge(o.w.good) EXCEPT !.gens = @ - 1]
    /\ UNCHANGED <<rpLog, rpCal, rpText, rpTold>>

(***************************************************************************)
(* Sessions and calibration checks.                                        *)
(***************************************************************************)
RpFreshWriter == [gen |-> 0, seg |-> 0, inSeg |-> 0, good |-> TRUE, next |-> 0, weighting |-> 0]

\* startFreshSplLogWithConfig(): a new directory, one writer per channel, each with its header.
RpFreshLog(offset, calibrated) ==
    /\ rpLog' = [rpLog EXCEPT !.dir = @ + 1, !.active = TRUE, !.cal = calibrated, !.offset = offset]
    /\ rpWr' = [ch \in RpChannels |-> RpFreshWriter]
    /\ rpDisk' = [f \in {<<ch, 0, 0>> : ch \in RpChannels} |-> logHeader(rpLog', RpFreshWriter.weighting)]
    /\ rpText' = <<>> /\ rpTold' = <<>>

\* pollSplLogging(): a device opens, or another epoch begins, and an ordinary log starts ...
RpLogStarts ==
    /\ rpLeft.logs > 0
    /\ RpFreshLog(0, FALSE)
    /\ rpLeft' = [rpLeft EXCEPT !.logs = @ - 1]
    /\ UNCHANGED rpCal

\* ... or the device closes: the directory stays the current one.
RpLogStops ==
    /\ rpLog.active
    /\ rpLog' = [rpLog EXCEPT !.active = FALSE]
    /\ UNCHANGED <<rpWr, rpDisk, rpCal, rpText, rpTold, rpLeft>>

\* recordCheckAtStart(): a new start check forgets the end check of the pair before it.
recordCheckAtStart(c, check) == [start |-> <<check>>, end |-> <<>>]

\* The capture of a START check arrives: the check is recorded and a running log starts afresh
\* with the offset just measured (restartSplLoggingForCalibration).
RpStartCheck(ch, offset) ==
    /\ rpLeft.checks > 0
    /\ rpCal' = recordCheckAtStart(rpCal, [ch |-> ch, offset |-> offset])
    /\ rpLeft' = [rpLeft EXCEPT !.checks = @ - 1]
    /\ IF rpLog.active THEN RpFreshLog(offset, TRUE)
       ELSE UNCHANGED <<rpLog, rpWr, rpDisk, rpText, rpTold>>

driftDb(c) == LET d == c.end[1].offset - c.start[1].offset IN IF d < 0 THEN 0 - d ELSE d

verdictForDrift(d) == IF d <= RpLimit THEN "pass" ELSE "fail"

\* reportFields(): only a pair of checks is a calibration that was performed.
reportFields(c) ==
    IF c.start = <<>> \/ c.end = <<>> THEN [performed |-> FALSE, verdict |-> <<>>]
    ELSE [performed |-> TRUE, verdict |-> <<verdictForDrift(driftDb(c))>>]

\* Whether the two checks were of one signal path (decideCalibrationRecordChannel).
RpRefusal(c) == CASE c.start[1].ch < 0 \/ c.end[1].ch < 0 -> <<"noMeasurementChannel">>
                  [] c.start[1].ch # c.end[1].ch -> <<"channelMismatch">>
                  [] OTHER -> <<>>

\* calibrationRecordText(): the keys in the order they are written.  A refused record names no
\* channel, no range and no verdict, and the verdict comes after everything it is about.
RpRange(info) == << RpLine("channel", <<info.channel>>), RpLine("startBlockIndex", <<info.first>>),
                    RpLine("endBlockIndex", <<info.last>>) >>
RpVerdict(info) == << RpLine("verdict", info.verdict) >>
RpPreamble(info) == << RpLine("calibrationPerformed", <<1>>),
                       RpLine("offsetApplied", <<IF info.applied THEN 1 ELSE 0>>) >>

calibrationRecordTextVerdictFirst(info) ==
    IF info.refusal # <<>> THEN RpPreamble(info) \o << RpLine("refusalReason", info.refusal) >>
    ELSE RpPreamble(info) \o RpVerdict(info) \o RpRange(info)

calibrationRecordText(info) ==
    IF info.refusal # <<>> THEN RpPreamble(info) \o << RpLine("refusalReason", info.refusal) >>
    ELSE RpPreamble(info) \o RpRange(info) \o RpVerdict(info)

\* writeCalibrationRecordAndUpdateInvalidFlag(): nowhere to write without a directory; else the
\* readout's flag and the file are written for the same pair.  count is the number of blocks the
\* channel has published, ahead of the writer by what the queue still holds.
RpRecord(c, count) ==
    LET refusal == RpRefusal(c)
    IN  [refusal |-> refusal, applied |-> rpLog.cal, channel |-> c.end[1].ch, first |-> 0,
         last |-> IF count > 0 THEN count - 1 ELSE 0,
         verdict |-> IF refusal = <<>> THEN reportFields(c).verdict ELSE <<>>]

\* calibrationChannelRefused_ of the pair just completed.
refusedNow(info) == info.refusal # <<>>

RpEndCheck(ch, offset, lag) ==
    /\ rpLeft.checks > 0 /\ rpCal.start # <<>> /\ (rpLog.active \/ rpLog.dir = 0)
    /\ LET c == [rpCal EXCEPT !.end = <<[ch |-> ch, offset |-> offset]>>]
           info == RpRecord(c, IF ch < 0 THEN 0 ELSE rpWr[ch].next + lag)
       IN  /\ rpCal' = c
           /\ IF rpLog.dir = 0 THEN rpLeft' = [rpLeft EXCEPT !.checks = @ - 1]
                                    /\ UNCHANGED <<rpLog, rpText, rpTold>>
              ELSE /\ rpLog' = [rpLog EXCEPT !.refused = refusedNow(info)]
                   /\ rpTold' = <<[start |-> c.start[1], end |-> c.end[1], upTo |-> info.last]>>
                   /\ \E a \in RpArrives(calibrationRecordText(info)) :
                         /\ RpCharge(a.good).faults >= 0
                         /\ rpText' = a.lines
                         /\ rpLeft' = [RpCharge(a.good) EXCEPT !.checks = @ - 1]
    /\ UNCHANGED <<rpWr, rpDisk>>

\* updateCalibrationReadout(): what the toolbar says of the pair.
updateCalibrationReadout ==
    CASE rpCal.start = <<>> -> "not started"
      [] rpCal.end = <<>> -> "start"
      [] rpLog.refused -> "refused"
      [] OTHER -> verdictForDrift(driftDb(rpCal))

(***************************************************************************)
(* Reading a session back.                                                 *)
(***************************************************************************)
\* readLog(): a final line without its newline is discarded and counted, whatever it holds.
readLog(lines) ==
    [blocks |-> LET rows == SelectSeq(lines, LAMBDA l : l.k = "row" /\ ~l.cut)
                IN  [i \in DOMAIN rows |-> [ix |-> rows[i].v[1], flags |-> {rows[i].v[2]}]],
     discarded |-> Cardinality({i \in DOMAIN lines : lines[i].cut})]

\* parseLogHeader(): the whole lines before the first row; without rate, weighting and offset
\* there is no header.
parseLogHeader(lines) ==
    LET seen(key) == {i \in DOMAIN lines : lines[i].k = key /\ ~lines[i].cut}
    IN  IF \E key \in {"rate", "weighting", "offset"} : seen(key) = {} THEN <<>>
        ELSE <<[offset |-> lines[CHOOSE i \in seen("offset") : TRUE].v[1],
                calibrated |-> \E i \in seen("unit") : lines[i].v[1] = 1]>>

\* readChannelLog(): the channel's segments by generation and then by segment, as numbers; the
\* header is the last one that parses.
RpBefore(f, g) == f[2] < g[2] \/ (f[2] = g[2] /\ f[3] < g[3])
RpFiles(ch) == {f \in DOMAIN rpDisk : f[1] = ch}

segmentOrder(ch) == SetToSortSeq(RpFiles(ch), RpBefore)

readChannelLog(ch) ==
    LET files == segmentOrder(ch)
        parts == [i \in DOMAIN files |-> readLog(rpDisk[files[i]])]
        heads == SelectSeq([i \in DOMAIN files |-> parseLogHeader(rpDisk[files[i]])], LAMBDA h : h # <<>>)
    IN  [files |-> files,
         blocks |-> FoldLeft(LAMBDA acc, p : acc \o p.blocks, <<>>, parts),
         discarded |-> FoldLeft(LAMBDA acc, p : acc + p.discarded, 0, parts),
         header |-> IF heads = <<>> THEN <<>> ELSE Last(heads)]

\* parseCalibrationRecord(): keys may be missing, the last line may be cut, and then its value
\* counts as it stands.
parseCalibrationRecord(text) ==
    LET seen(key) == {i \in DOMAIN text : text[i].k = key}
        value(key, default) == IF seen(key) = {} THEN default ELSE text[CHOOSE i \in seen(key) : TRUE].v[1]
    IN  IF seen("calibrationPerformed") = {} THEN <<>>
        ELSE <<[performed |-> TRUE, channel |-> value("channel", 0), first |-> value("startBlockIndex", 0),
                last |-> value("endBlockIndex", 0), applied |-> value("offsetApplied", 1) = 1,
                refused |-> seen("refusalReason") # {},
                verdict |-> IF seen("verdict") = {} THEN <<>>
                            ELSE IF value("verdict", "") = "pass" THEN <<"pass">> ELSE <<"fail">>]>>

Invalid == 9    \* BlockFlag::CalibrationInvalid
Overload == 1
Gap == 2

\* A failed drift marks the blocks between the two checks, on the channel they were made on.
bracketed(rec, ch, blocks) ==
    IF rec = <<>> \/ rec[1].verdict # <<"fail">> \/ rec[1].channel # ch THEN blocks
    ELSE [i \in DOMAIN blocks |->
             IF blocks[i].ix \in rec[1].first..rec[1].last
             THEN [blocks[i] EXCEPT !.flags = @ \cup {Invalid}] ELSE blocks[i]]

RpIndices(blocks, P(_)) == {blocks[i].ix : i \in {j \in DOMAIN blocks : P(blocks[j])}}

\* ReportValidity: what was read, what could not be, and what a failed calibration took out.
RpValidity(rec, log, blocks) ==
    LET chs == DOMAIN log
        applies == {ch \in chs : rec # <<>> /\ rec[1].verdict = <<"fail">> /\ rec[1].channel = ch}
    IN  [discarded |-> FoldSet(LAMBDA ch, n : n + log[ch].discarded, 0, chs),
         excluded |-> FoldSet(LAMBDA ch, n : n + Cardinality({i \in DOMAIN blocks[ch] :
                                                  Invalid \in blocks[ch][i].flags}), 0, chs),
         range |-> IF applies = {} THEN <<>> ELSE <<rec[1].first, rec[1].last>>]

\* appendHistoryAndMarkers(): marked blocks have no point; overloads and gaps have their line.
RpHistory(blocks) == RpIndices(blocks, LAMBDA b : Invalid \notin b.flags)
RpMarkers(blocks) == RpIndices(blocks, LAMBDA b : b.flags \cap {Overload, Gap} # {})

\* combineBlocks(): the blocks a level is computed from.
RpMembers(blocks) == {blocks[i].ix : i \in {j \in DOMAIN blocks : Invalid \notin blocks[j].flags}}

\* buildReportPayload(): channels without a segment are named, the others read, bracketed,
\* combined and drawn; the first header found speaks for the session.
buildReportPayload ==
    LET rec == parseCalibrationRecord(rpText)
        withLog == {ch \in RpChannels : RpFiles(ch) # {}}
        log == [ch \in withLog |-> readChannelLog(ch)]
        blocks == [ch \in withLog |-> bracketed(rec, ch, log[ch].blocks)]
        headed == {ch \in withLog : log[ch].header # <<>>}
    IN  [rec |-> rec, withLog |-> withLog, blocks |-> blocks,
         header |-> IF headed = {} THEN <<>> ELSE log[Min(headed)].header,
         validity |-> RpValidity(rec, log, blocks),
         leq |-> [ch \in withLog |-> RpMembers(blocks[ch])],
         history |-> [ch \in withLog |-> RpHistory(blocks[ch])],
         markers |-> UNION {RpMarkers(blocks[ch]) : ch \in withLog}]

\* exportReportClicked(): refused before any session; no report without a readable log.
exportReport ==
    IF rpLog.dir = 0 THEN <<>>
    ELSE LET p == buildReportPayload IN IF p.withLog = {} THEN <<>> ELSE <<p>>

(***************************************************************************)
(* The rendered report.                                                    *)
(***************************************************************************)
\* renderCalibration(): a check not performed, a refusal and an offset never applied are said
\* in words; a refused pair has no verdict.
renderCalibration(p) ==
    IF p.rec = <<>> THEN [says |-> "not performed", uncalibrated |-> FALSE]
    ELSE [says |-> CASE p.rec[1].refused -> "refused"
                     [] ~p.rec[1].refused /\ p.rec[1].verdict # <<>> -> p.rec[1].verdict[1]
                     [] OTHER -> "no verdict",
          uncalibrated |-> ~p.rec[1].applied]

\* renderHistory(): the strip runs over every index that is drawn, the excluded region's too.
RpDrawn(p) == UNION {p.history[ch] : ch \in p.withLog} \cup p.markers
stripSpan(p) == RpDrawn(p) \cup {p.validity.range[i] : i \in DOMAIN p.validity.range}

xFor(p, ix) ==
    LET span == stripSpan(p)
    IN  IF span = {} THEN 0 ELSE IF ix >= Min(span) THEN ix - Min(span) ELSE 0
stripWidth(p) == LET span == stripSpan(p)
                 IN  IF span # {} /\ Max(span) > Min(span) THEN Max(span) - Min(span) ELSE 1

RpInit ==
    /\ rpLog = [dir |-> 0, active |-> FALSE, cal |-> FALSE, offset |-> 0, refused |-> FALSE]
    /\ rpWr = [ch \in RpChannels |-> RpFreshWriter]
    /\ rpDisk = [f \in {} |-> <<>>]
    /\ rpCal = [start |-> <<>>, end |-> <<>>]
    /\ rpText = <<>> /\ rpTold = <<>>
    /\ rpLeft \in RpBounds

RpNext ==
    \/ RpLogStarts \/ RpLogStops
    \/ \E ch \in RpChannels : RpReconfigure(ch) \/ \E flag \in rpLeft.flags : RpWrite(ch, flag)
    \/ \E ch \in RpChannels \cup {NoRoute}, offset \in rpLeft.offsets :
           RpStartCheck(ch, offset) \/ \E lag \in {0, 1} : RpEndCheck(ch, offset, lag)

RpSpec == RpInit /\ [][RpNext]_rpVars

RpReports == {exportReport[i] : i \in DOMAIN exportReport}

(***************************************************************************)
(* Properties: of the report that an export at this moment would write.    *)
(***************************************************************************)
\* Every row whose newline reached the disk is in the report, once and in the order of the
\* session, through rotations, generations and failed writes; a row cut short is not, and the
\* report counts it as discarded (SplLog.h readLog, SplReportPayloadBuilder.cpp readChannelLog).
RpRowsSurvive ==
    \A p \in RpReports :
        /\ \A ch \in p.withLog :
              /\ \A i, j \in DOMAIN p.blocks[ch] : i < j => p.blocks[ch][i].ix < p.blocks[ch][j].ix
              /\ {p.blocks[ch][i].ix : i \in DOMAIN p.blocks[ch]}
                   = UNION {{rpDisk[f][i].v[1] : i \in {j \in DOMAIN rpDisk[f] :
                                rpDisk[f][j].k = "row" /\ ~rpDisk[f][j].cut}} : f \in RpFiles(ch)}
        /\ p.validity.discarded =
               Cardinality({f \in DOMAIN rpDisk : \E i \in DOMAIN rpDisk[f] : rpDisk[f][i].cut})

\* A calibration that drifted takes exactly the blocks between its checks, of its own channel, out
\* of the levels and the history, and counts them; a record that was cut short on its way to the
\* disk takes out those or none, never blocks of another channel or another range
\* (SplReportPayloadBuilder.cpp 242-262, the order of calibrationRecordText).  The comment of the
\* parser claims more, that a record is "either well-formed or absent, never partially trusted"
\* (SplCalibrationRecord.h 178-179): the second and third cases below are where that fails.
RpBracketExact ==
    \A p \in RpReports :
        LET bad(ch) == {ix \in RpIndices(p.blocks[ch], LAMBDA b : TRUE) :
                          /\ rpTold # <<>> /\ rpTold[1].start.ch = ch /\ rpTold[1].end.ch = ch
                          /\ verdictForDrift(driftDb([start |-> <<rpTold[1].start>>, end |-> <<rpTold[1].end>>])) = "fail"
                          /\ ix <= rpTold[1].upTo}
            out(ch) == RpIndices(p.blocks[ch], LAMBDA b : TRUE) \ p.leq[ch]
            whole == rpText # <<>> /\ Last(rpText).k = "verdict"
        IN  /\ \/ \A ch \in p.withLog : out(ch) = bad(ch)
               \/ ~whole /\ \A ch \in p.withLog : out(ch) = {}
               \* a passing verdict cut short reads as a failed one: the bracket of that pair
               \/ whole /\ Last(rpText).cut /\ \A ch \in p.withLog \ {rpTold[1].end.ch} : out(ch) = {}
            /\ p.validity.excluded = FoldSet(LAMBDA ch, n : n + Cardinality(out(ch)), 0, p.withLog)

\* The report never passes a calibration that was not one: "pass" is said only of two checks of
\* one channel within the drift limit, however much of the record reached the disk, and of two
\* channels no verdict at all (renderCalibration, CalibrationSession, decideCalibrationRecordChannel).
RpPassIsEarned ==
    \A p \in RpReports :
        LET r == renderCalibration(p)
        IN  /\ r.says \in {"pass", "fail"} => rpTold[1].start.ch = rpTold[1].end.ch /\ rpTold[1].start.ch >= 0
            /\ r.says = "pass" => rpTold[1].end.offset - rpTold[1].start.offset \in (0 - RpLimit)..RpLimit

\* A report that gives levels without the notice that they are not calibrated gives them with the
\* offset of the very check it prints, unless the record lost the line that says so
\* (currentSplLogHasCalibratedOffset_, renderCalibration).
RpNoticeIsHonest ==
    \A p \in RpReports :
        (rpTold # <<>> /\ p.header # <<>> /\ Len(rpText) > 1 /\ p.rec # <<>>) =>
            (renderCalibration(p).uncalibrated \/ p.header[1].offset = rpTold[1].start.offset)

\* The toolbar and the file tell the same of a pair: whichever of them the operator reads, a pair
\* is refused, passed or failed in both (updateCalibrationReadout, renderCalibration).
RpReadoutAgrees ==
    \A p \in RpReports :
        (rpTold # <<>> /\ rpCal.end # <<>> /\ rpText # <<>> /\ ~Last(rpText).cut
            /\ Last(rpText).k \in {"verdict", "refusalReason"})
        => renderCalibration(p).says = updateCalibrationReadout

\* Everything the strip draws lies on the strip, the excluded region too, even where it reaches
\* past the rows on disk (renderHistory 107-140).
RpDrawnOnStrip ==
    \A p \in RpReports :
        \A ix \in RpDrawn(p) \cup {p.validity.range[i] : i \in DOMAIN p.validity.range} : xFor(p, ix) \in 0..stripWidth(p)

\* What the report reads back is what was logged: rows survive a file cut short, the record brackets
\* the blocks it covers, a verdict and a notice are earned, and the drawing agrees with the numbers.
RpInv == RpRowsSurvive /\ RpBracketExact /\ RpPassIsEarned /\ RpNoticeIsHonest /\ RpReadoutAgrees /\ RpDrawnOnStrip
=============================================================================
