----------------------------- MODULE SessionCodec -----------------------------
(***************************************************************************)
(* The session index and the trace blobs as written and read back.  A line *)
(* is a section mark or a key with its value; a value is a sequence of     *)
(* characters, a number being one character, its numeral.  A file may come back as it   *)
(* was written, with CRLF line ends, from a later schema, or damaged.      *)
(***************************************************************************)
EXTENDS Integers, Sequences, SequencesExt, TLC

CONSTANTS Texts,       \* values of the text fields
          Schema,      \* kSchemaVersion
          MaxPanes,    \* kMaxPanes
          PaneWeights  \* weights a session file may hold; Unusable stands for NaN, 0 and below

VARIABLES doc,     \* the document that was saved
          panes,   \* pane weights of a session file
          points,  \* the fields of the trace that was saved: presence and point count
          file,    \* lines of session.index as found
          blob,    \* words of <id>.bin as found
          fate     \* what happened to the files in between

codecVars == <<doc, panes, points, file, blob, fate>>

Backslash == "\\"
NewLine == "nl"
Return == "cr"

-----------------------------------------------------------------------------
(* SessionCodecDetail.h *)

escape(s) == FoldLeft(LAMBDA out, c : out \o (IF c = Backslash THEN <<Backslash, Backslash>>
                                              ELSE IF c = NewLine THEN <<Backslash, "n">> ELSE <<c>>),
                      <<>>, s)

unescapeLiteral(s) == SelectSeq(s, LAMBDA c : c # Backslash)

\* The character after a backslash stands for itself, n for a newline.
unescape(s) ==
    LET step(st, c) ==
            IF st.esc THEN [esc |-> FALSE, out |-> Append(st.out, IF c = "n" THEN NewLine ELSE c)]
            ELSE IF c = Backslash THEN [st EXCEPT !.esc = TRUE]
            ELSE [st EXCEPT !.out = Append(@, c)]
        end == FoldLeft(step, [esc |-> FALSE, out |-> <<>>], s)
    IN  IF end.esc THEN Append(end.out, Backslash) ELSE end.out

writeLine(key, value) == [key |-> key, value |-> escape(value)]
writeNumeric(key, n) == [key |-> key, value |-> <<ToString(n)>>]
mark(section) == [key |-> section, value |-> <<"mark">>]

stripTrailingCr(line) ==
    IF line.value # <<>> /\ Last(line.value) = Return THEN [line EXCEPT !.value = Front(@)] ELSE line

\* std::to_chars and std::from_chars on the numbers of these documents.
parsed(v) == {n \in 0..9 : v = <<ToString(n)>>}
tryParse(v) == parsed(v) # {}
valueOf(v) == CHOOSE n \in parsed(v) : TRUE

-----------------------------------------------------------------------------
(* encodeIndex *)

Flag(b) == IF b THEN <<"1">> ELSE <<"0">>

encodeCapture(m) == <<mark("capture"), writeLine("id", m.id), writeNumeric("fftSize", m.fftSize),
                      writeLine("calibrationUnit", m.unit)>>
encodeEntry(e) == <<mark("entry"), writeLine("traceId", e.traceId), writeLine("name", e.name),
                    writeNumeric("shadeIndex", e.shade), writeLine("visible", Flag(e.visible))>>
encodePane(p) == <<mark("pane"), writeLine("view", p.view), writeNumeric("weight", p.weight)>>
encodeTf(t) == <<mark("tf"), writeLine("name", t.name), writeNumeric("delaySamples", t.delay),
                 writeLine("polarity", Flag(t.polarity)),
                 writeLine("averagingMode", <<IF t.pinned THEN "pinned" ELSE "global">>)>>
encodeAverage(a) == <<mark("average"), writeLine("mode", a.mode)>>
                    \o [i \in DOMAIN a.members |-> writeLine("member", a.members[i])]
encodeRouting(r) == <<mark("routing"), writeLine("deviceName", r.device),
                      writeNumeric("inputChannelCount", r.inputs)>>

each(encode(_), s) == FlattenSeq([i \in DOMAIN s |-> encode(s[i])])

encodeIndex(d) ==
    <<writeNumeric("schema", d.schema)>> \o each(encodeCapture, d.captures) \o each(encodeEntry, d.entries)
    \o each(encodePane, d.panes) \o each(encodeTf, d.tfs) \o each(encodeAverage, d.average)
    \o each(encodeRouting, d.routing)

-----------------------------------------------------------------------------
(* decodeIndex: a line belongs to the last section mark; what it does not know is malformed. *)

Malformed == "Malformed"
NewerSchema == "NewerSchema"
Ok == "Ok"

emptyDoc(schema) == [schema |-> schema, captures |-> <<>>, entries |-> <<>>, panes |-> <<>>,
                     tfs |-> <<>>, average |-> <<>>, routing |-> <<>>]

freshRecord(section) ==
    CASE section = "capture" -> [id |-> <<>>, fftSize |-> 0, unit |-> <<"dbfs">>]
      [] section = "entry"   -> [traceId |-> <<>>, name |-> <<>>, shade |-> 0, visible |-> TRUE]
      [] section = "pane"    -> [view |-> <<"rta">>, weight |-> 1]
      [] section = "tf"      -> [name |-> <<>>, delay |-> 0, polarity |-> FALSE, pinned |-> FALSE]
      [] section = "average" -> [mode |-> <<"db">>, members |-> <<>>]
      [] section = "routing" -> [device |-> <<>>, inputs |-> 0, bound |-> FALSE]

ListOf == [capture |-> "captures", entry |-> "entries", pane |-> "panes", tf |-> "tfs",
           average |-> "average", routing |-> "routing"]

openSection(d, section) ==
    IF section \in {"average", "routing"}
    THEN [d EXCEPT ![ListOf[section]] = <<freshRecord(section)>>]
    ELSE [d EXCEPT ![ListOf[section]] = Append(@, freshRecord(section))]

text(r, field, v) == {[r EXCEPT ![field] = v]}
number(r, field, v) == IF tryParse(v) THEN {[r EXCEPT ![field] = valueOf(v)]} ELSE {}
flag(r, field, v) == IF v \in {<<"1">>, <<"0">>} THEN {[r EXCEPT ![field] = v = <<"1">>]} ELSE {}
oneOf(r, field, v, words) == IF v \in words THEN {[r EXCEPT ![field] = v]} ELSE {}


decodeCapture(r, key, v) ==
    CASE key = "id" -> text(r, "id", v)
      [] key = "fftSize" -> number(r, "fftSize", v)
      [] key = "calibrationUnit" -> oneOf(r, "unit", v, {<<"dbspl">>, <<"dbfs">>})
      [] OTHER -> {}
decodeEntry(r, key, v) ==
    CASE key = "traceId" -> text(r, "traceId", v)
      [] key = "name" -> text(r, "name", v)
      [] key = "shadeIndex" -> number(r, "shade", v)
      [] key = "visible" -> flag(r, "visible", v)
      [] OTHER -> {}
decodePane(r, key, v) ==
    CASE key = "view" -> text(r, "view", v) [] key = "weight" -> number(r, "weight", v) [] OTHER -> {}
decodeTf(r, key, v) ==
    CASE key = "name" -> text(r, "name", v)
      [] key = "delaySamples" -> number(r, "delay", v)
      [] key = "polarity" -> flag(r, "polarity", v)
      [] key = "averagingMode" -> IF v \in {<<"pinned">>, <<"global">>}
                                  THEN {[r EXCEPT !.pinned = v = <<"pinned">>]} ELSE {}
      [] OTHER -> {}
decodeAverage(r, key, v) ==
    CASE key = "mode" -> oneOf(r, "mode", v, {<<"db">>, <<"power">>})
      [] key = "member" -> {[r EXCEPT !.members = Append(@, v)]}
      [] OTHER -> {}
decodeRouting(r, key, v) ==
    CASE key = "deviceName" -> text(r, "device", v)
      [] key = "inputChannelCount" -> number(r, "inputs", v)
      [] OTHER -> {}

\* The record a line leaves, or none: the line is refused.
decodeLine(section, r, key, v) ==
    CASE section = "capture" -> decodeCapture(r, key, v) [] section = "entry" -> decodeEntry(r, key, v)
      [] section = "pane" -> decodePane(r, key, v) [] section = "tf" -> decodeTf(r, key, v)
      [] section = "average" -> decodeAverage(r, key, v) [] section = "routing" -> decodeRouting(r, key, v)
      [] OTHER -> {}

decodeStep(st, raw) ==
    LET line == stripTrailingCr(raw)
        list == ListOf[st.section]
        new == decodeLine(st.section, Last(st.doc[list]), line.key, unescape(line.value))
    IN  IF st.status # Ok THEN st
        ELSE IF line.value = <<"mark">> /\ line.key \in DOMAIN ListOf
             THEN [st EXCEPT !.doc = openSection(st.doc, line.key), !.section = line.key]
        ELSE IF st.section = "none" THEN [st EXCEPT !.status = Malformed]
        ELSE IF new = {} THEN [st EXCEPT !.status = Malformed]
        ELSE [st EXCEPT !.doc[list] = Append(Front(@), CHOOSE r \in new : TRUE)]

bindRouting(d, device) ==
    [d EXCEPT !.routing = [i \in DOMAIN @ |->
        [@[i] EXCEPT !.bound = device # <<>> /\ device = <<d.routing[i].device, d.routing[i].inputs>>]]]

\* A schema newer than this build is named as such before any other line is looked at.
schemaStatus(first) ==
    IF first.key # "schema" \/ ~tryParse(first.value) THEN Malformed
    ELSE IF valueOf(first.value) > Schema THEN NewerSchema ELSE Ok

decodeIndex(lines, device) ==
    LET first == stripTrailingCr(lines[1])
        status == schemaStatus(first)
        end == FoldLeft(decodeStep, [status |-> Ok, section |-> "none", doc |-> emptyDoc(valueOf(first.value))],
                        Tail(lines))
    IN  IF status # Ok THEN [status |-> status, doc |-> <<>>]
        ELSE IF end.status # Ok THEN [status |-> end.status, doc |-> <<>>]
        ELSE [status |-> Ok, doc |-> <<bindRouting(end.doc, device)>>]

-----------------------------------------------------------------------------
(* TraceBlobCodec: magic, point count, presence, id, then the fields that are there. *)

FieldsOf(t) == SelectSeq(<<"Magnitude", "Phase", "Coherence">>, LAMBDA f : f \in t.fields)

floats(f, n) == [i \in 1..n |-> <<f, i>>]

encodeTraceBlob(t) ==
    <<"RTAT", t.points, t.fields, t.id>> \o FlattenSeq([i \in DOMAIN FieldsOf(t) |-> floats(FieldsOf(t)[i], t.points)])

\* What the file must be, word for word, once its header is read; the rest has to be empty.
decodeTraceBlob(b, id, pointCount) ==
    /\ Len(b) >= 4 /\ b[1] = "RTAT" /\ b[2] = pointCount
    /\ b[4] = id /\ "Magnitude" \in b[3]
    /\ Len(b) = 4 + pointCount * Len(FieldsOf([fields |-> b[3]]))

-----------------------------------------------------------------------------
(* normalisePanes: at most kMaxPanes, shares of the usable weights, equal when there are none. *)

usableSum(ps) == FoldLeft(LAMBDA n, w : n + w, 0, ps)

\* A share is <<numerator, denominator>>.
normalisePanes(ps) ==
    LET kept == IF Len(ps) > MaxPanes THEN SubSeq(ps, 1, MaxPanes) ELSE ps
        sum == usableSum(kept)
    IN  IF ps = <<>> THEN <<<<1, 1>>>>
        ELSE [i \in DOMAIN kept |-> IF sum = 0 THEN <<1, Len(kept)>> ELSE <<kept[i], sum>>]

-----------------------------------------------------------------------------
CodecDocs ==
    { [schema |-> Schema,
       captures |-> <<[id |-> <<"c">>, fftSize |-> 2, unit |-> <<"dbspl">>]>>,
       entries |-> <<[traceId |-> <<"c">>, name |-> t, shade |-> 3, visible |-> v]>>,
       panes |-> IF v THEN <<[view |-> u, weight |-> 2], [view |-> t, weight |-> 0]>> ELSE <<>>,
       tfs |-> IF v THEN <<>> ELSE <<[name |-> u, delay |-> 7, polarity |-> v, pinned |-> ~v]>>,
       average |-> IF v THEN <<[mode |-> <<"power">>, members |-> <<t, u>>]>> ELSE <<>>,
       routing |-> IF v THEN <<>> ELSE <<[device |-> t, inputs |-> 2, bound |-> FALSE]>>]
      : t \in Texts, u \in Texts, v \in BOOLEAN }

NothingSaved == file = <<>> /\ blob = <<>> /\ fate = "none"
CodecInit ==
    /\ \/ doc \in CodecDocs /\ panes = <<>>
       \/ doc = (CHOOSE d \in CodecDocs : TRUE) /\ panes \in SeqOf(PaneWeights, MaxPanes + 1)
    /\ points \in [fields : {{"Magnitude"}, {"Magnitude", "Coherence"}, {"Magnitude", "Phase", "Coherence"}},
                   points : {2, 3}, id : {"c"}]
    /\ NothingSaved

Save == /\ fate = "none"
        /\ file' = encodeIndex(doc) /\ blob' = encodeTraceBlob(points)
        /\ fate' = "same"
        /\ UNCHANGED <<doc, panes, points>>

\* The folder crossed to another system, or was written by a later build.
Carry == /\ fate = "same"
         /\ \/ /\ fate' = "crlf" /\ UNCHANGED blob
               /\ file' = [i \in DOMAIN file |-> IF file[i].value = <<"mark">> THEN file[i]
                                                ELSE [file[i] EXCEPT !.value = Append(@, Return)]]
            \/ /\ fate' = "newer" /\ UNCHANGED blob
               /\ file' = <<writeNumeric("schema", Schema + 1), mark("later")>> \o Tail(file)
         /\ UNCHANGED <<doc, panes, points>>

\* One line of the index is not what this build writes; the blob lost its end or grew one.
Damage == /\ fate = "same" /\ fate' = "damaged"
          /\ \E i \in 2..Len(file) :
                /\ file' = [file EXCEPT ![i] = IF @.value = <<"mark">> THEN mark("later")
                                               ELSE IF @.key \in {"visible", "shadeIndex", "mode"}
                                                    THEN [@ EXCEPT !.value = <<"x">>]
                                                    ELSE [@ EXCEPT !.key = "later"]]
                /\ blob' = IF i <= Len(blob) THEN SubSeq(blob, 1, i - 1) ELSE Append(blob, "more")
          /\ UNCHANGED <<doc, panes, points>>

CodecNext == Save \/ Carry \/ Damage
CodecSpec == CodecInit /\ [][CodecNext]_codecVars

-----------------------------------------------------------------------------
\* What was saved is what is read back, character for character and field by field, also from
\* a folder whose line ends were rewritten.
RoundTrip ==
    fate \in {"same", "crlf"} =>
        /\ decodeIndex(file, <<>>) = [status |-> Ok, doc |-> <<doc>>]
        /\ decodeTraceBlob(blob, points.id, points.points)

\* A session of a later build is refused as such and never as a corrupt one (SessionStore.cpp:
\* "Malformed ... a lie"), whatever the unknown sections in it.
NewerIsNamed == fate = "newer" => decodeIndex(file, <<>>).status = NewerSchema

\* A line this build does not know, a flag that is neither 0 nor 1, a blob cut anywhere or with
\* anything behind it: refused, never read as a default.
DamageRefused ==
    fate = "damaged" => /\ decodeIndex(file, <<>>).status = Malformed
                        /\ ~decodeTraceBlob(blob, points.id, points.points)

\* A routing is bound only to the very device it was saved on.
BoundToItsDevice ==
    fate = "same" => \A n \in {2, 3}, t \in Texts :
        LET d == decodeIndex(file, <<t, n>>).doc[1]
        IN  \A i \in DOMAIN d.routing : d.routing[i].bound = (t = d.routing[i].device /\ n = 2)

\* normalisePanes gives one to kMaxPanes panes whose shares add up to the whole.
SharesAreWhole ==
    LET ps == normalisePanes(panes)
    IN  /\ Len(ps) \in 1..MaxPanes
        /\ FoldLeft(LAMBDA n, p : n + p[1], 0, ps) = ps[1][2]

\* The codecs give back what was written, name a newer format, refuse damage, and bind a
\* calibration to its device.
CodecInv == RoundTrip /\ NewerIsNamed /\ DamageRefused /\ BoundToItsDevice /\ SharesAreWhole
=============================================================================
