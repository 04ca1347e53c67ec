------------------------------ MODULE TraceStore ------------------------------
(***************************************************************************)
(* The trace library, the impulse responses kept beside it, and the session*)
(* folder: STORE and SWEEP add to the library, SAVE writes it blob by blob *)
(* and then the index, OPEN replaces it from the folder, and the program   *)
(* may be killed at any step and started again.  All of it runs on the     *)
(* message thread; what interleaves is the crash.                          *)
(***************************************************************************)
EXTENDS Integers, Sequences, FiniteSets, FiniteSetsExt

CONSTANTS IrCapacity,   \* IrStore::kCapacity
          MaxCaptures,  \* bound: captures over all runs of the program
          MaxRuns,      \* bound: starts of the program
          MaxSaves,     \* bound: saves begun
          MaxOpens      \* bound: sessions opened

ASSUME StoreAssumption == IrCapacity \in Nat \ {0} /\ MaxCaptures \in Nat

VARIABLES lib,      \* TraceLibrary: entries_ and traces_, in parallel
          rev,      \* TraceLibrary::revision_
          counter,  \* nextCaptureSequence: one counter for each run of the program
          irs,      \* IrStore::entries_
          save,     \* performSave: its step, the entry it is at, the document so far
          folder,   \* the session folder: saved?, index, blobs
          taken     \* captures so far, the run, the last document committed, the torn flag

storeVars == <<lib, rev, counter, irs, save, folder, taken>>

Idle == [pc |-> "idle", k |-> 0, doc |-> <<>>]

-----------------------------------------------------------------------------
(* Trace and TraceLibrary.  `data` stands for the points of a capture and tells captures apart. *)

pointCountFor(fftSize) == IF fftSize > 0 THEN fftSize \div 2 + 1 ELSE 0

fftSizeOf(group) == IF group = "SWEEP" THEN 4 ELSE 2

newTrace(id, data, group) ==
    [id |-> id, data |-> data, fftSize |-> fftSizeOf(group), points |-> pointCountFor(fftSizeOf(group))]

has(l, id) == \E i \in DOMAIN l : l[i].trace.id = id

usedShades(l, group) == {l[i].shade : i \in {j \in DOMAIN l : l[j].group = group}}

nextFreeShadeIndex(l, group) == Min(0..Len(l) \ usedShades(l, group))

libAdd(l, t, name, group) ==
    IF has(l, t.id) THEN l
    ELSE Append(l, [trace |-> t, name |-> name, group |-> group,
                    shade |-> nextFreeShadeIndex(l, group)])

\* A revision counts every change, and nothing else.
bump(old, new) == IF old = new THEN rev ELSE rev + 1

-----------------------------------------------------------------------------
(* IrStore: the first entry under an id, the oldest dropped past the capacity. *)

irAdd(s, id, data) ==
    IF \E i \in DOMAIN s : s[i].id = id
    THEN [i \in DOMAIN s |-> IF s[i].id = id THEN [id |-> id, data |-> data] ELSE s[i]]
    ELSE LET t == Append(s, [id |-> id, data |-> data])
         IN  IF Len(t) > IrCapacity THEN Tail(t) ELSE t

irFind(s, id) == {s[i].data : i \in {j \in DOMAIN s : s[j].id = id}}

-----------------------------------------------------------------------------
(* The folder. *)

\* decodeTraceBlob: a blob of another size or another id is malformed.
blobReads(blob, meta) == blob.id = meta.id /\ blob.points = pointCountFor(meta.fftSize)

readTrace(meta) ==
    IF meta.id \in DOMAIN folder.blobs /\ blobReads(folder.blobs[meta.id], meta)
    THEN <<folder.blobs[meta.id]>> ELSE <<>>

\* What performOpen loads: each capture of the index whose blob reads, under its entry.
load(items, e) ==
    IF readTrace(e.trace) = <<>> THEN items ELSE Append(items, [e EXCEPT !.trace = readTrace(@)[1]])

loaded(doc) ==
    LET upTo[n \in 0..Len(doc)] == IF n = 0 THEN <<>> ELSE load(upTo[n - 1], doc[n])
    IN  upTo[Len(doc)]

\* library_.add, then setShadeIndex as it was saved (nothing in the program hides a trace).
restore(s, e) ==
    LET added == libAdd(s.lib, e.trace, e.name, e.group)
        k == Len(added)
    IN  IF added = s.lib THEN s
        ELSE [lib |-> [added EXCEPT ![k].shade = e.shade],
              rev |-> s.rev + (IF added[k].shade = e.shade THEN 1 ELSE 2)]

\* clear() on an empty library is no change.
cleared == [lib |-> <<>>, rev |-> IF lib = <<>> THEN rev ELSE rev + 1]

restored(items) ==
    LET upTo[n \in 0..Len(items)] == IF n = 0 THEN cleared ELSE restore(upTo[n - 1], items[n])
    IN  upTo[Len(items)]

-----------------------------------------------------------------------------
StoreInit ==
    /\ lib = <<>> /\ rev = 0 /\ counter = 0 /\ irs = <<>> /\ save = Idle
    /\ folder = [saved |-> FALSE, index |-> <<>>, blobs |-> <<>>]
    /\ taken = [captures |-> 0, run |-> 1, saves |-> 0, opens |-> 0, committed |-> <<>>, torn |-> FALSE,
                opened |-> {}]

\* storeClicked on a pane that shows something to freeze (group is the pane's label).
StoreClicked(group) ==
    LET new == libAdd(lib, newTrace(counter, taken.captures, group), taken.captures, group)
    IN  /\ save = Idle /\ taken.captures < MaxCaptures
        /\ lib' = new /\ rev' = bump(lib, new)
        /\ counter' = counter + 1
        /\ taken' = [taken EXCEPT !.captures = @ + 1]
        /\ UNCHANGED <<irs, save, folder>>

\* traceFromSnapshot takes an id before it finds that the pane has nothing to freeze.
StoreNothing ==
    /\ save = Idle /\ taken.captures < MaxCaptures
    /\ counter' = counter + 1
    /\ taken' = [taken EXCEPT !.captures = @ + 1]
    /\ UNCHANGED <<lib, rev, irs, save, folder>>

\* MainComponentSweep::finish: the trace, and only then its impulse response.
SweepFinish ==
    LET new == libAdd(lib, newTrace(counter, taken.captures, "SWEEP"), taken.captures, "SWEEP")
    IN  /\ save = Idle /\ taken.captures < MaxCaptures
        /\ lib' = new /\ rev' = bump(lib, new)
        /\ irs' = IF new = lib THEN irs ELSE irAdd(irs, counter, taken.captures)
        /\ counter' = counter + 1
        /\ taken' = [taken EXCEPT !.captures = @ + 1]
        /\ UNCHANGED <<save, folder>>

\* maybeConfirmAndSave: the folder is empty, or the operator said overwrite.
SaveBegin ==
    /\ save = Idle /\ taken.saves < MaxSaves
    /\ save' = [pc |-> "blob", k |-> 1, doc |-> <<>>]
    /\ taken' = [taken EXCEPT !.saves = @ + 1]
    /\ UNCHANGED <<lib, rev, counter, irs, folder>>

withBlob(blobs, id, blob) == [x \in DOMAIN blobs \cup {id} |-> IF x = id THEN blob ELSE blobs[x]]

nextBlob(s) == [s EXCEPT !.pc = "blob", !.k = @ + 1]

\* writeTrace to <id>.bin.tmp; a failed write removes it and the entry is left out.
writeTraceInPlace(ok) ==
    /\ save.pc = "blob" /\ save.k <= Len(lib)
    /\ LET t == lib[save.k].trace
       IN  folder' = [folder EXCEPT !.blobs = withBlob(@, t.id, [t EXCEPT !.points = 0])]
    /\ save' = IF ok THEN [save EXCEPT !.pc = "rename"] ELSE nextBlob(save)
    /\ UNCHANGED <<lib, rev, counter, irs, taken>>

writeTrace(ok) ==
    /\ save.pc = "blob" /\ save.k <= Len(lib)
    /\ save' = IF ok THEN [save EXCEPT !.pc = "rename"] ELSE nextBlob(save)
    /\ UNCHANGED <<lib, rev, counter, irs, folder, taken>>

named(id) == folder.saved /\ \E i \in DOMAIN folder.index : folder.index[i].trace.id = id

\* The rename commits the blob; a rename that fails leaves the entry out too.
renameTrace(ok) ==
    /\ save.pc = "rename"
    /\ LET e == lib[save.k]
           id == e.trace.id
           overwrites == named(id) /\ folder.blobs[id] # e.trace
       IN  IF ok
           THEN /\ folder' = [folder EXCEPT !.blobs = withBlob(@, id, e.trace)]
                /\ save' = [nextBlob(save) EXCEPT !.doc = Append(@, e)]
                /\ taken' = [taken EXCEPT !.torn = @ \/ overwrites]
           ELSE /\ save' = nextBlob(save)
                /\ UNCHANGED <<folder, taken>>
    /\ UNCHANGED <<lib, rev, counter, irs>>

\* writeIndex to session.index.tmp, schema stamped.
writeIndex(ok) ==
    /\ save.pc = "blob" /\ save.k > Len(lib)
    /\ save' = IF ok THEN [save EXCEPT !.pc = "commit"] ELSE Idle
    /\ UNCHANGED <<lib, rev, counter, irs, folder, taken>>

renameIndex(ok) ==
    /\ save.pc = "commit"
    /\ folder' = IF ok THEN [folder EXCEPT !.saved = TRUE, !.index = save.doc] ELSE folder
    /\ taken' = IF ok THEN [taken EXCEPT !.committed = save.doc, !.torn = FALSE] ELSE taken
    /\ save' = Idle
    /\ UNCHANGED <<lib, rev, counter, irs>>

\* performOpen: nothing changes unless at least one trace reads (or the session is empty).
PerformOpen ==
    LET items == loaded(folder.index)
        new == restored(items)
    IN  /\ save = Idle /\ folder.saved /\ taken.opens < MaxOpens
        /\ items # <<>> \/ folder.index = <<>>
        /\ lib' = new.lib /\ rev' = new.rev
        /\ taken' = [taken EXCEPT !.opens = @ + 1, !.opened = {new.lib[i].trace.id : i \in DOMAIN new.lib}]
        /\ UNCHANGED <<counter, irs, save, folder>>

\* The program is killed, or ends, and is started again: memory is gone and ids begin at 0.
Restart ==
    /\ taken.run < MaxRuns
    /\ lib' = <<>> /\ rev' = 0 /\ counter' = 0 /\ irs' = <<>> /\ save' = Idle
    /\ taken' = [taken EXCEPT !.run = @ + 1, !.opened = {}]
    /\ UNCHANGED folder

StoreNext ==
    \/ \E g \in {"RTA", "TRANSFER"} : StoreClicked(g)
    \/ StoreNothing \/ SweepFinish \/ SaveBegin \/ PerformOpen \/ Restart
    \/ \E ok \in BOOLEAN : writeTrace(ok) \/ renameTrace(ok) \/ writeIndex(ok) \/ renameIndex(ok)

StoreSpec == StoreInit /\ [][StoreNext]_storeVars

-----------------------------------------------------------------------------
StoreTypeOK ==
    /\ save.pc \in {"idle", "blob", "rename", "commit"} /\ counter \in 0..MaxCaptures
    /\ Len(irs) <= IrCapacity
    /\ \A i \in DOMAIN lib : lib[i].trace.points = pointCountFor(lib[i].trace.fftSize)

\* Two traces never share an id: ALIGN, RT60 and the blobs find a trace by it (TraceLibrary::add
\* refuses the second, whatever was stored, opened or swept before).
LibraryIdsUnique ==
    \A i, j \in DOMAIN lib : lib[i].trace.id = lib[j].trace.id => i = j

\* Two traces of one group never get the same shade, also after a save that left some out and
\* an OPEN of what remained.
ShadesDistinct ==
    \A i, j \in DOMAIN lib : lib[i].group = lib[j].group /\ lib[i].shade = lib[j].shade => i = j

\* The index never names a blob that is not on disk, at whatever step a save fails or is
\* killed (performSave writes the blobs first and leaves out the ones that failed).
IndexNamesBlobs ==
    folder.saved => \A i \in DOMAIN folder.index : folder.index[i].trace.id \in DOMAIN folder.blobs

\* What OPEN would load is the document of the last save that finished, whole, wherever later
\* saves were cut: unless such a save had begun to replace blobs whose ids, in an earlier run of
\* the program, named other captures.
SessionSurvives ==
    taken.torn \/ (folder.saved => loaded(folder.index) = taken.committed)

\* A trace captured in this run of the program has its own impulse response or none.
IrOfOwnTrace ==
    \A i \in DOMAIN lib :
        lib[i].trace.id \notin taken.opened => irFind(irs, lib[i].trace.id) \subseteq {lib[i].trace.data}

\* IrStore.h: "after Save/Open a trace comes back without its IR"; so what RT60 and ALIGN find
\* under the id of a SWEEP trace is never the impulse response of another capture.
OpenedHasNoForeignIr ==
    \A i \in DOMAIN lib :
        lib[i].group = "SWEEP" => irFind(irs, lib[i].trace.id) \subseteq {lib[i].trace.data}

\* The trace library and its store: ids and shades are unique, an index names blobs that are there,
\* a session survives an interrupted save, and an impulse response stays with its own trace.
StoreInv == /\ StoreTypeOK /\ LibraryIdsUnique /\ ShadesDistinct /\ IndexNamesBlobs
            /\ SessionSurvives /\ IrOfOwnTrace
=============================================================================
