-------------------------- MODULE OutputClientsProofs --------------------------
(***************************************************************************)
(* Proofs about OutputClients for every timeout and number of device       *)
(* sessions: the output has one client, an armed source has an owner that  *)
(* will disarm it, the generator stays in its session, and ALIGN stores    *)
(* only what it excited itself.                                            *)
(***************************************************************************)
EXTENDS OutputClients, TLAPS

EngType == [armed : BOOLEAN, idle : BOOLEAN, epoch : 0..MaxEpochs,
            owner : Clients \cup {"none"}, slotEpoch : 0..MaxEpochs,
            routedBy : Clients \cup {"none"}, played : 0..2]
CapType == [accum : {"none", "armed", "published"}, lost : BOOLEAN, pending : BOOLEAN,
            snap : {"none", "blank", "other", "current"}, rebuilding : BOOLEAN]
DevType == [running : BOOLEAN, rendering : BOOLEAN, synthetic : BOOLEAN]
NoteType == [epoch : 0..MaxEpochs, synthetic : BOOLEAN]
EngFields == {"armed", "idle", "epoch", "owner", "slotEpoch", "routedBy", "played"}
CapFields == {"accum", "lost", "pending", "snap", "rebuilding"}
DevFields == {"running", "rendering", "synthetic"}

\* What two values of the engine agree on.
SameSlot(e, f) ==
  /\ f.epoch = e.epoch /\ f.owner = e.owner /\ f.slotEpoch = e.slotEpoch
  /\ f.routedBy = e.routedBy

\* The client that is active, CAL apart, owns the slot and chose the outputs.
HolderOwns == \A c \in Clients \ {"CAL"} : Active(c) => eng.owner = c /\ eng.routedBy = c

\* What a client noted is of this session or of an earlier one.
NotesArePast == \A c \in Clients : from[c].epoch <= eng.epoch

\* The slot a sweep's pre-roll will arm is of the session the sweep noted.
PreRollSlot == cl["SWEEP"] = "PreRoll" => eng.slotEpoch = from["SWEEP"].epoch

\* The generator does not outlive a change of the input mode.
GenInMode == Active("GEN") => from["GEN"].synthetic = dev.synthetic

\* While its session lasts ALIGN's source is armed, and once the dwell is over the
\* latest snapshot is of that source or has no coherence.
AlignPlays ==
  Active("ALIGN") /\ from["ALIGN"].epoch = eng.epoch =>
    eng.armed /\ (eng.played = 2 => cap.snap # "other")

\* The inductive invariant.
ClientsIInv ==
  /\ TypeOK /\ OneHolder /\ ArmedIsOwned /\ GenStaysInSession
  /\ HolderOwns /\ NotesArePast /\ PreRollSlot /\ GenInMode /\ AlignPlays

-------------------------------------------------------------------------------
(* Records: a function on the fields with values of their types.           *)

\* Whatever has the engine's fields, each of its type, is an engine.
LEMMA EngRecord ==
  ASSUME NEW x, x = [f \in EngFields |-> x[f]],
         x.armed \in BOOLEAN, x.idle \in BOOLEAN, x.epoch \in 0..MaxEpochs,
         x.owner \in Clients \cup {"none"}, x.slotEpoch \in 0..MaxEpochs,
         x.routedBy \in Clients \cup {"none"}, x.played \in 0..2
  PROVE  x \in EngType
  BY DEF EngType, EngFields

\* Whatever has the capture's fields, each of its type, is a capture.
LEMMA CapRecord ==
  ASSUME NEW x, x = [f \in CapFields |-> x[f]],
         x.accum \in {"none", "armed", "published"}, x.lost \in BOOLEAN,
         x.pending \in BOOLEAN, x.snap \in {"none", "blank", "other", "current"},
         x.rebuilding \in BOOLEAN
  PROVE  x \in CapType
  BY DEF CapType, CapFields

\* OutputEngine::prepare: a new epoch, disarmed and quiescent.
LEMMA PreparedEffect ==
  ASSUME NEW e \in EngType, e.epoch < MaxEpochs
  PROVE  /\ Prepared(e) \in EngType
         /\ Prepared(e).epoch = e.epoch + 1 /\ Prepared(e).armed = FALSE
         /\ Prepared(e).owner = e.owner /\ Prepared(e).routedBy = e.routedBy
         /\ Prepared(e).slotEpoch = e.slotEpoch /\ Prepared(e).played = e.played
<1>1. /\ Prepared(e).epoch = e.epoch + 1 /\ Prepared(e).armed = FALSE
      /\ Prepared(e).owner = e.owner /\ Prepared(e).routedBy = e.routedBy
      /\ Prepared(e).slotEpoch = e.slotEpoch /\ Prepared(e).played = e.played
      /\ Prepared(e).idle = TRUE
  BY DEF Prepared, EngType
<1>2. Prepared(e) = [f \in EngFields |-> Prepared(e)[f]]
  BY DEF Prepared, EngType, EngFields
<1>3. e.epoch + 1 \in 0..MaxEpochs
  BY OutputClientsAssumption DEF EngType
<1>4. Prepared(e) \in EngType
  <2> HIDE DEF Prepared
  <2> QED BY <1>1, <1>2, <1>3, EngRecord DEF EngType
<1> QED BY <1>1, <1>4

\* disarmSource: nothing but the armed flag.
LEMMA DisarmedEffect ==
  ASSUME NEW e \in EngType
  PROVE  /\ Disarmed(e) \in EngType /\ Disarmed(e).armed = FALSE
         /\ SameSlot(e, Disarmed(e)) /\ Disarmed(e).played = e.played
         /\ Disarmed(e).idle = e.idle
  BY DEF Disarmed, EngType, SameSlot

\* setSource and routeOutput by client c.
LEMMA SourcedEffect ==
  ASSUME NEW e \in EngType, NEW c \in Clients
  PROVE  /\ Sourced(e, c) \in EngType /\ Sourced(e, c).armed = e.armed
         /\ Sourced(e, c).owner = c /\ Sourced(e, c).routedBy = c
         /\ Sourced(e, c).slotEpoch = e.epoch /\ Sourced(e, c).epoch = e.epoch
         /\ Sourced(e, c).played = e.played
<1>1. /\ Sourced(e, c).armed = e.armed /\ Sourced(e, c).idle = e.idle
      /\ Sourced(e, c).owner = c /\ Sourced(e, c).routedBy = c
      /\ Sourced(e, c).slotEpoch = e.epoch /\ Sourced(e, c).epoch = e.epoch
      /\ Sourced(e, c).played = e.played
  BY DEF Sourced, EngType
<1>2. Sourced(e, c) = [f \in EngFields |-> Sourced(e, c)[f]]
  BY DEF Sourced, EngType, EngFields
<1>3. Sourced(e, c) \in EngType
  BY <1>1, <1>2, EngRecord DEF EngType
<1> QED BY <1>1, <1>3

\* armSource: the sample count starts again.
LEMMA ArmedEffect ==
  ASSUME NEW e \in EngType
  PROVE  /\ Armed(e) \in EngType /\ Armed(e).armed = TRUE /\ SameSlot(e, Armed(e))
         /\ Armed(e).played = 0
<1>1. Armed(e).armed = TRUE /\ Armed(e).played = 0
  BY DEF Armed, EngType
<1>2. Armed(e).idle = e.idle /\ Armed(e).epoch = e.epoch /\ Armed(e).owner = e.owner
  BY DEF Armed, EngType
<1>3. Armed(e).slotEpoch = e.slotEpoch /\ Armed(e).routedBy = e.routedBy
  BY DEF Armed, EngType
<1>4. Armed(e) = [f \in EngFields |-> Armed(e)[f]]
  BY DEF Armed, EngType, EngFields
<1>5. Armed(e) \in EngType
  <2>1. e.idle \in BOOLEAN /\ e.epoch \in 0..MaxEpochs /\ e.owner \in Clients \cup {"none"}
        /\ e.slotEpoch \in 0..MaxEpochs /\ e.routedBy \in Clients \cup {"none"} /\ 0 \in 0..2
    BY DEF EngType
  <2> QED BY <1>1, <1>2, <1>3, <1>4, <2>1, EngRecord
<1> QED BY <1>1, <1>2, <1>3, <1>5 DEF SameSlot

\* The capture's helpers.
LEMMA CapEffect ==
  ASSUME NEW k \in CapType
  PROVE  /\ Aged(k) \in CapType /\ CaptureArmed(k) \in CapType /\ BusPrepared(k) \in CapType
         /\ CaptureArmed(k).snap = k.snap /\ BusPrepared(k).snap = k.snap
<1>1. Aged(k) \in CapType
  BY DEF Aged, CapType
<1>2. /\ CaptureArmed(k) = [f \in CapFields |-> CaptureArmed(k)[f]]
      /\ BusPrepared(k) = [f \in CapFields |-> BusPrepared(k)[f]]
  BY DEF CaptureArmed, BusPrepared, CapType, CapFields
<1>3. /\ CaptureArmed(k).snap = k.snap /\ CaptureArmed(k).accum = "armed"
      /\ CaptureArmed(k).lost = FALSE /\ CaptureArmed(k).pending = k.pending
      /\ CaptureArmed(k).rebuilding = k.rebuilding
  BY DEF CaptureArmed, CapType
<1>4. /\ BusPrepared(k).snap = k.snap /\ BusPrepared(k).accum = k.accum
      /\ BusPrepared(k).lost = TRUE /\ BusPrepared(k).pending = TRUE
      /\ BusPrepared(k).rebuilding = TRUE
  BY DEF BusPrepared, CapType
<1>5. CaptureArmed(k) \in CapType
  BY <1>2, <1>3, CapRecord DEF CapType
<1>6. BusPrepared(k) \in CapType
  BY <1>2, <1>4, CapRecord DEF CapType
<1> QED BY <1>1, <1>3, <1>4, <1>5, <1>6

-------------------------------------------------------------------------------
(* Kinds of steps.  The invariant in two parts: what handlers of one client  *)
(* change together, and the rest of the types.                               *)

CoreType ==
  /\ eng \in EngType
  /\ DOMAIN cl = Clients /\ \A c \in Clients : cl[c] \in Busy[c] \cup Rest[c]
  /\ from \in [Clients -> NoteType]

SideType ==
  /\ dev \in DevType /\ cap \in CapType /\ age \in 0..Timeout
  /\ worker \in {"none", "running", "done"} /\ timer \in Clients \cup {"idle"}

Links ==
  /\ OneHolder /\ ArmedIsOwned /\ GenStaysInSession
  /\ HolderOwns /\ NotesArePast /\ PreRollSlot /\ GenInMode /\ AlignPlays

\* The two parts make up the invariant.
LEMMA InvParts == ClientsIInv <=> CoreType /\ SideType /\ Links
  BY DEF ClientsIInv, TypeOK, CoreType, SideType, Links, EngType, CapType, DevType, NoteType

\* ... and so do they in the state after a step.
LEMMA NextInvParts == CoreType' /\ SideType' /\ Links' => ClientsIInv'
  BY DEF ClientsIInv, TypeOK, CoreType, SideType, Links, EngType, CapType, DevType, NoteType

\* A client plays only while it is busy, and is never busy and at rest.
LEMMA ClientStates ==
  /\ \A c \in Clients : Plays[c] \subseteq Busy[c] /\ Busy[c] \cap Rest[c] = {}
  /\ Plays["CAL"] = {}
<1>1. ASSUME NEW c \in Clients PROVE Plays[c] \subseteq Busy[c] /\ Busy[c] \cap Rest[c] = {}
  <2>1. CASE c = "LOCATE" BY <2>1 DEF Plays, Busy, Rest
  <2>2. CASE c = "CAL" BY <2>2 DEF Plays, Busy, Rest
  <2>3. CASE c = "SWEEP" BY <2>3 DEF Plays, Busy, Rest
  <2>4. CASE c = "GEN" BY <2>4 DEF Plays, Busy, Rest
  <2>5. CASE c = "VERIFY" BY <2>5 DEF Plays, Busy, Rest
  <2>6. CASE c = "ALIGN" BY <2>6 DEF Plays, Busy, Rest
  <2> QED BY <1>1, <2>1, <2>2, <2>3, <2>4, <2>5, <2>6 DEF Clients
<1>2. Plays["CAL"] = {}
  BY DEF Plays
<1> QED BY <1>1, <1>2

\* Client c moves to state s: the others stay, and what it noted stays while it is busy.
LEMMA GoesEffect ==
  ASSUME CoreType, NEW c \in Clients, NEW s \in Busy[c] \cup Rest[c], Goes(c, s)
  PROVE  /\ DOMAIN cl' = Clients /\ \A d \in Clients : cl'[d] \in Busy[d] \cup Rest[d]
         /\ from' \in [Clients -> NoteType]
         /\ cl'[c] = s
         /\ \A d \in Clients : d # c => cl'[d] = cl[d] /\ from'[d] = from[d]
         /\ s \in Busy[c] => from'[c] = from[c]
         /\ from'[c].epoch <= from[c].epoch
<1> USE DEF CoreType
<1>1. DOMAIN cl' = Clients /\ cl'[c] = s /\ \A d \in Clients : d # c => cl'[d] = cl[d]
  BY DEF Goes
<1>2. NotNoted \in NoteType /\ NotNoted.epoch = 0
  BY OutputClientsAssumption DEF NotNoted, NoteType
<1>3. from' \in [Clients -> NoteType]
      /\ from'[c] = (IF s \in Rest[c] THEN NotNoted ELSE from[c])
      /\ \A d \in Clients : d # c => from'[d] = from[d]
  BY <1>2 DEF Goes
<1>4. s \in Busy[c] => from'[c] = from[c]
  BY <1>3, ClientStates
<1>5. from'[c].epoch <= from[c].epoch
  BY <1>2, <1>3, OutputClientsAssumption DEF NoteType
<1> QED BY <1>1, <1>3, <1>4, <1>5

\* Client c starts: it notes the session in force.
LEMMA StartsEffect ==
  ASSUME CoreType, SideType, NEW c \in Clients, NEW s \in Busy[c] \cup Rest[c], Starts(c, s)
  PROVE  /\ DOMAIN cl' = Clients /\ \A d \in Clients : cl'[d] \in Busy[d] \cup Rest[d]
         /\ from' \in [Clients -> NoteType]
         /\ cl'[c] = s
         /\ \A d \in Clients : d # c => cl'[d] = cl[d] /\ from'[d] = from[d]
         /\ from'[c].epoch = eng.epoch /\ from'[c].synthetic = dev.synthetic
         /\ from'[c] = Noted
         /\ age' = 0
<1> USE DEF CoreType, SideType
<1>1. DOMAIN cl' = Clients /\ cl'[c] = s /\ \A d \in Clients : d # c => cl'[d] = cl[d]
  BY DEF Starts
<1>2. Noted \in NoteType /\ Noted.epoch = eng.epoch /\ Noted.synthetic = dev.synthetic
  BY DEF Noted, NoteType, EngType, DevType
<1>3. from' \in [Clients -> NoteType] /\ from'[c] = Noted
      /\ \A d \in Clients : d # c => from'[d] = from[d]
  BY <1>2 DEF Starts
<1> QED BY <1>1, <1>2, <1>3 DEF Starts

\* No client moves and the slot stays: the callback, the analysis thread, the clock.
LEMMA StayStep ==
  ASSUME ClientsIInv, UNCHANGED <<cl, from>>, dev'.synthetic = dev.synthetic,
         eng' \in EngType, eng'.armed = eng.armed, SameSlot(eng, eng'),
         \/ eng'.played = eng.played /\ cap'.snap = cap.snap
         \/ Playing /\ eng'.played = 2 => cap'.snap # "other"
  PROVE  CoreType' /\ Links'
<1> USE InvParts DEF SameSlot
<1>1. CoreType'
  BY DEF CoreType
<1>2. OneHolder' /\ ArmedIsOwned' /\ HolderOwns' /\ NotesArePast' /\ PreRollSlot' /\ GenInMode'
  BY DEF Links, OneHolder, ArmedIsOwned, HolderOwns, NotesArePast, PreRollSlot, GenInMode, Active
<1>3. GenStaysInSession'
  BY DEF Links, GenStaysInSession, Noted
<1>4. AlignPlays'
  BY DEF Links, AlignPlays, ArmedIsOwned, Active, Playing
<1> QED BY <1>1, <1>2, <1>3, <1>4 DEF Links

\* Nobody is active: what the guards of a press come down to.
LEMMA Free == ASSUME ~outputBusy, NEW c \in Clients PROVE ~Active(c)
  BY DEF outputBusy, captureBusy, Clients

\* A press of client c: nobody is active, and its source, if it plays one, is armed.
LEMMA StartStep ==
  ASSUME ClientsIInv, ~outputBusy, UNCHANGED dev,
         NEW c \in Clients, NEW s \in Plays[c],
         c # "SWEEP", eng' = Armed(Sourced(eng, c)), Starts(c, s)
  PROVE  CoreType' /\ Links'
<1> USE InvParts
<1>1. \A d \in Clients : ~Active(d)
  BY Free
<1>2. Sourced(eng, c) \in EngType
  BY SourcedEffect DEF CoreType
<1>3. /\ eng' \in EngType /\ eng'.armed = TRUE /\ eng'.played = 0
      /\ eng'.owner = c /\ eng'.routedBy = c
      /\ eng'.slotEpoch = eng.epoch /\ eng'.epoch = eng.epoch
  BY <1>2, SourcedEffect, ArmedEffect DEF CoreType, SameSlot
<1>4. s \in Busy[c] \cup Rest[c]
  BY ClientStates
<1>5. /\ DOMAIN cl' = Clients /\ \A d \in Clients : cl'[d] \in Busy[d] \cup Rest[d]
      /\ from' \in [Clients -> NoteType]
      /\ cl'[c] = s
      /\ \A d \in Clients : d # c => cl'[d] = cl[d] /\ from'[d] = from[d]
      /\ from'[c].epoch = eng.epoch /\ from'[c].synthetic = dev.synthetic
      /\ from'[c] = Noted
  BY <1>4, StartsEffect
<1>6. CoreType'
  BY <1>3, <1>5 DEF CoreType
<1>7. \A d \in Clients : Active(d)' => d = c
  BY <1>1, <1>5 DEF Active
<1>8. OneHolder' /\ HolderOwns'
  BY <1>3, <1>7 DEF OneHolder, HolderOwns
<1>9. ArmedIsOwned'
  BY <1>3, <1>5 DEF ArmedIsOwned
<1>10. Noted' = Noted
  BY <1>3 DEF Noted
<1>11. GenStaysInSession' /\ GenInMode'
  BY <1>3, <1>5, <1>7, <1>10 DEF GenStaysInSession, GenInMode, Clients
<1>12. NotesArePast'
  BY <1>3, <1>5 DEF NotesArePast, Links, CoreType, EngType
<1>13. PreRollSlot'
  BY <1>1, <1>5 DEF PreRollSlot, Active, Busy, Clients
<1>14. AlignPlays'
  BY <1>3 DEF AlignPlays
<1> QED BY <1>6, <1>8, <1>9, <1>11, <1>12, <1>13, <1>14 DEF Links

\* Client c, which is active, disarms its source and moves on, or rests.
LEMMA QuitStep ==
  ASSUME ClientsIInv, NEW c \in Clients, Active(c), NEW s \in Busy[c] \cup Rest[c],
         Quits(c, s), s # "PreRoll", c = "ALIGN" => s \in Rest[c],
         dev'.synthetic = dev.synthetic
  PROVE  CoreType' /\ Links'
<1> USE InvParts
<1>1. eng' \in EngType /\ eng'.armed = FALSE /\ SameSlot(eng, eng')
  BY DisarmedEffect DEF Quits, CoreType
<1>2. /\ DOMAIN cl' = Clients /\ \A d \in Clients : cl'[d] \in Busy[d] \cup Rest[d]
      /\ from' \in [Clients -> NoteType]
      /\ cl'[c] = s
      /\ \A d \in Clients : d # c => cl'[d] = cl[d] /\ from'[d] = from[d]
      /\ s \in Busy[c] => from'[c] = from[c]
      /\ from'[c].epoch <= from[c].epoch
  BY GoesEffect DEF Quits
<1>3. CoreType'
  BY <1>1, <1>2 DEF CoreType
<1>4. \A d \in Clients : Active(d)' => d = c
  BY <1>2 DEF Active, Links, OneHolder
<1>5. OneHolder' /\ HolderOwns'
  BY <1>1, <1>4 DEF OneHolder, HolderOwns, Links, SameSlot
<1>6. ArmedIsOwned' /\ GenStaysInSession'
  BY <1>1 DEF ArmedIsOwned, GenStaysInSession
<1>7. NotesArePast'
  <2> SUFFICES ASSUME NEW d \in Clients PROVE from'[d].epoch <= eng'.epoch
    BY DEF NotesArePast
  <2>1. from[d].epoch <= eng.epoch /\ from[d].epoch \in Nat /\ eng.epoch \in Nat
        /\ from'[d].epoch \in Nat
    BY <1>2, OutputClientsAssumption DEF Links, NotesArePast, CoreType, NoteType, EngType
  <2> QED BY <1>1, <1>2, <2>1 DEF SameSlot
<1>8. PreRollSlot'
  BY <1>2, <1>4 DEF PreRollSlot, Active, Busy, Clients
<1>9. GenInMode'
  BY <1>2, <1>4 DEF GenInMode, Links, Active, Clients
<1>10. AlignPlays'
  BY <1>2, <1>4, ClientStates DEF AlignPlays, Active, Clients
<1> QED BY <1>3, <1>5, <1>6, <1>7, <1>8, <1>9, <1>10 DEF Links

\* Client c moves on and the engine stays as it is: a client that plays goes on playing.
LEMMA GoStep ==
  ASSUME ClientsIInv, NEW c \in Clients, NEW s \in Busy[c] \cup Rest[c], Goes(c, s),
         s \in Busy[c] => Active(c), cl[c] \in Plays[c] => s \in Plays[c],
         s # "PreRoll", c = "ALIGN" => s \in Rest[c],
         UNCHANGED eng, dev'.synthetic = dev.synthetic, cap'.snap = cap.snap
  PROVE  CoreType' /\ Links'
<1> USE InvParts
<1>1. /\ DOMAIN cl' = Clients /\ \A d \in Clients : cl'[d] \in Busy[d] \cup Rest[d]
      /\ from' \in [Clients -> NoteType]
      /\ cl'[c] = s
      /\ \A d \in Clients : d # c => cl'[d] = cl[d] /\ from'[d] = from[d]
      /\ s \in Busy[c] => from'[c] = from[c]
      /\ from'[c].epoch <= from[c].epoch
  BY GoesEffect
<1>2. CoreType'
  BY <1>1 DEF CoreType
<1>3. \A d \in Clients : Active(d)' => Active(d)
  BY <1>1 DEF Active
<1>4. OneHolder' /\ HolderOwns'
  BY <1>3 DEF OneHolder, HolderOwns, Links
<1>5. ArmedIsOwned'
  BY <1>1 DEF ArmedIsOwned, Links
<1>6. GenStaysInSession'
  <2> SUFFICES ASSUME eng.armed, eng.owner = "GEN" PROVE from'["GEN"] = Noted'
    BY DEF GenStaysInSession
  <2>1. from["GEN"] = Noted /\ cl["GEN"] \in Plays["GEN"]
    BY DEF Links, GenStaysInSession, ArmedIsOwned
  <2>2. from'["GEN"] = from["GEN"]
    BY <1>1, <2>1, ClientStates DEF Clients
  <2> QED BY <2>1, <2>2 DEF Noted
<1>7. NotesArePast'
  <2> SUFFICES ASSUME NEW d \in Clients PROVE from'[d].epoch <= eng'.epoch
    BY DEF NotesArePast
  <2>1. from[d].epoch <= eng.epoch /\ from[d].epoch \in Nat /\ eng.epoch \in Nat
        /\ from'[d].epoch \in Nat
    BY <1>1, OutputClientsAssumption DEF Links, NotesArePast, CoreType, NoteType, EngType
  <2> QED BY <1>1, <2>1
<1>8. PreRollSlot'
  BY <1>1 DEF PreRollSlot, Links, Clients
<1>9. GenInMode'
  BY <1>1, <1>3 DEF GenInMode, Links, Active, Clients
<1>10. AlignPlays'
  BY <1>1, <1>3, ClientStates DEF AlignPlays, Links, Active, Clients
<1> QED BY <1>2, <1>4, <1>5, <1>6, <1>7, <1>8, <1>9, <1>10 DEF Links

\* prepare() under clients that have not moved: the session is over for all of them.
LEMMA PrepareStep ==
  ASSUME ClientsIInv, eng' = Prepared(eng), eng.epoch < MaxEpochs, UNCHANGED <<cl, from>>,
         dev'.synthetic = dev.synthetic
  PROVE  CoreType' /\ Links'
<1> USE InvParts
<1>1. /\ eng' \in EngType /\ eng'.epoch = eng.epoch + 1 /\ eng'.armed = FALSE
      /\ eng'.owner = eng.owner /\ eng'.routedBy = eng.routedBy
      /\ eng'.slotEpoch = eng.slotEpoch
  BY PreparedEffect DEF CoreType
<1>2. \A d \in Clients : from[d].epoch <= eng.epoch /\ from[d].epoch \in Nat /\ eng.epoch \in Nat
  BY OutputClientsAssumption DEF Links, NotesArePast, CoreType, NoteType, EngType
<1>3. CoreType'
  BY <1>1 DEF CoreType
<1>4. OneHolder' /\ HolderOwns' /\ PreRollSlot' /\ GenInMode'
  BY <1>1 DEF Links, OneHolder, HolderOwns, PreRollSlot, GenInMode, Active
<1>5. ArmedIsOwned' /\ GenStaysInSession'
  BY <1>1 DEF ArmedIsOwned, GenStaysInSession
<1>6. NotesArePast'
  BY <1>1, <1>2 DEF NotesArePast
<1>7. AlignPlays'
  BY <1>1, <1>2 DEF AlignPlays, Clients
<1> QED BY <1>3, <1>4, <1>5, <1>6, <1>7 DEF Links

-------------------------------------------------------------------------------
(* The steps.                                                              *)

\* The presses that start a client whose source plays at once.
LEMMA StartPresses ==
  ASSUME ClientsIInv,
         LocateClicked \/ GenStart \/ VerifyPress \/ AlignPress \/ AlignPressSum
  PROVE  ClientsIInv'
<1> USE InvParts
<1>1. \A k \in CapType : Aged(k) \in CapType
  BY CapEffect
<1>2. /\ cap' = Aged(cap) /\ UNCHANGED <<dev, worker, timer>> /\ age' = 0 /\ ~outputBusy
      /\ \E c \in Clients \ {"SWEEP"} : \E s \in Plays[c] :
           eng' = Armed(Sourced(eng, c)) /\ Starts(c, s)
  <2>1. CASE LocateClicked
    <3>1. "Settling" \in Plays["LOCATE"] /\ "LOCATE" \in Clients \ {"SWEEP"}
      BY DEF Plays, Busy, Clients
    <3> QED BY <2>1, <3>1 DEF LocateClicked, Starts
  <2>2. CASE GenStart
    <3>1. "Playing" \in Plays["GEN"] /\ "GEN" \in Clients \ {"SWEEP"}
      BY DEF Plays, Clients
    <3>2. ~outputBusy
      BY <2>2 DEF GenStart, heldByOther, outputBusy
    <3> QED BY <2>2, <3>1, <3>2 DEF GenStart, Starts
  <2>3. CASE VerifyPress
    <3>1. "Waiting" \in Plays["VERIFY"] /\ "VERIFY" \in Clients \ {"SWEEP"}
      BY DEF Plays, Clients
    <3>2. ~outputBusy
      BY <2>3 DEF VerifyPress, outputBusy
    <3> QED BY <2>3, <3>1, <3>2 DEF VerifyPress, Starts
  <2>4. CASE AlignPress
    <3>1. "MeasuringHigh" \in Plays["ALIGN"] /\ "ALIGN" \in Clients \ {"SWEEP"}
      BY DEF Plays, Busy, Clients
    <3> QED BY <2>4, <3>1 DEF AlignPress, Starts
  <2>5. CASE AlignPressSum
    <3>1. "MeasuringSum" \in Plays["ALIGN"] /\ "ALIGN" \in Clients \ {"SWEEP"}
      BY DEF Plays, Busy, Clients
    <3> QED BY <2>5, <3>1 DEF AlignPressSum, Starts
  <2> QED BY <2>1, <2>2, <2>3, <2>4, <2>5
<1>3. CoreType' /\ Links'
  BY <1>2, StartStep
<1>4. SideType'
  BY <1>1, <1>2, OutputClientsAssumption DEF SideType
<1> QED BY <1>3, <1>4, NextInvParts

\* CAL takes the capture and leaves the engine alone.
LEMMA CalPress == ASSUME ClientsIInv, CalClicked PROVE ClientsIInv'
<1> USE InvParts
<1>1. \A d \in Clients : ~Active(d)
  BY Free DEF CalClicked
<1>2. cap' = CaptureArmed(cap) /\ Starts("CAL", "Armed") /\ UNCHANGED <<eng, dev, worker, timer>>
  BY DEF CalClicked
<1>3. "CAL" \in Clients /\ "Armed" \in Busy["CAL"] \cup Rest["CAL"]
  BY DEF Clients, Busy
<1>4. /\ DOMAIN cl' = Clients /\ \A d \in Clients : cl'[d] \in Busy[d] \cup Rest[d]
      /\ from' \in [Clients -> NoteType] /\ cl'["CAL"] = "Armed"
      /\ \A d \in Clients : d # "CAL" => cl'[d] = cl[d] /\ from'[d] = from[d]
      /\ from'["CAL"].epoch = eng.epoch /\ age' = 0
  BY <1>2, <1>3, StartsEffect
<1>5. ~eng.armed
  BY <1>1, ClientStates DEF Links, ArmedIsOwned, Active
<1>6. CoreType'
  BY <1>2, <1>4 DEF CoreType
<1>7. SideType'
  BY <1>2, <1>4, CapEffect, OutputClientsAssumption DEF SideType
<1>8. \A d \in Clients : Active(d)' => d = "CAL"
  BY <1>1, <1>4 DEF Active
<1>9. OneHolder' /\ HolderOwns' /\ ArmedIsOwned' /\ GenStaysInSession'
  BY <1>2, <1>5, <1>8 DEF OneHolder, HolderOwns, ArmedIsOwned, GenStaysInSession
<1>10. NotesArePast'
  BY <1>2, <1>4 DEF NotesArePast, Links, CoreType, EngType
<1>11. PreRollSlot' /\ GenInMode' /\ AlignPlays'
  BY <1>1, <1>4, <1>8 DEF PreRollSlot, GenInMode, AlignPlays, Active, Busy, Clients
<1> QED BY <1>6, <1>7, <1>9, <1>10, <1>11, NextInvParts DEF Links

\* SWEEP installs and routes its source; it is armed later.
LEMMA SweepPress == ASSUME ClientsIInv, SweepStartOn PROVE ClientsIInv'
<1> USE InvParts
<1>1. \A d \in Clients : ~Active(d)
  BY Free DEF SweepStartOn
<1>2. /\ eng' = Sourced(eng, "SWEEP") /\ cap' = CaptureArmed(cap) /\ Starts("SWEEP", "PreRoll")
      /\ ~eng.armed /\ UNCHANGED <<dev, worker, timer>>
  BY DEF SweepStartOn, sourceIsQuiescent
<1>3. "SWEEP" \in Clients /\ "PreRoll" \in Busy["SWEEP"] \cup Rest["SWEEP"]
  BY DEF Clients, Busy
<1>4. /\ DOMAIN cl' = Clients /\ \A d \in Clients : cl'[d] \in Busy[d] \cup Rest[d]
      /\ from' \in [Clients -> NoteType] /\ cl'["SWEEP"] = "PreRoll"
      /\ \A d \in Clients : d # "SWEEP" => cl'[d] = cl[d] /\ from'[d] = from[d]
      /\ from'["SWEEP"].epoch = eng.epoch /\ age' = 0
  BY <1>2, <1>3, StartsEffect
<1>5. /\ eng' \in EngType /\ ~eng'.armed /\ eng'.owner = "SWEEP" /\ eng'.routedBy = "SWEEP"
      /\ eng'.slotEpoch = eng.epoch /\ eng'.epoch = eng.epoch
  BY <1>2, <1>3, SourcedEffect DEF CoreType
<1>6. CoreType'
  BY <1>4, <1>5 DEF CoreType
<1>7. SideType'
  BY <1>2, <1>4, CapEffect, OutputClientsAssumption DEF SideType
<1>8. \A d \in Clients : Active(d)' => d = "SWEEP"
  BY <1>1, <1>4 DEF Active
<1>9. OneHolder' /\ HolderOwns' /\ ArmedIsOwned' /\ GenStaysInSession'
  BY <1>5, <1>8 DEF OneHolder, HolderOwns, ArmedIsOwned, GenStaysInSession
<1>10. NotesArePast'
  BY <1>4, <1>5 DEF NotesArePast, Links, CoreType, EngType
<1>11. PreRollSlot' /\ GenInMode' /\ AlignPlays'
  BY <1>4, <1>5, <1>8 DEF PreRollSlot, GenInMode, AlignPlays, Clients
<1> QED BY <1>6, <1>7, <1>9, <1>10, <1>11, NextInvParts DEF Links

\* The presses of a client that is there already.
LEMMA OwnPresses ==
  ASSUME ClientsIInv, GenStop \/ GenApply \/ VerifyAdopt \/ AlignAnswerCycle
  PROVE  ClientsIInv'
<1> USE InvParts, NextInvParts
<1>1. CASE GenStop
  <2>1. Quits("GEN", "Stopping") /\ Active("GEN") /\ UNCHANGED <<dev, cap, worker, timer>> /\ age' = 0
    BY <1>1 DEF GenStop, Active, Busy
  <2>2. "GEN" \in Clients /\ "Stopping" \in Busy["GEN"]
    BY DEF Clients, Busy
  <2>3. CoreType' /\ Links'
    BY <2>1, <2>2, QuitStep
  <2>4. SideType'
    BY <2>1, OutputClientsAssumption DEF SideType
  <2> QED BY <2>3, <2>4
<1>2. CASE GenApply
  <2> USE <1>2
  <2>1. Active("GEN") /\ UNCHANGED <<dev, cap, worker, timer>> /\ "GEN" \in Clients
    BY DEF GenApply, Active, Busy, Clients
  <2>2. CASE Quits("GEN", "Swapping") /\ age' = 0
    <3>1. "Swapping" \in Busy["GEN"]
      BY DEF Busy
    <3>2. CoreType' /\ Links'
      BY <2>1, <2>2, <3>1, QuitStep
    <3>3. SideType'
      BY <2>1, <2>2, OutputClientsAssumption DEF SideType
    <3> QED BY <3>2, <3>3
  <2>3. CASE eng' = [eng EXCEPT !.routedBy = "GEN"] /\ UNCHANGED <<cl, from, age>>
    <3>1. eng.routedBy = "GEN"
      BY <2>1 DEF Links, HolderOwns
    <3>2. eng' = eng
      BY <2>3, <3>1 DEF CoreType, EngType
    <3>3. CoreType' /\ Links'
      BY <2>1, <2>3, <3>2, StayStep DEF CoreType, SameSlot
    <3>4. SideType'
      BY <2>1, <2>3 DEF SideType
    <3> QED BY <3>3, <3>4
  <2> QED BY <2>2, <2>3 DEF GenApply
<1>3. CASE VerifyAdopt
  <2>1. Goes("VERIFY", "Idle") /\ cl["VERIFY"] = "Done" /\ UNCHANGED <<eng, dev, cap, age, worker, timer>>
    BY <1>3 DEF VerifyAdopt
  <2>2. "VERIFY" \in Clients /\ "Idle" \in Rest["VERIFY"] /\ "Idle" \notin Busy["VERIFY"]
        /\ "Done" \notin Plays["VERIFY"]
    BY DEF Clients, Rest, Busy, Plays
  <2>3. CoreType' /\ Links'
    BY <2>1, <2>2, GoStep
  <2>4. SideType'
    BY <2>1 DEF SideType
  <2> QED BY <2>3, <2>4
<1>4. CASE AlignAnswerCycle
  <2>1. Goes("ALIGN", "Computed") /\ cl["ALIGN"] = "AskingCycle"
        /\ UNCHANGED <<eng, dev, cap, age, worker, timer>>
    BY <1>4 DEF AlignAnswerCycle
  <2>2. "ALIGN" \in Clients /\ "Computed" \in Rest["ALIGN"] /\ "Computed" \notin Busy["ALIGN"]
        /\ "AskingCycle" \notin Plays["ALIGN"]
    BY DEF Clients, Rest, Busy, Plays
  <2>3. CoreType' /\ Links'
    BY <2>1, <2>2, GoStep
  <2>4. SideType'
    BY <2>1 DEF SideType
  <2> QED BY <2>3, <2>4
<1> QED BY <1>1, <1>2, <1>3, <1>4

\* A change of the input mode ends LOCATE and GEN; entering the synthetic mode prepares.
LEMMA ModeStep == ASSUME ClientsIInv, SetSyntheticMode PROVE ClientsIInv'
<1> USE InvParts, NextInvParts
<1> DEFINE ended == {c \in {"LOCATE", "GEN"} : Active(c)}
           quiet == IF ended = {} THEN eng ELSE Disarmed(eng)
<1>1. /\ cl' = [c \in Clients |-> IF c \in ended THEN "Idle" ELSE cl[c]]
      /\ from' = [c \in Clients |-> IF c \in ended THEN NotNoted ELSE from[c]]
      /\ eng' = IF dev.synthetic THEN quiet ELSE Prepared(quiet)
      /\ cap' = IF dev.synthetic THEN cap ELSE BusPrepared(cap)
      /\ dev' = [running |-> FALSE, rendering |-> ~dev.synthetic, synthetic |-> ~dev.synthetic]
      /\ UNCHANGED <<age, worker, timer>>
      /\ dev.synthetic \/ eng.epoch < MaxEpochs
  BY DEF SetSyntheticMode
<1>2. ended \subseteq Clients /\ \A c \in ended : "Idle" \in Rest[c] /\ Active(c)
  BY DEF Clients, Rest
<1>3. /\ quiet \in EngType /\ SameSlot(eng, quiet) /\ quiet.played = eng.played
      /\ ended = {} => quiet = eng
      /\ ended # {} => ~quiet.armed
      /\ quiet.armed => eng.armed
  BY DisarmedEffect DEF CoreType, SameSlot
<1>4. /\ eng' \in EngType /\ eng'.owner = eng.owner /\ eng'.routedBy = eng.routedBy
      /\ eng'.slotEpoch = eng.slotEpoch /\ eng'.played = eng.played
      /\ dev.synthetic => eng'.epoch = eng.epoch /\ eng' = quiet
      /\ ~dev.synthetic => eng'.epoch = eng.epoch + 1 /\ ~eng'.armed
      /\ eng'.armed => eng.armed /\ ended = {}
  <2> HIDE DEF quiet, ended
  <2>1. CASE dev.synthetic
    BY <1>1, <1>3, <2>1 DEF SameSlot
  <2>2. CASE ~dev.synthetic
    <3>1. quiet.epoch < MaxEpochs
      BY <1>1, <1>3, <2>2 DEF SameSlot
    <3>2. /\ Prepared(quiet) \in EngType
          /\ Prepared(quiet).epoch = quiet.epoch + 1 /\ Prepared(quiet).armed = FALSE
          /\ Prepared(quiet).owner = quiet.owner /\ Prepared(quiet).routedBy = quiet.routedBy
          /\ Prepared(quiet).slotEpoch = quiet.slotEpoch /\ Prepared(quiet).played = quiet.played
      BY <1>3, <3>1, PreparedEffect
    <3>3. eng' = Prepared(quiet)
      BY <1>1, <2>2
    <3> QED BY <1>3, <2>2, <3>2, <3>3 DEF SameSlot
  <2> QED BY <2>1, <2>2
<1>5. NotNoted \in NoteType /\ NotNoted.epoch = 0
  BY OutputClientsAssumption DEF NotNoted, NoteType
<1> HIDE DEF ended, quiet
<1>6. CoreType'
  BY <1>1, <1>2, <1>4, <1>5 DEF CoreType
<1>7. SideType'
  <2>1. cap' \in CapType
    BY <1>1, CapEffect DEF SideType
  <2>2. dev' \in DevType
    BY <1>1 DEF SideType, DevType
  <2> QED BY <1>1, <2>1, <2>2 DEF SideType
<1>8. \A d \in Clients : Active(d)' => Active(d) /\ d \notin ended
  BY <1>1, <1>2, ClientStates DEF Active
<1>9. OneHolder' /\ HolderOwns'
  BY <1>4, <1>8 DEF OneHolder, HolderOwns, Links
<1>10. ArmedIsOwned'
  <2> SUFFICES ASSUME eng'.armed PROVE ArmedIsOwned'
    BY DEF ArmedIsOwned
  <2>1. eng' = eng /\ ended = {} /\ cl' = [c \in Clients |-> cl[c]]
    BY <1>1, <1>3, <1>4
  <2> QED BY <2>1, <1>4 DEF ArmedIsOwned, Links
<1>11. "GEN" \in Clients /\ ~Active("GEN")'
  BY <1>8 DEF ended, Clients
<1>12. GenStaysInSession' /\ GenInMode'
  <2>1. ~(eng'.armed /\ eng'.owner = "GEN")
    BY <1>10, <1>11, ClientStates DEF ArmedIsOwned, Active
  <2> QED BY <1>11, <2>1 DEF GenStaysInSession, GenInMode
<1>13. NotesArePast'
  <2> SUFFICES ASSUME NEW d \in Clients PROVE from'[d].epoch <= eng'.epoch
    BY DEF NotesArePast
  <2>1. from[d].epoch <= eng.epoch /\ from[d].epoch \in Nat /\ eng.epoch \in Nat
    BY OutputClientsAssumption DEF Links, NotesArePast, CoreType, NoteType, EngType
  <2>2. from'[d] \in {NotNoted, from[d]}
    BY <1>1
  <2>3. eng'.epoch \in {eng.epoch, eng.epoch + 1}
    BY <1>4
  <2> QED BY <1>5, <2>1, <2>2, <2>3
<1>14. PreRollSlot'
  BY <1>1, <1>4 DEF PreRollSlot, Links, Clients, ended
<1>15. AlignPlays'
  <2> SUFFICES ASSUME Active("ALIGN")', from'["ALIGN"].epoch = eng'.epoch
               PROVE eng'.armed /\ (eng'.played = 2 => cap'.snap # "other")
    BY DEF AlignPlays
  <2>1. "ALIGN" \in Clients /\ Active("ALIGN") /\ from'["ALIGN"] = from["ALIGN"]
    BY <1>1, <1>8 DEF Clients
  <2>2. from["ALIGN"].epoch <= eng.epoch /\ from["ALIGN"].epoch \in Nat /\ eng.epoch \in Nat
    BY <2>1, OutputClientsAssumption DEF Links, NotesArePast, CoreType, NoteType, EngType
  <2>3. dev.synthetic /\ eng'.epoch = eng.epoch
    BY <1>4, <2>1, <2>2
  <2>4. ended = {}
    BY <2>1 DEF Links, OneHolder, ended, Clients
  <2>5. eng' = eng /\ cap' = cap
    BY <1>1, <1>3, <1>4, <2>3, <2>4
  <2> QED BY <2>1, <2>5 DEF Links, AlignPlays
<1> QED BY <1>6, <1>7, <1>9, <1>10, <1>12, <1>13, <1>14, <1>15 DEF Links

\* The timer's start, and the polls of LOCATE and CAL.
LEMMA FirstPolls ==
  ASSUME ClientsIInv, TimerStart \/ PollLocate \/ PollCal
  PROVE  ClientsIInv'
<1> USE InvParts, NextInvParts
<1>1. CASE TimerStart
  <2>1. UNCHANGED <<eng, dev, cap, cl, from, worker>> /\ timer' = "LOCATE" /\ age' \in {age, age + 1}
        /\ (age' = age + 1 => age < Timeout)
    BY <1>1 DEF TimerStart
  <2>2. CoreType' /\ Links'
    BY <2>1, StayStep DEF CoreType, SameSlot
  <2>3. SideType'
    BY <2>1, OutputClientsAssumption DEF SideType, Clients
  <2> QED BY <2>2, <2>3
<1>2. CASE PollLocate
  <2>1. UNCHANGED <<dev, age, worker>> /\ timer' = "CAL" /\ "LOCATE" \in Clients /\ "CAL" \in Clients
    BY <1>2 DEF PollLocate, Clients
  <2>2. CASE Settled /\ cap' = CaptureArmed(cap) /\ Goes("LOCATE", "Capturing") /\ UNCHANGED eng
    <3>1. Active("LOCATE") /\ "Capturing" \in Busy["LOCATE"] /\ "Capturing" \in Plays["LOCATE"]
      BY <2>2 DEF Settled, Active, Busy, Plays
    <3>2. cap' \in CapType /\ cap'.snap = cap.snap
      BY <2>2, CapEffect DEF SideType
    <3>3. CoreType' /\ Links'
      BY <2>1, <2>2, <3>1, <3>2, GoStep
    <3>4. SideType'
      BY <2>1, <3>2 DEF SideType
    <3> QED BY <3>3, <3>4
  <2>3. CASE LocateOver /\ Quits("LOCATE", "Idle") /\ UNCHANGED cap
    <3>1. Active("LOCATE") /\ "Idle" \in Rest["LOCATE"]
      BY <2>3 DEF LocateOver, Active, Busy, Rest
    <3>2. CoreType' /\ Links'
      BY <2>1, <2>3, <3>1, QuitStep
    <3>3. SideType'
      BY <2>1, <2>3 DEF SideType
    <3> QED BY <3>2, <3>3
  <2>4. CASE UNCHANGED <<eng, cap, cl, from>>
    <3>1. CoreType' /\ Links'
      BY <2>1, <2>4, StayStep DEF CoreType, SameSlot
    <3>2. SideType'
      BY <2>1, <2>4 DEF SideType
    <3> QED BY <3>1, <3>2
  <2> QED BY <1>2, <2>2, <2>3, <2>4 DEF PollLocate
<1>3. CASE PollCal
  <2>1. UNCHANGED <<eng, dev, cap, age, worker>> /\ timer' = "SWEEP"
        /\ "CAL" \in Clients /\ "SWEEP" \in Clients
    BY <1>3 DEF PollCal, Clients
  <2>2. SideType'
    BY <2>1 DEF SideType
  <2>3. CASE Goes("CAL", "Idle")
    <3>1. "Idle" \in Rest["CAL"] /\ "Idle" \notin Busy["CAL"]
      BY DEF Rest, Busy
    <3>2. CoreType' /\ Links'
      BY <2>1, <2>3, <3>1, GoStep, ClientStates
    <3> QED BY <2>2, <3>2
  <2>4. CASE UNCHANGED <<cl, from>>
    <3>1. CoreType' /\ Links'
      BY <2>1, <2>4, StayStep DEF CoreType, SameSlot
    <3> QED BY <2>2, <3>1
  <2> QED BY <1>3, <2>3, <2>4 DEF PollCal
<1> QED BY <1>1, <1>2, <1>3

\* SWEEP: the pre-roll arms the slot it installed, if the session is still the one it noted.
LEMMA SweepPoll == ASSUME ClientsIInv, PollSweep PROVE ClientsIInv'
<1> USE InvParts, NextInvParts
<1>1. UNCHANGED <<dev, cap, age>> /\ timer' = "GEN" /\ "SWEEP" \in Clients /\ "GEN" \in Clients
  BY DEF PollSweep, Clients
<1>2. worker' \in {"none", "running", "done"}
  <2>1. worker' \in {worker, "running", "none"}
    BY DEF PollSweep
  <2> QED BY <2>1 DEF SideType
<1>3. SideType'
  BY <1>1, <1>2 DEF SideType
<1>4. CASE SweepAborts /\ Quits("SWEEP", "Idle")
  <2>1. Active("SWEEP") /\ "Idle" \in Rest["SWEEP"]
    BY <1>4 DEF SweepAborts, SweepLive, Active, Busy, Rest
  <2>2. CoreType' /\ Links'
    BY <1>1, <1>4, <2>1, QuitStep
  <2> QED BY <1>3, <2>2
<1>5. CASE cl["SWEEP"] = "PreRoll" /\ ~SweepAborts /\ eng' = Armed(eng) /\ Goes("SWEEP", "Playing")
  <2>1. from["SWEEP"] = Noted
    BY <1>5 DEF SweepAborts, SweepLive
  <2>2. Active("SWEEP") /\ "Playing" \in Busy["SWEEP"] /\ "Playing" \in Plays["SWEEP"]
    BY <1>5 DEF Active, Busy, Plays
  <2>3. eng.owner = "SWEEP" /\ eng.routedBy = "SWEEP" /\ eng.slotEpoch = eng.epoch
    BY <1>1, <1>5, <2>1, <2>2 DEF Links, HolderOwns, PreRollSlot, Noted
  <2>4. eng' \in EngType /\ eng'.armed = TRUE /\ SameSlot(eng, eng')
    BY <1>5, ArmedEffect DEF CoreType
  <2>5. /\ DOMAIN cl' = Clients /\ \A d \in Clients : cl'[d] \in Busy[d] \cup Rest[d]
        /\ from' \in [Clients -> NoteType] /\ cl'["SWEEP"] = "Playing"
        /\ \A d \in Clients : d # "SWEEP" => cl'[d] = cl[d] /\ from'[d] = from[d]
        /\ from'["SWEEP"] = from["SWEEP"]
    BY <1>1, <1>5, <2>2, GoesEffect
  <2>6. CoreType'
    BY <2>4, <2>5 DEF CoreType
  <2>7. \A d \in Clients : Active(d)' => d = "SWEEP"
    BY <1>1, <2>2, <2>5 DEF Active, Links, OneHolder
  <2>8. OneHolder' /\ HolderOwns' /\ ArmedIsOwned'
    BY <1>1, <2>2, <2>3, <2>4, <2>5, <2>7 DEF OneHolder, HolderOwns, ArmedIsOwned, SameSlot
  <2>9. GenStaysInSession' /\ PreRollSlot' /\ GenInMode' /\ AlignPlays'
    BY <1>1, <2>3, <2>4, <2>5, <2>7
    DEF GenStaysInSession, PreRollSlot, GenInMode, AlignPlays, SameSlot, Clients
  <2>10. NotesArePast'
    BY <2>4, <2>5 DEF NotesArePast, Links, SameSlot
  <2> QED BY <1>3, <2>6, <2>8, <2>9, <2>10 DEF Links
<1>6. CASE cl["SWEEP"] = "Playing" /\ Quits("SWEEP", "Analysing")
  <2>1. Active("SWEEP") /\ "Analysing" \in Busy["SWEEP"]
    BY <1>6 DEF Active, Busy
  <2>2. CoreType' /\ Links'
    BY <1>1, <1>6, <2>1, QuitStep
  <2> QED BY <1>3, <2>2
<1>7. CASE cl["SWEEP"] = "Analysing" /\ Goes("SWEEP", "Idle") /\ UNCHANGED eng
  <2>1. "Idle" \in Rest["SWEEP"] /\ "Idle" \notin Busy["SWEEP"] /\ "Analysing" \notin Plays["SWEEP"]
    BY DEF Rest, Busy, Plays
  <2>2. CoreType' /\ Links'
    BY <1>1, <1>7, <2>1, GoStep
  <2> QED BY <1>3, <2>2
<1>8. CASE UNCHANGED <<eng, cl, from>>
  <2>1. CoreType' /\ Links'
    BY <1>1, <1>8, StayStep DEF CoreType, SameSlot
  <2> QED BY <1>3, <2>1
<1> QED BY <1>4, <1>5, <1>6, <1>7, <1>8 DEF PollSweep

\* The generator's setSource in a swap: its outputs stay as they are.
LEMMA ResourcedEffect ==
  ASSUME NEW e \in EngType, NEW r, r = [e EXCEPT !.owner = "GEN", !.slotEpoch = e.epoch]
  PROVE  /\ r \in EngType /\ r.owner = "GEN" /\ r.slotEpoch = e.epoch /\ r.epoch = e.epoch
         /\ r.routedBy = e.routedBy
<1>1. /\ r.owner = "GEN" /\ r.slotEpoch = e.epoch /\ r.epoch = e.epoch /\ r.routedBy = e.routedBy
      /\ r.armed = e.armed /\ r.idle = e.idle /\ r.played = e.played
  BY DEF EngType
<1>2. r = [f \in EngFields |-> r[f]]
  BY DEF EngType, EngFields
<1>3. "GEN" \in Clients
  BY DEF Clients
<1>4. r \in EngType
  BY <1>1, <1>2, <1>3, EngRecord DEF EngType
<1> QED BY <1>1, <1>4

\* GeneratorRunner::poll, called by the timer or by the strip.
LEMMA GenPolledStep ==
  ASSUME ClientsIInv, GenPolled, UNCHANGED dev
  PROVE  CoreType' /\ Links' /\ cap' \in CapType
<1> USE InvParts
<1>1. "GEN" \in Clients /\ {"Playing", "Swapping", "Stopping"} = Busy["GEN"] /\ "Idle" \in Rest["GEN"]
      /\ "Playing" \in Plays["GEN"] /\ "Stopping" \notin Plays["GEN"] /\ "Idle" \notin Busy["GEN"]
  BY DEF Clients, Busy, Rest, Plays
<1>2. cap' \in CapType
  BY CapEffect DEF GenPolled, SideType
<1>3. CASE Quits("GEN", "Idle") /\ Active("GEN")
  <2>1. CoreType' /\ Links'
    BY <1>1, <1>3, QuitStep
  <2> QED BY <1>2, <2>1
<1>4. CASE /\ cl["GEN"] = "Swapping" /\ ~GenLost
           /\ eng' = Armed([eng EXCEPT !.owner = "GEN", !.slotEpoch = eng.epoch])
           /\ Goes("GEN", "Playing")
  <2>1. Active("GEN") /\ eng.routedBy = "GEN" /\ eng.epoch = from["GEN"].epoch
    BY <1>1, <1>4 DEF Active, GenLost, Links, HolderOwns
  <2>2. /\ eng' \in EngType /\ eng'.armed = TRUE /\ eng'.owner = "GEN" /\ eng'.routedBy = "GEN"
        /\ eng'.slotEpoch = eng.epoch /\ eng'.epoch = eng.epoch
    <3> DEFINE r == [eng EXCEPT !.owner = "GEN", !.slotEpoch = eng.epoch]
    <3>1. eng \in EngType /\ eng' = Armed(r)
      BY <1>4 DEF CoreType
    <3>2. /\ r \in EngType /\ r.owner = "GEN" /\ r.slotEpoch = eng.epoch /\ r.epoch = eng.epoch
          /\ r.routedBy = eng.routedBy
      BY <3>1, ResourcedEffect
    <3> HIDE DEF r
    <3> QED BY <2>1, <3>1, <3>2, ArmedEffect DEF SameSlot
  <2>3. /\ DOMAIN cl' = Clients /\ \A d \in Clients : cl'[d] \in Busy[d] \cup Rest[d]
        /\ from' \in [Clients -> NoteType] /\ cl'["GEN"] = "Playing"
        /\ \A d \in Clients : d # "GEN" => cl'[d] = cl[d] /\ from'[d] = from[d]
        /\ from'["GEN"] = from["GEN"]
    BY <1>1, <1>4, GoesEffect
  <2>4. CoreType'
    BY <2>2, <2>3 DEF CoreType
  <2>5. \A d \in Clients : Active(d)' => d = "GEN"
    BY <1>1, <2>1, <2>3 DEF Active, Links, OneHolder
  <2>6. OneHolder' /\ HolderOwns' /\ ArmedIsOwned'
    BY <1>1, <2>2, <2>3, <2>5 DEF OneHolder, HolderOwns, ArmedIsOwned
  <2>7. from["GEN"].synthetic = dev.synthetic /\ from["GEN"] \in NoteType
    BY <1>1, <2>1 DEF Links, GenInMode, CoreType
  <2>8. GenStaysInSession' /\ GenInMode'
    BY <2>1, <2>2, <2>3, <2>7 DEF GenStaysInSession, GenInMode, Noted, NoteType
  <2>9. PreRollSlot' /\ AlignPlays'
    BY <2>5 DEF PreRollSlot, AlignPlays, Active, Busy, Clients
  <2>10. NotesArePast'
    BY <2>2, <2>3 DEF NotesArePast, Links
  <2> QED BY <1>2, <2>4, <2>6, <2>8, <2>9, <2>10 DEF Links
<1>5. CASE cl["GEN"] = "Stopping" /\ Goes("GEN", "Idle") /\ UNCHANGED <<eng, cap>>
  <2>1. CoreType' /\ Links'
    BY <1>1, <1>5, GoStep
  <2> QED BY <1>2, <2>1
<1>6. CASE UNCHANGED <<eng, cap, cl, from>>
  <2>1. CoreType' /\ Links'
    BY <1>6, StayStep DEF CoreType, SameSlot
  <2> QED BY <1>2, <2>1
<1>7. (GenLost \/ cl["GEN"] = "Swapping") => Active("GEN")
  BY <1>1 DEF GenLost, Active
<1> QED BY <1>3, <1>4, <1>5, <1>6, <1>7 DEF GenPolled

\* The two places that poll the generator.
LEMMA GenPolls == ASSUME ClientsIInv, PollGen \/ GenFastPoll PROVE ClientsIInv'
<1> USE InvParts, NextInvParts
<1>1. GenPolled /\ UNCHANGED <<dev, age, worker>> /\ timer' \in Clients \cup {"idle"}
  BY DEF PollGen, GenFastPoll, SideType, Clients
<1>2. CoreType' /\ Links' /\ cap' \in CapType
  BY <1>1, GenPolledStep
<1>3. SideType'
  BY <1>1, <1>2 DEF SideType
<1> QED BY <1>2, <1>3

\* VERIFY: it begins its dwell again, or quits.
LEMMA VerifyPoll == ASSUME ClientsIInv, PollVerify PROVE ClientsIInv'
<1> USE InvParts, NextInvParts
<1>1. UNCHANGED <<dev, cap, worker>> /\ timer' = "ALIGN" /\ "VERIFY" \in Clients /\ "ALIGN" \in Clients
  BY DEF PollVerify, Clients
<1>2. {"Waiting", "Measuring", "Settling"} = Busy["VERIFY"] /\ {"Waiting", "Measuring"} = Plays["VERIFY"]
      /\ {"Idle", "Done"} = Rest["VERIFY"]
  BY DEF Busy, Plays, Rest
<1>3. age' \in {age, 0}
  BY DEF PollVerify
<1>4. SideType'
  BY <1>1, <1>3, OutputClientsAssumption DEF SideType
<1>5. CASE Active("VERIFY") /\ \E s \in {"Settling", "Idle"} : Quits("VERIFY", s)
  <2>1. CoreType' /\ Links'
    BY <1>1, <1>2, <1>5, QuitStep
  <2> QED BY <1>4, <2>1
<1>6. CASE cl["VERIFY"] = "Waiting" /\ eng' = [eng EXCEPT !.played = 1] /\ Goes("VERIFY", "Measuring")
  <2>1. eng' \in EngType /\ eng'.armed = eng.armed /\ SameSlot(eng, eng')
    BY <1>6 DEF CoreType, EngType, SameSlot
  <2>2. Active("VERIFY")
    BY <1>2, <1>6 DEF Active
  <2>3. /\ DOMAIN cl' = Clients /\ \A d \in Clients : cl'[d] \in Busy[d] \cup Rest[d]
        /\ from' \in [Clients -> NoteType] /\ cl'["VERIFY"] = "Measuring"
        /\ \A d \in Clients : d # "VERIFY" => cl'[d] = cl[d] /\ from'[d] = from[d]
        /\ from'["VERIFY"] = from["VERIFY"]
    BY <1>1, <1>2, <1>6, GoesEffect
  <2>4. CoreType'
    BY <2>1, <2>3 DEF CoreType
  <2>5. \A d \in Clients : Active(d)' => d = "VERIFY"
    BY <1>1, <2>2, <2>3 DEF Active, Links, OneHolder
  <2>6. eng.owner = "VERIFY" /\ eng.routedBy = "VERIFY"
    BY <1>1, <2>2 DEF Links, HolderOwns
  <2>7. OneHolder' /\ HolderOwns'
    BY <2>1, <2>5, <2>6 DEF OneHolder, HolderOwns, SameSlot
  <2>8. ArmedIsOwned'
    BY <1>1, <1>2, <2>1, <2>3, <2>6 DEF ArmedIsOwned, Links, SameSlot
  <2>9. GenStaysInSession' /\ PreRollSlot' /\ GenInMode' /\ AlignPlays'
    BY <2>1, <2>5, <2>6
    DEF GenStaysInSession, PreRollSlot, GenInMode, AlignPlays, SameSlot, Active, Busy, Clients
  <2>10. NotesArePast'
    BY <2>1, <2>3 DEF NotesArePast, Links, SameSlot
  <2> QED BY <1>4, <2>4, <2>7, <2>8, <2>9, <2>10 DEF Links
<1>7. CASE cl["VERIFY"] = "Settling" /\ Goes("VERIFY", "Done") /\ UNCHANGED eng
  <2>1. CoreType' /\ Links'
    BY <1>1, <1>2, <1>7, GoStep
  <2> QED BY <1>4, <2>1
<1>8. CASE UNCHANGED <<eng, cl, from>>
  <2>1. CoreType' /\ Links'
    BY <1>1, <1>8, StayStep DEF CoreType, SameSlot
  <2> QED BY <1>4, <2>1
<1>9. (VerifyAborts \/ cl["VERIFY"] = "Measuring") => Active("VERIFY")
  BY <1>2 DEF VerifyAborts, Active
<1> QED BY <1>5, <1>6, <1>7, <1>8, <1>9 DEF PollVerify

\* ALIGN: the next output is routed and its dwell begins, or it quits.
LEMMA AlignPoll == ASSUME ClientsIInv, PollAlign PROVE ClientsIInv'
<1> USE InvParts, NextInvParts
<1>1. UNCHANGED <<dev, worker>> /\ timer' = "idle" /\ "ALIGN" \in Clients
  BY DEF PollAlign, Clients
<1>2. {"MeasuringHigh", "MeasuringLow", "MeasuringSum"} = Busy["ALIGN"] /\ Plays["ALIGN"] = Busy["ALIGN"]
      /\ {"Idle", "AskingCycle", "Computed", "Done"} = Rest["ALIGN"]
  BY DEF Busy, Plays, Rest
<1>3. age' \in {age, 0} /\ cap' \in {cap, Aged(cap)}
  BY DEF PollAlign
<1>4. SideType'
  BY <1>1, <1>3, CapEffect, OutputClientsAssumption DEF SideType
<1>5. CASE /\ Active("ALIGN")
           /\ \E s \in {"Idle", "AskingCycle", "Computed", "Done"} : Quits("ALIGN", s)
  <2>1. CoreType' /\ Links'
    BY <1>1, <1>2, <1>5, QuitStep
  <2> QED BY <1>4, <2>1
<1>6. CASE /\ Active("ALIGN") /\ Goes("ALIGN", "MeasuringLow")
           /\ eng' = [eng EXCEPT !.routedBy = "ALIGN", !.played = 0]
  <2>1. eng.owner = "ALIGN" /\ eng.routedBy = "ALIGN"
    BY <1>1, <1>6 DEF Links, HolderOwns
  <2>2. /\ eng'.armed = eng.armed /\ eng'.played = 0 /\ eng'.idle = eng.idle
        /\ eng'.routedBy = "ALIGN" /\ eng'.owner = eng.owner
    BY <1>6 DEF CoreType, EngType
  <2>3. eng'.slotEpoch = eng.slotEpoch /\ eng'.epoch = eng.epoch
    BY <1>6 DEF CoreType, EngType
  <2>4. eng' = [f \in EngFields |-> eng'[f]]
    BY <1>6 DEF CoreType, EngType, EngFields
  <2>5. eng' \in EngType
    <3>1. eng.armed \in BOOLEAN /\ eng.idle \in BOOLEAN /\ eng.epoch \in 0..MaxEpochs
          /\ eng.slotEpoch \in 0..MaxEpochs /\ 0 \in 0..2
      BY DEF CoreType, EngType
    <3> QED BY <1>1, <2>1, <2>2, <2>3, <2>4, <3>1, EngRecord
  <2>6. SameSlot(eng, eng')
    BY <2>1, <2>2, <2>3 DEF SameSlot
  <2>7. /\ DOMAIN cl' = Clients /\ \A d \in Clients : cl'[d] \in Busy[d] \cup Rest[d]
        /\ from' \in [Clients -> NoteType] /\ cl'["ALIGN"] = "MeasuringLow"
        /\ \A d \in Clients : d # "ALIGN" => cl'[d] = cl[d] /\ from'[d] = from[d]
        /\ from'["ALIGN"] = from["ALIGN"]
    BY <1>1, <1>2, <1>6, GoesEffect
  <2>8. CoreType'
    BY <2>5, <2>7 DEF CoreType
  <2>9. \A d \in Clients : Active(d)' => d = "ALIGN"
    BY <1>1, <1>6, <2>7 DEF Active, Links, OneHolder
  <2>10. OneHolder' /\ HolderOwns'
    BY <2>1, <2>6, <2>9 DEF OneHolder, HolderOwns, SameSlot
  <2>11. ArmedIsOwned'
    BY <1>1, <1>2, <2>1, <2>2, <2>3, <2>7 DEF ArmedIsOwned, Links
  <2>12. GenStaysInSession' /\ PreRollSlot' /\ GenInMode'
    BY <2>1, <2>2, <2>9 DEF GenStaysInSession, PreRollSlot, GenInMode, Active, Busy, Clients
  <2>13. AlignPlays'
    BY <1>6, <2>2, <2>3, <2>7 DEF AlignPlays, Links
  <2>14. NotesArePast'
    BY <2>3, <2>7 DEF NotesArePast, Links
  <2> QED BY <1>4, <2>8, <2>10, <2>11, <2>12, <2>13, <2>14 DEF Links
<1>7. CASE UNCHANGED <<eng, cap, cl, from>>
  <2>1. CoreType' /\ Links'
    BY <1>1, <1>7, StayStep DEF CoreType, SameSlot
  <2> QED BY <1>4, <2>1
<1>8. cl["ALIGN"] \in {"MeasuringHigh", "MeasuringLow", "MeasuringSum"} => Active("ALIGN")
  BY <1>2 DEF Active
<1> QED BY <1>5, <1>6, <1>7, <1>8 DEF PollAlign

\* The device: prepare() ends the session, everything else leaves the clients alone.
LEMMA DeviceStep == ASSUME ClientsIInv, Device PROVE ClientsIInv'
<1> USE InvParts, NextInvParts
<1>1. UNCHANGED <<cl, from, age, worker, timer>>
  BY DEF Device, DeviceStart, DeviceEnds, DeviceFallsSilent, DeviceReopens
<1>2. ASSUME NEW a \in BOOLEAN, NEW b \in BOOLEAN,
             dev' = [dev EXCEPT !.running = a, !.rendering = b]
      PROVE  dev' \in DevType /\ dev'.synthetic = dev.synthetic
  <2>1. dev' = [f \in DevFields |-> dev'[f]]
    BY <1>2 DEF SideType, DevType, DevFields
  <2>2. dev'.running = a /\ dev'.rendering = b /\ dev'.synthetic = dev.synthetic
    BY <1>2 DEF SideType, DevType
  <2> QED BY <2>1, <2>2 DEF SideType, DevType, DevFields
<1>3. ASSUME NEW b \in BOOLEAN, dev' = [dev EXCEPT !.rendering = b]
      PROVE  dev' \in DevType /\ dev'.synthetic = dev.synthetic
  BY <1>3 DEF SideType, DevType
<1>4. dev' \in DevType /\ dev'.synthetic = dev.synthetic
  BY <1>2, <1>3 DEF Device, DeviceStart, DeviceEnds, DeviceFallsSilent, DeviceReopens
<1>5. CASE DeviceStart \/ DeviceReopens
  <2>1. eng' = Prepared(eng) /\ eng.epoch < MaxEpochs /\ cap' = BusPrepared(cap)
    BY <1>5 DEF DeviceStart, DeviceReopens
  <2>2. CoreType' /\ Links'
    BY <1>1, <1>4, <2>1, PrepareStep
  <2>3. SideType'
    BY <1>1, <1>4, <2>1, CapEffect DEF SideType
  <2> QED BY <2>2, <2>3
<1>6. CASE DeviceEnds \/ DeviceFallsSilent
  <2>1. UNCHANGED <<eng, cap>>
    BY <1>6 DEF DeviceEnds, DeviceFallsSilent
  <2>2. CoreType' /\ Links'
    BY <1>1, <1>4, <2>1, StayStep DEF CoreType, SameSlot
  <2>3. SideType'
    BY <1>1, <1>4, <2>1 DEF SideType
  <2> QED BY <2>2, <2>3
<1> QED BY <1>5, <1>6 DEF Device

\* A block of the source: a full dwell comes with a snapshot of it, or with none.
LEMMA RenderStep == ASSUME ClientsIInv, RenderPlaying PROVE ClientsIInv'
<1> USE InvParts, NextInvParts
<1>1. UNCHANGED <<dev, cl, from, age, worker, timer>>
      /\ eng' = [eng EXCEPT !.idle = FALSE, !.played = IF @ < 2 THEN @ + 1 ELSE @]
  BY DEF RenderPlaying
<1>2. eng'.armed = eng.armed /\ eng'.idle = FALSE /\ eng'.epoch = eng.epoch /\ eng'.owner = eng.owner
  BY <1>1 DEF CoreType, EngType
<1>3. eng'.slotEpoch = eng.slotEpoch /\ eng'.routedBy = eng.routedBy
  BY <1>1 DEF CoreType, EngType
<1>4. eng'.played = IF eng.played < 2 THEN eng.played + 1 ELSE eng.played
  BY <1>1 DEF CoreType, EngType
<1>5. eng' = [f \in EngFields |-> eng'[f]]
  BY <1>1 DEF CoreType, EngType, EngFields
<1>6. eng.armed \in BOOLEAN /\ eng.epoch \in 0..MaxEpochs /\ eng.owner \in Clients \cup {"none"}
      /\ eng.slotEpoch \in 0..MaxEpochs /\ eng.routedBy \in Clients \cup {"none"}
      /\ eng.played \in 0..2
  BY DEF CoreType, EngType
<1>7. eng'.played \in 0..2
  BY <1>4, <1>6
<1>8. eng' \in EngType
  BY <1>2, <1>3, <1>5, <1>6, <1>7, EngRecord
<1>9. ASSUME cap' = [cap EXCEPT !.snap = "current", !.rebuilding = FALSE]
      PROVE  cap' \in CapType /\ cap'.snap = "current"
  <2>1. cap'.snap = "current" /\ cap'.rebuilding = FALSE /\ cap'.accum = cap.accum
        /\ cap'.lost = cap.lost /\ cap'.pending = cap.pending
    BY <1>9 DEF SideType, CapType
  <2>2. cap' = [f \in CapFields |-> cap'[f]]
    BY <1>9 DEF SideType, CapType, CapFields
  <2> QED BY <2>1, <2>2, CapRecord DEF SideType, CapType
<1>10. cap' \in CapType /\ (eng'.played = 2 => cap'.snap # "other")
  <2>1. CASE cap' = [cap EXCEPT !.snap = "current", !.rebuilding = FALSE]
    BY <1>9, <2>1
  <2>2. CASE (eng'.played < 2 \/ ~HasCoherence) /\ UNCHANGED cap
    BY <2>2, <1>7 DEF SideType, HasCoherence
  <2> QED BY <2>1, <2>2 DEF RenderPlaying
<1>11. CoreType' /\ Links'
  BY <1>1, <1>2, <1>3, <1>8, <1>10, StayStep DEF SameSlot
<1>12. SideType'
  BY <1>1, <1>10 DEF SideType
<1> QED BY <1>11, <1>12

\* The other threads: a snapshot, a capture, a resync, a lost block, the worker's answer.
LEMMA ThreadsStep ==
  ASSUME ClientsIInv,
         \/ RenderSilence \/ AnalysisPublish \/ CapturePublish
         \/ InputDisturbed \/ ResyncServed \/ WorkerDone
  PROVE  ClientsIInv'
<1> USE InvParts, NextInvParts
<1>1. UNCHANGED <<dev, cl, from, age, timer>> /\ worker' \in {worker, "done"}
  BY DEF RenderSilence, AnalysisPublish, CapturePublish, InputDisturbed, ResyncServed, WorkerDone
<1>2. CASE RenderSilence
  <2>1. eng' \in EngType /\ eng'.armed = eng.armed /\ SameSlot(eng, eng') /\ eng'.played = eng.played
        /\ UNCHANGED cap
    BY <1>2 DEF RenderSilence, CoreType, EngType, SameSlot
  <2>2. CoreType' /\ Links'
    BY <1>1, <2>1, StayStep
  <2>3. SideType'
    BY <1>1, <2>1 DEF SideType
  <2> QED BY <2>2, <2>3
<1>3. CASE AnalysisPublish
  <2>1. UNCHANGED eng
        /\ \E s \in Filling \cup Filled : cap' = [cap EXCEPT !.snap = s, !.rebuilding = FALSE]
    BY <1>3 DEF AnalysisPublish
  <2>2. PICK s \in Filling \cup Filled : cap' = [cap EXCEPT !.snap = s, !.rebuilding = FALSE]
    BY <2>1
  <2>3. Filling \subseteq {"none", "blank"}
    BY DEF Filling
  <2>4. Filled \subseteq {"other", "current"} /\ (Playing /\ eng.played = 2 => "other" \notin Filled)
    BY DEF Filled
  <2>5. s \in {"none", "blank", "other", "current"} /\ (Playing /\ eng.played = 2 => s # "other")
    BY <2>3, <2>4
  <2>6. cap'.snap = s /\ cap'.rebuilding = FALSE /\ cap'.accum = cap.accum
        /\ cap'.lost = cap.lost /\ cap'.pending = cap.pending
    BY <2>2 DEF SideType, CapType
  <2>7. cap' = [f \in CapFields |-> cap'[f]]
    BY <2>2 DEF SideType, CapType, CapFields
  <2>8. cap' \in CapType
    BY <2>5, <2>6, <2>7, CapRecord DEF SideType, CapType
  <2>9. CoreType' /\ Links'
    BY <1>1, <2>1, <2>5, <2>6, StayStep DEF CoreType, SameSlot
  <2>10. SideType'
    BY <1>1, <2>8 DEF SideType
  <2> QED BY <2>9, <2>10
<1>4. CASE CapturePublish \/ WorkerDone
  <2>1. UNCHANGED eng /\ cap' \in CapType /\ cap'.snap = cap.snap
    BY <1>4 DEF CapturePublish, WorkerDone, SideType, CapType
  <2>2. CoreType' /\ Links'
    BY <1>1, <2>1, StayStep DEF CoreType, SameSlot
  <2>3. SideType'
    BY <1>1, <2>1 DEF SideType
  <2> QED BY <2>2, <2>3
<1>5. CASE InputDisturbed \/ ResyncServed
  <2>1. UNCHANGED eng /\ \E p \in BOOLEAN : cap' = [cap EXCEPT !.lost = TRUE, !.pending = p]
    <3>1. CASE ResyncServed BY <3>1 DEF ResyncServed
    <3>2. CASE InputDisturbed
      <4>1. PICK up \in BOOLEAN : cap' = [cap EXCEPT !.lost = TRUE, !.pending = @ \/ up]
        BY <3>2 DEF InputDisturbed
      <4>2. cap' = [cap EXCEPT !.lost = TRUE, !.pending = cap.pending \/ up]
        BY <4>1, Zenon DEF SideType, CapType
      <4>3. (cap.pending \/ up) \in BOOLEAN
        OBVIOUS
      <4> QED BY <3>2, <4>2, <4>3 DEF InputDisturbed
    <3> QED BY <1>5, <3>1, <3>2
  <2>2. PICK p \in BOOLEAN : cap' = [cap EXCEPT !.lost = TRUE, !.pending = p]
    BY <2>1
  <2>3. cap'.lost = TRUE /\ cap'.pending = p /\ cap'.snap = cap.snap /\ cap'.accum = cap.accum
        /\ cap'.rebuilding = cap.rebuilding
    BY <2>2 DEF SideType, CapType
  <2>4. cap' = [f \in CapFields |-> cap'[f]]
    BY <2>2 DEF SideType, CapType, CapFields
  <2>5. cap' \in CapType
    BY <2>3, <2>4, CapRecord DEF SideType, CapType
  <2>6. CoreType' /\ Links'
    BY <1>1, <2>1, <2>3, StayStep DEF CoreType, SameSlot
  <2>7. SideType'
    BY <1>1, <2>5 DEF SideType
  <2> QED BY <2>6, <2>7
<1> QED BY <1>2, <1>3, <1>4, <1>5

-------------------------------------------------------------------------------
\* The invariant holds of every reachable state.
THEOREM ClientsInvariant == Spec => []ClientsIInv
<1>1. Init => ClientsIInv
  <2> SUFFICES ASSUME Init PROVE ClientsIInv
    OBVIOUS
  <2>1. eng \in EngType /\ SideType
    BY OutputClientsAssumption DEF Init, EngType, SideType, CapType, DevType
  <2>2. \A c \in Clients : cl[c] = "Idle" /\ "Idle" \in Rest[c] /\ "Idle" \notin Busy[c]
    BY DEF Init, Clients, Rest, Busy
  <2>3. NotNoted \in NoteType /\ NotNoted.epoch = 0
    BY OutputClientsAssumption DEF NotNoted, NoteType
  <2>4. CoreType
    BY <2>1, <2>2, <2>3 DEF Init, CoreType
  <2>5. \A c \in Clients : ~Active(c)
    BY <2>2 DEF Active
  <2>6. ~eng.armed /\ eng.epoch = 0
    BY DEF Init
  <2>7. OneHolder /\ ArmedIsOwned /\ GenStaysInSession /\ HolderOwns /\ GenInMode /\ AlignPlays
    BY <2>5, <2>6
    DEF OneHolder, ArmedIsOwned, GenStaysInSession, HolderOwns, GenInMode, AlignPlays, Clients
  <2>8. NotesArePast /\ PreRollSlot
    BY <2>2, <2>3, <2>6 DEF Init, NotesArePast, PreRollSlot, Clients
  <2> QED BY <2>1, <2>4, <2>7, <2>8, InvParts DEF Links
<1>2. ClientsIInv /\ [Next]_vars => ClientsIInv'
  <2> SUFFICES ASSUME ClientsIInv, [Next]_vars PROVE ClientsIInv'
    OBVIOUS
  <2>1. CASE UNCHANGED vars
    <3>1. CoreType' /\ Links'
      BY <2>1, InvParts, StayStep DEF vars, CoreType, SameSlot
    <3>2. SideType'
      BY <2>1, InvParts DEF vars, SideType
    <3> QED BY <3>1, <3>2, NextInvParts
  <2>2. CASE Press
    BY <2>2, StartPresses, CalPress, SweepPress, OwnPresses, ModeStep DEF Press
  <2>3. CASE Timer \/ GenFastPoll
    BY <2>3, FirstPolls, SweepPoll, GenPolls, VerifyPoll, AlignPoll DEF Timer
  <2>4. CASE Device
    BY <2>4, DeviceStep
  <2>5. CASE Others
    BY <2>5, RenderStep, ThreadsStep DEF Others
  <2> QED BY <2>1, <2>2, <2>3, <2>4, <2>5 DEF Next
<1> QED BY <1>1, <1>2, PTL DEF Spec

\* MainComponent.h, outputBusy: at most one of the six clients is active, whatever
\* presses, polls, device events and blocks come in between.
THEOREM OutputHasOneClient == Spec => []ClientsInv
<1>1. ClientsIInv => ClientsInv
  BY DEF ClientsIInv, ClientsInv
<1> QED BY <1>1, ClientsInvariant, PTL

\* A source that is armed was installed, routed and armed by a client that is still in a
\* state that will disarm it, in the device session that is running.
THEOREM NothingPlaysUnowned == Spec => []ArmedIsOwned
<1>1. ClientsIInv => ArmedIsOwned
  BY DEF ClientsIInv
<1> QED BY <1>1, ClientsInvariant, PTL

\* GeneratorRunner.cpp: the generator never plays in a session or an input mode other than
\* the one its start noted.
THEOREM GeneratorStaysInSession == Spec => []GenStaysInSession
<1>1. ClientsIInv => GenStaysInSession
  BY DEF ClientsIInv
<1> QED BY <1>1, ClientsInvariant, PTL

\* AlignRunner.cpp: a step of ALIGN ends with a snapshot of the output it excited.
THEOREM AlignHearsItself == Spec => AlignHearsItsStep
<1> DEFINE Heard == Active("ALIGN") /\ cl'["ALIGN"] \notin {cl["ALIGN"], "Idle"} => cap.snap = "current"
<1>1. ClientsIInv /\ [Next]_vars => [Heard]_vars
  <2> SUFFICES ASSUME ClientsIInv, Next, Active("ALIGN"), cl'["ALIGN"] \notin {cl["ALIGN"], "Idle"}
               PROVE  cap.snap = "current"
    BY DEF vars
  <2> USE InvParts
  <2>1. \A c \in Clients : c # "ALIGN" => ~Active(c)
    BY DEF Links, OneHolder, Clients
  <2>2. ASSUME PollAlign PROVE cap.snap = "current"
    <3>1. ~AlignMoved /\ SnapshotUsable
      BY <2>2 DEF PollAlign, Quits, Goes, CoreType, Clients
    <3>2. from["ALIGN"].epoch = eng.epoch /\ eng.played = 2 /\ HasCoherence
      BY <3>1 DEF AlignMoved, SnapshotUsable, Noted
    <3> QED BY <3>2 DEF Links, AlignPlays, HasCoherence
  <2>3. ASSUME NEW c \in Clients \ {"ALIGN"}, NEW s, Goes(c, s) \/ Starts(c, s)
        PROVE  cl'["ALIGN"] = cl["ALIGN"]
    BY <2>3 DEF Goes, Starts, CoreType, Clients
  <2>4. CASE Press
    <3>1. outputBusy /\ captureBusy
      BY DEF outputBusy, captureBusy
    <3>2. cl["ALIGN"] \in {"MeasuringHigh", "MeasuringLow", "MeasuringSum"}
      BY DEF Active, Busy
    <3>3. ~(LocateClicked \/ CalClicked \/ SweepStartOn \/ GenStart \/ VerifyPress \/ AlignPress
            \/ AlignAnswerCycle \/ AlignPressSum)
      BY <3>1, <3>2 DEF LocateClicked, CalClicked, SweepStartOn, GenStart, heldByOther, VerifyPress,
         AlignPress, AlignAnswerCycle, AlignPressSum
    <3>4. ~(GenStop \/ GenApply)
      BY <2>1 DEF GenStop, GenApply, Active, Busy, Clients
    <3>5. VerifyAdopt => cl'["ALIGN"] = cl["ALIGN"]
      BY <2>3 DEF VerifyAdopt, Clients
    <3>6. SetSyntheticMode => cl'["ALIGN"] = cl["ALIGN"]
      BY DEF SetSyntheticMode, Clients
    <3> QED BY <2>4, <3>3, <3>4, <3>5, <3>6 DEF Press
  <2>5. CASE Timer \/ GenFastPoll
    <3>1. TimerStart \/ PollLocate \/ PollCal \/ PollSweep => cl'["ALIGN"] = cl["ALIGN"]
      BY <2>3 DEF TimerStart, PollLocate, PollCal, PollSweep, Quits, Clients
    <3>2. PollGen \/ GenFastPoll => cl'["ALIGN"] = cl["ALIGN"]
      BY <2>3 DEF PollGen, GenFastPoll, GenPolled, Quits, Clients
    <3>3. PollVerify => cl'["ALIGN"] = cl["ALIGN"]
      BY <2>3 DEF PollVerify, Quits, Clients
    <3> QED BY <2>2, <2>5, <3>1, <3>2, <3>3 DEF Timer
  <2>6. Device \/ Others => cl' = cl
    BY DEF Device, DeviceStart, DeviceEnds, DeviceFallsSilent, DeviceReopens, Others, RenderPlaying,
       RenderSilence, AnalysisPublish, CapturePublish, InputDisturbed, ResyncServed, WorkerDone
  <2> QED BY <2>4, <2>5, <2>6 DEF Next
<1> QED BY <1>1, ClientsInvariant, PTL DEF Spec, AlignHearsItsStep
===============================================================================
