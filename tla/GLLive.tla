------------------------------- MODULE GLLive -------------------------------
(***************************************************************************)
(* The live view of go-librespot that the room bridge acts on              *)
(* (podconnect/manager/events.go, with the credit of connect_recovery.go   *)
(* and the manual-volume fields of native_manual.go that live in the same  *)
(* struct and under the same mutex).                                       *)
(*                                                                         *)
(* Three goroutines share one glLive: runGLEvents (the reader: websocket   *)
(* events, seeds and fallback polls), the reseeder it starts for every     *)
(* websocket phase, and the bridge, which takes a snapshot, works without  *)
(* the lock and then asks for admission.  Every critical section of the    *)
(* mutex is one action.  The engine is external: it changes, emits events  *)
(* on the current connection and answers /status with what it is at the    *)
(* moment it answers.                                                      *)
(*                                                                         *)
(* Abstractions.  A volume is named by the engine change that produced it  *)
(* (0 = unknown).  The pair incarnation/registry of an alias binding is    *)
(* one number, because the registry is only read by an engine when it      *)
(* starts.  The 5 s window of a credit is an action that may expire it.    *)
(* An event whose fields do not decode or match is one value (ok = FALSE). *)
(* Track metadata (trackURI, trackChangeSeq) is left out: nothing reads it.*)
(***************************************************************************)
EXTENDS Naturals, Sequences, FiniteSets

CONSTANTS
    Alias,        \* alias ids of the rooms (1-based; 0 is "none selected")
    Kinds,        \* the event kinds the engine produces in this instance
    None,         \* the nil pointer
    Started,      \* whether the engine may be playing in a room when the manager starts
    MaxChanges,   \* bound: engine changes, restarts aside
    Faults,       \* the faults tried: failed dials, broken sockets, failed polls, restarts
    MaxFaults,    \* bound: faults
    MaxRoutes,    \* bound: admitted route commands
    SeenCapacity, \* incarnations connectRecoverySeen may remember (32 in the code)
    Shapes,       \* whether event fields decode: a subset of BOOLEAN
    Quiet,        \* {FALSE} if the engine may change without writing an event, else {}
    Actors        \* who takes part: bridge ticks, catalog requests, the reseeder, stop

TransportKinds == {"playing", "paused", "stopped", "not_playing", "active", "inactive"}
AllKinds == TransportKinds \cup {"volume", "selected_alias", "connect_transfer", "volume_action"}

ASSUME ConstantsAssumption ==
    /\ Alias \subseteq Nat \ {0}
    /\ Alias # {}
    /\ Kinds \subseteq AllKinds
    /\ Started \subseteq BOOLEAN
    /\ MaxChanges \in Nat /\ MaxFaults \in Nat /\ MaxRoutes \in Nat
    /\ SeenCapacity \in Nat \ {0}
    /\ Shapes \subseteq BOOLEAN /\ Quiet \subseteq {FALSE}
    /\ Faults \subseteq {"dial", "socket", "poll", "restart"}
    /\ Actors \subseteq {"tick", "catalog", "reseed", "stop"}

VARIABLES
    eng,          \* the engine (external)
    wire,         \* events written to the current websocket, oldest first
    faults,       \* faults injected so far
    \* ---- glLive ----
    st,           \* glStatus
    aliasRevision, transportRevision, routeDispatchSeq,
    stopped,      \* the runtime's stop channel is closed
    sourceRetired, runEpoch, phaseEpoch,
    nextRequest, acceptedRequest,
    wireRevision, \* one counter per group: transport, volume, selected alias
    connectRecovery, connectRecoveryFence, connectRecoverySeen,
    expired,      \* credits of events up to this one are past their five-second window
    manualOrdinal, manualAction, manualObservation,
    \* ---- goroutines ----
    reader,       \* runGLEvents: its program counter and its current source
    requests,     \* /status requests begun and not yet folded in
    asked,        \* bookkeeping of RefreshDue: what there was to see at the last request
    snap,         \* what the bridge holds from its last transportSnapshot
    catalog,      \* a catalog request (nativeCatalogRequest) being answered
    \* ---- history ----
    pub, wireSeen \* versions published; versions applied from the wire

engineVars == <<eng, wire, faults>>
recoveryVars == <<connectRecovery, connectRecoveryFence, connectRecoverySeen, expired>>
manualVars == <<manualOrdinal, manualAction, manualObservation>>
fenceVars == <<aliasRevision, sourceRetired, runEpoch, phaseEpoch, acceptedRequest>>
historyVars == <<pub, wireSeen>>
liveVars == <<st, fenceVars, transportRevision, routeDispatchSeq, stopped, nextRequest,
              wireRevision, recoveryVars, manualVars>>
vars == <<engineVars, liveVars, reader, requests, asked, snap, catalog, historyVars>>

-----------------------------------------------------------------------------
(* Values *)

Group == {"transport", "volume", "alias"}
Zero == [g \in Group |-> 0]

\* aliasBinding: engine identity, room and Ready.
Binding(inc, room) == [inc |-> inc, room |-> room, ready |-> TRUE]
\* Mutant: the empty binding without its Ready flag.
EmptyBindingBare == [inc |-> 0, room |-> 0]

EmptyBinding == [inc |-> 0, room |-> 0, ready |-> FALSE]
NotReady(b) == [b EXCEPT !.ready = FALSE]
Valid(b) == b # None /\ b.ready

\* glStatus{}: what librespotStatus returns when the request or its decoding fails.
ZeroStatus == [active |-> FALSE, paused |-> FALSE, stopped |-> FALSE,
               vol |-> 0, sel |-> 0, bound |-> None]

\* What the engine reports now; an old engine has no binding.
EngineBinding == IF eng.bound /\ eng.st.sel # 0 THEN Binding(eng.inc, eng.st.sel) ELSE None
EngineStatus == [eng.st EXCEPT !.bound = EngineBinding]

\* An event as the engine writes it: kind, payload, provenance ordinals, and (ghost) versions.
Event(kind) ==
    [kind |-> kind, ok |-> TRUE, ver |-> eng.ver, n |-> eng.n, sel |-> eng.st.sel,
     bound |-> EngineBinding, vol |-> eng.st.vol, ord |-> 0, load |-> 0, res |-> 0,
     initPaused |-> FALSE]

\* applyGLEvent: the event kind folded into a status (ok: the numeric field decodes).
ApplyGLEvent(s, e) ==
    CASE e.kind = "playing"     -> [s EXCEPT !.active = TRUE, !.paused = FALSE, !.stopped = FALSE]
      [] e.kind = "paused"      -> [s EXCEPT !.paused = TRUE]
      [] e.kind = "stopped"     -> [s EXCEPT !.stopped = TRUE]
      [] e.kind = "not_playing" -> [s EXCEPT !.paused = FALSE]
      [] e.kind = "active"      -> [s EXCEPT !.active = TRUE]
      [] e.kind = "inactive"    -> [s EXCEPT !.active = FALSE]
      [] e.kind = "volume" /\ e.ok         -> [s EXCEPT !.vol = e.vol]
      [] e.kind = "selected_alias" /\ e.ok -> [s EXCEPT !.sel = e.sel]
      [] OTHER                  -> s

SameTransport(s, t) == s.active = t.active /\ s.paused = t.paused /\ s.stopped = t.stopped

\* Mutant: an intent that forgets the transport revision.
IntentUnfenced(run, phase, aliasRev) ==
    [run |-> run, phase |-> phase, aliasRevision |-> aliasRev, transportRevision |-> 0, alias |-> st.sel]

\* glTransportIntent of the present moment, after observeStopLocked.
IntentOf(run, phase, aliasRev) ==
    [run |-> run, phase |-> phase, aliasRevision |-> aliasRev,
     transportRevision |-> transportRevision, alias |-> st.sel]

-----------------------------------------------------------------------------
(* The source: stop observation, runs and phases *)

\* observeStopLocked: the first lock holder that sees the closed channel retires the source.
StopSeen == stopped /\ ~sourceRetired
Retired == sourceRetired \/ stopped
RunNow == IF StopSeen THEN runEpoch + 1 ELSE runEpoch
PhaseNow == IF StopSeen THEN phaseEpoch + 1 ELSE phaseEpoch
AliasRevisionNow == IF StopSeen THEN aliasRevision + 1 ELSE aliasRevision
ObserveStop ==
    /\ sourceRetired' = Retired
    /\ runEpoch' = RunNow
    /\ phaseEpoch' = PhaseNow
    /\ aliasRevision' = AliasRevisionNow
    /\ acceptedRequest' = IF StopSeen THEN 0 ELSE acceptedRequest

Intent == IntentOf(RunNow, PhaseNow, AliasRevisionNow)

SourceCurrent(src) == src.run = runEpoch /\ src.phase = phaseEpoch /\ ~stopped

\* Mutant: the source is never marked retired.
NewSourceUnretired(retired, run) ==
    /\ phaseEpoch' = phaseEpoch + 1
    /\ aliasRevision' = aliasRevision + 1
    /\ acceptedRequest' = 0
    /\ sourceRetired' = FALSE
    /\ runEpoch' = run

\* The common part of beginRun, beginPhase, retirePhase and retireRun.
NewSource(retired, run) ==
    /\ phaseEpoch' = phaseEpoch + 1
    /\ aliasRevision' = aliasRevision + 1
    /\ acceptedRequest' = 0
    /\ sourceRetired' = retired
    /\ runEpoch' = run

RetirePhase(src) ==
    IF src.run = runEpoch /\ src.phase = phaseEpoch
    THEN NewSource(TRUE, runEpoch)
    ELSE UNCHANGED fenceVars

Init ==
    /\ \E b \in BOOLEAN, started \in Started, a \in Alias :
         eng = [inc |-> 1, bound |-> b, conn |-> FALSE, ver |-> Zero,
                st |-> [ZeroStatus EXCEPT !.active = started, !.sel = IF started THEN a ELSE 0],
                n |-> 0, ord |-> 0, load |-> 0, res |-> 0]
    /\ wire = <<>> /\ faults = 0
    /\ st = ZeroStatus
    /\ aliasRevision = 0 /\ transportRevision = 0 /\ routeDispatchSeq = 0
    /\ stopped = FALSE /\ sourceRetired = FALSE /\ runEpoch = 0 /\ phaseEpoch = 0
    /\ nextRequest = 0 /\ acceptedRequest = 0 /\ wireRevision = Zero
    /\ connectRecovery = None /\ connectRecoveryFence = None
    /\ connectRecoverySeen = [i \in 1..(MaxFaults + 1) |-> 0] /\ expired = 0
    /\ manualOrdinal = [inc |-> 0, ord |-> 0] /\ manualAction = None /\ manualObservation = None
    /\ reader = [pc |-> "new", run |-> 0, phase |-> 0]
    /\ requests = {} /\ asked = 0 /\ snap = None /\ catalog = None
    /\ pub = Zero /\ wireSeen = Zero

-----------------------------------------------------------------------------
(* The engine and the network (external) *)

GroupOf(kind) == IF kind \in TransportKinds \cup {"connect_transfer"} THEN {"transport"}
                 ELSE IF kind = "volume" THEN {"volume"}
                 ELSE IF kind = "selected_alias" THEN {"alias"} ELSE {}

\* The engine changes, and writes the event e to the socket or (loud = FALSE) writes none.
EngineMoves(next, e, loud) ==
    LET n == eng.n + 1
        ver == [g \in Group |-> IF g \in GroupOf(e.kind) THEN n ELSE eng.ver[g]]
    IN  /\ eng.n - (eng.inc - 1) < MaxChanges
        /\ e.kind \in Kinds
        /\ eng' = [next EXCEPT !.n = n, !.ver = ver]
        /\ wire' = IF loud THEN Append(wire, [e EXCEPT !.ver = ver, !.n = n]) ELSE wire
        /\ UNCHANGED <<faults, liveVars, reader, requests, asked, snap, catalog, historyVars>>

\* A transport change; playing and paused may carry the ordinal of the load or Resume they
\* belong to.
EngineTransport(loud) ==
    \E k \in TransportKinds \cap Kinds, load \in {0, eng.load}, res \in {0, eng.res} :
        LET e == [Event(k) EXCEPT !.load = IF k \in {"playing", "paused"} THEN load ELSE 0,
                                  !.res = IF k \in {"playing", "paused"} THEN res ELSE 0]
        IN  EngineMoves([eng EXCEPT !.st = ApplyGLEvent(eng.st, e)], e, loud)

EngineVolume(loud) ==
    \E ok \in Shapes :
        LET e == [Event("volume") EXCEPT !.vol = eng.n + 1, !.ok = ok]
        IN  EngineMoves([eng EXCEPT !.st.vol = eng.n + 1], e, loud)

\* The user picks a room in Spotify.
EngineSelectAlias(loud) ==
    \E a \in Alias, ok \in Shapes :
        LET e == [Event("selected_alias") EXCEPT
                     !.sel = a, !.ok = ok,
                     !.bound = IF eng.bound THEN Binding(eng.inc, a) ELSE None]
        IN  EngineMoves([eng EXCEPT !.st.sel = a], e, loud)

\* A Connect transfer to the selected alias: bare, with the load it starts, or a Resume.
EngineTransfer ==
    \E how \in {"bare", "load", "resume"}, p \in BOOLEAN :
        LET ord == eng.ord + 1
            load == IF how = "load" THEN eng.load + 1 ELSE eng.load
            res == IF how = "resume" THEN ord ELSE 0
        IN  /\ EngineBinding # None /\ eng.conn
            /\ how # "load" => ~p
            /\ how = "resume" => eng.load # 0
            /\ EngineMoves([eng EXCEPT !.ord = ord, !.load = load,
                                       !.res = IF res = 0 THEN @ ELSE res,
                                       !.st.paused = IF how = "bare" THEN @ ELSE p],
                           [Event("connect_transfer") EXCEPT
                               !.ord = ord, !.load = IF how = "bare" THEN 0 ELSE load,
                               !.res = res, !.initPaused = p], TRUE)

\* The user turns the volume in Spotify; ok = FALSE stands for automation's echo and bad fields.
EngineVolumeAction ==
    \E ok \in Shapes :
        /\ EngineBinding # None /\ eng.conn
        /\ EngineMoves([eng EXCEPT !.ord = @ + 1],
                       [Event("volume_action") EXCEPT !.ord = eng.ord + 1, !.ok = ok], TRUE)

\* go-librespot is restarted: a new incarnation that may or may not know alias bindings.  The
\* old socket still holds what was written to it and then reports end of file.
EngineRestart(bound) ==
    /\ "restart" \in Faults /\ faults < MaxFaults
    /\ faults' = faults + 1
    /\ eng' = [eng EXCEPT !.inc = @ + 1, !.bound = bound, !.conn = FALSE, !.n = @ + 1,
                          !.st = ZeroStatus, !.ver = [g \in Group |-> eng.n + 1],
                          !.ord = 0, !.load = 0, !.res = 0]
    /\ UNCHANGED <<wire, liveVars, reader, requests, asked, snap, catalog, historyVars>>

Engine ==
    \/ \E loud \in {eng.conn} \cup Quiet :
          EngineTransport(loud) \/ EngineVolume(loud) \/ EngineSelectAlias(loud)
    \/ EngineTransfer \/ EngineVolumeAction
    \/ \E b \in BOOLEAN : EngineRestart(b)

\* The runtime's stop channel is closed.
Stop ==
    /\ "stop" \in Actors /\ ~stopped
    /\ stopped' = TRUE
    /\ UNCHANGED <<engineVars, st, fenceVars, transportRevision, routeDispatchSeq, nextRequest,
                   wireRevision, recoveryVars, manualVars, reader, requests, asked, snap, catalog,
                   historyVars>>

-----------------------------------------------------------------------------
(* Events applied under the lock (applySourceEvent, applyEventLocked) *)

Key(c) == IF c = None THEN None ELSE <<c.bound.inc, c.ord>>

\* Which ordinals admit a transfer: newer than the last of its incarnation, within capacity.
FreshOrdinal(e) ==
    LET last == connectRecoverySeen[e.bound.inc]
    IN  /\ e.ord > last
        /\ \/ last # 0
           \/ Cardinality({i \in DOMAIN connectRecoverySeen : connectRecoverySeen[i] # 0}) < SeenCapacity

TransferAccepted(e) ==
    e.ok /\ e.sel = st.sel /\ Valid(e.bound) /\ e.bound = st.bound /\ FreshOrdinal(e)

\* connectRecoveryIntent as the event creates it.
NewCredit(e) ==
    [run |-> runEpoch, phase |-> phaseEpoch, aliasRevision |-> aliasRevision, alias |-> e.sel,
     ord |-> e.ord, bound |-> e.bound, at |-> e.n, load |-> e.load, res |-> e.res,
     awaitResume |-> e.res # 0, awaitInitial |-> e.res = 0 /\ e.load # 0,
     initPaused |-> e.initPaused, transport |-> None]

Bump(f, g) == [f EXCEPT ![g] = @ + 1]

\* An observation of group g arrived on the wire.
Witness(e, g) == /\ pub' = [pub EXCEPT ![g] = e.ver[g]]
                 /\ wireSeen' = [wireSeen EXCEPT ![g] = e.ver[g]]

AcceptConnectRecovery(e) ==
    IF ~TransferAccepted(e)
    THEN UNCHANGED <<liveVars, historyVars>>
    ELSE /\ connectRecoverySeen' = [connectRecoverySeen EXCEPT ![e.bound.inc] = e.ord]
         /\ connectRecovery' = NewCredit(e)
         /\ connectRecoveryFence' = NewCredit(e)
         /\ IF e.load = 0
            THEN UNCHANGED <<st, wireRevision, transportRevision, historyVars>>
            ELSE /\ st' = [st EXCEPT !.paused = e.res = 0 /\ e.initPaused]
                 /\ wireRevision' = Bump(wireRevision, "transport")
                 /\ transportRevision' = transportRevision + 1
                 /\ Witness(e, "transport")
         /\ UNCHANGED <<fenceVars, routeDispatchSeq, stopped, nextRequest, expired, manualVars>>

\* The provenance switch of applyEventLocked for playing and paused, against the load or Resume
\* that the credit c belongs to.  Tagged: the observation names a load (or, for a Resume
\* credit, a Resume).  Awaited: it is the one that c waits for.  Superseded: it is older, or
\* c was settled already, and the event is dropped.  Any other tagged one cancels c.
Observes(e) == connectRecovery # None /\ e.kind \in {"playing", "paused"}
Tagged(c, e) == IF c.res # 0 THEN e.load # 0 \/ e.res # 0 ELSE c.load # 0 /\ e.load # 0
Awaited(c, e) == IF c.res # 0 THEN e.load = 0 /\ e.res = c.res /\ e.kind = "playing"
                 ELSE e.load = c.load /\ (e.kind = "paused") = c.initPaused
Superseded(e) ==
    LET c == connectRecovery
    IN  /\ Observes(e) /\ Tagged(c, e)
        /\ \/ c.res # 0 /\ e.load # 0 /\ e.load <= c.load /\ e.res = 0
           \/ c.res # 0 /\ e.load = 0 /\ e.res < c.res
           \/ c.res = 0 /\ e.load < c.load
           \/ Awaited(c, e) /\ ~c.awaitResume /\ ~c.awaitInitial

\* The paused observation of the awaited initial load does not cancel its own credit.
InitialObservation(e) ==
    Observes(e) /\ connectRecovery.res = 0 /\ Tagged(connectRecovery, e) /\ Awaited(connectRecovery, e)

Cancels(e) ==
    \/ e.kind = "paused" /\ ~InitialObservation(e)
    \/ e.kind \in {"stopped", "inactive", "not_playing", "selected_alias"}
    \/ Observes(e) /\ Tagged(connectRecovery, e) /\ ~Awaited(connectRecovery, e)

CreditAfter(e) ==
    IF Cancels(e) THEN None
    ELSE IF Observes(e) /\ Tagged(connectRecovery, e)
    THEN [connectRecovery EXCEPT !.awaitResume = FALSE, !.awaitInitial = FALSE]
    ELSE connectRecovery

\* Mutant: an event of any engine that carries a valid binding is applied.
VetoesAnyEngine(e) ==
    IF e.bound # None
    THEN ~Valid(st.bound) \/ ~Valid(e.bound)
    ELSE st.bound # None

\* A selected_alias event that does not come from the seeded owner only vetoes routing.
Vetoes(e) ==
    IF e.bound # None
    THEN ~Valid(st.bound) \/ ~Valid(e.bound) \/ st.bound.inc # e.bound.inc
    ELSE st.bound # None

\* Mutant: the alias changes without a new alias revision.
SelectedAliasUnfenced(e) ==
    IF ~e.ok
    THEN UNCHANGED <<st, wireRevision, aliasRevision, historyVars>>
    ELSE /\ st' = IF Vetoes(e)
                  THEN [st EXCEPT !.bound = IF @ = None THEN EmptyBinding ELSE NotReady(@)]
                  ELSE [ApplyGLEvent(st, e) EXCEPT !.bound = e.bound]
         /\ wireRevision' = Bump(wireRevision, "alias")
         /\ Witness(e, "alias")
         /\ UNCHANGED aliasRevision

SelectedAlias(e) ==
    IF ~e.ok
    THEN UNCHANGED <<st, wireRevision, aliasRevision, historyVars>>
    ELSE /\ st' = IF Vetoes(e)
                  THEN [st EXCEPT !.bound = IF @ = None THEN EmptyBinding ELSE NotReady(@)]
                  ELSE [ApplyGLEvent(st, e) EXCEPT !.bound = e.bound]
         /\ wireRevision' = Bump(wireRevision, "alias")
         /\ aliasRevision' = aliasRevision + 1
         /\ Witness(e, "alias")

\* admitManualEventLocked: the latest manual volume action, with the native identity that was
\* observed for exactly this source and alias, if any.
AdmitManualEvent(e) ==
    IF ~e.ok \/ ~Valid(st.bound) \/ e.bound # st.bound \/ e.sel # st.sel
       \/ (manualOrdinal.inc = e.bound.inc /\ e.ord <= manualOrdinal.ord)
    THEN UNCHANGED manualVars
    ELSE LET o == manualObservation
             matches == /\ o # None /\ o.run = runEpoch /\ o.phase = phaseEpoch
                        /\ o.aliasRevision = aliasRevision /\ o.bound = e.bound /\ o.alias = e.sel
         IN  /\ manualOrdinal' = [inc |-> e.bound.inc, ord |-> e.ord]
             /\ manualAction' = [run |-> runEpoch, phase |-> phaseEpoch, aliasRevision |-> aliasRevision,
                                 bound |-> e.bound, alias |-> e.sel, ord |-> e.ord,
                                 observation |-> IF matches THEN o ELSE None]
             /\ UNCHANGED manualObservation

\* applyEventLocked
ApplyEvent(e) ==
    /\ UNCHANGED <<routeDispatchSeq, stopped, sourceRetired, runEpoch, phaseEpoch, nextRequest,
                   acceptedRequest, connectRecoveryFence, connectRecoverySeen, expired>>
    /\ IF Superseded(e)
       THEN UNCHANGED <<st, aliasRevision, transportRevision, wireRevision, connectRecovery,
                        manualVars, historyVars>>
       ELSE /\ connectRecovery' = CreditAfter(e)
            /\ \/ /\ e.kind \in TransportKinds
                  /\ st' = ApplyGLEvent(st, e)
                  /\ wireRevision' = Bump(wireRevision, "transport")
                  /\ transportRevision' = transportRevision + 1
                  /\ Witness(e, "transport")
                  /\ UNCHANGED <<aliasRevision, manualVars>>
               \/ /\ e.kind = "volume"
                  /\ st' = ApplyGLEvent(st, e)
                  /\ IF e.ok THEN wireRevision' = Bump(wireRevision, "volume") /\ Witness(e, "volume")
                             ELSE UNCHANGED <<wireRevision, historyVars>>
                  /\ UNCHANGED <<aliasRevision, transportRevision, manualVars>>
               \/ /\ e.kind = "selected_alias"
                  /\ SelectedAlias(e)
                  /\ UNCHANGED <<transportRevision, manualVars>>
               \/ /\ e.kind = "volume_action"
                  /\ AdmitManualEvent(e)
                  /\ UNCHANGED <<st, aliasRevision, transportRevision, wireRevision, historyVars>>

\* applySourceEvent
ApplySourceEvent(src, e) ==
    IF ~SourceCurrent(src) THEN UNCHANGED <<liveVars, historyVars>>
    ELSE IF e.kind = "connect_transfer" THEN AcceptConnectRecovery(e)
    ELSE ApplyEvent(e)

-----------------------------------------------------------------------------
(* runGLEvents, its polls and its reseeder *)

\* Bound: a repeated poll or reseed is made only if, since the last request began, the engine
\* changed, a fault occurred or an event was applied; others would change nothing.
Seeable == eng.n + faults + wireRevision["transport"] + wireRevision["volume"] + wireRevision["alias"]
RefreshDue == asked # Seeable

bridgeVars == <<snap, catalog>>

BeginRun ==
    /\ reader.pc = "new"
    /\ NewSource(FALSE, runEpoch + 1)
    /\ reader' = [reader EXCEPT !.pc = "begin", !.run = runEpoch + 1]
    /\ UNCHANGED <<engineVars, st, transportRevision, routeDispatchSeq, stopped, nextRequest,
                   wireRevision, recoveryVars, manualVars, requests, asked, bridgeVars, historyVars>>

\* beginPhase before a dial ("begin") and before the poll burst after a lost socket ("gap").
BeginPhase ==
    /\ reader.pc \in {"begin", "gap"}
    /\ IF reader.run = runEpoch /\ ~stopped
       THEN /\ NewSource(FALSE, runEpoch)
            /\ reader' = [reader EXCEPT !.pc = IF reader.pc = "begin" THEN "dial" ELSE "poll",
                                        !.phase = phaseEpoch + 1]
       ELSE /\ reader' = [reader EXCEPT !.pc = "exiting"]
            /\ UNCHANGED fenceVars
    /\ UNCHANGED <<engineVars, st, transportRevision, routeDispatchSeq, stopped, nextRequest,
                   wireRevision, recoveryVars, manualVars, requests, asked, bridgeVars, historyVars>>

Dial ==
    /\ reader.pc = "dial"
    /\ \/ /\ eng' = [eng EXCEPT !.conn = TRUE]
          /\ reader' = [reader EXCEPT !.pc = "seed"]
          /\ UNCHANGED faults
       \/ /\ "dial" \in Faults /\ faults < MaxFaults
          /\ faults' = faults + 1
          /\ reader' = [reader EXCEPT !.pc = "poll"]
          /\ UNCHANGED eng
    /\ UNCHANGED <<wire, liveVars, requests, asked, bridgeVars, historyVars>>

NewRequest ==
    [run |-> reader.run, phase |-> reader.phase, seq |-> nextRequest + 1, wire |-> wireRevision,
     answered |-> FALSE, ans |-> ZeroStatus, ver |-> Zero]

\* beginStatus; a refused begin ends the goroutine that asked (ReaderStops).
BeginStatus ==
    /\ SourceCurrent(reader)
    /\ nextRequest' = nextRequest + 1
    /\ asked' = Seeable
    /\ requests' = requests \cup {NewRequest}
    /\ UNCHANGED <<engineVars, st, fenceVars, transportRevision, routeDispatchSeq, stopped,
                   wireRevision, recoveryVars, manualVars, bridgeVars, historyVars>>

\* The seed of a new socket, or a poll while there is none.
ReaderRequest ==
    /\ \/ reader.pc = "seed" /\ reader' = [reader EXCEPT !.pc = "seeding"]
       \/ reader.pc = "poll" /\ reader' = [reader EXCEPT !.pc = "polling"]
       \/ reader.pc = "polled" /\ RefreshDue /\ reader' = [reader EXCEPT !.pc = "polling"]
    /\ BeginStatus

\* The reseeder of the open socket has at most one request out.
Reseed ==
    /\ "reseed" \in Actors
    /\ reader.pc = "read" /\ RefreshDue
    /\ \A r \in requests : r.phase # reader.phase
    /\ BeginStatus
    /\ UNCHANGED reader

\* librespotStatus: the engine answers with what it is now, or the request fails.
Answer(r, s) ==
    /\ ~r.answered
    /\ requests' = (requests \ {r}) \cup {[r EXCEPT !.answered = TRUE, !.ans = s, !.ver = eng.ver]}
    /\ UNCHANGED <<eng, wire, liveVars, reader, asked, bridgeVars, historyVars>>

AnswerOk == \E r \in requests : Answer(r, EngineStatus) /\ UNCHANGED faults
AnswerFails == /\ "poll" \in Faults /\ faults < MaxFaults /\ faults' = faults + 1
               /\ \E r \in requests : Answer(r, ZeroStatus)

\* Mutant: any binding after a bound one is withdrawn.
ReseededStuck(s) == IF st.bound # None
                    THEN [sel |-> st.sel, bound |-> NotReady(st.bound)]
                    ELSE [sel |-> s.sel, bound |-> s.bound]

\* A nil binding after a bound one withdraws Ready and keeps the last alias.
Reseeded(s) == IF st.bound # None /\ s.bound = None
               THEN [sel |-> st.sel, bound |-> NotReady(st.bound)]
               ELSE [sel |-> s.sel, bound |-> s.bound]

\* Mutant: a status answer is published whatever came on the wire meanwhile.
PublishesAlways(r, g) == TRUE

\* A group is published only if no wire input of that group came since the request began.
Publishes(r, g) == r.wire[g] = wireRevision[g]

AcceptStatus(r) ==
    IF ~SourceCurrent(r) \/ r.seq <= acceptedRequest \/ ~\E g \in Group : Publishes(r, g)
    THEN UNCHANGED <<st, transportRevision, aliasRevision, acceptedRequest, historyVars>>
    ELSE LET t == IF Publishes(r, "transport") THEN r.ans ELSE st
             v == IF Publishes(r, "volume") THEN r.ans ELSE st
             a == IF Publishes(r, "alias") THEN Reseeded(r.ans) ELSE st
         IN  /\ st' = [active |-> t.active, paused |-> t.paused, stopped |-> t.stopped,
                       vol |-> v.vol, sel |-> a.sel, bound |-> a.bound]
             /\ transportRevision' = IF SameTransport(t, st) THEN transportRevision
                                     ELSE transportRevision + 1
             /\ aliasRevision' = IF a.sel = st.sel /\ a.bound = st.bound THEN aliasRevision
                                 ELSE aliasRevision + 1
             /\ acceptedRequest' = r.seq
             /\ pub' = [g \in Group |-> IF Publishes(r, g) THEN r.ver[g] ELSE pub[g]]
             /\ UNCHANGED wireSeen

\* refreshStatus after the answer; the reader exits when its source is no longer current.
FinishStatus(r) ==
    /\ r.answered
    /\ requests' = requests \ {r}
    /\ AcceptStatus(r)
    /\ reader' = IF reader.pc \in {"seeding", "polling"} /\ r.phase = reader.phase
                 THEN [reader EXCEPT !.pc = IF ~SourceCurrent(r) THEN "stopping"
                                            ELSE IF reader.pc = "seeding" THEN "read" ELSE "polled"]
                 ELSE reader
    /\ UNCHANGED <<engineVars, sourceRetired, runEpoch, phaseEpoch, routeDispatchSeq, stopped,
                   nextRequest, wireRevision, recoveryVars, manualVars, asked, bridgeVars>>

ReadEvent ==
    /\ reader.pc = "read" /\ wire # <<>>
    /\ wire' = Tail(wire)
    /\ ApplySourceEvent(reader, Head(wire))
    /\ UNCHANGED <<eng, faults, reader, requests, asked, bridgeVars>>

\* retirePhase by the reader, with the socket closed: the poll burst is over ("polled"), the
\* socket reported an error or end of file ("read"), or stop was seen at a loop head.
LeavePhase(pc) ==
    /\ RetirePhase(reader)
    /\ reader' = [reader EXCEPT !.pc = pc]
    /\ eng' = [eng EXCEPT !.conn = FALSE]
    /\ wire' = <<>>
    /\ UNCHANGED <<st, transportRevision, routeDispatchSeq, stopped, nextRequest, wireRevision,
                   recoveryVars, manualVars, requests, asked, bridgeVars, historyVars>>

PollDone == reader.pc = "polled" /\ LeavePhase("begin") /\ UNCHANGED faults
SocketFails == /\ "socket" \in Faults /\ reader.pc = "read"
               /\ faults < MaxFaults /\ faults' = faults + 1
               /\ LeavePhase("gap")
SocketEnds == reader.pc = "read" /\ ~eng.conn /\ wire = <<>> /\ LeavePhase("gap") /\ UNCHANGED faults
ReaderStops == /\ stopped /\ reader.pc \in {"seed", "poll", "polled", "read", "stopping"}
               /\ LeavePhase("exiting") /\ UNCHANGED faults

\* The deferred retireRun.
RetireRun ==
    /\ reader.pc = "exiting"
    /\ IF reader.run = runEpoch THEN NewSource(TRUE, runEpoch + 1) ELSE UNCHANGED fenceVars
    /\ reader' = [reader EXCEPT !.pc = "done"]
    /\ UNCHANGED <<engineVars, st, transportRevision, routeDispatchSeq, stopped, nextRequest,
                   wireRevision, recoveryVars, manualVars, requests, asked, bridgeVars, historyVars>>

ReaderStep == BeginRun \/ BeginPhase \/ Dial \/ ReaderRequest \/ ReadEvent \/ PollDone
              \/ SocketEnds \/ ReaderStops \/ RetireRun
FinishSome == \E r \in requests : FinishStatus(r)

-----------------------------------------------------------------------------
(* The bridge's side: it reads under the lock, works without it, then asks *)

unreadVars == <<st, transportRevision, stopped, nextRequest, wireRevision, recoveryVars>>

\* transportSnapshot
Snapshot ==
    /\ "tick" \in Actors
    /\ ObserveStop
    /\ snap' = [st |-> st, intent |-> Intent, acted |-> FALSE]
    /\ UNCHANGED <<engineVars, unreadVars, routeDispatchSeq, manualVars, reader, requests, asked, catalog,
                   historyVars>>

\* Mutant: admission compares the alias and not its revision.
RoutableUnfenced(alias, revision) ==
    /\ ~Retired /\ st.sel = alias
    /\ st.bound = None \/ Valid(st.bound)

\* What both admissions require of the source and of the binding.
Routable(alias, revision) ==
    /\ ~Retired /\ st.sel = alias /\ AliasRevisionNow = revision
    /\ st.bound = None \/ Valid(st.bound)

\* admitRoute: linearises a prepared command against the current intent.
AdmitRoute ==
    /\ snap # None /\ routeDispatchSeq < MaxRoutes
    /\ ObserveStop
    /\ routeDispatchSeq' = IF Routable(snap.st.sel, snap.intent.aliasRevision)
                           THEN routeDispatchSeq + 1 ELSE routeDispatchSeq
    /\ UNCHANGED <<engineVars, unreadVars, manualVars, reader, requests, asked, bridgeVars, historyVars>>

\* nativeBoundTransportSupportedLocked: the native side owns transport for this very intent.
NativeBoundTransport ==
    LET o == manualObservation
    IN  /\ o # None /\ ~Retired /\ o.run = RunNow /\ o.phase = PhaseNow
        /\ o.aliasRevision = AliasRevisionNow /\ o.alias = st.sel /\ o.bound = st.bound /\ Valid(o.bound)

\* admitTransport: the copied decision is committed only if its observations are current.
AdmitTransport ==
    /\ snap # None
    /\ ~snap.acted
    /\ ObserveStop
    /\ snap' = [snap EXCEPT !.acted = /\ snap.intent = Intent
                                      /\ Routable(snap.st.sel, snap.intent.aliasRevision)
                                      /\ ~NativeBoundTransport]
    /\ UNCHANGED <<engineVars, unreadVars, routeDispatchSeq, manualVars, reader, requests, asked, catalog,
                   historyVars>>

\* nativeCatalogRequest: both of its critical sections, the second of which repeats the first.
CatalogRequest ==
    /\ "catalog" \in Actors
    /\ catalog = None
    /\ ObserveStop
    /\ catalog' = IF Valid(st.bound) /\ ~Retired
                  THEN [run |-> RunNow, phase |-> PhaseNow, aliasRevision |-> AliasRevisionNow,
                        alias |-> st.sel, bound |-> st.bound]
                  ELSE None
    /\ UNCHANGED <<engineVars, unreadVars, routeDispatchSeq, manualVars, reader, requests, asked, snap,
                   historyVars>>

\* observeNativeDevices: found = the answer names a selected output with a native identity.
CatalogAnswer(found) ==
    /\ catalog # None
    /\ ObserveStop
    /\ manualObservation' =
          IF /\ found /\ ~Retired /\ catalog.run = RunNow /\ catalog.phase = PhaseNow
             /\ catalog.aliasRevision = AliasRevisionNow /\ catalog.alias = st.sel
             /\ catalog.bound = st.bound
          THEN catalog ELSE manualObservation
    /\ catalog' = None
    /\ UNCHANGED <<engineVars, unreadVars, routeDispatchSeq, manualOrdinal, manualAction, reader,
                   requests, asked, snap, historyVars>>

Bridge == Snapshot \/ AdmitRoute \/ AdmitTransport \/ CatalogRequest
          \/ \E found \in BOOLEAN : CatalogAnswer(found)

Next == Engine \/ Stop \/ ReaderStep \/ SocketFails \/ Reseed \/ AnswerOk \/ AnswerFails
        \/ FinishSome \/ Bridge

\* The goroutines keep running, HTTP requests carry a timeout and tickers fire again.  Nothing
\* is assumed of the engine, of stop or of the bridge.
Fairness == /\ WF_vars(ReaderStep) /\ WF_vars(Reseed)
            /\ WF_vars(AnswerOk) /\ WF_vars(FinishSome)

Spec == Init /\ [][Next]_vars
FairSpec == Spec /\ Fairness

-----------------------------------------------------------------------------
(* Properties *)

AliasId == Alias \cup {0}
Maybe(S) == S \cup {None}
BindingType == [inc : Nat, room : AliasId, ready : BOOLEAN]
StatusType == [active : BOOLEAN, paused : BOOLEAN, stopped : BOOLEAN, vol : Nat, sel : AliasId,
               bound : Maybe(BindingType)]
EventType == [kind : AllKinds, ok : BOOLEAN, ver : [Group -> Nat], n : Nat, sel : AliasId,
              bound : Maybe(BindingType), vol : Nat, ord : Nat, load : Nat, res : Nat,
              initPaused : BOOLEAN]
IntentType == [run : Nat, phase : Nat, aliasRevision : Nat, transportRevision : Nat, alias : AliasId]
CreditType == [run : Nat, phase : Nat, aliasRevision : Nat, alias : AliasId, ord : Nat,
               bound : BindingType, at : Nat, load : Nat, res : Nat, awaitResume : BOOLEAN,
               awaitInitial : BOOLEAN, initPaused : BOOLEAN, transport : Maybe(IntentType)]
\* nil is neither a credit nor the key of one.
ASSUME NilAssumption == None \notin CreditType /\ None \notin Nat \X Nat

CatalogType == [run : Nat, phase : Nat, aliasRevision : Nat, alias : AliasId, bound : BindingType]
ActionType == [run : Nat, phase : Nat, aliasRevision : Nat, bound : BindingType, alias : AliasId,
               ord : Nat, observation : Maybe(CatalogType)]
RequestType == [run : Nat, phase : Nat, seq : Nat, wire : [Group -> Nat], answered : BOOLEAN,
                ans : StatusType, ver : [Group -> Nat]]
ReaderPC == {"new", "begin", "dial", "seed", "seeding", "read", "gap", "poll", "polling", "polled",
             "stopping", "exiting", "done"}

\* The type of every variable.
TypeOK ==
    /\ eng \in [inc : Nat, bound : BOOLEAN, conn : BOOLEAN, st : StatusType, ver : [Group -> Nat],
                n : Nat, ord : Nat, load : Nat, res : Nat]
    /\ wire \in Seq(EventType) /\ faults \in Nat
    /\ st \in StatusType
    /\ aliasRevision \in Nat /\ transportRevision \in Nat /\ routeDispatchSeq \in Nat
    /\ stopped \in BOOLEAN /\ sourceRetired \in BOOLEAN /\ runEpoch \in Nat /\ phaseEpoch \in Nat
    /\ nextRequest \in Nat /\ acceptedRequest \in Nat /\ wireRevision \in [Group -> Nat]
    /\ connectRecovery \in Maybe(CreditType) /\ connectRecoveryFence \in Maybe(CreditType)
    /\ connectRecoverySeen \in [1..(MaxFaults + 1) -> Nat] /\ expired \in Nat
    /\ manualOrdinal \in [inc : Nat, ord : Nat]
    /\ manualAction \in Maybe(ActionType) /\ manualObservation \in Maybe(CatalogType)
    /\ reader \in [pc : ReaderPC, run : Nat, phase : Nat]
    /\ requests \subseteq RequestType /\ asked \in Nat
    /\ snap \in Maybe([st : StatusType, intent : IntentType, acted : BOOLEAN])
    /\ catalog \in Maybe(CatalogType)
    /\ pub \in [Group -> Nat] /\ wireSeen \in [Group -> Nat]

\* What a capture of the live state recorded still holds while its alias revision is current.
AliasFence(revision, run, phase, sel, bound) ==
    /\ revision \in 0..aliasRevision
    /\ revision = aliasRevision =>
          run = runEpoch /\ phase = phaseEpoch /\ sel = st.sel /\ bound = st.bound

\* FenceSound: whatever the bridge, a catalog request or a manual action captured and kept while
\* the lock was free, an equal aliasRevision means that alias, binding, run and phase are still exactly the
\* captured ones, and an equal transportRevision that active, paused and stopped are
\* (events.go admitRoute, admitTransport, startIntentCurrent compare nothing else).
FenceSound ==
    /\ snap # None =>
          /\ AliasFence(snap.intent.aliasRevision, snap.intent.run, snap.intent.phase,
                        snap.st.sel, snap.st.bound)
          /\ snap.intent.transportRevision \in 0..transportRevision
          /\ snap.intent.transportRevision = transportRevision => SameTransport(snap.st, st)
    /\ catalog # None =>
          AliasFence(catalog.aliasRevision, catalog.run, catalog.phase, catalog.alias, catalog.bound)
    /\ manualObservation # None =>
          AliasFence(manualObservation.aliasRevision, manualObservation.run,
                     manualObservation.phase, manualObservation.alias, manualObservation.bound)
    /\ manualAction # None =>
          AliasFence(manualAction.aliasRevision, manualAction.run, manualAction.phase,
                     manualAction.alias, manualAction.bound)

\* StatusNeverUndoesWire: a status answer never replaces, in any group, an observation that the
\* websocket delivered after the engine produced that answer (events.go acceptStatus).
StatusNeverUndoesWire == \A g \in Group : pub[g] >= wireSeen[g]

\* IncarnationForward: the binding never goes back to an engine that was replaced, whatever
\* late answers and leftover events arrive (applyEventLocked "events cannot mint").
IncarnationForward ==
    [][st.bound # None /\ st'.bound # None => st'.bound.inc >= st.bound.inc]_vars

\* AdmittedIsCurrent: a route or transport decision is admitted only while everything it was
\* computed from is the live state of an unretired source.
AdmittedIsCurrent ==
    [][(routeDispatchSeq' # routeDispatchSeq \/ (snap # None /\ snap'.acted /\ ~snap.acted)) =>
          /\ ~stopped /\ ~sourceRetired
          /\ snap.st.sel = st.sel /\ snap.st.bound = st.bound
          /\ snap.intent.run = runEpoch /\ snap.intent.phase = phaseEpoch]_vars

\* The live status tells what the engine is; for an engine without a binding after one with a
\* binding it is the old room, withdrawn.
Mirrors ==
    /\ SameTransport(st, eng.st) /\ st.vol = eng.st.vol
    /\ IF EngineBinding = None /\ st.bound # None
       THEN ~st.bound.ready
       ELSE st.sel = eng.st.sel /\ st.bound = EngineBinding

\* Converges: once the engine and the network are quiet the live status becomes what the engine
\* is and stays so, unless the runtime is stopped (the /status backstop of runGLEvents).
Converges == <>[](stopped \/ Mirrors)

\* StopRetires: after stop the reader ends and the source is retired for good.
StopRetires == stopped ~> [](reader.pc = "done" /\ sourceRetired)
=============================================================================
