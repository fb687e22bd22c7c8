--------------------------- MODULE LiveViewProofs ---------------------------
(* Machine-checked proofs about GLLive and about ConnectRecovery, which       *)
(* extends it, for every set of aliases, every kind of event and every bound. *)
(* The live view: the two revisions fence what they stand for, every variable *)
(* keeps its type, a status answer never undoes a newer event and the binding *)
(* never goes back to an engine that was replaced.  The recovery: a transfer  *)
(* sends at most one selection, and a credit that the user has overtaken      *)
(* neither commits nor comes back.                                            *)
EXTENDS ConnectRecovery, TLAPS

-----------------------------------------------------------------------------
(* The live view: fences *)

\* What a revision comparison relies on: the counters are numbers and st is a status record.
Counted ==
    /\ aliasRevision \in Nat /\ transportRevision \in Nat
    /\ runEpoch \in Nat /\ phaseEpoch \in Nat
    /\ st = [active |-> st.active, paused |-> st.paused, stopped |-> st.stopped,
             vol |-> st.vol, sel |-> st.sel, bound |-> st.bound]

\* A step either leaves everything that aliasRevision stands for alone or raises it.
AliasStep ==
    \/ aliasRevision' = aliasRevision + 1
    \/ /\ aliasRevision' = aliasRevision /\ runEpoch' = runEpoch /\ phaseEpoch' = phaseEpoch
       /\ st'.sel = st.sel /\ st'.bound = st.bound

\* A step either leaves active, paused and stopped alone or raises transportRevision.
TransportStep ==
    \/ transportRevision' = transportRevision + 1
    \/ transportRevision' = transportRevision /\ SameTransport(st', st)

FenceStep == Counted' /\ AliasStep /\ TransportStep

-----------------------------------------------------------------------------
(* Every action is a FenceStep *)

\* A step that leaves the fenced fields alone.
LEMMA QuietStep ==
    ASSUME Counted, UNCHANGED <<aliasRevision, transportRevision, runEpoch, phaseEpoch, st>>
    PROVE  FenceStep
BY DEF Counted, FenceStep, AliasStep, TransportStep, SameTransport

\* A step that starts or ends a source, and observeStopLocked.
LEMMA SourceStep ==
    ASSUME Counted, UNCHANGED <<transportRevision, st>>, NEW b, NEW src,
           \/ NewSource(b, runEpoch) \/ NewSource(b, runEpoch + 1)
           \/ RetirePhase(src) \/ ObserveStop
    PROVE  FenceStep
BY DEF Counted, FenceStep, AliasStep, TransportStep, SameTransport, NewSource, RetirePhase,
       ObserveStop, RunNow, PhaseNow, AliasRevisionNow, fenceVars

\* The event handlers.
LEMMA EventStep ==
    ASSUME Counted, NEW src, NEW e, ApplySourceEvent(src, e)
    PROVE  FenceStep
<1> USE DEF Counted
<1>1. CASE ~SourceCurrent(src)
  BY <1>1, QuietStep DEF ApplySourceEvent, liveVars, fenceVars
<1>2. CASE SourceCurrent(src) /\ e.kind = "connect_transfer"
  <2>1. AcceptConnectRecovery(e)
    BY <1>2 DEF ApplySourceEvent
  <2>2. CASE ~TransferAccepted(e) \/ e.load = 0
    BY <2>1, <2>2, QuietStep DEF AcceptConnectRecovery, liveVars, fenceVars
  <2>3. CASE TransferAccepted(e) /\ e.load # 0
    BY <2>1, <2>3 DEF AcceptConnectRecovery, fenceVars, FenceStep, AliasStep, TransportStep
  <2> QED BY <2>2, <2>3
<1>3. CASE SourceCurrent(src) /\ e.kind # "connect_transfer"
  <2>1. ApplyEvent(e)
    BY <1>3 DEF ApplySourceEvent
  <2>2. UNCHANGED <<runEpoch, phaseEpoch>>
    BY <2>1 DEF ApplyEvent
  <2>3. CASE Superseded(e)
    BY <2>1, <2>3, QuietStep DEF ApplyEvent
  <2>4. CASE ~Superseded(e) /\ e.kind \in TransportKinds
    <3>1. /\ st' = ApplyGLEvent(st, e) /\ transportRevision' = transportRevision + 1
          /\ UNCHANGED aliasRevision
      BY <2>1, <2>4 DEF ApplyEvent, TransportKinds
    <3>2. /\ st' = [active |-> st'.active, paused |-> st'.paused, stopped |-> st'.stopped,
                    vol |-> st'.vol, sel |-> st'.sel, bound |-> st'.bound]
          /\ st'.sel = st.sel /\ st'.bound = st.bound
      BY <3>1, <2>4 DEF ApplyGLEvent, TransportKinds
    <3> QED BY <2>2, <3>1, <3>2 DEF FenceStep, AliasStep, TransportStep
  <2>5. CASE ~Superseded(e) /\ e.kind = "volume"
    <3>1. st' = ApplyGLEvent(st, e) /\ UNCHANGED <<aliasRevision, transportRevision>>
      BY <2>1, <2>5 DEF ApplyEvent, TransportKinds
    <3> QED BY <2>2, <2>5, <3>1 DEF FenceStep, AliasStep, TransportStep, ApplyGLEvent, SameTransport
  <2>6. CASE ~Superseded(e) /\ e.kind = "selected_alias"
    <3>1. SelectedAlias(e) /\ UNCHANGED transportRevision
      BY <2>1, <2>6 DEF ApplyEvent, TransportKinds
    <3>2. CASE ~e.ok
      BY <2>2, <3>1, <3>2, QuietStep DEF SelectedAlias
    <3>3. CASE e.ok /\ Vetoes(e)
      <4>1. PICK b : st' = [st EXCEPT !.bound = b]
        BY <3>1, <3>3 DEF SelectedAlias
      <4>2. aliasRevision' = aliasRevision + 1
        BY <3>1, <3>3 DEF SelectedAlias
      <4> QED BY <2>2, <3>1, <4>1, <4>2 DEF FenceStep, AliasStep, TransportStep, SameTransport
    <3>4. CASE e.ok /\ ~Vetoes(e)
      <4> DEFINE picked == [active |-> st.active, paused |-> st.paused, stopped |-> st.stopped,
                            vol |-> st.vol, sel |-> e.sel, bound |-> st.bound]
      <4>1. ApplyGLEvent(st, e) = picked
        BY <2>6, <3>4 DEF ApplyGLEvent
      <4>2. /\ st' = [picked EXCEPT !.bound = e.bound]
            /\ aliasRevision' = aliasRevision + 1
        BY <3>1, <3>4, <4>1 DEF SelectedAlias
      <4> QED BY <2>2, <3>1, <4>2 DEF FenceStep, AliasStep, TransportStep, SameTransport
    <3> QED BY <3>2, <3>3, <3>4
  <2>7. CASE ~Superseded(e) /\ e.kind = "volume_action"
    BY <2>1, <2>2, <2>7, QuietStep DEF ApplyEvent, TransportKinds
  <2> QED BY <2>1, <2>3, <2>4, <2>5, <2>6, <2>7 DEF ApplyEvent
<1> QED BY <1>1, <1>2, <1>3

\* A status answer.
LEMMA StatusStep ==
    ASSUME Counted, NEW r, AcceptStatus(r), UNCHANGED <<runEpoch, phaseEpoch>>
    PROVE  FenceStep
<1>1. CASE ~SourceCurrent(r) \/ r.seq <= acceptedRequest \/ ~\E g \in Group : Publishes(r, g)
  BY <1>1, QuietStep DEF AcceptStatus
<1>2. CASE ~(~SourceCurrent(r) \/ r.seq <= acceptedRequest \/ ~\E g \in Group : Publishes(r, g))
  <2>1. Counted'
    BY <1>2 DEF AcceptStatus, Counted
  <2>2. AliasStep
    BY <1>2 DEF AcceptStatus, Counted, AliasStep
  <2>3. TransportStep
    BY <1>2 DEF AcceptStatus, Counted, TransportStep, SameTransport
  <2> QED BY <2>1, <2>2, <2>3 DEF FenceStep
<1> QED BY <1>1, <1>2

\* Every step of the specification.
LEMMA NextFences == Counted /\ [Next]_vars => FenceStep
<1> SUFFICES ASSUME Counted, [Next]_vars PROVE FenceStep OBVIOUS
<1> DEFINE quiet == UNCHANGED <<aliasRevision, transportRevision, runEpoch, phaseEpoch, st>>
<1>1. CASE Engine
  <2>1. quiet
    BY <1>1 DEF Engine, EngineTransport, EngineVolume, EngineSelectAlias, EngineTransfer,
                EngineVolumeAction, EngineRestart, EngineMoves, liveVars, fenceVars
  <2> QED BY <2>1, QuietStep
<1>2. CASE Stop \/ Dial \/ ReaderRequest \/ Reseed \/ AnswerOk \/ AnswerFails
  <2>1. quiet
    BY <1>2 DEF Stop, Dial, ReaderRequest, Reseed, BeginStatus, AnswerOk, AnswerFails, Answer,
                liveVars, fenceVars
  <2> QED BY <2>1, QuietStep
<1>3. CASE BeginRun \/ RetireRun
  BY <1>3, SourceStep, QuietStep DEF BeginRun, RetireRun, fenceVars
<1>4. CASE BeginPhase
  BY <1>4, SourceStep, QuietStep DEF BeginPhase, fenceVars
<1>5. CASE PollDone \/ SocketFails \/ SocketEnds \/ ReaderStops
  BY <1>5, SourceStep DEF PollDone, SocketFails, SocketEnds, ReaderStops, LeavePhase
<1>6. CASE ReadEvent
  BY <1>6, EventStep DEF ReadEvent
<1>7. CASE FinishSome
  BY <1>7, StatusStep DEF FinishSome, FinishStatus
<1>8. CASE Bridge
  BY <1>8, SourceStep DEF Bridge, Snapshot, AdmitRoute, AdmitTransport, CatalogRequest,
                          CatalogAnswer, unreadVars
<1>9. CASE UNCHANGED vars
  BY <1>9, QuietStep DEF vars, liveVars, fenceVars
<1> QED BY <1>1, <1>2, <1>3, <1>4, <1>5, <1>6, <1>7, <1>8, <1>9 DEF Next, ReaderStep

-----------------------------------------------------------------------------
(* Captures *)

\* A capture is left alone, dropped, or taken from the state the step leaves behind.
Captures ==
    /\ \/ snap' = snap
       \/ snap # None /\ snap'.st = snap.st /\ snap'.intent = snap.intent
       \/ /\ snap'.st = st' /\ snap'.intent.aliasRevision = aliasRevision'
          /\ snap'.intent.run = runEpoch' /\ snap'.intent.phase = phaseEpoch'
          /\ snap'.intent.transportRevision = transportRevision'
    /\ \/ catalog' \in {catalog, None}
       \/ /\ catalog'.aliasRevision = aliasRevision' /\ catalog'.run = runEpoch'
          /\ catalog'.phase = phaseEpoch' /\ catalog'.alias = st'.sel /\ catalog'.bound = st'.bound
    /\ manualObservation' = manualObservation \/ (catalog # None /\ manualObservation' = catalog)
    /\ \/ manualAction' = manualAction
       \/ /\ manualAction'.aliasRevision = aliasRevision' /\ manualAction'.run = runEpoch'
          /\ manualAction'.phase = phaseEpoch' /\ manualAction'.alias = st'.sel
          /\ manualAction'.bound = st'.bound

\* snap is a record, so that marking it acted keeps its other fields.
Shaped == snap # None => snap = [st |-> snap.st, intent |-> snap.intent, acted |-> snap.acted]

\* Every step treats captures that way.
LEMMA NextCaptures == Shaped /\ [Next]_vars => Captures /\ Shaped'
<1> SUFFICES ASSUME Shaped, [Next]_vars PROVE Captures /\ Shaped' OBVIOUS
<1> USE DEF Captures, Shaped
<1> DEFINE kept == UNCHANGED <<snap, catalog, manualObservation, manualAction>>
<1>1. CASE Engine
  <2>1. kept
    BY <1>1 DEF Engine, EngineTransport, EngineVolume, EngineSelectAlias, EngineTransfer,
                EngineVolumeAction, EngineRestart, EngineMoves, liveVars, manualVars
  <2> QED BY <2>1
<1>2. CASE \/ Stop \/ Dial \/ ReaderRequest \/ Reseed \/ AnswerOk \/ AnswerFails \/ BeginRun
           \/ RetireRun \/ BeginPhase \/ PollDone \/ SocketFails \/ SocketEnds \/ ReaderStops
           \/ FinishSome
  <2>1. kept
    BY <1>2 DEF Stop, Dial, ReaderRequest, Reseed, BeginStatus, AnswerOk, AnswerFails, Answer,
                BeginRun, RetireRun, BeginPhase, PollDone, SocketFails, SocketEnds, ReaderStops,
                LeavePhase, FinishSome, FinishStatus, liveVars, manualVars, bridgeVars
  <2> QED BY <2>1
<1>3. CASE ReadEvent
  <2>0. UNCHANGED <<snap, catalog>>
    BY <1>3 DEF ReadEvent, bridgeVars
  <2> DEFINE e == Head(wire)
  <2>1. CASE UNCHANGED manualVars
    BY <2>0, <2>1 DEF manualVars
  <2>2. CASE ~UNCHANGED manualVars
    <3>1. ApplyEvent(e) /\ AdmitManualEvent(e) /\ UNCHANGED <<st, aliasRevision, runEpoch, phaseEpoch>>
      BY <1>3, <2>2 DEF ReadEvent, ApplySourceEvent, AcceptConnectRecovery, ApplyEvent, liveVars
    <3>2. e.bound = st.bound /\ e.sel = st.sel
      BY <2>2, <3>1 DEF AdmitManualEvent
    <3> HIDE DEF e
    <3> QED BY <2>0, <2>2, <3>1, <3>2 DEF AdmitManualEvent
  <2> QED BY <2>1, <2>2
<1>4. CASE Snapshot
  BY <1>4 DEF Snapshot, ObserveStop, Intent, IntentOf, unreadVars, manualVars
<1>5. CASE AdmitRoute
  BY <1>5 DEF AdmitRoute, manualVars, bridgeVars
<1>6. CASE AdmitTransport
  BY <1>6 DEF AdmitTransport, manualVars
<1>7. CASE CatalogRequest
  BY <1>7 DEF CatalogRequest, ObserveStop, unreadVars, manualVars
<1>8. CASE \E found \in BOOLEAN : CatalogAnswer(found)
  BY <1>8 DEF CatalogAnswer
<1>9. CASE UNCHANGED vars
  BY <1>9 DEF vars, liveVars, manualVars
<1> QED BY <1>1, <1>2, <1>3, <1>4, <1>5, <1>6, <1>7, <1>8, <1>9 DEF Next, ReaderStep, Bridge

\* The inductive invariant of the fences.
FenceInv == Counted /\ Shaped /\ FenceSound

\* It holds initially.
LEMMA FenceInit == Init => FenceInv
BY DEF Init, FenceInv, Counted, Shaped, FenceSound, ZeroStatus

\* Every step preserves it.
LEMMA FenceNext == FenceInv /\ [Next]_vars => FenceInv'
<1> SUFFICES ASSUME FenceInv, [Next]_vars PROVE FenceInv' OBVIOUS
<1>1. FenceStep
  BY NextFences DEF FenceInv
<1>2. Captures /\ Shaped'
  BY NextCaptures DEF FenceInv
<1>3. Counted /\ Counted'
  BY <1>1 DEF FenceInv, FenceStep
<1>4. \A rev, run, phase, sel, bound :
         AliasFence(rev, run, phase, sel, bound) =>
            /\ rev \in 0..aliasRevision'
            /\ rev = aliasRevision' =>
                  run = runEpoch' /\ phase = phaseEpoch' /\ sel = st'.sel /\ bound = st'.bound
  BY <1>1, <1>3 DEF AliasFence, FenceStep, AliasStep, Counted
<1>5. snap' # None =>
         /\ AliasFence(snap.intent.aliasRevision, snap.intent.run, snap.intent.phase,
                       snap.st.sel, snap.st.bound)'
         /\ snap'.intent.transportRevision \in 0..transportRevision'
         /\ snap'.intent.transportRevision = transportRevision' => SameTransport(snap'.st, st')
  <2>1. CASE snap # None /\ snap'.st = snap.st /\ snap'.intent = snap.intent
    <3>1. /\ snap'.intent.transportRevision \in 0..transportRevision'
          /\ snap'.intent.transportRevision = transportRevision' => SameTransport(snap'.st, st')
      BY <1>1, <1>3, <2>1 DEF FenceInv, FenceSound, FenceStep, TransportStep, Counted, SameTransport
    <3>2. AliasFence(snap.intent.aliasRevision, snap.intent.run, snap.intent.phase,
                     snap.st.sel, snap.st.bound)
      BY <2>1 DEF FenceInv, FenceSound
    <3>3. AliasFence(snap.intent.aliasRevision, snap.intent.run, snap.intent.phase,
                     snap.st.sel, snap.st.bound)'
      BY <1>4, <2>1, <3>2 DEF AliasFence
    <3> QED BY <3>1, <3>3
  <2>2. CASE /\ snap'.st = st' /\ snap'.intent.aliasRevision = aliasRevision'
             /\ snap'.intent.run = runEpoch' /\ snap'.intent.phase = phaseEpoch'
             /\ snap'.intent.transportRevision = transportRevision'
    BY <1>3, <2>2 DEF AliasFence, Counted, SameTransport
  <2> QED BY <1>2, <2>1, <2>2 DEF Captures
<1>6. catalog # None =>
         AliasFence(catalog.aliasRevision, catalog.run, catalog.phase, catalog.alias, catalog.bound)
  BY DEF FenceInv, FenceSound
<1>7. catalog' # None =>
         AliasFence(catalog.aliasRevision, catalog.run, catalog.phase, catalog.alias, catalog.bound)'
  BY <1>2, <1>3, <1>4, <1>6 DEF Captures, AliasFence, Counted
<1>8. manualObservation' # None =>
         AliasFence(manualObservation.aliasRevision, manualObservation.run,
                    manualObservation.phase, manualObservation.alias, manualObservation.bound)'
  <2>1. CASE manualObservation' = manualObservation
    BY <1>4, <2>1 DEF AliasFence, FenceInv, FenceSound
  <2>2. CASE catalog # None /\ manualObservation' = catalog
    BY <1>4, <1>6, <2>2 DEF AliasFence
  <2> QED BY <1>2, <2>1, <2>2 DEF Captures
<1>9. manualAction' # None =>
         AliasFence(manualAction.aliasRevision, manualAction.run, manualAction.phase,
                    manualAction.alias, manualAction.bound)'
  BY <1>2, <1>3, <1>4 DEF Captures, AliasFence, Counted, FenceInv, FenceSound
<1>10. FenceSound'
  BY <1>5, <1>7, <1>8, <1>9 DEF FenceSound
<1> QED BY <1>2, <1>3, <1>10 DEF FenceInv

-----------------------------------------------------------------------------
(* Theorems *)

\* FenceSound (a current revision means an unchanged alias, binding, run, phase or transport
\* state since the capture) holds in every reachable state, for every instance.
THEOREM FenceSoundAlways == Spec => []FenceSound
<1>1. FenceInv => FenceSound
  BY DEF FenceInv
<1> QED BY <1>1, FenceInit, FenceNext, PTL DEF Spec

\* AdmittedIsCurrent: admitRoute and admitTransport admit nothing whose inputs have changed.
THEOREM AdmittedIsCurrentAlways == Spec => AdmittedIsCurrent
<1> DEFINE admits == routeDispatchSeq' # routeDispatchSeq \/ (snap # None /\ snap'.acted /\ ~snap.acted)
           current == /\ ~stopped /\ ~sourceRetired
                      /\ snap.st.sel = st.sel /\ snap.st.bound = st.bound
                      /\ snap.intent.run = runEpoch /\ snap.intent.phase = phaseEpoch
<1>1. FenceInv /\ [Next]_vars => [admits => current]_vars
  <2> SUFFICES ASSUME FenceInv, Next, admits PROVE current
    BY DEF vars, liveVars
  <2>1. snap # None /\ ObserveStop /\ Routable(snap.st.sel, snap.intent.aliasRevision)
    <3>1. CASE AdmitRoute
      BY <3>1 DEF AdmitRoute, bridgeVars
    <3>2. CASE AdmitTransport
      BY <3>2 DEF AdmitTransport, FenceInv, Shaped
    <3>3. CASE Snapshot
      BY <3>3 DEF Snapshot
    <3>4. ASSUME ~AdmitRoute, ~AdmitTransport, ~Snapshot PROVE FALSE
      <4> DEFINE kept == UNCHANGED <<routeDispatchSeq, snap>>
      <4>1. CASE Engine
        <5>1. kept
          BY <4>1 DEF Engine, EngineTransport, EngineVolume, EngineSelectAlias, EngineTransfer,
                 EngineVolumeAction, EngineRestart, EngineMoves, liveVars, bridgeVars
        <5> QED BY <5>1
      <4>2. CASE Stop \/ Reseed \/ AnswerOk \/ AnswerFails \/ SocketFails
        <5>1. kept
          BY <4>2 DEF Stop, Reseed, BeginStatus, AnswerOk, AnswerFails, Answer, SocketFails,
                 LeavePhase, liveVars, bridgeVars
        <5> QED BY <5>1
      <4>3. CASE FinishSome
        <5>1. kept
          BY <4>3 DEF FinishSome, FinishStatus, bridgeVars
        <5> QED BY <5>1
      <4>4. CASE ReaderStep
        <5>1. ReadEvent => kept
          BY DEF ReadEvent, ApplySourceEvent, AcceptConnectRecovery, ApplyEvent, liveVars, bridgeVars
        <5>2. BeginRun \/ RetireRun \/ BeginPhase => kept
          BY DEF BeginRun, RetireRun, BeginPhase, liveVars, bridgeVars
        <5>3. Dial \/ ReaderRequest \/ PollDone \/ SocketEnds \/ ReaderStops => kept
          BY DEF Dial, ReaderRequest, BeginStatus, PollDone, SocketEnds, ReaderStops, LeavePhase,
                 liveVars, bridgeVars
        <5>4. kept
          BY <4>4, <5>1, <5>2, <5>3 DEF ReaderStep
        <5> QED BY <5>4
      <4>5. CASE Bridge
        <5>1. kept
          BY <3>4, <4>5 DEF Bridge, CatalogRequest, CatalogAnswer, liveVars, bridgeVars
        <5> QED BY <5>1
      <4> QED BY <4>1, <4>2, <4>3, <4>4, <4>5 DEF Next
    <3> QED BY <3>1, <3>2, <3>3, <3>4
  <2>2. ~stopped /\ ~sourceRetired /\ aliasRevision = snap.intent.aliasRevision
    BY <2>1 DEF Routable, Retired, AliasRevisionNow, StopSeen
  <2> QED BY <2>1, <2>2 DEF FenceInv, FenceSound, AliasFence
<1> QED BY <1>1, FenceInit, FenceNext, PTL DEF Spec, AdmittedIsCurrent

-----------------------------------------------------------------------------
(* Types.  Events, credits, captures and answers are records that travel      *)
(* between goroutines, so each is typed where it is made and its type is used *)
(* where it is read.                                                          *)

EngineType == [inc : Nat, bound : BOOLEAN, conn : BOOLEAN, st : StatusType, ver : [Group -> Nat],
               n : Nat, ord : Nat, load : Nat, res : Nat]

\* TypeOK in the parts that the actions leave alone or change together.
EngineTyped == eng \in EngineType /\ wire \in Seq(EventType) /\ faults \in Nat
FenceTyped == /\ aliasRevision \in Nat /\ acceptedRequest \in Nat
              /\ sourceRetired \in BOOLEAN /\ runEpoch \in Nat /\ phaseEpoch \in Nat
StatusTyped == st \in StatusType /\ transportRevision \in Nat /\ wireRevision \in [Group -> Nat]
CountersTyped == routeDispatchSeq \in Nat /\ stopped \in BOOLEAN /\ nextRequest \in Nat
RecoveryTyped == /\ connectRecovery \in Maybe(CreditType) /\ connectRecoveryFence \in Maybe(CreditType)
                 /\ connectRecoverySeen \in [1..(MaxFaults + 1) -> Nat] /\ expired \in Nat
ManualTyped == /\ manualOrdinal \in [inc : Nat, ord : Nat]
               /\ manualAction \in Maybe(ActionType) /\ manualObservation \in Maybe(CatalogType)
ReaderTyped == reader \in [pc : ReaderPC, run : Nat, phase : Nat]
RequestsTyped == requests \subseteq RequestType /\ asked \in Nat
BridgeTyped == /\ snap \in Maybe([st : StatusType, intent : IntentType, acted : BOOLEAN])
               /\ catalog \in Maybe(CatalogType)
HistoryTyped == pub \in [Group -> Nat] /\ wireSeen \in [Group -> Nat]

\* The parts are TypeOK.
LEMMA Parts ==
    TypeOK <=> /\ EngineTyped /\ FenceTyped /\ StatusTyped /\ CountersTyped /\ RecoveryTyped
               /\ ManualTyped /\ ReaderTyped /\ RequestsTyped /\ BridgeTyped /\ HistoryTyped
BY DEF TypeOK, EngineTyped, EngineType, FenceTyped, StatusTyped, CountersTyped, RecoveryTyped,
       ManualTyped, ReaderTyped, RequestsTyped, BridgeTyped, HistoryTyped

\* So are the parts after a step.
LEMMA PartsNext ==
    ASSUME EngineTyped', FenceTyped', StatusTyped', CountersTyped', RecoveryTyped',
           ManualTyped', ReaderTyped', RequestsTyped', BridgeTyped', HistoryTyped'
    PROVE  TypeOK'
BY DEF TypeOK, EngineTyped, EngineType, FenceTyped, StatusTyped, CountersTyped, RecoveryTyped,
       ManualTyped, ReaderTyped, RequestsTyped, BridgeTyped, HistoryTyped

\* A part whose variables a step leaves alone stays typed.
LEMMA Unchanged ==
    /\ EngineTyped /\ UNCHANGED engineVars => EngineTyped'
    /\ FenceTyped /\ UNCHANGED fenceVars => FenceTyped'
    /\ StatusTyped /\ UNCHANGED <<st, transportRevision, wireRevision>> => StatusTyped'
    /\ CountersTyped /\ UNCHANGED <<routeDispatchSeq, stopped, nextRequest>> => CountersTyped'
    /\ RecoveryTyped /\ UNCHANGED recoveryVars => RecoveryTyped'
    /\ ManualTyped /\ UNCHANGED manualVars => ManualTyped'
    /\ ReaderTyped /\ UNCHANGED reader => ReaderTyped'
    /\ RequestsTyped /\ UNCHANGED <<requests, asked>> => RequestsTyped'
    /\ BridgeTyped /\ UNCHANGED bridgeVars => BridgeTyped'
    /\ HistoryTyped /\ UNCHANGED historyVars => HistoryTyped'
BY DEF EngineTyped, FenceTyped, StatusTyped, CountersTyped, RecoveryTyped, ManualTyped, ReaderTyped,
       RequestsTyped, BridgeTyped, HistoryTyped, engineVars, fenceVars, recoveryVars, manualVars,
       bridgeVars, historyVars

\* A step that leaves all of glLive alone.
LEMMA LiveUnchanged ==
    ASSUME TypeOK, UNCHANGED liveVars
    PROVE  FenceTyped' /\ StatusTyped' /\ CountersTyped' /\ RecoveryTyped' /\ ManualTyped'
<1>1. /\ UNCHANGED fenceVars /\ UNCHANGED <<st, transportRevision, wireRevision>>
      /\ UNCHANGED <<routeDispatchSeq, stopped, nextRequest>>
      /\ UNCHANGED recoveryVars /\ UNCHANGED manualVars
  BY DEF liveVars
<1> QED BY <1>1, Parts, Unchanged

-----------------------------------------------------------------------------
(* Values *)

\* The zero values are typed.
LEMMA ZeroTyped == Zero \in [Group -> Nat] /\ ZeroStatus \in StatusType
BY DEF Zero, ZeroStatus, StatusType, AliasId, Maybe

\* What the engine reports is typed.
LEMMA EngineTypes ==
    ASSUME EngineTyped
    PROVE  EngineBinding \in Maybe(BindingType) /\ EngineStatus \in StatusType
<1>1. eng.inc \in Nat /\ eng.st \in StatusType /\ eng.st.sel \in AliasId
  BY DEF EngineTyped, EngineType, StatusType
<1>2. EngineBinding \in Maybe(BindingType)
  BY <1>1 DEF EngineBinding, Binding, BindingType, Maybe
<1>3. EngineStatus \in StatusType
  BY <1>1, <1>2 DEF EngineStatus, StatusType
<1> QED BY <1>2, <1>3

\* The event as the engine writes it is typed and names no other engine.
LEMMA EventTyped ==
    ASSUME EngineTyped, NEW kind \in AllKinds
    PROVE  /\ Event(kind) \in EventType
           /\ Event(kind).bound # None => Event(kind).bound.inc = eng.inc
<1>1. Event(kind) \in EventType
  BY EngineTypes DEF EngineTyped, EngineType, StatusType, Event, EventType
<1>2. Event(kind).bound # None => Event(kind).bound.inc = eng.inc
  BY DEF Event, EngineBinding, Binding
<1> QED BY <1>1, <1>2

\* An event folded into a status gives a status.
LEMMA ApplyTyped ==
    ASSUME NEW s \in StatusType, NEW e \in EventType
    PROVE  ApplyGLEvent(s, e) \in StatusType
BY DEF ApplyGLEvent, StatusType, EventType

\* Withdrawing a binding keeps its type.
LEMMA BindingTyped ==
    /\ EmptyBinding \in BindingType
    /\ \A b \in BindingType : NotReady(b) \in BindingType
BY DEF EmptyBinding, NotReady, BindingType, AliasId

-----------------------------------------------------------------------------
(* The engine *)

\* A change of the engine keeps the types if its new status and its event are typed.
LEMMA MovesTyped ==
    ASSUME TypeOK, NEW next \in EngineType, NEW e \in EventType, NEW loud \in BOOLEAN,
           EngineMoves(next, e, loud)
    PROVE  TypeOK'
<1> DEFINE n == eng.n + 1
           ver == [g \in Group |-> IF g \in GroupOf(e.kind) THEN n ELSE eng.ver[g]]
<1>1. n \in Nat /\ ver \in [Group -> Nat]
  BY Parts DEF EngineTyped, EngineType
<1>2. /\ eng' = [next EXCEPT !.n = n, !.ver = ver]
      /\ wire' = IF loud THEN Append(wire, [e EXCEPT !.ver = ver, !.n = n]) ELSE wire
      /\ UNCHANGED <<faults, liveVars, reader, requests, asked, snap, catalog, historyVars>>
  BY DEF EngineMoves
<1> HIDE DEF n, ver
<1>3. eng' \in EngineType
  BY <1>1, <1>2 DEF EngineType
<1>4. [e EXCEPT !.ver = ver, !.n = n] \in EventType
  BY <1>1 DEF EventType
<1>5. wire' \in Seq(EventType)
  BY <1>2, <1>4, Parts DEF EngineTyped
<1>6. EngineTyped'
  BY <1>2, <1>3, <1>5, Parts DEF EngineTyped
<1>7. ReaderTyped' /\ RequestsTyped' /\ BridgeTyped' /\ HistoryTyped'
  BY <1>2, Parts, Unchanged DEF bridgeVars
<1> QED BY <1>2, <1>6, <1>7, LiveUnchanged, PartsNext

\* A typed change of the engine that runs; its event names no other engine.
OfEngine(next, e) == next.inc = eng.inc /\ (e.bound # None => e.bound.inc = eng.inc)
Moves ==
    \E next \in EngineType, e \in EventType, loud \in BOOLEAN :
        EngineMoves(next, e, loud) /\ OfEngine(next, e)

\* Every step of the engine but its restart is one.
LEMMA EngineMovesTyped ==
    ASSUME TypeOK, Engine, ~\E b \in BOOLEAN : EngineRestart(b)
    PROVE  Moves
<1>1. EngineTyped /\ eng \in EngineType
  BY Parts DEF EngineTyped
<1>2. /\ eng.n + 1 \in Nat /\ eng.ord + 1 \in Nat /\ eng.load + 1 \in Nat /\ eng.inc + 1 \in Nat
      /\ eng.load \in Nat /\ eng.res \in Nat /\ eng.st \in StatusType /\ eng.inc \in Nat
  BY <1>1 DEF EngineType
<1>3. ASSUME NEW loud \in BOOLEAN, EngineTransport(loud) PROVE Moves
  <2>1. PICK k \in TransportKinds \cap Kinds, load \in {0, eng.load}, res \in {0, eng.res} :
          LET e == [Event(k) EXCEPT !.load = IF k \in {"playing", "paused"} THEN load ELSE 0,
                                    !.res = IF k \in {"playing", "paused"} THEN res ELSE 0]
          IN  EngineMoves([eng EXCEPT !.st = ApplyGLEvent(eng.st, e)], e, loud)
    BY <1>3 DEF EngineTransport
  <2> DEFINE e == [Event(k) EXCEPT !.load = IF k \in {"playing", "paused"} THEN load ELSE 0,
                                   !.res = IF k \in {"playing", "paused"} THEN res ELSE 0]
  <2>2. load \in Nat /\ res \in Nat
    BY <1>2
  <2>3. Event(k) \in EventType /\ (Event(k).bound # None => Event(k).bound.inc = eng.inc)
    BY <1>1, EventTyped DEF AllKinds
  <2>4. e \in EventType /\ e.bound = Event(k).bound
    BY <2>2, <2>3 DEF EventType
  <2>5. EngineMoves([eng EXCEPT !.st = ApplyGLEvent(eng.st, e)], e, loud)
    BY <2>1
  <2> HIDE DEF e
  <2>6. /\ [eng EXCEPT !.st = ApplyGLEvent(eng.st, e)] \in EngineType
        /\ OfEngine([eng EXCEPT !.st = ApplyGLEvent(eng.st, e)], e)
    BY <1>1, <1>2, <2>3, <2>4, ApplyTyped DEF EngineType, OfEngine
  <2> QED BY <1>3, <2>4, <2>5, <2>6 DEF Moves
<1>4. ASSUME NEW loud \in BOOLEAN, EngineVolume(loud) PROVE Moves
  <2>1. PICK ok \in Shapes :
          EngineMoves([eng EXCEPT !.st.vol = eng.n + 1],
                      [Event("volume") EXCEPT !.vol = eng.n + 1, !.ok = ok], loud)
    BY <1>4 DEF EngineVolume
  <2>2. ok \in BOOLEAN
    BY ConstantsAssumption
  <2>3. /\ Event("volume") \in EventType
        /\ Event("volume").bound # None => Event("volume").bound.inc = eng.inc
    BY <1>1, EventTyped DEF AllKinds
  <2>4. [Event("volume") EXCEPT !.vol = eng.n + 1, !.ok = ok] \in EventType
    BY <1>2, <2>2, <2>3 DEF EventType
  <2>5. [eng EXCEPT !.st.vol = eng.n + 1] \in EngineType
    BY <1>1, <1>2 DEF EngineType, StatusType
  <2>6. OfEngine([eng EXCEPT !.st.vol = eng.n + 1],
                 [Event("volume") EXCEPT !.vol = eng.n + 1, !.ok = ok])
    BY <1>1, <2>3 DEF EngineType, EventType, OfEngine
  <2> QED BY <2>1, <2>4, <2>5, <2>6 DEF Moves
<1>5. ASSUME NEW loud \in BOOLEAN, EngineSelectAlias(loud) PROVE Moves
  <2>1. PICK a \in Alias, ok \in Shapes :
          EngineMoves([eng EXCEPT !.st.sel = a],
                      [Event("selected_alias") EXCEPT
                         !.sel = a, !.ok = ok,
                         !.bound = IF eng.bound THEN Binding(eng.inc, a) ELSE None], loud)
    BY <1>5 DEF EngineSelectAlias
  <2>2. ok \in BOOLEAN /\ a \in AliasId
    BY ConstantsAssumption DEF AliasId
  <2>3. (IF eng.bound THEN Binding(eng.inc, a) ELSE None) \in Maybe(BindingType)
    BY <1>2, <2>2 DEF Binding, BindingType, Maybe
  <2>4. Event("selected_alias") \in EventType
    BY <1>1, EventTyped DEF AllKinds
  <2>5. [Event("selected_alias") EXCEPT
            !.sel = a, !.ok = ok,
            !.bound = IF eng.bound THEN Binding(eng.inc, a) ELSE None] \in EventType
    BY <2>2, <2>3, <2>4 DEF EventType
  <2>6. [eng EXCEPT !.st.sel = a] \in EngineType
    BY <1>1, <1>2, <2>2 DEF EngineType, StatusType
  <2>7. OfEngine([eng EXCEPT !.st.sel = a],
                 [Event("selected_alias") EXCEPT
                    !.sel = a, !.ok = ok,
                    !.bound = IF eng.bound THEN Binding(eng.inc, a) ELSE None])
    BY <1>1, <2>4 DEF EngineType, EventType, Binding, OfEngine
  <2> QED BY <2>1, <2>5, <2>6, <2>7 DEF Moves
<1>6. CASE EngineTransfer
  <2>1. PICK how \in {"bare", "load", "resume"}, p \in BOOLEAN :
          LET ord == eng.ord + 1
              load == IF how = "load" THEN eng.load + 1 ELSE eng.load
              res == IF how = "resume" THEN ord ELSE 0
          IN  EngineMoves([eng EXCEPT !.ord = ord, !.load = load,
                                      !.res = IF res = 0 THEN @ ELSE res,
                                      !.st.paused = IF how = "bare" THEN @ ELSE p],
                          [Event("connect_transfer") EXCEPT
                              !.ord = ord, !.load = IF how = "bare" THEN 0 ELSE load,
                              !.res = res, !.initPaused = p], TRUE)
    BY <1>6 DEF EngineTransfer
  <2> DEFINE ord == eng.ord + 1
             load == IF how = "load" THEN eng.load + 1 ELSE eng.load
             res == IF how = "resume" THEN ord ELSE 0
             next == [eng EXCEPT !.ord = ord, !.load = load,
                                 !.res = IF res = 0 THEN @ ELSE res,
                                 !.st.paused = IF how = "bare" THEN @ ELSE p]
             e == [Event("connect_transfer") EXCEPT
                      !.ord = ord, !.load = IF how = "bare" THEN 0 ELSE load,
                      !.res = res, !.initPaused = p]
  <2>2. EngineMoves(next, e, TRUE)
    BY <2>1
  <2>3. ord \in Nat /\ load \in Nat /\ res \in Nat
    BY <1>2
  <2>4. /\ Event("connect_transfer") \in EventType
        /\ Event("connect_transfer").bound # None => Event("connect_transfer").bound.inc = eng.inc
    BY <1>1, EventTyped DEF AllKinds
  <2> HIDE DEF ord, load, res
  <2>5. e \in EventType
    BY <2>3, <2>4 DEF EventType
  <2>6. next \in EngineType
    BY <1>1, <1>2, <2>3 DEF EngineType, StatusType
  <2>7. OfEngine(next, e)
    BY <1>1, <2>4 DEF EngineType, EventType, OfEngine
  <2> QED BY <2>2, <2>5, <2>6, <2>7 DEF Moves
<1>7. CASE EngineVolumeAction
  <2>1. PICK ok \in Shapes :
          EngineMoves([eng EXCEPT !.ord = @ + 1],
                      [Event("volume_action") EXCEPT !.ord = eng.ord + 1, !.ok = ok], TRUE)
    BY <1>7 DEF EngineVolumeAction
  <2>2. ok \in BOOLEAN
    BY ConstantsAssumption
  <2>3. /\ Event("volume_action") \in EventType
        /\ Event("volume_action").bound # None => Event("volume_action").bound.inc = eng.inc
    BY <1>1, EventTyped DEF AllKinds
  <2>4. [Event("volume_action") EXCEPT !.ord = eng.ord + 1, !.ok = ok] \in EventType
    BY <1>2, <2>2, <2>3 DEF EventType
  <2>5. [eng EXCEPT !.ord = @ + 1] \in EngineType
    BY <1>1, <1>2 DEF EngineType
  <2>6. OfEngine([eng EXCEPT !.ord = @ + 1],
                 [Event("volume_action") EXCEPT !.ord = eng.ord + 1, !.ok = ok])
    BY <1>1, <2>3 DEF EngineType, EventType, OfEngine
  <2> QED BY <2>1, <2>4, <2>5, <2>6 DEF Moves
<1>8. ASSUME NEW loud \in {eng.conn} \cup Quiet PROVE loud \in BOOLEAN
  BY <1>1, <1>8, ConstantsAssumption DEF EngineType
<1> QED BY <1>3, <1>4, <1>5, <1>6, <1>7, <1>8 DEF Engine

\* Every step of the engine keeps the types.
LEMMA EngineStepTyped == TypeOK /\ Engine => TypeOK'
<1> SUFFICES ASSUME TypeOK, Engine PROVE TypeOK' OBVIOUS
<1>1. EngineTyped /\ eng \in EngineType
  BY Parts DEF EngineTyped
<1>2. ASSUME NEW b \in BOOLEAN, EngineRestart(b) PROVE TypeOK'
  <2>1. eng' \in EngineType
    <3>1. eng.n + 1 \in Nat /\ eng.inc + 1 \in Nat
      BY <1>1 DEF EngineType
    <3>2. eng' = [eng EXCEPT !.inc = @ + 1, !.bound = b, !.conn = FALSE, !.n = @ + 1,
                             !.st = ZeroStatus, !.ver = [g \in Group |-> eng.n + 1],
                             !.ord = 0, !.load = 0, !.res = 0]
      BY <1>2 DEF EngineRestart
    <3> QED BY <1>1, <3>1, <3>2, ZeroTyped DEF EngineType
  <2>2. /\ faults' = faults + 1
        /\ UNCHANGED <<wire, liveVars, reader, requests, asked, snap, catalog, historyVars>>
    BY <1>2 DEF EngineRestart
  <2>3. EngineTyped'
    BY <1>1, <2>1, <2>2 DEF EngineTyped
  <2>4. ReaderTyped' /\ RequestsTyped' /\ BridgeTyped' /\ HistoryTyped'
    BY <2>2, Parts, Unchanged DEF bridgeVars
  <2> QED BY <2>2, <2>3, <2>4, LiveUnchanged, PartsNext
<1>3. CASE ~\E b \in BOOLEAN : EngineRestart(b)
  BY <1>3, EngineMovesTyped, MovesTyped DEF Moves
<1> QED BY <1>2, <1>3

-----------------------------------------------------------------------------
(* Events *)

\* What the event handlers write is typed.
GLTyped == FenceTyped /\ StatusTyped /\ CountersTyped /\ RecoveryTyped /\ ManualTyped /\ HistoryTyped

\* An observation taken from the wire.
LEMMA WitnessTyped ==
    ASSUME HistoryTyped, StatusTyped, NEW e \in EventType, NEW g \in Group
    PROVE  /\ Witness(e, g) => HistoryTyped'
           /\ Bump(wireRevision, g) \in [Group -> Nat]
<1>1. e.ver \in [Group -> Nat]
  BY DEF EventType
<1> QED BY <1>1 DEF Witness, Bump, HistoryTyped, StatusTyped

\* A transfer and the credit it leaves.
LEMMA TransferTyped ==
    ASSUME GLTyped, NEW e \in EventType, AcceptConnectRecovery(e)
    PROVE  GLTyped'
<1>1. CASE ~TransferAccepted(e)
  <2>1. UNCHANGED <<liveVars, historyVars>>
    BY <1>1 DEF AcceptConnectRecovery
  <2>2. /\ UNCHANGED fenceVars /\ UNCHANGED <<st, transportRevision, wireRevision>>
        /\ UNCHANGED <<routeDispatchSeq, stopped, nextRequest>>
        /\ UNCHANGED recoveryVars /\ UNCHANGED manualVars /\ UNCHANGED historyVars
    BY <2>1 DEF liveVars
  <2> QED BY <2>2, Unchanged DEF GLTyped
<1>2. CASE TransferAccepted(e)
  <2>1. e.bound \in BindingType
    BY <1>2 DEF TransferAccepted, Valid, EventType, Maybe
  <2>2. NewCredit(e) \in CreditType
    BY <2>1 DEF NewCredit, CreditType, EventType, GLTyped, FenceTyped, Maybe
  <2>3. /\ connectRecoverySeen' = [connectRecoverySeen EXCEPT ![e.bound.inc] = e.ord]
        /\ connectRecovery' = NewCredit(e) /\ connectRecoveryFence' = NewCredit(e)
        /\ UNCHANGED <<fenceVars, routeDispatchSeq, stopped, nextRequest, expired, manualVars>>
    BY <1>2 DEF AcceptConnectRecovery
  <2>4. e.ord \in Nat
    BY DEF EventType
  <2>5. RecoveryTyped'
    BY <2>2, <2>3, <2>4 DEF RecoveryTyped, GLTyped, Maybe
  <2>6. FenceTyped' /\ CountersTyped' /\ ManualTyped'
    <3>1. UNCHANGED fenceVars /\ UNCHANGED <<routeDispatchSeq, stopped, nextRequest>> /\ UNCHANGED manualVars
      BY <2>3
    <3> QED BY <3>1, Unchanged DEF GLTyped
  <2>7. StatusTyped' /\ HistoryTyped'
    <3>1. CASE e.load = 0
      <4>1. UNCHANGED <<st, transportRevision, wireRevision>> /\ UNCHANGED historyVars
        BY <1>2, <3>1 DEF AcceptConnectRecovery
      <4> QED BY <4>1, Unchanged DEF GLTyped
    <3>2. CASE e.load # 0
      <4>1. /\ st' = [st EXCEPT !.paused = e.res = 0 /\ e.initPaused]
            /\ wireRevision' = Bump(wireRevision, "transport")
            /\ transportRevision' = transportRevision + 1 /\ Witness(e, "transport")
        BY <1>2, <3>2 DEF AcceptConnectRecovery
      <4>2. (e.res = 0 /\ e.initPaused) \in BOOLEAN
        OBVIOUS
      <4>3. st' \in StatusType
        BY <4>1, <4>2 DEF GLTyped, StatusTyped, StatusType
      <4> QED BY <4>1, <4>3, WitnessTyped DEF GLTyped, StatusTyped, Group
    <3> QED BY <3>1, <3>2
  <2> QED BY <2>5, <2>6, <2>7 DEF GLTyped
<1> QED BY <1>1, <1>2

\* The choice of a room and the veto of an alien one.
LEMMA SelectedTyped ==
    ASSUME GLTyped, NEW e \in EventType, SelectedAlias(e), UNCHANGED transportRevision
    PROVE  StatusTyped' /\ aliasRevision' \in Nat /\ HistoryTyped'
<1> USE DEF GLTyped
<1>1. CASE ~e.ok
  <2>1. UNCHANGED <<st, transportRevision, wireRevision>> /\ UNCHANGED historyVars /\ UNCHANGED aliasRevision
    BY <1>1 DEF SelectedAlias
  <2> QED BY <2>1, Unchanged DEF FenceTyped
<1>2. CASE e.ok
  <2>1. /\ wireRevision' = Bump(wireRevision, "alias") /\ aliasRevision' = aliasRevision + 1
        /\ Witness(e, "alias")
        /\ st' = IF Vetoes(e) THEN [st EXCEPT !.bound = IF @ = None THEN EmptyBinding ELSE NotReady(@)]
                 ELSE [ApplyGLEvent(st, e) EXCEPT !.bound = e.bound]
    BY <1>2 DEF SelectedAlias
  <2>2. st.bound \in Maybe(BindingType) /\ st \in StatusType /\ e.bound \in Maybe(BindingType)
    BY DEF StatusTyped, StatusType, EventType
  <2>3. (IF st.bound = None THEN EmptyBinding ELSE NotReady(st.bound)) \in Maybe(BindingType)
    BY <2>2, BindingTyped DEF Maybe
  <2>4. ApplyGLEvent(st, e) \in StatusType
    BY <2>2, ApplyTyped
  <2>5. st' \in StatusType
    BY <2>1, <2>2, <2>3, <2>4 DEF StatusType
  <2> QED BY <2>1, <2>5, WitnessTyped DEF StatusTyped, FenceTyped, Group
<1> QED BY <1>1, <1>2

\* A manual volume action with the native identity observed for it.
LEMMA ManualEventTyped ==
    ASSUME GLTyped, NEW e \in EventType, AdmitManualEvent(e)
    PROVE  ManualTyped'
<1> DEFINE refused == \/ ~e.ok \/ ~Valid(st.bound) \/ e.bound # st.bound \/ e.sel # st.sel
                      \/ (manualOrdinal.inc = e.bound.inc /\ e.ord <= manualOrdinal.ord)
           o == manualObservation
           matches == /\ o # None /\ o.run = runEpoch /\ o.phase = phaseEpoch
                      /\ o.aliasRevision = aliasRevision /\ o.bound = e.bound /\ o.alias = e.sel
<1>1. CASE refused
  BY <1>1, Unchanged DEF AdmitManualEvent, GLTyped
<1>2. CASE ~refused
  <2>1. e.bound \in BindingType /\ e.ord \in Nat /\ e.sel \in AliasId
    BY <1>2 DEF Valid, EventType, Maybe
  <2>2. e.bound.inc \in Nat
    BY <2>1 DEF BindingType
  <2>3. /\ manualOrdinal' = [inc |-> e.bound.inc, ord |-> e.ord]
        /\ manualAction' = [run |-> runEpoch, phase |-> phaseEpoch, aliasRevision |-> aliasRevision,
                            bound |-> e.bound, alias |-> e.sel, ord |-> e.ord,
                            observation |-> IF matches THEN o ELSE None]
        /\ UNCHANGED manualObservation
    BY <1>2 DEF AdmitManualEvent
  <2>4. (IF matches THEN o ELSE None) \in Maybe(CatalogType)
    BY DEF GLTyped, ManualTyped, Maybe
  <2> HIDE DEF matches, o, refused
  <2>5. manualAction' \in ActionType
    BY <2>1, <2>3, <2>4 DEF ActionType, GLTyped, FenceTyped
  <2> QED BY <2>1, <2>2, <2>3, <2>5 DEF GLTyped, ManualTyped, Maybe
<1> QED BY <1>1, <1>2

\* Any other event.
LEMMA ApplyEventTyped ==
    ASSUME GLTyped, NEW e \in EventType, ApplyEvent(e)
    PROVE  GLTyped'
<1>1. UNCHANGED <<routeDispatchSeq, stopped, sourceRetired, runEpoch, phaseEpoch, nextRequest,
                  acceptedRequest, connectRecoveryFence, connectRecoverySeen, expired>>
  BY DEF ApplyEvent
<1>2. CountersTyped'
  BY <1>1, Unchanged DEF GLTyped
<1>3. CreditAfter(e) \in Maybe(CreditType)
  BY DEF CreditAfter, Observes, GLTyped, RecoveryTyped, Maybe, CreditType
<1>4. connectRecovery' \in Maybe(CreditType)
  BY <1>3 DEF ApplyEvent, GLTyped, RecoveryTyped
<1>5. RecoveryTyped'
  BY <1>1, <1>4 DEF GLTyped, RecoveryTyped
<1>6. StatusTyped' /\ aliasRevision' \in Nat /\ ManualTyped' /\ HistoryTyped'
  <2>1. CASE Superseded(e)
    <3>1. /\ UNCHANGED <<st, transportRevision, wireRevision>> /\ UNCHANGED manualVars
          /\ UNCHANGED historyVars /\ UNCHANGED aliasRevision
      BY <2>1 DEF ApplyEvent
    <3> QED BY <3>1, Unchanged DEF GLTyped, FenceTyped
  <2>2. ApplyGLEvent(st, e) \in StatusType
    BY ApplyTyped DEF GLTyped, StatusTyped
  <2>3. CASE ~Superseded(e) /\ e.kind \in TransportKinds
    <3>1. /\ st' = ApplyGLEvent(st, e) /\ wireRevision' = Bump(wireRevision, "transport")
          /\ transportRevision' = transportRevision + 1 /\ Witness(e, "transport")
          /\ UNCHANGED manualVars /\ UNCHANGED aliasRevision
      BY <2>3 DEF ApplyEvent, TransportKinds
    <3> QED BY <2>2, <3>1, Unchanged, WitnessTyped DEF GLTyped, StatusTyped, FenceTyped, Group
  <2>4. CASE ~Superseded(e) /\ e.kind = "volume"
    <3>1. /\ st' = ApplyGLEvent(st, e) /\ UNCHANGED transportRevision
          /\ UNCHANGED manualVars /\ UNCHANGED aliasRevision
          /\ IF e.ok THEN wireRevision' = Bump(wireRevision, "volume") /\ Witness(e, "volume")
                     ELSE UNCHANGED <<wireRevision, historyVars>>
      BY <2>4 DEF ApplyEvent, TransportKinds
    <3> QED BY <2>2, <3>1, Unchanged, WitnessTyped DEF GLTyped, StatusTyped, FenceTyped, Group
  <2>5. CASE ~Superseded(e) /\ e.kind = "selected_alias"
    <3>1. SelectedAlias(e) /\ UNCHANGED transportRevision /\ UNCHANGED manualVars
      BY <2>5 DEF ApplyEvent, TransportKinds
    <3> QED BY <3>1, Unchanged, SelectedTyped DEF GLTyped
  <2>6. CASE ~Superseded(e) /\ e.kind = "volume_action"
    <3>1. /\ AdmitManualEvent(e) /\ UNCHANGED <<st, transportRevision, wireRevision>>
          /\ UNCHANGED historyVars /\ UNCHANGED aliasRevision
      BY <2>6 DEF ApplyEvent, TransportKinds
    <3> QED BY <3>1, Unchanged, ManualEventTyped DEF GLTyped, FenceTyped
  <2> QED BY <2>1, <2>3, <2>4, <2>5, <2>6 DEF ApplyEvent
<1>7. FenceTyped'
  BY <1>1, <1>6 DEF GLTyped, FenceTyped
<1> QED BY <1>2, <1>5, <1>6, <1>7 DEF GLTyped

\* Whatever comes on the wire.
LEMMA SourceEventTyped ==
    ASSUME GLTyped, NEW src, NEW e \in EventType, ApplySourceEvent(src, e)
    PROVE  GLTyped'
<1>1. CASE ~SourceCurrent(src)
  <2>1. UNCHANGED <<liveVars, historyVars>>
    BY <1>1 DEF ApplySourceEvent
  <2>2. /\ UNCHANGED fenceVars /\ UNCHANGED <<st, transportRevision, wireRevision>>
        /\ UNCHANGED <<routeDispatchSeq, stopped, nextRequest>>
        /\ UNCHANGED recoveryVars /\ UNCHANGED manualVars /\ UNCHANGED historyVars
    BY <2>1 DEF liveVars
  <2> QED BY <2>2, Unchanged DEF GLTyped
<1>2. CASE SourceCurrent(src)
  BY <1>2, TransferTyped, ApplyEventTyped DEF ApplySourceEvent
<1> QED BY <1>1, <1>2

-----------------------------------------------------------------------------
(* The reader *)

\* A new or ended source, and a stop that is noticed.
LEMMA SourceTyped ==
    ASSUME FenceTyped, stopped \in BOOLEAN, NEW b \in BOOLEAN, NEW src,
           \/ NewSource(b, runEpoch) \/ NewSource(b, runEpoch + 1)
           \/ RetirePhase(src) \/ ObserveStop
    PROVE  FenceTyped'
<1>1. ASSUME NEW c \in BOOLEAN, NewSource(c, runEpoch) \/ NewSource(c, runEpoch + 1) PROVE FenceTyped'
  BY <1>1 DEF FenceTyped, NewSource
<1>2. CASE RetirePhase(src)
  BY <1>1, <1>2, Unchanged DEF RetirePhase
<1>3. CASE ObserveStop
  BY <1>3 DEF FenceTyped, ObserveStop, Retired, StopSeen, RunNow, PhaseNow, AliasRevisionNow
<1> QED BY <1>1, <1>2, <1>3

\* What the steps of the reader that are not events leave alone.
LEMMA ReaderKeeps ==
    ASSUME TypeOK, FenceTyped', EngineTyped', ReaderTyped', RequestsTyped',
           UNCHANGED <<st, transportRevision, routeDispatchSeq, stopped, nextRequest, wireRevision,
                       recoveryVars, manualVars, bridgeVars, historyVars>>
    PROVE  TypeOK'
<1>1. /\ UNCHANGED <<st, transportRevision, wireRevision>>
      /\ UNCHANGED <<routeDispatchSeq, stopped, nextRequest>>
      /\ UNCHANGED recoveryVars /\ UNCHANGED manualVars /\ UNCHANGED bridgeVars /\ UNCHANGED historyVars
  OBVIOUS
<1> QED BY <1>1, Parts, Unchanged, PartsNext

\* Runs and phases.
LEMMA PhaseTyped ==
    TypeOK /\ (BeginRun \/ BeginPhase \/ RetireRun \/ \E pc \in ReaderPC : LeavePhase(pc) /\ faults' \in Nat)
       => TypeOK'
<1> SUFFICES ASSUME TypeOK,
                    BeginRun \/ BeginPhase \/ RetireRun \/ \E pc \in ReaderPC : LeavePhase(pc) /\ faults' \in Nat
             PROVE  TypeOK'
  OBVIOUS
<1>1. FenceTyped /\ ReaderTyped /\ EngineTyped /\ stopped \in BOOLEAN
  BY Parts DEF CountersTyped
<1>2. runEpoch + 1 \in Nat /\ phaseEpoch + 1 \in Nat
  BY <1>1 DEF FenceTyped
<1>3. CASE BeginRun
  <2>1. /\ NewSource(FALSE, runEpoch + 1) /\ UNCHANGED engineVars /\ UNCHANGED <<requests, asked>>
        /\ reader' = [reader EXCEPT !.pc = "begin", !.run = runEpoch + 1]
        /\ UNCHANGED <<st, transportRevision, routeDispatchSeq, stopped, nextRequest, wireRevision,
                       recoveryVars, manualVars, bridgeVars, historyVars>>
    BY <1>3 DEF BeginRun
  <2>2. ReaderTyped'
    BY <1>1, <1>2, <2>1 DEF ReaderTyped, ReaderPC
  <2>3. FenceTyped' /\ EngineTyped' /\ RequestsTyped'
    BY <1>1, <2>1, Parts, Unchanged, SourceTyped
  <2> QED BY <2>1, <2>2, <2>3, ReaderKeeps
<1>4. CASE BeginPhase
  <2>1. /\ UNCHANGED engineVars /\ UNCHANGED <<requests, asked>>
        /\ NewSource(FALSE, runEpoch) \/ UNCHANGED fenceVars
        /\ \/ reader' = [reader EXCEPT !.pc = IF reader.pc = "begin" THEN "dial" ELSE "poll",
                                        !.phase = phaseEpoch + 1]
           \/ reader' = [reader EXCEPT !.pc = "exiting"]
        /\ UNCHANGED <<st, transportRevision, routeDispatchSeq, stopped, nextRequest, wireRevision,
                       recoveryVars, manualVars, bridgeVars, historyVars>>
    BY <1>4 DEF BeginPhase
  <2>2. ReaderTyped'
    BY <1>1, <1>2, <2>1 DEF ReaderTyped, ReaderPC
  <2>3. FenceTyped' /\ EngineTyped' /\ RequestsTyped'
    BY <1>1, <2>1, Parts, Unchanged, SourceTyped
  <2> QED BY <2>1, <2>2, <2>3, ReaderKeeps
<1>5. CASE RetireRun
  <2>1. /\ UNCHANGED engineVars /\ UNCHANGED <<requests, asked>>
        /\ NewSource(TRUE, runEpoch + 1) \/ UNCHANGED fenceVars
        /\ reader' = [reader EXCEPT !.pc = "done"]
        /\ UNCHANGED <<st, transportRevision, routeDispatchSeq, stopped, nextRequest, wireRevision,
                       recoveryVars, manualVars, bridgeVars, historyVars>>
    BY <1>5 DEF RetireRun
  <2>2. ReaderTyped'
    BY <1>1, <2>1 DEF ReaderTyped, ReaderPC
  <2>3. FenceTyped' /\ EngineTyped' /\ RequestsTyped'
    BY <1>1, <2>1, Parts, Unchanged, SourceTyped
  <2> QED BY <2>1, <2>2, <2>3, ReaderKeeps
<1>6. ASSUME NEW pc \in ReaderPC, LeavePhase(pc), faults' \in Nat PROVE TypeOK'
  <2>1. /\ RetirePhase(reader) /\ UNCHANGED <<requests, asked>>
        /\ reader' = [reader EXCEPT !.pc = pc]
        /\ eng' = [eng EXCEPT !.conn = FALSE] /\ wire' = <<>>
        /\ UNCHANGED <<st, transportRevision, routeDispatchSeq, stopped, nextRequest, wireRevision,
                       recoveryVars, manualVars, bridgeVars, historyVars>>
    BY <1>6 DEF LeavePhase
  <2>2. ReaderTyped'
    BY <1>1, <1>6, <2>1 DEF ReaderTyped
  <2>3. eng' \in EngineType
    BY <1>1, <2>1 DEF EngineTyped, EngineType
  <2>4. EngineTyped'
    BY <1>6, <2>1, <2>3 DEF EngineTyped
  <2>5. FenceTyped' /\ RequestsTyped'
    BY <1>1, <2>1, Parts, Unchanged, SourceTyped
  <2> QED BY <2>1, <2>2, <2>4, <2>5, ReaderKeeps
<1> QED BY <1>3, <1>4, <1>5, <1>6

\* A connection that opens or is refused.
LEMMA DialTyped == TypeOK /\ Dial => TypeOK'
<1> SUFFICES ASSUME TypeOK, Dial PROVE TypeOK' OBVIOUS
<1>1. ReaderTyped /\ EngineTyped
  BY Parts
<1>2. /\ UNCHANGED <<wire, liveVars, requests, asked, bridgeVars, historyVars>>
      /\ \/ /\ eng' = [eng EXCEPT !.conn = TRUE] /\ UNCHANGED faults
            /\ reader' = [reader EXCEPT !.pc = "seed"]
         \/ /\ faults' = faults + 1 /\ UNCHANGED eng
            /\ reader' = [reader EXCEPT !.pc = "poll"]
  BY DEF Dial
<1>3. ReaderTyped'
  BY <1>1, <1>2 DEF ReaderTyped, ReaderPC
<1>4. eng' \in EngineType
  BY <1>1, <1>2 DEF EngineTyped, EngineType
<1>5. EngineTyped'
  BY <1>1, <1>2, <1>4 DEF EngineTyped
<1>6. RequestsTyped' /\ BridgeTyped' /\ HistoryTyped'
  BY <1>2, Parts, Unchanged
<1> QED BY <1>2, <1>3, <1>5, <1>6, LiveUnchanged, PartsNext

\* A request that begins.
LEMMA BeginStatusTyped ==
    ASSUME TypeOK, BeginStatus, ReaderTyped'
    PROVE  TypeOK'
<1>1. /\ ReaderTyped /\ EngineTyped /\ StatusTyped /\ RequestsTyped
      /\ FenceTyped /\ CountersTyped /\ RecoveryTyped /\ ManualTyped /\ BridgeTyped /\ HistoryTyped
  BY Parts
<1>2. NewRequest \in RequestType
  BY <1>1, ZeroTyped DEF NewRequest, RequestType, ReaderTyped, CountersTyped, StatusTyped
<1>3. Seeable \in Nat
  BY <1>1 DEF Seeable, EngineTyped, EngineType, StatusTyped, Group
<1>4. /\ nextRequest' = nextRequest + 1 /\ asked' = Seeable
      /\ requests' = requests \cup {NewRequest}
      /\ UNCHANGED engineVars /\ UNCHANGED fenceVars
      /\ UNCHANGED <<st, transportRevision, wireRevision>> /\ UNCHANGED <<routeDispatchSeq, stopped>>
      /\ UNCHANGED recoveryVars /\ UNCHANGED manualVars /\ UNCHANGED bridgeVars /\ UNCHANGED historyVars
  BY DEF BeginStatus
<1>5. RequestsTyped'
  BY <1>1, <1>2, <1>3, <1>4 DEF RequestsTyped
<1>6. CountersTyped'
  BY <1>1, <1>4 DEF CountersTyped
<1> QED BY <1>1, <1>4, <1>5, <1>6, Unchanged, PartsNext

\* An answer, of the engine or of a failed exchange.
LEMMA AnswerTyped ==
    ASSUME TypeOK, NEW r \in requests, NEW s \in StatusType, Answer(r, s), faults' \in Nat
    PROVE  TypeOK'
<1>1. RequestsTyped /\ EngineTyped /\ ReaderTyped
  BY Parts
<1>2. r \in RequestType /\ eng.ver \in [Group -> Nat]
  BY <1>1 DEF RequestsTyped, EngineTyped, EngineType
<1>3. [r EXCEPT !.answered = TRUE, !.ans = s, !.ver = eng.ver] \in RequestType
  BY <1>2 DEF RequestType
<1>4. /\ requests' = (requests \ {r}) \cup {[r EXCEPT !.answered = TRUE, !.ans = s, !.ver = eng.ver]}
      /\ UNCHANGED <<eng, wire, asked, reader>> /\ UNCHANGED liveVars
      /\ UNCHANGED bridgeVars /\ UNCHANGED historyVars
  BY DEF Answer
<1>5. RequestsTyped'
  BY <1>1, <1>3, <1>4 DEF RequestsTyped
<1>6. EngineTyped'
  BY <1>1, <1>4 DEF EngineTyped
<1>7. ReaderTyped' /\ BridgeTyped' /\ HistoryTyped'
  BY <1>1, <1>4, Parts, Unchanged
<1> QED BY <1>4, <1>5, <1>6, <1>7, LiveUnchanged, PartsNext

\* An answer folded in, group by group.
LEMMA AcceptTyped ==
    ASSUME GLTyped, NEW r \in RequestType, AcceptStatus(r)
    PROVE  /\ st' \in StatusType /\ transportRevision' \in Nat /\ aliasRevision' \in Nat
           /\ acceptedRequest' \in Nat /\ HistoryTyped'
<1> USE DEF GLTyped
<1>1. st \in StatusType /\ st.bound \in Maybe(BindingType)
  BY DEF StatusTyped, StatusType
<1>2. CASE ~SourceCurrent(r) \/ r.seq <= acceptedRequest \/ ~\E g \in Group : Publishes(r, g)
  <2>1. UNCHANGED <<st, transportRevision, aliasRevision, acceptedRequest>> /\ UNCHANGED historyVars
    BY <1>2 DEF AcceptStatus
  <2> QED BY <1>1, <2>1, Unchanged DEF StatusTyped, FenceTyped
<1>3. CASE ~(~SourceCurrent(r) \/ r.seq <= acceptedRequest \/ ~\E g \in Group : Publishes(r, g))
  <2> DEFINE t == IF Publishes(r, "transport") THEN r.ans ELSE st
             v == IF Publishes(r, "volume") THEN r.ans ELSE st
             a == IF Publishes(r, "alias") THEN Reseeded(r.ans) ELSE st
  <2>1. /\ st' = [active |-> t.active, paused |-> t.paused, stopped |-> t.stopped,
                  vol |-> v.vol, sel |-> a.sel, bound |-> a.bound]
        /\ transportRevision' \in {transportRevision, transportRevision + 1}
        /\ aliasRevision' \in {aliasRevision, aliasRevision + 1}
        /\ acceptedRequest' = r.seq
        /\ pub' = [g \in Group |-> IF Publishes(r, g) THEN r.ver[g] ELSE pub[g]]
        /\ UNCHANGED wireSeen
    BY <1>3 DEF AcceptStatus
  <2>2. r.ans \in StatusType /\ r.seq \in Nat /\ r.ver \in [Group -> Nat]
    BY DEF RequestType
  <2>3. t \in StatusType /\ v \in StatusType
    BY <1>1, <2>2
  <2>4. a.sel \in AliasId /\ a.bound \in Maybe(BindingType)
    <3>1. r.ans.sel \in AliasId /\ r.ans.bound \in Maybe(BindingType) /\ st.sel \in AliasId
      BY <1>1, <2>2 DEF StatusType
    <3>2. st.bound # None => NotReady(st.bound) \in Maybe(BindingType)
      BY <1>1, BindingTyped DEF Maybe
    <3> QED BY <1>1, <3>1, <3>2 DEF Reseeded
  <2> HIDE DEF t, v, a
  <2>5. st' \in StatusType
    BY <2>1, <2>3, <2>4 DEF StatusType
  <2>6. HistoryTyped'
    BY <2>1, <2>2 DEF HistoryTyped
  <2>7. transportRevision' \in Nat /\ aliasRevision' \in Nat /\ acceptedRequest' \in Nat
    BY <2>1, <2>2 DEF StatusTyped, FenceTyped
  <2> QED BY <2>5, <2>6, <2>7
<1> QED BY <1>2, <1>3

\* The end of a status request.
LEMMA FinishTyped == ASSUME TypeOK, NEW r \in requests, FinishStatus(r) PROVE TypeOK'
<1>1. /\ EngineTyped /\ FenceTyped /\ StatusTyped /\ CountersTyped /\ RecoveryTyped
      /\ ManualTyped /\ ReaderTyped /\ RequestsTyped /\ BridgeTyped /\ HistoryTyped
  BY Parts
<1>2. /\ AcceptStatus(r) /\ requests' = requests \ {r} /\ UNCHANGED asked
      /\ UNCHANGED engineVars /\ UNCHANGED <<sourceRetired, runEpoch, phaseEpoch>>
      /\ UNCHANGED <<routeDispatchSeq, stopped, nextRequest>> /\ UNCHANGED wireRevision
      /\ UNCHANGED recoveryVars /\ UNCHANGED manualVars /\ UNCHANGED bridgeVars
      /\ reader' = IF reader.pc \in {"seeding", "polling"} /\ r.phase = reader.phase
                   THEN [reader EXCEPT !.pc = IF ~SourceCurrent(r) THEN "stopping"
                                              ELSE IF reader.pc = "seeding" THEN "read" ELSE "polled"]
                   ELSE reader
  BY DEF FinishStatus
<1>3. r \in RequestType
  BY <1>1 DEF RequestsTyped
<1>4. /\ st' \in StatusType /\ transportRevision' \in Nat /\ aliasRevision' \in Nat
      /\ acceptedRequest' \in Nat /\ HistoryTyped'
  BY <1>1, <1>2, <1>3, AcceptTyped DEF GLTyped
<1>5. ReaderTyped'
  BY <1>1, <1>2 DEF ReaderTyped, ReaderPC
<1>6. RequestsTyped'
  BY <1>1, <1>2 DEF RequestsTyped
<1>7. FenceTyped' /\ StatusTyped'
  BY <1>1, <1>2, <1>4 DEF FenceTyped, StatusTyped
<1> QED BY <1>1, <1>2, <1>4, <1>5, <1>6, <1>7, Unchanged, PartsNext

\* An event read from the socket.
LEMMA ReadTyped == TypeOK /\ ReadEvent => TypeOK'
<1> SUFFICES ASSUME TypeOK, ReadEvent PROVE TypeOK' OBVIOUS
<1>1. /\ EngineTyped /\ FenceTyped /\ StatusTyped /\ CountersTyped /\ RecoveryTyped
      /\ ManualTyped /\ ReaderTyped /\ RequestsTyped /\ BridgeTyped /\ HistoryTyped
  BY Parts
<1>2. /\ wire # <<>> /\ wire' = Tail(wire) /\ ApplySourceEvent(reader, Head(wire))
      /\ UNCHANGED <<eng, faults>> /\ UNCHANGED reader /\ UNCHANGED <<requests, asked>>
      /\ UNCHANGED bridgeVars
  BY DEF ReadEvent
<1>3. Head(wire) \in EventType /\ wire' \in Seq(EventType)
  BY <1>1, <1>2 DEF EngineTyped
<1>4. GLTyped'
  BY <1>1, <1>2, <1>3, SourceEventTyped DEF GLTyped
<1>5. EngineTyped'
  BY <1>1, <1>2, <1>3 DEF EngineTyped
<1> QED BY <1>1, <1>2, <1>4, <1>5, Unchanged, PartsNext DEF GLTyped

-----------------------------------------------------------------------------
(* The bridge *)

\* A capture of the present moment.
LEMMA CaptureTyped ==
    ASSUME TypeOK
    PROVE  /\ RunNow \in Nat /\ PhaseNow \in Nat /\ AliasRevisionNow \in Nat
           /\ st.sel \in AliasId /\ Intent \in IntentType
<1>1. FenceTyped /\ StatusTyped
  BY Parts
<1>2. /\ RunNow \in Nat /\ PhaseNow \in Nat /\ AliasRevisionNow \in Nat
  BY <1>1 DEF FenceTyped, RunNow, PhaseNow, AliasRevisionNow
<1>3. st.sel \in AliasId
  BY <1>1 DEF StatusTyped, StatusType
<1>4. Intent \in IntentType
  BY <1>1, <1>2, <1>3 DEF Intent, IntentOf, IntentType, StatusTyped
<1> QED BY <1>2, <1>3, <1>4

\* The steps of the bridge and of its catalog requests.
LEMMA BridgeStepTyped == TypeOK /\ Bridge => TypeOK'
<1> SUFFICES ASSUME TypeOK, Bridge PROVE TypeOK' OBVIOUS
<1>1. /\ EngineTyped /\ FenceTyped /\ StatusTyped /\ CountersTyped /\ RecoveryTyped
      /\ ManualTyped /\ ReaderTyped /\ RequestsTyped /\ BridgeTyped /\ HistoryTyped
  BY Parts
<1>2. /\ ObserveStop /\ UNCHANGED engineVars /\ UNCHANGED reader /\ UNCHANGED <<requests, asked>>
      /\ UNCHANGED <<st, transportRevision, wireRevision>> /\ UNCHANGED <<stopped, nextRequest>>
      /\ UNCHANGED recoveryVars /\ UNCHANGED historyVars
  BY DEF Bridge, Snapshot, AdmitRoute, AdmitTransport, CatalogRequest, CatalogAnswer, unreadVars
<1>3. FenceTyped'
  BY <1>1, <1>2, SourceTyped DEF CountersTyped
<1>4. EngineTyped' /\ StatusTyped' /\ RecoveryTyped' /\ ReaderTyped' /\ RequestsTyped' /\ HistoryTyped'
  BY <1>1, <1>2, Unchanged
<1>5. CountersTyped'
  BY <1>1, <1>2 DEF CountersTyped, Bridge, Snapshot, AdmitRoute, AdmitTransport, CatalogRequest, CatalogAnswer
<1>6. ManualTyped' /\ BridgeTyped'
  <2>1. CASE Snapshot
    <3>1. /\ snap' = [st |-> st, intent |-> Intent, acted |-> FALSE] /\ UNCHANGED catalog
          /\ UNCHANGED manualVars
      BY <2>1 DEF Snapshot
    <3>2. BridgeTyped'
      BY <1>1, <3>1, CaptureTyped DEF BridgeTyped, StatusTyped, Maybe
    <3> QED BY <1>1, <3>1, <3>2, Unchanged
  <2>2. CASE AdmitRoute
    <3>1. UNCHANGED manualVars /\ UNCHANGED bridgeVars
      BY <2>2 DEF AdmitRoute
    <3> QED BY <1>1, <3>1, Unchanged
  <2>3. CASE AdmitTransport
    <3> DEFINE acts == /\ snap.intent = Intent /\ Routable(snap.st.sel, snap.intent.aliasRevision)
                       /\ ~NativeBoundTransport
    <3>1. snap # None /\ snap' = [snap EXCEPT !.acted = acts] /\ UNCHANGED catalog /\ UNCHANGED manualVars
      BY <2>3 DEF AdmitTransport
    <3>2. acts \in BOOLEAN
      OBVIOUS
    <3> HIDE DEF acts
    <3>3. BridgeTyped'
      BY <1>1, <3>1, <3>2 DEF BridgeTyped, Maybe
    <3> QED BY <1>1, <3>1, <3>3, Unchanged
  <2>4. CASE CatalogRequest
    <3>1. /\ UNCHANGED snap /\ UNCHANGED manualVars
          /\ catalog' = IF Valid(st.bound) /\ ~Retired
                        THEN [run |-> RunNow, phase |-> PhaseNow, aliasRevision |-> AliasRevisionNow,
                              alias |-> st.sel, bound |-> st.bound]
                        ELSE None
      BY <2>4 DEF CatalogRequest
    <3>2. Valid(st.bound) => st.bound \in BindingType
      BY <1>1 DEF Valid, StatusTyped, StatusType, Maybe
    <3>3. catalog' \in Maybe(CatalogType)
      BY <3>1, <3>2, CaptureTyped DEF CatalogType, Maybe
    <3> QED BY <1>1, <3>1, <3>3, Unchanged DEF BridgeTyped
  <2>5. ASSUME NEW found \in BOOLEAN, CatalogAnswer(found) PROVE ManualTyped' /\ BridgeTyped'
    <3>1. /\ manualObservation' \in {catalog, manualObservation} /\ catalog' = None
          /\ UNCHANGED <<manualOrdinal, manualAction, snap>>
      BY <2>5 DEF CatalogAnswer
    <3> QED BY <1>1, <3>1 DEF ManualTyped, BridgeTyped, Maybe
  <2> QED BY <2>1, <2>2, <2>3, <2>4, <2>5 DEF Bridge
<1> QED BY <1>3, <1>4, <1>5, <1>6, PartsNext

-----------------------------------------------------------------------------
(* The theorem *)

\* The initial state is typed.
LEMMA TypeInit == Init => TypeOK
<1> SUFFICES ASSUME Init PROVE TypeOK OBVIOUS
<1>1. EngineTyped
  <2>1. PICK b \in BOOLEAN, started \in Started, a \in Alias :
          eng = [inc |-> 1, bound |-> b, conn |-> FALSE, ver |-> Zero,
                 st |-> [ZeroStatus EXCEPT !.active = started, !.sel = IF started THEN a ELSE 0],
                 n |-> 0, ord |-> 0, load |-> 0, res |-> 0]
    BY DEF Init
  <2>2. started \in BOOLEAN /\ a \in AliasId /\ 0 \in AliasId
    BY ConstantsAssumption DEF AliasId
  <2>3. [ZeroStatus EXCEPT !.active = started, !.sel = IF started THEN a ELSE 0] \in StatusType
    BY <2>2, ZeroTyped DEF StatusType
  <2>4. eng \in EngineType
    BY <2>1, <2>3, ZeroTyped DEF EngineType
  <2> QED BY <2>4 DEF Init, EngineTyped
<1>2. FenceTyped /\ CountersTyped /\ RequestsTyped /\ BridgeTyped
  BY DEF Init, FenceTyped, CountersTyped, RequestsTyped, BridgeTyped, Maybe
<1>3. StatusTyped /\ HistoryTyped
  BY ZeroTyped DEF Init, StatusTyped, HistoryTyped
<1>4. RecoveryTyped /\ ManualTyped
  BY DEF Init, RecoveryTyped, ManualTyped, Maybe
<1>5. ReaderTyped
  BY DEF Init, ReaderTyped, ReaderPC
<1> QED BY <1>1, <1>2, <1>3, <1>4, <1>5, Parts

\* Every step keeps every variable in its type.
LEMMA TypeNext == TypeOK /\ [Next]_vars => TypeOK'
<1> SUFFICES ASSUME TypeOK, [Next]_vars PROVE TypeOK' OBVIOUS
<1>0. faults \in Nat
  BY Parts DEF EngineTyped
<1>1. CASE Engine
  BY <1>1, EngineStepTyped
<1>2. CASE Stop
  <2>1. /\ stopped' = TRUE /\ UNCHANGED <<routeDispatchSeq, nextRequest>>
        /\ UNCHANGED engineVars /\ UNCHANGED fenceVars /\ UNCHANGED <<st, transportRevision, wireRevision>>
        /\ UNCHANGED recoveryVars /\ UNCHANGED manualVars /\ UNCHANGED reader
        /\ UNCHANGED <<requests, asked>> /\ UNCHANGED bridgeVars /\ UNCHANGED historyVars
    BY <1>2 DEF Stop, bridgeVars
  <2>2. CountersTyped'
    BY <2>1, Parts DEF CountersTyped
  <2> QED BY <2>1, <2>2, Parts, Unchanged, PartsNext
<1>3. CASE BeginRun \/ BeginPhase \/ RetireRun
  BY <1>3, PhaseTyped
<1>4. CASE PollDone \/ SocketFails \/ SocketEnds \/ ReaderStops
  <2>1. \E pc \in {"begin", "gap", "exiting"} : LeavePhase(pc) /\ faults' \in {faults, faults + 1}
    BY <1>4 DEF PollDone, SocketFails, SocketEnds, ReaderStops
  <2> QED BY <1>0, <2>1, PhaseTyped DEF ReaderPC
<1>5. CASE Dial
  BY <1>5, DialTyped
<1>6. CASE ReaderRequest \/ Reseed
  <2>1. BeginStatus /\ (UNCHANGED reader \/ \E pc \in {"seeding", "polling"} : reader' = [reader EXCEPT !.pc = pc])
    BY <1>6 DEF ReaderRequest, Reseed
  <2>2. ReaderTyped'
    BY <2>1, Parts DEF ReaderTyped, ReaderPC
  <2> QED BY <2>1, <2>2, BeginStatusTyped
<1>7. CASE AnswerOk
  BY <1>0, <1>7, AnswerTyped, EngineTypes, Parts DEF AnswerOk
<1>8. CASE AnswerFails
  BY <1>0, <1>8, AnswerTyped, ZeroTyped DEF AnswerFails
<1>9. CASE ReadEvent
  BY <1>9, ReadTyped
<1>10. CASE FinishSome
  BY <1>10, FinishTyped DEF FinishSome
<1>11. CASE Bridge
  BY <1>11, BridgeStepTyped
<1>12. CASE UNCHANGED vars
  <2>1. UNCHANGED engineVars /\ UNCHANGED liveVars /\ UNCHANGED reader /\ UNCHANGED <<requests, asked>>
        /\ UNCHANGED <<snap, catalog>> /\ UNCHANGED historyVars
    BY <1>12 DEF vars
  <2>2. EngineTyped' /\ ReaderTyped' /\ RequestsTyped' /\ BridgeTyped' /\ HistoryTyped'
    BY <2>1, Parts, Unchanged DEF bridgeVars
  <2> QED BY <2>1, <2>2, LiveUnchanged, PartsNext
<1> QED BY <1>1, <1>2, <1>3, <1>4, <1>5, <1>6, <1>7, <1>8, <1>9, <1>10, <1>11, <1>12 DEF Next, ReaderStep

\* TypeOK: every variable of the live view, every message and every capture keeps its type in
\* every reachable state, for every set of aliases, kinds of event and bounds.
THEOREM TypeOKAlways == Spec => []TypeOK
BY TypeInit, TypeNext, PTL DEF Spec

-----------------------------------------------------------------------------
(* A status answer never undoes a newer websocket event.  An answer carries  *)
(* the versions the engine had when it answered; these are no older than     *)
(* anything delivered by then.  Events delivered later bump the group's wire *)
(* revision, so that acceptStatus does not publish the group.  And the       *)
(* binding never goes back to an engine that was replaced.                   *)

\* Versions only move forward from the engine through the socket to the live view.
Ordered ==
    \A g \in Group :
       /\ eng.ver[g] <= eng.n
       /\ wireSeen[g] <= eng.ver[g]
       /\ \A i \in 1..Len(wire) : wire[i].ver[g] <= eng.ver[g]

\* An answer that would still be published is no older than what the socket delivered.
AnswersFresh ==
    \A r \in requests, g \in Group :
       /\ r.wire[g] <= wireRevision[g]
       /\ r.answered /\ Publishes(r, g) => wireSeen[g] <= r.ver[g]

WireInv == TypeOK /\ StatusNeverUndoesWire /\ Ordered /\ AnswersFresh

\* What an event does to the history of the groups: nothing, or one group takes its version.
WireStep(e) ==
    \/ UNCHANGED <<wireRevision, pub, wireSeen>>
    \/ \E g \in Group : wireRevision' = Bump(wireRevision, g) /\ Witness(e, g)

-----------------------------------------------------------------------------
(* The steps that touch versions *)

\* Every event handler is a WireStep.
LEMMA EventWireStep ==
    ASSUME NEW src, NEW e, ApplySourceEvent(src, e)
    PROVE  WireStep(e)
<1>1. CASE ~SourceCurrent(src)
  BY <1>1 DEF ApplySourceEvent, WireStep, liveVars, historyVars
<1>2. CASE SourceCurrent(src) /\ e.kind = "connect_transfer"
  <2>1. AcceptConnectRecovery(e)
    BY <1>2 DEF ApplySourceEvent
  <2> QED BY <2>1 DEF AcceptConnectRecovery, WireStep, liveVars, historyVars, Group
<1>3. CASE SourceCurrent(src) /\ e.kind # "connect_transfer"
  <2>1. ApplyEvent(e)
    BY <1>3 DEF ApplySourceEvent
  <2>2. CASE Superseded(e)
    BY <2>1, <2>2 DEF ApplyEvent, WireStep, historyVars
  <2>3. CASE ~Superseded(e) /\ e.kind \in TransportKinds
    BY <2>1, <2>3 DEF ApplyEvent, TransportKinds, WireStep, Group
  <2>4. CASE ~Superseded(e) /\ e.kind = "volume"
    BY <2>1, <2>4 DEF ApplyEvent, TransportKinds, WireStep, Group, historyVars
  <2>5. CASE ~Superseded(e) /\ e.kind = "selected_alias"
    BY <2>1, <2>5 DEF ApplyEvent, SelectedAlias, TransportKinds, WireStep, Group, historyVars
  <2>6. CASE ~Superseded(e) /\ e.kind = "volume_action"
    BY <2>1, <2>6 DEF ApplyEvent, TransportKinds, WireStep, historyVars
  <2> QED BY <2>1, <2>2, <2>3, <2>4, <2>5, <2>6 DEF ApplyEvent
<1> QED BY <1>1, <1>2, <1>3

\* A step that leaves the engine's versions, the socket and the answers alone.
LEMMA KeepsWire ==
    ASSUME WireInv, UNCHANGED <<eng.ver, eng.n, wire, requests, wireRevision, pub, wireSeen>>
    PROVE  StatusNeverUndoesWire' /\ Ordered' /\ AnswersFresh'
BY DEF WireInv, StatusNeverUndoesWire, Ordered, AnswersFresh, Publishes

\* A change of the engine: its versions grow and its event carries them.
LEMMA MovesOrdered ==
    ASSUME WireInv, NEW next, NEW e \in EventType, NEW loud \in BOOLEAN, next \in EngineType,
           EngineMoves(next, e, loud)
    PROVE  StatusNeverUndoesWire' /\ Ordered' /\ AnswersFresh'
<1> DEFINE n == eng.n + 1
           ver == [g \in Group |-> IF g \in GroupOf(e.kind) THEN n ELSE eng.ver[g]]
           event == [e EXCEPT !.ver = ver, !.n = n]
<1>1. /\ eng.n \in Nat /\ eng.ver \in [Group -> Nat] /\ wire \in Seq(EventType)
      /\ wireSeen \in [Group -> Nat]
  BY DEF WireInv, TypeOK
<1>2. /\ eng' = [next EXCEPT !.n = n, !.ver = ver]
      /\ wire' = IF loud THEN Append(wire, event) ELSE wire
      /\ UNCHANGED liveVars /\ UNCHANGED requests /\ UNCHANGED historyVars
  BY DEF EngineMoves
<1>3. UNCHANGED <<requests, wireRevision, pub, wireSeen>>
  BY <1>2 DEF liveVars, historyVars
<1>4. eng'.n = n /\ eng'.ver = ver
  BY <1>2 DEF EngineType
<1>5. event.ver = ver
  BY DEF EventType
<1>6. \A g \in Group : ver[g] <= n /\ eng.ver[g] <= ver[g] /\ ver[g] \in Nat
  BY <1>1 DEF WireInv, Ordered
<1> HIDE DEF event, ver, n
<1>7. \A i \in 1..Len(wire'), g \in Group : wire'[i].ver[g] <= ver[g]
  <2>1. \A i \in 1..Len(wire), g \in Group : wire[i].ver[g] <= ver[g]
    <3> SUFFICES ASSUME NEW i \in 1..Len(wire), NEW g \in Group PROVE wire[i].ver[g] <= ver[g]
      OBVIOUS
    <3>1. wire[i] \in EventType
      BY <1>1
    <3>2. wire[i].ver[g] \in Nat /\ eng.ver[g] \in Nat /\ wire[i].ver[g] <= eng.ver[g]
      BY <1>1, <3>1 DEF EventType, WireInv, Ordered
    <3> QED BY <1>6, <3>2
  <2>2. CASE loud
    <3>1. wire' = Append(wire, event)
      BY <1>2, <2>2
    <3>2. Len(wire') = Len(wire) + 1 /\ wire'[Len(wire) + 1] = event
          /\ \A i \in 1..Len(wire) : wire'[i] = wire[i]
      BY <1>1, <3>1
    <3>3. Len(wire) \in Nat
      BY <1>1
    <3>4. \A g \in Group : event.ver[g] <= ver[g]
      BY <1>5, <1>6
    <3>5. \A i \in 1..Len(wire') : i \in 1..Len(wire) \/ i = Len(wire) + 1
      BY <3>2, <3>3
    <3> QED BY <2>1, <3>2, <3>4, <3>5
  <2>3. CASE ~loud
    BY <1>2, <2>1, <2>3
  <2> QED BY <2>2, <2>3
<1>8. \A g \in Group : wireSeen[g] <= ver[g]
  BY <1>1, <1>6 DEF WireInv, Ordered
<1> QED BY <1>3, <1>4, <1>6, <1>7, <1>8
     DEF WireInv, StatusNeverUndoesWire, Ordered, AnswersFresh, Publishes

\* Every change of the engine is such a step, or the restart, which raises every version.
LEMMA EngineOrdered ==
    ASSUME WireInv, Engine
    PROVE  StatusNeverUndoesWire' /\ Ordered' /\ AnswersFresh'
<1>1. CASE \E b \in BOOLEAN : EngineRestart(b)
  <2>1. /\ eng'.n = eng.n + 1 /\ eng'.ver = [g \in Group |-> eng.n + 1]
        /\ UNCHANGED wire /\ UNCHANGED liveVars /\ UNCHANGED requests /\ UNCHANGED historyVars
    BY <1>1 DEF EngineRestart, WireInv, TypeOK
  <2>2. UNCHANGED <<requests, wireRevision, pub, wireSeen>>
    BY <2>1 DEF liveVars, historyVars
  <2>3. /\ eng.n \in Nat /\ eng.ver \in [Group -> Nat] /\ wire \in Seq(EventType)
        /\ wireSeen \in [Group -> Nat]
    BY DEF WireInv, TypeOK
  <2>4. \A g \in Group : eng.ver[g] <= eng'.ver[g] /\ eng'.ver[g] <= eng'.n /\ eng'.ver[g] \in Nat
    BY <2>1, <2>3 DEF WireInv, Ordered
  <2>5. \A i \in 1..Len(wire), g \in Group : wire[i].ver[g] \in Nat
    <3> SUFFICES ASSUME NEW i \in 1..Len(wire), NEW g \in Group PROVE wire[i].ver[g] \in Nat
      OBVIOUS
    <3>1. wire[i] \in EventType
      BY <2>3
    <3> QED BY <3>1 DEF EventType
  <2>6. Ordered'
    BY <2>1, <2>2, <2>3, <2>4, <2>5 DEF WireInv, Ordered
  <2> QED BY <2>2, <2>6 DEF WireInv, StatusNeverUndoesWire, AnswersFresh, Publishes
<1>2. CASE ~\E b \in BOOLEAN : EngineRestart(b)
  BY <1>2, EngineMovesTyped, MovesOrdered DEF WireInv, Moves
<1> QED BY <1>1, <1>2

-----------------------------------------------------------------------------
(* Delivery and requests *)

\* An event that is delivered is newer than every answer it has not already fenced off.
LEMMA ReadOrdered ==
    ASSUME WireInv, ReadEvent
    PROVE  StatusNeverUndoesWire' /\ Ordered' /\ AnswersFresh'
<1> DEFINE e == Head(wire)
<1>1. /\ wire # <<>> /\ wire' = Tail(wire) /\ ApplySourceEvent(reader, e)
      /\ UNCHANGED <<eng, requests>>
  BY DEF ReadEvent
<1>2. /\ wire \in Seq(EventType) /\ requests \subseteq RequestType /\ wireRevision \in [Group -> Nat]
      /\ pub \in [Group -> Nat] /\ wireSeen \in [Group -> Nat]
  BY DEF WireInv, TypeOK
<1>3. e = wire[1] /\ 1 \in 1..Len(wire) /\ e \in EventType
  BY <1>1, <1>2
<1>4. \A g \in Group : e.ver[g] \in Nat /\ e.ver[g] <= eng.ver[g]
  BY <1>3 DEF WireInv, Ordered, EventType
<1>5. \A i \in 1..Len(wire') : i + 1 \in 1..Len(wire) /\ wire'[i] = wire[i + 1]
  BY <1>1, <1>2
<1>6. \A g \in Group : \A i \in 1..Len(wire') : wire'[i].ver[g] <= eng.ver[g]
  BY <1>5 DEF WireInv, Ordered
<1> HIDE DEF e
<1>7. CASE UNCHANGED <<wireRevision, pub, wireSeen>>
  BY <1>1, <1>6, <1>7 DEF WireInv, StatusNeverUndoesWire, Ordered, AnswersFresh, Publishes
<1>8. ASSUME NEW h \in Group, wireRevision' = Bump(wireRevision, h), Witness(e, h)
      PROVE  StatusNeverUndoesWire' /\ Ordered' /\ AnswersFresh'
  <2>1. /\ pub' = [pub EXCEPT ![h] = e.ver[h]] /\ wireSeen' = [wireSeen EXCEPT ![h] = e.ver[h]]
        /\ wireRevision' = [wireRevision EXCEPT ![h] = @ + 1]
    BY <1>8 DEF Witness, Bump
  <2>2. StatusNeverUndoesWire'
    BY <1>2, <1>4, <2>1 DEF WireInv, StatusNeverUndoesWire
  <2>3. \A g \in Group : wireSeen'[g] <= eng.ver[g]
    BY <1>2, <1>4, <2>1 DEF WireInv, Ordered
  <2>4. Ordered'
    BY <1>1, <1>6, <2>3 DEF WireInv, Ordered
  <2>5. ASSUME NEW r \in requests, NEW g \in Group
        PROVE  /\ r.wire[g] <= wireRevision'[g]
               /\ r.answered /\ r.wire[g] = wireRevision'[g] => wireSeen'[g] <= r.ver[g]
    <3>1. r.wire[g] \in Nat /\ r.wire[g] <= wireRevision[g] /\ wireRevision[g] \in Nat
      BY <1>2 DEF WireInv, AnswersFresh, RequestType
    <3>2. CASE g = h
      BY <1>2, <2>1, <3>1, <3>2
    <3>3. CASE g # h
      BY <1>2, <2>1, <3>1, <3>3 DEF WireInv, AnswersFresh, Publishes
    <3> QED BY <3>2, <3>3
  <2>6. AnswersFresh'
    BY <1>1, <2>5 DEF AnswersFresh, Publishes
  <2> QED BY <2>2, <2>4, <2>6
<1> QED BY <1>1, <1>7, <1>8, EventWireStep DEF WireStep

\* A request begins behind everything delivered so far.
LEMMA BeginOrdered ==
    ASSUME WireInv, BeginStatus
    PROVE  StatusNeverUndoesWire' /\ Ordered' /\ AnswersFresh'
<1>1. /\ requests' = requests \cup {NewRequest}
      /\ UNCHANGED <<eng, wire, wireRevision, pub, wireSeen>>
  BY DEF BeginStatus, engineVars, historyVars
<1>2. ~NewRequest.answered /\ NewRequest.wire = wireRevision
  BY DEF NewRequest
<1>3. wireRevision \in [Group -> Nat]
  BY DEF WireInv, TypeOK
<1>4. StatusNeverUndoesWire' /\ Ordered'
  BY <1>1 DEF WireInv, StatusNeverUndoesWire, Ordered
<1>5. AnswersFresh'
  BY <1>1, <1>2, <1>3 DEF WireInv, AnswersFresh, Publishes
<1> QED BY <1>4, <1>5

\* An answer carries the versions of the engine, which are no older than what was delivered.
LEMMA AnswerOrdered ==
    ASSUME WireInv, NEW q \in requests, NEW s, Answer(q, s)
    PROVE  StatusNeverUndoesWire' /\ Ordered' /\ AnswersFresh'
<1> DEFINE new == [q EXCEPT !.answered = TRUE, !.ans = s, !.ver = eng.ver]
<1>1. /\ requests' = (requests \ {q}) \cup {new}
      /\ UNCHANGED <<eng, wire>> /\ UNCHANGED liveVars /\ UNCHANGED historyVars
  BY DEF Answer
<1>2. UNCHANGED <<eng, wire, wireRevision, pub, wireSeen>>
  BY <1>1 DEF liveVars, historyVars
<1>3. q \in RequestType
  BY DEF WireInv, TypeOK
<1>4. new.wire = q.wire /\ new.ver = eng.ver
  BY <1>3 DEF RequestType
<1> HIDE DEF new
<1>5. StatusNeverUndoesWire' /\ Ordered'
  BY <1>2 DEF WireInv, StatusNeverUndoesWire, Ordered
<1>6. AnswersFresh'
  BY <1>1, <1>2, <1>4 DEF WireInv, Ordered, AnswersFresh, Publishes
<1> QED BY <1>5, <1>6

\* An answer that is folded in replaces a group only by something as new as what was delivered.
LEMMA FinishOrdered ==
    ASSUME WireInv, NEW q \in requests, FinishStatus(q)
    PROVE  StatusNeverUndoesWire' /\ Ordered' /\ AnswersFresh'
<1>1. /\ q.answered /\ requests' = requests \ {q} /\ AcceptStatus(q)
      /\ UNCHANGED <<eng, wire, wireRevision>>
  BY DEF FinishStatus, engineVars
<1>2. /\ UNCHANGED wireSeen
      /\ pub' \in {pub, [g \in Group |-> IF Publishes(q, g) THEN q.ver[g] ELSE pub[g]]}
  BY <1>1 DEF AcceptStatus, historyVars
<1>3. StatusNeverUndoesWire'
  BY <1>1, <1>2 DEF WireInv, StatusNeverUndoesWire, AnswersFresh
<1>4. Ordered' /\ AnswersFresh'
  BY <1>1, <1>2 DEF WireInv, Ordered, AnswersFresh, Publishes
<1> QED BY <1>3, <1>4

\* The end of a phase empties the socket.
LEMMA LeaveOrdered ==
    ASSUME WireInv, NEW pc, LeavePhase(pc)
    PROVE  StatusNeverUndoesWire' /\ Ordered' /\ AnswersFresh'
<1>1. /\ eng' = [eng EXCEPT !.conn = FALSE] /\ wire' = <<>>
      /\ UNCHANGED <<requests, wireRevision, pub, wireSeen>>
  BY DEF LeavePhase, historyVars
<1>2. eng'.ver = eng.ver /\ eng'.n = eng.n
  BY <1>1 DEF WireInv, TypeOK
<1>3. Len(wire') = 0
  BY <1>1
<1> QED BY <1>1, <1>2, <1>3 DEF WireInv, StatusNeverUndoesWire, Ordered, AnswersFresh, Publishes

-----------------------------------------------------------------------------
(* The theorem *)

\* Nothing is delivered or published before the first step.
LEMMA WireInit == Init => WireInv
<1> SUFFICES ASSUME Init PROVE WireInv OBVIOUS
<1>1. /\ eng.ver = Zero /\ eng.n = 0 /\ wire = <<>> /\ requests = {} /\ pub = Zero /\ wireSeen = Zero
  BY DEF Init
<1>2. StatusNeverUndoesWire /\ Ordered /\ AnswersFresh
  BY <1>1 DEF StatusNeverUndoesWire, Ordered, AnswersFresh, Zero
<1> QED BY <1>2, TypeInit DEF WireInv

\* Every step keeps the invariant.
LEMMA WireNext == WireInv /\ [Next]_vars => WireInv'
<1> SUFFICES ASSUME WireInv, [Next]_vars
             PROVE  StatusNeverUndoesWire' /\ Ordered' /\ AnswersFresh'
  BY TypeNext DEF WireInv
<1>1. CASE Engine
  BY <1>1, EngineOrdered
<1>2. CASE ReadEvent
  BY <1>2, ReadOrdered
<1>3. CASE ReaderRequest \/ Reseed
  BY <1>3, BeginOrdered DEF ReaderRequest, Reseed
<1>4. CASE AnswerOk \/ AnswerFails
  BY <1>4, AnswerOrdered DEF AnswerOk, AnswerFails
<1>5. CASE FinishSome
  BY <1>5, FinishOrdered DEF FinishSome
<1>6. CASE PollDone \/ SocketFails \/ SocketEnds \/ ReaderStops
  BY <1>6, LeaveOrdered DEF PollDone, SocketFails, SocketEnds, ReaderStops
<1>7. CASE Dial
  <2>1. /\ eng' = [eng EXCEPT !.conn = TRUE] \/ UNCHANGED eng
        /\ UNCHANGED <<wire, requests>> /\ UNCHANGED liveVars /\ UNCHANGED historyVars
    BY <1>7 DEF Dial
  <2>2. eng'.ver = eng.ver /\ eng'.n = eng.n
    BY <2>1 DEF WireInv, TypeOK
  <2> QED BY <2>1, <2>2, KeepsWire DEF liveVars, historyVars
<1>8. CASE Stop \/ BeginRun \/ BeginPhase \/ RetireRun
  <2>1. UNCHANGED engineVars /\ UNCHANGED <<requests, wireRevision>> /\ UNCHANGED historyVars
    BY <1>8 DEF Stop, BeginRun, BeginPhase, RetireRun
  <2> QED BY <2>1, KeepsWire DEF engineVars, historyVars
<1>9. CASE Bridge
  <2>1. UNCHANGED engineVars /\ UNCHANGED unreadVars /\ UNCHANGED requests /\ UNCHANGED historyVars
    BY <1>9 DEF Bridge, Snapshot, AdmitRoute, AdmitTransport, CatalogRequest, CatalogAnswer
  <2> QED BY <2>1, KeepsWire DEF engineVars, unreadVars, historyVars
<1>10. CASE UNCHANGED vars
  <2>1. UNCHANGED engineVars /\ UNCHANGED liveVars /\ UNCHANGED requests /\ UNCHANGED historyVars
    BY <1>10 DEF vars
  <2> QED BY <2>1, KeepsWire DEF engineVars, liveVars, historyVars
<1> QED BY <1>1, <1>2, <1>3, <1>4, <1>5, <1>6, <1>7, <1>8, <1>9, <1>10 DEF Next, ReaderStep

\* A status answer never replaces, in any group, an observation that the websocket delivered
\* after the engine produced that answer, however many requests overlap, fail or come late
\* (events.go beginStatus, acceptStatus).
THEOREM StatusNeverUndoesWireAlways == Spec => []StatusNeverUndoesWire
<1>1. WireInv => StatusNeverUndoesWire
  BY DEF WireInv
<1> QED BY <1>1, WireInit, WireNext, PTL DEF Spec

-----------------------------------------------------------------------------
(* The binding moves forward *)

\* A phase has at most one request out: the reader waits for its own, and the reseeder for any.
OneRequest ==
    /\ reader.phase <= phaseEpoch
    /\ \A r \in requests : r.phase <= phaseEpoch
    /\ \A q, r \in requests : q.phase = r.phase => q = r
    /\ reader.pc \in {"dial", "seed", "poll", "polled"} => \A r \in requests : r.phase # reader.phase

\* Nothing names an engine still to come, and an answer of the present phase names none before
\* the one the live view is bound to.
Newer ==
    /\ st.bound # None => st.bound.inc <= eng.inc
    /\ \A r \in requests : r.answered /\ r.ans.bound # None =>
          /\ r.ans.bound.inc <= eng.inc
          /\ r.phase = phaseEpoch /\ st.bound # None => st.bound.inc <= r.ans.bound.inc

ForwardInv == TypeOK /\ OneRequest /\ Newer

\* The parts of ForwardInv that a step must carry on, and the step of the property.
Asking == {"dial", "seed", "poll", "polled"}
Goes == st.bound # None /\ st'.bound # None => st'.bound.inc >= st.bound.inc
Forward == OneRequest' /\ Newer' /\ Goes

\* What ForwardInv says of the types.
LEMMA ForwardTypes ==
    ASSUME ForwardInv
    PROVE  /\ eng \in EngineType /\ eng.inc \in Nat /\ st \in StatusType /\ phaseEpoch \in Nat
           /\ st.bound # None => st.bound \in BindingType /\ st.bound.inc \in Nat
           /\ reader = [pc |-> reader.pc, run |-> reader.run, phase |-> reader.phase]
           /\ reader.phase \in Nat
           /\ \A r \in requests : /\ r \in RequestType /\ r.phase \in Nat
                                  /\ r.ans.bound # None => r.ans.bound.inc \in Nat
<1>1. /\ eng \in EngineType /\ st \in StatusType /\ phaseEpoch \in Nat
      /\ reader \in [pc : ReaderPC, run : Nat, phase : Nat] /\ requests \subseteq RequestType
  BY DEF ForwardInv, TypeOK, EngineType
<1>2. \A s \in StatusType : s.bound # None => s.bound \in BindingType /\ s.bound.inc \in Nat
  BY DEF StatusType, Maybe, BindingType
<1>3. \A r \in requests : r \in RequestType /\ r.phase \in Nat /\ r.ans \in StatusType
  BY <1>1 DEF RequestType
<1> QED BY <1>1, <1>2, <1>3 DEF EngineType

\* The engine changes or restarts, or a source starts, is used up or ends: requests and the
\* live status stay, and a phase that the reader begins is new.
LEMMA SourceForward ==
    ASSUME ForwardInv, UNCHANGED <<st, requests>>,
           eng'.inc \in {eng.inc, eng.inc + 1}, phaseEpoch' \in {phaseEpoch, phaseEpoch + 1},
           \/ reader'.phase = reader.phase /\ (reader'.pc \in Asking => reader.pc \in Asking)
           \/ reader'.phase = phaseEpoch + 1 /\ phaseEpoch' = phaseEpoch + 1
    PROVE  Forward
<1>1. OneRequest'
  BY ForwardTypes DEF ForwardInv, OneRequest, Asking
<1>2. Newer'
  <2>1. \A r \in requests : r.phase = phaseEpoch' => phaseEpoch' = phaseEpoch
    BY ForwardTypes DEF ForwardInv, OneRequest
  <2> QED BY <2>1, ForwardTypes DEF ForwardInv, Newer
<1> QED BY <1>1, <1>2, ForwardTypes DEF Forward, Goes

\* An event of the wire moves the binding to no other engine: it is withdrawn, or renewed by the
\* engine that owns it; a first one names no engine.
LEMMA EventBound ==
    ASSUME ForwardInv, NEW src, NEW e, ApplySourceEvent(src, e)
    PROVE  /\ UNCHANGED phaseEpoch
           /\ st'.bound # None =>
                 st'.bound.inc = IF st.bound # None THEN st.bound.inc ELSE 0
<1> DEFINE kept == UNCHANGED phaseEpoch /\ st'.bound = st.bound
<1>0. st \in StatusType /\ (st.bound # None => st.bound \in BindingType)
  BY ForwardTypes
<1>1. CASE ~SourceCurrent(src) \/ e.kind = "connect_transfer"
  <2>1. kept
    BY <1>0, <1>1 DEF ApplySourceEvent, AcceptConnectRecovery, liveVars, fenceVars, StatusType
  <2> QED BY <2>1
<1>2. CASE SourceCurrent(src) /\ e.kind # "connect_transfer"
  <2>1. ApplyEvent(e) /\ UNCHANGED phaseEpoch
    BY <1>2 DEF ApplySourceEvent, ApplyEvent
  <2>2. CASE Superseded(e) \/ e.kind \in TransportKinds \cup {"volume", "volume_action"}
    <3>1. UNCHANGED st \/ st' = ApplyGLEvent(st, e)
      BY <2>1, <2>2 DEF ApplyEvent, TransportKinds
    <3>2. ApplyGLEvent(st, e).bound = st.bound
      BY <1>0 DEF ApplyGLEvent, StatusType
    <3> QED BY <2>1, <3>1, <3>2
  <2>3. CASE ~Superseded(e) /\ e.kind = "selected_alias"
    <3>1. SelectedAlias(e)
      BY <2>1, <2>3 DEF ApplyEvent, TransportKinds
    <3>2. CASE ~e.ok
      BY <2>1, <3>1, <3>2 DEF SelectedAlias
    <3>3. CASE e.ok /\ Vetoes(e)
      <4>1. st'.bound = IF st.bound = None THEN EmptyBinding ELSE NotReady(st.bound)
        BY <1>0, <3>1, <3>3 DEF SelectedAlias, StatusType
      <4> QED BY <1>0, <2>1, <4>1 DEF EmptyBinding, NotReady, BindingType
    <3>4. CASE e.ok /\ ~Vetoes(e)
      <4>1. st' = [ApplyGLEvent(st, e) EXCEPT !.bound = e.bound]
        BY <3>1, <3>4 DEF SelectedAlias
      <4>2. ApplyGLEvent(st, e) = [st EXCEPT !.sel = e.sel]
        BY <2>3, <3>4 DEF ApplyGLEvent
      <4>3. st'.bound = e.bound
        BY <1>0, <4>1, <4>2 DEF StatusType
      <4> QED BY <2>1, <3>4, <4>3 DEF Vetoes, Valid
    <3> QED BY <3>2, <3>3, <3>4
  <2> QED BY <2>1, <2>2, <2>3 DEF ApplyEvent
<1> QED BY <1>1, <1>2

LEMMA ReadForward ==
    ASSUME ForwardInv, ReadEvent
    PROVE  Forward
<1>1. /\ UNCHANGED <<eng, reader, requests, phaseEpoch>>
      /\ st'.bound # None => st'.bound.inc = IF st.bound # None THEN st.bound.inc ELSE 0
  BY EventBound DEF ReadEvent
<1>2. OneRequest'
  BY <1>1 DEF ForwardInv, OneRequest
<1>3. Newer'
  BY <1>1, ForwardTypes DEF ForwardInv, Newer
<1> QED BY <1>1, <1>2, <1>3, ForwardTypes DEF Forward, Goes

\* A request begins in the reader's phase, which has none out.
LEMMA BeginForward ==
    ASSUME ForwardInv, ReaderRequest \/ Reseed
    PROVE  Forward
<1>1. /\ UNCHANGED <<eng, st, phaseEpoch>> /\ requests' = requests \cup {NewRequest}
      /\ NewRequest.phase = reader.phase /\ ~NewRequest.answered /\ reader.phase = phaseEpoch
  BY DEF ReaderRequest, Reseed, BeginStatus, NewRequest, SourceCurrent, engineVars, fenceVars
<1>2. reader'.phase = reader.phase /\ reader'.pc \notin Asking
  BY ForwardTypes DEF ReaderRequest, Reseed, Asking
<1>3. \A r \in requests : r.phase # reader.phase
  BY DEF ForwardInv, OneRequest, ReaderRequest, Reseed
<1> HIDE DEF NewRequest
<1>4. OneRequest'
  BY <1>1, <1>2, <1>3, ForwardTypes DEF ForwardInv, OneRequest, Asking
<1>5. Newer'
  BY <1>1 DEF ForwardInv, Newer
<1> QED BY <1>1, <1>4, <1>5, ForwardTypes DEF Forward, Goes

\* The engine answers with its own binding.
LEMMA AnswerForward ==
    ASSUME ForwardInv, NEW q \in requests, NEW s, Answer(q, s),
           s.bound # None => s.bound.inc = eng.inc
    PROVE  Forward
<1> DEFINE new == [q EXCEPT !.answered = TRUE, !.ans = s, !.ver = eng.ver]
<1>1. /\ requests' = (requests \ {q}) \cup {new} /\ UNCHANGED <<eng, reader>>
      /\ UNCHANGED <<st, phaseEpoch>>
  BY DEF Answer, liveVars, fenceVars
<1>2. new.phase = q.phase /\ new.ans = s
  BY ForwardTypes DEF RequestType
<1> HIDE DEF new
<1>3. OneRequest'
  BY <1>1, <1>2 DEF ForwardInv, OneRequest
<1>4. Newer'
  BY <1>1, <1>2, ForwardTypes DEF ForwardInv, Newer
<1> QED BY <1>1, <1>3, <1>4, ForwardTypes DEF Forward, Goes

\* The only answer of the present phase is folded in; one of an earlier phase is not.
LEMMA FinishForward ==
    ASSUME ForwardInv, NEW q \in requests, FinishStatus(q)
    PROVE  Forward
<1>1. /\ q.answered /\ requests' = requests \ {q} /\ AcceptStatus(q)
      /\ UNCHANGED <<eng, phaseEpoch, runEpoch, stopped>>
  BY DEF FinishStatus, engineVars
<1>2. /\ reader'.phase = reader.phase
      /\ reader'.pc \in Asking => reader.pc \in Asking \/ q.phase = reader.phase
  BY ForwardTypes DEF FinishStatus
<1>3. OneRequest'
  BY <1>1, <1>2 DEF ForwardInv, OneRequest, Asking
<1>4. CASE st'.bound = st.bound
  <2>1. Newer'
    BY <1>1, <1>4 DEF ForwardInv, Newer
  <2> QED BY <1>3, <1>4, <2>1, ForwardTypes DEF Forward, Goes
<1>5. CASE st'.bound # st.bound
  <2>1. q.phase = phaseEpoch /\ st'.bound = Reseeded(q.ans).bound
    BY <1>1, <1>5 DEF AcceptStatus, SourceCurrent
  <2>2. \A r \in requests' : r.phase # phaseEpoch'
    BY <1>1, <2>1 DEF ForwardInv, OneRequest
  <2>3. CASE st.bound # None /\ q.ans.bound = None
    <3>1. st'.bound.inc = st.bound.inc
      BY <2>1, <2>3, ForwardTypes DEF Reseeded, NotReady, BindingType
    <3>2. Newer'
      BY <1>1, <2>2, <2>3, <3>1 DEF ForwardInv, Newer
    <3> QED BY <1>3, <3>1, <3>2, ForwardTypes DEF Forward, Goes
  <2>4. CASE ~(st.bound # None /\ q.ans.bound = None)
    <3>1. st'.bound = q.ans.bound
      BY <2>1, <2>4 DEF Reseeded
    <3>2. Newer'
      BY <1>1, <2>2, <3>1 DEF ForwardInv, Newer
    <3>3. Goes
      BY <1>1, <2>1, <2>4, <3>1, ForwardTypes DEF ForwardInv, Newer, Goes
    <3> QED BY <1>3, <3>2, <3>3 DEF Forward
  <2> QED BY <2>3, <2>4
<1> QED BY <1>4, <1>5

LEMMA ForwardInit == Init => ForwardInv
<1> SUFFICES ASSUME Init PROVE ForwardInv OBVIOUS
<1>1. /\ requests = {} /\ reader.phase = 0 /\ phaseEpoch = 0 /\ st.bound = None
  BY DEF Init, ZeroStatus
<1> QED BY <1>1, TypeInit DEF ForwardInv, OneRequest, Newer

\* Every step keeps the invariant and moves the binding forward.
LEMMA ForwardNext == ForwardInv /\ [Next]_vars => ForwardInv' /\ Goes
<1> SUFFICES ASSUME ForwardInv, [Next]_vars PROVE Forward
  BY TypeNext DEF ForwardInv, Forward
<1>0. eng \in EngineType /\ eng.inc \in Nat /\ phaseEpoch \in Nat
  BY ForwardTypes
<1>1. CASE Engine
  <2>1. UNCHANGED <<st, requests, reader, phaseEpoch>>
    BY <1>1 DEF Engine, EngineTransport, EngineVolume, EngineSelectAlias, EngineTransfer,
                EngineVolumeAction, EngineRestart, EngineMoves, liveVars, fenceVars
  <2>2. CASE \E b \in BOOLEAN : EngineRestart(b)
    BY <1>0, <2>1, <2>2, SourceForward DEF EngineRestart, EngineType
  <2>3. CASE ~\E b \in BOOLEAN : EngineRestart(b)
    <3>1. PICK next \in EngineType, e \in EventType, loud \in BOOLEAN : EngineMoves(next, e, loud) /\ next.inc = eng.inc
      BY <1>1, <2>3, EngineMovesTyped DEF Moves, OfEngine, ForwardInv
    <3>2. eng'.inc = eng.inc
      BY <3>1 DEF EngineMoves, EngineType
    <3> QED BY <2>1, <3>2, SourceForward
  <2> QED BY <2>2, <2>3
<1>2. CASE ReadEvent
  BY <1>2, ReadForward
<1>3. CASE ReaderRequest \/ Reseed
  BY <1>3, BeginForward
<1>4. CASE AnswerOk
  <2>1. PICK q \in requests : Answer(q, EngineStatus)
    BY <1>4 DEF AnswerOk
  <2>2. EngineStatus.bound = EngineBinding
    BY <1>0 DEF EngineStatus, EngineType, StatusType
  <2> QED BY <2>1, <2>2, AnswerForward DEF EngineBinding, Binding
<1>5. CASE AnswerFails
  BY <1>5, AnswerForward DEF AnswerFails, ZeroStatus
<1>6. CASE FinishSome
  BY <1>6, FinishForward DEF FinishSome
<1>7. CASE PollDone \/ SocketFails \/ SocketEnds \/ ReaderStops
  <2>1. PICK pc \in {"begin", "gap", "exiting"} : LeavePhase(pc)
    BY <1>7 DEF PollDone, SocketFails, SocketEnds, ReaderStops
  <2>2. /\ UNCHANGED <<st, requests>> /\ eng'.inc = eng.inc /\ reader'.phase = reader.phase
        /\ reader'.pc \notin Asking /\ phaseEpoch' \in {phaseEpoch, phaseEpoch + 1}
    BY <1>0, <2>1, ForwardTypes DEF LeavePhase, RetirePhase, NewSource, fenceVars, EngineType, Asking
  <2> QED BY <2>2, SourceForward
<1>8. CASE Dial \/ Stop
  <2>1. /\ UNCHANGED <<st, requests, phaseEpoch>> /\ eng'.inc = eng.inc
        /\ reader'.phase = reader.phase /\ (reader'.pc \in Asking => reader.pc \in Asking)
    BY <1>0, <1>8, ForwardTypes DEF Dial, Stop, engineVars, liveVars, fenceVars, EngineType, Asking
  <2> QED BY <2>1, SourceForward
<1>9. CASE BeginRun \/ BeginPhase \/ RetireRun
  <2>1. UNCHANGED <<st, requests>> /\ UNCHANGED eng
    BY <1>9 DEF BeginRun, BeginPhase, RetireRun, engineVars
  <2>2. /\ phaseEpoch' \in {phaseEpoch, phaseEpoch + 1}
        /\ \/ reader'.phase = reader.phase /\ reader'.pc \notin Asking
           \/ reader'.phase = phaseEpoch + 1 /\ phaseEpoch' = phaseEpoch + 1
    BY <1>9, ForwardTypes DEF BeginRun, BeginPhase, RetireRun, NewSource, fenceVars, Asking
  <2> QED BY <2>1, <2>2, SourceForward
<1>10. CASE Bridge
  <2>1. UNCHANGED <<st, requests, reader>> /\ UNCHANGED eng /\ ObserveStop
    BY <1>10 DEF Bridge, Snapshot, AdmitRoute, AdmitTransport, CatalogRequest, CatalogAnswer,
                 unreadVars, engineVars
  <2>2. phaseEpoch' \in {phaseEpoch, phaseEpoch + 1}
    BY <2>1 DEF ObserveStop, PhaseNow
  <2> QED BY <2>1, <2>2, SourceForward
<1>11. CASE UNCHANGED vars
  <2>1. UNCHANGED <<st, requests, reader, phaseEpoch, eng>>
    BY <1>11 DEF vars, engineVars, liveVars, fenceVars
  <2> QED BY <2>1, SourceForward
<1> QED BY <1>1, <1>2, <1>3, <1>4, <1>5, <1>6, <1>7, <1>8, <1>9, <1>10, <1>11 DEF Next, ReaderStep

\* The binding of the live view never goes back to an engine that was replaced, whatever events
\* a closed socket still held and however late an answer comes (events.go applyEventLocked,
\* acceptStatus).
THEOREM IncarnationForwardAlways == Spec => IncarnationForward
<1>1. ForwardInv /\ [Next]_vars =>
        [st.bound # None /\ st'.bound # None => st'.bound.inc >= st.bound.inc]_vars
  BY ForwardNext DEF Goes
<1> QED BY <1>1, ForwardInit, ForwardNext, PTL DEF Spec, IncarnationForward

-----------------------------------------------------------------------------
(* Connect recovery: the inductive invariant *)

Incs == 1..(MaxFaults + 1)

\* A binding on the wire names an engine that was started.
Wired ==
    /\ eng.inc \in 1..(faults + 1) /\ faults <= MaxFaults
    /\ \A i \in 1..Len(wire) : wire[i].bound # None => wire[i].bound.inc \in Incs

\* A credit comes from an accepted transfer; the fence is the latest of its engine, and what is
\* held differs from what waits.
Known(c) == c.bound.inc \in Incs /\ c.ord <= connectRecoverySeen[c.bound.inc]
CreditsKnown ==
    /\ connectRecovery # None => Known(connectRecovery)
    /\ credit # None => Known(credit)
    /\ connectRecoveryFence # None =>
          /\ connectRecoveryFence.bound.inc \in Incs
          /\ connectRecoverySeen[connectRecoveryFence.bound.inc] = connectRecoveryFence.ord
    /\ connectRecovery # None /\ credit # None => Key(connectRecovery) # Key(credit)

\* Neither the credit that waits nor the one that is held has been used for a selection.
BeforeSend == {"consumed", "fact", "route", "busy", "primed", "send"}
Unsent(c) == \A x \in sent : x[1] # Key(c)
SentKnown ==
    /\ \A x \in sent : x[1][1] \in Incs /\ x[1][2] <= connectRecoverySeen[x[1][1]]
    /\ connectRecovery # None => Unsent(connectRecovery)
    /\ cpc \in BeforeSend => Unsent(credit)

\* A held credit carries the intent it was consumed under; an equal alias revision means the
\* binding it was consumed under.
Held ==
    credit # None =>
        /\ credit.transport \in IntentType
        /\ credit.transport.transportRevision <= transportRevision
        /\ credit.transport.aliasRevision <= aliasRevision
        /\ credit.transport.aliasRevision = aliasRevision => credit.bound = st.bound

\* A credit that was overtaken shows it: a revision moved on, or a newer transfer was accepted.
Outdated(c) ==
    \/ c.transport.transportRevision < transportRevision
    \/ c.transport.aliasRevision < aliasRevision
    \/ c.ord < connectRecoverySeen[c.bound.inc]
Passed == credit # None /\ overtaken => Outdated(credit)

RInv == RTypeOK /\ Wired /\ CreditsKnown /\ SentKnown /\ OneSelectionPerTransfer /\ Held /\ Passed

-----------------------------------------------------------------------------
(* What a step of the live view does to the credits *)

\* It leaves them alone; or accepts a transfer, newer than any of its engine, under the present
\* source and binding; or settles or drops the credit that waits.
Accepts ==
    \E i \in Incs, ord \in Nat :
        /\ ord > connectRecoverySeen[i]
        /\ connectRecoverySeen' = [connectRecoverySeen EXCEPT ![i] = ord]
        /\ connectRecovery' # None /\ connectRecoveryFence' = connectRecovery'
        /\ connectRecovery'.bound = st.bound /\ st.bound.inc = i /\ connectRecovery'.ord = ord
        /\ UNCHANGED aliasRevision
Settles ==
    /\ UNCHANGED <<connectRecoveryFence, connectRecoverySeen>>
    /\ connectRecovery # None
    /\ connectRecovery' # None => Key(connectRecovery') = Key(connectRecovery)
CreditStep ==
    \/ UNCHANGED <<connectRecovery, connectRecoveryFence, connectRecoverySeen>>
    \/ Settles
    \/ connectRecovery' = None /\ UNCHANGED <<connectRecoveryFence, connectRecoverySeen>>
    \/ Accepts

\* An accepted transfer is that.
LEMMA TransferAccepts ==
    ASSUME TypeOK, NEW e \in EventType, e.bound # None => e.bound.inc \in Incs,
           TransferAccepted(e), AcceptConnectRecovery(e)
    PROVE  Accepts
<1>1. /\ e.bound \in BindingType /\ e.bound = st.bound /\ e.bound.inc \in Incs
      /\ e.ord \in Nat /\ e.ord > connectRecoverySeen[e.bound.inc]
  BY DEF TransferAccepted, FreshOrdinal, Valid, EventType, Maybe
<1>2. NewCredit(e) \in CreditType
  BY <1>1 DEF NewCredit, CreditType, EventType, TypeOK, Maybe
<1>3. NewCredit(e) # None
  BY <1>2, NilAssumption
<1>4. /\ connectRecoverySeen' = [connectRecoverySeen EXCEPT ![e.bound.inc] = e.ord]
      /\ connectRecovery' = NewCredit(e) /\ connectRecoveryFence' = NewCredit(e)
      /\ UNCHANGED aliasRevision
  BY DEF AcceptConnectRecovery, fenceVars
<1>5. NewCredit(e).bound = e.bound /\ NewCredit(e).ord = e.ord
  BY DEF NewCredit
<1> QED BY <1>1, <1>3, <1>4, <1>5 DEF Accepts

\* An event read from the wire is a CreditStep.
LEMMA EventCredits ==
    ASSUME TypeOK, NEW src, NEW e \in EventType, e.bound # None => e.bound.inc \in Incs,
           ApplySourceEvent(src, e)
    PROVE  CreditStep
<1>1. CASE ~SourceCurrent(src)
  BY <1>1 DEF ApplySourceEvent, liveVars, recoveryVars, CreditStep
<1>2. CASE SourceCurrent(src) /\ e.kind = "connect_transfer"
  <2>1. AcceptConnectRecovery(e)
    BY <1>2 DEF ApplySourceEvent
  <2>2. CASE ~TransferAccepted(e)
    BY <2>1, <2>2 DEF AcceptConnectRecovery, liveVars, recoveryVars, CreditStep
  <2> QED BY <2>1, <2>2, TransferAccepts DEF CreditStep
<1>3. CASE SourceCurrent(src) /\ e.kind # "connect_transfer"
  <2>1. ApplyEvent(e)
    BY <1>3 DEF ApplySourceEvent
  <2>2. UNCHANGED <<connectRecoveryFence, connectRecoverySeen>>
    BY <2>1 DEF ApplyEvent
  <2>3. connectRecovery' \in {connectRecovery, CreditAfter(e)}
    BY <2>1 DEF ApplyEvent
  <2>4. CASE /\ connectRecovery' = CreditAfter(e)
             /\ connectRecovery' # connectRecovery /\ connectRecovery' # None
    <3>1. /\ connectRecovery # None
          /\ connectRecovery' = [connectRecovery EXCEPT !.awaitResume = FALSE, !.awaitInitial = FALSE]
      BY <2>4 DEF CreditAfter, Observes
    <3>2. connectRecovery \in CreditType
      BY <3>1 DEF TypeOK, Maybe
    <3>3. connectRecovery'.bound = connectRecovery.bound /\ connectRecovery'.ord = connectRecovery.ord
      BY <3>1, <3>2 DEF CreditType
    <3> QED BY <2>2, <2>4, <3>1, <3>3 DEF CreditStep, Settles, Key
  <2> QED BY <2>2, <2>3, <2>4 DEF CreditStep
<1> QED BY <1>1, <1>2, <1>3

\* Every step of the live view is a CreditStep, and the wire keeps to engines that were started.
LEMMA LiveCredits ==
    ASSUME TypeOK, Wired, Next
    PROVE  CreditStep /\ Wired'
<1>0. eng \in EngineType /\ wire \in Seq(EventType) /\ faults \in Nat /\ MaxFaults \in Nat
  BY Parts, ConstantsAssumption DEF EngineTyped
<1> DEFINE kept == UNCHANGED <<connectRecovery, connectRecoveryFence, connectRecoverySeen>>
<1>1. CASE Engine
  <2>1. kept
    BY <1>1 DEF Engine, EngineTransport, EngineVolume, EngineSelectAlias, EngineTransfer,
                EngineVolumeAction, EngineRestart, EngineMoves, liveVars, recoveryVars
  <2>2. ASSUME NEW next, NEW e, NEW loud, EngineMoves(next, e, loud), next.inc = eng.inc,
               next \in EngineType, e \in EventType, e.bound # None => e.bound.inc = eng.inc
        PROVE  Wired'
    <3>1. eng'.inc = eng.inc /\ UNCHANGED faults
      BY <2>2 DEF EngineMoves, EngineType
    <3>2. CASE UNCHANGED wire
      BY <3>1, <3>2 DEF Wired
    <3>3. CASE ~UNCHANGED wire
      <4>1. PICK v \in [Group -> Nat], n \in Nat : wire' = Append(wire, [e EXCEPT !.ver = v, !.n = n])
        <5> DEFINE m == eng.n + 1
                   v == [g \in Group |-> IF g \in GroupOf(e.kind) THEN m ELSE eng.ver[g]]
        <5>1. m \in Nat /\ v \in [Group -> Nat]
          BY <1>0 DEF EngineType
        <5>2. wire' = Append(wire, [e EXCEPT !.ver = v, !.n = m])
          BY <2>2, <3>3 DEF EngineMoves
        <5> QED BY <5>1, <5>2
      <4> DEFINE x == [e EXCEPT !.ver = v, !.n = n]
      <4>2. x \in EventType /\ x.bound = e.bound
        BY <2>2 DEF EventType
      <4>3. eng.inc \in Incs
        BY <1>0 DEF Wired, Incs
      <4> HIDE DEF x
      <4>4. /\ Len(wire') = Len(wire) + 1
            /\ \A i \in 1..Len(wire') : wire'[i] = IF i <= Len(wire) THEN wire[i] ELSE x
        BY <1>0, <4>1, <4>2 DEF x
      <4>5. \A i \in 1..Len(wire') : wire'[i].bound # None => wire'[i].bound.inc \in Incs
        BY <1>0, <2>2, <4>2, <4>3, <4>4 DEF Wired
      <4> QED BY <3>1, <4>5 DEF Wired
    <3> QED BY <3>2, <3>3
  <2>3. CASE \E b \in BOOLEAN : EngineRestart(b)
    <3>1. /\ eng'.inc = eng.inc + 1 /\ faults' = faults + 1 /\ faults < MaxFaults
          /\ UNCHANGED wire
      BY <1>0, <2>3 DEF EngineRestart, EngineType
    <3> QED BY <1>0, <2>1, <3>1 DEF Wired, CreditStep
  <2>4. CASE ~\E b \in BOOLEAN : EngineRestart(b)
    BY <1>1, <2>1, <2>2, <2>4, EngineMovesTyped DEF Moves, OfEngine, CreditStep
  <2> QED BY <2>1, <2>3, <2>4 DEF CreditStep
<1>2. CASE ReadEvent
  <2>1. /\ Head(wire) \in EventType /\ (Head(wire).bound # None => Head(wire).bound.inc \in Incs)
        /\ ApplySourceEvent(reader, Head(wire)) /\ wire' = Tail(wire) /\ UNCHANGED <<eng, faults>>
    BY <1>0, <1>2 DEF ReadEvent, Wired
  <2>2. CreditStep
    BY <2>1, EventCredits
  <2>3. Len(wire') = Len(wire) - 1 /\ \A i \in 1..Len(wire') : wire'[i] = wire[i + 1]
    BY <1>0, <1>2, <2>1 DEF ReadEvent
  <2>4. Wired'
    BY <1>0, <2>1, <2>3 DEF Wired
  <2> QED BY <2>2, <2>4
<1>3. CASE PollDone \/ SocketFails \/ SocketEnds \/ ReaderStops
  <2>1. /\ kept /\ wire' = <<>> /\ eng'.inc = eng.inc /\ faults' \in {faults, faults + 1}
        /\ faults' <= MaxFaults
    <3>1. kept /\ wire' = <<>> /\ eng' = [eng EXCEPT !.conn = FALSE]
      BY <1>3 DEF PollDone, SocketFails, SocketEnds, ReaderStops, LeavePhase, recoveryVars
    <3>2. UNCHANGED faults \/ (faults < MaxFaults /\ faults' = faults + 1)
      BY <1>3 DEF PollDone, SocketFails, SocketEnds, ReaderStops
    <3> QED BY <1>0, <3>1, <3>2 DEF EngineType, Wired
  <2> QED BY <1>0, <2>1 DEF Wired, CreditStep
<1>4. CASE Dial \/ AnswerOk \/ AnswerFails
  <2>1. /\ kept /\ UNCHANGED wire /\ eng'.inc = eng.inc /\ faults' \in {faults, faults + 1}
        /\ faults' <= MaxFaults
    <3>1. kept /\ UNCHANGED wire /\ eng' \in {eng, [eng EXCEPT !.conn = TRUE]}
      BY <1>4 DEF Dial, AnswerOk, AnswerFails, Answer, liveVars, recoveryVars
    <3>2. UNCHANGED faults \/ (faults < MaxFaults /\ faults' = faults + 1)
      BY <1>4 DEF Dial, AnswerOk, AnswerFails, Answer
    <3> QED BY <1>0, <3>1, <3>2 DEF EngineType, Wired
  <2> QED BY <1>0, <2>1 DEF Wired, CreditStep
<1>5. CASE Stop \/ BeginRun \/ BeginPhase \/ RetireRun \/ ReaderRequest \/ Reseed \/ FinishSome \/ Bridge
  <2>1. kept /\ UNCHANGED engineVars
    BY <1>5 DEF Stop, BeginRun, BeginPhase, RetireRun, ReaderRequest, Reseed, BeginStatus, FinishSome,
                FinishStatus, Bridge, Snapshot, AdmitRoute, AdmitTransport, CatalogRequest,
                CatalogAnswer, unreadVars, recoveryVars
  <2> QED BY <2>1 DEF Wired, engineVars, CreditStep
<1> QED BY <1>1, <1>2, <1>3, <1>4, <1>5 DEF Next, ReaderStep

\* What the user does beside a held credit moves a revision, or is a newer transfer.
LEMMA IntentShows ==
    ASSUME TypeOK, Wired, Next, UserIntent
    PROVE  \/ transportRevision' = transportRevision + 1 \/ aliasRevision' = aliasRevision + 1
           \/ Accepts
<1> DEFINE e == Head(wire)
<1>0. wire \in Seq(EventType) /\ MaxFaults \in Nat
  BY Parts, ConstantsAssumption DEF EngineTyped
<1>1. /\ wire # <<>> /\ reader.pc = "read" /\ SourceCurrent(reader) /\ wire' = Tail(wire)
      /\ e \in EventType /\ (e.bound # None => e.bound.inc \in Incs)
  BY <1>0 DEF UserIntent, Wired
<1>2. wire' # wire /\ \A x \in EventType : wire' # Append(wire, x)
  <2>1. Len(wire') = Len(wire) - 1 /\ \A x \in EventType : Len(Append(wire, x)) = Len(wire) + 1
    BY <1>0, <1>1
  <2> QED BY <1>0, <2>1
<1>3. CASE ReadEvent
  <2>1. ApplySourceEvent(reader, e)
    BY <1>3 DEF ReadEvent
  <2>2. CASE e.kind = "connect_transfer"
    <3>1. TransferAccepted(e) /\ AcceptConnectRecovery(e)
      BY <1>1, <2>1, <2>2 DEF ApplySourceEvent, UserIntent
    <3> QED BY <1>1, <3>1, TransferAccepts
  <2>3. CASE e.kind # "connect_transfer"
    <3>1. /\ ApplyEvent(e) /\ ~Superseded(e) /\ e.ok
          /\ e.kind \in {"paused", "stopped", "inactive", "not_playing", "selected_alias"}
      BY <1>1, <2>1, <2>3 DEF ApplySourceEvent, UserIntent
    <3> HIDE DEF e
    <3> QED BY <3>1 DEF ApplyEvent, TransportKinds, SelectedAlias
  <2> QED BY <2>2, <2>3
<1>4. CASE SocketFails
  BY <1>1, <1>4 DEF SocketFails, LeavePhase, RetirePhase, SourceCurrent, NewSource
<1>5. ~(PollDone \/ SocketEnds \/ ReaderStops)
  BY <1>1 DEF PollDone, SocketEnds, ReaderStops, SourceCurrent
<1>6. ~Engine
  <2>1. ~\E b \in BOOLEAN : EngineRestart(b)
    BY <1>2 DEF EngineRestart
  <2>2. ASSUME NEW next \in EngineType, NEW x \in EventType, NEW loud \in BOOLEAN,
               EngineMoves(next, x, loud)
        PROVE  FALSE
    <3> DEFINE n == eng.n + 1
               ver == [g \in Group |-> IF g \in GroupOf(x.kind) THEN n ELSE eng.ver[g]]
    <3>1. n \in Nat /\ ver \in [Group -> Nat]
      BY Parts DEF EngineTyped, EngineType
    <3>2. wire' \in {wire, Append(wire, [x EXCEPT !.ver = ver, !.n = n])}
      BY <2>2 DEF EngineMoves
    <3> HIDE DEF n, ver
    <3>3. [x EXCEPT !.ver = ver, !.n = n] \in EventType
      BY <3>1 DEF EventType
    <3> QED BY <1>2, <3>2, <3>3
  <2> QED BY <2>1, <2>2, EngineMovesTyped DEF Moves
<1>7. CASE \/ Stop \/ BeginRun \/ BeginPhase \/ RetireRun \/ ReaderRequest \/ Reseed \/ FinishSome
           \/ Bridge \/ Dial \/ AnswerOk \/ AnswerFails
  <2>1. UNCHANGED wire
    BY <1>7 DEF Stop, BeginRun, BeginPhase, RetireRun, ReaderRequest, Reseed, BeginStatus, FinishSome,
                FinishStatus, Bridge, Snapshot, AdmitRoute, AdmitTransport, CatalogRequest,
                CatalogAnswer, Dial, AnswerOk, AnswerFails, Answer, engineVars
  <2> QED BY <1>2, <2>1
<1> QED BY <1>3, <1>4, <1>5, <1>6, <1>7 DEF Next, ReaderStep

-----------------------------------------------------------------------------
(* The held credit *)

\* What the parts of the invariant say of the types.
LEMMA RTypes ==
    ASSUME RTypeOK
    PROVE  /\ Counted /\ transportRevision \in Nat /\ aliasRevision \in Nat
           /\ connectRecoverySeen \in [Incs -> Nat]
           /\ \A x \in sent : x[1] = <<x[1][1], x[1][2]>> /\ x[1][2] \in Nat
           /\ \A c \in {connectRecovery, credit, connectRecoveryFence} :
                 c # None => /\ c \in CreditType /\ c.ord \in Nat /\ c.bound.inc \in Nat
                             /\ Key(c) = <<c.bound.inc, c.ord>>
<1>1. Counted
  BY DEF RTypeOK, TypeOK, StatusType, Counted
<1>2. \A c \in {connectRecovery, credit, connectRecoveryFence} :
         c # None => /\ c \in CreditType /\ c.ord \in Nat /\ c.bound.inc \in Nat
                     /\ Key(c) = <<c.bound.inc, c.ord>>
  <2>1. \A c \in {connectRecovery, credit, connectRecoveryFence} : c # None => c \in CreditType
    BY DEF RTypeOK, TypeOK, Maybe
  <2> QED BY <2>1 DEF CreditType, BindingType, Key
<1>3. \A x \in sent : x[1] = <<x[1][1], x[1][2]>> /\ x[1][2] \in Nat
  BY DEF RTypeOK
<1> QED BY <1>1, <1>2, <1>3 DEF RTypeOK, TypeOK, Incs

\* Revisions and ordinals move forward, so that a held credit stays true to its intent and, once
\* outdated, stays outdated.
LEMMA Carries ==
    ASSUME RInv, FenceStep, credit' \in {credit, None},
           \A i \in Incs : connectRecoverySeen'[i] \in Nat /\ connectRecoverySeen[i] <= connectRecoverySeen'[i]
    PROVE  /\ Held'
           /\ credit' # None => credit' = credit /\ (Outdated(credit) => Outdated(credit)')
<1>1. CASE credit' = None
  BY <1>1 DEF Held
<1>2. CASE credit' = credit /\ credit # None
  <2>1. /\ credit.transport \in IntentType /\ credit.transport.transportRevision \in Nat
        /\ credit.transport.aliasRevision \in Nat
        /\ credit.transport.transportRevision <= transportRevision
        /\ credit.transport.aliasRevision <= aliasRevision
        /\ credit.transport.aliasRevision = aliasRevision => credit.bound = st.bound
        /\ credit.ord \in Nat /\ credit.bound.inc \in Incs
    BY <1>2, RTypes DEF RInv, Held, IntentType, CreditsKnown, Known
  <2>2. /\ aliasRevision \in Nat /\ transportRevision \in Nat
        /\ connectRecoverySeen[credit.bound.inc] \in Nat
    BY <2>1, RTypes DEF RInv
  <2>3. /\ transportRevision' \in {transportRevision, transportRevision + 1}
        /\ aliasRevision' = aliasRevision + 1 \/ (aliasRevision' = aliasRevision /\ st'.bound = st.bound)
    BY DEF FenceStep, TransportStep, AliasStep
  <2> QED BY <1>2, <2>1, <2>2, <2>3 DEF Held, Outdated
<1> QED BY <1>1, <1>2

\* A held credit that still passes retainConnectRecovery's or commitConnectRecoveryReceipt's
\* comparison is not outdated.
LEMMA NotOutdated ==
    ASSUME RInv, credit # None, credit.transport = NowIntent, ~Retired,
           \/ connectRecoverySeen[credit.bound.inc] = credit.ord
           \/ Key(connectRecoveryFence) = Key(credit)
    PROVE  ~Outdated(credit)
<1>1. /\ credit.transport.transportRevision = transportRevision
      /\ credit.transport.aliasRevision = aliasRevision
  BY DEF NowIntent, IntentOf, AliasRevisionNow, StopSeen, Retired
<1>2. connectRecoverySeen[credit.bound.inc] = credit.ord
  <2>1. CASE Key(connectRecoveryFence) = Key(credit)
    <3>1. Key(credit) \in Nat \X Nat
      BY RTypes DEF RInv
    <3>2. connectRecoveryFence # None
      BY <2>1, <3>1, NilAssumption DEF Key
    <3> QED BY <2>1, <3>2, RTypes DEF RInv, CreditsKnown
  <2> QED BY <2>1
<1>3. transportRevision \in Nat /\ aliasRevision \in Nat /\ credit.ord \in Nat
  BY RTypes DEF RInv
<1> QED BY <1>1, <1>2, <1>3 DEF Outdated

-----------------------------------------------------------------------------
(* The steps *)

\* A step of the live view.
LEMMA LiveInv ==
    ASSUME RInv, LiveStep
    PROVE  RInv'
<1>1. TypeOK /\ TypeOK' /\ FenceStep /\ CreditStep /\ Wired' /\ Next
  <2>1. TypeOK /\ Wired /\ Next /\ Counted
    BY RTypes DEF RInv, RTypeOK, LiveStep
  <2> QED BY <2>1, TypeNext, LiveCredits, NextFences
<1>2. UNCHANGED <<credit, cpc, captured, released, attention, sent>>
  BY DEF LiveStep
<1>3. RTypeOK'
  BY <1>1, <1>2 DEF RInv, RTypeOK
<1>4. \A i \in Incs : connectRecoverySeen'[i] \in Nat /\ connectRecoverySeen[i] <= connectRecoverySeen'[i]
  <2>1. connectRecoverySeen \in [Incs -> Nat] /\ connectRecoverySeen' \in [Incs -> Nat]
    BY <1>3, RTypes DEF RInv, RTypeOK, TypeOK, Incs
  <2> QED BY <1>1, <2>1 DEF CreditStep, Settles, Accepts
<1>5. Held' /\ (credit # None /\ Outdated(credit) => Outdated(credit)')
  BY <1>1, <1>2, <1>4, Carries DEF RInv
<1>6. CreditsKnown' /\ SentKnown'
  <2>0. /\ connectRecoverySeen \in [Incs -> Nat]
        /\ \A x \in sent : x[1] = <<x[1][1], x[1][2]>> /\ x[1][2] \in Nat
        /\ \A c \in {connectRecovery, credit, connectRecoveryFence} :
              c # None => c.ord \in Nat /\ Key(c) = <<c.bound.inc, c.ord>>
    BY RTypes DEF RInv
  <2>1. CASE \/ UNCHANGED <<connectRecovery, connectRecoveryFence, connectRecoverySeen>>
             \/ connectRecovery' = None /\ UNCHANGED <<connectRecoveryFence, connectRecoverySeen>>
    BY <1>2, <2>1 DEF RInv, CreditsKnown, SentKnown, Known, Unsent, Key
  <2>2. CASE Settles
    <3>1. connectRecovery' # None => Key(connectRecovery') = Key(connectRecovery)
      BY <2>2 DEF Settles
    <3>2. connectRecovery' # None =>
            /\ connectRecovery'.bound.inc = connectRecovery.bound.inc
            /\ connectRecovery'.ord = connectRecovery.ord
      BY <2>2, <3>1 DEF Settles, Key
    <3> QED BY <1>2, <2>2, <3>1, <3>2 DEF Settles, RInv, CreditsKnown, SentKnown, Known, Unsent, Key
  <2>3. CASE Accepts
    <3>1. PICK i \in Incs, ord \in Nat :
            /\ ord > connectRecoverySeen[i]
            /\ connectRecoverySeen' = [connectRecoverySeen EXCEPT ![i] = ord]
            /\ connectRecovery' # None /\ connectRecoveryFence' = connectRecovery'
            /\ connectRecovery'.bound.inc = i /\ connectRecovery'.ord = ord
      BY <2>3 DEF Accepts
    <3>2. Key(connectRecovery') = <<i, ord>>
      BY <3>1 DEF Key
    <3>3. \A x \in sent : x[1] # <<i, ord>> /\ x[1][2] <= connectRecoverySeen'[x[1][1]]
      BY <2>0, <3>1 DEF RInv, SentKnown
    <3>4. credit # None => Known(credit)' /\ Key(credit) # <<i, ord>>
      BY <1>2, <2>0, <3>1 DEF RInv, CreditsKnown, Known
    <3>5. CreditsKnown'
      BY <1>2, <2>0, <3>1, <3>2, <3>4 DEF CreditsKnown, Known
    <3>6. SentKnown'
      BY <1>2, <3>1, <3>2, <3>3 DEF RInv, SentKnown, Unsent
    <3> QED BY <3>5, <3>6
  <2> QED BY <1>1, <2>1, <2>2, <2>3 DEF CreditStep
<1>7. OneSelectionPerTransfer'
  BY <1>2 DEF RInv, OneSelectionPerTransfer
<1>8. Passed'
  <2> SUFFICES ASSUME credit # None, UserIntent PROVE Outdated(credit)'
    BY <1>2, <1>5 DEF RInv, Passed, LiveStep
  <2>1. /\ credit.transport.transportRevision \in Nat /\ credit.transport.aliasRevision \in Nat
        /\ credit.transport.transportRevision <= transportRevision
        /\ credit.transport.aliasRevision <= aliasRevision
        /\ credit.transport.aliasRevision = aliasRevision => credit.bound = st.bound
        /\ transportRevision \in Nat /\ aliasRevision \in Nat
        /\ credit.ord \in Nat /\ Known(credit) /\ connectRecoverySeen \in [Incs -> Nat]
    BY RTypes DEF RInv, Held, IntentType, CreditsKnown
  <2>2. CASE transportRevision' = transportRevision + 1 \/ aliasRevision' = aliasRevision + 1
    BY <1>2, <2>1, <2>2 DEF Outdated
  <2>3. CASE Accepts
    BY <1>2, <2>1, <2>3 DEF Outdated, Accepts, Known
  <2> QED BY <1>1, <2>2, <2>3, IntentShows DEF RInv
<1> QED BY <1>1, <1>3, <1>5, <1>6, <1>7, <1>8 DEF RInv

\* The live view's types after a step of the bridge.
LEMMA BridgeTypes ==
    ASSUME TypeOK, ObserveStop, UNCHANGED <<lockedVars, outsideVars>>,
           connectRecovery' \in Maybe(CreditType), connectRecoveryFence' \in Maybe(CreditType),
           routeDispatchSeq' \in Nat
    PROVE  TypeOK' /\ FenceStep
<1>1. /\ UNCHANGED <<st, transportRevision, wireRevision>> /\ UNCHANGED <<stopped, nextRequest>>
      /\ UNCHANGED <<expired, connectRecoverySeen>> /\ UNCHANGED manualVars /\ UNCHANGED engineVars
      /\ UNCHANGED reader /\ UNCHANGED <<requests, asked>> /\ UNCHANGED bridgeVars
      /\ UNCHANGED historyVars
  BY DEF lockedVars, outsideVars
<1>2. FenceTyped'
  BY <1>1, SourceTyped, Parts DEF CountersTyped
<1>3. CountersTyped' /\ RecoveryTyped'
  BY <1>1, Parts DEF CountersTyped, RecoveryTyped
<1>4. TypeOK'
  BY <1>1, <1>2, <1>3, Parts, Unchanged, PartsNext
<1>5. Counted
  BY DEF TypeOK, StatusType, Counted
<1>6. FenceStep
  BY <1>1, <1>5, SourceStep
<1> QED BY <1>4, <1>6

\* A step that moves the bridge on or drops the credit.
LEMMA AdvanceInv ==
    ASSUME RInv, NEW ok, Advance(ok, cpc'), cpc # "idle",
           cpc' \in {"idle", "fact", "route", "busy", "primed", "send", "sent", "commit"},
           ok => cpc' # "idle", ~ok => cpc' = "idle",
           cpc' \in BeforeSend => cpc \in BeforeSend, UNCHANGED <<routeDispatchSeq, sent>>
    PROVE  RInv'
<1>1. /\ ObserveStop /\ UNCHANGED <<lockedVars, connectRecovery, connectRecoveryFence, outsideVars>>
      /\ credit' = (IF ok THEN credit ELSE None) /\ UNCHANGED overtaken
  BY DEF Advance
<1>2. TypeOK' /\ FenceStep
  BY <1>1, BridgeTypes DEF RInv, RTypeOK, TypeOK
<1>3. UNCHANGED <<connectRecoverySeen, eng, wire, faults>>
  BY <1>1 DEF lockedVars, outsideVars, engineVars
<1>4. RTypeOK'
  BY <1>1, <1>2 DEF RInv, RTypeOK, Maybe
<1>5. Held' /\ Passed'
  <2>1. \A i \in Incs : connectRecoverySeen'[i] \in Nat /\ connectRecoverySeen[i] <= connectRecoverySeen'[i]
    BY <1>3, RTypes DEF RInv
  <2> QED BY <1>1, <1>2, <2>1, Carries DEF RInv, Passed
<1>6. Wired' /\ CreditsKnown' /\ OneSelectionPerTransfer'
  BY <1>1, <1>3 DEF RInv, Wired, CreditsKnown, Known, OneSelectionPerTransfer, Key
<1>7. SentKnown'
  BY <1>1, <1>3 DEF RInv, SentKnown, Unsent, BeforeSend, Key
<1> QED BY <1>4, <1>5, <1>6, <1>7 DEF RInv

\* The bridge takes the credit, finds it stale, or leaves it to settle.
LEMMA ConsumeInv ==
    ASSUME RInv, Consume
    PROVE  RInv'
<1> DEFINE c == connectRecovery
<1>1. /\ ObserveStop /\ cpc = "idle" /\ credit = None /\ c # None /\ c \in CreditType
      /\ UNCHANGED <<lockedVars, connectRecoveryFence, routeDispatchSeq, outsideVars, captured,
                     released, attention, sent>>
  BY RTypes DEF Consume, RInv, RTypeOK
<1>2. /\ UNCHANGED <<connectRecoverySeen, st, transportRevision, eng, wire, faults>>
      /\ aliasRevision' = AliasRevisionNow
  BY <1>1 DEF lockedVars, outsideVars, engineVars, ObserveStop
<1>3. connectRecovery' \in {c, None} => TypeOK'
  BY <1>1, BridgeTypes DEF RInv, RTypeOK, TypeOK, Maybe
<1>4. CASE connectRecovery' \in {c, None} /\ UNCHANGED <<credit, cpc, overtaken>>
  BY <1>1, <1>2, <1>3, <1>4 DEF RInv, RTypeOK, Wired, CreditsKnown, Known, SentKnown, Unsent, Key,
     OneSelectionPerTransfer, Held, Passed, BeforeSend
<1>5. CASE /\ connectRecovery' = None /\ credit' = [c EXCEPT !.transport = NowIntent]
           /\ cpc' = "consumed" /\ overtaken' = FALSE /\ CreditCurrent(c)
  <2>1. NowIntent \in IntentType
    BY CaptureTyped DEF RInv, RTypeOK, NowIntent, Intent
  <2>2. /\ credit' \in CreditType /\ credit'.transport = NowIntent /\ credit'.bound = c.bound
        /\ credit'.ord = c.ord
    BY <1>1, <1>5, <2>1 DEF CreditType, Maybe
  <2>3. credit' # None /\ Key(credit') = Key(c)
    BY <1>1, <2>2, NilAssumption DEF Key
  <2>4. RTypeOK'
    BY <1>1, <1>3, <1>5, <2>2, <2>3 DEF RInv, RTypeOK, Maybe
  <2>5. Held'
    <3>1. /\ NowIntent.transportRevision = transportRevision
          /\ NowIntent.aliasRevision = AliasRevisionNow
      BY DEF NowIntent, IntentOf
    <3>2. transportRevision \in Nat /\ AliasRevisionNow \in Nat
      BY CaptureTyped DEF RInv, RTypeOK, TypeOK
    <3>3. c.bound = st.bound
      BY <1>5 DEF CreditCurrent
    <3> QED BY <1>2, <2>1, <2>2, <3>1, <3>2, <3>3 DEF Held
  <2>6. Wired' /\ OneSelectionPerTransfer' /\ Passed'
    BY <1>1, <1>2, <1>5 DEF RInv, Wired, OneSelectionPerTransfer, Passed
  <2>7. CreditsKnown' /\ SentKnown'
    BY <1>1, <1>2, <1>5, <2>2, <2>3 DEF RInv, CreditsKnown, Known, SentKnown, Unsent
  <2> QED BY <2>4, <2>5, <2>6, <2>7 DEF RInv
<1> QED BY <1>1, <1>4, <1>5 DEF Consume, StaleCredit

\* The selection is sent: the transfer's only one.
LEMMA SendInv ==
    ASSUME RInv, Send
    PROVE  RInv'
<1> DEFINE admitted == Routable(credit.alias, credit.aliasRevision)
<1>1. CASE ~admitted
  BY <1>1, AdvanceInv DEF Send, Advance, BeforeSend
<1>2. CASE admitted
  <2>1. /\ ObserveStop /\ UNCHANGED <<lockedVars, connectRecovery, connectRecoveryFence, outsideVars>>
        /\ UNCHANGED <<credit, overtaken>> /\ cpc = "send" /\ cpc' = "sent" /\ credit # None
        /\ UNCHANGED <<captured, released, attention>>
        /\ routeDispatchSeq' = routeDispatchSeq + 1
        /\ sent' = sent \cup {<<Key(credit), routeDispatchSeq + 1>>}
    BY <1>2 DEF Send, Advance, RInv, RTypeOK
  <2>2. /\ routeDispatchSeq \in Nat /\ Key(credit) \in Nat \X Nat
        /\ Key(credit) = <<credit.bound.inc, credit.ord>>
    <3>1. routeDispatchSeq \in Nat
      BY Parts DEF RInv, RTypeOK, CountersTyped
    <3>2. /\ credit.ord \in Nat /\ credit.bound.inc \in Nat
          /\ Key(credit) = <<credit.bound.inc, credit.ord>>
      BY <2>1, RTypes DEF RInv
    <3> QED BY <3>1, <3>2
  <2>3. TypeOK' /\ FenceStep
    <3>1. /\ connectRecovery' \in Maybe(CreditType) /\ connectRecoveryFence' \in Maybe(CreditType)
          /\ routeDispatchSeq' \in Nat
      BY <2>1, <2>2 DEF RInv, RTypeOK, TypeOK
    <3> QED BY <2>1, <3>1, BridgeTypes DEF RInv, RTypeOK
  <2>4. UNCHANGED <<connectRecoverySeen, eng, wire, faults>>
    BY <2>1 DEF lockedVars, outsideVars, engineVars
  <2>5. RTypeOK'
    BY <2>1, <2>2, <2>3 DEF RInv, RTypeOK
  <2>6. Held' /\ Passed'
    <3>1. \A i \in Incs : /\ connectRecoverySeen'[i] \in Nat
                          /\ connectRecoverySeen[i] <= connectRecoverySeen'[i]
      BY <2>4, RTypes DEF RInv
    <3> QED BY <2>1, <2>3, <3>1, Carries DEF RInv, Passed
  <2>7. Wired' /\ CreditsKnown'
    BY <2>1, <2>4 DEF RInv, Wired, CreditsKnown, Known, Key
  <2>8. Unsent(credit)
    BY <2>1 DEF RInv, SentKnown, BeforeSend
  <2>9. OneSelectionPerTransfer'
    BY <2>1, <2>8 DEF RInv, OneSelectionPerTransfer, Unsent
  <2>10. SentKnown'
    <3>1. \A x \in sent' : x[1][1] \in Incs /\ x[1][2] <= connectRecoverySeen'[x[1][1]]
      BY <2>1, <2>2, <2>4 DEF RInv, SentKnown, CreditsKnown, Known
    <3>2. connectRecovery' # None => Unsent(connectRecovery)'
      BY <2>1 DEF RInv, SentKnown, CreditsKnown, Unsent, Key
    <3> QED BY <2>1, <3>1, <3>2 DEF SentKnown, BeforeSend
  <2> QED BY <2>5, <2>6, <2>7, <2>9, <2>10 DEF RInv
<1> QED BY <1>1, <1>2

\* The credit is given back unused, spent, or dropped.
LEMMA EndInv ==
    ASSUME RInv, Retain \/ Commit
    PROVE  RInv'
<1>1. /\ ObserveStop /\ cpc' = "idle" /\ credit' = None /\ credit # None
      /\ UNCHANGED <<lockedVars, routeDispatchSeq, outsideVars, captured, sent, overtaken>>
      /\ \/ cpc = "busy" /\ connectRecovery' = credit
         \/ UNCHANGED connectRecovery
      /\ connectRecoveryFence' \in {connectRecoveryFence, None}
  BY DEF Retain, Commit, RInv, RTypeOK
<1>2. TypeOK'
  BY <1>1, BridgeTypes DEF RInv, RTypeOK, TypeOK, Maybe
<1>3. UNCHANGED <<connectRecoverySeen, eng, wire, faults>>
  BY <1>1 DEF lockedVars, outsideVars, engineVars
<1>4. RTypeOK'
  BY <1>1, <1>2 DEF RInv, RTypeOK, Maybe
<1>5. (Held /\ Passed /\ Wired /\ OneSelectionPerTransfer)'
  BY <1>1, <1>3 DEF RInv, Held, Passed, Wired, OneSelectionPerTransfer
<1>6. (CreditsKnown /\ SentKnown)'
  BY <1>1, <1>3 DEF RInv, CreditsKnown, Known, SentKnown, Unsent, Key, BeforeSend
<1> QED BY <1>4, <1>5, <1>6 DEF RInv

\* Attention, the released marker and the passing of time.
LEMMA SideInv ==
    ASSUME RInv, TypeOK',
           UNCHANGED <<eng, wire, faults, st, aliasRevision, transportRevision, connectRecovery,
                       connectRecoveryFence, connectRecoverySeen, credit, cpc, sent, overtaken>>
    PROVE  RInv'
<1>1. RTypeOK' /\ Wired' /\ OneSelectionPerTransfer'
  BY DEF RInv, RTypeOK, Wired, OneSelectionPerTransfer
<1>2. CreditsKnown' /\ SentKnown' /\ Held' /\ Passed'
  BY DEF RInv, CreditsKnown, Known, SentKnown, Unsent, Key, Held, Passed, Outdated
<1> QED BY <1>1, <1>2 DEF RInv

-----------------------------------------------------------------------------
(* The invariant *)

LEMMA RInvInit == RInit => RInv
<1> SUFFICES ASSUME RInit PROVE RInv
  OBVIOUS
<1>1. TypeOK
  BY TypeInit DEF RInit
<1>2. /\ eng.inc = 1 /\ faults = 0 /\ wire = <<>> /\ connectRecovery = None
      /\ connectRecoveryFence = None /\ credit = None /\ cpc = "idle" /\ sent = {}
  BY DEF RInit, Init
<1>3. RTypeOK /\ Wired
  BY <1>1, <1>2, ConstantsAssumption DEF RTypeOK, Maybe, Wired
<1> QED BY <1>2, <1>3 DEF RInv, CreditsKnown, SentKnown, OneSelectionPerTransfer, Held, Passed,
        BeforeSend

LEMMA RInvNext == RInv /\ [RNext]_allVars => RInv'
<1> SUFFICES ASSUME RInv, [RNext]_allVars PROVE RInv'
  OBVIOUS
<1>1. CASE LiveStep
  BY <1>1, LiveInv
<1>2. CASE Consume \/ Retain \/ Commit \/ Send
  BY <1>2, ConsumeInv, EndInv, SendInv
<1>3. CASE CheckConsumed
  BY <1>3, AdvanceInv DEF CheckConsumed, Advance, BeforeSend
<1>4. ASSUME NEW owned \in BOOLEAN, ReadFact(owned) PROVE RInv'
  BY <1>4, AdvanceInv DEF ReadFact, Advance, BeforeSend
<1>5. ASSUME NEW o \in PrimeOutcome, Prime(o) PROVE RInv'
  BY <1>5, AdvanceInv DEF Prime, Advance, BeforeSend
<1>6. CASE CheckSend
  BY <1>6, AdvanceInv DEF CheckSend, Advance, BeforeSend
<1>7. ASSUME NEW ok \in BOOLEAN, Response(ok) PROVE RInv'
  BY <1>7, AdvanceInv DEF Response, Advance, BeforeSend
<1>8. CASE AttentionFlips \/ ReleaseRoom \/ UNCHANGED allVars
  <2>1. UNCHANGED <<vars, credit, cpc, sent, overtaken>>
    BY <1>8 DEF AttentionFlips, ReleaseRoom, allVars, recovery
  <2>2. TypeOK'
    BY <2>1, TypeNext DEF RInv, RTypeOK
  <2> QED BY <2>1, <2>2, SideInv DEF vars, engineVars, liveVars, fenceVars, recoveryVars
<1>9. CASE Expire
  <2>1. PICK c \in {connectRecovery, credit} \ {None} : Live(c) /\ expired' = c.at
    BY <1>9 DEF Expire
  <2>2. c.at \in Nat
    BY <2>1, RTypes DEF RInv, CreditType
  <2>3. /\ UNCHANGED fenceVars /\ UNCHANGED <<st, transportRevision, wireRevision>>
        /\ UNCHANGED <<routeDispatchSeq, stopped, nextRequest>> /\ UNCHANGED manualVars
        /\ UNCHANGED <<connectRecovery, connectRecoveryFence, connectRecoverySeen>>
        /\ UNCHANGED engineVars /\ UNCHANGED reader /\ UNCHANGED <<requests, asked>>
        /\ UNCHANGED bridgeVars /\ UNCHANGED historyVars /\ UNCHANGED recovery
    BY <1>9 DEF Expire
  <2>4. RecoveryTyped'
    BY <2>1, <2>2, <2>3, Parts DEF RInv, RTypeOK, RecoveryTyped
  <2>5. TypeOK'
    BY <2>3, <2>4, Parts, Unchanged, PartsNext DEF RInv, RTypeOK
  <2> QED BY <2>3, <2>5, SideInv DEF engineVars, fenceVars, recovery
<1> QED BY <1>1, <1>2, <1>3, <1>4, <1>5, <1>6, <1>7, <1>8, <1>9 DEF RNext, Recover

LEMMA RInvAlways == RSpec => []RInv
BY RInvInit, RInvNext, PTL DEF RSpec

-----------------------------------------------------------------------------
(* Theorems *)

\* The live view keeps its types beside the bridge's recovery, and the bridge holds a credit
\* exactly while it works on one.
THEOREM RecoveryTypesAlways == RSpec => []RTypeOK
<1>1. RInv => RTypeOK
  BY DEF RInv
<1> QED BY <1>1, RInvAlways, PTL

\* However often a credit is given back and consumed again, its transfer sends at most one output
\* selection (consumeConnectRecovery, retainConnectRecovery).
THEOREM OneSelectionAlways == RSpec => []OneSelectionPerTransfer
<1>1. RInv => OneSelectionPerTransfer
  BY DEF RInv
<1> QED BY <1>1, RInvAlways, PTL

\* The released marker is removed only for a transfer that nothing the user did has overtaken, and
\* never while attention owns the route (commitConnectRecoveryReceipt).
THEOREM CommitsAreCurrent == RSpec => CommitNotOvertaken
<1>1. RInv /\ [RNext]_allVars =>
        [released /\ ~released' => ~overtaken /\ ~attention]_allVars
  <2> SUFFICES ASSUME RInv, RNext, released, ~released' PROVE ~overtaken /\ ~attention
    OBVIOUS
  <2>1. Commit /\ Committable
    BY DEF RNext, LiveStep, Recover, Consume, CheckConsumed, ReadFact, Prime, Retain, CheckSend, Send,
       Response, Advance, Commit, AttentionFlips, ReleaseRoom, Expire, recovery
  <2>2. credit # None
    BY <2>1 DEF Commit, RInv, RTypeOK
  <2>3. ~Outdated(credit)
    BY <2>1, <2>2, NotOutdated DEF Committable
  <2> QED BY <2>1, <2>2, <2>3 DEF Committable, RInv, Passed
<1> QED BY <1>1, RInvAlways, PTL DEF RSpec, CommitNotOvertaken

\* A credit that the user has overtaken while the bridge held it does not come back
\* (retainConnectRecovery): nothing else writes back a credit of that transfer.
THEOREM NothingRevives == RSpec => NoRevival
<1>1. RInv /\ [RNext]_allVars =>
        [connectRecovery' \notin {None, connectRecovery} /\ Key(connectRecovery') = Key(credit) =>
            ~overtaken]_allVars
  <2> SUFFICES ASSUME RInv, RNext, connectRecovery' \notin {None, connectRecovery},
                      Key(connectRecovery') = Key(credit)
               PROVE  ~overtaken
    OBVIOUS
  <2>0. /\ Key(connectRecovery') = <<connectRecovery'.bound.inc, connectRecovery'.ord>>
        /\ connectRecovery'.bound.inc \in Nat /\ connectRecovery'.ord \in Nat
    <3>1. RInv'
      BY RInvNext
    <3>2. connectRecovery' \in CreditType
      BY <3>1 DEF RInv, RTypeOK, TypeOK, Maybe
    <3> QED BY <3>2 DEF CreditType, BindingType, Key
  <2>1. credit # None
    BY <2>0, NilAssumption DEF Key
  <2>2. CASE LiveStep
    <3>1. CreditStep
      BY <2>2, LiveCredits DEF LiveStep, RInv, RTypeOK
    <3>2. CASE Settles
      BY <2>1, <3>2 DEF Settles, RInv, CreditsKnown
    <3>3. CASE Accepts
      <4>1. PICK i \in Incs, ord \in Nat :
              /\ ord > connectRecoverySeen[i]
              /\ connectRecovery'.bound.inc = i /\ connectRecovery'.ord = ord
        BY <3>3 DEF Accepts
      <4>2. /\ Key(credit) = <<credit.bound.inc, credit.ord>> /\ credit.ord \in Nat
            /\ credit.ord <= connectRecoverySeen[credit.bound.inc]
            /\ connectRecoverySeen[i] \in Nat
        BY <2>1, RTypes DEF RInv, CreditsKnown, Known
      <4>3. <<i, ord>> = <<credit.bound.inc, credit.ord>>
        <5>1. Key(connectRecovery') = <<i, ord>>
          BY <2>0, <4>1
        <5>2. Key(connectRecovery') = Key(credit)
          OBVIOUS
        <5> QED BY <4>2, <5>1, <5>2
      <4> QED BY <4>1, <4>2, <4>3
    <3> QED BY <3>1, <3>2, <3>3 DEF CreditStep
  <2>3. CASE Retain
    <3>1. Retainable(credit) /\ ~Retired
      BY <2>3 DEF Retain, RouteCurrent, Guard, StartIntentCurrent
    <3>2. ~Outdated(credit)
      BY <2>1, <3>1, NotOutdated DEF Retainable
    <3> QED BY <2>1, <3>2 DEF RInv, Passed
  <2>4. CASE ~LiveStep /\ ~Retain
    <3>1. connectRecovery' \in {None, connectRecovery}
      BY <2>4 DEF RNext, Recover, Consume, CheckConsumed, ReadFact, Prime, CheckSend, Send, Response,
         Advance, Commit, AttentionFlips, ReleaseRoom, Expire, vars, liveVars, recoveryVars
    <3> QED BY <3>1
  <2> QED BY <2>2, <2>3, <2>4
<1> QED BY <1>1, RInvAlways, PTL DEF RSpec, NoRevival

=============================================================================
