---------------------------- MODULE RadioProofs ----------------------------
(* Machine-checked proofs about Radio, for every set of receivers and every  *)
(* bound: the types, that one operation is unresolved at a time, that a      *)
(* revoked operation stays revoked, and that Spotify and the radio never     *)
(* sound together: a source sounds only under a hold that Native keeps and   *)
(* has parked, and HoldInv follows that hold from the record a thread works  *)
(* on to the receiver it silences.                                           *)
EXTENDS Radio, FiniteSetTheorems, WellFoundedInduction, TLAPS

-----------------------------------------------------------------------------
(* Types *)

Place == Targets \cup {NoTarget}
NativeType ==
  [hold : [Targets -> OpOrNone], phase : [Op -> HoldPhase], parked : SUBSET Op, fresh : SUBSET Op,
   ticket : [Op -> PlayOrNone]]

\* Sources whose epoch is at most n.
SourceUpTo(n) ==
  [src : OpOrNone, op : OpOrNone, tgt : Place, phase : SourcePhase, epoch : 0 .. n, hold : OpOrNone,
   relinquished : BOOLEAN]
SenderUpTo(n) ==
  [main : SourceUpTo(n), cand : SourceUpTo(n), drains : [Targets -> SourceUpTo(n)],
   signed : SUBSET PlayOrNone, fault : BOOLEAN]
ClientType == [latest : OpOrNone, admitted : SUBSET Op, holds : [Targets -> OpOrNone]]
ProducerType ==
  [active : OpOrNone, retained : [Targets -> [native : OpOrNone, epoch : 0 .. MaxOps]], live : SUBSET Op]
ShownType ==
  [state : {"idle", "preparing", "playing", "stopped", "unknown", "cancelled", "error"},
   source : {"none", "radio", "unknown"}, target : Place, owner : OpOrNone]
CmdType ==
  [kind : {"none", "start", "move", "stop", "volume"}, target : Place, from : Place, playing : BOOLEAN,
   old : ShownType]
FaultsType == [lost : 0 .. MaxFaults, restarts : 0 .. MaxRestarts]
CoordType == [enabled : BOOLEAN, pending : BOOLEAN, shown : ShownType, fence : OpOrNone, last : OpOrNone]
PlayType ==
  [step : {"idle", "journal", "recover", "drain", "record", "observe", "commit", "refused"},
   id : PlayOrNone, target : Place, hold : OpOrNone, key : OpOrNone]
PollType ==
  [step : {"idle", "release", "observe", "native", "cancelled", "preempted", "sender", "settle", "apply"},
   mode : {"refresh", "result"}, fence : OpOrNone, last : OpOrNone, rec : Record,
   outcome : {"none", "rejected", "preempted", "committed"}, obs : Observation]

\* The operations that have asked the sender to prepare a source, or never will.
Before == {<<"preflight", "journal">>, <<"preflight", "call">>}
Begun == {o \in Op : pc[o][1] # "idle" /\ pc[o] \notin Before}
Threads ==
  {"idle", "preflight", "reserve", "native", "sender", "cancel", "fence", "stop", "suspend", "start",
   "volume", "finish", "done", "over"}
Points ==
  {"none", "journal", "call", "record", "reject", "check", "set", "admit", "read", "wait", "result",
   "playing", "stopped", "unknown", "clean", "superseded"}
PCType == [Op -> Threads \X Points]

PeersTyped ==
  native \in NativeType /\ sender \in SenderUpTo(Cardinality(Begun)) /\ client \in ClientType
JournalTyped == records \in [Op -> Record] /\ disk \in [Op -> Record]
ThreadsTyped ==
  producer \in ProducerType /\ cmd \in [Op -> CmdType] /\ pc \in PCType /\ faults \in FaultsType
ReadersTyped ==
  coord \in CoordType /\ current \subseteq 0 .. MaxOps + 1 /\ play \in PlayType /\ poll \in PollType
Typed == PeersTyped /\ JournalTyped /\ ThreadsTyped /\ ReadersTyped

-----------------------------------------------------------------------------
(* Numbers *)

LEMMA OpBasic ==
  /\ MaxOps \in Nat /\ MaxOps > 0 /\ MaxFaults \in Nat /\ MaxPlays \in Nat /\ MaxRestarts \in Nat
  /\ Op \subseteq Nat /\ OpOrNone \subseteq Nat /\ Op \subseteq OpOrNone /\ 0 \in OpOrNone
  /\ \A o \in OpOrNone : o # 0 => o \in Op
  /\ 0 \notin Op
  /\ IsFiniteSet(Op) /\ Cardinality(Op) = MaxOps
  /\ PlayOrNone \subseteq Nat /\ 0 \in PlayOrNone /\ PlayOrNone \subseteq 0 .. Plain
  /\ 0 \in 0 .. MaxOps /\ 0 \in 0 .. Plain /\ Plain \in 0 .. Plain
<1>1. MaxOps \in Nat /\ MaxOps > 0 /\ MaxFaults \in Nat /\ MaxPlays \in Nat /\ MaxRestarts \in Nat
  BY RadioPeersAssumption, RadioProducerAssumption, RadioAssumption
<1>2. IsFiniteSet(1 .. MaxOps) /\ Cardinality(1 .. MaxOps) = MaxOps
  BY <1>1, FS_Interval
<1> QED BY <1>1, <1>2 DEF Op, OpOrNone, PlayOrNone, Plain

LEMMA Least ==
  ASSUME NEW S, S \subseteq Nat, S # {}
  PROVE  \E n \in S : \A m \in S : n <= m
<1> DEFINE R == OpToRel(<, Nat)
<1>1. IsWellFoundedOn(R, Nat)
  BY NatLessThanWellFounded
<1>2. \A x, y \in Nat : y < x => <<y, x>> \in R
  BY DEF OpToRel
<1> HIDE DEF R
<1>3. PICK n \in S : \A m \in S : ~(<<m, n>> \in R)
  BY <1>1, WFMin
<1>4. \A m \in S : ~(m < n)
  BY <1>2, <1>3
<1> QED BY <1>4

\* execute takes the first operation that has no thread yet.
LEMMA NextOpIdle ==
  ASSUME \E o \in Op : pc[o][1] = "idle"
  PROVE  NextOp \in Op /\ pc[NextOp][1] = "idle"
<1> DEFINE S == {o \in Op : pc[o][1] = "idle"}
<1>1. PICK n \in S : \A m \in S : n <= m
  BY Least, OpBasic
<1>2. \A p \in 1 .. n - 1 : p \in Op /\ ~(n <= p)
  BY OpBasic DEF Op
<1>3. \E o \in Op : pc[o][1] = "idle" /\ \A p \in 1 .. o - 1 : pc[p][1] # "idle"
  BY <1>1, <1>2
<1> QED BY <1>3 DEF NextOp

\* The count of begun operations is at most MaxOps, and a thread never goes back.
LEMMA BegunCount ==
  /\ IsFiniteSet(Begun) /\ Cardinality(Begun) \in 0 .. MaxOps
  /\ \A o \in Op : o \notin Begun => Cardinality(Begun) < MaxOps /\ Cardinality(Begun \cup {o}) = Cardinality(Begun) + 1
<1>1. Begun \in SUBSET Op
  BY DEF Begun
<1>2. IsFiniteSet(Begun) /\ Cardinality(Begun) <= Cardinality(Op) /\ (Cardinality(Begun) = Cardinality(Op) => Begun = Op)
  BY <1>1, OpBasic, FS_Subset
<1>3. Cardinality(Begun) \in Nat
  BY <1>2, FS_CardinalityType
<1>4. \A o \in Op : o \notin Begun => Cardinality(Begun \cup {o}) = Cardinality(Begun) + 1
  BY <1>2, FS_AddElement
<1>5. \A o \in Op : o \notin Begun => Cardinality(Begun) # MaxOps
  BY <1>2, OpBasic
<1> QED BY <1>2, <1>3, <1>4, <1>5, OpBasic

LEMMA SenderGrows ==
  ASSUME NEW m \in Nat, NEW n \in Nat, m <= n
  PROVE  SenderUpTo(m) \subseteq SenderUpTo(n)
<1>1. \A s : s \in SourceUpTo(m) => s \in SourceUpTo(n)
  <2>1. 0 .. m \subseteq 0 .. n
    OBVIOUS
  <2> QED BY <2>1 DEF SourceUpTo
<1> QED BY <1>1 DEF SenderUpTo

LEMMA BegunGrows ==
  ASSUME Begun \subseteq Begun'
  PROVE  \A s \in SenderUpTo(Cardinality(Begun)) : s \in SenderUpTo(Cardinality(Begun'))
<1>1. Begun' \in SUBSET Op
  BY DEF Begun
<1>2. IsFiniteSet(Begun') /\ Begun \in SUBSET Begun'
  BY <1>1, OpBasic, FS_Subset
<1>3. Cardinality(Begun) <= Cardinality(Begun') /\ Cardinality(Begun) \in Nat /\ Cardinality(Begun') \in Nat
  BY <1>2, FS_Subset, FS_CardinalityType
<1> QED BY <1>3, SenderGrows

-----------------------------------------------------------------------------
(* The peers keep their types *)

\* Native's operations on a hold and a receiver.
LEMMA NativeOperations ==
  ASSUME native \in NativeType, NEW h \in OpOrNone, NEW o \in Op, NEW t \in Place, NEW i \in PlayOrNone
  PROVE  /\ Held(o, t) \in NativeType /\ Rejected(o) \in NativeType /\ IntentCaptured(o) \in NativeType
         /\ Suspend(o) \in NativeType /\ ResultRead(h) \in NativeType
         /\ h # 0 => Suspend(h) \in NativeType
         /\ h # 0 => \A n \in SuspendUncertain(h) : n \in NativeType
         /\ Intend(Reacquiring(h)) \in NativeType /\ Intend(native) \in NativeType
         /\ Returned(h, t, i) \in NativeType /\ ReacquireFailed(h) \in NativeType
         /\ NativeRestarted \in NativeType
<1> USE DEF NativeType, HoldPhase
<1>0. o \in OpOrNone /\ (h # 0 => h \in Op)
  BY OpBasic
<1>1. Held(o, t) \in NativeType /\ Rejected(o) \in NativeType
  BY <1>0 DEF Held, Rejected
<1>2. IntentCaptured(o) \in NativeType
  BY DEF IntentCaptured
<1>3. \A k \in Op : Suspend(k) \in NativeType
  BY DEF Suspend
<1>4. ResultRead(h) \in NativeType
  BY DEF ResultRead
<1>5. h # 0 => \A n \in SuspendUncertain(h) : n \in NativeType
  <2>1. \A k \in Op : \A p \in {native.parked, native.parked \cup {k}} :
           [native EXCEPT !.phase[k] = "unknown", !.parked = p] \in NativeType
    OBVIOUS
  <2> SUFFICES ASSUME h \in Op, NEW n \in SuspendUncertain(h) PROVE n \in NativeType
    BY <1>0
  <2>2. PICK p \in {native.parked, native.parked \cup {h}} : n = [native EXCEPT !.phase[h] = "unknown", !.parked = p]
    BY Zenon DEF SuspendUncertain
  <2> QED BY <2>1, <2>2, Zenon
<1>6. Intend(Reacquiring(h)) \in NativeType /\ Intend(native) \in NativeType
  BY DEF Intend, Reacquiring
<1>7. Returned(h, t, i) \in NativeType
  BY OpBasic DEF Returned
<1>8. ReacquireFailed(h) \in NativeType
  BY DEF ReacquireFailed
<1>9. NativeRestarted \in NativeType
  BY DEF NativeRestarted
<1> QED BY <1>0, <1>1, <1>2, <1>3, <1>4, <1>5, <1>6, <1>7, <1>8, <1>9

\* The sender's operations but a preparation leave every epoch where it is.
LEMMA SourceWith ==
  ASSUME NEW n \in Nat, NEW s \in SourceUpTo(n), NEW o \in OpOrNone, NEW h \in OpOrNone,
         NEW ph \in SourcePhase
  PROVE  /\ [s EXCEPT !.phase = ph] \in SourceUpTo(n)
         /\ [s EXCEPT !.phase = ph, !.hold = h] \in SourceUpTo(n)
         /\ [s EXCEPT !.op = o] \in SourceUpTo(n)
         /\ [s EXCEPT !.phase = ph, !.op = o] \in SourceUpTo(n)
         /\ [s EXCEPT !.phase = ph, !.hold = h, !.relinquished = TRUE] \in SourceUpTo(n)
         /\ [s EXCEPT !.relinquished = TRUE] \in SourceUpTo(n)
BY DEF SourceUpTo

LEMMA SenderWith ==
  ASSUME NEW n \in Nat, sender \in SenderUpTo(n), NEW s \in SourceUpTo(n), NEW c \in SourceUpTo(n),
         NEW t \in Place, NEW i \in PlayOrNone
  PROVE  /\ [sender EXCEPT !.main = s] \in SenderUpTo(n)
         /\ [sender EXCEPT !.cand = c] \in SenderUpTo(n)
         /\ [sender EXCEPT !.main = s, !.cand = c] \in SenderUpTo(n)
         /\ [sender EXCEPT !.signed = @ \cup {i}] \in SenderUpTo(n)
         /\ Drain(sender, s) \in SenderUpTo(n)
<1> USE DEF SenderUpTo
<1>1. [sender.drains EXCEPT ![s.tgt] = s] \in [Targets -> SourceUpTo(n)]
  OBVIOUS
<1>2. Drain(sender, s) \in SenderUpTo(n)
  BY <1>1 DEF Drain
<1> QED BY <1>2

LEMMA NoSourceTyped ==
  ASSUME NEW n \in Nat
  PROVE  NoSource \in SourceUpTo(n)
BY OpBasic DEF NoSource, SourceUpTo, Place, SourcePhase

LEMMA StateOfTyped ==
  ASSUME NEW n \in Nat, sender \in SenderUpTo(n), NEW src
  PROVE  StateOf(src) \in SourceUpTo(n)
BY DEF StateOf, SenderUpTo

LEMMA SenderOperations ==
  ASSUME NEW n \in Nat, sender \in SenderUpTo(n), NEW src, NEW h \in OpOrNone, NEW o \in Op,
         NEW t \in Place, NEW i \in PlayOrNone
  PROVE  /\ Bound(src, h) \in SenderUpTo(n) /\ StartedSource(src) \in SenderUpTo(n)
         /\ VolumeSet(o) \in SenderUpTo(n) /\ Stopped(o) \in SenderUpTo(n)
         /\ Challenged(src, t, h, i) \in SenderUpTo(n) /\ CancelledSource(src) \in SenderUpTo(n)
<1>0. /\ sender.main \in SourceUpTo(n) /\ sender.cand \in SourceUpTo(n) /\ o \in OpOrNone
      /\ {"bound", "starting", "drained", "cancelled"} \subseteq SourcePhase
      /\ \A u \in Targets : sender.drains[u] \in SourceUpTo(n)
  BY OpBasic DEF SenderUpTo, SourcePhase
<1>1. Bound(src, h) \in SenderUpTo(n)
  <2>1. Bound(src, h) = IF sender.cand.src = src
                        THEN [sender EXCEPT !.cand = [sender.cand EXCEPT !.phase = "bound", !.hold = h]]
                        ELSE [sender EXCEPT !.main = [sender.main EXCEPT !.phase = "bound", !.hold = h]]
    <3>1. [sender EXCEPT !.cand.phase = "bound", !.cand.hold = h]
            = [sender EXCEPT !.cand = [sender.cand EXCEPT !.phase = "bound", !.hold = h]]
      BY DEF SenderUpTo, SourceUpTo
    <3>2. [sender EXCEPT !.main.phase = "bound", !.main.hold = h]
            = [sender EXCEPT !.main = [sender.main EXCEPT !.phase = "bound", !.hold = h]]
      BY DEF SenderUpTo, SourceUpTo
    <3> QED BY <3>1, <3>2, Zenon DEF Bound
  <2>2. /\ [sender EXCEPT !.cand = [sender.cand EXCEPT !.phase = "bound", !.hold = h]] \in SenderUpTo(n)
        /\ [sender EXCEPT !.main = [sender.main EXCEPT !.phase = "bound", !.hold = h]] \in SenderUpTo(n)
    <3>1. /\ [sender.cand EXCEPT !.phase = "bound", !.hold = h] \in SourceUpTo(n)
          /\ [sender.main EXCEPT !.phase = "bound", !.hold = h] \in SourceUpTo(n)
      BY <1>0, SourceWith
    <3> QED BY <3>1, SenderWith
  <2> QED BY <2>1, <2>2, Zenon
<1>2. StartedSource(src) \in SenderUpTo(n)
  <2>1. [StateOf(src) EXCEPT !.phase = "starting"] \in SourceUpTo(n)
    BY <1>0, StateOfTyped, SourceWith
  <2> QED BY <1>0, <2>1, NoSourceTyped, SenderWith DEF StartedSource
<1>3. VolumeSet(o) \in SenderUpTo(n)
  <2>1. VolumeSet(o) = [sender EXCEPT !.main = [sender.main EXCEPT !.op = o]]
    BY DEF VolumeSet, SenderUpTo, SourceUpTo
  <2> QED BY <1>0, <2>1, SourceWith, SenderWith
<1>4. Stopped(o) \in SenderUpTo(n)
  <2>1. [sender.main EXCEPT !.phase = "drained", !.op = o] \in SourceUpTo(n)
    BY <1>0, SourceWith
  <2> QED BY <2>1, SenderWith DEF Stopped
<1>5. CancelledSource(src) \in SenderUpTo(n)
  <2>1. CancelledSource(src) = IF sender.cand.src = src
                               THEN [sender EXCEPT !.cand = [sender.cand EXCEPT !.phase = "cancelled"]]
                               ELSE [sender EXCEPT !.main = [sender.main EXCEPT !.phase = "cancelled"]]
    BY DEF CancelledSource, SenderUpTo, SourceUpTo
  <2>2. /\ [sender EXCEPT !.cand = [sender.cand EXCEPT !.phase = "cancelled"]] \in SenderUpTo(n)
        /\ [sender EXCEPT !.main = [sender.main EXCEPT !.phase = "cancelled"]] \in SenderUpTo(n)
    <3>1. /\ [sender.cand EXCEPT !.phase = "cancelled"] \in SourceUpTo(n)
          /\ [sender.main EXCEPT !.phase = "cancelled"] \in SourceUpTo(n)
      BY <1>0, SourceWith
    <3> QED BY <3>1, SenderWith
  <2> QED BY <2>1, <2>2, Zenon
<1>6. Challenged(src, t, h, i) \in SenderUpTo(n)
  <2> DEFINE cancelled == IF CandidatePresent /\ sender.cand.tgt = t
                          THEN [sender EXCEPT !.cand.phase = "cancelled"] ELSE sender
             signed == [cancelled EXCEPT !.signed = @ \cup {i}]
  <2>1. cancelled \in SenderUpTo(n) /\ cancelled.main = sender.main /\ cancelled.drains = sender.drains
    <3>1. [sender EXCEPT !.cand.phase = "cancelled"]
            = [sender EXCEPT !.cand = [sender.cand EXCEPT !.phase = "cancelled"]]
      BY DEF SenderUpTo, SourceUpTo
    <3>2. [sender EXCEPT !.cand = [sender.cand EXCEPT !.phase = "cancelled"]] \in SenderUpTo(n)
      BY <1>0, SourceWith, SenderWith
    <3> QED BY <3>1, <3>2 DEF SenderUpTo
  <2>2. signed \in SenderUpTo(n) /\ signed.main = sender.main /\ signed.drains = sender.drains
    BY <2>1 DEF SenderUpTo
  <2> HIDE DEF cancelled, signed
  <2>3. [sender.main EXCEPT !.phase = "drained", !.hold = h, !.relinquished = TRUE] \in SourceUpTo(n)
    BY <1>0, SourceWith
  <2>4. Drain(signed, [sender.main EXCEPT !.phase = "drained", !.hold = h, !.relinquished = TRUE])
          \in SenderUpTo(n)
    BY <2>2, <2>3 DEF Drain, SenderUpTo
  <2>5. [signed EXCEPT !.drains[t].relinquished = TRUE] \in SenderUpTo(n)
    <3>1. CASE t \in Targets
      <4>1. [signed.drains[t] EXCEPT !.relinquished = TRUE] \in SourceUpTo(n)
        BY <1>0, <2>2, <3>1, SourceWith
      <4>2. [signed EXCEPT !.drains[t].relinquished = TRUE]
              = [signed EXCEPT !.drains = [signed.drains EXCEPT ![t] = [signed.drains[t] EXCEPT !.relinquished = TRUE]]]
        BY <2>2 DEF SenderUpTo
      <4> QED BY <2>2, <4>1, <4>2 DEF SenderUpTo
    <3>2. CASE t \notin Targets
      BY <2>2, <3>2 DEF SenderUpTo
    <3> QED BY <3>1, <3>2
  <2> QED BY <2>4, <2>5 DEF Challenged, signed, cancelled
<1> QED BY <1>1, <1>2, <1>3, <1>4, <1>5, <1>6

-----------------------------------------------------------------------------
(* The inductive invariant *)

\* The effects a thread stands at once its operation was reserved.
Reserved == {"native", "sender", "cancel", "fence", "stop", "suspend", "start", "volume", "finish"}
Holding == Reserved \ {"native", "cancel"}
Unjournaled(o) == pc[o][1] = "idle" \/ pc[o] = <<"preflight", "journal">>

\* A thread that has not journaled its operation has no record, one that has
\* reserved it has, a stop or volume has the active operation before it, and
\* one that went on from Native has a hold.
Placed ==
  \A o \in Op :
    /\ pc[o][1] \notin {"idle", "over"} => cmd[o].target \in Targets
    /\ Unjournaled(o) => ~Exists(o)
    /\ pc[o][1] \in Reserved => Exists(o) /\ (SourceOperation(o) => records[o].prior # 0)
    /\ pc[o][1] \in Holding => records[o].native # 0

\* A revocation is in the journal before it is in memory.
Sealed ==
  \A o \in Op :
    /\ records[o].preempted => Exists(o) /\ disk[o].preempted
    /\ disk[o].preempted => disk[o].stage # "none"

\* A poll reconciles, and a preemption retires, a record that exists.
Reconciling == {"native", "cancelled", "preempted", "sender", "settle"}
PollPlaced == poll.step \in Reconciling => poll.fence \in Op /\ Exists(poll.fence)
PlayPlaced ==
  /\ play.step # "idle" => play.hold \in Op
  /\ play.step \in {"recover", "drain", "record"} => play.key \in Op /\ Exists(play.key)

Inv == Typed /\ Placed /\ Sealed /\ PollPlaced /\ PlayPlaced /\ OneUnresolved

-----------------------------------------------------------------------------
(* What a step does to the journals *)

Journaled(o, r) == Stored(o, r) \/ StoreFailed(o, r)

\* No record is lost or loses its revocation, and the only record that comes
\* open did so while no other one was.
Unresolved(p) == Open(p) /\ ~records[p].preempted
JournalStep ==
  /\ records' \in [Op -> Record] /\ disk' \in [Op -> Record]
  /\ \A p \in Op :
       /\ Exists(p) => Exists(p)'
       /\ Exists(p)' => Exists(p) \/ ~Unjournaled(p)'
       /\ records[p].preempted => records'[p].preempted
       /\ records'[p].preempted => Exists(p)' /\ disk'[p].preempted
       /\ disk'[p].preempted => disk'[p].stage # "none"
       /\ pc[p][1] \in Reserved => records'[p].prior = records[p].prior
       /\ pc[p][1] \in Reserved /\ records[p].native # 0 => records'[p].native # 0
       /\ Unresolved(p)' => \/ Unresolved(p)
                            \/ NoneOpen(Op \ {p}) /\ \A q \in Op \ {p} : records'[q] = records[q]

LEMMA JournalKept ==
  ASSUME JournalTyped, Sealed, UNCHANGED <<records, disk>>
  PROVE  JournalStep
BY DEF JournalTyped, Sealed, JournalStep, Exists, Open, Unresolved

LEMMA Rewritten ==
  ASSUME JournalTyped, Sealed, faults \in FaultsType, NEW o \in Op, NEW r \in Record, Journaled(o, r),
         Exists(o) => r.stage # "none",
         Exists(o) \/ ~Unjournaled(o)',
         records[o].preempted => r.preempted,
         r.preempted => r.stage # "none",
         pc[o][1] \in Reserved => r.prior = records[o].prior,
         pc[o][1] \in Reserved /\ records[o].native # 0 => r.native # 0,
         r.stage # "none" /\ ~r.terminal /\ ~r.preempted => Unresolved(o) \/ NoneOpen(Op \ {o})
  PROVE  JournalStep /\ faults' \in FaultsType
<1>1. \/ records' = [records EXCEPT ![o] = r] /\ disk' = [disk EXCEPT ![o] = r]
      \/ records' = records /\ disk' \in {disk, [disk EXCEPT ![o] = r]}
  BY DEF Journaled, Stored, StoreFailed
<1>2. faults' \in FaultsType
  BY OpBasic DEF Journaled, Stored, StoreFailed, Fault, FaultsType
<1>3. records' \in [Op -> Record] /\ disk' \in [Op -> Record]
  BY <1>1 DEF JournalTyped
<1>4. \A p \in Op : /\ p # o => records'[p] = records[p] /\ disk'[p] = disk[p]
                    /\ records'[o] = records[o] \/ (records'[o] = r /\ disk'[o] = r)
                    /\ disk'[o] = disk[o] \/ disk'[o] = r
  BY <1>1 DEF JournalTyped
<1>5. SUFFICES ASSUME NEW p \in Op
      PROVE  /\ Exists(p) => Exists(p)'
             /\ Exists(p)' => Exists(p) \/ ~Unjournaled(p)'
             /\ records[p].preempted => records'[p].preempted
             /\ records'[p].preempted => Exists(p)' /\ disk'[p].preempted
             /\ disk'[p].preempted => disk'[p].stage # "none"
             /\ pc[p][1] \in Reserved => records'[p].prior = records[p].prior
             /\ pc[p][1] \in Reserved /\ records[p].native # 0 => records'[p].native # 0
             /\ Unresolved(p)' => \/ Unresolved(p)
                                  \/ NoneOpen(Op \ {p}) /\ \A q \in Op \ {p} : records'[q] = records[q]
  BY <1>2, <1>3 DEF JournalStep
<1>6. CASE p # o
  BY <1>4, <1>6 DEF Exists, Open, Unresolved, Sealed
<1>7. CASE p = o
  BY <1>4, <1>7 DEF Exists, Open, Unresolved, Sealed
<1> QED BY <1>6, <1>7

\* A record that exists is amended: it stays as revoked and as settled as it was.
LEMMA Amended ==
  ASSUME JournalTyped, Sealed, faults \in FaultsType, NEW o \in Op, NEW r \in Record, Journaled(o, r),
         Exists(o), r.stage # "none", r.preempted = records[o].preempted, r.prior = records[o].prior,
         records[o].native # 0 => r.native # 0, records[o].terminal => r.terminal
  PROVE  JournalStep /\ faults' \in FaultsType
<1>1. r.stage # "none" /\ ~r.terminal /\ ~r.preempted => Unresolved(o)
  BY DEF Unresolved, Open
<1> QED BY <1>1, Rewritten

-----------------------------------------------------------------------------
(* What a step does to a thread *)

Goes(o, x) == pc' = [pc EXCEPT ![o] = x]
Going(o) == pc[o][1] \notin {"idle", "over"}
ThreadStep(o) ==
  /\ pc' \in PCType /\ cmd' = cmd /\ Going(o) /\ ~Unjournaled(o)'
  /\ \A p \in Op \ {o} : pc'[p] = pc[p]
  /\ pc'[o] \in Before => pc[o] \in Before
  /\ pc'[o][1] \in Reserved =>
       \/ pc[o][1] \in Reserved
       \/ Exists(o)' /\ (SourceOperation(o) => records'[o].prior # 0)
  /\ pc'[o][1] \in Holding => pc[o][1] \in Holding \/ records'[o].native # 0

\* A thread may go on to x: forward, and past its reservation only from there.
Onward(o, x) ==
  /\ Going(o) /\ x \in Threads \X Points /\ x[1] # "idle" /\ x # <<"preflight", "journal">>
  /\ x \in Before => pc[o] \in Before
  /\ x[1] \in Reserved => pc[o][1] \in Reserved
  /\ x[1] \in Holding => pc[o][1] \in Holding

LEMMA Moved ==
  ASSUME NEW o \in Op, pc \in PCType, cmd' = cmd, NEW x, Goes(o, x), Onward(o, x)
  PROVE  ThreadStep(o)
<1>2. pc' \in PCType /\ pc'[o] = x /\ \A p \in Op \ {o} : pc'[p] = pc[p]
  BY DEF PCType, Goes, Onward
<1> QED BY <1>2 DEF Onward, ThreadStep, Unjournaled

LEMMA FollowingAdmits ==
  ASSUME NEW o \in Op, NEW effect
  PROVE  Following(o, effect) \in {"volume", "stop", "suspend", "start", "finish"}
BY DEF Following

\* Where each step of an operation's thread may go.
LEMMA OperationThread ==
  ASSUME Typed, NEW o \in Op, OperationStep(o), ~ReserveJournal(o), ~NativeRecord(o)
  PROVE  ThreadStep(o)
<1> DEFINE Ended == {<<"done", "unknown">>, <<"done", "clean">>}
           Admitted == {<<"volume", "admit">>, <<"stop", "admit">>, <<"suspend", "admit">>,
                        <<"start", "admit">>, <<"finish", "admit">>}
<1> USE DEF Goto, Unknown, Clean, At
<1>0. pc \in PCType
  BY DEF Typed, ThreadsTyped
<1>1. CASE PreflightJournal(o)
  <2>1. PICK x \in Ended \cup {<<"preflight", "call">>} :
          Goes(o, x) /\ pc[o] = <<"preflight", "journal">> /\ cmd' = cmd
    BY <1>1 DEF Goes, PreflightJournal, Write
  <2>9. Onward(o, x)
    BY <2>1 DEF Onward, Before, Reserved, Holding, Going, Threads, Points
  <2> QED BY <1>0, <2>1, <2>9, Moved
<1>2. CASE PreflightCall(o)
  <2>1. PICK x \in Ended \cup {<<"preflight", "record">>, <<"preflight", "reject">>} :
          Goes(o, x) /\ pc[o] = <<"preflight", "call">> /\ cmd' = cmd
    BY <1>2 DEF Goes, PreflightCall, SenderCall
  <2>9. Onward(o, x)
    BY <2>1 DEF Onward, Before, Reserved, Holding, Going, Threads, Points
  <2> QED BY <1>0, <2>1, <2>9, Moved
<1>3. CASE PreflightRecord(o)
  <2>1. PICK x \in Ended \cup {<<"reserve", "check">>} :
          Goes(o, x) /\ pc[o] = <<"preflight", "record">> /\ cmd' = cmd
    BY <1>3 DEF Goes, PreflightRecord, Write
  <2>9. Onward(o, x)
    BY <2>1 DEF Onward, Before, Reserved, Holding, Going, Threads, Points
  <2> QED BY <1>0, <2>1, <2>9, Moved
<1>4. CASE PreflightReject(o)
  <2>1. PICK x \in Ended :
          Goes(o, x) /\ pc[o] = <<"preflight", "reject">> /\ cmd' = cmd
    BY <1>4 DEF Goes, PreflightReject, Write
  <2>9. Onward(o, x)
    BY <2>1 DEF Onward, Before, Reserved, Holding, Going, Threads, Points
  <2> QED BY <1>0, <2>1, <2>9, Moved
<1>5. CASE NativeReserve(o)
  <2>1. PICK x \in Ended \cup {<<"native", "record">>, <<"cancel", "journal">>} :
          Goes(o, x) /\ pc[o] = <<"native", "call">> /\ cmd' = cmd
    BY <1>5 DEF Goes, NativeReserve, NativeCall
  <2>9. Onward(o, x)
    BY <2>1 DEF Onward, Before, Reserved, Holding, Going, Threads, Points
  <2> QED BY <1>0, <2>1, <2>9, Moved
<1>7. CASE SenderReserve(o)
  <2>1. PICK x \in Ended \cup {<<"sender", "record">>} :
          Goes(o, x) /\ pc[o] = <<"sender", "call">> /\ cmd' = cmd
    BY <1>7 DEF Goes, SenderReserve, SenderCall
  <2>9. Onward(o, x)
    BY <2>1 DEF Onward, Before, Reserved, Holding, Going, Threads, Points
  <2> QED BY <1>0, <2>1, <2>9, Moved
<1>8. CASE SenderRecord(o)
  <2>1. PICK x \in Ended \cup {<<"fence", "set">>} :
          Goes(o, x) /\ pc[o] = <<"sender", "record">> /\ cmd' = cmd
    BY <1>8 DEF Goes, SenderRecord, Write
  <2>9. Onward(o, x)
    BY <2>1 DEF Onward, Before, Reserved, Holding, Going, Threads, Points
  <2> QED BY <1>0, <2>1, <2>9, Moved
<1>9. CASE CancelJournal(o)
  <2>1. PICK x \in Ended \cup {<<"cancel", "call">>} :
          Goes(o, x) /\ pc[o] = <<"cancel", "journal">> /\ cmd' = cmd
    BY <1>9 DEF Goes, CancelJournal, Write
  <2>9. Onward(o, x)
    BY <2>1 DEF Onward, Before, Reserved, Holding, Going, Threads, Points
  <2> QED BY <1>0, <2>1, <2>9, Moved
<1>10. CASE CancelCall(o)
  <2>1. PICK x \in Ended \cup {<<"cancel", "record">>} :
          Goes(o, x) /\ pc[o] = <<"cancel", "call">> /\ cmd' = cmd
    BY <1>10 DEF Goes, CancelCall, SenderCall
  <2>9. Onward(o, x)
    BY <2>1 DEF Onward, Before, Reserved, Holding, Going, Threads, Points
  <2> QED BY <1>0, <2>1, <2>9, Moved
<1>11. CASE CancelRecord(o)
  <2>1. PICK x \in Ended :
          Goes(o, x) /\ pc[o] = <<"cancel", "record">> /\ cmd' = cmd
    BY <1>11 DEF Goes, CancelRecord, Write
  <2>9. Onward(o, x)
    BY <2>1 DEF Onward, Before, Reserved, Holding, Going, Threads, Points
  <2> QED BY <1>0, <2>1, <2>9, Moved
<1>12. CASE Admit(o)
  <2>1. PICK e \in Effect : /\ \E x \in Ended \cup {<<e, "read">>, <<e, "call">>} : Goes(o, x)
                            /\ pc[o] = <<e, "admit">> /\ cmd' = cmd
    BY <1>12 DEF Goes, Admit, Write
  <2>2. PICK x \in Ended \cup {<<e, "read">>, <<e, "call">>} : Goes(o, x)
    BY <2>1
  <2>9. Onward(o, x)
    BY <2>1, <2>2 DEF Onward, Before, Reserved, Holding, Going, Threads, Points, Effect
  <2> QED BY <1>0, <2>1, <2>2, <2>9, Moved
<1>13. CASE Advance(o)
  <2>1. PICK e \in {"suspend", "start", "volume"} :
          /\ \E x \in Ended \cup {<<Following(o, e), "admit">>} : Goes(o, x)
          /\ pc[o] = <<e, "record">> /\ cmd' = cmd
    BY <1>13 DEF Goes, Advance, Write, Proceed
  <2>2. PICK x \in Ended \cup {<<Following(o, e), "admit">>} : Goes(o, x)
    BY <2>1
  <2>3. x \in Ended \cup Admitted
    BY <2>2, FollowingAdmits
  <2>9. Onward(o, x)
    BY <2>1, <2>2, <2>3 DEF Onward, Before, Reserved, Holding, Going, Threads, Points
  <2> QED BY <1>0, <2>1, <2>2, <2>3, <2>9, Moved
<1>14. CASE StopCall(o)
  <2>1. PICK x \in Ended \cup {<<"stop", "record">>} :
          Goes(o, x) /\ pc[o] = <<"stop", "call">> /\ cmd' = cmd
    BY <1>14 DEF Goes, StopCall, SenderCall
  <2>9. Onward(o, x)
    BY <2>1 DEF Onward, Before, Reserved, Holding, Going, Threads, Points
  <2> QED BY <1>0, <2>1, <2>9, Moved
<1>15. CASE StopRecord(o)
  <2>1. PICK x \in Ended \cup {<<Following(o, "stop"), "admit">>} :
          Goes(o, x) /\ pc[o] = <<"stop", "record">> /\ cmd' = cmd
    BY <1>15 DEF Goes, StopRecord, Proceed
  <2>2. x \in Ended \cup Admitted
    BY <2>1, FollowingAdmits
  <2>9. Onward(o, x)
    BY <2>1, <2>2 DEF Onward, Before, Reserved, Holding, Going, Threads, Points
  <2> QED BY <1>0, <2>1, <2>2, <2>9, Moved
<1>16. CASE SuspendRead(o)
  <2>1. PICK x \in Ended \cup {<<"suspend", "record">>, <<"suspend", "call">>} :
          Goes(o, x) /\ pc[o] = <<"suspend", "read">> /\ cmd' = cmd
    BY <1>16 DEF Goes, SuspendRead, NativeCall
  <2>9. Onward(o, x)
    BY <2>1 DEF Onward, Before, Reserved, Holding, Going, Threads, Points
  <2> QED BY <1>0, <2>1, <2>9, Moved
<1>17. CASE SuspendCall(o)
  <2>1. PICK x \in Ended \cup {<<"suspend", "record">>} :
          Goes(o, x) /\ pc[o] = <<"suspend", "call">> /\ cmd' = cmd
    BY <1>17 DEF Goes, SuspendCall, NativeCall
  <2>9. Onward(o, x)
    BY <2>1 DEF Onward, Before, Reserved, Holding, Going, Threads, Points
  <2> QED BY <1>0, <2>1, <2>9, Moved
<1>18. CASE StartRead(o)
  <2>1. PICK x \in Ended \cup {<<"start", "call">>} :
          Goes(o, x) /\ pc[o] = <<"start", "read">> /\ cmd' = cmd
    BY <1>18 DEF Goes, StartRead, NativeCall
  <2>9. Onward(o, x)
    BY <2>1 DEF Onward, Before, Reserved, Holding, Going, Threads, Points
  <2> QED BY <1>0, <2>1, <2>9, Moved
<1>19. CASE StartCall(o)
  <2>1. PICK x \in Ended \cup {<<"start", "record">>} :
          Goes(o, x) /\ pc[o] = <<"start", "call">> /\ cmd' = cmd
    BY <1>19 DEF Goes, StartCall, SenderCall
  <2>9. Onward(o, x)
    BY <2>1 DEF Onward, Before, Reserved, Holding, Going, Threads, Points
  <2> QED BY <1>0, <2>1, <2>9, Moved
<1>20. CASE VolumeCall(o)
  <2>1. PICK x \in Ended \cup {<<"volume", "record">>} :
          Goes(o, x) /\ pc[o] = <<"volume", "call">> /\ cmd' = cmd
    BY <1>20 DEF Goes, VolumeCall, SenderCall
  <2>9. Onward(o, x)
    BY <2>1 DEF Onward, Before, Reserved, Holding, Going, Threads, Points
  <2> QED BY <1>0, <2>1, <2>9, Moved
<1>21. CASE FinishWait(o)
  <2>1. PICK x \in Ended \cup {<<"finish", "wait">>, <<"finish", "result">>} :
          Goes(o, x) /\ pc[o] \in {<<"finish", "read">>, <<"finish", "wait">>} /\ cmd' = cmd
    BY <1>21 DEF Goes, FinishWait
  <2>9. Onward(o, x)
    BY <2>1 DEF Onward, Before, Reserved, Holding, Going, Threads, Points
  <2> QED BY <1>0, <2>1, <2>9, Moved
<1>22. CASE FinishResult(o)
  <2>1. PICK x \in Ended \cup {<<"finish", "playing">>, <<"finish", "stopped">>} :
          Goes(o, x) /\ pc[o] = <<"finish", "result">> /\ cmd' = cmd
    BY <1>22 DEF Goes, FinishResult, ResultMatches, TerminalObs
  <2>9. Onward(o, x)
    BY <2>1 DEF Onward, Before, Reserved, Holding, Going, Threads, Points
  <2> QED BY <1>0, <2>1, <2>9, Moved
<1>23. CASE FinishRecord(o)
  <2>1. PICK state \in {"playing", "stopped"} :
          /\ \E x \in Ended \cup {<<"done", state>>} : Goes(o, x)
          /\ pc[o] = <<"finish", state>> /\ cmd' = cmd
    BY <1>23 DEF Goes, FinishRecord, Write
  <2>2. PICK x \in Ended \cup {<<"done", state>>} : Goes(o, x)
    BY <2>1
  <2>9. Onward(o, x)
    BY <2>1, <2>2 DEF Onward, Before, Reserved, Holding, Going, Threads, Points
  <2> QED BY <1>0, <2>1, <2>2, <2>9, Moved
<1> QED BY <1>1, <1>2, <1>3, <1>4, <1>5, <1>7, <1>8, <1>9, <1>10, <1>11, <1>12, <1>13, <1>14,
           <1>15, <1>16, <1>17, <1>18, <1>19, <1>20, <1>21, <1>22, <1>23 DEF OperationStep

-----------------------------------------------------------------------------
(* What an operation's step does to the journals and to the producer *)

ProducerStep ==
  /\ producer' \in ProducerType
  /\ producer'.active # producer.active /\ producer'.active # 0 => ~records'[producer'.active].preempted

LEMMA FaultTyped ==
  ASSUME faults \in FaultsType, Fault \/ UNCHANGED faults
  PROVE  faults' \in FaultsType
BY OpBasic DEF Fault, FaultsType

LEMMA NothingWritten ==
  ASSUME Inv, UNCHANGED producerVars, Fault \/ UNCHANGED faults
  PROVE  JournalStep /\ faults' \in FaultsType /\ ProducerStep
<1>1. JournalStep
  BY JournalKept DEF Inv, Typed, producerVars
<1>2. faults' \in FaultsType /\ producer' \in ProducerType
  BY FaultTyped DEF Inv, Typed, ThreadsTyped, producerVars
<1> QED BY <1>1, <1>2 DEF ProducerStep, producerVars

\* An amendment of a record that exists.
Amends(o, r) ==
  /\ r \in Record /\ r.stage # "none" /\ r.preempted = records[o].preempted /\ r.prior = records[o].prior
  /\ records[o].native # 0 => r.native # 0
  /\ records[o].terminal => r.terminal

LEMMA AmendmentWritten ==
  ASSUME Inv, NEW o \in Op, Exists(o), NEW r, Amends(o, r), Journaled(o, r),
         UNCHANGED producer \/ (producer' \in ProducerType /\ producer'.active = producer.active)
  PROVE  JournalStep /\ faults' \in FaultsType /\ ProducerStep
<1>1. JournalStep /\ faults' \in FaultsType
  BY Amended DEF Inv, Typed, ThreadsTyped, Amends
<1>2. producer' \in ProducerType /\ producer'.active = producer.active
  BY DEF Inv, Typed, ThreadsTyped
<1> QED BY <1>1, <1>2 DEF ProducerStep

LEMMA ReservedExists ==
  ASSUME Inv, NEW o \in Op, NEW e \in Reserved, NEW s, At(o, e, s)
  PROVE  Exists(o) /\ records[o] \in Record
<1>1. pc[o][1] \in Reserved
  BY DEF At
<1> QED BY <1>1 DEF Inv, Placed, Typed, JournalTyped

LEMMA NoRecordTyped == NoRecord \in Record
BY OpBasic DEF NoRecord, Record, Stage, NoTarget

\* Writes that are not made leave everything as it is; those that are amend
\* the operation's own record, except the first.
LEMMA PreflightWrites ==
  ASSUME Inv, NEW o \in Op, ThreadStep(o), PreflightJournal(o) \/ PreflightRecord(o) \/ PreflightReject(o)
  PROVE  JournalStep /\ faults' \in FaultsType /\ ProducerStep
<1>0. /\ records[o] \in Record /\ producer \in ProducerType /\ cmd[o].target \in Place
      /\ o \in OpOrNone /\ 0 \in OpOrNone
  BY OpBasic DEF Inv, Typed, JournalTyped, ThreadsTyped, CmdType
<1>1. CASE PreflightJournal(o)
  <2> DEFINE r == [NoRecord EXCEPT !.stage = "preflight-attempted", !.target = cmd[o].target]
             m == [producer EXCEPT !.live = @ \cup {o}]
  <2>1. ~Exists(o) /\ ~records[o].preempted /\ pc[o][1] \notin Reserved /\ ~Unjournaled(o)'
    BY <1>1 DEF PreflightJournal, At, Inv, Placed, Sealed, Unjournaled, Reserved, ThreadStep
  <2>2. r \in Record /\ r.stage # "none" /\ ~r.preempted
    <3>1. NoRecord \in Record
      BY NoRecordTyped
    <3>2. "preflight-attempted" \in Stage
      BY DEF Stage
    <3>3. r \in Record
      BY <1>0, <3>1, <3>2 DEF Record, Place
    <3>4. r.stage # "none" /\ ~r.preempted
      BY DEF NoRecord
    <3> QED BY <3>3, <3>4
  <2>3. m \in ProducerType /\ m.active = producer.active
    BY <1>0 DEF ProducerType
  <2>4. \/ NoneOpen(Op) /\ Journaled(o, r) /\ producer' \in {producer, m}
        \/ UNCHANGED producerVars /\ (Fault \/ UNCHANGED faults)
    BY <1>1 DEF PreflightJournal, Write, Journaled
  <2> HIDE DEF r, m
  <2>5. CASE NoneOpen(Op) /\ Journaled(o, r) /\ producer' \in {producer, m}
    <3>1. NoneOpen(Op \ {o})
      BY <2>5 DEF NoneOpen
    <3>2. JournalStep /\ faults' \in FaultsType
      BY <2>1, <2>2, <2>5, <3>1, Rewritten DEF Inv, Typed, ThreadsTyped
    <3> QED BY <1>0, <2>3, <2>5, <3>2 DEF ProducerStep
  <2> QED BY <2>4, <2>5, NothingWritten
<1>2. CASE PreflightRecord(o)
  <2> DEFINE r == [records[o] EXCEPT !.stage = "preflight-prepared", !.peer = o,
                                     !.epoch = StateOf(o).epoch]
  <2>1. StateOf(o).epoch \in 0 .. MaxOps
    <3>1. Cardinality(Begun) \in 0 .. MaxOps /\ sender \in SenderUpTo(Cardinality(Begun))
      BY BegunCount DEF Inv, Typed, PeersTyped
    <3>2. StateOf(o) \in SourceUpTo(Cardinality(Begun))
      BY <3>1, StateOfTyped
    <3> QED BY <3>1, <3>2, OpBasic DEF SourceUpTo
  <2>2. Amends(o, r)
    BY <1>0, <2>1 DEF Amends, Record, Stage
  <2>3. \/ Exists(o) /\ Journaled(o, r) /\ UNCHANGED producer
        \/ UNCHANGED producerVars /\ (Fault \/ UNCHANGED faults)
    BY <1>2 DEF PreflightRecord, Write, Journaled, StillPreflighting, Exists
  <2> HIDE DEF r
  <2> QED BY <2>2, <2>3, AmendmentWritten, NothingWritten
<1>3. CASE PreflightReject(o)
  <2> DEFINE r == [records[o] EXCEPT !.stage = "preflight-rejected", !.terminal = TRUE,
                                     !.outcome = "rejected"]
  <2>2. Amends(o, r)
    BY <1>0 DEF Amends, Record, Stage
  <2>3. \/ Exists(o) /\ Journaled(o, r) /\ UNCHANGED producer
        \/ UNCHANGED producerVars /\ (Fault \/ UNCHANGED faults)
    BY <1>3 DEF PreflightReject, Write, Journaled, StillPreflighting, Exists
  <2> HIDE DEF r
  <2> QED BY <2>2, <2>3, AmendmentWritten, NothingWritten
<1> QED BY <1>1, <1>2, <1>3

\* Reserve opens a record while no other one is open.
LEMMA ReserveWrites ==
  ASSUME Inv, NEW o \in Op, ReserveJournal(o)
  PROVE  ThreadStep(o) /\ JournalStep /\ faults' \in FaultsType /\ ProducerStep
<1> DEFINE r == Reservation(o)
           m == [producer EXCEPT !.live = @ \cup {o}]
<1>0. /\ records \in [Op -> Record] /\ producer \in ProducerType /\ pc \in PCType
      /\ o \in OpOrNone /\ 0 \in OpOrNone
      /\ pc[o] = <<"reserve", "journal">> /\ cmd' = cmd /\ cmd[o].target \in Targets
  BY OpBasic DEF Inv, Typed, JournalTyped, ThreadsTyped, ReserveJournal, At, Placed
<1>1. m \in ProducerType /\ m.active = producer.active
  BY <1>0 DEF ProducerType
<1>2. /\ Going(o) /\ pc[o][1] \notin Reserved
      /\ "native" \notin Holding /\ <<"native", "call">> \in Threads \X Points /\ <<"native", "call">> \notin Before
  BY <1>0 DEF Going, Reserved, Holding, Threads, Points, Before
<1>3. CASE MayReserve(o) /\ Write(o, r, m, Goto(o, "native", "call"), Unknown(o))
  <2> DEFINE a == producer.active
             base == IF SourceOperation(o)
                     THEN [NoRecord EXCEPT !.target = cmd[o].target, !.peer = records[a].peer,
                                           !.epoch = records[a].epoch]
                     ELSE records[o]
             kept == producer.retained[cmd[o].target]
             old == IF kept.native # 0 /\ kept.epoch = base.epoch THEN kept.native ELSE 0
  <2>1. /\ NoneOpen(Op \ {o}) /\ a \in OpOrNone
        /\ SourceOperation(o) => ~Exists(o) /\ a # 0
        /\ ~SourceOperation(o) => records[o].stage = "preflight-prepared"
    BY <1>0, <1>3 DEF MayReserve, ProducerType
  <2>2. old \in OpOrNone
    BY <1>0 DEF ProducerType
  <2>3. base \in Record /\ base.preempted = (~SourceOperation(o) /\ records[o].preempted)
    <3>1. CASE SourceOperation(o)
      <4>1. a \in Op
        BY <2>1, <3>1, OpBasic
      <4>2. records[a].peer \in OpOrNone /\ records[a].epoch \in 0 .. MaxOps /\ cmd[o].target \in Place
        BY <1>0, <4>1 DEF Record, Place
      <4> QED BY <3>1, <4>2, OpBasic DEF NoRecord, Record, Stage, Place
    <3>2. CASE ~SourceOperation(o)
      <4>1. records[o].preempted \in BOOLEAN
        BY <1>0 DEF Record
      <4> QED BY <1>0, <3>2, <4>1
    <3> QED BY <3>1, <3>2
  <2> HIDE DEF base, old
  <2>4. r = [base EXCEPT !.stage = "native-reserve-attempted", !.prior = a, !.retained = old]
    BY DEF Reservation, base, old
  <2>5. /\ r \in Record /\ r.stage # "none" /\ r.preempted = base.preempted
        /\ SourceOperation(o) => r.prior # 0
    BY <2>1, <2>2, <2>3, <2>4 DEF Record, Stage
  <2> HIDE DEF r, a, m
  <2>6. /\ Journaled(o, r)
        /\ \/ Goto(o, "native", "call") /\ records' = [records EXCEPT ![o] = r] /\ producer' = m
           \/ Unknown(o) /\ producer' = producer
    BY <1>3 DEF Write, Journaled, Stored
  <2>7. \/ Goes(o, <<"native", "call">>) /\ records' = [records EXCEPT ![o] = r] /\ producer' = m
        \/ Goes(o, <<"done", "unknown">>) /\ producer' = producer
    BY <2>6 DEF Goes, Goto, Unknown
  <2>8. ThreadStep(o)
    <3>1. CASE Goes(o, <<"native", "call">>) /\ records' = [records EXCEPT ![o] = r]
      <4>1. pc' \in PCType /\ pc'[o] = <<"native", "call">> /\ \A p \in Op \ {o} : pc'[p] = pc[p]
        BY <1>0, <1>2, <3>1 DEF Goes, PCType
      <4>2. Exists(o)' /\ (SourceOperation(o) => records'[o].prior # 0)
        BY <1>0, <2>5, <3>1 DEF Exists
      <4> QED BY <1>0, <1>2, <4>1, <4>2 DEF ThreadStep, Unjournaled
    <3>2. CASE Goes(o, <<"done", "unknown">>)
      <4>1. Onward(o, <<"done", "unknown">>)
        BY <1>2 DEF Onward, Before, Reserved, Holding, Threads, Points
      <4> QED BY <1>0, <3>2, <4>1, Moved
    <3> QED BY <2>7, <3>1, <3>2
  <2>9. records[o].preempted => r.preempted
    BY <2>1, <2>3, <2>5 DEF Inv, Sealed
  <2>10. JournalStep /\ faults' \in FaultsType
    BY <1>2, <2>1, <2>5, <2>6, <2>8, <2>9, Rewritten DEF Inv, Typed, ThreadsTyped, ThreadStep
  <2>11. ProducerStep
    BY <1>0, <1>1, <2>7 DEF ProducerStep
  <2> QED BY <2>8, <2>10, <2>11
<1>4. CASE ~MayReserve(o) /\ Unknown(o) /\ UNCHANGED <<producerVars, faults>>
  <2>1. Goes(o, <<"done", "unknown">>) /\ Onward(o, <<"done", "unknown">>)
    BY <1>2, <1>4 DEF Onward, Before, Reserved, Holding, Threads, Points, Goes, Goto, Unknown
  <2> QED BY <1>0, <1>4, <2>1, Moved, NothingWritten
<1> QED BY <1>3, <1>4 DEF ReserveJournal

\* An operation that goes on from Native has a hold.
LEMMA NativeWrites ==
  ASSUME Inv, NEW o \in Op, NativeRecord(o)
  PROVE  ThreadStep(o) /\ JournalStep /\ faults' \in FaultsType /\ ProducerStep
<1> DEFINE h == IF Reused(o) # 0 THEN Reused(o) ELSE o
           r == [records[o] EXCEPT !.native = h, !.stage = "sender-reserve-attempted"]
<1>0. /\ records \in [Op -> Record] /\ records[o] \in Record /\ pc \in PCType /\ cmd' = cmd
      /\ o \in OpOrNone /\ 0 \in OpOrNone /\ o # 0 /\ pc[o] = <<"native", "record">>
  BY OpBasic DEF Inv, Typed, JournalTyped, ThreadsTyped, NativeRecord, At
<1>1. Exists(o)
  BY ReservedExists DEF NativeRecord, Reserved
<1>2. h \in OpOrNone /\ h # 0
  <2>1. SourceOperation(o) => records[o].prior # 0
    BY <1>0 DEF Inv, Placed, Reserved
  <2>2. records[o].prior \in OpOrNone /\ records[o].retained \in OpOrNone
    BY <1>0 DEF Record
  <2>3. records[o].prior # 0 => records[records[o].prior].native \in OpOrNone
    BY <1>0, <2>2, OpBasic DEF Record
  <2> QED BY <1>0, <2>1, <2>2, <2>3 DEF Reused, SameTarget
<1> HIDE DEF h
<1>3. Amends(o, r) /\ r.native # 0
  <2>1. r \in Record
    BY <1>0, <1>2 DEF Record, Stage
  <2>2. r.stage # "none" /\ r.native # 0
    BY <1>0, <1>2 DEF Record
  <2>3. r.preempted = records[o].preempted /\ r.prior = records[o].prior /\ r.terminal = records[o].terminal
    BY <1>0 DEF Record
  <2> QED BY <2>1, <2>2, <2>3 DEF Amends
<1>4. \/ Journaled(o, r) /\ UNCHANGED producer
      \/ UNCHANGED producerVars /\ (Fault \/ UNCHANGED faults)
  BY DEF NativeRecord, Write, Journaled, h
<1>5. \/ Goes(o, <<"sender", "call">>) /\ records' = [records EXCEPT ![o] = r]
      \/ Goes(o, <<"done", "unknown">>)
  BY DEF NativeRecord, Write, Stored, Goes, Goto, Unknown, h
<1> HIDE DEF r
<1>6. Going(o)
  BY <1>0 DEF Going
<1>7. ThreadStep(o)
  <2>1. CASE Goes(o, <<"sender", "call">>) /\ records' = [records EXCEPT ![o] = r]
    <3>1. /\ pc' \in PCType /\ pc'[o] = <<"sender", "call">> /\ \A p \in Op \ {o} : pc'[p] = pc[p]
          /\ records'[o].native # 0
      BY <1>0, <1>3, <2>1 DEF Goes, PCType, Threads, Points
    <3> QED BY <1>0, <1>6, <3>1 DEF ThreadStep, Unjournaled, Before, Reserved
  <2>2. CASE Goes(o, <<"done", "unknown">>)
    <3>1. Onward(o, <<"done", "unknown">>)
      BY <1>6 DEF Onward, Before, Reserved, Holding, Threads, Points
    <3> QED BY <1>0, <2>2, <3>1, Moved
  <2> QED BY <1>5, <2>1, <2>2
<1> QED BY <1>1, <1>3, <1>4, <1>7, AmendmentWritten, NothingWritten

LEMMA ReservedWrites ==
  ASSUME Inv, NEW o \in Op,
         \/ SenderRecord(o) \/ CancelJournal(o) \/ CancelRecord(o) \/ Admit(o) \/ Advance(o)
         \/ FinishRecord(o)
  PROVE  JournalStep /\ faults' \in FaultsType /\ ProducerStep
<1>0. /\ records \in [Op -> Record] /\ records[o] \in Record /\ producer \in ProducerType
      /\ o \in OpOrNone /\ 0 \in OpOrNone
  BY OpBasic DEF Inv, Typed, JournalTyped, ThreadsTyped
<1>2. CASE SenderRecord(o)
  <2> DEFINE s == IF SourceOperation(o) THEN records[records[o].prior].sender ELSE o
             r == [records[o] EXCEPT !.sender = s, !.stage = "reserved"]
             k == [native |-> records[o].native, epoch |-> records[o].epoch]
             m == [producer EXCEPT !.retained[records[o].target] = k]
  <2>1. Exists(o)
    BY <1>2, ReservedExists DEF SenderRecord, Reserved
  <2>2. s \in OpOrNone
    <3>1. SourceOperation(o) => records[o].prior # 0
      BY <1>2 DEF SenderRecord, At, Inv, Placed, Reserved
    <3>2. records[o].prior \in OpOrNone
      BY <1>0 DEF Record
    <3>3. records[o].prior # 0 => records[records[o].prior].sender \in OpOrNone
      BY <1>0, <3>2, OpBasic DEF Record
    <3> QED BY <1>0, <3>1, <3>2, <3>3
  <2> HIDE DEF s
  <2>3. Amends(o, r)
    BY <1>0, <2>2 DEF Amends, Record, Stage
  <2>4. k \in [native : OpOrNone, epoch : 0 .. MaxOps]
    BY <1>0 DEF Record
  <2> HIDE DEF k
  <2>5. m \in ProducerType /\ m.active = producer.active
    BY <1>0, <2>4 DEF ProducerType
  <2>6. \/ Journaled(o, r) /\ producer' \in {producer, m}
        \/ UNCHANGED producerVars /\ (Fault \/ UNCHANGED faults)
    BY <1>2 DEF SenderRecord, Write, Journaled, s, k
  <2> HIDE DEF r, m
  <2> QED BY <2>1, <2>3, <2>5, <2>6, AmendmentWritten, NothingWritten
<1>3. CASE CancelJournal(o)
  <2> DEFINE r == [records[o] EXCEPT !.rejection = TRUE, !.stage = "candidate-cancel-attempted"]
  <2>1. Exists(o)
    BY <1>3, ReservedExists DEF CancelJournal, Reserved
  <2>2. Amends(o, r)
    <3>1. r \in Record
      BY <1>0 DEF Record, Stage
    <3>2. r.stage # "none"
      BY <1>0 DEF Record
    <3>3. /\ r.preempted = records[o].preempted /\ r.prior = records[o].prior
          /\ r.terminal = records[o].terminal /\ r.native = records[o].native
      BY <1>0 DEF Record
    <3> QED BY <3>1, <3>2, <3>3 DEF Amends
  <2>3. \/ Journaled(o, r) /\ UNCHANGED producer
        \/ UNCHANGED producerVars /\ (Fault \/ UNCHANGED faults)
    BY <1>3 DEF CancelJournal, Write, Journaled
  <2> HIDE DEF r
  <2> QED BY <2>1, <2>2, <2>3, AmendmentWritten, NothingWritten
<1>4. CASE CancelRecord(o)
  <2> DEFINE r == [records[o] EXCEPT !.terminal = TRUE, !.outcome = "rejected",
                                     !.stage = "no-effects-rejected"]
  <2>1. Exists(o)
    BY <1>4, ReservedExists DEF CancelRecord, Reserved
  <2>2. Amends(o, r)
    BY <1>0 DEF Amends, Record, Stage
  <2>3. \/ Journaled(o, r) /\ UNCHANGED producer
        \/ UNCHANGED producerVars /\ (Fault \/ UNCHANGED faults)
    BY <1>4 DEF CancelRecord, Write, Journaled
  <2> HIDE DEF r
  <2> QED BY <2>1, <2>2, <2>3, AmendmentWritten, NothingWritten
<1>5. CASE Admit(o)
  <2>1. PICK e \in Effect :
          /\ At(o, e, "admit")
          /\ \/ Journaled(o, [records[o] EXCEPT !.stage = Attempt[e]]) /\ UNCHANGED producer
             \/ UNCHANGED producerVars /\ (Fault \/ UNCHANGED faults)
    BY <1>5 DEF Admit, Write, Journaled
  <2> DEFINE r == [records[o] EXCEPT !.stage = Attempt[e]]
  <2>2. Exists(o)
    BY <2>1, ReservedExists DEF Effect, Reserved
  <2>3. Attempt[e] \in Stage \ {"none"}
    BY DEF Attempt, Effect, Stage
  <2>4. Amends(o, r)
    BY <1>0, <2>3 DEF Amends, Record
  <2> HIDE DEF r
  <2> QED BY <2>1, <2>2, <2>4, AmendmentWritten, NothingWritten DEF r
<1>6. CASE Advance(o)
  <2>1. PICK e \in {"suspend", "start", "volume"} :
          /\ At(o, e, "record")
          /\ \/ Journaled(o, [records[o] EXCEPT !.stage = Done(e)]) /\ UNCHANGED producer
             \/ UNCHANGED producerVars /\ (Fault \/ UNCHANGED faults)
    BY <1>6 DEF Advance, Write, Journaled
  <2> DEFINE r == [records[o] EXCEPT !.stage = Done(e)]
  <2>2. Exists(o)
    BY <2>1, ReservedExists DEF Reserved
  <2>3. Done(e) \in Stage \ {"none"}
    BY DEF Done, Stage
  <2>4. Amends(o, r)
    BY <1>0, <2>3 DEF Amends, Record
  <2> HIDE DEF r
  <2> QED BY <2>1, <2>2, <2>4, AmendmentWritten, NothingWritten DEF r
<1>7. CASE FinishRecord(o)
  <2>1. PICK state \in {"playing", "stopped"} :
          /\ At(o, "finish", state)
          /\ \/ /\ ~Fenced(o)
                /\ LET plays == state = "playing"
                       r == [records[o] EXCEPT !.terminal = TRUE, !.outcome = "committed",
                                               !.stage = "terminal", !.playing = plays]
                   IN \/ Stored(o, r) /\ producer' = [producer EXCEPT !.active = IF plays THEN o ELSE 0]
                      \/ StoreFailed(o, r) /\ UNCHANGED producer
             \/ UNCHANGED producerVars /\ UNCHANGED faults
    BY <1>7 DEF FinishRecord, Write
  <2> DEFINE plays == state = "playing"
             r == [records[o] EXCEPT !.terminal = TRUE, !.outcome = "committed",
                                     !.stage = "terminal", !.playing = plays]
             m == [producer EXCEPT !.active = IF plays THEN o ELSE 0]
  <2>2. Exists(o)
    BY <2>1, ReservedExists DEF Reserved
  <2>3. plays \in BOOLEAN
    OBVIOUS
  <2>4. m \in ProducerType /\ m.active \in {o, 0}
    BY <1>0 DEF ProducerType
  <2>5. \/ ~Fenced(o) /\ Stored(o, r) /\ producer' = m
        \/ StoreFailed(o, r) /\ UNCHANGED producer
        \/ UNCHANGED producerVars /\ UNCHANGED faults
    BY <2>1
  <2> HIDE DEF plays, m
  <2>6. Amends(o, r)
    BY <1>0, <2>3 DEF Amends, Record, Stage
  <2> HIDE DEF r
  <2>7. CASE ~Fenced(o) /\ Stored(o, r) /\ producer' = m
    <3>1. JournalStep /\ faults' \in FaultsType
      BY <2>2, <2>6, <2>7, Amended DEF Inv, Typed, ThreadsTyped, Amends, Journaled
    <3>2. ~records'[o].preempted
      BY <1>0, <2>6, <2>7 DEF Stored, Amends, Fenced
    <3> QED BY <2>4, <2>7, <3>1, <3>2 DEF ProducerStep
  <2> QED BY <2>2, <2>5, <2>6, <2>7, AmendmentWritten, NothingWritten DEF Journaled
<1> QED BY <1>2, <1>3, <1>4, <1>5, <1>6, <1>7

\* Several records at once are amended without coming into being.
Like(p, r) ==
  /\ r \in Record /\ (r.stage # "none" <=> Exists(p)) /\ r.preempted = records[p].preempted
  /\ r.prior = records[p].prior /\ (records[p].terminal => r.terminal)
  /\ records[p].native # 0 => r.native # 0

LEMMA SeveralAmended ==
  ASSUME Inv, records' \in [Op -> Record], disk' \in [Op -> Record],
         \A p \in Op : /\ records'[p] = records[p] \/ (Like(p, records'[p]) /\ Like(p, disk'[p]))
                       /\ disk'[p] = disk[p] \/ Like(p, disk'[p])
  PROVE  JournalStep
<1> SUFFICES ASSUME NEW p \in Op
    PROVE  /\ Exists(p) => Exists(p)'
           /\ Exists(p)' => Exists(p) \/ ~Unjournaled(p)'
           /\ records[p].preempted => records'[p].preempted
           /\ records'[p].preempted => Exists(p)' /\ disk'[p].preempted
           /\ disk'[p].preempted => disk'[p].stage # "none"
           /\ pc[p][1] \in Reserved => records'[p].prior = records[p].prior
           /\ pc[p][1] \in Reserved /\ records[p].native # 0 => records'[p].native # 0
           /\ Unresolved(p)' => \/ Unresolved(p)
                                \/ NoneOpen(Op \ {p}) /\ \A q \in Op \ {p} : records'[q] = records[q]
  BY DEF JournalStep
<1> USE DEF Exists
<1>1. /\ records[p].preempted => Exists(p) /\ disk[p].preempted
      /\ disk[p].preempted => disk[p].stage # "none"
  BY DEF Inv, Sealed
<1>2. CASE Like(p, records'[p]) /\ Like(p, disk'[p])
  BY <1>1, <1>2 DEF Like, Unresolved, Open
<1>3. CASE records'[p] = records[p] /\ (disk'[p] = disk[p] \/ Like(p, disk'[p]))
  BY <1>1, <1>3 DEF Like, Unresolved, Open
<1> QED BY <1>2, <1>3

\* The two writes of a stop's receipt.
LEMMA StopWrites ==
  ASSUME Inv, NEW o \in Op, StopRecord(o)
  PROVE  JournalStep /\ faults' \in FaultsType /\ ProducerStep
<1> DEFINE own == [records[o] EXCEPT !.ticket = Plain, !.stage = "stopped"]
           src == Incumbent(o)
           of == [records[src] EXCEPT !.drained = TRUE, !.ticket = Plain]
           first == IF records[o].prior # 0 THEN [records EXCEPT ![src] = of] ELSE records
           onDisk == IF records[o].prior # 0 THEN [disk EXCEPT ![src] = of] ELSE disk
<1>0. /\ records \in [Op -> Record] /\ disk \in [Op -> Record] /\ records[o] \in Record
      /\ producer \in ProducerType
  BY DEF Inv, Typed, JournalTyped, ThreadsTyped
<1>1. Exists(o)
  BY ReservedExists DEF StopRecord, Reserved, StillAt
<1>2. Like(o, own)
  <2>1. own \in Record
    BY <1>0, OpBasic DEF Record, Stage
  <2>2. own.stage # "none"
    BY <1>0 DEF Record
  <2>3. /\ own.preempted = records[o].preempted /\ own.prior = records[o].prior
        /\ own.terminal = records[o].terminal /\ own.native = records[o].native
    BY <1>0 DEF Record
  <2> QED BY <1>1, <2>1, <2>2, <2>3 DEF Like
<1>3. src \in Op => Like(src, of)
  BY <1>0, OpBasic DEF Like, Record, Exists
<1>4. /\ \/ records' = [first EXCEPT ![o] = own] /\ disk' = [onDisk EXCEPT ![o] = own]
         \/ records' = first /\ disk' \in {onDisk, [onDisk EXCEPT ![o] = own]}
         \/ records' = records /\ disk' \in {disk, onDisk}
      /\ Fault \/ UNCHANGED faults
      /\ producer' = producer
  BY DEF StopRecord
<1> HIDE DEF own, of, src
<1>5. /\ first \in [Op -> Record] /\ onDisk \in [Op -> Record]
      /\ \A p \in Op : \/ first[p] = records[p] /\ onDisk[p] = disk[p]
                       \/ first[p] = of /\ onDisk[p] = of /\ p = src
  <2>1. CASE src \in Op
    <3>1. of \in Record
      BY <1>3, <2>1 DEF Like
    <3> QED BY <1>0, <2>1, <3>1
  <2>2. CASE src \notin Op
    BY <1>0, <2>2
  <2> QED BY <2>1, <2>2
<1>6. \A p \in Op : (first[p] = records[p] /\ onDisk[p] = disk[p]) \/ (Like(p, first[p]) /\ Like(p, onDisk[p]))
  BY <1>3, <1>5
<1> HIDE DEF first, onDisk
<1>7. own \in Record
  BY <1>2 DEF Like
<1>8. records' \in [Op -> Record] /\ disk' \in [Op -> Record]
  BY <1>0, <1>4, <1>5, <1>7
<1>9. \A p \in Op : /\ records'[p] = records[p] \/ (Like(p, records'[p]) /\ Like(p, disk'[p]))
                    /\ disk'[p] = disk[p] \/ Like(p, disk'[p])
  <2> SUFFICES ASSUME NEW p \in Op
      PROVE  /\ records'[p] = records[p] \/ (Like(p, records'[p]) /\ Like(p, disk'[p]))
             /\ disk'[p] = disk[p] \/ Like(p, disk'[p])
    OBVIOUS
  <2>1. CASE p = o
    <3>1. \/ records'[o] = own /\ disk'[o] = own
          \/ records'[o] = first[o] /\ disk'[o] \in {onDisk[o], own}
          \/ records'[o] = records[o] /\ disk'[o] \in {disk[o], onDisk[o]}
      BY <1>0, <1>4, <1>5
    <3> QED BY <1>2, <1>6, <2>1, <3>1
  <2>2. CASE p # o
    <3>1. \/ records'[p] = first[p] /\ disk'[p] = onDisk[p]
          \/ records'[p] = records[p] /\ disk'[p] \in {disk[p], onDisk[p]}
      BY <1>0, <1>4, <1>5, <2>2
    <3> QED BY <1>6, <3>1
  <2> QED BY <2>1, <2>2
<1>10. JournalStep
  BY <1>8, <1>9, SeveralAmended
<1>11. faults' \in FaultsType
  BY <1>4, FaultTyped DEF Inv, Typed, ThreadsTyped
<1> QED BY <1>0, <1>4, <1>10, <1>11 DEF ProducerStep

\* Every step of an operation.
LEMMA OperationWrites ==
  ASSUME Inv, NEW o \in Op, OperationStep(o)
  PROVE  ThreadStep(o) /\ JournalStep /\ faults' \in FaultsType /\ ProducerStep
<1>1. CASE ReserveJournal(o)
  BY <1>1, ReserveWrites
<1>2. CASE NativeRecord(o)
  BY <1>2, NativeWrites
<1>3. CASE ~ReserveJournal(o) /\ ~NativeRecord(o)
  <2>1. ThreadStep(o)
    BY <1>3, OperationThread DEF Inv
  <2>2. CASE PreflightJournal(o) \/ PreflightRecord(o) \/ PreflightReject(o)
    BY <2>1, <2>2, PreflightWrites
  <2>3. CASE \/ SenderRecord(o) \/ CancelJournal(o) \/ CancelRecord(o) \/ Admit(o) \/ Advance(o)
             \/ FinishRecord(o)
    BY <2>1, <2>3, ReservedWrites
  <2>4. CASE StopRecord(o)
    BY <2>1, <2>4, StopWrites
  <2>5. CASE \/ PreflightCall(o) \/ NativeReserve(o) \/ SenderReserve(o) \/ CancelCall(o) \/ StopCall(o)
             \/ SuspendRead(o) \/ SuspendCall(o) \/ StartRead(o) \/ StartCall(o) \/ VolumeCall(o)
             \/ FinishWait(o) \/ FinishResult(o)
    <3>1. UNCHANGED producerVars /\ (Fault \/ UNCHANGED faults)
      BY <2>5 DEF PreflightCall, NativeReserve, SenderReserve, CancelCall, StopCall, SuspendRead, SuspendCall,
                  StartRead, StartCall, VolumeCall, FinishWait, FinishResult, SenderCall, NativeCall
    <3> QED BY <2>1, <3>1, NothingWritten
  <2> QED BY <1>3, <2>2, <2>3, <2>4, <2>5 DEF OperationStep
<1> QED BY <1>1, <1>2, <1>3

-----------------------------------------------------------------------------
(* What an operation's step does to the peers *)

PeersStep ==
  /\ native' \in NativeType /\ client' \in ClientType
  /\ sender' \in SenderUpTo(Cardinality(Begun'))

LEMMA ThreadBegun ==
  ASSUME NEW o \in Op, ThreadStep(o)
  PROVE  Begun \subseteq Begun'
BY DEF ThreadStep, Begun, Unjournaled

LEMMA PeersKept ==
  ASSUME Inv, NEW o \in Op, ThreadStep(o), UNCHANGED peerVars
  PROVE  PeersStep
BY ThreadBegun, BegunGrows DEF PeersStep, Inv, Typed, PeersTyped, peerVars

\* A preparation takes the next epoch at most.
LEMMA PreparationTyped ==
  ASSUME NEW n \in Nat, sender \in SenderUpTo(n), NEW o \in Op, NEW t \in Targets, NEW h \in OpOrNone
  PROVE  Preflighted(o, t, h) \in SenderUpTo(n + 1)
<1> DEFINE keep == IF Beside THEN CandidateEpoch(t, h) ELSE MainEpoch(t)
           new == [src |-> o, op |-> o, tgt |-> t, phase |-> "prepared", epoch |-> keep.e,
                   hold |-> keep.h, relinquished |-> FALSE]
<1>1. sender \in SenderUpTo(n + 1) /\ NoSource \in SourceUpTo(n + 1)
  BY SenderGrows, NoSourceTyped
<1>2. /\ sender.main.epoch \in 0 .. n /\ sender.drains[t].epoch \in 0 .. n
      /\ sender.main.hold \in OpOrNone /\ sender.drains[t].hold \in OpOrNone /\ 0 \in OpOrNone
  BY OpBasic DEF SenderUpTo, SourceUpTo
<1>3. CandidateEpoch(t, h).e \in 0 .. n + 1 /\ CandidateEpoch(t, h).h \in OpOrNone
  BY <1>2 DEF CandidateEpoch
<1>4. MainEpoch(t).e \in 0 .. n + 1 /\ MainEpoch(t).h \in OpOrNone
  BY <1>2 DEF MainEpoch
<1>5. keep.e \in 0 .. n + 1 /\ keep.h \in OpOrNone
  BY <1>3, <1>4
<1> HIDE DEF keep
<1>6. new \in SourceUpTo(n + 1)
  BY <1>5, OpBasic DEF SourceUpTo, Place, SourcePhase
<1>7. Preflighted(o, t, h) = IF Beside THEN [sender EXCEPT !.cand = new]
                             ELSE [sender EXCEPT !.main = new, !.cand = NoSource]
  BY Zenon DEF Preflighted, keep
<1> HIDE DEF new
<1>8. /\ [sender EXCEPT !.cand = new] \in SenderUpTo(n + 1)
      /\ [sender EXCEPT !.main = new, !.cand = NoSource] \in SenderUpTo(n + 1)
  <2>1. n + 1 \in Nat /\ t \in Place /\ 0 \in PlayOrNone
    BY OpBasic DEF Place
  <2> QED BY <1>1, <1>6, <2>1, SenderWith
<1> QED BY <1>7, <1>8, Zenon

\* The client that calls and the one that is answered.
LEMMA ClientOperations ==
  ASSUME client \in ClientType, NEW o \in Op, NEW h \in OpOrNone, NEW t
  PROVE  /\ ClientSent(o) \in ClientType /\ ClientAnswered(o) \in ClientType
         /\ ResultSeen(o) \in ClientType /\ [client EXCEPT !.holds[t] = h] \in ClientType
<1>1. o \in OpOrNone
  BY OpBasic
<1> QED BY <1>1 DEF ClientSent, ClientAnswered, ResultSeen, ClientType

LEMMA Captured ==
  ASSUME native \in NativeType, NEW o \in Op
  PROVE  IntentCaptured(o) \in NativeType
BY NativeOperations, OpBasic DEF Place

LEMMA OperationPeers ==
  ASSUME Inv, NEW o \in Op, OperationStep(o), ThreadStep(o)
  PROVE  PeersStep
<1> DEFINE n == Cardinality(Begun)
           h == records[o].native
<1>0. /\ native \in NativeType /\ client \in ClientType /\ n \in Nat /\ sender \in SenderUpTo(n)
      /\ records \in [Op -> Record] /\ h \in OpOrNone /\ cmd[o].target \in Place
      /\ 0 \in PlayOrNone /\ NoTarget \in Place
      /\ \A s \in SenderUpTo(n) : s \in SenderUpTo(Cardinality(Begun'))
  BY BegunCount, ThreadBegun, BegunGrows, OpBasic
     DEF Inv, Typed, PeersTyped, JournalTyped, ThreadsTyped, CmdType, Record, Place
<1>1. \A s : sender' = s /\ s \in SenderUpTo(n) => sender' \in SenderUpTo(Cardinality(Begun'))
  BY <1>0
<1> HIDE DEF n
<1>2. CASE PreflightJournal(o)
  <2>1. native' \in {native, IntentCaptured(o)} /\ sender' = sender /\ client' = client
    BY <1>2 DEF PreflightJournal
  <2> QED BY <1>0, <2>1, Captured DEF PeersStep
<1>3. CASE PreflightCall(o)
  <2> DEFINE t == cmd[o].target
             b == client.holds[t]
  <2>1. t \in Targets /\ b \in OpOrNone
    BY <1>0, <1>3 DEF PreflightCall, At, Inv, Placed, ClientType
  <2>2. /\ sender' \in {sender, Preflighted(o, t, b)} /\ client' = client /\ native' = native
        /\ pc[o] = <<"preflight", "call">>
        /\ \E x \in {<<"done", "clean">>, <<"preflight", "record">>, <<"preflight", "reject">>} :
             pc' = [pc EXCEPT ![o] = x]
    BY <1>3 DEF PreflightCall, SenderCall, Goto, Clean, At
  <2>3. o \notin Begun /\ Begun' = Begun \cup {o}
    <3>1. pc[o] \in Before
      BY <2>2 DEF Before
    <3>2. pc'[o] \notin Before
      BY <2>2 DEF Before, Inv, Typed, ThreadsTyped, PCType
    <3>3. pc'[o][1] # "idle" /\ \A p \in Op \ {o} : pc'[p] = pc[p]
      BY DEF ThreadStep, Unjournaled
    <3> QED BY <3>1, <3>2, <3>3 DEF Begun
  <2>4. Cardinality(Begun') = n + 1
    BY <2>3, BegunCount DEF n
  <2>5. Preflighted(o, t, b) \in SenderUpTo(n + 1) /\ sender \in SenderUpTo(n + 1)
    BY <1>0, <2>1, PreparationTyped, SenderGrows
  <2> QED BY <1>0, <2>2, <2>4, <2>5 DEF PeersStep
<1>4. CASE NativeReserve(o)
  <2>1. /\ native' \in {native, ResultRead(Reused(o)), Held(o, cmd[o].target), Rejected(o)}
        /\ Reused(o) \in OpOrNone
        /\ sender' = sender /\ client' = client
    <3>1. SourceOperation(o) => records[o].prior # 0
      BY <1>4 DEF NativeReserve, At, Inv, Placed, Reserved
    <3>2. records[o].prior \in OpOrNone /\ records[o].retained \in OpOrNone
      BY <1>0 DEF Record
    <3>3. records[o].prior # 0 => records[records[o].prior].native \in OpOrNone
      BY <1>0, <3>2, OpBasic DEF Record
    <3>4. Reused(o) \in OpOrNone
      BY <3>1, <3>2, <3>3, OpBasic DEF Reused, SameTarget
    <3> QED BY <1>4, <3>4 DEF NativeReserve, NativeCall
  <2>2. native' \in NativeType
    BY <1>0, <2>1, NativeOperations
  <2> QED BY <1>0, <2>1, <2>2 DEF PeersStep
<1>5. CASE SuspendRead(o) \/ StartRead(o)
  <2>1. native' \in {native, ResultRead(h)} /\ sender' = sender /\ client' = client
    BY <1>5 DEF SuspendRead, StartRead, NativeCall
  <2>2. native' \in NativeType
    BY <1>0, <2>1, NativeOperations
  <2> QED BY <1>0, <2>1, <2>2 DEF PeersStep
<1>6. CASE SuspendCall(o)
  <2>1. /\ native' \in {native, Suspend(h)} \/ native' \in SuspendUncertain(h)
        /\ sender' = sender /\ client' = client
    BY <1>6 DEF SuspendCall, NativeCall
  <2>2. native' \in NativeType
    <3>1. h # 0
      BY <1>6 DEF SuspendCall, At, Inv, Placed, Holding, Reserved
    <3> QED BY <1>0, <2>1, <3>1, NativeOperations
  <2> QED BY <1>0, <2>1, <2>2 DEF PeersStep
<1>7. CASE SenderReserve(o)
  <2>1. /\ sender' \in {sender, Bound(o, h)}
        /\ client' \in {client, [client EXCEPT !.holds[records[o].target] = h]} /\ native' = native
    BY <1>7 DEF SenderReserve, SenderCall
  <2>2. sender' \in SenderUpTo(n) /\ client' \in ClientType
    BY <1>0, <2>1, SenderOperations, ClientOperations
  <2> QED BY <1>0, <2>1, <2>2 DEF PeersStep
<1>8. CASE CancelCall(o)
  <2>1. sender' \in {sender, CancelledSource(o)} /\ client' = client /\ native' = native
    BY <1>8 DEF CancelCall, SenderCall
  <2>2. sender' \in SenderUpTo(n)
    BY <1>0, <2>1, SenderOperations
  <2> QED BY <1>0, <2>1, <2>2 DEF PeersStep
<1>9. CASE StopCall(o)
  <2>1. /\ sender' \in {sender, Stopped(o)} /\ native' = native
        /\ client' \in {client, ClientSent(o), ClientAnswered(o)}
    BY <1>9 DEF StopCall, SenderCall
  <2>2. sender' \in SenderUpTo(n) /\ client' \in ClientType
    BY <1>0, <2>1, SenderOperations, ClientOperations
  <2> QED BY <1>0, <2>1, <2>2 DEF PeersStep
<1>10. CASE StartCall(o)
  <2>1. /\ sender' \in {sender, StartedSource(records[o].sender)} /\ native' = native
        /\ client' \in {client, ClientSent(o), ClientAnswered(o)}
    BY <1>10 DEF StartCall, SenderCall
  <2>2. sender' \in SenderUpTo(n) /\ client' \in ClientType
    BY <1>0, <2>1, SenderOperations, ClientOperations
  <2> QED BY <1>0, <2>1, <2>2 DEF PeersStep
<1>11. CASE VolumeCall(o)
  <2>1. /\ sender' \in {sender, VolumeSet(o)} /\ native' = native
        /\ client' \in {client, ClientSent(o), ClientAnswered(o)}
    BY <1>11 DEF VolumeCall, SenderCall
  <2>2. sender' \in SenderUpTo(n) /\ client' \in ClientType
    BY <1>0, <2>1, SenderOperations, ClientOperations
  <2> QED BY <1>0, <2>1, <2>2 DEF PeersStep
<1>12. CASE FinishResult(o)
  <2>1. client' \in {client, ResultSeen(o)} /\ sender' = sender /\ native' = native
    BY <1>12 DEF FinishResult
  <2>2. client' \in ClientType
    BY <1>0, <2>1, ClientOperations
  <2> QED BY <1>0, <2>1, <2>2 DEF PeersStep
<1>13. CASE \/ PreflightRecord(o) \/ PreflightReject(o) \/ ReserveJournal(o) \/ NativeRecord(o)
            \/ SenderRecord(o) \/ CancelJournal(o) \/ CancelRecord(o) \/ Admit(o) \/ Advance(o)
            \/ StopRecord(o) \/ FinishWait(o) \/ FinishRecord(o)
  <2>1. UNCHANGED peerVars
    BY <1>13 DEF PreflightRecord, PreflightReject, ReserveJournal, NativeRecord, SenderRecord, CancelJournal,
                 CancelRecord, Admit, Advance, StopRecord, FinishWait, FinishRecord
  <2> QED BY <2>1, PeersKept
<1> QED BY <1>2, <1>3, <1>4, <1>5, <1>6, <1>7, <1>8, <1>9, <1>10, <1>11, <1>12, <1>13 DEF OperationStep

-----------------------------------------------------------------------------
(* Steps keep the invariant *)

Revokes ==
  /\ \A o \in Op : records[o].preempted => records'[o].preempted
  /\ producer'.active # producer.active /\ producer'.active # 0
       => ~records'[producer'.active].preempted

\* Two unresolved records after a step were both so before it.
LEMMA UnresolvedKept ==
  ASSUME Inv, JournalStep, coord'.enabled => coord.enabled
  PROVE  OneUnresolved'
<1> SUFFICES ASSUME coord'.enabled, NEW o \in Op, NEW p \in Op, Unresolved(o)', Unresolved(p)', o # p
    PROVE FALSE
  BY DEF OneUnresolved, Unresolved
<1>1. \A q \in Op : Unresolved(q)' =>
        \/ Unresolved(q)
        \/ NoneOpen(Op \ {q}) /\ \A x \in Op \ {q} : records'[x] = records[x]
  BY DEF JournalStep
<1>2. Unresolved(o) \/ Unresolved(p)
  BY <1>1 DEF Unresolved, Open, Exists, NoneOpen
<1>3. Unresolved(o) /\ Unresolved(p)
  BY <1>1, <1>2 DEF NoneOpen, Unresolved
<1> QED BY <1>3 DEF Inv, OneUnresolved, Unresolved

\* What is left to show when the journals take such a step.
LEMMA InvKept ==
  ASSUME Inv, JournalStep, faults' \in FaultsType, ProducerStep, PeersStep, ReadersTyped',
         cmd' \in [Op -> CmdType], pc' \in PCType, Placed', coord'.enabled => coord.enabled,
         PollPlaced', PlayPlaced'
  PROVE  Inv' /\ Revokes
<1>1. JournalTyped' /\ Sealed'
  BY DEF JournalStep, JournalTyped, Sealed
<1>2. OneUnresolved'
  BY UnresolvedKept
<1>3. PeersTyped' /\ ThreadsTyped'
  BY DEF PeersStep, PeersTyped, ProducerStep, ThreadsTyped
<1>4. Revokes
  BY DEF Revokes, ProducerStep, JournalStep
<1> QED BY <1>1, <1>2, <1>3, <1>4 DEF Inv, Typed

LEMMA ReadersKept ==
  ASSUME Inv, JournalStep, UNCHANGED <<play, poll>>
  PROVE  PollPlaced' /\ PlayPlaced'
<1>1. \A p \in Op : Exists(p) => Exists(p)'
  BY DEF JournalStep
<1> QED BY <1>1 DEF Inv, PollPlaced, PlayPlaced

LEMMA ThreadPlaced ==
  ASSUME Inv, NEW o \in Op, ThreadStep(o), JournalStep
  PROVE  Placed'
<1> SUFFICES ASSUME NEW p \in Op
    PROVE  /\ pc'[p][1] \notin {"idle", "over"} => cmd'[p].target \in Targets
           /\ Unjournaled(p)' => ~Exists(p)'
           /\ pc'[p][1] \in Reserved => Exists(p)' /\ (SourceOperation(p)' => records'[p].prior # 0)
           /\ pc'[p][1] \in Holding => records'[p].native # 0
  BY DEF Placed
<1>1. /\ pc[p][1] \notin {"idle", "over"} => cmd[p].target \in Targets
      /\ Unjournaled(p) => ~Exists(p)
      /\ pc[p][1] \in Reserved => Exists(p) /\ (SourceOperation(p) => records[p].prior # 0)
      /\ pc[p][1] \in Holding => records[p].native # 0
  BY DEF Inv, Placed
<1>2. /\ Exists(p) => Exists(p)'
      /\ Exists(p)' => Exists(p) \/ ~Unjournaled(p)'
      /\ pc[p][1] \in Reserved => records'[p].prior = records[p].prior
      /\ pc[p][1] \in Reserved /\ records[p].native # 0 => records'[p].native # 0
  BY DEF JournalStep
<1>3. SourceOperation(p)' = SourceOperation(p) /\ cmd' = cmd
  BY DEF ThreadStep, SourceOperation
<1>4. Holding \subseteq Reserved
  BY DEF Holding
<1>5. CASE p # o
  <2>1. pc'[p] = pc[p]
    BY <1>5 DEF ThreadStep
  <2> QED BY <1>1, <1>2, <1>3, <1>4, <2>1 DEF Unjournaled
<1>6. CASE p = o
  BY <1>1, <1>2, <1>3, <1>4, <1>6 DEF ThreadStep, Going
<1> QED BY <1>5, <1>6

LEMMA StillPlaced ==
  ASSUME Inv, UNCHANGED opVars, JournalStep
  PROVE  Placed' /\ cmd' \in [Op -> CmdType] /\ pc' \in PCType
<1>1. /\ cmd \in [Op -> CmdType] /\ pc \in PCType /\ cmd' = cmd /\ pc' = pc
  BY DEF opVars, Inv, Typed, ThreadsTyped
<1>2. SUFFICES ASSUME NEW p \in Op
    PROVE  /\ pc[p][1] \notin {"idle", "over"} => cmd[p].target \in Targets
           /\ Unjournaled(p) => ~Exists(p)'
           /\ pc[p][1] \in Reserved => Exists(p)' /\ (SourceOperation(p) => records'[p].prior # 0)
           /\ pc[p][1] \in Holding => records'[p].native # 0
  BY <1>1 DEF Placed, Unjournaled, SourceOperation
<1>3. /\ pc[p][1] \notin {"idle", "over"} => cmd[p].target \in Targets
      /\ Unjournaled(p) => ~Exists(p)
      /\ pc[p][1] \in Reserved => Exists(p) /\ (SourceOperation(p) => records[p].prior # 0)
      /\ pc[p][1] \in Holding => records[p].native # 0
  BY DEF Inv, Placed
<1>4. /\ Exists(p) => Exists(p)'
      /\ Exists(p)' => Exists(p) \/ ~Unjournaled(p)'
      /\ pc[p][1] \in Reserved => records'[p].prior = records[p].prior
      /\ pc[p][1] \in Reserved /\ records[p].native # 0 => records'[p].native # 0
  BY DEF JournalStep
<1>5. Unjournaled(p)' = Unjournaled(p) /\ Holding \subseteq Reserved
  BY <1>1 DEF Unjournaled, Holding
<1> QED BY <1>3, <1>4, <1>5

LEMMA StillPeers ==
  ASSUME Inv, UNCHANGED opVars, native' \in NativeType, client' \in ClientType,
         sender' \in SenderUpTo(Cardinality(Begun))
  PROVE  PeersStep
<1>1. Begun' = Begun
  BY DEF Begun, opVars
<1> QED BY <1>1 DEF PeersStep

-----------------------------------------------------------------------------
(* What the sender reports *)

LEMMA FoundTyped ==
  ASSUME NEW n \in Nat, sender \in SenderUpTo(n), NEW o, SourcesOf(o) # {}
  PROVE  FoundSource(o) \in SourceUpTo(n)
<1>1. \A s \in SourcesOf(o) : s \in SourceUpTo(n)
  BY DEF SourcesOf, SenderUpTo
<1>2. (CHOOSE s \in SourcesOf(o) : TRUE) \in SourcesOf(o)
  OBVIOUS
<1> QED BY <1>1, <1>2 DEF FoundSource, SenderUpTo

LEMMA DecodedTyped ==
  ASSUME NEW n \in Nat, NEW s \in SourceUpTo(n)
  PROVE  Decoded(s) \in Observation
<1>1. s.tgt \in Targets \cup {"none"} /\ s.src \in OpOrNone /\ 0 \in OpOrNone
  BY OpBasic DEF SourceUpTo, Place, NoTarget
<1> QED BY <1>1 DEF Decoded, Obs, Observation

LEMMA Observations ==
  ASSUME NEW n \in Nat, sender \in SenderUpTo(n)
  PROVE  (\A o : ResultOf(o) \in Observation) /\ Observed \in Observation /\ ObsError \in Observation
<1>1. ObsError \in Observation
  BY OpBasic DEF ObsError, Obs, Observation
<1>2. \A o : ResultOf(o) \in Observation
  BY <1>1, FoundTyped, DecodedTyped DEF ResultOf
<1>3. Obs("idle", "none", "none", sender.main.src) \in Observation
  BY DEF Obs, Observation, SenderUpTo, SourceUpTo
<1> QED BY <1>1, <1>2, <1>3 DEF Observed

LEMMA AppliedTyped ==
  ASSUME NEW obs \in Observation
  PROVE  Applied(obs) \in ShownType
BY DEF Applied, Observation, ShownType, Place, NoTarget

-----------------------------------------------------------------------------
(* The operations' and the sender's own steps *)

LEMMA OperationStepKeeps ==
  ASSUME Inv, NEW o \in Op, OperationStep(o), UNCHANGED <<coordVars, play, poll>>
  PROVE  Inv' /\ Revokes
<1>1. ThreadStep(o) /\ JournalStep /\ faults' \in FaultsType /\ ProducerStep
  BY OperationWrites
<1>2. PeersStep /\ Placed' /\ PollPlaced' /\ PlayPlaced'
  BY <1>1, OperationPeers, ThreadPlaced, ReadersKept
<1>3. ReadersTyped' /\ (coord'.enabled => coord.enabled)
  BY DEF Inv, Typed, ReadersTyped, coordVars
<1>4. cmd' \in [Op -> CmdType] /\ pc' \in PCType
  BY <1>1 DEF ThreadStep, Inv, Typed, ThreadsTyped
<1> QED BY <1>1, <1>2, <1>3, <1>4, InvKept

\* A thread moves and nothing but what is shown changes with it.
LEMMA ThreadMoves ==
  ASSUME Inv, NEW o \in Op, NEW x, Goes(o, x), Onward(o, x), cmd' = cmd,
         UNCHANGED <<peerVars, producerVars, faults, current, play, poll>>,
         coord' \in CoordType, coord'.enabled = coord.enabled
  PROVE  Inv' /\ Revokes
<1>1. ThreadStep(o)
  BY Moved DEF Inv, Typed, ThreadsTyped
<1>2. JournalStep /\ faults' \in FaultsType /\ ProducerStep
  BY NothingWritten
<1>3. PeersStep /\ Placed' /\ PollPlaced' /\ PlayPlaced'
  BY <1>1, <1>2, PeersKept, ThreadPlaced, ReadersKept
<1>4. ReadersTyped'
  BY DEF Inv, Typed, ReadersTyped
<1>5. cmd' \in [Op -> CmdType] /\ pc' \in PCType
  BY <1>1 DEF ThreadStep, Inv, Typed, ThreadsTyped
<1> QED BY <1>2, <1>3, <1>4, <1>5, InvKept

LEMMA ResultTyped ==
  ASSUME Inv, NEW o \in Op
  PROVE  Result(o) \in ShownType
<1>1. cmd[o].old \in ShownType /\ cmd[o].target \in Place /\ records[o].sender \in OpOrNone /\ NoTarget \in Place
  BY DEF Inv, Typed, JournalTyped, ThreadsTyped, CmdType, Record, Place
<1> QED BY <1>1 DEF Result, ShownType

LEMMA OperationKeeps ==
  ASSUME Inv, NEW o \in Op, Operation(o)
  PROVE  Inv' /\ Revokes
<1>0. coord \in CoordType /\ o \in OpOrNone
  BY OpBasic DEF Inv, Typed, ReadersTyped
<1>1. CASE OperationStep(o) /\ UNCHANGED <<coordVars, play, poll>>
  BY <1>1, OperationStepKeeps
<1>2. CASE StillCurrent(o)
  <2>1. PICK x \in {<<"reserve", "journal">>, <<"done", "superseded">>} : Goes(o, x) /\ pc[o] = <<"reserve", "check">>
    BY <1>2 DEF StillCurrent, Goto, Goes, At
  <2>2. Onward(o, x)
    BY <2>1 DEF Onward, Before, Reserved, Holding, Going, Threads, Points
  <2>3. /\ cmd' = cmd /\ coord' \in CoordType /\ coord'.enabled = coord.enabled
        /\ UNCHANGED <<peerVars, producerVars, faults, current, play, poll>>
    BY <1>0, <1>2 DEF StillCurrent, coordVars
  <2> QED BY <2>1, <2>2, <2>3, ThreadMoves
<1>3. CASE AdoptFence(o)
  <2>1. pc[o] = <<"fence", "set">> /\ Goes(o, <<Following(o, "fence"), "admit">>)
    BY <1>3 DEF AdoptFence, Proceed, Goto, Goes, At
  <2>2. Following(o, "fence") \in {"volume", "stop", "suspend", "start", "finish"}
    BY FollowingAdmits
  <2>3. Onward(o, <<Following(o, "fence"), "admit">>)
    BY <2>1, <2>2 DEF Onward, Before, Reserved, Holding, Going, Threads, Points
  <2>4. /\ cmd' = cmd /\ coord' \in CoordType /\ coord'.enabled = coord.enabled
        /\ UNCHANGED <<peerVars, producerVars, faults, current, play, poll>>
    BY <1>0, <1>3 DEF AdoptFence, CoordType
  <2> QED BY <2>1, <2>3, <2>4, ThreadMoves
<1>4. CASE Complete(o)
  <2>1. pc[o][1] = "done" /\ Goes(o, <<"over", "none">>)
    BY <1>4 DEF Complete, Goes
  <2>2. Onward(o, <<"over", "none">>)
    BY <2>1 DEF Onward, Before, Reserved, Holding, Going, Threads, Points
  <2>3. /\ coord' \in CoordType /\ coord'.enabled = coord.enabled
    <3>1. Result(o) \in ShownType
      BY ResultTyped
    <3> QED BY <1>0, <1>4, <3>1 DEF Complete, CoordType
  <2>4. cmd' = cmd /\ UNCHANGED <<peerVars, producerVars, faults, current, play, poll>>
    BY <1>4 DEF Complete
  <2> QED BY <2>1, <2>2, <2>3, <2>4, ThreadMoves
<1> QED BY <1>1, <1>2, <1>3, <1>4 DEF Operation

LEMMA ExecuteKeeps ==
  ASSUME Inv, Execute
  PROVE  Inv' /\ Revokes
<1>1. PICK kind \in Kinds, t \in Targets :
        /\ \E o \in Op : pc[o][1] = "idle"
        /\ Offered(kind, t)
        /\ cmd' = [cmd EXCEPT ![NextOp] = [kind |-> kind, target |-> t, from |-> coord.shown.target,
                                           playing |-> Playing(coord.shown), old |-> coord.shown]]
        /\ pc' = [pc EXCEPT ![NextOp] = IF kind \in {"start", "move"} THEN <<"preflight", "journal">>
                                        ELSE <<"reserve", "check">>]
        /\ coord' = [coord EXCEPT !.pending = TRUE, !.shown.state = "preparing", !.last = NextOp]
        /\ current' = {NextOp}
        /\ UNCHANGED <<peerVars, producerVars, faults, play, poll>>
  BY DEF Execute
<1> DEFINE o == NextOp
           c == [kind |-> kind, target |-> t, from |-> coord.shown.target,
                 playing |-> Playing(coord.shown), old |-> coord.shown]
           x == IF kind \in {"start", "move"} THEN <<"preflight", "journal">> ELSE <<"reserve", "check">>
<1>2. o \in Op /\ pc[o][1] = "idle" /\ o \in OpOrNone /\ o \in 0 .. MaxOps + 1
  BY <1>1, NextOpIdle, OpBasic DEF OpOrNone
<1> HIDE DEF o
<1>3. /\ coord \in CoordType /\ coord.shown \in ShownType /\ coord.shown.target \in Place /\ t \in Place
      /\ pc \in PCType /\ cmd \in [Op -> CmdType] /\ Playing(coord.shown) \in BOOLEAN
  BY DEF Inv, Typed, ReadersTyped, ThreadsTyped, CoordType, ShownType, Place, Playing
<1>4. c \in CmdType
  BY <1>3, RadioAssumption DEF CmdType
<1>5. x \in {<<"preflight", "journal">>, <<"reserve", "check">>} /\ x \in Threads \X Points
  BY DEF Threads, Points
<1>6. cmd' = [cmd EXCEPT ![o] = c] /\ pc' = [pc EXCEPT ![o] = x]
  BY <1>1 DEF o
<1>7. c.target \in Targets
  OBVIOUS
<1> HIDE DEF c, x
<1>8. /\ cmd' \in [Op -> CmdType] /\ pc' \in PCType /\ pc'[o] = x /\ cmd'[o] = c
      /\ \A p \in Op \ {o} : pc'[p] = pc[p] /\ cmd'[p] = cmd[p]
  BY <1>2, <1>3, <1>4, <1>5, <1>6 DEF PCType
<1>9. JournalStep /\ faults' \in FaultsType /\ ProducerStep
  BY <1>1, NothingWritten
<1>10. PeersStep
  <2>1. Begun \subseteq Begun'
    BY <1>2, <1>8 DEF Begun
  <2> QED BY <1>1, <2>1, BegunGrows DEF PeersStep, Inv, Typed, PeersTyped, peerVars
<1>11. Placed'
  <2> SUFFICES ASSUME NEW p \in Op
      PROVE  /\ pc'[p][1] \notin {"idle", "over"} => cmd'[p].target \in Targets
             /\ Unjournaled(p)' => ~Exists(p)'
             /\ pc'[p][1] \in Reserved => Exists(p)' /\ (SourceOperation(p)' => records'[p].prior # 0)
             /\ pc'[p][1] \in Holding => records'[p].native # 0
    BY DEF Placed
  <2>1. records' = records
    BY <1>1 DEF producerVars
  <2>2. CASE p = o
    BY <1>2, <1>5, <1>7, <1>8, <2>1, <2>2 DEF Inv, Placed, Unjournaled, Exists, Reserved, Holding
  <2>3. CASE p # o
    BY <1>8, <2>1, <2>3 DEF Inv, Placed, Unjournaled, Exists, SourceOperation
  <2> QED BY <2>2, <2>3
<1>12. PollPlaced' /\ PlayPlaced'
  BY <1>1, <1>9, ReadersKept
<1>13. coord' \in CoordType /\ coord'.enabled = coord.enabled
  <2>1. coord' = [coord EXCEPT !.pending = TRUE, !.shown = [coord.shown EXCEPT !.state = "preparing"], !.last = o]
    BY <1>1, <1>3 DEF o, CoordType
  <2>2. [coord.shown EXCEPT !.state = "preparing"] \in ShownType
    BY <1>3 DEF ShownType
  <2> QED BY <1>2, <1>3, <2>1, <2>2 DEF CoordType
<1>14. ReadersTyped'
  BY <1>1, <1>2, <1>13 DEF Inv, Typed, ReadersTyped, o
<1> QED BY <1>8, <1>9, <1>10, <1>11, <1>12, <1>13, <1>14, InvKept

\* The sender moves a source of its own accord.
LEMMA SenderKeeps ==
  ASSUME Inv, Sounds \/ Expires
  PROVE  Inv' /\ Revokes
<1> DEFINE n == Cardinality(Begun)
<1>0. /\ n \in Nat /\ sender \in SenderUpTo(n) /\ sender.main \in SourceUpTo(n) /\ sender.cand \in SourceUpTo(n)
      /\ native \in NativeType /\ client \in ClientType
  BY BegunCount DEF Inv, Typed, PeersTyped, SenderUpTo
<1> HIDE DEF n
<1>1. \/ sender' = [sender EXCEPT !.main.phase = "playing"]
      \/ sender' = [sender EXCEPT !.main.phase = "cancelled"]
      \/ sender' = [sender EXCEPT !.cand.phase = "cancelled"]
  BY DEF Sounds, Expires
<1>2. sender' \in SenderUpTo(n)
  BY <1>0, <1>1 DEF SenderUpTo, SourceUpTo, SourcePhase
<1>3. UNCHANGED <<native, client, producerVars, opVars, faults, coordVars, play, poll>>
  BY DEF Sounds, Expires
<1>4. JournalStep /\ faults' \in FaultsType /\ ProducerStep
  BY <1>3, NothingWritten
<1>5. PeersStep /\ Placed' /\ cmd' \in [Op -> CmdType] /\ pc' \in PCType /\ PollPlaced' /\ PlayPlaced'
  BY <1>0, <1>2, <1>3, <1>4, StillPeers, StillPlaced, ReadersKept DEF n
<1>6. ReadersTyped' /\ (coord'.enabled => coord.enabled)
  BY <1>3 DEF Inv, Typed, ReadersTyped, coordVars
<1> QED BY <1>4, <1>5, <1>6, InvKept

-----------------------------------------------------------------------------
(* Preemption keeps the invariant *)

LEMMA Greatest ==
  ASSUME NEW S, S \subseteq Op, S # {}
  PROVE  Newest(S) \in S
<1> DEFINE U == {m \in Nat : \A p \in S : p <= m}
<1>1. S \subseteq Nat /\ \A p \in S : p <= MaxOps /\ p > 0
  BY OpBasic DEF Op
<1>2. MaxOps \in U
  BY <1>1, OpBasic
<1>3. PICK n \in U : \A m \in U : n <= m
  BY <1>2, Least
<1>4. n \in S
  <2>1. SUFFICES ASSUME n \notin S PROVE FALSE
    OBVIOUS
  <2>2. \A p \in S : p \in Nat /\ p > 0 /\ p <= n /\ p # n
    BY <1>1, <1>3, <2>1
  <2>3. n - 1 \in Nat /\ \A p \in S : p <= n - 1
    BY <1>3, <2>2
  <2>4. n - 1 \in U
    BY <2>3
  <2> QED BY <1>3, <2>4
<1>5. \E o \in S : \A p \in S : p <= o
  BY <1>3, <1>4
<1> QED BY <1>5 DEF Newest

\* What is left to show when no thread moves and the peers keep their types.
Aside ==
  /\ UNCHANGED opVars /\ native' \in NativeType /\ client' \in ClientType
  /\ sender' \in SenderUpTo(Cardinality(Begun)) /\ ReadersTyped' /\ (coord'.enabled => coord.enabled)

LEMMA AsideKeeps ==
  ASSUME Inv, Aside, JournalStep, faults' \in FaultsType, ProducerStep, PollPlaced', PlayPlaced'
  PROVE  Inv' /\ Revokes
<1>1. PeersStep /\ Placed' /\ cmd' \in [Op -> CmdType] /\ pc' \in PCType
  BY StillPeers, StillPlaced DEF Aside
<1> QED BY <1>1, InvKept DEF Aside

\* The readers of the records stay placed while theirs is the one they had.
LEMMA PollStays ==
  ASSUME Inv, JournalStep, poll' = poll
  PROVE  PollPlaced'
<1>1. \A p \in Op : Exists(p) => Exists(p)'
  BY DEF JournalStep
<1> QED BY <1>1 DEF Inv, PollPlaced

LEMMA PlayStays ==
  ASSUME Inv, JournalStep, play' = play
  PROVE  PlayPlaced'
<1>1. \A p \in Op : Exists(p) => Exists(p)'
  BY DEF JournalStep
<1> QED BY <1>1 DEF Inv, PlayPlaced

LEMMA PlayGoes ==
  ASSUME Inv, JournalStep, play'.hold = play.hold, play.step # "idle",
         play'.step \in {"recover", "drain", "record"} => play'.key \in Op /\ Exists(play'.key)
  PROVE  PlayPlaced'
<1>1. \A p \in Op : Exists(p) => records'[p].stage # "none"
  BY DEF JournalStep, Exists
<1> QED BY <1>1 DEF Inv, PlayPlaced, Exists

LEMMA Readers ==
  ASSUME Inv
  PROVE  /\ coord \in CoordType /\ current \subseteq 0 .. MaxOps + 1 /\ play \in PlayType /\ poll \in PollType
         /\ native \in NativeType /\ client \in ClientType /\ sender \in SenderUpTo(Cardinality(Begun))
         /\ Cardinality(Begun) \in Nat /\ records \in [Op -> Record] /\ disk \in [Op -> Record]
         /\ producer \in ProducerType
BY BegunCount DEF Inv, Typed, ReadersTyped, PeersTyped, JournalTyped, ThreadsTyped

LEMMA ExplicitPlayKeeps ==
  ASSUME Inv, NEW t \in Targets, ExplicitPlay(t)
  PROVE  Inv' /\ Revokes
<1> DEFINE h == native.hold[t]
           asked == [step |-> "journal", id |-> play.id + 1, target |-> t, hold |-> h, key |-> 0]
           counted == [play EXCEPT !.id = @ + 1]
<1>1. /\ h \in OpOrNone /\ t \in Place /\ play.id + 1 \in PlayOrNone /\ PlayCaptor \in 0 .. MaxOps + 1
      /\ play \in PlayType /\ 0 \in OpOrNone
    <2>1. play.id \in PlayOrNone /\ play.id < MaxPlays
      BY Readers DEF PlayType, ExplicitPlay
    <2> QED BY <2>1, Readers, OpBasic DEF NativeType, Place, PlayOrNone, PlayCaptor
<1>2. native' \in NativeType
  <2>1. Intend(Reacquiring(h)) \in NativeType /\ Intend(native) \in NativeType
    <3>1. \E o \in Op : TRUE
      BY OpBasic DEF Op
    <3> QED BY <1>1, <3>1, Readers, NativeOperations, OpBasic
  <2> QED BY <2>1 DEF ExplicitPlay
<1>3. /\ play.step = "idle" /\ current' \in {current, current \cup {PlayCaptor}}
      /\ \/ play' = asked /\ h # 0
         \/ play' = counted
      /\ UNCHANGED <<sender, client, producerVars, opVars, faults, coord, poll>>
  BY DEF ExplicitPlay
<1> HIDE DEF h
<1>4. /\ asked \in PlayType /\ asked.step = "journal" /\ asked.hold = h
      /\ counted \in PlayType /\ counted.step = play.step
  BY <1>1 DEF PlayType
<1> HIDE DEF asked, counted
<1>5. Aside
  BY <1>1, <1>2, <1>3, <1>4, Readers DEF Aside, ReadersTyped
<1>6. JournalStep /\ faults' \in FaultsType /\ ProducerStep
  BY <1>3, NothingWritten
<1>7. PlayPlaced'
  <2>1. \/ play'.step = "journal" /\ play'.hold \in Op
        \/ play'.step = "idle"
    BY <1>1, <1>3, <1>4, OpBasic
  <2> QED BY <2>1 DEF PlayPlaced
<1> QED BY <1>3, <1>5, <1>6, <1>7, AsideKeeps, PollStays

\* A step of the callback that writes nothing.
LEMMA PlayMoves ==
  ASSUME Inv, Aside, UNCHANGED <<producerVars, poll>>, Fault \/ UNCHANGED faults, play.step # "idle",
         play'.hold = play.hold, play'.step \in {"recover", "drain", "record"} => play'.key \in Op /\ Exists(play'.key)
  PROVE  Inv' /\ Revokes
BY NothingWritten, PollStays, PlayGoes, AsideKeeps

\* A step that only the callback takes: it goes on, and nothing else changes but the journal.
LEMMA PlayAside ==
  ASSUME Inv, NEW s \in {"recover", "drain", "record", "observe", "commit", "refused"}, NEW k \in OpOrNone,
         play' = [play EXCEPT !.step = s, !.key = k], UNCHANGED <<peerVars, opVars, coordVars, poll>>
  PROVE  Aside /\ play'.hold = play.hold /\ play'.step = s /\ play'.key = k
<1>1. play' \in PlayType /\ play'.hold = play.hold /\ play'.step = s /\ play'.key = k
  BY Readers DEF PlayType
<1> QED BY <1>1, Readers DEF Aside, ReadersTyped, peerVars, coordVars

LEMMA PlaySteps ==
  ASSUME Inv, NEW s, play' = [play EXCEPT !.step = s]
  PROVE  play' = [play EXCEPT !.step = s, !.key = play.key] /\ play.key \in OpOrNone
BY Readers DEF PlayType

LEMMA PreemptJournalKeeps ==
  ASSUME Inv, PreemptJournal
  PROVE  Inv' /\ Revokes
<1> DEFINE found == Holders(play.hold, play.target)
           key == Newest(found)
           fenced == [records[key] EXCEPT !.preempted = TRUE, !.play = play.id, !.terminal = FALSE,
                                          !.stage = "preempt-drain-attempted"]
           s == IF records[key].native = 0 THEN "recover" ELSE "drain"
<1>0. play.step = "journal" /\ UNCHANGED <<peerVars, opVars, coordVars, poll>>
  BY DEF PreemptJournal
<1>1. CASE PlayStep("journal", "refused") /\ UNCHANGED <<producerVars, faults>>
  <2>1. play' = [play EXCEPT !.step = "refused", !.key = play.key] /\ play.key \in OpOrNone
    BY <1>1, PlaySteps DEF PlayStep
  <2>2. Aside /\ play'.hold = play.hold /\ play'.step = "refused"
    BY <1>0, <2>1, PlayAside
  <2> QED BY <1>0, <1>1, <2>2, PlayMoves
<1>2. CASE /\ found # {}
           /\ \/ Journaled(key, fenced) /\ play' = [play EXCEPT !.key = key, !.step = s]
              \/ Journaled(key, fenced) /\ play' = [play EXCEPT !.key = key, !.step = "refused"]
           /\ UNCHANGED producer
  <2>1. key \in Op /\ Exists(key) /\ key \in OpOrNone
    <3>1. found \subseteq Op /\ \A o \in found : Exists(o)
      BY Readers DEF Holders, ProducerType
    <3> QED BY <1>2, <3>1, Greatest, OpBasic
  <2> HIDE DEF found, key
  <2>2. fenced \in Record /\ fenced.stage # "none" /\ fenced.preempted /\ fenced.prior = records[key].prior
        /\ fenced.native = records[key].native
    <3>1. play.id \in PlayOrNone /\ records[key] \in Record
      BY <2>1, Readers DEF PlayType
    <3>2. fenced \in Record
      BY <3>1 DEF Record, Stage
    <3>3. fenced.stage # "none" /\ fenced.prior = records[key].prior /\ fenced.native = records[key].native
      BY <3>1 DEF Record
    <3>4. fenced.preempted = TRUE
      BY <3>1 DEF Record
    <3> QED BY <3>2, <3>3, <3>4
  <2>3. s \in {"recover", "drain"}
    OBVIOUS
  <2> HIDE DEF fenced, s
  <2>4. JournalStep /\ faults' \in FaultsType
    <3>1. Journaled(key, fenced)
      BY <1>2
    <3>2. fenced.stage # "none" /\ ~fenced.terminal /\ ~fenced.preempted => Unresolved(key) \/ NoneOpen(Op \ {key})
      BY <2>2
    <3> QED BY <2>1, <2>2, <3>1, <3>2, Rewritten DEF Inv, Typed, ThreadsTyped
  <2>5. ProducerStep
    BY <1>2, Readers DEF ProducerStep
  <2>6. PICK z \in {"recover", "drain", "refused"} : play' = [play EXCEPT !.step = z, !.key = key]
    <3>1. \/ play' = [play EXCEPT !.step = s, !.key = key]
          \/ play' = [play EXCEPT !.step = "refused", !.key = key]
      <4>1. \A z : [play EXCEPT !.key = key, !.step = z] = [play EXCEPT !.step = z, !.key = key]
        BY Readers DEF PlayType
      <4> QED BY <1>2, <4>1
    <3> QED BY <2>3, <3>1
  <2>7. Aside /\ play'.hold = play.hold /\ play'.key = key
    BY <1>0, <2>1, <2>6, PlayAside
  <2>8. PollPlaced' /\ PlayPlaced'
    BY <1>0, <2>1, <2>4, <2>7, PollStays, PlayGoes
  <2> QED BY <2>4, <2>5, <2>7, <2>8, AsideKeeps
<1>3. \/ PlayStep("journal", "refused") /\ UNCHANGED <<producerVars, faults>>
      \/ /\ found # {}
         /\ \/ Journaled(key, fenced) /\ play' = [play EXCEPT !.key = key, !.step = s]
            \/ Journaled(key, fenced) /\ play' = [play EXCEPT !.key = key, !.step = "refused"]
         /\ UNCHANGED producer
  BY DEF PreemptJournal, Write, Journaled
<1> QED BY <1>1, <1>2, <1>3

LEMMA PreemptRecoverKeeps ==
  ASSUME Inv, PreemptRecover
  PROVE  Inv' /\ Revokes
<1> DEFINE key == play.key
           r == [records[key] EXCEPT !.native = play.hold]
<1>1. /\ play.step = "recover" /\ UNCHANGED <<peerVars, opVars, coordVars, poll>>
      /\ \E z \in {"drain", "refused"} : play' = [play EXCEPT !.step = z]
      /\ \/ Journaled(key, r) /\ UNCHANGED producer
         \/ UNCHANGED producerVars /\ (Fault \/ UNCHANGED faults)
  BY DEF PreemptRecover, Write, Journaled, PlayStep
<1>2. key \in Op /\ Exists(key) /\ play.hold \in Op /\ play.hold \in OpOrNone /\ play.hold # 0
  BY <1>1, OpBasic DEF Inv, PlayPlaced
<1>3. Amends(key, r)
  BY <1>2, Readers DEF Amends, Record, Exists
<1> HIDE DEF r
<1>4. JournalStep /\ faults' \in FaultsType /\ ProducerStep
  BY <1>1, <1>2, <1>3, AmendmentWritten, NothingWritten
<1>5. PICK z \in {"drain", "refused"} : play' = [play EXCEPT !.step = z, !.key = key]
  BY <1>1, PlaySteps
<1>6. Aside /\ play'.hold = play.hold /\ play'.key = key
  BY <1>1, <1>2, <1>5, PlayAside, OpBasic
<1>7. PollPlaced' /\ PlayPlaced'
  BY <1>1, <1>2, <1>4, <1>6, PollStays, PlayGoes
<1> QED BY <1>4, <1>6, <1>7, AsideKeeps

LEMMA PreemptDrainKeeps ==
  ASSUME Inv, PreemptDrain
  PROVE  Inv' /\ Revokes
<1> DEFINE n == Cardinality(Begun)
           r == records[play.key]
           src == IF r.sender # 0 THEN r.sender ELSE r.peer
           drained == Challenged(src, play.target, r.native, play.id)
           freed == [client EXCEPT !.holds[play.target] = 0]
<1>1. /\ play.step = "drain" /\ UNCHANGED <<native, producerVars, opVars, coordVars, poll>>
      /\ \E z \in {"record", "refused"} : play' = [play EXCEPT !.step = z]
      /\ sender' \in {sender, drained} /\ client' \in {client, freed} /\ (Fault \/ UNCHANGED faults)
  BY DEF PreemptDrain, SenderCall, PlayStep
<1>2. /\ play.key \in Op /\ Exists(play.key) /\ play.key \in OpOrNone /\ r.native \in OpOrNone
      /\ play.target \in Place /\ play.id \in PlayOrNone /\ 0 \in OpOrNone
  <2>1. play.key \in Op /\ Exists(play.key)
    BY <1>1 DEF Inv, PlayPlaced
  <2> QED BY <2>1, Readers, OpBasic DEF Record, PlayType
<1> HIDE DEF src, r
<1>3. drained \in SenderUpTo(n) /\ freed \in ClientType
  BY <1>2, Readers, SenderOperations, ClientOperations
<1> HIDE DEF drained, freed
<1>4. PICK z \in {"record", "refused"} : play' = [play EXCEPT !.step = z, !.key = play.key]
  BY <1>1, PlaySteps
<1>5. /\ play' \in PlayType /\ play'.hold = play.hold /\ play'.key = play.key
  BY <1>4, Readers DEF PlayType
<1>6. Aside
  BY <1>1, <1>3, <1>5, Readers DEF Aside, ReadersTyped, coordVars
<1> QED BY <1>1, <1>2, <1>5, <1>6, PlayMoves

LEMMA PreemptRecordKeeps ==
  ASSUME Inv, PreemptRecord
  PROVE  Inv' /\ Revokes
<1> DEFINE key == play.key
           kept == producer.retained[play.target]
           r == [records[key] EXCEPT !.ticket = play.id, !.stage = "preempted",
                                     !.terminal = TRUE, !.outcome = "preempted"]
           forgotten == [producer EXCEPT !.active = IF @ = key THEN 0 ELSE @,
                                         !.retained[play.target] =
                                             IF kept.native = play.hold THEN NotRetained ELSE kept]
<1>1. /\ play.step = "record" /\ UNCHANGED <<peerVars, opVars, coordVars, poll>>
      /\ \E z \in {"observe", "refused"} : play' = [play EXCEPT !.step = z]
      /\ Journaled(key, r) /\ producer' \in {producer, forgotten}
  BY DEF PreemptRecord, Write, Journaled, PlayStep
<1>2. key \in Op /\ Exists(key) /\ key \in OpOrNone
  BY <1>1, OpBasic DEF Inv, PlayPlaced
<1>3. Amends(key, r)
  <2>1. play.id \in 0 .. Plain /\ records[key] \in Record
    BY <1>2, Readers, OpBasic DEF PlayType
  <2> QED BY <2>1 DEF Amends, Record, Stage
<1>4. forgotten \in ProducerType /\ forgotten.active \in {0, producer.active}
  <2> DEFINE a == IF producer.active = key THEN 0 ELSE producer.active
             k == IF kept.native = play.hold THEN NotRetained ELSE kept
  <2>1. a \in OpOrNone /\ a \in {0, producer.active}
    BY Readers, OpBasic DEF ProducerType
  <2>2. play.target \in Targets => k \in [native : OpOrNone, epoch : 0 .. MaxOps]
    BY Readers, OpBasic DEF ProducerType, NotRetained
  <2>3. forgotten = [producer EXCEPT !.active = a, !.retained = [producer.retained EXCEPT ![play.target] = k]]
    BY Readers DEF ProducerType
  <2> HIDE DEF a, k, forgotten
  <2>4. [producer.retained EXCEPT ![play.target] = k] \in [Targets -> [native : OpOrNone, epoch : 0 .. MaxOps]]
    BY <2>2, Readers DEF ProducerType
  <2> QED BY <2>1, <2>3, <2>4, Readers DEF ProducerType
<1> HIDE DEF r, forgotten
<1>5. JournalStep /\ faults' \in FaultsType
  BY <1>1, <1>2, <1>3, Amended DEF Amends, Inv, Typed, ThreadsTyped
<1>6. ProducerStep
  BY <1>1, <1>4, Readers DEF ProducerStep
<1>7. PICK z \in {"observe", "refused"} : play' = [play EXCEPT !.step = z, !.key = key]
  BY <1>1, PlaySteps
<1>8. Aside /\ play'.hold = play.hold /\ play'.step = z
  BY <1>1, <1>2, <1>7, PlayAside
<1>9. PollPlaced' /\ PlayPlaced'
  BY <1>1, <1>5, <1>8, PollStays, PlayGoes
<1> QED BY <1>5, <1>6, <1>8, <1>9, AsideKeeps

LEMMA PreemptObserveKeeps ==
  ASSUME Inv, PreemptObserve
  PROVE  Inv' /\ Revokes
<1>1. /\ play.step = "observe" /\ play' = [play EXCEPT !.step = "commit"]
      /\ \/ coord' = [coord EXCEPT !.pending = FALSE, !.shown.state = "unknown",
                                   !.shown.source = "unknown"] /\ current' = {}
         \/ UNCHANGED coordVars
      /\ UNCHANGED <<peerVars, producerVars, opVars, faults, poll>>
  BY DEF PreemptObserve, PlayStep
<1>2. play' \in PlayType /\ play'.hold = play.hold /\ play'.step = "commit"
  BY <1>1, Readers DEF PlayType
<1>3. coord' \in CoordType /\ coord'.enabled = coord.enabled
  <2>1. [coord EXCEPT !.pending = FALSE, !.shown.state = "unknown", !.shown.source = "unknown"]
          = [coord EXCEPT !.pending = FALSE, !.shown = [coord.shown EXCEPT !.state = "unknown", !.source = "unknown"]]
    BY Readers DEF CoordType, ShownType
  <2>2. [coord.shown EXCEPT !.state = "unknown", !.source = "unknown"] \in ShownType
    BY Readers DEF CoordType, ShownType
  <2>3. /\ [coord EXCEPT !.pending = FALSE, !.shown = [coord.shown EXCEPT !.state = "unknown", !.source = "unknown"]]
             \in CoordType
        /\ [coord EXCEPT !.pending = FALSE, !.shown = [coord.shown EXCEPT !.state = "unknown", !.source = "unknown"]].enabled
             = coord.enabled
    BY <2>2, Readers DEF CoordType
  <2> QED BY <1>1, <2>1, <2>3, Readers DEF coordVars
<1>4. Aside
  BY <1>1, <1>2, <1>3, Readers DEF Aside, ReadersTyped, peerVars, coordVars
<1> QED BY <1>1, <1>2, <1>4, PlayMoves

LEMMA PreemptEndKeeps ==
  ASSUME Inv, PreemptEnd \/ NativeTimeout
  PROVE  Inv' /\ Revokes
<1>0. /\ play.hold \in OpOrNone /\ play.target \in Place /\ play.id \in PlayOrNone /\ 0 \in OpOrNone
      /\ NoTarget \in Place
  BY Readers, OpBasic DEF PlayType, Place
<1>1. /\ native' \in {native, Returned(play.hold, play.target, play.id), ReacquireFailed(play.hold)}
      /\ Fault \/ UNCHANGED faults
      /\ current' \subseteq current /\ UNCHANGED <<sender, client, producerVars, opVars, coord, poll>>
      /\ play' \in {play, [NoPlay EXCEPT !.id = play.id]}
  BY DEF PreemptEnd, NativeTimeout, coordVars
<1>2. native' \in NativeType
  <2>1. \E o \in Op : TRUE
    BY OpBasic DEF Op
  <2> QED BY <1>0, <1>1, <2>1, Readers, NativeOperations
<1>3. /\ [NoPlay EXCEPT !.id = play.id] \in PlayType
      /\ [NoPlay EXCEPT !.id = play.id].step = "idle"
  BY <1>0 DEF NoPlay, PlayType
<1>4. Aside
  BY <1>1, <1>2, <1>3, Readers DEF Aside, ReadersTyped
<1>5. JournalStep /\ faults' \in FaultsType /\ ProducerStep
  BY <1>1, NothingWritten
<1>6. PlayPlaced'
  <2>1. CASE play' = play
    BY <1>5, <2>1, PlayStays
  <2>2. CASE play'.step = "idle"
    BY <2>2 DEF PlayPlaced
  <2> QED BY <1>1, <1>3, <2>1, <2>2
<1> QED BY <1>1, <1>4, <1>5, <1>6, AsideKeeps, PollStays

-----------------------------------------------------------------------------
(* Polls keep the invariant *)

\* What is left to show of a step of a poll.
LEMMA PollAside ==
  ASSUME Inv, JournalStep, faults' \in FaultsType, ProducerStep, UNCHANGED <<sender, opVars, play>>,
         native' \in NativeType, client' \in ClientType,
         coord' \in CoordType, coord'.enabled = coord.enabled, current' \subseteq current \cup {PollCaptor},
         poll' \in PollType,
         poll'.step \in Reconciling => poll'.fence \in Op /\ Exists(poll'.fence)
  PROVE  Inv' /\ Revokes
<1>1. PollPlaced'
  <2>1. \A p \in Op : Exists(p) => records'[p].stage # "none"
    BY DEF JournalStep, Exists
  <2> QED BY <2>1 DEF PollPlaced, Exists
<1>2. PollCaptor \in 0 .. MaxOps + 1
  BY OpBasic DEF PollCaptor
<1>3. Aside
  BY <1>2, Readers DEF Aside, ReadersTyped
<1> QED BY <1>1, <1>3, PlayStays, AsideKeeps

LEMMA NoPollTyped == NoPoll \in PollType /\ NoPoll.step = "idle"
<1>1. ObsError \in Observation
  BY OpBasic DEF ObsError, Obs, Observation
<1> QED BY <1>1, NoRecordTyped, OpBasic DEF NoPoll, PollType

\* Where a poll goes on to, or that it is over.
PollOnward(S) ==
  \/ poll' = NoPoll
  \/ \E s \in S : poll' = [poll EXCEPT !.step = s]

LEMMA PollGoes ==
  ASSUME Inv, NEW S, S \subseteq {"release", "observe", "native", "cancelled", "preempted", "sender", "settle", "apply"},
         poll.step \in Reconciling \/ S \cap Reconciling = {}, PollOnward(S)
  PROVE  /\ poll' \in PollType
         /\ poll'.step \in Reconciling => poll'.fence \in Op /\ Exists(poll'.fence)
<1>1. CASE poll' = NoPoll
  BY <1>1, NoPollTyped DEF Reconciling
<1>2. CASE \E s \in S : poll' = [poll EXCEPT !.step = s]
  <2>1. PICK s \in S : poll' = [poll EXCEPT !.step = s]
    BY <1>2
  <2>2. poll' \in PollType /\ poll'.fence = poll.fence /\ poll'.step = s
    BY <2>1, Readers DEF PollType
  <2> QED BY <2>2 DEF Inv, PollPlaced
<1> QED BY <1>1, <1>2 DEF PollOnward

\* A poll that learned what it shows.
LEMMA PollLearns ==
  ASSUME Inv, NEW s \in {"settle", "apply"}, NEW outcome \in {"rejected", "preempted", "committed"},
         NEW obs \in Observation, poll.step \in Reconciling,
         poll' = [poll EXCEPT !.step = s, !.outcome = outcome, !.obs = obs]
  PROVE  /\ poll' \in PollType
         /\ poll'.step \in Reconciling => poll'.fence \in Op /\ Exists(poll'.fence)
<1>1. poll' \in PollType /\ poll'.fence = poll.fence
  BY Readers DEF PollType
<1> QED BY <1>1 DEF Inv, PollPlaced

LEMMA PollBegins ==
  ASSUME Inv, Poll
  PROVE  Inv' /\ Revokes
<1>1. PICK mode \in {"refresh", "result"} :
        LET reads == mode = "result" \/ coord.shown.state = "unknown"
            f == coord.fence
        IN /\ reads => f # 0 /\ Exists(f)
           /\ poll' = [NoPoll EXCEPT
                 !.step = IF ~reads THEN "release"
                          ELSE IF records[f].rejection \/ (records[f].native = 0
                                     /\ records[f].stage \in PreflightStage)
                          THEN "cancelled" ELSE "native",
                 !.mode = mode, !.fence = f, !.last = coord.last,
                 !.rec = IF f = 0 THEN NoRecord ELSE records[f]]
           /\ current' = IF mode = "refresh" THEN current \cup {PollCaptor} ELSE current
  BY DEF Poll
<1> DEFINE f == coord.fence
           r == IF f = 0 THEN NoRecord ELSE records[f]
<1>2. f \in OpOrNone /\ coord.last \in OpOrNone /\ r \in Record
  <2>1. f \in OpOrNone /\ coord.last \in OpOrNone
    BY Readers DEF CoordType
  <2> QED BY <2>1, Readers, OpBasic, NoRecordTyped
<1>3. PICK s \in {"release", "native", "cancelled"} :
        /\ s # "release" => f # 0 /\ Exists(f)
        /\ poll' = [NoPoll EXCEPT !.step = s, !.mode = mode, !.fence = f, !.last = coord.last, !.rec = r]
  BY <1>1, Zenon
<1> HIDE DEF f, r
<1>4. poll' \in PollType /\ poll'.step = s /\ poll'.fence = f
  BY <1>2, <1>3, NoPollTyped DEF PollType
<1>5. poll'.step \in Reconciling => poll'.fence \in Op /\ Exists(poll'.fence)
  BY <1>2, <1>3, <1>4, OpBasic DEF Reconciling
<1>6. current' \subseteq current \cup {PollCaptor}
  BY <1>1
<1>7. UNCHANGED <<peerVars, producerVars, faults, coord, opVars, play>>
  BY DEF Poll, PollUnchanged
<1>8. JournalStep /\ faults' \in FaultsType /\ ProducerStep
  BY <1>7, NothingWritten
<1> QED BY <1>4, <1>5, <1>6, <1>7, <1>8, Readers, PollAside DEF peerVars

\* Native's receipts are kept with several records at once.
LEMMA PollReleaseKeeps ==
  ASSUME Inv, PollRelease
  PROVE  Inv' /\ Revokes
<1> DEFINE kept == [o \in Op |-> IF o \in Completed THEN [records[o] EXCEPT !.release = TRUE]
                                 ELSE records[o]]
           onDisk == [o \in Op |-> IF o \in Completed THEN kept[o] ELSE disk[o]]
<1>1. /\ poll.step = "release" /\ poll' = [poll EXCEPT !.step = "observe"]
      /\ \/ records' = kept /\ disk' = onDisk /\ UNCHANGED faults
         \/ Fault /\ UNCHANGED <<records, disk>>
      /\ UNCHANGED <<peerVars, producer, coordVars, opVars, play>>
  BY DEF PollRelease, PollStep, PollUnchanged
<1>2. \A o \in Op : o \in Completed => Like(o, [records[o] EXCEPT !.release = TRUE])
  <2> SUFFICES ASSUME NEW o \in Op PROVE Like(o, [records[o] EXCEPT !.release = TRUE])
    OBVIOUS
  <2>1. records[o] \in Record
    BY Readers
  <2> QED BY <2>1 DEF Like, Record, Exists
<1>3. \A o \in Op : \/ kept[o] = records[o] /\ onDisk[o] = disk[o]
                    \/ Like(o, kept[o]) /\ onDisk[o] = kept[o]
  BY <1>2
<1>4. kept \in [Op -> Record] /\ onDisk \in [Op -> Record]
  BY <1>2, Readers DEF Like
<1> HIDE DEF kept, onDisk
<1>5. JournalStep
  <2>1. CASE records' = kept /\ disk' = onDisk
    BY <1>3, <1>4, <2>1, SeveralAmended
  <2>2. CASE UNCHANGED <<records, disk>>
    BY <2>2, JournalKept DEF Inv, Typed
  <2> QED BY <1>1, <2>1, <2>2
<1>6. faults' \in FaultsType
  BY <1>1, FaultTyped DEF Inv, Typed, ThreadsTyped
<1>7. ProducerStep
  BY <1>1, Readers DEF ProducerStep
<1>8. PollOnward({"observe"})
  BY <1>1 DEF PollOnward
<1>9. /\ poll' \in PollType
      /\ poll'.step \in Reconciling => poll'.fence \in Op /\ Exists(poll'.fence)
  BY <1>8, PollGoes DEF Reconciling
<1> QED BY <1>1, <1>5, <1>6, <1>7, <1>9, Readers, PollAside DEF peerVars, coordVars

\* What is shown is what was observed, or that the offer is withdrawn.
LEMMA ShownTyped ==
  ASSUME Inv, NEW obs \in Observation
  PROVE  /\ [coord EXCEPT !.shown = Applied(obs)] \in CoordType
         /\ [coord EXCEPT !.shown = Applied(obs)].enabled = coord.enabled
         /\ [coord EXCEPT !.shown.state = "unknown"] \in CoordType
         /\ [coord EXCEPT !.shown.state = "unknown"].enabled = coord.enabled
<1>1. Applied(obs) \in ShownType /\ coord \in CoordType
  BY AppliedTyped, Readers
<1>2. [coord EXCEPT !.shown.state = "unknown"] = [coord EXCEPT !.shown = [coord.shown EXCEPT !.state = "unknown"]]
  BY <1>1 DEF CoordType
<1>3. [coord.shown EXCEPT !.state = "unknown"] \in ShownType
  BY <1>1 DEF CoordType, ShownType
<1> QED BY <1>1, <1>2, <1>3 DEF CoordType

LEMMA Observing ==
  ASSUME Inv
  PROVE  /\ Observed \in Observation /\ \A o : ResultOf(o) \in Observation
         /\ client.latest # 0 => ResultSeen(client.latest) \in ClientType
         /\ \A o \in Op : ResultSeen(o) \in ClientType
<1>1. Observed \in Observation /\ \A o : ResultOf(o) \in Observation
  BY Readers, Observations
<1>2. \A o \in Op : ResultSeen(o) \in ClientType
  BY Readers, OpBasic DEF ResultSeen, ClientType
<1>3. client.latest # 0 => client.latest \in Op
  BY Readers, OpBasic DEF ClientType
<1> QED BY <1>1, <1>2, <1>3

LEMMA PollObserveKeeps ==
  ASSUME Inv, PollObserve
  PROVE  Inv' /\ Revokes
<1>1. /\ poll' = NoPoll
      /\ Fault \/ UNCHANGED faults
      /\ client' \in {client, ResultSeen(client.latest)} /\ (client.latest = 0 => client' = client)
      /\ \/ coord' = [coord EXCEPT !.shown = Applied(Observed)] /\ current' = {}
         \/ coord' = [coord EXCEPT !.shown.state = "unknown"] /\ current' = {}
         \/ UNCHANGED coordVars
      /\ UNCHANGED <<native, sender, producerVars, opVars, play>>
  BY DEF PollObserve, PollOver, PollUnchanged
<1>2. coord' \in CoordType /\ coord'.enabled = coord.enabled /\ current' \subseteq current \cup {PollCaptor}
  <2>1. CASE coord' = [coord EXCEPT !.shown = Applied(Observed)] /\ current' = {}
    BY <2>1, Observing, ShownTyped
  <2>2. CASE coord' = [coord EXCEPT !.shown.state = "unknown"] /\ current' = {}
    BY <2>2, Observing, ShownTyped
  <2>3. CASE UNCHANGED coordVars
    BY <2>3, Readers DEF coordVars
  <2> QED BY <1>1, <2>1, <2>2, <2>3
<1>3. JournalStep /\ faults' \in FaultsType /\ ProducerStep
  BY <1>1, NothingWritten
<1>4. client' \in ClientType
  BY <1>1, Observing, Readers
<1>5. PollOnward({})
  BY <1>1 DEF PollOnward
<1>6. /\ poll' \in PollType
      /\ poll'.step \in Reconciling => poll'.fence \in Op /\ Exists(poll'.fence)
  BY <1>5, PollGoes
<1> QED BY <1>1, <1>2, <1>3, <1>4, <1>6, Readers, PollAside

LEMMA PollNativeKeeps ==
  ASSUME Inv, PollNative
  PROVE  Inv' /\ Revokes
<1> DEFINE f == poll.fence
           h == IF poll.rec.native # 0 THEN poll.rec.native ELSE f
           a == [records[f] EXCEPT !.rejection = TRUE, !.stage = "operation-rejection-observed"]
           b == [records[f] EXCEPT !.release = TRUE]
<1>1. /\ poll.step = "native" /\ native' = ResultRead(h) /\ PollOnward({"cancelled", "preempted", "sender"})
      /\ \/ Journaled(f, a) /\ UNCHANGED producer
         \/ Journaled(f, b) /\ UNCHANGED producer
         \/ UNCHANGED producerVars /\ UNCHANGED faults
      /\ UNCHANGED <<sender, client, coordVars, opVars, play>>
  <2> USE DEF PollNative, Write, Journaled, PollOver, PollStep, PollOnward, PollUnchanged
  <2>1. /\ poll.step = "native" /\ native' = ResultRead(h)
        /\ \/ Journaled(f, a) /\ UNCHANGED producer
           \/ Journaled(f, b) /\ UNCHANGED producer
           \/ UNCHANGED producerVars /\ UNCHANGED faults
        /\ UNCHANGED <<sender, client, coordVars, opVars, play>>
    OBVIOUS
  <2>2. PollOnward({"cancelled", "preempted", "sender"})
    OBVIOUS
  <2> QED BY <2>1, <2>2
<1>2. f \in Op /\ Exists(f) /\ records[f] \in Record /\ h \in OpOrNone
  <2>1. f \in Op /\ Exists(f)
    BY <1>1 DEF Inv, PollPlaced, Reconciling
  <2> QED BY <2>1, Readers, OpBasic DEF PollType, Record
<1> HIDE DEF f, h
<1>3. Amends(f, a) /\ Amends(f, b)
  <2>1. records[f].stage # "none"
    BY <1>2 DEF Exists
  <2>2. a \in Record /\ a.stage # "none"
    BY <1>2 DEF Record, Stage
  <2>3. /\ a.preempted = records[f].preempted /\ a.prior = records[f].prior
        /\ a.terminal = records[f].terminal /\ a.native = records[f].native
    BY <1>2 DEF Record
  <2>4. Amends(f, b)
    BY <1>2, <2>1 DEF Amends, Record
  <2> QED BY <2>2, <2>3, <2>4 DEF Amends
<1> HIDE DEF a, b
<1>4. JournalStep /\ faults' \in FaultsType /\ ProducerStep
  BY <1>1, <1>2, <1>3, AmendmentWritten, NothingWritten
<1>5. native' \in NativeType
  <2>1. \E o \in Op : TRUE
    BY OpBasic DEF Op
  <2>2. \E t \in Place : TRUE
    BY DEF Place
  <2> QED BY <1>1, <1>2, <2>1, <2>2, Readers, NativeOperations, OpBasic
<1>6. /\ poll' \in PollType
      /\ poll'.step \in Reconciling => poll'.fence \in Op /\ Exists(poll'.fence)
  BY <1>1, PollGoes DEF Reconciling
<1> QED BY <1>1, <1>4, <1>5, <1>6, Readers, PollAside DEF coordVars

LEMMA PollCancelledKeeps ==
  ASSUME Inv, PollCancelled
  PROVE  Inv' /\ Revokes
<1> DEFINE f == poll.fence
           plays == Playing(Applied(Observed))
           stage == IF poll.rec.native = 0 /\ poll.rec.stage \in PreflightStage
                    THEN "preflight-reconciled" ELSE "rejected-reconciled"
           r == [records[f] EXCEPT !.terminal = TRUE, !.outcome = "rejected",
                                   !.playing = plays, !.stage = stage]
<1>1. /\ poll.step = "cancelled"
      /\ \/ Journaled(f, r) /\ UNCHANGED producer
         \/ UNCHANGED producerVars /\ UNCHANGED faults
      /\ \/ poll' = NoPoll
         \/ poll' = [poll EXCEPT !.step = "apply", !.outcome = "rejected", !.obs = Observed]
      /\ client' \in {client, ResultSeen(client.latest)} /\ (client.latest = 0 => client' = client)
      /\ UNCHANGED <<native, sender, coordVars, opVars, play>>
  BY DEF PollCancelled, Write, Journaled, PollOver, Learned, PollUnchanged
<1>2. f \in Op /\ Exists(f) /\ records[f] \in Record
  <2>1. f \in Op /\ Exists(f)
    BY <1>1 DEF Inv, PollPlaced, Reconciling
  <2> QED BY <2>1, Readers
<1>3. plays \in BOOLEAN
  BY DEF Playing
<1>4. stage \in Stage \ {"none"}
  BY DEF Stage
<1> HIDE DEF f, plays, stage
<1>5. Amends(f, r)
  BY <1>2, <1>3, <1>4 DEF Amends, Record
<1> HIDE DEF r
<1>6. JournalStep /\ faults' \in FaultsType /\ ProducerStep
  BY <1>1, <1>2, <1>5, AmendmentWritten, NothingWritten
<1>7. client' \in ClientType
  BY <1>1, Observing, Readers
<1>8. /\ poll' \in PollType
      /\ poll'.step \in Reconciling => poll'.fence \in Op /\ Exists(poll'.fence)
  <2>1. CASE poll' = NoPoll
    BY <2>1, NoPollTyped DEF Reconciling
  <2>2. CASE poll' = [poll EXCEPT !.step = "apply", !.outcome = "rejected", !.obs = Observed]
    <3>1. poll.step \in Reconciling
      BY <1>1 DEF Reconciling
    <3> QED BY <2>2, <3>1, Observing, PollLearns
  <2> QED BY <1>1, <2>1, <2>2
<1> QED BY <1>1, <1>6, <1>7, <1>8, Readers, PollAside DEF coordVars

LEMMA PollPreemptedKeeps ==
  ASSUME Inv, PollPreempted
  PROVE  Inv' /\ Revokes
<1>1. /\ poll.step = "preempted"
      /\ \/ poll' = NoPoll
         \/ poll' = [poll EXCEPT !.step = "apply", !.outcome = "preempted", !.obs = Observed]
      /\ client' \in {client, ResultSeen(client.latest)} /\ (client.latest = 0 => client' = client)
      /\ UNCHANGED <<native, sender, producerVars, faults, coordVars, opVars, play>>
  BY DEF PollPreempted, PollOver, Learned, PollUnchanged
<1>2. JournalStep /\ faults' \in FaultsType /\ ProducerStep
  BY <1>1, NothingWritten
<1>3. client' \in ClientType
  BY <1>1, Observing, Readers
<1>4. /\ poll' \in PollType
      /\ poll'.step \in Reconciling => poll'.fence \in Op /\ Exists(poll'.fence)
  <2>1. CASE poll' = NoPoll
    BY <2>1, NoPollTyped DEF Reconciling
  <2>2. CASE poll' = [poll EXCEPT !.step = "apply", !.outcome = "preempted", !.obs = Observed]
    <3>1. poll.step \in Reconciling
      BY <1>1 DEF Reconciling
    <3> QED BY <2>2, <3>1, Observing, PollLearns
  <2> QED BY <1>1, <2>1, <2>2
<1> QED BY <1>1, <1>2, <1>3, <1>4, Readers, PollAside DEF coordVars

LEMMA PollSenderKeeps ==
  ASSUME Inv, PollSender
  PROVE  Inv' /\ Revokes
<1> DEFINE f == poll.fence
<1>1. /\ poll.step = "sender" /\ client' = ResultSeen(f)
      /\ Fault \/ UNCHANGED faults
      /\ \/ poll' = NoPoll
         \/ poll' = [poll EXCEPT !.step = "settle", !.outcome = "committed", !.obs = ResultOf(f)]
      /\ UNCHANGED <<native, sender, producerVars, coordVars, opVars, play>>
  BY DEF PollSender, PollOver, PollUnchanged
<1>2. f \in Op
  BY <1>1 DEF Inv, PollPlaced, Reconciling
<1>3. JournalStep /\ faults' \in FaultsType /\ ProducerStep
  BY <1>1, NothingWritten
<1>4. client' \in ClientType
  BY <1>1, <1>2, Observing
<1>5. /\ poll' \in PollType
      /\ poll'.step \in Reconciling => poll'.fence \in Op /\ Exists(poll'.fence)
  <2>1. CASE poll' = NoPoll
    BY <2>1, NoPollTyped DEF Reconciling
  <2>2. CASE poll' = [poll EXCEPT !.step = "settle", !.outcome = "committed", !.obs = ResultOf(f)]
    <3>1. poll.step \in Reconciling
      BY <1>1 DEF Reconciling
    <3> QED BY <2>2, <3>1, Observing, PollLearns
  <2> QED BY <1>1, <2>1, <2>2
<1> QED BY <1>1, <1>3, <1>4, <1>5, Readers, PollAside DEF coordVars

\* A settlement makes an operation active only while it is not fenced.
LEMMA PollSettleKeeps ==
  ASSUME Inv, PollSettle
  PROVE  Inv' /\ Revokes
<1> DEFINE f == poll.fence
           plays == poll.obs.state = "playing"
           incumbent == IF poll.rec.prior # 0 THEN records[poll.rec.prior].sender ELSE f
           r == [records[f] EXCEPT !.terminal = TRUE, !.outcome = "committed",
                                   !.playing = plays, !.stage = "reconciled"]
           active == IF plays THEN f
                     ELSE IF producer.active \in {f, incumbent} THEN 0 ELSE producer.active
           m == [producer EXCEPT !.active = active]
<1>1. /\ poll.step = "settle" /\ PollOnward({"apply"})
      /\ \/ ~Fenced(f) /\ Stored(f, r) /\ producer' = m
         \/ StoreFailed(f, r) /\ UNCHANGED producer
         \/ UNCHANGED producerVars /\ UNCHANGED faults
      /\ UNCHANGED <<peerVars, coordVars, opVars, play>>
  BY DEF PollSettle, Write, PollStep, PollOver, PollOnward, PollUnchanged
<1>2. f \in Op /\ Exists(f) /\ records[f] \in Record /\ f \in OpOrNone
  <2>1. f \in Op /\ Exists(f)
    BY <1>1 DEF Inv, PollPlaced, Reconciling
  <2> QED BY <2>1, Readers, OpBasic
<1>3. plays \in BOOLEAN
  OBVIOUS
<1>4. active \in {0, producer.active, f}
  OBVIOUS
<1> HIDE DEF f, plays, active
<1>5. m \in ProducerType /\ m.active \in {0, producer.active, f}
  BY <1>2, <1>4, Readers, OpBasic DEF ProducerType
<1>6. Amends(f, r)
  <2>1. r \in Record
    BY <1>2, <1>3 DEF Record, Stage
  <2>2. r.stage # "none" /\ r.terminal
    BY <1>2 DEF Record
  <2>3. r.preempted = records[f].preempted /\ r.prior = records[f].prior /\ r.native = records[f].native
    BY <1>2 DEF Record
  <2> QED BY <2>1, <2>2, <2>3 DEF Amends
<1> HIDE DEF r, m
<1>7. JournalStep /\ faults' \in FaultsType /\ ProducerStep
  <2>1. CASE ~Fenced(f) /\ Stored(f, r) /\ producer' = m
    <3>1. JournalStep /\ faults' \in FaultsType
      BY <1>2, <1>6, <2>1, Amended DEF Inv, Typed, ThreadsTyped, Amends, Journaled
    <3>2. ~records'[f].preempted
      BY <1>2, <1>6, <2>1, Readers DEF Stored, Amends, Fenced
    <3> QED BY <1>5, <2>1, <3>1, <3>2 DEF ProducerStep
  <2> QED BY <1>1, <1>2, <1>6, <2>1, AmendmentWritten, NothingWritten DEF Journaled
<1>8. /\ poll' \in PollType
      /\ poll'.step \in Reconciling => poll'.fence \in Op /\ Exists(poll'.fence)
  BY <1>1, PollGoes DEF Reconciling
<1> QED BY <1>1, <1>7, <1>8, Readers, PollAside DEF peerVars, coordVars

LEMMA PollApplyKeeps ==
  ASSUME Inv, PollApply
  PROVE  Inv' /\ Revokes
<1>1. /\ poll' = NoPoll
      /\ \/ coord' = [coord EXCEPT !.shown = Applied(poll.obs)] /\ current' = {}
         \/ UNCHANGED coordVars
      /\ UNCHANGED <<peerVars, producerVars, faults, opVars, play>>
  BY DEF PollApply, PollOver, PollUnchanged
<1>2. poll.obs \in Observation
  BY Readers DEF PollType
<1>3. coord' \in CoordType /\ coord'.enabled = coord.enabled /\ current' \subseteq current \cup {PollCaptor}
  <2>1. CASE coord' = [coord EXCEPT !.shown = Applied(poll.obs)] /\ current' = {}
    BY <1>2, <2>1, ShownTyped
  <2>2. CASE UNCHANGED coordVars
    BY <2>2, Readers DEF coordVars
  <2> QED BY <1>1, <2>1, <2>2
<1>4. JournalStep /\ faults' \in FaultsType /\ ProducerStep
  BY <1>1, NothingWritten
<1>5. /\ poll' \in PollType
      /\ poll'.step \in Reconciling => poll'.fence \in Op /\ Exists(poll'.fence)
  BY <1>1, NoPollTyped DEF Reconciling
<1> QED BY <1>1, <1>3, <1>4, <1>5, Readers, PollAside DEF peerVars

-----------------------------------------------------------------------------
(* A restart, and the first state *)

\* The gate of a boot opens the radio only over a journal in which nothing is
\* unresolved; the restart forgets every thread and every reader.
LEMMA CrashKeeps ==
  ASSUME Inv, Crash
  PROVE  Inv' /\ Revokes
<1> DEFINE n == Cardinality(Begun)
           off == [main |-> [NoSource EXCEPT !.epoch = sender.main.epoch], cand |-> NoSource,
                   drains |-> [t \in Targets |-> NoSource], signed |-> {}, fault |-> ~FullyRetired]
<1>0. /\ records \in [Op -> Record] /\ disk \in [Op -> Record] /\ n \in Nat /\ sender \in SenderUpTo(n)
      /\ 0 \in OpOrNone /\ 0 \in PlayOrNone /\ play.id \in PlayOrNone /\ NoTarget \in Place
  BY Readers, OpBasic DEF PlayType, Place
<1> HIDE DEF n
<1>1. /\ records' = disk /\ disk' = disk /\ cmd' = cmd /\ current' = {} /\ poll' = NoPoll
      /\ pc' = [o \in Op |-> IF pc[o][1] = "idle" /\ disk[o].stage = "none" THEN pc[o] ELSE <<"over", "none">>]
      /\ native' = NativeRestarted /\ sender' = off
      /\ client' = [latest |-> 0, admitted |-> {}, holds |-> [t \in Targets |-> 0]]
      /\ producer' = [active |-> 0, retained |-> [t \in Targets |-> NotRetained], live |-> {}]
      /\ play' = [NoPlay EXCEPT !.id = play.id]
      /\ coord' = [enabled |-> Gate, pending |-> FALSE, shown |-> Shown, fence |-> 0, last |-> 0]
      /\ faults.restarts < MaxRestarts /\ faults' = [faults EXCEPT !.restarts = @ + 1]
  BY DEF Crash, SenderRestarted
<1>2. native' \in NativeType
  <2>1. /\ \E o \in Op : TRUE
        /\ \E t \in Place : TRUE
    BY OpBasic DEF Op, Place
  <2> QED BY <1>0, <1>1, <2>1, Readers, NativeOperations
<1>3. sender' \in SenderUpTo(n)
  <2>1. NoSource \in SourceUpTo(n) /\ sender.main.epoch \in 0 .. n /\ FullyRetired \in BOOLEAN
    BY <1>0, NoSourceTyped DEF SenderUpTo, SourceUpTo, FullyRetired
  <2>2. [NoSource EXCEPT !.epoch = sender.main.epoch] \in SourceUpTo(n)
    BY <2>1 DEF SourceUpTo
  <2> QED BY <1>1, <2>1, <2>2 DEF SenderUpTo
<1> HIDE DEF off
<1>4. client' \in ClientType /\ producer' \in ProducerType /\ producer'.active = 0
  BY <1>0, <1>1, OpBasic DEF ClientType, ProducerType, NotRetained
<1>5. /\ pc' \in PCType
      /\ \A o \in Op : \/ pc'[o] = pc[o] /\ pc[o][1] = "idle" /\ disk[o].stage = "none"
                       \/ pc'[o] = <<"over", "none">>
  BY <1>1 DEF PCType, Threads, Points, Inv, Typed, ThreadsTyped
<1>6. PeersTyped'
  <2>1. Begun \subseteq Begun'
    BY <1>5 DEF Begun, Before
  <2>2. \A s \in SenderUpTo(n) : s \in SenderUpTo(Cardinality(Begun'))
    BY <2>1, BegunGrows DEF n
  <2> QED BY <1>2, <1>3, <1>4, <2>2 DEF PeersTyped
<1>7. JournalTyped' /\ Sealed'
  BY <1>0, <1>1 DEF JournalTyped, Inv, Sealed, Exists
<1>8. Placed'
  BY <1>1, <1>5 DEF Placed, Unjournaled, Exists, Reserved, Holding
<1>9. ThreadsTyped'
  <2>1. faults' \in FaultsType
    BY <1>1, OpBasic DEF Inv, Typed, ThreadsTyped, FaultsType
  <2> QED BY <1>1, <1>4, <1>5, <2>1 DEF ThreadsTyped, Inv, Typed
<1>10. /\ coord' \in CoordType
       /\ coord'.enabled => Gate
  <2>1. Gate \in BOOLEAN
    BY DEF Gate
  <2>2. Shown \in ShownType
    BY <1>0 DEF Shown, ShownType
  <2> HIDE DEF Gate
  <2> QED BY <1>0, <1>1, <2>1, <2>2 DEF CoordType
<1>11. /\ play' \in PlayType /\ play'.step = "idle"
       /\ poll' \in PollType /\ poll'.step = "idle"
  <2>1. [NoPlay EXCEPT !.id = play.id] \in PlayType /\ [NoPlay EXCEPT !.id = play.id].step = "idle"
    BY <1>0 DEF NoPlay, PlayType
  <2> QED BY <1>1, <2>1, NoPollTyped
<1>12. ReadersTyped' /\ PlayPlaced' /\ PollPlaced'
  BY <1>1, <1>10, <1>11 DEF ReadersTyped, PlayPlaced, PollPlaced, Reconciling
<1>13. OneUnresolved'
  <2>1. coord'.enabled => \A o \in Op : ~Open(o)'
    BY <1>1, <1>10 DEF Gate, Open, Exists
  <2> QED BY <2>1 DEF OneUnresolved
<1>14. Revokes
  BY <1>1, <1>4 DEF Revokes, Inv, Sealed
<1> QED BY <1>6, <1>7, <1>8, <1>9, <1>12, <1>13, <1>14 DEF Inv, Typed

LEMMA InitHolds == Init => Inv
<1> SUFFICES ASSUME Init PROVE Inv
  OBVIOUS
<1> USE DEF Init, ProducerInit, PeersInit
<1>0. 0 \in OpOrNone /\ 0 \in PlayOrNone /\ NoTarget \in Place /\ Cardinality(Begun) \in Nat /\ Shown \in ShownType
  BY OpBasic, BegunCount DEF Place, Shown, ShownType
<1>1. PeersTyped
  <2>1. native \in NativeType
    BY <1>0 DEF NativeType, HoldPhase
  <2>2. sender \in SenderUpTo(Cardinality(Begun))
    BY <1>0, NoSourceTyped DEF SenderUpTo
  <2>3. client \in ClientType
    BY <1>0 DEF ClientType
  <2> QED BY <2>1, <2>2, <2>3 DEF PeersTyped
<1>2. JournalTyped /\ Sealed
  BY NoRecordTyped DEF JournalTyped, Sealed, NoRecord
<1>3. ThreadsTyped
  <2>1. producer \in ProducerType
    BY <1>0, OpBasic DEF ProducerType, NotRetained
  <2>2. NoCommand \in CmdType
    BY <1>0 DEF NoCommand, CmdType
  <2>3. pc \in PCType
    BY DEF PCType, Threads, Points
  <2>4. faults \in FaultsType
    BY OpBasic DEF FaultsType
  <2> QED BY <2>1, <2>2, <2>3, <2>4 DEF ThreadsTyped
<1>4. ReadersTyped
  <2>1. coord \in CoordType
    BY <1>0 DEF CoordType
  <2>2. NoPlay \in PlayType
    BY <1>0 DEF NoPlay, PlayType
  <2> QED BY <2>1, <2>2, NoPollTyped DEF ReadersTyped
<1>5. Placed
  BY DEF Placed, Unjournaled, Exists, NoRecord, Reserved, Holding
<1>6. PollPlaced /\ PlayPlaced
  BY NoPollTyped DEF PollPlaced, PlayPlaced, NoPlay, Reconciling
<1>7. OneUnresolved
  BY DEF OneUnresolved, Open, Exists, NoRecord
<1> QED BY <1>1, <1>2, <1>3, <1>4, <1>5, <1>6, <1>7 DEF Inv, Typed

-----------------------------------------------------------------------------
(* The theorems *)

LEMMA StepKeeps == Inv /\ [Next]_vars => Inv' /\ (Revokes \/ UNCHANGED vars)
<1> SUFFICES ASSUME Inv, [Next]_vars PROVE Inv' /\ (Revokes \/ UNCHANGED vars)
  OBVIOUS
<1>1. CASE UNCHANGED vars
  BY <1>1 DEF vars, Inv, Typed, PeersTyped, Begun, JournalTyped, ThreadsTyped, ReadersTyped, Placed, Unjournaled,
              Exists, SourceOperation, Sealed, PollPlaced, PlayPlaced, OneUnresolved, Open
<1>2. CASE Execute
  BY <1>2, ExecuteKeeps
<1>3. CASE \E o \in Op : Operation(o)
  BY <1>3, OperationKeeps
<1>4. CASE Sounds \/ Expires
  BY <1>4, SenderKeeps
<1>5. CASE \E t \in Targets : ExplicitPlay(t)
  BY <1>5, ExplicitPlayKeeps
<1>6. CASE PreemptNext
  BY <1>6, PreemptJournalKeeps, PreemptRecoverKeeps, PreemptDrainKeeps, PreemptRecordKeeps, PreemptObserveKeeps,
     PreemptEndKeeps DEF PreemptNext
<1>7. CASE NativeTimeout
  BY <1>7, PreemptEndKeeps
<1>8. CASE Poll
  BY <1>8, PollBegins
<1>9. CASE PollNext
  BY <1>9, PollReleaseKeeps, PollObserveKeeps, PollNativeKeeps, PollCancelledKeeps, PollPreemptedKeeps,
     PollSenderKeeps, PollSettleKeeps, PollApplyKeeps DEF PollNext
<1>10. CASE Crash
  BY <1>10, CrashKeeps
<1> QED BY <1>1, <1>2, <1>3, <1>4, <1>5, <1>6, <1>7, <1>8, <1>9, <1>10 DEF Next

(* The inductive invariant: the types, and that every thread, poll and       *)
(* preemption stands at a record that the journal has.                       *)
THEOREM InvAlways == Spec => []Inv
<1>1. Inv /\ [Next]_vars => Inv'
  BY StepKeeps
<1> QED BY InitHolds, <1>1, PTL DEF Spec

(* The peers' state, the journals and the coordinator stay in the program's  *)
(* types; an epoch of the sender is at most the number of sources prepared.  *)
THEOREM RadioTypes == Spec => []TypeOK
<1>1. Inv => TypeOK
  <2> SUFFICES ASSUME Inv PROVE TypeOK
    OBVIOUS
  <2> DEFINE n == Cardinality(Begun)
  <2>1. n \in Nat /\ n <= MaxOps /\ sender \in SenderUpTo(n) /\ MaxOps \in Nat
    BY BegunCount, Readers, OpBasic
  <2> HIDE DEF n
  <2>2. sender \in SenderUpTo(MaxOps)
    BY <2>1, SenderGrows
  <2>3. SourceUpTo(MaxOps) = Source
    BY DEF SourceUpTo, Source, Place
  <2>4. /\ sender.main \in Source /\ sender.cand \in Source
        /\ sender.drains \in [Targets -> Source] /\ sender.signed \subseteq PlayOrNone
    BY <2>2, <2>3 DEF SenderUpTo
  <2> QED BY <2>4, Readers DEF TypeOK, NativeType, ClientType, ProducerType, CoordType
<1> QED BY InvAlways, <1>1, PTL

(* Reserve and PreflightOperation admit an operation only when no other is   *)
(* unresolved, and a boot only a journal in which none is: of the records    *)
(* that no explicit play revoked, a radio that is on has at most one open.   *)
THEOREM OneUnresolvedAlways == Spec => []OneUnresolved
<1>1. Inv => OneUnresolved
  BY DEF Inv
<1> QED BY InvAlways, <1>1, PTL

(* An operation that an explicit play revoked stays revoked: no later write  *)
(* of its thread or of a poll, no failed write and no restart brings it      *)
(* back, and it never becomes the active operation.                          *)
THEOREM RevokedForGoodAlways == Spec => RevokedForGood
<1>1. Inv /\ [Next]_vars => [Revokes]_vars
  BY StepKeeps
<1>2. [Revokes]_vars => [/\ \A o \in Op : records[o].preempted => records'[o].preempted
                         /\ producer'.active # producer.active /\ producer'.active # 0
                               => ~records'[producer'.active].preempted]_vars
  BY DEF Revokes
<1> QED BY InvAlways, <1>1, <1>2, PTL DEF Spec, RevokedForGood

-----------------------------------------------------------------------------
(* The inductive invariant of the holds *)

\* A live record names a hold that was taken for its own receiver, and so does what the producer
\* retains; what it follows, and what is active, is live too.
HoldFor(n, t) == n # 0 => Exists(n) /\ records[n].target = t
RecordAgrees(o) ==
  /\ Exists(o)
  /\ HoldFor(records[o].native, records[o].target)
  /\ HoldFor(records[o].retained, records[o].target)
  /\ records[o].prior # 0 => records[o].prior \in producer.live
RecordsAgree ==
  /\ \A o \in producer.live : RecordAgrees(o)
  /\ \A t \in Targets : HoldFor(producer.retained[t].native, t)
  /\ producer.active # 0 => producer.active \in producer.live

\* A thread that journaled its operation works on a live record of the receiver it was given; a stop
\* or volume follows a record of the same receiver and never suspends or starts; a start or move
\* that was bound holds its own source.
Recorded(o) ==
  \/ pc[o][1] \in Reserved
  \/ pc[o][1] = "preflight" /\ pc[o][2] # "journal"
  \/ pc[o][1] = "reserve" /\ ~SourceOperation(o)
ThreadAgrees(o) ==
  /\ Recorded(o) => o \in producer.live /\ records[o].target = cmd[o].target
  /\ SourceOperation(o) => cmd[o].playing /\ pc[o][1] \notin {"preflight", "suspend", "start"}
  /\ pc[o][1] = "stop" => cmd[o].kind # "volume"
  /\ SourceOperation(o) /\ pc[o][1] \in Reserved =>
       records[o].prior \in producer.live /\ records[records[o].prior].target = records[o].target
  /\ ~SourceOperation(o) /\ pc[o][1] \in {"fence", "stop", "suspend", "start"} => records[o].sender = o
ThreadsAgree == \A o \in Op : ThreadAgrees(o)

\* What Native's phases say of its holds: a hold of this life is the one of its record's receiver,
\* a hold of any life has one receiver, and an operation that has not asked yet has none.
ActivePhase == {"prepared", "suspended", "unknown", "reacquiring"}
EarlyAt(x) == x[1] \in {"idle", "preflight", "reserve"} \/ x = <<"native", "call">>
Early(o) == EarlyAt(pc[o])
HoldsAgree ==
  /\ \A t \in Targets : native.hold[t] # 0 => native.phase[native.hold[t]] \in ActivePhase \cup {"lost"}
  /\ \A t, u \in Targets : native.hold[t] = native.hold[u] /\ native.hold[t] # 0 => t = u
  /\ \A h \in Op : native.phase[h] \in ActivePhase =>
       Exists(h) /\ records[h].target \in Targets /\ native.hold[records[h].target] = h
  /\ \A h \in Op : native.phase[h] = "suspended" => h \in native.parked
  /\ \A o \in Op : Early(o) => native.phase[o] = "none"

\* A source of the sender is of a record, on its receiver.
Startable(s) == s.phase \in {"prepared", "bound"}
Own(s) == s.src # 0 => Exists(s.src) /\ s.tgt = records[s.src].target
SourcesAgree == Own(sender.main) /\ Own(sender.cand)

\* The preemption under way: its hold is the one of its receiver while Native reacquires it, and the
\* record whose hold is being read from Native is of that hold.
PlayAgrees ==
  /\ play.step # "idle" => play.target \in Targets
  /\ play.step # "idle" /\ native.phase[play.hold] = "reacquiring" => native.hold[play.target] = play.hold
  /\ play.step = "recover" =>
       play.key \in producer.live /\ records[play.key].preempted /\ HoldOf(play.key) = play.hold

\* A thread that read the suspension and is about to start its source has a parked hold.
Starting(o) == pc[o] = <<"start", "call">>
MayStart(o) == Starting(o) /\ \E s \in {sender.main, sender.cand} : s.src = o /\ Startable(s)
ReadyToSound ==
  \A o \in Op : MayStart(o) =>
    records[o].native \in native.parked /\ native.hold[records[o].target] = records[o].native

\* Once the drain of a preemption was signed nothing sounds, or may be started, under its hold.
Signed == {"record", "observe", "commit"}
Drained ==
  play.step \in Signed /\ native.phase[play.hold] = "reacquiring" =>
    /\ ~SoundsOn(play.target)
    /\ \A o \in Op : MayStart(o) => records[o].native # play.hold

\* What sounds is parked.
SoundsParked == \A t \in Targets : SoundsOn(t) => native.hold[t] # 0 /\ native.hold[t] \in native.parked

Agreed == RecordsAgree /\ ThreadsAgree /\ HoldsAgree /\ SourcesAgree /\ PlayAgrees
HoldInv == Inv /\ Agreed /\ ReadyToSound /\ Drained /\ SoundsParked

-----------------------------------------------------------------------------
(* What a step does to the records *)

\* A record's receiver never changes while it lives, and a thread about to start keeps its hold; of
\* what a record follows and is bound to, only the record of o changes.
LiveStep(o) ==
  /\ producer.live \subseteq producer'.live
  /\ \A p \in Op :
       /\ Exists(p) => Exists(p)' /\ records'[p].target = records[p].target
       /\ Starting(p) => records'[p].native = records[p].native
       /\ Exists(p) /\ p # o => records'[p].prior = records[p].prior /\ records'[p].sender = records[p].sender

\* A revoked record keeps its hold.
RevokedKept ==
  \A p \in Op : records[p].preempted => records'[p].preempted /\ records'[p].native = records[p].native

\* A record that is brought further, and a step that only does that to the records.
Furthers(p, r) ==
  /\ r.stage # "none"
  /\ r.target = records[p].target /\ r.native = records[p].native /\ r.retained = records[p].retained
  /\ r.prior = records[p].prior /\ r.sender = records[p].sender
  /\ records[p].preempted => r.preempted
RecordsKept ==
  /\ \A p \in Op :
       /\ Exists(p)' <=> Exists(p)
       /\ records'[p].target = records[p].target /\ records'[p].native = records[p].native
       /\ records'[p].retained = records[p].retained /\ records'[p].prior = records[p].prior
       /\ records'[p].sender = records[p].sender
       /\ records[p].preempted => records'[p].preempted
  /\ producer'.live = producer.live

\* What the producer remembers beside its records.
Remembers ==
  /\ \A t \in Targets : producer'.retained[t].native \in {producer.retained[t].native, 0}
  /\ producer'.active \in {producer.active, 0} \cup producer.live

LEMMA HoldTypes ==
  ASSUME Inv
  PROVE  /\ records \in [Op -> Record] /\ producer \in ProducerType /\ native \in NativeType /\ pc \in PCType
         /\ cmd \in [Op -> CmdType] /\ play \in PlayType /\ Op \subseteq OpOrNone /\ 0 \notin Op
         /\ \A o \in Op : records[o] \in Record
BY OpBasic, Readers DEF Inv, Typed, ThreadsTyped

LEMMA KeptLives ==
  ASSUME RecordsKept, NEW o
  PROVE  LiveStep(o) /\ RevokedKept
BY DEF RecordsKept, LiveStep, RevokedKept, Exists

LEMMA RecordsStay ==
  ASSUME Inv, RecordsAgree, RecordsKept, Remembers
  PROVE  RecordsAgree'
<1>1. \A n \in Op : Exists(n)' = Exists(n) /\ records'[n].target = records[n].target
  BY DEF RecordsKept, Exists
<1>2. \A n \in OpOrNone : \A t : HoldFor(n, t) => HoldFor(n, t)'
  BY <1>1, OpBasic DEF HoldFor, Exists
<1>3. ASSUME NEW o \in producer'.live PROVE RecordAgrees(o)'
  <2>1. o \in producer.live /\ o \in Op
    BY <1>3, Readers DEF RecordsKept, ProducerType
  <2>2. RecordAgrees(o) /\ records[o].native \in OpOrNone /\ records[o].retained \in OpOrNone
    BY <2>1, Readers DEF RecordsAgree, Record
  <2>3. /\ HoldFor(records[o].native, records[o].target)'
        /\ HoldFor(records[o].retained, records[o].target)'
    <3>1. /\ records'[o].native = records[o].native /\ records'[o].retained = records[o].retained
          /\ records'[o].target = records[o].target
      BY <2>1 DEF RecordsKept
    <3> QED BY <1>2, <2>2, <3>1 DEF RecordAgrees, HoldFor, Exists
  <2> QED BY <2>1, <2>2, <2>3 DEF RecordAgrees, RecordsKept, Exists
<1>4. ASSUME NEW t \in Targets PROVE HoldFor(producer.retained[t].native, t)'
  <2>1. HoldFor(producer.retained[t].native, t) /\ producer.retained[t].native \in OpOrNone
    BY Readers DEF RecordsAgree, ProducerType
  <2> QED BY <1>2, <2>1, OpBasic DEF Remembers, HoldFor, Exists
<1>5. producer'.active # 0 => producer'.active \in producer'.live
  BY DEF RecordsAgree, RecordsKept, Remembers
<1> QED BY <1>3, <1>4, <1>5 DEF RecordsAgree

-----------------------------------------------------------------------------
(* What keeps the threads in agreement *)

LEMMA LiveExists ==
  ASSUME Inv, RecordsAgree, NEW q \in producer.live
  PROVE  q \in Op /\ Exists(q)
BY Readers DEF RecordsAgree, RecordAgrees, ProducerType

\* A thread that does not move, and whose record is not rewritten by its own thread.
LEMMA OthersAgree ==
  ASSUME Inv, RecordsAgree, ThreadsAgree, NEW o, LiveStep(o), NEW p \in Op, p # o,
         pc'[p] = pc[p], cmd'[p] = cmd[p]
  PROVE  ThreadAgrees(p)'
<1>1. ThreadAgrees(p) /\ SourceOperation(p)' = SourceOperation(p) /\ Recorded(p)' = Recorded(p)
  BY DEF ThreadsAgree, SourceOperation, Recorded
<1>2. pc[p][1] \in Reserved => Exists(p)
  BY DEF Inv, Placed
<1>3. \A q \in producer.live : q \in producer'.live /\ records'[q].target = records[q].target
  BY LiveExists DEF LiveStep
<1>4. Exists(p) => records'[p].prior = records[p].prior /\ records'[p].sender = records[p].sender
                   /\ records'[p].target = records[p].target
  BY DEF LiveStep
<1>5. Recorded(p)' => p \in producer'.live /\ records'[p].target = cmd'[p].target
  BY <1>1, <1>3 DEF ThreadAgrees
<1>6. /\ SourceOperation(p)' => cmd'[p].playing /\ pc'[p][1] \notin {"preflight", "suspend", "start"}
      /\ pc'[p][1] = "stop" => cmd'[p].kind # "volume"
  BY <1>1 DEF ThreadAgrees
<1>7. SourceOperation(p)' /\ pc'[p][1] \in Reserved =>
        records'[p].prior \in producer'.live /\ records'[records'[p].prior].target = records'[p].target
  BY <1>1, <1>2, <1>3, <1>4 DEF ThreadAgrees
<1>8. ~SourceOperation(p)' /\ pc'[p][1] \in {"fence", "stop", "suspend", "start"} => records'[p].sender = p
  BY <1>1, <1>2, <1>4 DEF ThreadAgrees, Reserved
<1> QED BY <1>5, <1>6, <1>7, <1>8 DEF ThreadAgrees

\* A thread may go on to x: in the order of its kind of operation.
Leads(o, x) ==
  /\ x[1] \in Reserved => pc[o][1] \in Reserved
  /\ x[1] = "preflight" /\ x[2] # "journal" => Recorded(o)
  /\ x[1] = "reserve" /\ ~SourceOperation(o) => Recorded(o)
  /\ SourceOperation(o) => x[1] \notin {"preflight", "suspend", "start"}
  /\ x[1] = "stop" => cmd[o].kind # "volume"
  /\ ~SourceOperation(o) /\ x[1] \in {"fence", "stop", "suspend", "start"} =>
       pc[o][1] \in {"fence", "stop", "suspend", "start"}

LEMMA ThreadsStay ==
  ASSUME Inv, RecordsAgree, ThreadsAgree, NEW o \in Op, LiveStep(0), NEW x, pc' = [pc EXCEPT ![o] = x],
         Leads(o, x), cmd' = cmd
  PROVE  ThreadsAgree'
<1>1. pc'[o] = x /\ \A p \in Op \ {o} : pc'[p] = pc[p]
  BY HoldTypes DEF PCType
<1>2. \A p \in Op : p # 0
  BY HoldTypes
<1>3. ASSUME NEW p \in Op, p # o PROVE ThreadAgrees(p)'
  BY <1>1, <1>2, <1>3, OthersAgree
<1>4. ThreadAgrees(o)'
  <2>1. ThreadAgrees(o) /\ SourceOperation(o)' = SourceOperation(o)
    BY DEF ThreadsAgree, SourceOperation
  <2>2. pc[o][1] \in Reserved => Exists(o)
    BY DEF Inv, Placed
  <2>3. \A q \in producer.live : q \in producer'.live /\ records'[q].target = records[q].target
    BY LiveExists DEF LiveStep
  <2>4. Exists(o) => records'[o].prior = records[o].prior /\ records'[o].sender = records[o].sender
                     /\ records'[o].target = records[o].target
    BY <1>2 DEF LiveStep
  <2>5. Recorded(o)' => Recorded(o)
    BY <1>1, <2>1 DEF Recorded, Leads
  <2>6. Recorded(o)' => o \in producer'.live /\ records'[o].target = cmd'[o].target
    BY <2>1, <2>3, <2>5 DEF ThreadAgrees
  <2>7. /\ SourceOperation(o)' => cmd'[o].playing /\ pc'[o][1] \notin {"preflight", "suspend", "start"}
        /\ pc'[o][1] = "stop" => cmd'[o].kind # "volume"
    BY <1>1, <2>1 DEF ThreadAgrees, Leads
  <2>8. SourceOperation(o)' /\ pc'[o][1] \in Reserved =>
          records'[o].prior \in producer'.live /\ records'[records'[o].prior].target = records'[o].target
    BY <1>1, <2>1, <2>2, <2>3, <2>4 DEF ThreadAgrees, Leads
  <2>9. ~SourceOperation(o)' /\ pc'[o][1] \in {"fence", "stop", "suspend", "start"} => records'[o].sender = o
    BY <1>1, <2>1, <2>2, <2>4 DEF ThreadAgrees, Leads, Reserved
  <2> QED BY <2>6, <2>7, <2>8, <2>9 DEF ThreadAgrees
<1> QED BY <1>3, <1>4 DEF ThreadsAgree

LEMMA ThreadsRest ==
  ASSUME Inv, RecordsAgree, ThreadsAgree, LiveStep(0), UNCHANGED opVars
  PROVE  ThreadsAgree'
<1>1. \A p \in Op : p # 0 /\ pc'[p] = pc[p] /\ cmd'[p] = cmd[p]
  BY HoldTypes DEF opVars
<1> QED BY <1>1, OthersAgree DEF ThreadsAgree

-----------------------------------------------------------------------------
(* What keeps Native and the sender in agreement *)

\* Native keeps every hold and lets none sound, and no more of them are being reacquired.
NativeCalm ==
  /\ \A t \in Targets : native.hold[t] # 0 => native'.hold[t] = native.hold[t]
  /\ native.parked \subseteq native'.parked
  /\ \A h \in Op : native'.phase[h] = "reacquiring" => native.phase[h] = "reacquiring"

\* Native takes and returns no hold.
HoldsCalm ==
  /\ native'.hold = native.hold /\ native.parked \subseteq native'.parked
  /\ \A h \in Op :
       \/ native'.phase[h] = native.phase[h]
       \/ /\ native.phase[h] \in ActivePhase /\ native'.phase[h] \in ActivePhase
          /\ native'.phase[h] = "suspended" => h \in native'.parked
       \/ native.phase[h] = "none" /\ native'.phase[h] = "rejected"
EarlyCalm == \A p \in Op : Early(p)' => Early(p) /\ native'.phase[p] # "rejected"

LEMMA HoldsStay ==
  ASSUME Inv, HoldsAgree, NEW o, LiveStep(o), HoldsCalm, EarlyCalm
  PROVE  HoldsAgree'
<1> USE DEF ActivePhase
<1>1. \A h \in Op : native'.phase[h] \in ActivePhase => native.phase[h] \in ActivePhase
  BY DEF HoldsCalm
<1>2. \A h \in Op : native.phase[h] \in ActivePhase \cup {"lost"} => native'.phase[h] \in ActivePhase \cup {"lost"}
  BY DEF HoldsCalm
<1>3. \A h \in Op : Exists(h) => Exists(h)' /\ records'[h].target = records[h].target
  BY DEF LiveStep
<1>4. \A t \in Targets : native.hold[t] # 0 => native.hold[t] \in Op
  BY OpBasic, Readers DEF NativeType
<1>5. \A t \in Targets : native'.hold[t] # 0 => native'.phase[native'.hold[t]] \in ActivePhase \cup {"lost"}
  BY <1>2, <1>4 DEF HoldsAgree, HoldsCalm
<1>6. \A t, u \in Targets : native'.hold[t] = native'.hold[u] /\ native'.hold[t] # 0 => t = u
  BY DEF HoldsAgree, HoldsCalm
<1>7. \A h \in Op : native'.phase[h] \in ActivePhase =>
        Exists(h)' /\ records'[h].target \in Targets /\ native'.hold[records'[h].target] = h
  BY <1>1, <1>3 DEF HoldsAgree, HoldsCalm
<1>8. \A h \in Op : native'.phase[h] = "suspended" => h \in native'.parked
  BY DEF HoldsAgree, HoldsCalm
<1>9. \A p \in Op : Early(p)' => native'.phase[p] = "none"
  BY DEF HoldsAgree, HoldsCalm, EarlyCalm
<1> QED BY <1>5, <1>6, <1>7, <1>8, <1>9 DEF HoldsAgree

\* A source of the next state is one of this state, no more startable than it was, or is new and of
\* an operation that is not about to start it.
Drawn(s) ==
  \/ s.src = 0
  \/ \E r \in {sender.main, sender.cand} : s.src = r.src /\ s.tgt = r.tgt /\ (Startable(s) => Startable(r))
  \/ s.src \in Op /\ Exists(s.src) /\ s.tgt = records[s.src].target /\ ~Starting(s.src)
SourcesCalm == Drawn(sender'.main) /\ Drawn(sender'.cand)
SoundsCalm == \A t \in Targets : SoundsOn(t)' => SoundsOn(t)
StartsCalm == \A p \in Op : Starting(p)' => Starting(p)

LEMMA SourcesStay ==
  ASSUME Inv, SourcesAgree, NEW o, LiveStep(o), SourcesCalm
  PROVE  SourcesAgree'
<1>1. \A p \in Op : Exists(p) => Exists(p)' /\ records'[p].target = records[p].target
  BY DEF LiveStep
<1>2. sender.main.src \in OpOrNone /\ sender.cand.src \in OpOrNone
  BY Readers DEF SenderUpTo, SourceUpTo
<1>3. \A s : Drawn(s) /\ s.src # 0 => s.src \in Op /\ Exists(s.src) /\ s.tgt = records[s.src].target
  BY <1>2, OpBasic DEF Drawn, SourcesAgree, Own
<1>4. Own(sender.main)'
  BY <1>1, <1>3 DEF SourcesCalm, Own
<1>5. Own(sender.cand)'
  BY <1>1, <1>3 DEF SourcesCalm, Own
<1> QED BY <1>4, <1>5 DEF SourcesAgree

LEMMA StartsStay ==
  ASSUME SourcesCalm, StartsCalm, NEW p \in Op, MayStart(p)'
  PROVE  MayStart(p)
<1>1. Starting(p) /\ p # 0
  BY OpBasic DEF MayStart, StartsCalm
<1>2. PICK s \in {sender'.main, sender'.cand} : s.src = p /\ Startable(s)
  BY DEF MayStart, Startable
<1>3. Drawn(s)
  BY <1>2 DEF SourcesCalm
<1>4. \E r \in {sender.main, sender.cand} : r.src = p /\ Startable(r)
  BY <1>1, <1>2, <1>3 DEF Drawn
<1> QED BY <1>1, <1>4 DEF MayStart

\* The preemption goes on with the hold and the receiver it has.
PlayCalm ==
  /\ play'.step # "idle" => play.step # "idle" /\ play'.hold = play.hold /\ play'.target = play.target
  /\ play'.step \in Signed => play.step \in Signed
Keyed == play.step = "recover" =>
           play.key \in producer.live /\ records[play.key].preempted /\ HoldOf(play.key) = play.hold

LEMMA PlayKept ==
  ASSUME Inv, PlayAgrees, NativeCalm, Keyed',
         play'.step # "idle" => play.step # "idle" /\ play'.hold = play.hold /\ play'.target = play.target
  PROVE  PlayAgrees'
<1>1. play.step # "idle" => play.hold \in Op /\ play.hold # 0 /\ play.target \in Targets
  BY OpBasic DEF Inv, PlayPlaced, PlayAgrees
<1>2. play'.step # "idle" /\ native'.phase[play'.hold] = "reacquiring" => native'.hold[play'.target] = play'.hold
  BY <1>1 DEF PlayAgrees, NativeCalm
<1> QED BY <1>1, <1>2 DEF PlayAgrees, Keyed

LEMMA KeyStays ==
  ASSUME Inv, RecordsAgree, PlayAgrees, NEW o, LiveStep(o), RevokedKept, play' = play
  PROVE  Keyed'
<1>1. SUFFICES ASSUME play.step = "recover" PROVE (play.key \in producer.live /\ records[play.key].preempted /\ HoldOf(play.key) = play.hold)'
  BY DEF Keyed
<1>2. play.key \in producer.live /\ records[play.key].preempted /\ HoldOf(play.key) = play.hold /\ play.key \in Op
  BY <1>1, LiveExists DEF PlayAgrees
<1> QED BY <1>2 DEF LiveStep, RevokedKept, HoldOf

\* A thread about to start has a hold on the receiver it was given.
LEMMA StarterPlaced ==
  ASSUME Inv, RecordsAgree, ThreadsAgree, NEW p \in Op, Starting(p)
  PROVE  /\ p \in producer.live /\ Exists(p) /\ records[p].target \in Targets /\ records[p].native \in Op
         /\ records[p].native # 0 /\ records[p].sender = p /\ ~SourceOperation(p)
<1>1. pc[p][1] \in Reserved /\ pc[p][1] \in Holding /\ pc[p][1] = "start"
  BY DEF Starting, Reserved, Holding
<1>2. records[p].native # 0 /\ cmd[p].target \in Targets
  BY <1>1 DEF Inv, Placed
<1>3. p \in producer.live /\ records[p].target = cmd[p].target /\ ~SourceOperation(p) /\ records[p].sender = p
  BY <1>1 DEF ThreadsAgree, ThreadAgrees, Recorded
<1>4. records[p].native \in Op
  BY <1>2, HoldTypes, OpBasic DEF Record
<1> QED BY <1>2, <1>3, <1>4, LiveExists

LEMMA StillReady ==
  ASSUME HoldInv, NEW o, LiveStep(o), NativeCalm, NEW p \in Op, MayStart(p)
  PROVE  records'[p].native \in native'.parked /\ native'.hold[records'[p].target] = records'[p].native
<1>1. Exists(p) /\ records[p].target \in Targets /\ records[p].native # 0 /\ Starting(p)
  BY StarterPlaced DEF HoldInv, Agreed, MayStart
<1>2. records[p].native \in native.parked /\ native.hold[records[p].target] = records[p].native
  BY DEF HoldInv, ReadyToSound
<1>3. records'[p].native = records[p].native /\ records'[p].target = records[p].target
  BY <1>1 DEF LiveStep
<1> QED BY <1>1, <1>2, <1>3 DEF NativeCalm

LEMMA StillDrained ==
  ASSUME HoldInv, NEW o, LiveStep(o), NativeCalm, play'.step \in Signed, play.step \in Signed, PlayCalm,
         native'.phase[play'.hold] = "reacquiring", NEW p \in Op, MayStart(p)
  PROVE  records'[p].native # play'.hold
<1>1. Starting(p) /\ records'[p].native = records[p].native
  BY DEF MayStart, LiveStep
<1>2. play'.hold = play.hold /\ play.hold \in Op
  BY DEF PlayCalm, Signed, HoldInv, Inv, PlayPlaced
<1>3. native.phase[play.hold] = "reacquiring"
  BY <1>2 DEF NativeCalm
<1> QED BY <1>1, <1>2, <1>3 DEF HoldInv, Drained

LEMMA StillParked ==
  ASSUME SoundsParked, NativeCalm, SoundsCalm
  PROVE  SoundsParked'
BY DEF SoundsParked, NativeCalm, SoundsCalm

\* A step at which nothing starts to sound, or to be asked to, and nothing is given back.
LEMMA CalmSounds ==
  ASSUME HoldInv, NEW o, LiveStep(o), NativeCalm, SourcesCalm, SoundsCalm, StartsCalm, PlayCalm
  PROVE  ReadyToSound' /\ Drained' /\ SoundsParked'
<1>1. ReadyToSound'
  <2>1. SUFFICES ASSUME NEW p \in Op, MayStart(p)'
        PROVE records'[p].native \in native'.parked /\ native'.hold[records'[p].target] = records'[p].native
    BY DEF ReadyToSound
  <2> QED BY <2>1, StartsStay, StillReady
<1>2. Drained'
  <2>1. SUFFICES ASSUME play'.step \in Signed, native'.phase[play'.hold] = "reacquiring"
        PROVE ~SoundsOn(play.target)' /\ \A p \in Op : MayStart(p)' => records'[p].native # play'.hold
    BY DEF Drained
  <2>2. play.step \in Signed /\ play'.hold = play.hold /\ play'.target = play.target /\ play.step # "idle"
    BY <2>1 DEF PlayCalm, Signed
  <2>3. play.hold \in Op /\ play.target \in Targets
    BY <2>2 DEF HoldInv, Agreed, PlayAgrees, Inv, PlayPlaced
  <2>4. native.phase[play.hold] = "reacquiring"
    BY <2>1, <2>2, <2>3 DEF NativeCalm
  <2>5. ~SoundsOn(play.target)'
    <3>1. ~SoundsOn(play.target)
      BY <2>2, <2>4 DEF HoldInv, Drained
    <3> QED BY <2>2, <2>3, <3>1 DEF SoundsCalm, SoundsOn
  <2>6. \A p \in Op : MayStart(p)' => records'[p].native # play'.hold
    BY <2>1, <2>2, StartsStay, StillDrained
  <2> QED BY <2>5, <2>6
<1> QED BY <1>1, <1>2, StillParked DEF HoldInv

-----------------------------------------------------------------------------
(* Steps that leave the holds alone *)

LEMMA Together ==
  ASSUME HoldInv, Inv', RecordsAgree', ThreadsAgree', NEW o, LiveStep(o), HoldsCalm, EarlyCalm, NativeCalm,
         SourcesCalm, SoundsCalm, StartsCalm, PlayCalm, Keyed'
  PROVE  HoldInv'
<1>1. HoldsAgree' /\ SourcesAgree'
  BY HoldsStay, SourcesStay DEF HoldInv, Agreed
<1>2. PlayAgrees'
  BY PlayKept DEF HoldInv, Agreed, PlayCalm
<1>3. ReadyToSound' /\ Drained' /\ SoundsParked'
  BY CalmSounds
<1> QED BY <1>1, <1>2, <1>3 DEF HoldInv, Agreed

LEMMA SenderStays ==
  ASSUME UNCHANGED sender
  PROVE  SourcesCalm /\ SoundsCalm
BY DEF SourcesCalm, Drawn, SoundsCalm, SoundsOn

LEMMA NativeStays ==
  ASSUME native'.hold = native.hold, native'.phase = native.phase, native'.parked = native.parked
  PROVE  HoldsCalm /\ NativeCalm
BY DEF HoldsCalm, NativeCalm

\* A step of o's thread that writes at most what furthers its record, and leads it on.
LEMMA ThreadKeeps ==
  ASSUME HoldInv, Inv', NEW o \in Op, NEW x, Goes(o, x), Leads(o, x), cmd' = cmd, x # <<"start", "call">>,
         EarlyAt(x) => Early(o) /\ native'.phase[o] # "rejected",
         \A h \in Op : native'.phase[h] = "rejected" => native.phase[h] = "rejected" \/ h = o,
         RecordsKept, Remembers, HoldsCalm, NativeCalm, SourcesCalm, SoundsCalm, play' = play
  PROVE  HoldInv'
<1>1. pc' = [pc EXCEPT ![o] = x] /\ pc'[o] = x /\ \A p \in Op \ {o} : pc'[p] = pc[p]
  BY HoldTypes DEF Goes, PCType, HoldInv
<1>2. LiveStep(0) /\ RevokedKept
  BY KeptLives
<1>3. RecordsAgree' /\ ThreadsAgree'
  BY <1>1, <1>2, RecordsStay, ThreadsStay DEF HoldInv, Agreed
<1>4. StartsCalm
  BY <1>1 DEF StartsCalm, Starting
<1>5. EarlyCalm
  <2>1. SUFFICES ASSUME NEW p \in Op, Early(p)' PROVE Early(p) /\ native'.phase[p] # "rejected"
    BY DEF EarlyCalm
  <2>2. CASE p = o
    BY <1>1, <2>1, <2>2 DEF Early
  <2>3. CASE p # o
    <3>1. Early(p)
      BY <1>1, <2>1, <2>3 DEF Early
    <3>2. native.phase[p] = "none"
      BY <3>1 DEF HoldInv, Agreed, HoldsAgree
    <3> QED BY <2>3, <3>1, <3>2
  <2> QED BY <2>2, <2>3
<1>6. PlayCalm /\ Keyed'
  <2>1. PlayCalm
    BY DEF PlayCalm
  <2> QED BY <1>2, <2>1, KeyStays DEF HoldInv, Agreed
<1> QED BY <1>2, <1>3, <1>4, <1>5, <1>6, Together

LEMMA LeadsOn ==
  ASSUME ThreadsAgree, NEW o \in Op, NEW x,
         x[1] = "done" \/ (x[1] = pc[o][1] /\ pc[o][1] \in Reserved)
  PROVE  Leads(o, x)
<1>1. ThreadAgrees(o)
  BY DEF ThreadsAgree
<1> QED BY <1>1 DEF Leads, Reserved, ThreadAgrees

LEMMA WrittenKept ==
  ASSUME Inv, NEW o \in Op, Exists(o), NEW r, Journaled(o, r), Furthers(o, r), producer'.live = producer.live
  PROVE  RecordsKept
<1>1. records' = [records EXCEPT ![o] = r] \/ records' = records
  BY DEF Journaled, Stored, StoreFailed
<1>2. \A p \in Op : records'[p] = records[p] \/ (p = o /\ records'[p] = r)
  BY <1>1, HoldTypes
<1> QED BY <1>2 DEF RecordsKept, Furthers, Exists

LEMMA NothingKept ==
  ASSUME UNCHANGED producerVars
  PROVE  RecordsKept /\ Remembers
BY DEF RecordsKept, Remembers, producerVars, Exists

\* The thread moves on and the peers do not.
LEMMA JournalKeeps ==
  ASSUME HoldInv, Inv', NEW o \in Op, NEW x, Goes(o, x), Leads(o, x), x # <<"start", "call">>,
         EarlyAt(x) => Early(o), RecordsKept, Remembers, UNCHANGED <<native, sender, cmd, play>>
  PROVE  HoldInv'
<1>1. HoldsCalm /\ NativeCalm /\ SourcesCalm /\ SoundsCalm
  BY SenderStays, NativeStays
<1>2. Early(o) => native'.phase[o] # "rejected"
  BY DEF HoldInv, Agreed, HoldsAgree
<1> QED BY <1>1, <1>2, ThreadKeeps

\* What is left to show of a write by o's own thread, or of its refusal.
LEMMA WriteKeeps ==
  ASSUME HoldInv, Inv', NEW o \in Op, NEW x, Goes(o, x), Leads(o, x), x # <<"start", "call">>,
         EarlyAt(x) => Early(o), UNCHANGED <<native, sender, cmd, play>>,
         NEW r, NEW m,
         \/ UNCHANGED producerVars
         \/ Exists(o) /\ Journaled(o, r) /\ Furthers(o, r) /\ producer' \in {producer, m}
              /\ m.live = producer.live /\ m.retained = producer.retained
              /\ m.active \in {producer.active, 0} \cup producer.live
  PROVE  HoldInv'
<1>1. CASE UNCHANGED producerVars
  BY <1>1, NothingKept, JournalKeeps
<1>2. CASE Exists(o) /\ Journaled(o, r) /\ Furthers(o, r) /\ producer' \in {producer, m}
              /\ m.live = producer.live /\ m.retained = producer.retained
              /\ m.active \in {producer.active, 0} \cup producer.live
  <2>1. producer'.live = producer.live /\ Remembers
    BY <1>2 DEF Remembers
  <2>2. RecordsKept
    BY <1>2, <2>1, WrittenKept DEF HoldInv
  <2> QED BY <2>1, <2>2, JournalKeeps
<1> QED BY <1>1, <1>2

LEMMA PreflightWritesKeep ==
  ASSUME HoldInv, Inv', NEW o \in Op, PreflightRecord(o) \/ PreflightReject(o), UNCHANGED play
  PROVE  HoldInv'
<1>0. records[o] \in Record /\ ThreadAgrees(o)
  BY HoldTypes DEF HoldInv, Agreed, ThreadsAgree
<1>1. CASE PreflightRecord(o)
  <2> DEFINE r == [records[o] EXCEPT !.stage = "preflight-prepared", !.peer = o, !.epoch = StateOf(o).epoch]
  <2>1. /\ pc[o] = <<"preflight", "record">> /\ UNCHANGED <<native, sender, cmd, play>>
        /\ \/ UNCHANGED producerVars
           \/ Exists(o) /\ Journaled(o, r) /\ UNCHANGED producer
    BY <1>1 DEF PreflightRecord, Write, Journaled, StillPreflighting, Exists, At, peerVars
  <2>2. PICK x \in {<<"done", "clean">>, <<"reserve", "check">>} : Goes(o, x)
    BY <1>1 DEF PreflightRecord, Write, Goes, Goto, Clean
  <2>3. Leads(o, x) /\ x # <<"start", "call">> /\ Early(o)
    BY <1>0, <2>1, <2>2 DEF Leads, Recorded, Reserved, ThreadAgrees, Early, EarlyAt
  <2>4. Furthers(o, r)
    BY <1>0 DEF Furthers, Record
  <2> HIDE DEF r
  <2> QED BY <2>1, <2>2, <2>3, <2>4, WriteKeeps
<1>2. CASE PreflightReject(o)
  <2> DEFINE r == [records[o] EXCEPT !.stage = "preflight-rejected", !.terminal = TRUE, !.outcome = "rejected"]
  <2>1. /\ pc[o] = <<"preflight", "reject">> /\ UNCHANGED <<native, sender, cmd, play>>
        /\ Goes(o, <<"done", "clean">>)
        /\ \/ UNCHANGED producerVars
           \/ Exists(o) /\ Journaled(o, r) /\ UNCHANGED producer
    BY <1>2 DEF PreflightReject, Write, Journaled, StillPreflighting, Exists, At, Goes, Goto, Clean, peerVars
  <2>3. Leads(o, <<"done", "clean">>) /\ Early(o)
    BY <1>0, <2>1 DEF Leads, Recorded, Reserved, ThreadAgrees, Early, EarlyAt
  <2>4. Furthers(o, r)
    BY <1>0 DEF Furthers, Record
  <2> HIDE DEF r
  <2> QED BY <2>1, <2>3, <2>4, WriteKeeps
<1> QED BY <1>1, <1>2

LEMMA CancelWritesKeep ==
  ASSUME HoldInv, Inv', NEW o \in Op, CancelJournal(o) \/ CancelRecord(o), UNCHANGED play
  PROVE  HoldInv'
<1>0. records[o] \in Record /\ ThreadsAgree /\ Inv
  BY HoldTypes DEF HoldInv, Agreed
<1>1. Exists(o) /\ pc[o][1] = "cancel" /\ UNCHANGED <<native, sender, cmd, play>>
  BY <1>0, ReservedExists DEF CancelJournal, CancelRecord, At, Reserved, peerVars
<1>2. PICK x \in {<<"cancel", "call">>, <<"done", "clean">>, <<"done", "unknown">>} : Goes(o, x)
  BY DEF CancelJournal, CancelRecord, Write, Goes, Goto, Clean, Unknown
<1>3. Leads(o, x) /\ x # <<"start", "call">> /\ ~EarlyAt(x)
  <2>1. "cancel" \in Reserved
    BY DEF Reserved
  <2>2. Leads(o, x)
    BY <1>0, <1>1, <1>2, <2>1, LeadsOn
  <2> QED BY <1>2, <2>2 DEF EarlyAt
<1>4. CASE CancelJournal(o)
  <2> DEFINE r == [records[o] EXCEPT !.rejection = TRUE, !.stage = "candidate-cancel-attempted"]
  <2>1. \/ UNCHANGED producerVars
        \/ Journaled(o, r) /\ UNCHANGED producer
    BY <1>4 DEF CancelJournal, Write, Journaled
  <2>2. Furthers(o, r)
    BY <1>0 DEF Furthers, Record
  <2> HIDE DEF r
  <2> QED BY <1>1, <1>2, <1>3, <2>1, <2>2, WriteKeeps
<1>5. CASE CancelRecord(o)
  <2> DEFINE r == [records[o] EXCEPT !.terminal = TRUE, !.outcome = "rejected", !.stage = "no-effects-rejected"]
  <2>1. \/ UNCHANGED producerVars
        \/ Journaled(o, r) /\ UNCHANGED producer
    BY <1>5 DEF CancelRecord, Write, Journaled
  <2>2. Furthers(o, r)
    BY <1>0 DEF Furthers, Record
  <2> HIDE DEF r
  <2> QED BY <1>1, <1>2, <1>3, <2>1, <2>2, WriteKeeps
<1> QED BY <1>4, <1>5

LEMMA EffectWritesKeep ==
  ASSUME HoldInv, Inv', NEW o \in Op, Admit(o) \/ Advance(o) \/ FinishRecord(o), UNCHANGED play
  PROVE  HoldInv'
<1>0. records[o] \in Record /\ ThreadsAgree /\ ThreadAgrees(o) /\ RecordsAgree /\ Inv
  BY HoldTypes DEF HoldInv, Agreed, ThreadsAgree
<1>1. CASE Admit(o)
  <2>1. PICK effect \in Effect :
          /\ At(o, effect, "admit") /\ UNCHANGED <<peerVars, cmd>>
          /\ \/ /\ Write(o, [records[o] EXCEPT !.stage = Attempt[effect]], producer,
                          Goto(o, effect, IF effect \in ReadsFirst THEN "read" ELSE "call"), Unknown(o))
             \/ Unknown(o) /\ UNCHANGED <<producerVars, faults>>
    BY <1>1 DEF Admit
  <2> DEFINE r == [records[o] EXCEPT !.stage = Attempt[effect]]
  <2>2. PICK x \in {<<effect, "read">>, <<effect, "call">>, <<"done", "unknown">>} : Goes(o, x) /\ x # <<"start", "call">>
    BY <2>1 DEF Write, Goes, Goto, Unknown, ReadsFirst
  <2>3. pc[o] = <<effect, "admit">> /\ effect \in Reserved /\ Attempt[effect] # "none"
    BY <2>1 DEF At, Effect, Reserved, Attempt
  <2>4. Exists(o) /\ UNCHANGED <<native, sender, cmd, play>>
    BY <1>0, <2>1, <2>3, ReservedExists DEF peerVars
  <2>5. Leads(o, x) /\ ~EarlyAt(x)
    <3>1. Leads(o, x)
      BY <1>0, <2>2, <2>3, LeadsOn
    <3> QED BY <2>1, <2>2, <3>1 DEF EarlyAt, Effect
  <2>6. \/ UNCHANGED producerVars
        \/ Journaled(o, r) /\ UNCHANGED producer
    BY <2>1 DEF Write, Journaled
  <2>7. Furthers(o, r)
    BY <1>0, <2>3 DEF Furthers, Record
  <2> HIDE DEF r
  <2> QED BY <2>2, <2>4, <2>5, <2>6, <2>7, WriteKeeps
<1>2. CASE Advance(o)
  <2>1. PICK effect \in {"suspend", "start", "volume"} :
          /\ At(o, effect, "record") /\ UNCHANGED <<peerVars, cmd>>
          /\ \/ Write(o, [records[o] EXCEPT !.stage = Done(effect)], producer, Proceed(o, effect), Unknown(o))
             \/ Unknown(o) /\ UNCHANGED <<producerVars, faults>>
    BY <1>2 DEF Advance
  <2> DEFINE r == [records[o] EXCEPT !.stage = Done(effect)]
  <2>2. PICK x \in {<<Following(o, effect), "admit">>, <<"done", "unknown">>} : Goes(o, x)
    BY <2>1 DEF Write, Goes, Goto, Unknown, Proceed
  <2>3. pc[o] = <<effect, "record">> /\ effect \in Reserved /\ Done(effect) # "none"
    BY <2>1 DEF At, Reserved, Done
  <2>4. Exists(o) /\ UNCHANGED <<native, sender, cmd, play>>
    BY <1>0, <2>1, <2>3, ReservedExists DEF peerVars
  <2>5. Following(o, effect) \in {"start", "finish"} /\ (Following(o, effect) = "start" => effect = "suspend")
    BY <2>1 DEF Following
  <2>6. Leads(o, x) /\ ~EarlyAt(x) /\ x # <<"start", "call">>
    <3>1. Leads(o, x)
      BY <1>0, <2>2, <2>3, <2>5 DEF Leads, Reserved, ThreadAgrees
    <3> QED BY <2>2, <2>5, <3>1 DEF EarlyAt
  <2>7. \/ UNCHANGED producerVars
        \/ Journaled(o, r) /\ UNCHANGED producer
    BY <2>1 DEF Write, Journaled
  <2>8. Furthers(o, r)
    BY <1>0, <2>3 DEF Furthers, Record
  <2> HIDE DEF r
  <2> QED BY <2>2, <2>4, <2>6, <2>7, <2>8, WriteKeeps
<1>3. CASE FinishRecord(o)
  <2>1. PICK state \in {"playing", "stopped"} :
          /\ At(o, "finish", state) /\ UNCHANGED <<peerVars, cmd>>
          /\ \/ Write(o, [records[o] EXCEPT !.terminal = TRUE, !.outcome = "committed",
                                           !.stage = "terminal", !.playing = (state = "playing")],
                     [producer EXCEPT !.active = IF state = "playing" THEN o ELSE 0],
                     Goto(o, "done", state), Unknown(o))
             \/ Unknown(o) /\ UNCHANGED <<producerVars, faults>>
    BY <1>3 DEF FinishRecord
  <2> DEFINE r == [records[o] EXCEPT !.terminal = TRUE, !.outcome = "committed",
                                     !.stage = "terminal", !.playing = (state = "playing")]
             m == [producer EXCEPT !.active = IF state = "playing" THEN o ELSE 0]
  <2>2. PICK x \in {<<"done", state>>, <<"done", "unknown">>} : Goes(o, x)
    BY <2>1 DEF Write, Goes, Goto, Unknown
  <2>3. pc[o] = <<"finish", state>> /\ "finish" \in Reserved
    BY <2>1 DEF At, Reserved
  <2>4. Exists(o) /\ o \in producer.live /\ UNCHANGED <<native, sender, cmd, play>>
    BY <1>0, <2>1, <2>3, ReservedExists DEF peerVars, ThreadAgrees, Recorded
  <2>5. Leads(o, x) /\ ~EarlyAt(x) /\ x # <<"start", "call">>
    <3>1. Leads(o, x)
      BY <1>0, <2>2, LeadsOn
    <3> QED BY <2>2, <3>1 DEF EarlyAt
  <2>6. \/ UNCHANGED producerVars
        \/ Journaled(o, r) /\ producer' \in {producer, m}
    BY <2>1 DEF Write, Journaled
  <2>7. Furthers(o, r)
    BY <1>0 DEF Furthers, Record
  <2>8. m.live = producer.live /\ m.retained = producer.retained /\ m.active \in {producer.active, 0} \cup producer.live
    BY <1>0, <2>4, HoldTypes DEF ProducerType
  <2> HIDE DEF r, m
  <2> QED BY <2>2, <2>4, <2>5, <2>6, <2>7, <2>8, WriteKeeps
<1> QED BY <1>1, <1>2, <1>3

\* The two writes of a stop's receipt.
LEMMA StopWritesKeep ==
  ASSUME HoldInv, Inv', NEW o \in Op, StopRecord(o), UNCHANGED play
  PROVE  HoldInv'
<1> DEFINE own == [records[o] EXCEPT !.ticket = Plain, !.stage = "stopped"]
           src == Incumbent(o)
           of == [records[src] EXCEPT !.drained = TRUE, !.ticket = Plain]
           first == IF records[o].prior # 0 THEN [records EXCEPT ![src] = of] ELSE records
<1>0. records[o] \in Record /\ ThreadAgrees(o) /\ Inv /\ records \in [Op -> Record]
  BY HoldTypes DEF HoldInv, Agreed, ThreadsAgree
<1>1. /\ At(o, "stop", "record") /\ UNCHANGED <<native, sender, cmd, play, producer>>
      /\ \/ records' = [first EXCEPT ![o] = own]
         \/ records' = first
         \/ records' = records
  BY DEF StopRecord, peerVars
<1>2. PICK x \in {<<Following(o, "stop"), "admit">>, <<"done", "unknown">>} : Goes(o, x)
  BY DEF StopRecord, Proceed, Goto, Unknown, Goes
<1>3. Following(o, "stop") \in {"finish", "suspend"} /\ (Following(o, "stop") = "suspend" => cmd[o].kind # "stop")
  BY DEF Following
<1>4. pc[o] = <<"stop", "record">> /\ Exists(o)
  BY <1>0, <1>1, ReservedExists DEF At, Reserved
<1>5. Leads(o, x) /\ ~EarlyAt(x) /\ x # <<"start", "call">>
  <2>1. SourceOperation(o) => cmd[o].kind = "stop"
    BY <1>0, <1>4 DEF SourceOperation, ThreadAgrees
  <2>2. Leads(o, x)
    BY <1>2, <1>3, <1>4, <2>1 DEF Leads, Reserved
  <2> QED BY <1>2, <1>3, <2>2 DEF EarlyAt
<1>6. Furthers(o, own) /\ (src \in Op /\ Exists(src) => Furthers(src, of)) /\ (src \in Op => of.stage = records[src].stage)
  <2>1. Furthers(o, own)
    BY <1>0 DEF Furthers, Record
  <2>2. ASSUME src \in Op, Exists(src) PROVE Furthers(src, of)
    BY <1>0, <2>2 DEF Furthers, Record, Exists
  <2>3. src \in Op => of.stage = records[src].stage
    BY <1>0 DEF Record
  <2> QED BY <2>1, <2>2, <2>3
<1>7. \A p \in Op : \/ records'[p] = records[p]
                    \/ p = o /\ records'[p] = own
                    \/ p = src /\ records'[p] = of
  <2> HIDE DEF own, of, src
  <2>1. first \in [Op -> {first[p] : p \in Op}] /\ \A p \in Op : first[p] = records[p] \/ (p = src /\ first[p] = of)
    BY <1>0
  <2> HIDE DEF first
  <2> QED BY <1>1, <2>1
<1> HIDE DEF own, of, src, first
<1>8. RecordsKept /\ Remembers
  <2>1. \A p \in Op : (p = src /\ records'[p] = of) => (Exists(p)' <=> Exists(p))
    BY <1>6 DEF Exists
  <2>2. SUFFICES ASSUME NEW p \in Op
        PROVE  /\ Exists(p)' <=> Exists(p)
               /\ records'[p].target = records[p].target /\ records'[p].native = records[p].native
               /\ records'[p].retained = records[p].retained /\ records'[p].prior = records[p].prior
               /\ records'[p].sender = records[p].sender
               /\ records[p].preempted => records'[p].preempted
    BY <1>1 DEF RecordsKept, Remembers
  <2>3. CASE records'[p] = records[p]
    BY <2>3 DEF Exists
  <2>4. CASE p = o /\ records'[p] = own
    BY <1>4, <1>6, <2>4 DEF Exists, Furthers
  <2>5. CASE p = src /\ records'[p] = of
    <3>1. src \in Op => of.target = records[src].target /\ of.native = records[src].native
                       /\ of.retained = records[src].retained /\ of.prior = records[src].prior
                       /\ of.sender = records[src].sender /\ of.preempted = records[src].preempted
      BY <1>0 DEF of, Record
    <3> QED BY <2>1, <2>5, <3>1
  <2> QED BY <1>7, <2>3, <2>4, <2>5
<1> QED BY <1>1, <1>2, <1>5, <1>8, JournalKeeps

-----------------------------------------------------------------------------
(* The writes that bind an operation to its hold and source *)

\* Such a write, by o's own thread: what is left to show.
LEMMA BindingKeeps ==
  ASSUME HoldInv, Inv', NEW o \in Op, NEW x, Goes(o, x), x # <<"start", "call">>, EarlyAt(x) => Early(o),
         UNCHANGED <<sender, cmd, play>>,
         native'.hold = native.hold, native'.phase = native.phase, native'.parked = native.parked,
         LiveStep(o), RevokedKept, RecordsAgree', ThreadAgrees(o)'
  PROVE  HoldInv'
<1>1. pc' = [pc EXCEPT ![o] = x] /\ pc'[o] = x /\ \A p \in Op \ {o} : pc'[p] = pc[p]
  BY HoldTypes DEF Goes, PCType, HoldInv
<1>2. \A p \in Op \ {o} : ThreadAgrees(p)'
  BY <1>1, OthersAgree DEF HoldInv, Agreed
<1>3. ThreadsAgree'
  BY <1>2 DEF ThreadsAgree
<1>4. HoldsCalm /\ NativeCalm /\ SourcesCalm /\ SoundsCalm
  BY NativeStays, SenderStays
<1>5. StartsCalm
  BY <1>1 DEF StartsCalm, Starting
<1>6. EarlyCalm
  <2>1. SUFFICES ASSUME NEW p \in Op, Early(p)' PROVE Early(p) /\ native'.phase[p] # "rejected"
    BY DEF EarlyCalm
  <2>2. Early(p)
    BY <1>1, <2>1 DEF Early
  <2>3. native.phase[p] = "none"
    BY <2>2 DEF HoldInv, Agreed, HoldsAgree
  <2> QED BY <2>2, <2>3
<1>7. PlayCalm /\ Keyed'
  <2>1. PlayCalm
    BY DEF PlayCalm
  <2> QED BY <2>1, KeyStays DEF HoldInv, Agreed
<1> QED BY <1>3, <1>4, <1>5, <1>6, <1>7, Together

\* The record of o came to be, or was rewritten as r for the same receiver.
LEMMA RecordsRewritten ==
  ASSUME Inv, RecordsAgree, NEW o \in Op, NEW r \in Record, records' = [records EXCEPT ![o] = r],
         r.stage # "none", Exists(o) => r.target = records[o].target,
         producer'.live = producer.live \cup {o},
         HoldFor(r.native, r.target) \/ r.native = o, HoldFor(r.retained, r.target),
         r.prior # 0 => r.prior \in producer.live,
         \A t \in Targets : HoldFor(producer'.retained[t].native, t),
         producer'.active = producer.active, \A t \in Targets : producer'.retained[t].native \in OpOrNone
  PROVE  RecordsAgree'
<1>1. \A p \in Op : /\ p # o => records'[p] = records[p]
                    /\ records'[o] = r
  BY HoldTypes
<1>2. \A n \in OpOrNone : \A t : HoldFor(n, t) => HoldFor(n, t)'
  BY <1>1, OpBasic DEF HoldFor, Exists
<1>3. ASSUME NEW p \in producer'.live PROVE RecordAgrees(p)'
  <2>1. CASE p = o
    <3>1. r.native \in OpOrNone /\ r.retained \in OpOrNone
      BY DEF Record
    <3>2. HoldFor(r.native, r.target)' /\ HoldFor(r.retained, r.target)'
      BY <1>1, <1>2, <3>1 DEF HoldFor, Exists
    <3>3. /\ HoldFor(records[o].native, records[o].target)'
          /\ HoldFor(records[o].retained, records[o].target)'
      BY <1>1, <3>2 DEF HoldFor, Exists
    <3> QED BY <1>1, <2>1, <3>3 DEF RecordAgrees, Exists
  <2>2. CASE p # o
    <3>1. p \in producer.live /\ p \in Op /\ Exists(p)
      BY <2>2, LiveExists
    <3>2. RecordAgrees(p) /\ records[p].native \in OpOrNone /\ records[p].retained \in OpOrNone /\ records'[p] = records[p]
      BY <1>1, <2>2, <3>1, HoldTypes DEF RecordsAgree, Record
    <3>3. /\ HoldFor(records[p].native, records[p].target)'
          /\ HoldFor(records[p].retained, records[p].target)'
      BY <1>2, <3>2 DEF RecordAgrees, HoldFor, Exists
    <3> QED BY <3>1, <3>2, <3>3 DEF RecordAgrees, Exists
  <2> QED BY <2>1, <2>2
<1>4. ASSUME NEW t \in Targets PROVE HoldFor(producer.retained[t].native, t)'
  BY <1>2, <1>4 DEF HoldFor, Exists
<1> QED BY <1>3, <1>4 DEF RecordsAgree

\* A write that failed left nothing behind in memory.
LEMMA FailedWriteKeeps ==
  ASSUME HoldInv, Inv', NEW o \in Op, NEW x, Goes(o, x), x[1] = "done",
         UNCHANGED <<sender, cmd, play, records, producer>>,
         native'.hold = native.hold, native'.phase = native.phase, native'.parked = native.parked
  PROVE  HoldInv'
<1>1. HoldsCalm /\ NativeCalm /\ SourcesCalm /\ SoundsCalm
  BY SenderStays, NativeStays
<1>2. RecordsKept /\ Remembers
  BY DEF RecordsKept, Remembers, Exists
<1>3. Leads(o, x) /\ x # <<"start", "call">> /\ ~EarlyAt(x)
  BY LeadsOn DEF HoldInv, Agreed, EarlyAt
<1> QED BY <1>1, <1>2, <1>3, ThreadKeeps

LEMMA PreflightJournalKeeps ==
  ASSUME HoldInv, Inv', NEW o \in Op, PreflightJournal(o), UNCHANGED play
  PROVE  HoldInv'
<1> DEFINE t == cmd[o].target
           r == [NoRecord EXCEPT !.stage = "preflight-attempted", !.target = t]
           m == [producer EXCEPT !.live = @ \cup {o}]
<1>0. /\ Inv /\ RecordsAgree /\ ThreadAgrees(o) /\ pc[o] = <<"preflight", "journal">>
      /\ native'.hold = native.hold /\ native'.phase = native.phase /\ native'.parked = native.parked
      /\ UNCHANGED <<sender, cmd, play>>
  BY HoldTypes DEF HoldInv, Agreed, ThreadsAgree, PreflightJournal, At, IntentCaptured, NativeType
<1>1. \/ records' = [records EXCEPT ![o] = r] /\ producer' = m /\ Goes(o, <<"preflight", "call">>)
      \/ UNCHANGED <<records, producer>> /\ Goes(o, <<"done", "clean">>)
  BY DEF PreflightJournal, Write, Stored, StoreFailed, Goes, Goto, Clean, producerVars
<1>2. CASE UNCHANGED <<records, producer>> /\ Goes(o, <<"done", "clean">>)
  BY <1>0, <1>2, FailedWriteKeeps
<1>3. CASE records' = [records EXCEPT ![o] = r] /\ producer' = m /\ Goes(o, <<"preflight", "call">>)
  <2>1. t \in Place /\ ~SourceOperation(o) /\ ~Exists(o)
    BY <1>0, HoldTypes DEF CmdType, ThreadAgrees, Inv, Placed, Unjournaled
  <2>2. r \in Record
    BY <2>1, NoRecordTyped DEF Record, Stage, Place
  <2>3. /\ r.stage # "none" /\ r.native = 0 /\ r.retained = 0 /\ r.prior = 0 /\ r.target = t
    BY DEF NoRecord
  <2> HIDE DEF r, t
  <2>4. producer'.live = producer.live \cup {o} /\ producer'.active = producer.active /\ producer'.retained = producer.retained
    BY <1>0, <1>3, HoldTypes DEF ProducerType
  <2>5. RecordsAgree'
    <3>1. \A u \in Targets : HoldFor(producer'.retained[u].native, u) /\ producer'.retained[u].native \in OpOrNone
      BY <1>0, <2>4, HoldTypes DEF RecordsAgree, ProducerType
    <3> QED BY <1>0, <1>3, <2>1, <2>2, <2>3, <2>4, <3>1, RecordsRewritten DEF HoldFor
  <2>6. \A p \in Op : p # o => records'[p] = records[p]
    BY <1>0, <1>3, HoldTypes
  <2>7. LiveStep(o)
    BY <1>0, <2>1, <2>4, <2>6 DEF LiveStep, Starting, Exists
  <2>8. RevokedKept
    BY <1>0, <2>1, <2>6 DEF RevokedKept, Inv, Sealed
  <2>9. pc'[o] = <<"preflight", "call">> /\ records'[o] = r /\ SourceOperation(o)' = SourceOperation(o)
    BY <1>0, <1>3, HoldTypes DEF Goes, PCType, SourceOperation
  <2>10. ThreadAgrees(o)'
    BY <1>0, <2>1, <2>3, <2>4, <2>9 DEF ThreadAgrees, Reserved, t
  <2>11. Early(o)
    BY <1>0 DEF Early, EarlyAt
  <2> QED BY <1>0, <1>3, <2>5, <2>7, <2>8, <2>10, <2>11, BindingKeeps
<1> QED BY <1>1, <1>2, <1>3

LEMMA ReserveJournalKeeps ==
  ASSUME HoldInv, Inv', NEW o \in Op, ReserveJournal(o), UNCHANGED play
  PROVE  HoldInv'
<1> DEFINE r == Reservation(o)
           a == producer.active
           m == [producer EXCEPT !.live = @ \cup {o}]
<1>0. /\ Inv /\ RecordsAgree /\ ThreadAgrees(o) /\ pc[o] = <<"reserve", "journal">>
      /\ UNCHANGED <<native, sender, cmd, play>>
  BY HoldTypes DEF HoldInv, Agreed, ThreadsAgree, ReserveJournal, At, peerVars
<1>1. \/ MayReserve(o) /\ records' = [records EXCEPT ![o] = r] /\ producer' = m /\ Goes(o, <<"native", "call">>)
      \/ UNCHANGED <<records, producer>> /\ Goes(o, <<"done", "unknown">>)
  BY DEF ReserveJournal, Write, Stored, StoreFailed, Goes, Goto, Unknown, producerVars
<1>2. CASE UNCHANGED <<records, producer>> /\ Goes(o, <<"done", "unknown">>)
  BY <1>0, <1>2, FailedWriteKeeps
<1>3. CASE MayReserve(o) /\ records' = [records EXCEPT ![o] = r] /\ producer' = m /\ Goes(o, <<"native", "call">>)
  <2> DEFINE base == IF SourceOperation(o)
                     THEN [NoRecord EXCEPT !.target = cmd[o].target, !.peer = records[a].peer,
                                           !.epoch = records[a].epoch]
                     ELSE records[o]
             kept == producer.retained[cmd[o].target]
             n == IF kept.native # 0 /\ kept.epoch = base.epoch THEN kept.native ELSE 0
  <2>1. /\ cmd[o].target \in Targets /\ records[o] \in Record /\ a \in OpOrNone
        /\ a # 0 => a \in producer.live /\ a \in Op /\ Exists(a)
    BY <1>0, HoldTypes, LiveExists DEF Inv, Placed, ProducerType, RecordsAgree
  <2>2. /\ SourceOperation(o) => ~Exists(o) /\ a # 0 /\ records[a].target = cmd[o].target
        /\ ~SourceOperation(o) => o \in producer.live /\ Exists(o) /\ records[o].target = cmd[o].target
    BY <1>0, <1>3, LiveExists DEF MayReserve, ThreadAgrees, Recorded
  <2>3. base \in Record /\ base.target = cmd[o].target /\ HoldFor(base.native, cmd[o].target)
        /\ (~SourceOperation(o) => base = records[o])
    <3>1. CASE SourceOperation(o)
      <4>1. records[a] \in Record
        BY <1>0, <2>1, <2>2, <3>1, HoldTypes
      <4>2. base \in Record /\ base.target = cmd[o].target
        <5>1. base = [NoRecord EXCEPT !.target = cmd[o].target, !.peer = records[a].peer, !.epoch = records[a].epoch]
          BY <3>1
        <5>2. cmd[o].target \in Targets \cup {NoTarget} /\ records[a].peer \in OpOrNone /\ records[a].epoch \in 0 .. MaxOps
          BY <2>1, <4>1 DEF Record
        <5> QED BY <5>1, <5>2, NoRecordTyped DEF Record
      <4>3. base.native = 0
        BY <3>1 DEF NoRecord
      <4> QED BY <3>1, <4>2, <4>3 DEF HoldFor
    <3>2. CASE ~SourceOperation(o)
      <4>1. RecordAgrees(o)
        BY <1>0, <2>2, <3>2 DEF RecordsAgree
      <4> QED BY <2>1, <2>2, <3>2, <4>1 DEF RecordAgrees
    <3> QED BY <3>1, <3>2
  <2>4. n \in OpOrNone /\ HoldFor(n, cmd[o].target)
    <3>1. kept.native \in OpOrNone /\ HoldFor(kept.native, cmd[o].target) /\ 0 \in OpOrNone
      BY <1>0, <2>1, HoldTypes, OpBasic DEF ProducerType, RecordsAgree
    <3> QED BY <3>1 DEF HoldFor
  <2>5. r = [base EXCEPT !.stage = "native-reserve-attempted", !.prior = a, !.retained = n]
    BY Zenon DEF Reservation
  <2> HIDE DEF base, kept, n
  <2>6. r \in Record
    <3>1. "native-reserve-attempted" \in Stage
      BY DEF Stage
    <3> QED BY <2>1, <2>3, <2>4, <2>5, <3>1 DEF Record
  <2>7. /\ r.stage # "none" /\ r.prior = a /\ r.retained = n /\ r.target = cmd[o].target
        /\ r.native = base.native
    BY <2>3, <2>5 DEF Record
  <2> HIDE DEF r, a
  <2>8. producer'.live = producer.live \cup {o} /\ producer'.active = producer.active /\ producer'.retained = producer.retained
    BY <1>0, <1>3, HoldTypes DEF ProducerType
  <2>9. RecordsAgree'
    <3>1. \A u \in Targets : HoldFor(producer'.retained[u].native, u) /\ producer'.retained[u].native \in OpOrNone
      BY <1>0, <2>8, HoldTypes DEF RecordsAgree, ProducerType
    <3>2. HoldFor(r.native, r.target) /\ HoldFor(r.retained, r.target) /\ (r.prior # 0 => r.prior \in producer.live)
      BY <2>1, <2>3, <2>4, <2>7
    <3>3. Exists(o) => r.target = records[o].target
      BY <2>2, <2>7
    <3> QED BY <1>0, <1>3, <2>6, <2>7, <2>8, <3>1, <3>2, <3>3, RecordsRewritten
  <2>10. /\ records'[o] = r
         /\ \A p \in Op : p # o => records'[p] = records[p]
         /\ pc'[o] = <<"native", "call">> /\ SourceOperation(o)' = SourceOperation(o)
    BY <1>0, <1>3, HoldTypes DEF Goes, PCType, SourceOperation
  <2>11. LiveStep(o)
    BY <1>0, <2>2, <2>7, <2>8, <2>10 DEF LiveStep, Starting, Exists
  <2>12. RevokedKept
    <3>1. records[o].preempted => r.preempted /\ r.native = records[o].native
      <4>1. records[o].preempted => ~SourceOperation(o)
        BY <1>0, <2>2 DEF Inv, Sealed
      <4>2. r.preempted = base.preempted
        BY <2>3, <2>5 DEF Record
      <4> QED BY <2>3, <2>7, <4>1, <4>2
    <3> QED BY <2>10, <3>1 DEF RevokedKept
  <2>13. ThreadAgrees(o)'
    <3>1. SourceOperation(o) => a \in producer'.live /\ records'[a].target = cmd[o].target
      BY <2>1, <2>2, <2>8, <2>10
    <3> QED BY <1>0, <2>7, <2>8, <2>10, <3>1 DEF ThreadAgrees
  <2>14. Early(o)
    BY <1>0 DEF Early, EarlyAt
  <2> QED BY <1>0, <1>3, <2>9, <2>11, <2>12, <2>13, <2>14, BindingKeeps
<1> QED BY <1>1, <1>2, <1>3

\* The hold an operation is bound to is one of its receiver.
LEMMA ReusedFits ==
  ASSUME Inv, RecordsAgree, ThreadsAgree, NEW o \in Op, pc[o][1] \in Reserved, Reused(o) # 0
  PROVE  Reused(o) \in Op /\ HoldFor(Reused(o), records[o].target)
<1>1. /\ o \in producer.live /\ RecordAgrees(o) /\ records[o] \in Record
      /\ SourceOperation(o) => records[o].prior \in producer.live /\ records[records[o].prior].target = records[o].target
  BY HoldTypes DEF ThreadsAgree, ThreadAgrees, Recorded, RecordsAgree
<1>2. ASSUME records[o].prior \in producer.live, records[records[o].prior].target = records[o].target
      PROVE  HoldFor(records[records[o].prior].native, records[o].target) /\ records[records[o].prior].native \in OpOrNone
  <2>1. RecordAgrees(records[o].prior) /\ records[records[o].prior] \in Record
    BY <1>2, LiveExists, HoldTypes DEF RecordsAgree
  <2> QED BY <1>2, <2>1 DEF RecordAgrees, Record
<1>3. SameTarget(records[o]) => records[o].prior \in producer.live /\ records[records[o].prior].target = records[o].target
  BY <1>1 DEF SameTarget, RecordAgrees
<1>4. HoldFor(records[o].retained, records[o].target) /\ records[o].retained \in OpOrNone
  BY <1>1 DEF RecordAgrees, Record
<1>5. CASE SourceOperation(o)
  <2>1. Reused(o) = records[records[o].prior].native
    BY <1>5 DEF Reused
  <2> QED BY <1>1, <1>2, <1>5, <2>1, OpBasic
<1>6. CASE ~SourceOperation(o)
  <2>1. \/ Reused(o) = records[o].retained
        \/ SameTarget(records[o]) /\ Reused(o) = records[records[o].prior].native
    BY <1>6 DEF Reused
  <2> QED BY <1>2, <1>3, <1>4, <2>1, OpBasic
<1> QED BY <1>5, <1>6

LEMMA NativeRecordKeeps ==
  ASSUME HoldInv, Inv', NEW o \in Op, NativeRecord(o), UNCHANGED play
  PROVE  HoldInv'
<1> DEFINE h == IF Reused(o) # 0 THEN Reused(o) ELSE o
           r == [records[o] EXCEPT !.native = h, !.stage = "sender-reserve-attempted"]
<1>0. /\ Inv /\ RecordsAgree /\ ThreadsAgree /\ ThreadAgrees(o) /\ pc[o] = <<"native", "record">>
      /\ UNCHANGED <<native, sender, cmd, play>>
  BY HoldTypes DEF HoldInv, Agreed, ThreadsAgree, NativeRecord, At, peerVars
<1>1. \/ ~Fenced(o) /\ records' = [records EXCEPT ![o] = r] /\ producer' = producer /\ Goes(o, <<"sender", "call">>)
      \/ UNCHANGED <<records, producer>> /\ Goes(o, <<"done", "unknown">>)
  BY DEF NativeRecord, Write, Stored, StoreFailed, Goes, Goto, Unknown, producerVars
<1>2. CASE UNCHANGED <<records, producer>> /\ Goes(o, <<"done", "unknown">>)
  BY <1>0, <1>2, FailedWriteKeeps
<1>3. CASE ~Fenced(o) /\ records' = [records EXCEPT ![o] = r] /\ producer' = producer /\ Goes(o, <<"sender", "call">>)
  <2>1. /\ records[o] \in Record /\ o \in producer.live /\ Exists(o) /\ RecordAgrees(o) /\ "native" \in Reserved
        /\ pc[o][1] \in Reserved
    BY <1>0, HoldTypes, LiveExists DEF ThreadAgrees, Recorded, Reserved, RecordsAgree
  <2>2. h \in OpOrNone /\ (HoldFor(h, records[o].target) \/ h = o)
    <3>1. Reused(o) # 0 => Reused(o) \in Op /\ HoldFor(Reused(o), records[o].target)
      BY <1>0, <2>1, ReusedFits
    <3> QED BY <3>1, OpBasic
  <2> HIDE DEF h
  <2>3. r \in Record
    <3>1. "sender-reserve-attempted" \in Stage
      BY DEF Stage
    <3> QED BY <2>1, <2>2, <3>1 DEF Record
  <2>4. /\ r.stage # "none" /\ r.native = h /\ r.target = records[o].target /\ r.retained = records[o].retained
        /\ r.prior = records[o].prior /\ r.sender = records[o].sender
    BY <2>1 DEF Record
  <2> HIDE DEF r
  <2>5. producer'.live = producer.live \cup {o}
    BY <1>3, <2>1
  <2>6. RecordsAgree'
    <3>1. \A u \in Targets : HoldFor(producer'.retained[u].native, u) /\ producer'.retained[u].native \in OpOrNone
      BY <1>0, <1>3, HoldTypes DEF RecordsAgree, ProducerType
    <3>2. /\ HoldFor(r.native, r.target) \/ r.native = o
          /\ HoldFor(r.retained, r.target)
          /\ r.prior # 0 => r.prior \in producer.live
      BY <2>1, <2>2, <2>4 DEF RecordAgrees
    <3> QED BY <1>0, <1>3, <2>3, <2>4, <2>5, <3>1, <3>2, RecordsRewritten
  <2>7. /\ records'[o] = r
        /\ \A p \in Op : p # o => records'[p] = records[p]
        /\ pc'[o] = <<"sender", "call">> /\ SourceOperation(o)' = SourceOperation(o)
    BY <1>0, <1>3, HoldTypes DEF Goes, PCType, SourceOperation
  <2>8. LiveStep(o)
    BY <1>0, <1>3, <2>4, <2>7 DEF LiveStep, Starting, Exists
  <2>9. RevokedKept
    BY <1>3, <2>7 DEF RevokedKept, Fenced
  <2>10. ThreadAgrees(o)'
    <3>1. \A q \in producer.live : q \in producer'.live /\ records'[q].target = records[q].target
      BY <1>0, <2>4, <2>5, <2>7, LiveExists
    <3> QED BY <1>0, <2>1, <2>4, <2>5, <2>7, <3>1 DEF ThreadAgrees, Recorded
  <2>11. ~EarlyAt(<<"sender", "call">>)
    BY DEF EarlyAt
  <2> QED BY <1>0, <1>3, <2>6, <2>8, <2>9, <2>10, <2>11, BindingKeeps
<1> QED BY <1>1, <1>2, <1>3

LEMMA SenderRecordKeeps ==
  ASSUME HoldInv, Inv', NEW o \in Op, SenderRecord(o), UNCHANGED play
  PROVE  HoldInv'
<1> DEFINE source == IF SourceOperation(o) THEN records[records[o].prior].sender ELSE o
           r == [records[o] EXCEPT !.sender = source, !.stage = "reserved"]
           m == [producer EXCEPT !.retained[records[o].target] = [native |-> records[o].native, epoch |-> records[o].epoch]]
<1>0. /\ Inv /\ RecordsAgree /\ ThreadsAgree /\ ThreadAgrees(o) /\ pc[o] = <<"sender", "record">>
      /\ UNCHANGED <<native, sender, cmd, play>>
  BY HoldTypes DEF HoldInv, Agreed, ThreadsAgree, SenderRecord, At, peerVars
<1>1. \/ ~Fenced(o) /\ records' = [records EXCEPT ![o] = r] /\ producer' = m /\ Goes(o, <<"fence", "set">>)
      \/ UNCHANGED <<records, producer>> /\ Goes(o, <<"done", "unknown">>)
  BY DEF SenderRecord, Write, Stored, StoreFailed, Goes, Goto, Unknown, producerVars
<1>2. CASE UNCHANGED <<records, producer>> /\ Goes(o, <<"done", "unknown">>)
  BY <1>0, <1>2, FailedWriteKeeps
<1>3. CASE ~Fenced(o) /\ records' = [records EXCEPT ![o] = r] /\ producer' = m /\ Goes(o, <<"fence", "set">>)
  <2>1. /\ records[o] \in Record /\ o \in producer.live /\ Exists(o) /\ RecordAgrees(o)
        /\ pc[o][1] \in Reserved /\ records[o].native \in OpOrNone
    BY <1>0, HoldTypes, LiveExists DEF ThreadAgrees, Recorded, Reserved, RecordsAgree, Record
  <2>2. source \in OpOrNone
    <3>1. SourceOperation(o) => records[records[o].prior] \in Record
      BY <1>0, <2>1, LiveExists, HoldTypes DEF ThreadAgrees
    <3> QED BY <3>1, OpBasic DEF Record
  <2>3. ~SourceOperation(o) => source = o
    OBVIOUS
  <2> HIDE DEF source
  <2>4. r \in Record
    <3>1. "reserved" \in Stage
      BY DEF Stage
    <3> QED BY <2>1, <2>2, <3>1 DEF Record
  <2>5. /\ r.stage # "none" /\ r.native = records[o].native /\ r.target = records[o].target
        /\ r.retained = records[o].retained /\ r.prior = records[o].prior /\ r.sender = source
    BY <2>1 DEF Record
  <2>6. /\ producer'.live = producer.live \cup {o} /\ producer'.active = producer.active
        /\ \A u \in Targets : \/ producer'.retained[u] = producer.retained[u]
                              \/ u = records[o].target /\ producer'.retained[u].native = records[o].native
    BY <1>0, <1>3, <2>1, HoldTypes DEF ProducerType
  <2> HIDE DEF r, m
  <2>7. RecordsAgree'
    <3>1. \A u \in Targets : HoldFor(producer'.retained[u].native, u) /\ producer'.retained[u].native \in OpOrNone
      BY <1>0, <2>1, <2>6, HoldTypes DEF RecordsAgree, RecordAgrees, ProducerType
    <3>2. /\ HoldFor(r.native, r.target)
          /\ HoldFor(r.retained, r.target)
          /\ r.prior # 0 => r.prior \in producer.live
      BY <2>1, <2>5 DEF RecordAgrees
    <3> QED BY <1>0, <1>3, <2>4, <2>5, <2>6, <3>1, <3>2, RecordsRewritten
  <2>8. /\ records'[o] = r
        /\ \A p \in Op : p # o => records'[p] = records[p]
        /\ pc'[o] = <<"fence", "set">> /\ SourceOperation(o)' = SourceOperation(o)
    BY <1>0, <1>3, HoldTypes DEF Goes, PCType, SourceOperation
  <2>9. LiveStep(o)
    BY <1>0, <2>5, <2>6, <2>8 DEF LiveStep, Starting, Exists
  <2>10. RevokedKept
    BY <1>3, <2>8 DEF RevokedKept, Fenced
  <2>11. ThreadAgrees(o)'
    <3>1. \A q \in producer.live : q \in producer'.live /\ records'[q].target = records[q].target
      BY <1>0, <2>5, <2>6, <2>8, LiveExists
    <3> QED BY <1>0, <2>1, <2>3, <2>5, <2>6, <2>8, <3>1 DEF ThreadAgrees, Recorded
  <2>12. ~EarlyAt(<<"fence", "set">>)
    BY DEF EarlyAt
  <2> QED BY <1>0, <1>3, <2>7, <2>9, <2>10, <2>11, <2>12, BindingKeeps
<1> QED BY <1>1, <1>2, <1>3

-----------------------------------------------------------------------------
(* Calls to Native *)

LEMMA ReadCalm ==
  ASSUME Inv, HoldsAgree, NEW h \in Op, native' \in {native, ResultRead(h)}
  PROVE  /\ HoldsCalm /\ NativeCalm
         /\ \A k \in Op : native'.phase[k] = "rejected" => native.phase[k] = "rejected"
<1>1. CASE native' = native
  BY <1>1, NativeStays
<1>2. CASE native' = ResultRead(h) /\ native' # native
  <2>1. /\ native'.hold = native.hold /\ native'.parked = native.parked /\ native.phase[h] = "unknown"
        /\ \A k \in Op : k # h => native'.phase[k] = native.phase[k]
        /\ native'.phase[h] = IF h \in native.parked THEN "suspended" ELSE "prepared"
    BY <1>2, HoldTypes DEF ResultRead, NativeType
  <2>2. HoldsCalm
    BY <2>1 DEF HoldsCalm, ActivePhase
  <2>3. NativeCalm
    BY <2>1 DEF NativeCalm
  <2> QED BY <2>1, <2>2, <2>3
<1> QED BY <1>1, <1>2

LEMMA SuspendCalm ==
  ASSUME Inv, HoldsAgree, NEW h \in Op, native.phase[h] = "prepared", native' \in {native, Suspend(h)} \cup SuspendUncertain(h)
  PROVE  /\ HoldsCalm /\ NativeCalm
         /\ \A k \in Op : native'.phase[k] = "rejected" => native.phase[k] = "rejected"
<1>1. CASE native' = native
  BY <1>1, NativeStays
<1>2. CASE native' \in {Suspend(h)} \cup SuspendUncertain(h)
  <2>1. /\ native'.hold = native.hold /\ native'.parked \in {native.parked, native.parked \cup {h}}
        /\ \A k \in Op : k # h => native'.phase[k] = native.phase[k]
        /\ \/ native'.phase[h] = "suspended" /\ h \in native'.parked
           \/ native'.phase[h] = "unknown"
    <3>1. CASE native' = Suspend(h)
      BY <3>1, HoldTypes DEF Suspend, NativeType
    <3>2. CASE native' \in SuspendUncertain(h)
      <4>1. PICK q \in {native.parked, native.parked \cup {h}} :
              native' = [native EXCEPT !.phase[h] = "unknown", !.parked = q]
        BY <3>2, Zenon DEF SuspendUncertain
      <4> QED BY <4>1, HoldTypes DEF NativeType
    <3> QED BY <1>2, <3>1, <3>2
  <2>2. HoldsCalm
    BY <2>1 DEF HoldsCalm, ActivePhase
  <2>3. NativeCalm
    BY <2>1 DEF NativeCalm
  <2> QED BY <2>1, <2>2, <2>3
<1> QED BY <1>1, <1>2

LEMMA RejectedCalm ==
  ASSUME Inv, NEW o \in Op, native.phase[o] = "none", native' \in {native, Rejected(o)}
  PROVE  /\ HoldsCalm /\ NativeCalm
         /\ \A k \in Op : native'.phase[k] = "rejected" => native.phase[k] = "rejected" \/ k = o
<1>1. CASE native' = native
  BY <1>1, NativeStays
<1>2. CASE native' = Rejected(o)
  <2>1. /\ native'.hold = native.hold /\ native'.parked = native.parked
        /\ \A k \in Op : k # o => native'.phase[k] = native.phase[k]
        /\ native'.phase[o] = "rejected"
    BY <1>2, HoldTypes DEF Rejected, NativeType
  <2>2. HoldsCalm
    BY <2>1 DEF HoldsCalm
  <2>3. NativeCalm
    BY <2>1 DEF NativeCalm
  <2> QED BY <2>1, <2>2, <2>3
<1> QED BY <1>1, <1>2

LEMMA Gathered ==
  ASSUME HoldInv, Inv', RecordsAgree', ThreadsAgree', HoldsAgree', NEW o, LiveStep(o), NativeCalm,
         SourcesCalm, SoundsCalm, StartsCalm, PlayCalm, Keyed'
  PROVE  HoldInv'
<1>1. SourcesAgree'
  BY SourcesStay DEF HoldInv, Agreed
<1>2. PlayAgrees'
  BY PlayKept DEF HoldInv, Agreed, PlayCalm
<1>3. ReadyToSound' /\ Drained' /\ SoundsParked'
  BY CalmSounds
<1> QED BY <1>1, <1>2, <1>3 DEF HoldInv, Agreed

\* A new hold is made on a receiver that has none.
LEMMA HeldKeeps ==
  ASSUME HoldInv, Inv', NEW o \in Op, pc[o] = <<"native", "call">>,
         NEW x \in {<<"native", "record">>, <<"done", "unknown">>}, Goes(o, x),
         native' = Held(o, cmd[o].target), native.hold[cmd[o].target] = 0,
         UNCHANGED <<sender, producerVars, cmd, play>>
  PROVE  HoldInv'
<1> DEFINE t == cmd[o].target
<1>0. Inv /\ RecordsAgree /\ ThreadsAgree /\ ThreadAgrees(o) /\ HoldsAgree /\ PlayAgrees
  BY DEF HoldInv, Agreed, ThreadsAgree
<1>1. t \in Targets /\ o \in producer.live /\ Exists(o) /\ records[o].target = t /\ o # 0
  BY <1>0, LiveExists, HoldTypes DEF ThreadAgrees, Recorded, Reserved, Inv, Placed
<1>2. /\ native'.parked = native.parked /\ native'.hold[t] = o /\ native'.phase[o] = "prepared"
      /\ \A u \in Targets : u # t => native'.hold[u] = native.hold[u]
      /\ \A h \in Op : h # o => native'.phase[h] = native.phase[h]
      /\ \A u \in Targets : native.hold[u] \in OpOrNone
  BY <1>0, <1>1, HoldTypes DEF Held, NativeType
<1>3. native.phase[o] = "none" /\ native.hold[t] = 0
  BY <1>0 DEF HoldsAgree, Early, EarlyAt
<1> HIDE DEF t
<1>4. \A u \in Targets : native.hold[u] # o
  BY <1>0, <1>1, <1>3 DEF HoldsAgree, ActivePhase
<1>5. pc'[o] = x /\ \A p \in Op \ {o} : pc'[p] = pc[p]
  BY <1>0, HoldTypes DEF Goes, PCType
<1>6. HoldsAgree'
  <2>1. ASSUME NEW u \in Targets, native'.hold[u] # 0
        PROVE  native'.phase[native'.hold[u]] \in ActivePhase \cup {"lost"}
    <3>1. CASE u = t
      BY <1>2, <3>1 DEF ActivePhase
    <3>2. CASE u # t
      <4>1. native'.hold[u] = native.hold[u] /\ native.hold[u] \in Op /\ native.hold[u] # o
        BY <1>2, <1>4, <2>1, <3>2, OpBasic
      <4>2. native.phase[native.hold[u]] \in ActivePhase \cup {"lost"}
        BY <1>0, <2>1, <4>1 DEF HoldsAgree
      <4> QED BY <1>2, <4>1, <4>2
    <3> QED BY <3>1, <3>2
  <2>2. \A u, v \in Targets : native'.hold[u] = native'.hold[v] /\ native'.hold[u] # 0 => u = v
    BY <1>0, <1>1, <1>2, <1>4 DEF HoldsAgree
  <2>3. \A h \in Op : native'.phase[h] \in ActivePhase =>
          Exists(h)' /\ records'[h].target \in Targets /\ native'.hold[records'[h].target] = h
    <3>1. SUFFICES ASSUME NEW h \in Op, native'.phase[h] \in ActivePhase
          PROVE Exists(h)' /\ records'[h].target \in Targets /\ native'.hold[records'[h].target] = h
      OBVIOUS
    <3>2. CASE h = o
      BY <1>1, <1>2, <3>2 DEF producerVars, Exists
    <3>3. CASE h # o
      <4>1. Exists(h) /\ records[h].target \in Targets /\ native.hold[records[h].target] = h /\ h # 0
        BY <1>0, <1>2, <3>1, <3>3, OpBasic DEF HoldsAgree
      <4> QED BY <1>2, <1>3, <4>1 DEF producerVars, Exists
    <3> QED BY <3>2, <3>3
  <2>4. \A h \in Op : native'.phase[h] = "suspended" => h \in native'.parked
    BY <1>0, <1>2 DEF HoldsAgree
  <2>5. \A p \in Op : Early(p)' => native'.phase[p] = "none"
    BY <1>0, <1>2, <1>5 DEF HoldsAgree, Early, EarlyAt
  <2> QED BY <2>1, <2>2, <2>3, <2>4, <2>5 DEF HoldsAgree
<1>7. NativeCalm
  BY <1>2, <1>3 DEF NativeCalm
<1>8. RecordsKept /\ Remembers /\ LiveStep(0) /\ RevokedKept
  BY NothingKept, KeptLives
<1>9. Leads(o, x)
  BY <1>0, LeadsOn DEF Reserved
<1>10. RecordsAgree' /\ ThreadsAgree'
  BY <1>0, <1>8, <1>9, RecordsStay, ThreadsStay DEF Goes
<1>11. StartsCalm /\ SourcesCalm /\ SoundsCalm
  <2>1. StartsCalm
    BY <1>5 DEF StartsCalm, Starting
  <2> QED BY <2>1, SenderStays
<1>12. PlayCalm /\ Keyed'
  <2>1. PlayCalm
    BY DEF PlayCalm
  <2> QED BY <1>0, <1>8, <2>1, KeyStays
<1> QED BY <1>6, <1>7, <1>8, <1>10, <1>11, <1>12, Gathered

LEMMA NativeReserveKeeps ==
  ASSUME HoldInv, Inv', NEW o \in Op, NativeReserve(o), UNCHANGED play
  PROVE  HoldInv'
<1> DEFINE h == Reused(o)
           t == cmd[o].target
<1>0. /\ Inv /\ RecordsAgree /\ ThreadsAgree /\ HoldsAgree /\ pc[o] = <<"native", "call">> /\ pc[o][1] \in Reserved
      /\ UNCHANGED <<sender, producerVars, cmd, play>>
  BY DEF HoldInv, Agreed, NativeReserve, At, Reserved
<1>1. native.phase[o] = "none"
  BY <1>0 DEF HoldsAgree, Early, EarlyAt
<1>2. RecordsKept /\ Remembers /\ SourcesCalm /\ SoundsCalm
  BY <1>0, NothingKept, SenderStays
<1>3. \A x \in {<<"native", "record">>, <<"cancel", "journal">>, <<"done", "unknown">>} :
        Leads(o, x) /\ ~EarlyAt(x) /\ x # <<"start", "call">>
  <2>1. Leads(o, <<"native", "record">>) /\ Leads(o, <<"done", "unknown">>)
    BY <1>0, LeadsOn
  <2>2. Leads(o, <<"cancel", "journal">>)
    BY <1>0 DEF Leads
  <2> QED BY <2>1, <2>2 DEF EarlyAt
<1>4. \/ native' = native /\ \E x \in {<<"native", "record">>, <<"done", "unknown">>} : Goes(o, x)
      \/ h # 0 /\ native' \in {native, ResultRead(h)} /\ \E x \in {<<"native", "record">>, <<"done", "unknown">>} : Goes(o, x)
      \/ /\ native.hold[t] = 0 /\ native' = Held(o, t)
         /\ \E x \in {<<"native", "record">>, <<"done", "unknown">>} : Goes(o, x)
      \/ native' \in {native, Rejected(o)} /\ \E x \in {<<"cancel", "journal">>, <<"done", "unknown">>} : Goes(o, x)
  BY DEF NativeReserve, NativeCall, Goto, Goes, Unknown, Reservable
<1>5. CASE native' = native /\ \E x \in {<<"native", "record">>, <<"done", "unknown">>} : Goes(o, x)
  BY <1>0, <1>2, <1>3, <1>5, JournalKeeps
<1>6. CASE h # 0 /\ native' \in {native, ResultRead(h)} /\ \E x \in {<<"native", "record">>, <<"done", "unknown">>} : Goes(o, x)
  <2>1. h \in Op
    BY <1>0, <1>6, ReusedFits
  <2> HIDE DEF h
  <2>2. /\ HoldsCalm /\ NativeCalm
        /\ \A k \in Op : native'.phase[k] = "rejected" => native.phase[k] = "rejected"
    BY <1>0, <1>6, <2>1, ReadCalm
  <2> QED BY <1>0, <1>2, <1>3, <1>6, <2>2, ThreadKeeps
<1>7. CASE /\ native.hold[t] = 0 /\ native' = Held(o, t)
           /\ \E x \in {<<"native", "record">>, <<"done", "unknown">>} : Goes(o, x)
  BY <1>0, <1>7, HeldKeeps
<1>8. CASE native' \in {native, Rejected(o)} /\ \E x \in {<<"cancel", "journal">>, <<"done", "unknown">>} : Goes(o, x)
  <2>1. /\ HoldsCalm /\ NativeCalm
        /\ \A k \in Op : native'.phase[k] = "rejected" => native.phase[k] = "rejected" \/ k = o
    BY <1>0, <1>1, <1>8, RejectedCalm
  <2> QED BY <1>0, <1>2, <1>3, <1>8, <2>1, ThreadKeeps
<1> QED BY <1>4, <1>5, <1>6, <1>7, <1>8

LEMMA SuspendKeeps ==
  ASSUME HoldInv, Inv', NEW o \in Op, SuspendRead(o) \/ SuspendCall(o), UNCHANGED play
  PROVE  HoldInv'
<1> DEFINE h == records[o].native
<1>0. /\ Inv /\ RecordsAgree /\ ThreadsAgree /\ HoldsAgree /\ ThreadAgrees(o) /\ pc[o][1] = "suspend"
      /\ UNCHANGED <<sender, producerVars, cmd, play>>
  <2>1. Inv /\ RecordsAgree /\ ThreadsAgree /\ HoldsAgree /\ ThreadAgrees(o)
    BY DEF HoldInv, Agreed, ThreadsAgree
  <2>2. pc[o][1] = "suspend"
    <3>1. pc[o] = <<"suspend", "read">> \/ pc[o] = <<"suspend", "call">>
      BY Zenon DEF SuspendRead, SuspendCall, At
    <3> QED BY <3>1
  <2>3. UNCHANGED <<sender, producerVars, cmd>>
    BY DEF SuspendRead, SuspendCall
  <2> QED BY <2>1, <2>2, <2>3
<1>1. h \in Op
  <2>1. h # 0 /\ records[o] \in Record
    BY <1>0, HoldTypes DEF Inv, Placed, Holding, Reserved
  <2> QED BY <2>1, OpBasic DEF Record
<1> HIDE DEF h
<1>2. RecordsKept /\ Remembers /\ SourcesCalm /\ SoundsCalm
  BY <1>0, NothingKept, SenderStays
<1>3. \A x \in {<<"suspend", "record">>, <<"suspend", "call">>, <<"done", "unknown">>} :
        Leads(o, x) /\ ~EarlyAt(x) /\ x # <<"start", "call">>
  <2>1. "suspend" \in Reserved
    BY DEF Reserved
  <2>2. /\ Leads(o, <<"suspend", "record">>) /\ Leads(o, <<"suspend", "call">>)
        /\ Leads(o, <<"done", "unknown">>)
    BY <1>0, <2>1, LeadsOn
  <2> QED BY <2>2 DEF EarlyAt
<1>4. \E x \in {<<"suspend", "record">>, <<"suspend", "call">>, <<"done", "unknown">>} : Goes(o, x)
  BY DEF SuspendRead, SuspendCall, NativeCall, Goto, Goes, Unknown
<1>5. /\ HoldsCalm /\ NativeCalm
      /\ \A k \in Op : native'.phase[k] = "rejected" => native.phase[k] = "rejected"
  <2>1. CASE SuspendRead(o)
    <3>1. native' \in {native, ResultRead(h)}
      BY <2>1 DEF SuspendRead, NativeCall, h
    <3> QED BY <1>0, <1>1, <3>1, ReadCalm
  <2>2. CASE SuspendCall(o)
    <3>1. \/ native.phase[h] = "prepared" /\ native' \in {native, Suspend(h)} \cup SuspendUncertain(h)
          \/ native' = native
      BY <2>2 DEF SuspendCall, NativeCall, Suspendable, h
    <3>2. CASE native' = native
      BY <1>0, <1>1, <3>2, ReadCalm
    <3> QED BY <1>0, <1>1, <3>1, <3>2, SuspendCalm
  <2> QED BY <2>1, <2>2
<1> QED BY <1>0, <1>2, <1>3, <1>4, <1>5, ThreadKeeps

\* A thread that is about to start its source has just read that its hold is parked.
LEMMA StartReadKeeps ==
  ASSUME HoldInv, Inv', NEW o \in Op, StartRead(o), UNCHANGED play
  PROVE  HoldInv'
<1> DEFINE h == records[o].native
<1>0. /\ Inv /\ RecordsAgree /\ ThreadsAgree /\ HoldsAgree /\ ThreadAgrees(o) /\ PlayAgrees /\ pc[o] = <<"start", "read">>
      /\ UNCHANGED <<sender, producerVars, cmd, play>>
  BY DEF HoldInv, Agreed, StartRead, At, ThreadsAgree
<1>1. /\ h \in Op /\ h # 0 /\ pc[o][1] \in Reserved /\ HoldFor(h, records[o].target) /\ Exists(o)
  <2>1. h # 0 /\ records[o] \in Record /\ pc[o][1] \in Reserved
    BY <1>0, HoldTypes DEF Inv, Placed, Holding, Reserved
  <2>2. o \in producer.live /\ RecordAgrees(o)
    BY <1>0, <2>1 DEF ThreadAgrees, Recorded, RecordsAgree
  <2> QED BY <2>1, <2>2, OpBasic DEF Record, RecordAgrees
<1>2. /\ native' \in {native, ResultRead(h)}
      /\ \/ Goes(o, <<"start", "call">>) /\ ReadsSuspended(h) /\ native' = ResultRead(h)
         \/ Goes(o, <<"done", "unknown">>)
  BY DEF StartRead, NativeCall, Goto, Goes, Unknown
<1>3. RecordsKept /\ Remembers /\ SourcesCalm /\ SoundsCalm
  BY <1>0, NothingKept, SenderStays
<1>4. /\ HoldsCalm /\ NativeCalm
      /\ \A k \in Op : native'.phase[k] = "rejected" => native.phase[k] = "rejected"
  BY <1>0, <1>1, <1>2, ReadCalm
<1>5. CASE Goes(o, <<"done", "unknown">>)
  <2>1. Leads(o, <<"done", "unknown">>) /\ ~EarlyAt(<<"done", "unknown">>)
    BY <1>0, LeadsOn DEF EarlyAt
  <2> QED BY <1>0, <1>3, <1>4, <1>5, <2>1, ThreadKeeps
<1>6. CASE Goes(o, <<"start", "call">>) /\ ReadsSuspended(h) /\ native' = ResultRead(h)
  <2> HIDE DEF h
  <2>1. Leads(o, <<"start", "call">>) /\ ~EarlyAt(<<"start", "call">>)
    BY <1>0, <1>1, LeadsOn DEF EarlyAt
  <2>2. pc'[o] = <<"start", "call">> /\ \A p \in Op \ {o} : pc'[p] = pc[p]
    BY <1>0, <1>6, HoldTypes DEF Goes, PCType
  <2>3. LiveStep(0) /\ RevokedKept
    BY <1>3, KeptLives
  <2>4. RecordsAgree' /\ ThreadsAgree'
    BY <1>0, <1>3, <1>6, <2>1, <2>3, RecordsStay, ThreadsStay DEF Goes
  <2>5. EarlyCalm
    <3>1. SUFFICES ASSUME NEW p \in Op, Early(p)' PROVE Early(p) /\ native'.phase[p] # "rejected"
      BY DEF EarlyCalm
    <3>2. Early(p)
      BY <2>1, <2>2, <3>1 DEF Early
    <3> QED BY <1>0, <1>4, <3>2 DEF HoldsAgree
  <2>6. HoldsAgree' /\ SourcesAgree'
    BY <1>0, <1>3, <1>4, <2>3, <2>5, HoldsStay, SourcesStay DEF HoldInv, Agreed
  <2>7. PlayCalm /\ PlayAgrees'
    <3>1. PlayCalm
      BY <1>0 DEF PlayCalm
    <3>2. Keyed'
      BY <1>0, <2>3, KeyStays
    <3> QED BY <1>0, <1>4, <3>1, <3>2, PlayKept DEF PlayCalm
  <2>8. native.phase[h] # "reacquiring" /\ h \in native.parked /\ native.hold[records[o].target] = h
    <3>1. native.phase[h] \in {"suspended", "unknown"} /\ h \in native.parked
      BY <1>0, <1>1, <1>6 DEF ReadsSuspended, HoldsAgree
    <3>2. records[h].target = records[o].target /\ native.hold[records[h].target] = h
      BY <1>0, <1>1, <3>1 DEF HoldFor, HoldsAgree, ActivePhase
    <3> QED BY <3>1, <3>2
  <2>9. \A p \in Op : MayStart(p)' => p = o \/ MayStart(p)
    BY <1>0, <2>2 DEF MayStart, Starting
  <2>10. /\ records' = records /\ native'.hold = native.hold /\ native.parked \subseteq native'.parked /\ sender' = sender
         /\ play' = play
    BY <1>0, <1>4 DEF producerVars, HoldsCalm
  <2>11. ReadyToSound'
    <3>1. SUFFICES ASSUME NEW p \in Op, MayStart(p)'
          PROVE records'[p].native \in native'.parked /\ native'.hold[records'[p].target] = records'[p].native
      BY DEF ReadyToSound
    <3>2. CASE p = o
      BY <2>8, <2>10, <3>2 DEF h
    <3>3. CASE MayStart(p)
      BY <2>10, <3>3 DEF HoldInv, ReadyToSound
    <3> QED BY <2>9, <3>1, <3>2, <3>3
  <2>12. Drained'
    <3>1. SUFFICES ASSUME play'.step \in Signed, native'.phase[play'.hold] = "reacquiring"
          PROVE ~SoundsOn(play.target)' /\ \A p \in Op : MayStart(p)' => records'[p].native # play'.hold
      BY DEF Drained
    <3>2. play.step \in Signed /\ play.hold \in Op
      BY <1>0, <2>10, <3>1 DEF Signed, Inv, PlayPlaced
    <3>3. native.phase[play.hold] = "reacquiring"
      BY <1>4, <2>10, <3>1, <3>2 DEF NativeCalm
    <3>4. ~SoundsOn(play.target) /\ \A p \in Op : MayStart(p) => records[p].native # play.hold
      BY <3>2, <3>3 DEF HoldInv, Drained
    <3>5. ~SoundsOn(play.target)'
      BY <2>10, <3>4 DEF SoundsOn
    <3>6. records[o].native # play.hold
      BY <2>8, <3>3 DEF h
    <3> QED BY <2>9, <2>10, <3>4, <3>5, <3>6
  <2>13. SoundsParked'
    BY <1>3, <1>4, StillParked DEF HoldInv
  <2> QED BY <2>4, <2>6, <2>7, <2>11, <2>12, <2>13 DEF HoldInv, Agreed
<1> QED BY <1>2, <1>5, <1>6

-----------------------------------------------------------------------------
(* Calls to the sender *)

LEMMA SenderTypes ==
  ASSUME Inv
  PROVE  /\ sender \in SenderUpTo(Cardinality(Begun))
         /\ sender.main \in SourceUpTo(Cardinality(Begun)) /\ sender.cand \in SourceUpTo(Cardinality(Begun))
BY Readers DEF SenderUpTo

\* The sources are the ones there were, and no more of them sound or may be started.
LEMMA SameSources ==
  ASSUME sender'.main.src = sender.main.src, sender'.main.tgt = sender.main.tgt,
         sender'.cand.src = sender.cand.src, sender'.cand.tgt = sender.cand.tgt,
         Startable(sender'.main) => Startable(sender.main), Startable(sender'.cand) => Startable(sender.cand),
         sender'.main.phase \in {"starting", "playing"} => sender.main.phase \in {"starting", "playing"}
  PROVE  SourcesCalm /\ SoundsCalm
<1>1. Drawn(sender'.main) /\ Drawn(sender'.cand)
  BY DEF Drawn
<1> QED BY <1>1 DEF SourcesCalm, SoundsCalm, SoundsOn

LEMMA CancelledCalm ==
  ASSUME Inv, NEW src, sender' = CancelledSource(src)
  PROVE  SourcesCalm /\ SoundsCalm
<1>1. /\ sender'.main.src = sender.main.src /\ sender'.main.tgt = sender.main.tgt
      /\ sender'.cand.src = sender.cand.src /\ sender'.cand.tgt = sender.cand.tgt
      /\ sender'.main.phase \in {sender.main.phase, "cancelled"}
      /\ sender'.cand.phase \in {sender.cand.phase, "cancelled"}
  BY SenderTypes DEF CancelledSource, SenderUpTo, SourceUpTo
<1> QED BY <1>1, SameSources DEF Startable

LEMMA StoppedCalm ==
  ASSUME Inv, NEW o, sender' \in {Stopped(o), VolumeSet(o)}
  PROVE  SourcesCalm /\ SoundsCalm
<1>1. /\ sender'.main.src = sender.main.src /\ sender'.main.tgt = sender.main.tgt
      /\ sender'.cand = sender.cand /\ sender'.main.phase \in {sender.main.phase, "drained"}
  <2> DEFINE main == [sender.main EXCEPT !.phase = "drained", !.op = o]
  <2>1. main.src = sender.main.src /\ main.tgt = sender.main.tgt /\ main.phase = "drained"
    BY SenderTypes DEF SourceUpTo
  <2>2. {"main", "cand", "drains"} \subseteq DOMAIN sender
    BY SenderTypes DEF SenderUpTo
  <2>3. CASE sender' = Drain(sender, main)
    <3> HIDE DEF main
    <3>1. sender'.main = main /\ sender'.cand = sender.cand
      BY <2>2, <2>3 DEF Drain
    <3> QED BY <2>1, <3>1
  <2>4. CASE sender' = VolumeSet(o)
    BY <2>4, SenderTypes DEF VolumeSet, SenderUpTo, SourceUpTo
  <2> QED BY <2>3, <2>4 DEF Stopped
<1> QED BY <1>1, SameSources DEF Startable

LEMMA ChallengedCalm ==
  ASSUME Inv, NEW src, NEW t, NEW h, NEW i, sender' = Challenged(src, t, h, i)
  PROVE  /\ SourcesCalm /\ SoundsCalm
         /\ sender'.main.src = sender.main.src /\ sender'.main.tgt = sender.main.tgt
         /\ sender'.cand.src = sender.cand.src /\ sender'.cand.tgt = sender.cand.tgt
         /\ sender.main.src = src => sender'.main.phase = "drained"
         /\ sender.main.src # src => sender'.main = sender.main
         /\ sender.cand.tgt = t => ~Startable(sender'.cand)
<1> DEFINE cancelled == IF CandidatePresent /\ sender.cand.tgt = t
                        THEN [sender EXCEPT !.cand.phase = "cancelled"] ELSE sender
           signed == [cancelled EXCEPT !.signed = @ \cup {i}]
           main == [sender.main EXCEPT !.phase = "drained", !.hold = h, !.relinquished = TRUE]
<1>1. /\ cancelled.main = sender.main /\ cancelled.cand.src = sender.cand.src /\ cancelled.cand.tgt = sender.cand.tgt
      /\ cancelled.cand.phase \in {sender.cand.phase, "cancelled"}
      /\ sender.cand.tgt = t => ~Startable(cancelled.cand)
      /\ DOMAIN cancelled = DOMAIN sender
  BY SenderTypes DEF CandidatePresent, Startable, SenderUpTo, SourceUpTo
<1>2. signed.main = cancelled.main /\ signed.cand = cancelled.cand /\ DOMAIN signed = DOMAIN cancelled
  BY <1>1
<1>3. sender' = IF sender.main.src = src THEN Drain(signed, main) ELSE [signed EXCEPT !.drains[t].relinquished = TRUE]
  BY DEF Challenged
<1>4. main.src = sender.main.src /\ main.tgt = sender.main.tgt /\ main.phase = "drained"
  BY SenderTypes DEF SourceUpTo
<1>5. {"main", "cand", "drains"} \subseteq DOMAIN sender
  BY SenderTypes DEF SenderUpTo
<1> HIDE DEF cancelled, signed, main
<1>6. /\ sender.main.src = src => sender'.main = main
      /\ sender.main.src # src => sender'.main = sender.main
      /\ sender'.cand = cancelled.cand
  BY <1>1, <1>2, <1>3, <1>5 DEF Drain
<1>7. /\ sender'.main.src = sender.main.src /\ sender'.main.tgt = sender.main.tgt
      /\ sender'.main.phase \in {sender.main.phase, "drained"}
  BY <1>4, <1>6
<1>8. SourcesCalm /\ SoundsCalm
  BY <1>1, <1>6, <1>7, SameSources DEF Startable
<1> QED BY <1>1, <1>4, <1>6, <1>7, <1>8

\* A source that is prepared or bound is one of an operation that is not about to start it.
LEMMA BoundCalm ==
  ASSUME Inv, SourcesAgree, NEW o \in Op, NEW h, ~Starting(o), BindAccepted(o, h), sender' = Bound(o, h)
  PROVE  SourcesCalm /\ SoundsCalm
<1>1. \/ /\ sender.cand.src = o /\ sender'.main = sender.main
         /\ sender'.cand.src = o /\ sender'.cand.tgt = sender.cand.tgt
      \/ /\ sender.main.src = o /\ sender'.cand = sender.cand /\ sender'.main.phase = "bound"
         /\ sender'.main.src = o /\ sender'.main.tgt = sender.main.tgt
  BY SenderTypes DEF Bound, BindAccepted, SenderUpTo, SourceUpTo
<1>2. o # 0
  BY OpBasic
<1>3. Drawn(sender'.main) /\ Drawn(sender'.cand)
  BY <1>1, <1>2 DEF SourcesAgree, Own, Drawn
<1> QED BY <1>1, <1>3 DEF SourcesCalm, SoundsCalm, SoundsOn

LEMMA PreflightedCalm ==
  ASSUME Inv, NEW o \in Op, NEW t, NEW b, ~Starting(o), Exists(o), t = records[o].target,
         sender' = Preflighted(o, t, b)
  PROVE  SourcesCalm /\ SoundsCalm
<1>1. \/ sender'.main = sender.main /\ sender'.cand.src = o /\ sender'.cand.tgt = t
      \/ /\ sender'.main.src = o /\ sender'.main.tgt = t /\ sender'.main.phase = "prepared" /\ sender'.cand.src = 0
  BY SenderTypes DEF Preflighted, SenderUpTo, SourceUpTo, NoSource
<1>2. Drawn(sender'.main) /\ Drawn(sender'.cand)
  BY <1>1 DEF Drawn
<1> QED BY <1>1, <1>2 DEF SourcesCalm, SoundsCalm, SoundsOn

\* What is left to show of such a call.
LEMMA CallKeeps ==
  ASSUME HoldInv, Inv', NEW o \in Op, NEW x, Goes(o, x), Leads(o, x), x # <<"start", "call">>,
         EarlyAt(x) => Early(o), UNCHANGED <<native, producerVars, cmd, play>>, SourcesCalm, SoundsCalm
  PROVE  HoldInv'
<1>1. HoldsCalm /\ NativeCalm
  BY NativeStays
<1>2. RecordsKept /\ Remembers
  BY NothingKept
<1>3. Early(o) => native'.phase[o] # "rejected"
  BY DEF HoldInv, Agreed, HoldsAgree
<1> QED BY <1>1, <1>2, <1>3, ThreadKeeps

LEMMA PreflightCallKeeps ==
  ASSUME HoldInv, Inv', NEW o \in Op, PreflightCall(o), UNCHANGED play
  PROVE  HoldInv'
<1>1. pc[o] = <<"preflight", "call">> /\ UNCHANGED <<native, producerVars, cmd, play>>
  BY DEF PreflightCall, At
<1>2. PICK x \in {<<"preflight", "record">>, <<"preflight", "reject">>, <<"done", "clean">>} : Goes(o, x)
  BY DEF PreflightCall, SenderCall, Goto, Clean, Goes
<1>3. ThreadAgrees(o) /\ RecordsAgree /\ Inv
  BY DEF HoldInv, Agreed, ThreadsAgree
<1>4. o \in producer.live /\ Exists(o) /\ records[o].target = cmd[o].target /\ ~Starting(o) /\ Early(o)
  BY <1>1, <1>3, LiveExists DEF ThreadAgrees, Recorded, Starting, Early, EarlyAt
<1>5. Leads(o, x) /\ x # <<"start", "call">>
  BY <1>1, <1>2, <1>3 DEF Leads, Recorded, ThreadAgrees, Reserved
<1>6. sender' = sender \/ sender' = Preflighted(o, cmd[o].target, client.holds[cmd[o].target])
  BY DEF PreflightCall, SenderCall
<1>7. SourcesCalm /\ SoundsCalm
  BY <1>3, <1>4, <1>6, PreflightedCalm, SenderStays
<1> QED BY <1>1, <1>2, <1>4, <1>5, <1>7, CallKeeps

LEMMA SenderReserveKeeps ==
  ASSUME HoldInv, Inv', NEW o \in Op, SenderReserve(o), UNCHANGED play
  PROVE  HoldInv'
<1>1. pc[o] = <<"sender", "call">> /\ UNCHANGED <<native, producerVars, cmd, play>>
  BY DEF SenderReserve, At
<1>2. PICK x \in {<<"sender", "record">>, <<"done", "unknown">>} : Goes(o, x)
  BY DEF SenderReserve, SenderCall, Goto, Unknown, Goes
<1>3. Inv /\ SourcesAgree /\ ThreadsAgree /\ ~Starting(o)
  BY <1>1 DEF HoldInv, Agreed, Starting
<1>4. Leads(o, x) /\ x # <<"start", "call">> /\ ~EarlyAt(x)
  <2>1. Leads(o, x)
    BY <1>1, <1>2, <1>3, LeadsOn DEF Reserved
  <2> QED BY <1>2, <2>1 DEF EarlyAt
<1>5. sender' = sender \/ (BindAccepted(o, records[o].native) /\ sender' = Bound(o, records[o].native))
  BY DEF SenderReserve, SenderCall
<1>6. SourcesCalm /\ SoundsCalm
  BY <1>3, <1>5, BoundCalm, SenderStays
<1> QED BY <1>1, <1>2, <1>4, <1>6, CallKeeps

LEMMA EffectCallsKeep ==
  ASSUME HoldInv, Inv', NEW o \in Op, CancelCall(o) \/ StopCall(o) \/ VolumeCall(o), UNCHANGED play
  PROVE  HoldInv'
<1>1. PICK effect \in {"cancel", "stop", "volume"} :
        /\ pc[o] = <<effect, "call">> /\ UNCHANGED <<native, producerVars, cmd>>
        /\ Goes(o, <<effect, "record">>) \/ Goes(o, <<"done", "unknown">>)
  <2>1. CASE CancelCall(o)
    BY <2>1 DEF CancelCall, SenderCall, At, Goto, Unknown, Goes
  <2>2. CASE StopCall(o)
    BY <2>2 DEF StopCall, SenderCall, At, Goto, Unknown, Goes
  <2>3. CASE VolumeCall(o)
    BY <2>3 DEF VolumeCall, SenderCall, At, Goto, Unknown, Goes
  <2> QED BY <2>1, <2>2, <2>3
<1>2. sender' \in {sender, CancelledSource(o), Stopped(o), VolumeSet(o)}
  BY DEF CancelCall, StopCall, VolumeCall, SenderCall
<1>3. Inv /\ ThreadsAgree
  BY DEF HoldInv, Agreed
<1>4. SourcesCalm /\ SoundsCalm
  BY <1>2, <1>3, CancelledCalm, StoppedCalm, SenderStays
<1>5. PICK x \in {<<effect, "record">>, <<"done", "unknown">>} : Goes(o, x)
  BY <1>1
<1>6. Leads(o, x) /\ x # <<"start", "call">> /\ ~EarlyAt(x)
  <2>1. Leads(o, x)
    BY <1>1, <1>3, <1>5, LeadsOn DEF Reserved
  <2> QED BY <1>1, <1>5, <2>1 DEF EarlyAt
<1> QED BY <1>1, <1>4, <1>5, <1>6, CallKeeps

\* The source starts under the hold that was read to be parked, and no drain of it was signed.
LEMMA StartedCalm ==
  ASSUME HoldInv, NEW o \in Op, Starting(o), StartAccepted(records[o].sender, records[o].native),
         sender' = StartedSource(records[o].sender)
  PROVE  /\ SourcesCalm /\ MayStart(o)
         /\ \A u \in Targets : SoundsOn(u)' => u = records[o].target
<1>1. /\ Inv /\ SourcesAgree /\ records[o].sender = o /\ records[o].target \in Targets /\ o # 0
  BY StarterPlaced, OpBasic DEF HoldInv, Agreed
<1> DEFINE s == StateOf(o)
<1>2. s \in {sender.main, sender.cand} /\ s.src = o /\ s.phase = "bound"
  BY <1>1 DEF StartAccepted, StateOf
<1>3. s.tgt = records[o].target /\ MayStart(o)
  BY <1>1, <1>2 DEF SourcesAgree, Own, MayStart, Startable
<1>4. s \in SourceUpTo(Cardinality(Begun))
  BY <1>1, <1>2, SenderTypes
<1>5. sender' = [sender EXCEPT !.main = [s EXCEPT !.phase = "starting"],
                               !.cand = IF sender.cand.src = o THEN NoSource ELSE @]
  BY <1>1 DEF StartedSource
<1> HIDE DEF s
<1>6. /\ sender'.main.src = o /\ sender'.main.tgt = s.tgt /\ sender'.main.phase = "starting"
      /\ sender'.cand = NoSource \/ sender'.cand = sender.cand
  <2> DEFINE m == [s EXCEPT !.phase = "starting"]
             c == IF sender.cand.src = o THEN NoSource ELSE sender.cand
  <2>1. m.src = o /\ m.tgt = s.tgt /\ m.phase = "starting"
    BY <1>2, <1>4 DEF SourceUpTo
  <2>2. {"main", "cand"} \subseteq DOMAIN sender
    BY <1>1, SenderTypes DEF SenderUpTo
  <2>3. sender' = [sender EXCEPT !.main = m, !.cand = c]
    BY <1>5
  <2>4. c = NoSource \/ c = sender.cand
    OBVIOUS
  <2> HIDE DEF m, c
  <2> QED BY <2>1, <2>2, <2>3, <2>4
<1>7. Drawn(sender'.main)
  BY <1>2, <1>6 DEF Drawn, Startable
<1>8. Drawn(sender'.cand)
  BY <1>6 DEF Drawn, NoSource
<1> QED BY <1>3, <1>6, <1>7, <1>8 DEF SourcesCalm, SoundsOn

LEMMA StartCallKeeps ==
  ASSUME HoldInv, Inv', NEW o \in Op, StartCall(o), UNCHANGED play
  PROVE  HoldInv'
<1> DEFINE h == records[o].native
           t == records[o].target
<1>0. /\ Inv /\ RecordsAgree /\ ThreadsAgree /\ HoldsAgree /\ PlayAgrees /\ ReadyToSound /\ Drained
      /\ pc[o] = <<"start", "call">> /\ Starting(o) /\ UNCHANGED <<native, producerVars, cmd, play>>
  BY DEF HoldInv, Agreed, StartCall, At, Starting
<1>1. PICK x \in {<<"start", "record">>, <<"done", "unknown">>} : Goes(o, x)
  BY DEF StartCall, SenderCall, Goto, Unknown, Goes
<1>2. Leads(o, x) /\ x # <<"start", "call">> /\ ~EarlyAt(x)
  <2>1. Leads(o, x)
    BY <1>0, <1>1, LeadsOn DEF Reserved
  <2> QED BY <1>1, <2>1 DEF EarlyAt
<1>3. \/ sender' = sender
      \/ StartAccepted(records[o].sender, h) /\ sender' = StartedSource(records[o].sender)
  BY DEF StartCall, SenderCall
<1>4. CASE sender' = sender
  BY <1>0, <1>1, <1>2, <1>4, SenderStays, CallKeeps
<1>5. CASE StartAccepted(records[o].sender, h) /\ sender' = StartedSource(records[o].sender)
  <2>1. SourcesCalm /\ MayStart(o) /\ \A u \in Targets : SoundsOn(u)' => u = t
    BY <1>0, <1>5, StartedCalm
  <2>2. h \in native.parked /\ native.hold[t] = h /\ t \in Targets /\ h # 0
    BY <1>0, <2>1, StarterPlaced DEF ReadyToSound
  <2> HIDE DEF h, t
  <2>3. HoldsCalm /\ NativeCalm /\ RecordsKept /\ Remembers
    BY <1>0, NativeStays, NothingKept
  <2>4. LiveStep(0) /\ RevokedKept
    BY <2>3, KeptLives
  <2>5. RecordsAgree' /\ ThreadsAgree'
    BY <1>0, <1>1, <1>2, <2>3, <2>4, RecordsStay, ThreadsStay DEF Goes
  <2>6. pc'[o] = x /\ \A p \in Op \ {o} : pc'[p] = pc[p]
    BY <1>0, <1>1, HoldTypes DEF Goes, PCType
  <2>7. StartsCalm
    BY <1>2, <2>6 DEF StartsCalm, Starting
  <2>8. EarlyCalm
    <3>1. SUFFICES ASSUME NEW p \in Op, Early(p)' PROVE Early(p) /\ native'.phase[p] # "rejected"
      BY DEF EarlyCalm
    <3>2. Early(p)
      BY <1>2, <2>6, <3>1 DEF Early
    <3> QED BY <1>0, <3>2 DEF HoldsAgree
  <2>9. HoldsAgree' /\ SourcesAgree'
    BY <1>0, <2>1, <2>3, <2>4, <2>8, HoldsStay, SourcesStay DEF HoldInv, Agreed
  <2>10. PlayCalm /\ PlayAgrees'
    <3>1. PlayCalm
      BY <1>0 DEF PlayCalm
    <3>2. Keyed'
      BY <1>0, <2>4, KeyStays
    <3> QED BY <1>0, <2>3, <3>1, <3>2, PlayKept DEF PlayCalm
  <2>11. ReadyToSound'
    <3>1. SUFFICES ASSUME NEW p \in Op, MayStart(p)'
          PROVE records'[p].native \in native'.parked /\ native'.hold[records'[p].target] = records'[p].native
      BY DEF ReadyToSound
    <3>2. MayStart(p)
      BY <2>1, <2>7, <3>1, StartsStay
    <3> QED BY <2>3, <2>4, <3>2, StillReady
  <2>12. Drained'
    <3>1. SUFFICES ASSUME play'.step \in Signed, native'.phase[play'.hold] = "reacquiring"
          PROVE ~SoundsOn(play.target)' /\ \A p \in Op : MayStart(p)' => records'[p].native # play'.hold
      BY DEF Drained
    <3>2. /\ play.step \in Signed /\ play.step # "idle" /\ native.phase[play.hold] = "reacquiring" /\ play.target \in Targets
          /\ native.hold[play.target] = play.hold
      BY <1>0, <3>1 DEF Signed, PlayAgrees
    <3>3. h # play.hold
      BY <1>0, <2>1, <3>2 DEF Drained, h
    <3>4. ~SoundsOn(play.target)'
      <4>1. SUFFICES ASSUME SoundsOn(play.target)' PROVE FALSE
        OBVIOUS
      <4>2. play.target = t
        BY <1>0, <2>1, <3>2, <4>1 DEF SoundsOn
      <4> QED BY <2>2, <3>2, <3>3, <4>2
    <3>5. \A p \in Op : MayStart(p)' => records'[p].native # play'.hold
      BY <2>1, <2>3, <2>4, <2>7, <2>10, <3>1, <3>2, StartsStay, StillDrained
    <3> QED BY <3>4, <3>5
  <2>13. SoundsParked'
    BY <1>0, <2>1, <2>2 DEF SoundsParked
  <2> QED BY <2>5, <2>9, <2>10, <2>11, <2>12, <2>13 DEF HoldInv, Agreed
<1> QED BY <1>3, <1>4, <1>5

-----------------------------------------------------------------------------
(* The other steps of a thread *)

\* A step that only leads the thread on.
LEMMA ReadKeeps ==
  ASSUME HoldInv, Inv', NEW o \in Op, NEW x, Goes(o, x), Leads(o, x), x # <<"start", "call">>,
         EarlyAt(x) => Early(o), UNCHANGED <<native, sender, producerVars, cmd, play>>
  PROVE  HoldInv'
BY NothingKept, JournalKeeps

LEMMA FinishKeeps ==
  ASSUME HoldInv, Inv', NEW o \in Op, FinishWait(o) \/ FinishResult(o), UNCHANGED play
  PROVE  HoldInv'
<1>1. pc[o][1] = "finish" /\ UNCHANGED <<native, sender, producerVars, cmd, play>>
  BY DEF FinishWait, FinishResult, At, peerVars
<1>2. PICK x : Goes(o, x) /\ x[1] \in {"finish", "done"} /\ x # <<"start", "call">> /\ ~EarlyAt(x)
  <2>1. \/ Goes(o, <<"done", "unknown">>) \/ Goes(o, <<"finish", "wait">>) \/ Goes(o, <<"finish", "result">>)
        \/ Goes(o, <<"finish", ResultOf(o).state>>)
    BY DEF FinishWait, FinishResult, Goto, Unknown, Goes
  <2>2. \A y : <<"finish", y>>[1] = "finish" /\ <<"finish", y>> # <<"start", "call">> /\ ~EarlyAt(<<"finish", y>>)
    BY DEF EarlyAt
  <2>3. <<"done", "unknown">>[1] = "done" /\ <<"done", "unknown">> # <<"start", "call">> /\ ~EarlyAt(<<"done", "unknown">>)
    BY DEF EarlyAt
  <2> QED BY <2>1, <2>2, <2>3
<1>3. Leads(o, x)
  BY <1>1, <1>2, LeadsOn DEF HoldInv, Agreed, Reserved
<1> QED BY <1>1, <1>2, <1>3, ReadKeeps

LEMMA CoordinatorKeeps ==
  ASSUME HoldInv, Inv', NEW o \in Op, StillCurrent(o) \/ AdoptFence(o) \/ Complete(o)
  PROVE  HoldInv'
<1>1. UNCHANGED <<native, sender, producerVars, cmd, play>>
  BY DEF StillCurrent, AdoptFence, Complete, peerVars
<1>2. ThreadAgrees(o)
  BY DEF HoldInv, Agreed, ThreadsAgree
<1>3. CASE StillCurrent(o)
  <2>1. pc[o] = <<"reserve", "check">>
    BY <1>3 DEF StillCurrent, At
  <2>2. PICK x \in {<<"reserve", "journal">>, <<"done", "superseded">>} : Goes(o, x)
    BY <1>3 DEF StillCurrent, Goto, Goes
  <2>3. Leads(o, x) /\ x # <<"start", "call">> /\ Early(o)
    BY <2>1, <2>2 DEF Leads, Recorded, Reserved, Early, EarlyAt
  <2> QED BY <1>1, <2>2, <2>3, ReadKeeps
<1>4. CASE AdoptFence(o)
  <2>1. pc[o] = <<"fence", "set">> /\ Goes(o, <<Following(o, "fence"), "admit">>)
    BY <1>4 DEF AdoptFence, At, Proceed, Goto, Goes
  <2>2. \/ Following(o, "fence") = "volume" /\ cmd[o].kind = "volume"
        \/ Following(o, "fence") = "stop" /\ cmd[o].kind # "volume"
        \/ Following(o, "fence") = "suspend" /\ ~cmd[o].playing
    BY DEF Following
  <2>3. SourceOperation(o) => cmd[o].playing
    BY <1>2 DEF ThreadAgrees
  <2>4. Leads(o, <<Following(o, "fence"), "admit">>)
    BY <2>1, <2>2, <2>3 DEF Leads, Reserved
  <2>5. <<Following(o, "fence"), "admit">> # <<"start", "call">> /\ ~EarlyAt(<<Following(o, "fence"), "admit">>)
    BY <2>2 DEF EarlyAt
  <2> QED BY <1>1, <2>1, <2>4, <2>5, ReadKeeps
<1>5. CASE Complete(o)
  <2>1. Goes(o, <<"over", "none">>)
    BY <1>5 DEF Complete, Goes
  <2>2. Leads(o, <<"over", "none">>) /\ ~EarlyAt(<<"over", "none">>)
    BY DEF Leads, Reserved, EarlyAt
  <2> QED BY <1>1, <2>1, <2>2, ReadKeeps
<1> QED BY <1>3, <1>4, <1>5

LEMMA OperationHolds ==
  ASSUME HoldInv, Inv', NEW o \in Op, Operation(o)
  PROVE  HoldInv'
<1>1. CASE OperationStep(o) /\ UNCHANGED <<coordVars, play, poll>>
  <2>1. UNCHANGED play
    BY <1>1
  <2>2. CASE PreflightJournal(o) \/ PreflightCall(o) \/ PreflightRecord(o) \/ PreflightReject(o)
    BY <2>1, <2>2, PreflightJournalKeeps, PreflightCallKeeps, PreflightWritesKeep
  <2>3. CASE ReserveJournal(o) \/ NativeReserve(o) \/ NativeRecord(o)
    BY <2>1, <2>3, ReserveJournalKeeps, NativeReserveKeeps, NativeRecordKeeps
  <2>4. CASE SenderReserve(o) \/ SenderRecord(o)
    BY <2>1, <2>4, SenderReserveKeeps, SenderRecordKeeps
  <2>5. CASE CancelJournal(o) \/ CancelCall(o) \/ CancelRecord(o)
    BY <2>1, <2>5, CancelWritesKeep, EffectCallsKeep
  <2>6. CASE Admit(o) \/ Advance(o) \/ FinishRecord(o)
    BY <2>1, <2>6, EffectWritesKeep
  <2>7. CASE StopCall(o) \/ StopRecord(o) \/ VolumeCall(o)
    BY <2>1, <2>7, EffectCallsKeep, StopWritesKeep
  <2>8. CASE SuspendRead(o) \/ SuspendCall(o) \/ StartRead(o) \/ StartCall(o)
    BY <2>1, <2>8, SuspendKeeps, StartReadKeeps, StartCallKeeps
  <2>9. CASE FinishWait(o) \/ FinishResult(o)
    BY <2>1, <2>9, FinishKeeps
  <2> QED BY <1>1, <2>2, <2>3, <2>4, <2>5, <2>6, <2>7, <2>8, <2>9 DEF OperationStep
<1>2. CASE StillCurrent(o) \/ AdoptFence(o) \/ Complete(o)
  BY <1>2, CoordinatorKeeps
<1> QED BY <1>1, <1>2 DEF Operation

\* A new thread has journaled nothing yet, and a stop or volume is offered while the radio plays.
LEMMA ExecuteHolds ==
  ASSUME HoldInv, Inv', Execute
  PROVE  HoldInv'
<1>1. PICK kind \in Kinds, t \in Targets :
        /\ \E o \in Op : pc[o][1] = "idle"
        /\ Offered(kind, t)
        /\ cmd' = [cmd EXCEPT ![NextOp] = [kind |-> kind, target |-> t, from |-> coord.shown.target,
                                           playing |-> Playing(coord.shown), old |-> coord.shown]]
        /\ pc' = [pc EXCEPT ![NextOp] = IF kind \in {"start", "move"} THEN <<"preflight", "journal">>
                                        ELSE <<"reserve", "check">>]
        /\ UNCHANGED <<native, sender, producerVars, play>>
  BY DEF Execute, peerVars
<1>2. PICK o \in Op : o = NextOp /\ pc[o][1] = "idle"
  BY <1>1, NextOpIdle
<1> DEFINE c == [kind |-> kind, target |-> t, from |-> coord.shown.target,
                 playing |-> Playing(coord.shown), old |-> coord.shown]
           x == IF kind \in {"start", "move"} THEN <<"preflight", "journal">> ELSE <<"reserve", "check">>
<1>3. Inv /\ RecordsAgree /\ ThreadsAgree /\ HoldsAgree /\ PlayAgrees
  BY DEF HoldInv, Agreed
<1>4. /\ kind \in {"stop", "volume"} => c.playing
      /\ c.kind = kind /\ kind \in {"start", "move", "stop", "volume"}
      /\ kind \in {"start", "move"} => x = <<"preflight", "journal">>
      /\ kind \in {"stop", "volume"} => x = <<"reserve", "check">>
  BY <1>1, RadioAssumption DEF Offered
<1>5. cmd' = [cmd EXCEPT ![o] = c] /\ pc' = [pc EXCEPT ![o] = x]
  BY <1>1, <1>2
<1> HIDE DEF c, x
<1>6. /\ pc'[o] = x /\ cmd'[o] = c
      /\ \A p \in Op \ {o} : pc'[p] = pc[p] /\ cmd'[p] = cmd[p]
  BY <1>2, <1>3, <1>5, HoldTypes DEF PCType
<1>7. HoldsCalm /\ NativeCalm /\ SourcesCalm /\ SoundsCalm /\ RecordsKept /\ Remembers
  BY <1>1, NativeStays, SenderStays, NothingKept
<1>8. LiveStep(o) /\ RevokedKept
  BY <1>7, KeptLives
<1>9. RecordsAgree' /\ ThreadsAgree'
  <2>1. RecordsAgree'
    BY <1>3, <1>7, RecordsStay
  <2>2. \A p \in Op \ {o} : ThreadAgrees(p)'
    BY <1>3, <1>6, <1>8, OthersAgree
  <2>3. SourceOperation(o)' = (kind \in {"stop", "volume"})
    BY <1>4, <1>6 DEF SourceOperation
  <2>4. ThreadAgrees(o)'
    <3>1. CASE kind \in {"start", "move"}
      <4>1. pc'[o] = <<"preflight", "journal">> /\ ~SourceOperation(o)'
        BY <1>4, <1>6, <2>3, <3>1
      <4> QED BY <4>1 DEF ThreadAgrees, Recorded, Reserved
    <3>2. CASE kind \in {"stop", "volume"}
      <4>1. pc'[o] = <<"reserve", "check">> /\ SourceOperation(o)' /\ cmd'[o].playing
        BY <1>4, <1>6, <2>3, <3>2
      <4> QED BY <4>1 DEF ThreadAgrees, Recorded, Reserved
    <3> QED BY <1>4, <3>1, <3>2
  <2> QED BY <2>1, <2>2, <2>4 DEF ThreadsAgree
<1>10. StartsCalm
  BY <1>4, <1>6 DEF StartsCalm, Starting
<1>11. EarlyCalm
  <2>1. SUFFICES ASSUME NEW p \in Op, Early(p)' PROVE Early(p) /\ native'.phase[p] # "rejected"
    BY DEF EarlyCalm
  <2>2. Early(p)
    BY <1>2, <1>6, <2>1 DEF Early, EarlyAt
  <2> QED BY <1>1, <1>3, <2>2 DEF HoldsAgree
<1>12. PlayCalm /\ Keyed'
  <2>1. PlayCalm
    BY <1>1 DEF PlayCalm
  <2> QED BY <1>1, <1>3, <1>8, <2>1, KeyStays
<1> QED BY <1>7, <1>8, <1>9, <1>10, <1>11, <1>12, Together

-----------------------------------------------------------------------------
(* Steps that no thread takes *)

\* What is left to show when the threads, the journal and the preemption do not move.
LEMMA AloneKeeps ==
  ASSUME HoldInv, Inv', UNCHANGED <<opVars, play>>, RecordsKept, Remembers, HoldsCalm, NativeCalm,
         \A h \in Op : native'.phase[h] = "rejected" => native.phase[h] = "rejected",
         SourcesCalm, SoundsCalm
  PROVE  HoldInv'
<1>1. LiveStep(0) /\ RevokedKept
  BY KeptLives
<1>2. RecordsAgree' /\ ThreadsAgree'
  BY <1>1, RecordsStay, ThreadsRest DEF HoldInv, Agreed
<1>3. StartsCalm
  BY DEF StartsCalm, Starting, opVars
<1>4. EarlyCalm
  <2>1. SUFFICES ASSUME NEW p \in Op, Early(p)' PROVE Early(p) /\ native'.phase[p] # "rejected"
    BY DEF EarlyCalm
  <2>2. Early(p)
    BY <2>1 DEF Early, opVars
  <2> QED BY <2>2 DEF HoldInv, Agreed, HoldsAgree
<1>5. PlayCalm /\ Keyed'
  <2>1. PlayCalm
    BY DEF PlayCalm
  <2> QED BY <1>1, <2>1, KeyStays DEF HoldInv, Agreed
<1> QED BY <1>1, <1>2, <1>3, <1>4, <1>5, Together

LEMMA SenderHolds ==
  ASSUME HoldInv, Inv', Sounds \/ Expires
  PROVE  HoldInv'
<1>1. UNCHANGED <<native, producerVars, opVars, play>>
  BY DEF Sounds, Expires
<1>2. HoldsCalm /\ NativeCalm /\ RecordsKept /\ Remembers
  BY <1>1, NativeStays, NothingKept
<1>3. \/ sender.main.phase = "starting" /\ sender' = [sender EXCEPT !.main.phase = "playing"]
      \/ sender' = [sender EXCEPT !.main.phase = "cancelled"]
      \/ sender' = [sender EXCEPT !.cand.phase = "cancelled"]
  BY DEF Sounds, Expires
<1>4. /\ sender'.main.src = sender.main.src /\ sender'.main.tgt = sender.main.tgt
      /\ sender'.cand.src = sender.cand.src /\ sender'.cand.tgt = sender.cand.tgt
      /\ \/ sender'.main.phase \in {sender.main.phase, "cancelled"}
         \/ sender.main.phase = "starting" /\ sender'.main.phase = "playing"
      /\ sender'.cand.phase \in {sender.cand.phase, "cancelled"}
  BY <1>3, SenderTypes DEF SenderUpTo, SourceUpTo, HoldInv
<1>5. SourcesCalm /\ SoundsCalm
  BY <1>4, SameSources DEF Startable
<1> QED BY <1>1, <1>2, <1>5, AloneKeeps

-----------------------------------------------------------------------------
(* Polls *)

\* A poll that does not reach Native, and furthers at most one record.
LEMMA QuietKeeps ==
  ASSUME HoldInv, Inv', UNCHANGED <<native, sender, opVars, play>>, RecordsKept, Remembers
  PROVE  HoldInv'
<1>1. HoldsCalm /\ NativeCalm /\ SourcesCalm /\ SoundsCalm
  BY NativeStays, SenderStays
<1> QED BY <1>1, AloneKeeps

LEMMA PollReadsKeep ==
  ASSUME HoldInv, Inv', Poll \/ PollObserve \/ PollPreempted \/ PollSender \/ PollApply
  PROVE  HoldInv'
<1>1. UNCHANGED <<native, sender, producerVars, opVars, play>>
  <2>1. CASE Poll \/ PollApply
    BY <2>1 DEF Poll, PollApply, PollUnchanged, peerVars
  <2>2. CASE PollObserve \/ PollPreempted \/ PollSender
    BY <2>2 DEF PollObserve, PollPreempted, PollSender, PollUnchanged
  <2> QED BY <2>1, <2>2
<1> QED BY <1>1, NothingKept, QuietKeeps

LEMMA PollReleaseHolds ==
  ASSUME HoldInv, Inv', PollRelease
  PROVE  HoldInv'
<1>1. /\ UNCHANGED <<native, sender, producer, opVars, play>>
      /\ \/ records' = [o \in Op |-> IF o \in Completed THEN [records[o] EXCEPT !.release = TRUE] ELSE records[o]]
         \/ records' = records
  BY DEF PollRelease, PollUnchanged, peerVars
<1>2. \A o \in Op : records'[o] = records[o] \/ records'[o] = [records[o] EXCEPT !.release = TRUE]
  BY <1>1
<1>3. \A o \in Op : /\ Exists(o)' <=> Exists(o)
                    /\ records'[o].target = records[o].target /\ records'[o].native = records[o].native
                    /\ records'[o].retained = records[o].retained /\ records'[o].prior = records[o].prior
                    /\ records'[o].sender = records[o].sender
                    /\ records[o].preempted => records'[o].preempted
  <2>1. SUFFICES ASSUME NEW o \in Op
        PROVE /\ Exists(o)' <=> Exists(o)
              /\ records'[o].target = records[o].target /\ records'[o].native = records[o].native
              /\ records'[o].retained = records[o].retained /\ records'[o].prior = records[o].prior
              /\ records'[o].sender = records[o].sender
              /\ records[o].preempted => records'[o].preempted
    OBVIOUS
  <2>2. records[o] \in Record
    BY HoldTypes DEF HoldInv
  <2> QED BY <1>2, <2>2 DEF Exists, Record
<1>4. RecordsKept /\ Remembers
  BY <1>1, <1>3 DEF RecordsKept, Remembers
<1> QED BY <1>1, <1>4, QuietKeeps

LEMMA PollNativeHolds ==
  ASSUME HoldInv, Inv', PollNative
  PROVE  HoldInv'
<1> DEFINE f == poll.fence
           h == IF poll.rec.native # 0 THEN poll.rec.native ELSE f
           a == [records[f] EXCEPT !.rejection = TRUE, !.stage = "operation-rejection-observed"]
           b == [records[f] EXCEPT !.release = TRUE]
<1>1. /\ poll.step = "native" /\ native' = ResultRead(h) /\ UNCHANGED <<sender, opVars, play>>
      /\ \/ Journaled(f, a) /\ UNCHANGED producer
         \/ Journaled(f, b) /\ UNCHANGED producer
         \/ UNCHANGED producerVars
  BY DEF PollNative, Write, Journaled, PollUnchanged
<1>2. Inv /\ HoldsAgree
  BY DEF HoldInv, Agreed
<1>3. f \in Op /\ Exists(f) /\ records[f] \in Record /\ h \in Op
  <2>1. f \in Op /\ Exists(f)
    BY <1>1, <1>2 DEF Inv, PollPlaced, Reconciling
  <2>2. poll.rec.native \in OpOrNone
    BY <1>2, Readers DEF PollType, Record
  <2> QED BY <1>2, <2>1, <2>2, HoldTypes, OpBasic
<1> HIDE DEF f, h
<1>4. Furthers(f, a) /\ Furthers(f, b)
  <2>1. Furthers(f, a)
    BY <1>3 DEF Furthers, Record
  <2>2. Furthers(f, b)
    BY <1>3 DEF Furthers, Record, Exists
  <2> QED BY <2>1, <2>2
<1> HIDE DEF a, b
<1>5. RecordsKept /\ Remembers
  <2>1. CASE UNCHANGED producerVars
    BY <2>1, NothingKept
  <2>2. CASE \E r \in {a, b} : Journaled(f, r) /\ UNCHANGED producer
    <3>1. PICK r \in {a, b} : Journaled(f, r) /\ UNCHANGED producer
      BY <2>2
    <3>2. Furthers(f, r)
      BY <1>4
    <3> QED BY <1>2, <1>3, <3>1, <3>2, WrittenKept DEF Remembers
  <2> QED BY <1>1, <2>1, <2>2
<1>6. /\ HoldsCalm /\ NativeCalm
      /\ \A k \in Op : native'.phase[k] = "rejected" => native.phase[k] = "rejected"
  BY <1>1, <1>2, <1>3, ReadCalm
<1> QED BY <1>1, <1>5, <1>6, SenderStays, AloneKeeps

LEMMA PollWritesKeep ==
  ASSUME HoldInv, Inv', PollCancelled \/ PollSettle
  PROVE  HoldInv'
<1> DEFINE f == poll.fence
           plays == poll.obs.state = "playing"
           incumbent == IF poll.rec.prior # 0 THEN records[poll.rec.prior].sender ELSE f
           active == IF plays THEN f
                     ELSE IF producer.active \in {f, incumbent} THEN 0 ELSE producer.active
           m == [producer EXCEPT !.active = active]
<1>0. Inv
  BY DEF HoldInv
<1>1. f \in Op /\ Exists(f) /\ records[f] \in Record /\ UNCHANGED <<native, sender, opVars, play>>
  <2>1. poll.step \in Reconciling /\ UNCHANGED <<native, sender, opVars, play>>
    BY DEF PollCancelled, PollSettle, Reconciling, PollUnchanged, peerVars
  <2> QED BY <1>0, <2>1, HoldTypes DEF Inv, PollPlaced
<1>2. CASE PollCancelled
  <2>1. PICK stage \in {"preflight-reconciled", "rejected-reconciled"}, playing \in BOOLEAN :
          \/ UNCHANGED producerVars
          \/ /\ Journaled(f, [records[f] EXCEPT !.terminal = TRUE, !.outcome = "rejected",
                                                !.playing = playing, !.stage = stage])
             /\ UNCHANGED producer
    <3>1. Playing(Applied(Observed)) \in BOOLEAN
      BY DEF Playing
    <3> HIDE DEF Playing
    <3> QED BY <1>2, <3>1 DEF PollCancelled, Write, Journaled
  <2> DEFINE r == [records[f] EXCEPT !.terminal = TRUE, !.outcome = "rejected", !.playing = playing, !.stage = stage]
  <2> HIDE DEF f
  <2>2. Furthers(f, r)
    BY <1>1 DEF Furthers, Record
  <2>3. UNCHANGED producerVars \/ (Journaled(f, r) /\ UNCHANGED producer)
    BY <2>1
  <2> HIDE DEF r
  <2>4. RecordsKept /\ Remembers
    BY <1>0, <1>1, <2>2, <2>3, NothingKept, WrittenKept DEF Remembers
  <2> QED BY <1>1, <2>4, QuietKeeps
<1>3. CASE PollSettle
  <2> DEFINE r == [records[f] EXCEPT !.terminal = TRUE, !.outcome = "committed",
                                     !.playing = plays, !.stage = "reconciled"]
  <2>1. \/ f \in producer.live /\ Journaled(f, r) /\ producer' \in {producer, m}
        \/ UNCHANGED producerVars
    BY <1>3 DEF PollSettle, Write, Journaled
  <2>2. active \in {producer.active, 0, f}
    OBVIOUS
  <2> HIDE DEF f, active, plays
  <2>3. Furthers(f, r)
    BY <1>1 DEF Furthers, Record
  <2> HIDE DEF r
  <2>4. m.live = producer.live /\ m.retained = producer.retained /\ m.active = active
    BY <1>0, HoldTypes DEF ProducerType
  <2> HIDE DEF m
  <2>5. RecordsKept /\ Remembers
    <3>1. CASE f \in producer.live /\ Journaled(f, r) /\ producer' \in {producer, m}
      <4>1. producer'.live = producer.live /\ Remembers
        BY <2>2, <2>4, <3>1 DEF Remembers
      <4> QED BY <1>0, <1>1, <2>3, <3>1, <4>1, WrittenKept
    <3> QED BY <2>1, <3>1, NothingKept
  <2> QED BY <1>1, <2>5, QuietKeeps
<1> QED BY <1>2, <1>3

-----------------------------------------------------------------------------
(* The preemption *)

\* What is left to show when the threads stand still and no drain is signed.
LEMMA CallbackKeeps ==
  ASSUME HoldInv, Inv', UNCHANGED opVars, RecordsAgree', LiveStep(0), HoldsCalm, NativeCalm,
         \A h \in Op : native'.phase[h] = "rejected" => native.phase[h] = "rejected",
         SourcesCalm, SoundsCalm, PlayCalm, Keyed'
  PROVE  HoldInv'
<1>1. ThreadsAgree' /\ StartsCalm
  BY ThreadsRest DEF HoldInv, Agreed, StartsCalm, Starting, opVars
<1>2. EarlyCalm
  <2>1. SUFFICES ASSUME NEW p \in Op, Early(p)' PROVE Early(p) /\ native'.phase[p] # "rejected"
    BY DEF EarlyCalm
  <2>2. Early(p)
    BY <2>1 DEF Early, opVars
  <2> QED BY <2>2 DEF HoldInv, Agreed, HoldsAgree
<1> QED BY <1>1, <1>2, Together

\* Native asks for the return of a hold it has: nothing sounds that did not, and the intent it
\* forgets is no hold.
LEMMA ExplicitPlayHolds ==
  ASSUME HoldInv, Inv', NEW t \in Targets, ExplicitPlay(t)
  PROVE  HoldInv'
<1> DEFINE h == native.hold[t]
<1>0. /\ Inv /\ RecordsAgree /\ ThreadsAgree /\ HoldsAgree /\ SourcesAgree /\ ReadyToSound /\ SoundsParked
      /\ play.step = "idle" /\ UNCHANGED <<sender, producerVars, opVars>>
      /\ native \in NativeType /\ play \in PlayType
  BY HoldTypes DEF HoldInv, Agreed, ExplicitPlay
<1>1. RecordsKept /\ Remembers /\ SourcesCalm /\ SoundsCalm
  BY <1>0, NothingKept, SenderStays
<1>2. LiveStep(0)
  BY <1>1, KeptLives
<1>3. CASE h # 0 /\ Reacquirable(h)
  <2>1. /\ h \in Op /\ native.phase[h] \in {"prepared", "suspended"} /\ native' = Intend(Reacquiring(h))
        /\ play' = [step |-> "journal", id |-> play.id + 1, target |-> t, hold |-> h, key |-> 0]
    BY <1>0, <1>3, OpBasic DEF ExplicitPlay, Reacquirable, NativeType
  <2> HIDE DEF h
  <2>2. /\ native'.hold = native.hold /\ native'.parked = native.parked
        /\ native'.phase = [native.phase EXCEPT ![h] = "reacquiring"]
    BY <1>0, <2>1 DEF Intend, Reacquiring, NativeType
  <2>3. HoldsCalm /\ \A k \in Op : native'.phase[k] = "rejected" => native.phase[k] = "rejected"
    BY <1>0, <2>1, <2>2 DEF HoldsCalm, ActivePhase, NativeType
  <2>4. EarlyCalm
    <3>1. SUFFICES ASSUME NEW p \in Op, Early(p)' PROVE Early(p) /\ native'.phase[p] # "rejected"
      BY DEF EarlyCalm
    <3>2. Early(p)
      BY <1>0, <3>1 DEF Early, opVars
    <3>3. native.phase[p] = "none"
      BY <1>0, <3>2 DEF HoldsAgree
    <3> QED BY <2>3, <3>2, <3>3
  <2>5. RecordsAgree' /\ ThreadsAgree'
    BY <1>0, <1>1, <1>2, RecordsStay, ThreadsRest
  <2>6. HoldsAgree' /\ SourcesAgree'
    BY <1>0, <1>1, <1>2, <2>3, <2>4, HoldsStay, SourcesStay
  <2>7. PlayAgrees'
    <3>1. native.hold[t] = h
      BY DEF h
    <3> QED BY <2>1, <2>2, <3>1 DEF PlayAgrees
  <2>8. ReadyToSound'
    BY <1>0, <2>2 DEF ReadyToSound, MayStart, Starting, Startable, opVars, producerVars
  <2>9. Drained'
    BY <2>1 DEF Drained, Signed
  <2>10. SoundsParked'
    BY <1>0, <2>2 DEF SoundsParked, SoundsOn
  <2> QED BY <2>5, <2>6, <2>7, <2>8, <2>9, <2>10 DEF HoldInv, Agreed
<1>4. CASE ~(h # 0 /\ Reacquirable(h))
  <2>1. native' = Intend(native) /\ play' = [play EXCEPT !.id = @ + 1]
    BY <1>4 DEF ExplicitPlay
  <2>2. native'.hold = native.hold /\ native'.parked = native.parked /\ native'.phase = native.phase
    BY <1>0, <2>1 DEF Intend, NativeType
  <2>3. HoldsCalm /\ NativeCalm
    BY <2>2, NativeStays
  <2>4. play'.step = "idle"
    BY <1>0, <2>1 DEF PlayType
  <2>5. PlayCalm /\ Keyed'
    BY <2>4 DEF PlayCalm, Keyed, Signed
  <2>6. RecordsAgree'
    BY <1>0, <1>1, RecordsStay
  <2> QED BY <1>0, <1>1, <1>2, <2>2, <2>3, <2>5, <2>6, CallbackKeeps
<1> QED BY <1>3, <1>4

\* The preemption goes on with the journal and the callback alone.
LEMMA WritesCall ==
  ASSUME HoldInv, Inv', UNCHANGED <<native, sender, opVars>>, RecordsAgree', LiveStep(0), PlayCalm, Keyed'
  PROVE  HoldInv'
<1>1. HoldsCalm /\ NativeCalm /\ SourcesCalm /\ SoundsCalm
  BY NativeStays, SenderStays
<1> QED BY <1>1, CallbackKeeps

\* The callback is at step s, about the same hold and receiver.
LEMMA CallbackMoves ==
  ASSUME Inv, play.step # "idle", NEW s, NEW k, play' = [play EXCEPT !.step = s, !.key = k],
         s \in Signed => play.step \in Signed
  PROVE  PlayCalm /\ play'.step = s /\ play'.key = k /\ play'.hold = play.hold
<1>1. play'.step = s /\ play'.key = k /\ play'.hold = play.hold /\ play'.target = play.target
  BY Readers DEF PlayType
<1> QED BY <1>1 DEF PlayCalm

LEMMA PreemptJournalHolds ==
  ASSUME HoldInv, Inv', PreemptJournal
  PROVE  HoldInv'
<1> DEFINE found == Holders(play.hold, play.target)
           key == Newest(found)
           fenced == [records[key] EXCEPT !.preempted = TRUE, !.play = play.id, !.terminal = FALSE,
                                          !.stage = "preempt-drain-attempted"]
           s == IF records[key].native = 0 THEN "recover" ELSE "drain"
<1>0. /\ Inv /\ RecordsAgree /\ play.step = "journal" /\ UNCHANGED <<native, sender, opVars>>
  BY DEF HoldInv, Agreed, PreemptJournal, peerVars
<1>1. \/ play' = [play EXCEPT !.step = "refused"] /\ UNCHANGED producerVars
      \/ /\ found # {} /\ UNCHANGED producer
         /\ \/ Stored(key, fenced) /\ play' = [play EXCEPT !.key = key, !.step = s]
            \/ StoreFailed(key, fenced) /\ play' = [play EXCEPT !.key = key, !.step = "refused"]
  BY DEF PreemptJournal, Write, PlayStep
<1>2. CASE play' = [play EXCEPT !.step = "refused"] /\ UNCHANGED producerVars
  <2>1. play' = [play EXCEPT !.step = "refused", !.key = play.key]
    BY <1>0, <1>2, PlaySteps
  <2>2. PlayCalm /\ play'.step = "refused"
    BY <1>0, <2>1, CallbackMoves DEF Signed
  <2>3. RecordsKept /\ Remembers /\ Keyed'
    BY <1>2, <2>2, NothingKept DEF Keyed
  <2> QED BY <1>0, <2>2, <2>3, RecordsStay, KeptLives, WritesCall
<1>3. CASE /\ found # {} /\ UNCHANGED producer
           /\ \/ Stored(key, fenced) /\ play' = [play EXCEPT !.key = key, !.step = s]
              \/ StoreFailed(key, fenced) /\ play' = [play EXCEPT !.key = key, !.step = "refused"]
  <2>1. key \in producer.live /\ key \in Op /\ Exists(key) /\ HoldOf(key) = play.hold /\ records[key] \in Record
    <3>1. found \subseteq Op /\ \A o \in found : o \in producer.live /\ Exists(o) /\ HoldOf(o) = play.hold
      BY <1>0, HoldTypes DEF Holders, ProducerType
    <3>2. key \in found
      BY <1>3, <3>1, Greatest
    <3> QED BY <1>0, <3>1, <3>2, HoldTypes
  <2> HIDE DEF found, key
  <2>2. Furthers(key, fenced) /\ fenced.preempted
    <3>1. fenced.preempted = TRUE
      BY <2>1 DEF Record
    <3> QED BY <2>1, <3>1 DEF Furthers, Record
  <2>3. s \in {"recover", "drain"}
    OBVIOUS
  <2> HIDE DEF fenced, s
  <2>4. RecordsKept /\ Remembers
    <3>1. Journaled(key, fenced) /\ producer' = producer
      BY <1>3 DEF Journaled
    <3> QED BY <1>0, <2>1, <2>2, <3>1, WrittenKept DEF Remembers
  <2>5. CASE StoreFailed(key, fenced) /\ play' = [play EXCEPT !.key = key, !.step = "refused"]
    <3>1. play' = [play EXCEPT !.step = "refused", !.key = key]
      BY <1>0, <2>5, Readers DEF PlayType
    <3>2. PlayCalm /\ play'.step = "refused"
      BY <1>0, <3>1, CallbackMoves DEF Signed
    <3>3. Keyed'
      BY <3>2 DEF Keyed
    <3> QED BY <1>0, <2>4, <3>2, <3>3, RecordsStay, KeptLives, WritesCall
  <2>6. CASE Stored(key, fenced) /\ play' = [play EXCEPT !.key = key, !.step = s]
    <3>1. play' = [play EXCEPT !.step = s, !.key = key]
      BY <1>0, <2>6, Readers DEF PlayType
    <3>2. PlayCalm /\ play'.step = s /\ play'.key = key /\ play'.hold = play.hold
      BY <1>0, <2>3, <3>1, CallbackMoves DEF Signed
    <3>3. records'[key].preempted /\ records'[key].native = records[key].native /\ producer'.live = producer.live
      BY <1>0, <2>1, <2>2, <2>4, <2>6, HoldTypes DEF Stored, RecordsKept
    <3>4. Keyed'
      BY <2>1, <3>2, <3>3 DEF Keyed, HoldOf
    <3> QED BY <1>0, <2>4, <3>2, <3>4, RecordsStay, KeptLives, WritesCall
  <2> QED BY <1>3, <2>5, <2>6
<1> QED BY <1>1, <1>2, <1>3

LEMMA PreemptRecoverHolds ==
  ASSUME HoldInv, Inv', PreemptRecover
  PROVE  HoldInv'
<1> DEFINE key == play.key
           r == [records[key] EXCEPT !.native = play.hold]
<1>0. /\ Inv /\ RecordsAgree /\ ThreadsAgree /\ PlayAgrees /\ play.step = "recover"
      /\ UNCHANGED <<native, sender, opVars>>
  BY DEF HoldInv, Agreed, PreemptRecover, peerVars
<1>1. /\ key \in producer.live /\ HoldOf(key) = play.hold /\ play.hold \in Op
      /\ key \in Op /\ Exists(key) /\ records[key] \in Record
  BY <1>0, HoldTypes, LiveExists DEF PlayAgrees, Inv, PlayPlaced
<1>2. PICK z \in {"drain", "refused"} :
        /\ play' = [play EXCEPT !.step = z, !.key = key]
        /\ \/ Journaled(key, r) /\ UNCHANGED producer
           \/ UNCHANGED producerVars
  <2>1. PICK z \in {"drain", "refused"} :
          /\ play' = [play EXCEPT !.step = z]
          /\ \/ Journaled(key, r) /\ UNCHANGED producer
             \/ UNCHANGED producerVars
    BY DEF PreemptRecover, Write, Journaled, PlayStep
  <2> QED BY <1>0, <2>1, PlaySteps
<1>3. PlayCalm /\ Keyed'
  <2>1. PlayCalm /\ play'.step = z
    BY <1>0, <1>2, CallbackMoves DEF Signed
  <2> QED BY <2>1 DEF Keyed
<1>4. /\ r \in Record /\ r.stage # "none" /\ r.target = records[key].target /\ r.retained = records[key].retained
      /\ r.prior = records[key].prior /\ r.sender = records[key].sender /\ r.native = play.hold
  <2>1. play.hold \in OpOrNone
    BY <1>1, OpBasic
  <2>2. r \in Record
    BY <1>1, <2>1 DEF Record
  <2> QED BY <1>1, <2>1, <2>2 DEF Record, Exists
<1>5. r.native = key \/ r.native = records[key].native
  BY <1>1, <1>4 DEF HoldOf
<1> HIDE DEF r, key
<1>6. CASE records' = records /\ producer' = producer
  <2>1. RecordsKept /\ Remembers
    BY <1>6 DEF RecordsKept, Remembers, Exists
  <2> QED BY <1>0, <1>3, <2>1, RecordsStay, KeptLives, WritesCall
<1>7. CASE records' = [records EXCEPT ![key] = r] /\ producer' = producer
  <2>1. records'[key] = r /\ \A p \in Op \ {key} : records'[p] = records[p]
    BY <1>0, <1>1, <1>7, HoldTypes
  <2>2. RecordsAgree'
    <3>1. RecordAgrees(key)
      BY <1>0, <1>1 DEF RecordsAgree
    <3>2. HoldFor(r.native, r.target) \/ r.native = key
      BY <1>4, <1>5, <3>1 DEF RecordAgrees
    <3>3. HoldFor(r.retained, r.target) /\ (r.prior # 0 => r.prior \in producer.live)
      BY <1>4, <3>1 DEF RecordAgrees
    <3>4. \A t \in Targets : HoldFor(producer'.retained[t].native, t) /\ producer'.retained[t].native \in OpOrNone
      BY <1>0, <1>7, HoldTypes DEF RecordsAgree, ProducerType
    <3>5. producer'.live = producer.live \cup {key} /\ producer'.active = producer.active
      BY <1>1, <1>7
    <3> QED BY <1>0, <1>1, <1>4, <1>7, <3>2, <3>3, <3>4, <3>5, RecordsRewritten
  <2>3. LiveStep(0)
    <3>1. \A p \in Op : Exists(p) => Exists(p)' /\ records'[p].target = records[p].target
      BY <1>4, <2>1 DEF Exists
    <3>2. \A p \in Op : records'[p].prior = records[p].prior /\ records'[p].sender = records[p].sender
      BY <1>4, <2>1
    <3>3. \A p \in Op : Starting(p) => records'[p].native = records[p].native
      <4>1. Starting(key) => records[key].native # 0
        BY <1>0, <1>1, StarterPlaced
      <4>2. Starting(key) => r.native = records[key].native
        BY <1>1, <1>4, <4>1 DEF HoldOf
      <4> QED BY <2>1, <4>2
    <3> QED BY <1>7, <3>1, <3>2, <3>3 DEF LiveStep
  <2> QED BY <1>0, <1>3, <2>2, <2>3, WritesCall
<1> QED BY <1>2, <1>6, <1>7 DEF Journaled, Stored, StoreFailed, producerVars

\* The signed drain silences the receiver and leaves nothing to start under its hold: what may be
\* started elsewhere has another hold.
LEMMA PreemptDrainHolds ==
  ASSUME HoldInv, Inv', PreemptDrain
  PROVE  HoldInv'
<1> DEFINE r == records[play.key]
           src == IF r.sender # 0 THEN r.sender ELSE r.peer
           t == play.target
<1>0. /\ Inv /\ RecordsAgree /\ HoldsAgree /\ SourcesAgree /\ PlayAgrees /\ ReadyToSound /\ ThreadsAgree
      /\ play.step = "drain" /\ UNCHANGED <<native, producerVars, opVars>>
  BY DEF HoldInv, Agreed, PreemptDrain
<1>1. \/ /\ play' = [play EXCEPT !.step = "refused"]
         /\ sender' \in {sender, Challenged(src, t, r.native, play.id)}
      \/ /\ play' = [play EXCEPT !.step = "record"]
         /\ ChallengeAccepted(src, t, r.native) /\ sender' = Challenged(src, t, r.native, play.id)
  BY DEF PreemptDrain, SenderCall, PlayStep
<1>2. RecordsKept /\ Remembers /\ HoldsCalm /\ NativeCalm
  BY <1>0, NothingKept, NativeStays
<1>3. LiveStep(0) /\ RecordsAgree'
  BY <1>0, <1>2, KeptLives, RecordsStay
<1>4. \A h \in Op : native'.phase[h] = "rejected" => native.phase[h] = "rejected"
  BY <1>0
<1> HIDE DEF r, src, t
<1>5. SourcesCalm /\ SoundsCalm
  BY <1>0, <1>1, ChallengedCalm, SenderStays
<1>6. CASE play' = [play EXCEPT !.step = "refused"]
  <2>1. play' = [play EXCEPT !.step = "refused", !.key = play.key]
    BY <1>0, <1>6, PlaySteps
  <2>2. PlayCalm /\ play'.step = "refused"
    BY <1>0, <2>1, CallbackMoves DEF Signed
  <2>3. Keyed'
    BY <2>2 DEF Keyed
  <2> QED BY <1>0, <1>2, <1>3, <1>4, <1>5, <2>2, <2>3, CallbackKeeps
<1>7. CASE /\ play' = [play EXCEPT !.step = "record"]
           /\ ChallengeAccepted(src, t, r.native) /\ sender' = Challenged(src, t, r.native, play.id)
  <2>1. play'.step = "record" /\ play'.hold = play.hold /\ play'.target = play.target
    BY <1>0, <1>7, Readers DEF PlayType
  <2>2. /\ sender'.main.src = sender.main.src /\ sender'.main.tgt = sender.main.tgt
        /\ sender'.cand.src = sender.cand.src /\ sender'.cand.tgt = sender.cand.tgt
        /\ sender.main.src = src => sender'.main.phase = "drained"
        /\ sender.main.src # src => sender'.main = sender.main
        /\ sender.cand.tgt = t => ~Startable(sender'.cand)
    BY <1>0, <1>7, ChallengedCalm
  <2>3. sender'.main.tgt = t => sender'.main.phase = "drained"
    <3>1. CASE sender.main.src = src
      BY <2>2, <3>1
    <3>2. CASE sender.main.src # src
      BY <1>7, <2>2, <3>2 DEF ChallengeAccepted, Archived
    <3> QED BY <3>1, <3>2
  <2>4. ThreadsAgree' /\ StartsCalm /\ EarlyCalm
    <3>1. ThreadsAgree' /\ StartsCalm
      BY <1>0, <1>3, ThreadsRest DEF StartsCalm, Starting, opVars
    <3>2. SUFFICES ASSUME NEW p \in Op, Early(p)' PROVE Early(p) /\ native'.phase[p] # "rejected"
      BY <3>1 DEF EarlyCalm
    <3>3. Early(p)
      BY <1>0, <3>2 DEF Early, opVars
    <3> QED BY <1>0, <3>3 DEF HoldsAgree
  <2>5. HoldsAgree' /\ SourcesAgree'
    BY <1>0, <1>2, <1>3, <1>5, <2>4, HoldsStay, SourcesStay
  <2>6. PlayAgrees'
    <3>1. Keyed'
      BY <2>1 DEF Keyed
    <3> QED BY <1>0, <1>2, <2>1, <3>1, PlayKept
  <2>7. ReadyToSound'
    <3>1. SUFFICES ASSUME NEW p \in Op, MayStart(p)'
          PROVE records'[p].native \in native'.parked /\ native'.hold[records'[p].target] = records'[p].native
      BY DEF ReadyToSound
    <3>2. MayStart(p)
      BY <1>5, <2>4, <3>1, StartsStay
    <3> QED BY <1>2, <1>3, <3>2, StillReady
  <2>8. Drained'
    <3>1. SUFFICES ASSUME native.phase[play.hold] = "reacquiring"
          PROVE ~SoundsOn(play.target)' /\ \A p \in Op : MayStart(p)' => records'[p].native # play'.hold
      BY <1>0, <2>1 DEF Drained
    <3>2. t = play.target /\ play.target \in Targets /\ native.hold[t] = play.hold
      BY <1>0, <3>1 DEF PlayAgrees, t
    <3>3. ~SoundsOn(play.target)'
      BY <2>1, <2>3, <3>2 DEF SoundsOn
    <3>4. ASSUME NEW p \in Op, MayStart(p)', records'[p].native = play'.hold PROVE FALSE
      <4>1. MayStart(p) /\ Starting(p)
        BY <1>5, <2>4, <3>4, StartsStay DEF MayStart
      <4>2. /\ records[p].native = play.hold /\ native.hold[records[p].target] = play.hold
            /\ records[p].target \in Targets /\ records[p].native # 0
        BY <1>0, <2>1, <3>4, <4>1, StarterPlaced DEF ReadyToSound, producerVars
      <4>3. records[p].target = t
        BY <1>0, <3>2, <4>2 DEF HoldsAgree
      <4>4. PICK s \in {sender'.main, sender'.cand} : s.src = p /\ Startable(s)
        BY <3>4 DEF MayStart, Startable
      <4>5. s.tgt = t
        BY <1>0, <2>2, <4>3, <4>4, OpBasic DEF SourcesAgree, Own
      <4>6. CASE s = sender'.main
        BY <2>3, <4>4, <4>5, <4>6 DEF Startable
      <4>7. CASE s = sender'.cand
        BY <2>2, <4>4, <4>5, <4>7
      <4> QED BY <4>4, <4>6, <4>7
    <3> QED BY <3>3, <3>4
  <2>9. SoundsParked'
    BY <1>2, <1>5, StillParked DEF HoldInv
  <2> QED BY <1>3, <2>4, <2>5, <2>6, <2>7, <2>8, <2>9 DEF HoldInv, Agreed
<1> QED BY <1>1, <1>6, <1>7

LEMMA PreemptRecordHolds ==
  ASSUME HoldInv, Inv', PreemptRecord
  PROVE  HoldInv'
<1> DEFINE key == play.key
           t == play.target
           kept == producer.retained[t]
           r == [records[key] EXCEPT !.ticket = play.id, !.stage = "preempted",
                                     !.terminal = TRUE, !.outcome = "preempted"]
           a == IF producer.active = key THEN 0 ELSE producer.active
           k == IF kept.native = play.hold THEN NotRetained ELSE kept
           forgotten == [producer EXCEPT !.active = a, !.retained = [producer.retained EXCEPT ![t] = k]]
<1>0. /\ Inv /\ RecordsAgree /\ play.step = "record" /\ UNCHANGED <<native, sender, opVars>>
  BY DEF HoldInv, Agreed, PreemptRecord, peerVars
<1>1. key \in Op /\ Exists(key) /\ records[key] \in Record
  BY <1>0, HoldTypes DEF Inv, PlayPlaced
<1>2. PICK z \in {"observe", "refused"} :
        /\ play' = [play EXCEPT !.step = z, !.key = key]
        /\ Journaled(key, r) /\ producer' \in {producer, forgotten}
  <2>1. forgotten = [producer EXCEPT !.active = IF @ = key THEN 0 ELSE @,
                                     !.retained[t] = IF kept.native = play.hold THEN NotRetained ELSE kept]
    BY <1>0, Readers DEF ProducerType
  <2> HIDE DEF forgotten
  <2>2. PICK z \in {"observe", "refused"} :
          play' = [play EXCEPT !.step = z] /\ Journaled(key, r) /\ producer' \in {producer, forgotten}
    BY <2>1 DEF PreemptRecord, Write, Journaled, PlayStep
  <2> QED BY <1>0, <2>2, PlaySteps
<1>3. PlayCalm /\ Keyed'
  <2>1. PlayCalm /\ play'.step = z
    BY <1>0, <1>2, CallbackMoves DEF Signed
  <2> QED BY <2>1 DEF Keyed
<1>4. Furthers(key, r)
  BY <1>1 DEF Furthers, Record
<1>5. /\ forgotten.live = producer.live /\ forgotten.active \in {producer.active, 0}
      /\ \A u \in Targets : forgotten.retained[u].native \in {producer.retained[u].native, 0}
  <2>1. a \in {producer.active, 0} /\ k.native \in {kept.native, 0}
    BY DEF NotRetained
  <2> HIDE DEF a, k
  <2>2. /\ forgotten.live = producer.live /\ forgotten.active = a
        /\ forgotten.retained = [producer.retained EXCEPT ![t] = k]
    BY <1>0, HoldTypes DEF ProducerType
  <2> HIDE DEF forgotten
  <2>3. \A u \in Targets : forgotten.retained[u] = producer.retained[u] \/ (u = t /\ forgotten.retained[u] = k)
    BY <1>0, <2>2, HoldTypes DEF ProducerType
  <2> QED BY <2>1, <2>2, <2>3
<1> HIDE DEF r, forgotten, key
<1>6. RecordsKept /\ Remembers
  <2>1. producer'.live = producer.live /\ Remembers
    BY <1>2, <1>5 DEF Remembers
  <2> QED BY <1>0, <1>1, <1>2, <1>4, <2>1, WrittenKept
<1> QED BY <1>0, <1>3, <1>6, RecordsStay, KeptLives, WritesCall

LEMMA PreemptObserveHolds ==
  ASSUME HoldInv, Inv', PreemptObserve
  PROVE  HoldInv'
<1>1. /\ play.step = "observe" /\ play' = [play EXCEPT !.step = "commit"]
      /\ UNCHANGED <<native, sender, producerVars, opVars>>
  BY DEF PreemptObserve, PlayStep, peerVars
<1>2. play' = [play EXCEPT !.step = "commit", !.key = play.key]
  BY <1>1, PlaySteps DEF HoldInv
<1>3. PlayCalm /\ play'.step = "commit"
  BY <1>1, <1>2, CallbackMoves DEF HoldInv, Signed
<1>4. RecordsKept /\ Remembers /\ Keyed'
  BY <1>1, <1>3, NothingKept DEF Keyed
<1> QED BY <1>1, <1>3, <1>4, RecordsStay, KeptLives, WritesCall DEF HoldInv, Agreed

\* Native gives up: it does not know whether the receiver is parked, and keeps the hold.
LEMMA GivenUpKeeps ==
  ASSUME HoldInv, Inv', UNCHANGED <<sender, producerVars, opVars>>,
         \/ native' = native
         \/ native.phase[play.hold] = "reacquiring" /\ native' = ReacquireFailed(play.hold),
         play' = play \/ play'.step = "idle", play.hold \in Op
  PROVE  HoldInv'
<1>0. Inv /\ RecordsAgree /\ ThreadsAgree /\ PlayAgrees
  BY DEF HoldInv, Agreed
<1>1. RecordsKept /\ Remembers /\ SourcesCalm /\ SoundsCalm
  BY NothingKept, SenderStays
<1>2. /\ HoldsCalm /\ NativeCalm
      /\ \A h \in Op : native'.phase[h] = "rejected" => native.phase[h] = "rejected"
  <2>1. CASE native' = native
    BY <2>1, NativeStays
  <2>2. CASE native.phase[play.hold] = "reacquiring" /\ native' = ReacquireFailed(play.hold)
    <3>1. /\ native'.hold = native.hold /\ native'.parked = native.parked /\ native'.phase[play.hold] = "unknown"
          /\ \A h \in Op : h # play.hold => native'.phase[h] = native.phase[h]
      BY <1>0, <2>2, HoldTypes DEF ReacquireFailed, NativeType
    <3>2. HoldsCalm
      BY <2>2, <3>1 DEF HoldsCalm, ActivePhase
    <3>3. NativeCalm
      BY <2>2, <3>1 DEF NativeCalm
    <3> QED BY <3>1, <3>2, <3>3
  <2> QED BY <2>1, <2>2
<1>3. LiveStep(0) /\ RevokedKept /\ RecordsAgree'
  BY <1>0, <1>1, KeptLives, RecordsStay
<1>4. PlayCalm /\ Keyed'
  <2>1. PlayCalm
    BY DEF PlayCalm, Signed
  <2>2. CASE play' = play
    BY <1>0, <1>3, <2>1, <2>2, KeyStays
  <2>3. CASE play'.step = "idle"
    BY <2>1, <2>3 DEF Keyed
  <2> QED BY <2>1, <2>2, <2>3
<1> QED BY <1>1, <1>2, <1>3, <1>4, CallbackKeeps

\* Native reopens Spotify on a receiver that was drained: the other holds are of other receivers.
LEMMA ReturnKeeps ==
  ASSUME HoldInv, Inv', UNCHANGED <<sender, producerVars, opVars>>, play.step = "commit", play'.step = "idle",
         native.phase[play.hold] = "reacquiring", native' = Returned(play.hold, play.target, play.id)
  PROVE  HoldInv'
<1> DEFINE h == play.hold
           t == play.target
<1>0. /\ Inv /\ RecordsAgree /\ ThreadsAgree /\ HoldsAgree /\ SourcesAgree /\ PlayAgrees
      /\ ReadyToSound /\ Drained /\ SoundsParked
  BY DEF HoldInv, Agreed
<1>1. /\ h \in Op /\ h # 0 /\ t \in Targets /\ native.hold[t] = h
      /\ ~SoundsOn(t) /\ \A o \in Op : MayStart(o) => records[o].native # h
  <2>1. play.step \in Signed /\ play.step # "idle"
    BY DEF Signed
  <2> QED BY <1>0, <2>1, OpBasic DEF Inv, PlayPlaced, PlayAgrees, Drained
<1>2. /\ native'.hold = [native.hold EXCEPT ![t] = 0] /\ native'.parked = native.parked \ {h}
      /\ native'.phase = [native.phase EXCEPT ![h] = "returned"]
  BY <1>0, HoldTypes DEF Returned, NativeType
<1> HIDE DEF h, t
<1>3. /\ native'.hold[t] = 0 /\ \A u \in Targets : u # t => native'.hold[u] = native.hold[u] /\ native'.hold[u] # h
      /\ native'.phase[h] = "returned" /\ \A k \in Op : k # h => native'.phase[k] = native.phase[k]
      /\ \A k : k \in native.parked /\ k # h => k \in native'.parked
  <2>1. \A u \in Targets : u # t => native.hold[u] # h
    BY <1>0, <1>1 DEF HoldsAgree
  <2> QED BY <1>0, <1>1, <1>2, <2>1, HoldTypes DEF NativeType
<1>4. RecordsKept /\ Remembers /\ SourcesCalm
  BY NothingKept, SenderStays
<1>5. LiveStep(0) /\ RecordsAgree'
  BY <1>0, <1>4, KeptLives, RecordsStay
<1>6. ThreadsAgree' /\ SourcesAgree'
  BY <1>0, <1>4, <1>5, ThreadsRest, SourcesStay
<1>7. UNCHANGED <<records, pc>>
  BY DEF producerVars, opVars
<1>8. HoldsAgree'
  <2>1. \A u \in Targets : native'.hold[u] # 0 => native'.phase[native'.hold[u]] \in ActivePhase \cup {"lost"}
    <3>1. \A u \in Targets : native.hold[u] # 0 => native.hold[u] \in Op
      BY <1>0, OpBasic, Readers DEF NativeType
    <3> QED BY <1>0, <1>3, <3>1 DEF HoldsAgree
  <2>2. \A u, v \in Targets : native'.hold[u] = native'.hold[v] /\ native'.hold[u] # 0 => u = v
    BY <1>0, <1>3 DEF HoldsAgree
  <2>3. ASSUME NEW k \in Op, native'.phase[k] \in ActivePhase
        PROVE Exists(k)' /\ records'[k].target \in Targets /\ native'.hold[records'[k].target] = k
    <3>1. k # h /\ native.phase[k] \in ActivePhase
      BY <1>3, <2>3 DEF ActivePhase
    <3>2. Exists(k) /\ records[k].target \in Targets /\ native.hold[records[k].target] = k
      BY <1>0, <3>1 DEF HoldsAgree
    <3> QED BY <1>1, <1>3, <1>7, <3>1, <3>2 DEF Exists
  <2>4. \A k \in Op : native'.phase[k] = "suspended" => k \in native'.parked
    BY <1>0, <1>3 DEF HoldsAgree
  <2>5. \A o \in Op : Early(o)' => native'.phase[o] = "none"
    <3>1. \A o \in Op : Early(o)' => native.phase[o] = "none"
      BY <1>0, <1>7 DEF HoldsAgree, Early
    <3>2. native.phase[h] # "none"
      BY DEF h
    <3> QED BY <1>3, <3>1, <3>2
  <2> QED BY <2>1, <2>2, <2>3, <2>4, <2>5 DEF HoldsAgree
<1>9. PlayAgrees' /\ Drained'
  BY DEF PlayAgrees, Drained, Signed
<1>10. ReadyToSound'
  <2>1. SUFFICES ASSUME NEW o \in Op, MayStart(o)'
        PROVE records'[o].native \in native'.parked /\ native'.hold[records'[o].target] = records'[o].native
    BY DEF ReadyToSound
  <2>2. MayStart(o)
    BY <1>7, <2>1 DEF MayStart, Starting, Startable
  <2>3. records[o].native \in native.parked /\ native.hold[records[o].target] = records[o].native /\ records[o].native # h
    BY <1>0, <1>1, <2>2 DEF ReadyToSound
  <2>4. records[o].target \in Targets
    BY <1>0, <2>2, StarterPlaced DEF MayStart
  <2> QED BY <1>1, <1>3, <1>7, <2>3, <2>4
<1>11. SoundsParked'
  <2>1. SUFFICES ASSUME NEW u \in Targets, SoundsOn(u)' PROVE native'.hold[u] # 0 /\ native'.hold[u] \in native'.parked
    BY DEF SoundsParked
  <2>2. SoundsOn(u) /\ u # t
    BY <1>1, <2>1 DEF SoundsOn
  <2> QED BY <1>0, <1>3, <2>2 DEF SoundsParked
<1> QED BY <1>5, <1>6, <1>8, <1>9, <1>10, <1>11 DEF HoldInv, Agreed

LEMMA PreemptEndHolds ==
  ASSUME HoldInv, Inv', PreemptEnd \/ NativeTimeout
  PROVE  HoldInv'
<1>1. UNCHANGED <<sender, producerVars, opVars>> /\ play.step # "idle" /\ play.hold \in Op
  BY DEF PreemptEnd, NativeTimeout, HoldInv, Inv, PlayPlaced
<1>2. CASE PreemptEnd
  <2>1. play' = [NoPlay EXCEPT !.id = play.id]
    BY <1>2 DEF PreemptEnd
  <2>2. play'.step = "idle"
    BY <2>1 DEF NoPlay
  <2>3. \/ native' = native
        \/ native.phase[play.hold] = "reacquiring" /\ native' = ReacquireFailed(play.hold)
        \/ /\ play.step = "commit" /\ native.phase[play.hold] = "reacquiring"
           /\ native' = Returned(play.hold, play.target, play.id)
    BY <1>2 DEF PreemptEnd
  <2> QED BY <1>1, <2>2, <2>3, GivenUpKeeps, ReturnKeeps
<1>3. CASE NativeTimeout
  <2>1. play' = play /\ native.phase[play.hold] = "reacquiring" /\ native' = ReacquireFailed(play.hold)
    BY <1>3 DEF NativeTimeout
  <2> QED BY <1>1, <2>1, GivenUpKeeps
<1> QED BY <1>2, <1>3

-----------------------------------------------------------------------------
(* Restarts *)

\* A restart silences the sender and starts from nothing; Native keeps its holds, which no longer
\* belong to a record of this life.
LEMMA CrashHolds ==
  ASSUME HoldInv, Inv', Crash
  PROVE  HoldInv'
<1>0. Inv /\ ThreadsAgree /\ HoldsAgree
  BY DEF HoldInv, Agreed
<1>1. /\ producer' = [active |-> 0, retained |-> [t \in Targets |-> NotRetained], live |-> {}]
      /\ pc' = [o \in Op |-> IF pc[o][1] = "idle" /\ disk[o].stage = "none" THEN pc[o] ELSE <<"over", "none">>]
      /\ native' = NativeRestarted /\ sender' = SenderRestarted /\ cmd' = cmd
      /\ play' = [NoPlay EXCEPT !.id = play.id]
  BY DEF Crash
<1>2. \A o \in Op : \/ pc'[o] = pc[o] /\ pc[o][1] = "idle"
                    \/ pc'[o] = <<"over", "none">>
  BY <1>1
<1>3. /\ native'.hold = native.hold
      /\ \A h \in Op : native'.phase[h] = IF Outstanding(h) THEN "lost" ELSE native.phase[h]
  BY <1>0, <1>1, HoldTypes DEF NativeRestarted, NativeType
<1>4. /\ sender'.main.src = 0 /\ sender'.main.phase = "empty" /\ sender'.cand.src = 0
  BY <1>1 DEF SenderRestarted, NoSource
<1>5. play'.step = "idle"
  BY <1>1 DEF NoPlay
<1>6. RecordsAgree'
  <2>1. \A t \in Targets : producer'.retained[t].native = 0
    BY <1>1 DEF NotRetained
  <2> QED BY <1>1, <2>1 DEF RecordsAgree, HoldFor
<1>7. ThreadsAgree'
  <2>1. SUFFICES ASSUME NEW o \in Op PROVE ThreadAgrees(o)'
    BY DEF ThreadsAgree
  <2>2. ThreadAgrees(o) /\ pc'[o][1] \in {"idle", "over"}
    BY <1>0, <1>2 DEF ThreadsAgree
  <2>3. SourceOperation(o)' = SourceOperation(o) /\ cmd'[o] = cmd[o]
    BY <1>1 DEF SourceOperation
  <2> QED BY <2>2, <2>3 DEF ThreadAgrees, Recorded, Reserved
<1>8. HoldsAgree'
  <2>1. \A h \in Op : native'.phase[h] \notin ActivePhase
    <3>1. \A h \in Op : native.phase[h] \in HoldPhase
      BY <1>0, HoldTypes DEF NativeType
    <3> QED BY <1>3, <3>1 DEF ActivePhase, Outstanding, HoldPhase
  <2>2. ASSUME NEW t \in Targets, native'.hold[t] # 0 PROVE native'.phase[native'.hold[t]] = "lost"
    <3>1. native.hold[t] \in Op /\ native.phase[native.hold[t]] \in ActivePhase \cup {"lost"}
      BY <1>0, <1>3, <2>2, HoldTypes, OpBasic DEF HoldsAgree, NativeType
    <3> QED BY <1>3, <3>1 DEF ActivePhase, Outstanding
  <2>3. ASSUME NEW o \in Op, Early(o)' PROVE native'.phase[o] = "none"
    <3>1. Early(o)
      BY <1>2, <2>3 DEF Early, EarlyAt
    <3> QED BY <1>0, <1>3, <3>1 DEF HoldsAgree, Outstanding
  <2>4. \A t, u \in Targets : native'.hold[t] = native'.hold[u] /\ native'.hold[t] # 0 => t = u
    BY <1>0, <1>3 DEF HoldsAgree
  <2>5. \A h \in Op : native'.phase[h] # "suspended"
    BY <2>1 DEF ActivePhase
  <2> QED BY <2>1, <2>2, <2>3, <2>4, <2>5 DEF HoldsAgree
<1>9. SourcesAgree' /\ PlayAgrees' /\ Drained'
  BY <1>4, <1>5 DEF SourcesAgree, Own, PlayAgrees, Drained, Signed
<1>10. ReadyToSound'
  BY <1>2 DEF ReadyToSound, MayStart, Starting
<1>11. SoundsParked'
  BY <1>4 DEF SoundsParked, SoundsOn
<1> QED BY <1>6, <1>7, <1>8, <1>9, <1>10, <1>11 DEF HoldInv, Agreed

-----------------------------------------------------------------------------
(* Spotify and the radio never sound together *)

LEMMA NothingHolds == Init => HoldInv
<1> SUFFICES ASSUME Init PROVE HoldInv
  OBVIOUS
<1>1. /\ native = [hold |-> [t \in Targets |-> 0], phase |-> [o \in Op |-> "none"],
                   parked |-> {}, fresh |-> {}, ticket |-> [o \in Op |-> 0]]
      /\ sender.main = NoSource /\ sender.cand = NoSource
      /\ producer = [active |-> 0, retained |-> [t \in Targets |-> NotRetained], live |-> {}]
      /\ cmd = [o \in Op |-> NoCommand] /\ pc = [o \in Op |-> <<"idle", "none">>] /\ play = NoPlay
  BY DEF Init, ProducerInit, PeersInit
<1>2. sender.main.src = 0 /\ sender.main.phase = "empty" /\ sender.cand.src = 0 /\ play.step = "idle"
  BY <1>1 DEF NoSource, NoPlay
<1>3. RecordsAgree
  BY <1>1 DEF RecordsAgree, HoldFor, NotRetained
<1>4. ThreadsAgree
  <2>1. \A o \in Op : pc[o][1] = "idle" /\ ~SourceOperation(o)
    BY <1>1 DEF SourceOperation, NoCommand
  <2> QED BY <2>1 DEF ThreadsAgree, ThreadAgrees, Recorded, Reserved
<1>5. HoldsAgree
  BY <1>1 DEF HoldsAgree, ActivePhase
<1>6. SourcesAgree /\ PlayAgrees /\ ReadyToSound /\ Drained /\ SoundsParked
  BY <1>1, <1>2 DEF SourcesAgree, Own, PlayAgrees, ReadyToSound, MayStart, Starting, Drained, Signed,
                    SoundsParked, SoundsOn
<1> QED BY <1>3, <1>4, <1>5, <1>6, InitHolds DEF HoldInv, Agreed

LEMMA HoldStep == HoldInv /\ [Next]_vars => HoldInv'
<1> SUFFICES ASSUME HoldInv, [Next]_vars PROVE HoldInv'
  OBVIOUS
<1>1. Inv'
  BY StepKeeps DEF HoldInv
<1>2. CASE UNCHANGED vars
  BY <1>1, <1>2, NothingKept, QuietKeeps DEF vars, opVars, producerVars
<1>3. CASE Execute
  BY <1>1, <1>3, ExecuteHolds
<1>4. CASE \E o \in Op : Operation(o)
  BY <1>1, <1>4, OperationHolds
<1>5. CASE Sounds \/ Expires
  BY <1>1, <1>5, SenderHolds
<1>6. CASE \E t \in Targets : ExplicitPlay(t)
  BY <1>1, <1>6, ExplicitPlayHolds
<1>7. CASE PreemptNext \/ NativeTimeout
  BY <1>1, <1>7, PreemptJournalHolds, PreemptRecoverHolds, PreemptDrainHolds, PreemptRecordHolds,
     PreemptObserveHolds, PreemptEndHolds DEF PreemptNext
<1>8. CASE Poll \/ PollNext
  BY <1>1, <1>8, PollReadsKeep, PollReleaseHolds, PollNativeHolds, PollWritesKeep DEF PollNext
<1>9. CASE Crash
  BY <1>1, <1>9, CrashHolds
<1> QED BY <1>2, <1>3, <1>4, <1>5, <1>6, <1>7, <1>8, <1>9 DEF Next

\* HoldInv is an invariant of the radio.
THEOREM HoldInvAlways == Spec => []HoldInv
<1> QED BY NothingHolds, HoldStep, PTL DEF Spec

\* A source of the sender sounds on a receiver only while Native keeps that receiver parked under a
\* hold it has not given back (radio_producer.go, radio_producer_preempt.go): whatever is lost,
\* preempted, polled or restarted, Spotify and the radio are never heard together.
THEOREM NeverBothAlways == Spec => []NeverBoth
<1>1. HoldInv => NeverBoth
  <2> SUFFICES ASSUME HoldInv, NEW t \in Targets, SoundsOn(t)
               PROVE  /\ native.hold[t] # 0 /\ native.hold[t] \in native.parked
                      /\ native.phase[native.hold[t]] # "returned"
    BY DEF NeverBoth
  <2>1. native.hold[t] # 0 /\ native.hold[t] \in native.parked
    BY DEF HoldInv, SoundsParked
  <2>2. native.phase[native.hold[t]] \in ActivePhase \cup {"lost"}
    BY <2>1 DEF HoldInv, Agreed, HoldsAgree
  <2> QED BY <2>1, <2>2 DEF ActivePhase
<1> QED BY <1>1, HoldInvAlways, PTL
=============================================================================
