------------------------- MODULE RadioPromiseProofs -------------------------
(* Machine-checked proofs, for every set of receivers and every bound, of    *)
(* what the radio promises over restarts and to the outside.  The gate of a  *)
(* boot accounts for every hold that Native still keeps: GateInv says what   *)
(* the journal tells of each.  And the radio implements RadioCustody: under  *)
(* RefInv every step of it is one of RadioCustody, or none.                  *)
EXTENDS RadioProofs

-----------------------------------------------------------------------------
(* The inductive invariant of the boot's gate *)

\* A hold whose record was revoked, in memory and so in the journal.
Revoked(h) == h # 0 /\ \E o \in Op : records[o].preempted /\ records[o].native = h
SealedHolds ==
  \A o \in Op : records[o].preempted /\ records[o].native # 0 => disk[o].native = records[o].native

\* What the record of an outstanding hold's own operation says, in memory and in the journal: the hold
\* was asked for, and a record that is settled still plays under it unless the hold was revoked.
Unasked == PreflightStage \cup {"none"}
Fits(r, h) == r.stage \notin Unasked /\ r.native \in {0, h} /\ r.sender \in {0, h} /\ ~r.rejection
Silent(r, h) == r.terminal /\ ~(r.playing /\ r.native = h)
AccountedFor(h) ==
  /\ ~SourceOperation(h) /\ Fits(records[h], h) /\ Fits(disk[h], h)
  /\ Silent(records[h], h) \/ Silent(disk[h], h) => Revoked(h)
Accounted == \A h \in Op : Outstanding(h) => AccountedFor(h)

\* What a thread knows of its own record: a start or move that has not asked Native yet has no
\* hold, no source and no end, and one that asked for a hold of its own reuses none.
Blank(r) == r.native = 0 /\ r.sender = 0 /\ ~r.rejection /\ ~r.terminal
Asking(o) == pc[o][1] = "native" /\ pc[o][2] = "call"
ThreadKnows(o) ==
  /\ Recorded(o) /\ Early(o) /\ ~SourceOperation(o) =>
       /\ Blank(records[o])
       /\ Asking(o) => Blank(disk[o]) /\ records[o].stage \notin Unasked /\ disk[o].stage \notin Unasked
  /\ Recorded(o) /\ pc[o][1] \in {"preflight", "reserve", "native", "sender"} => records[o].sender = 0
  /\ pc[o][1] = "native" /\ ~records[o].preempted => records[o].native = 0
  /\ pc[o][1] = "native" /\ pc[o][2] = "record" /\ native.phase[o] # "none" => Reused(o) = 0
  /\ pc[o][1] = "cancel" => native.phase[o] = "rejected"
  /\ pc[o][1] = "finish" /\ pc[o][2] = "stopped" /\ Outstanding(o) => Revoked(o)
ThreadsKnow == \A o \in Op : ThreadKnows(o)

\* A record that is followed, or active, or that a source was bound to, has a hold; the source of a
\* start or move is its own.
LiveKnown(o) ==
  /\ records[o].prior # 0 => records[records[o].prior].native # 0
  /\ records[o].sender # 0 => records[o].native # 0
  /\ ~SourceOperation(o) => records[o].sender \in {0, o}
LiveKnows ==
  /\ producer.active # 0 => records[producer.active].native # 0
  /\ \A o \in producer.live : LiveKnown(o)

\* The sources of the sender.  A source is of a start or move that asked for it; it sounds only
\* once that operation's start was accepted; one that its own operation finds drained was drained
\* for an explicit play; what was bound is bound to the hold of its record.
UnpreparedAt(x) == x[1] = "idle" \/ (x[1] = "preflight" /\ x[2] \in {"journal", "call"})
UnstartedAt(x) ==
  \/ x[1] \in {"idle", "preflight", "reserve", "native", "sender", "cancel", "fence", "stop", "suspend"}
  \/ x[1] = "start" /\ x[2] # "record"
BindingAt(x) == x[1] = "sender" /\ x[2] = "record"
Unprepared(o) == UnpreparedAt(pc[o])
Unstarted(o) == UnstartedAt(pc[o])
BoundTo(o) == BindingAt(pc[o]) \/ records[o].sender # 0
SourceKnows(s) ==
  /\ s.phase # "empty" <=> s.src # 0
  /\ s.src # 0 =>
       /\ s.src \in producer.live /\ ~SourceOperation(s.src) /\ ~Unprepared(s.src)
       /\ s.phase \in {"starting", "playing"} => ~Unstarted(s.src)
       /\ s.phase = "drained" /\ (s.op = s.src \/ Unstarted(s.src)) => Revoked(s.hold)
       /\ BoundTo(s.src) => s.hold = records[s.src].native /\ s.phase # "prepared"
Apart(main, cand, drains) ==
  /\ \A t \in Targets : drains[t].src # 0 =>
       /\ drains[t].phase = "drained" /\ drains[t].src # cand.src
       /\ drains[t].src = main.src => main.phase = "drained"
  /\ cand.src # 0 => cand.src # main.src
SourcesKnow ==
  /\ SourceKnows(sender.main) /\ SourceKnows(sender.cand)
  /\ \A t \in Targets : SourceKnows(sender.drains[t])
  /\ Apart(sender.main, sender.cand, sender.drains)

\* The readers: the fence is past Native; what a poll and a preemption keep over a call.
PollKnows ==
  /\ coord.fence # 0 => ~Early(coord.fence)
  /\ poll.fence # 0 => ~Early(poll.fence)
  /\ poll.step = "cancelled" => ~Outstanding(poll.fence)
  /\ poll.step \in {"native", "sender"} /\ poll.rec.sender # 0 => records[poll.fence].sender = poll.rec.sender
  /\ poll.step = "settle" =>
       /\ poll.fence \in producer.live => records[poll.fence].native # 0
       /\ poll.obs.state # "playing" /\ Outstanding(poll.fence) => Revoked(poll.fence)
PlayKnows ==
  /\ play.step # "idle" => native.phase[play.hold] # "none"
  /\ play.step \in {"recover", "drain", "record"} =>
       play.key \in producer.live /\ records[play.key].preempted /\ HoldOf(play.key) = play.hold
  /\ play.step \in {"drain", "record"} => records[play.key].native = play.hold

GateKnown ==
  /\ SealedHolds /\ Accounted /\ ThreadsKnow /\ LiveKnows /\ SourcesKnow /\ PollKnows /\ PlayKnows
GateInv == HoldInv /\ GateKnown

-----------------------------------------------------------------------------
(* What a step does to the journals *)

\* What two records have in common when nothing that matters here was rewritten.
Same(r, q) ==
  /\ r.native = q.native /\ r.sender = q.sender /\ r.prior = q.prior /\ r.retained = q.retained
  /\ r.target = q.target /\ r.rejection = q.rejection /\ r.terminal = q.terminal
  /\ r.playing = q.playing /\ r.preempted = q.preempted
  /\ q.stage \notin Unasked => r.stage \notin Unasked
Alike(p) == Same(records'[p], records[p]) /\ (Same(disk'[p], disk[p]) \/ Same(disk'[p], records[p]))

\* At most the record of k is rewritten, to r; a write that fails reaches the journal at most.
Tells(k, r) ==
  /\ \A p \in Op \ {k} : Alike(p)
  /\ \/ Alike(k)
     \/ Same(records'[k], records[k]) /\ disk'[k] = r
     \/ records'[k] = r /\ disk'[k] = r

\* What r may be: it keeps the hold and the revocation, and what the gate will read fits.
Fitting(k, r) ==
  /\ records[k].preempted => r.preempted
  /\ Exists(k) /\ records[k].native # 0 => r.native = records[k].native
  /\ Outstanding(k) => Fits(r, k) /\ (Silent(r, k) => Revoked(k)')

\* No hold is asked for or refused.
PhaseCalm(h) ==
  \/ native'.phase[h] = native.phase[h]
  \/ native.phase[h] \notin {"none", "rejected", "returned"} /\ native'.phase[h] \notin {"none", "rejected"}
RevokedStays == \A h \in Op : Revoked(h) => Revoked(h)'

LEMMA GateTypes ==
  ASSUME GateInv
  PROVE  /\ HoldInv /\ Inv /\ Agreed /\ RecordsAgree /\ ThreadsAgree /\ HoldsAgree /\ SourcesAgree /\ PlayAgrees
         /\ SealedHolds /\ Accounted /\ ThreadsKnow /\ LiveKnows /\ SourcesKnow /\ PollKnows /\ PlayKnows
BY DEF GateInv, GateKnown, HoldInv, Agreed

LEMMA AlikeSame ==
  ASSUME UNCHANGED <<records, disk>>
  PROVE  \A p : Alike(p)
BY DEF Alike, Same

\* The journal keeps the hold of a revoked record, and a revoked hold stays revoked.
LEMMA RevokedKeeps ==
  ASSUME GateInv, NEW k \in Op, NEW r, Tells(k, r),
         records[k].preempted => r.preempted,
         Exists(k) /\ records[k].native # 0 => r.native = records[k].native
  PROVE  SealedHolds' /\ RevokedStays
<1>0. SealedHolds /\ \A p \in Op : records[p].preempted => Exists(p)
  BY GateTypes DEF Inv, Sealed
<1>1. \A p \in Op : /\ records[p].preempted => records'[p].preempted
                    /\ Exists(p) /\ records[p].native # 0 => records'[p].native = records[p].native
  BY DEF Tells, Alike, Same
<1>2. RevokedStays
  BY <1>0, <1>1 DEF RevokedStays, Revoked
<1>3. ASSUME NEW p \in Op PROVE records'[p].preempted /\ records'[p].native # 0 => disk'[p].native = records'[p].native
  <2>1. CASE Alike(p)
    BY <1>0, <2>1 DEF Alike, Same, SealedHolds
  <2>2. CASE p = k
    BY <1>0, <2>1, <2>2 DEF Tells, Same, SealedHolds
  <2> QED BY <2>1, <2>2 DEF Tells
<1> QED BY <1>2, <1>3 DEF SealedHolds

LEMMA SameFits ==
  ASSUME NEW h, NEW r, NEW q, Same(r, q)
  PROVE  (Fits(q, h) => Fits(r, h)) /\ (Silent(r, h) => Silent(q, h))
BY DEF Same, Fits, Silent

LEMMA AccountedKeeps ==
  ASSUME GateInv, NEW k \in Op, NEW r, Tells(k, r), Fitting(k, r), RevokedStays,
         \A h \in Op : PhaseCalm(h) \/ (Outstanding(h)' => AccountedFor(h)'),
         \A h \in Op : Outstanding(h) => SourceOperation(h)' = SourceOperation(h)
  PROVE  Accounted'
<1>0. SUFFICES ASSUME NEW h \in Op, Outstanding(h)', PhaseCalm(h) PROVE AccountedFor(h)'
  BY DEF Accounted
<1>1. SUFFICES /\ ~SourceOperation(h)' /\ Fits(records'[h], h) /\ Fits(disk'[h], h)
               /\ Silent(records'[h], h) \/ Silent(disk'[h], h) => Revoked(h)'
  BY DEF AccountedFor, Fits, Silent
<1>2. Outstanding(h)
  BY <1>0 DEF PhaseCalm, Outstanding
<1>3. /\ ~SourceOperation(h) /\ Fits(records[h], h) /\ Fits(disk[h], h)
      /\ Silent(records[h], h) \/ Silent(disk[h], h) => Revoked(h)
  BY <1>2, GateTypes DEF Accounted, AccountedFor
<1>4. ~SourceOperation(h)' /\ (Revoked(h) => Revoked(h)')
  BY <1>2, <1>3 DEF RevokedStays
<1>5. CASE Alike(h)
  BY <1>3, <1>4, <1>5, SameFits DEF Alike
<1>6. CASE h = k /\ ~Alike(h)
  <2>1. Fits(r, h) /\ (Silent(r, h) => Revoked(h)')
    BY <1>2, <1>6 DEF Fitting
  <2>2. CASE Same(records'[k], records[k]) /\ disk'[k] = r
    BY <1>3, <1>4, <1>6, <2>1, <2>2, SameFits
  <2>3. CASE records'[k] = r /\ disk'[k] = r
    BY <1>4, <1>6, <2>1, <2>3
  <2> QED BY <1>6, <2>2, <2>3 DEF Tells
<1> QED BY <1>5, <1>6 DEF Tells

-----------------------------------------------------------------------------
(* What threads know of a step that is not theirs *)

\* What a write by another than its own thread leaves alone.
Untouched(k, r) ==
  /\ r.sender = records[k].sender /\ r.prior = records[k].prior /\ r.retained = records[k].retained
  /\ r.target = records[k].target
  /\ r.preempted \/ r.native = records[k].native
  /\ Recorded(k) /\ Early(k) /\ ~SourceOperation(k) => Alike(k)

LEMMA NativesKept ==
  ASSUME NEW k \in Op, NEW r, Tells(k, r), Fitting(k, r)
  PROVE  \A p \in Op : Exists(p) /\ records[p].native # 0 => records'[p].native = records[p].native
BY DEF Tells, Fitting, Alike, Same

LEMMA UntouchedKept ==
  ASSUME NEW k \in Op, NEW r, Tells(k, r), NEW p \in Op, p = k => Untouched(k, r) /\ Fitting(k, r)
  PROVE  /\ records'[p].sender = records[p].sender /\ records'[p].prior = records[p].prior
         /\ records'[p].retained = records[p].retained /\ records'[p].target = records[p].target
         /\ ~records'[p].preempted => ~records[p].preempted /\ records'[p].native = records[p].native
         /\ Recorded(p) /\ Early(p) /\ ~SourceOperation(p) => Alike(p)
<1>1. CASE p # k
  BY <1>1 DEF Tells, Alike, Same
<1>2. CASE p = k
  BY <1>2 DEF Tells, Alike, Same, Untouched, Fitting
<1> QED BY <1>1, <1>2

\* The hold that an operation reuses stays what it was when it asked.
LEMMA ReusedStays ==
  ASSUME GateInv, NEW k \in Op, NEW r, Tells(k, r), Fitting(k, r), NEW p \in Op, p \in producer.live,
         SourceOperation(p) => records[p].prior # 0,
         SourceOperation(p)' = SourceOperation(p),
         records'[p].prior = records[p].prior, records'[p].retained = records[p].retained,
         records'[p].target = records[p].target,
         \A q \in Op : Exists(q) => records'[q].target = records[q].target
  PROVE  Reused(p)' = Reused(p)
<1>1. records[p].prior # 0 =>
        /\ records[p].prior \in Op /\ Exists(records[p].prior)
        /\ records'[records[p].prior].native = records[records[p].prior].native
        /\ records'[records[p].prior].target = records[records[p].prior].target
  <2>1. SUFFICES ASSUME records[p].prior # 0
        PROVE /\ records[p].prior \in Op /\ Exists(records[p].prior)
              /\ records'[records[p].prior].native = records[records[p].prior].native
              /\ records'[records[p].prior].target = records[records[p].prior].target
    OBVIOUS
  <2>2. records[p].prior \in producer.live
    BY <2>1, GateTypes DEF RecordsAgree, RecordAgrees
  <2>3. records[records[p].prior].native # 0
    BY <2>1, GateTypes DEF LiveKnows, LiveKnown
  <2>4. records[p].prior \in Op /\ Exists(records[p].prior)
    BY <2>2, GateTypes, LiveExists
  <2> QED BY <2>3, <2>4, NativesKept
<1> QED BY <1>1 DEF Reused, SameTarget

LEMMA BlankSame ==
  ASSUME NEW r, NEW q, Same(r, q), Blank(q)
  PROVE  Blank(r) /\ (q.stage \notin Unasked => r.stage \notin Unasked)
BY DEF Same, Blank

LEMMA OtherKnows ==
  ASSUME GateInv, NEW k \in Op, NEW r, Tells(k, r), Fitting(k, r), RevokedStays,
         NEW p \in Op, PhaseCalm(p), pc'[p] = pc[p], cmd'[p] = cmd[p], p = k => Untouched(k, r),
         \A q \in Op : Exists(q) => records'[q].target = records[q].target
  PROVE  ThreadKnows(p)'
<1>1. /\ SourceOperation(p)' = SourceOperation(p) /\ Recorded(p)' = Recorded(p) /\ Early(p)' = Early(p)
      /\ Asking(p)' = Asking(p)
  BY DEF SourceOperation, Recorded, Early, Asking
<1>2. ThreadKnows(p)
  BY GateTypes DEF ThreadsKnow
<1>3. /\ records'[p].sender = records[p].sender /\ records'[p].prior = records[p].prior
      /\ records'[p].retained = records[p].retained /\ records'[p].target = records[p].target
      /\ ~records'[p].preempted => ~records[p].preempted /\ records'[p].native = records[p].native
      /\ Recorded(p) /\ Early(p) /\ ~SourceOperation(p) => Alike(p)
  BY UntouchedKept
<1>4. Recorded(p)' /\ Early(p)' /\ ~SourceOperation(p)' =>
        /\ Blank(records[p])'
        /\ Asking(p)' => Blank(disk[p])' /\ records'[p].stage \notin Unasked /\ disk'[p].stage \notin Unasked
  <2>1. SUFFICES ASSUME Recorded(p), Early(p), ~SourceOperation(p)
        PROVE /\ Blank(records'[p])
              /\ Asking(p) => Blank(disk'[p]) /\ records'[p].stage \notin Unasked /\ disk'[p].stage \notin Unasked
    BY <1>1 DEF Blank
  <2>2. /\ Blank(records[p])
        /\ Asking(p) => Blank(disk[p]) /\ records[p].stage \notin Unasked /\ disk[p].stage \notin Unasked
    BY <1>2, <2>1 DEF ThreadKnows
  <2>3. Alike(p)
    BY <1>3, <2>1
  <2> QED BY <2>2, <2>3, BlankSame DEF Alike
<1>5. /\ Recorded(p)' /\ pc'[p][1] \in {"preflight", "reserve", "native", "sender"} => records'[p].sender = 0
      /\ pc'[p][1] = "native" /\ ~records'[p].preempted => records'[p].native = 0
  BY <1>1, <1>2, <1>3 DEF ThreadKnows
<1>6. pc'[p][1] = "native" /\ pc'[p][2] = "record" /\ native'.phase[p] # "none" => Reused(p)' = 0
  <2>1. SUFFICES ASSUME pc[p][1] = "native", pc[p][2] = "record", native'.phase[p] # "none" PROVE Reused(p)' = 0
    OBVIOUS
  <2>2. Reused(p) = 0
    BY <1>2, <2>1 DEF ThreadKnows, PhaseCalm
  <2>3. p \in producer.live
    BY <2>1, GateTypes DEF ThreadsAgree, ThreadAgrees, Recorded, Reserved
  <2>4. SourceOperation(p) => records[p].prior # 0
    BY <2>1, GateTypes DEF Inv, Placed, Reserved
  <2> QED BY <1>1, <1>3, <2>2, <2>3, <2>4, ReusedStays
<1>7. pc'[p][1] = "cancel" => native'.phase[p] = "rejected"
  BY <1>2 DEF ThreadKnows, PhaseCalm
<1>8. pc'[p][1] = "finish" /\ pc'[p][2] = "stopped" /\ Outstanding(p)' => Revoked(p)'
  BY <1>2 DEF ThreadKnows, PhaseCalm, Outstanding, RevokedStays
<1> QED BY <1>4, <1>5, <1>6, <1>7, <1>8 DEF ThreadKnows

-----------------------------------------------------------------------------
(* What a step leaves of the rest *)

LEMMA LiveTypes ==
  ASSUME GateInv, NEW o \in producer.live
  PROVE  /\ o \in Op /\ Exists(o) /\ LiveKnown(o)
         /\ records[o].prior # 0 => /\ records[o].prior \in producer.live /\ records[o].prior \in Op
                                    /\ Exists(records[o].prior)
BY GateTypes, LiveExists DEF LiveKnows, RecordsAgree, RecordAgrees

LEMMA LiveKeeps ==
  ASSUME GateInv, NEW k \in Op, NEW r, Tells(k, r), Fitting(k, r),
         producer'.active # 0 => \/ producer'.active = producer.active
                                 \/ producer'.active \in Op /\ records'[producer'.active].native # 0,
         \A o \in producer'.live :
           \/ o \in Op /\ LiveKnown(o)'
           \/ /\ o \in producer.live /\ SourceOperation(o)' = SourceOperation(o)
              /\ records'[o].prior = records[o].prior /\ records'[o].sender = records[o].sender
  PROVE  LiveKnows'
<1>1. producer'.active # 0 => records'[producer'.active].native # 0
  <2>1. producer.active # 0 => /\ producer.active \in Op /\ Exists(producer.active)
                               /\ records[producer.active].native # 0
    BY GateTypes, LiveExists DEF LiveKnows, RecordsAgree
  <2> QED BY <2>1, NativesKept
<1>2. ASSUME NEW o \in producer'.live PROVE LiveKnown(o)'
  <2>1. SUFFICES ASSUME o \in producer.live, SourceOperation(o)' = SourceOperation(o),
                        records'[o].prior = records[o].prior, records'[o].sender = records[o].sender
        PROVE LiveKnown(o)'
    BY <1>2
  <2>2. o \in Op /\ Exists(o) /\ LiveKnown(o)
        /\ (records[o].prior # 0 => records[o].prior \in Op /\ Exists(records[o].prior))
    BY <2>1, LiveTypes
  <2> QED BY <2>1, <2>2, NativesKept DEF LiveKnown
<1> QED BY <1>1, <1>2 DEF LiveKnows

\* A thread goes forward, and what is bound was bound.
ThreadCalm(x) ==
  /\ SourceOperation(x)' = SourceOperation(x)
  /\ Unprepared(x)' => Unprepared(x)
  /\ Unstarted(x)' => Unstarted(x)
  /\ BoundTo(x)' => BoundTo(x)
Sourced(x) == x \in producer.live /\ ~SourceOperation(x) /\ ~Unprepared(x)
SourcedCalm == producer.live \subseteq producer'.live /\ \A x \in Op : Sourced(x) => ThreadCalm(x)

LEMMA BoundHolds ==
  ASSUME GateInv, NEW x \in producer.live, BoundTo(x)
  PROVE  records[x].native # 0
<1>1. x \in Op /\ LiveKnown(x)
  BY LiveTypes
<1>2. pc[x][1] = "sender" => records[x].native # 0
  BY <1>1, GateTypes DEF Inv, Placed, Holding, Reserved
<1> QED BY <1>1, <1>2 DEF BoundTo, BindingAt, LiveKnown

LEMMA SourceKeeps ==
  ASSUME GateInv, NEW k \in Op, NEW r, Tells(k, r), Fitting(k, r), RevokedStays, SourcedCalm,
         NEW s, s.src \in OpOrNone, s.hold \in OpOrNone, SourceKnows(s)
  PROVE  SourceKnows(s)'
<1>1. CASE s.src = 0
  BY <1>1 DEF SourceKnows
<1>2. CASE s.src # 0
  <2>1. s.src \in Op /\ Sourced(s.src) /\ ThreadCalm(s.src)
    BY <1>2, OpBasic DEF SourceKnows, SourcedCalm, Sourced
  <2>2. s.phase # "empty" /\ s.src \in producer'.live /\ ~SourceOperation(s.src)' /\ ~Unprepared(s.src)'
    BY <1>2, <2>1 DEF SourceKnows, SourcedCalm, Sourced, ThreadCalm
  <2>3. s.phase \in {"starting", "playing"} => ~Unstarted(s.src)'
    BY <1>2, <2>1 DEF SourceKnows, ThreadCalm
  <2>4. s.phase = "drained" /\ (s.op = s.src \/ Unstarted(s.src)') => Revoked(s.hold)'
    <3>1. SUFFICES ASSUME s.phase = "drained", s.op = s.src \/ Unstarted(s.src)' PROVE Revoked(s.hold)'
      OBVIOUS
    <3>2. Revoked(s.hold)
      BY <1>2, <2>1, <3>1 DEF SourceKnows, ThreadCalm
    <3>3. s.hold \in Op
      BY <3>2, OpBasic DEF Revoked
    <3> QED BY <3>2, <3>3 DEF RevokedStays
  <2>5. BoundTo(s.src)' => s.hold = records'[s.src].native /\ s.phase # "prepared"
    <3>1. SUFFICES ASSUME BoundTo(s.src)' PROVE s.hold = records'[s.src].native /\ s.phase # "prepared"
      OBVIOUS
    <3>2. BoundTo(s.src) /\ s.hold = records[s.src].native /\ s.phase # "prepared"
      BY <1>2, <2>1, <3>1 DEF SourceKnows, ThreadCalm
    <3>3. records[s.src].native # 0 /\ Exists(s.src)
      BY <2>1, <3>2, BoundHolds, LiveTypes DEF Sourced
    <3> QED BY <2>1, <3>2, <3>3, NativesKept
  <2> QED BY <1>2, <2>2, <2>3, <2>4, <2>5 DEF SourceKnows
<1> QED BY <1>1, <1>2

LEMMA SendersTyped ==
  ASSUME GateInv
  PROVE  /\ sender.main.src \in OpOrNone /\ sender.main.hold \in OpOrNone
         /\ sender.cand.src \in OpOrNone /\ sender.cand.hold \in OpOrNone
         /\ \A t \in Targets : sender.drains[t].src \in OpOrNone /\ sender.drains[t].hold \in OpOrNone
BY GateTypes, Readers DEF SenderUpTo, SourceUpTo

\* The sources the sender has next are as they should be.
LEMMA SourcesThen ==
  ASSUME NEW m, NEW c, NEW d, m = sender'.main, c = sender'.cand, d = sender'.drains,
         SourceKnows(m)', SourceKnows(c)', \A t \in Targets : SourceKnows(d[t])', Apart(m, c, d)
  PROVE  SourcesKnow'
BY DEF SourcesKnow, SourceKnows, Apart

LEMMA SourcesRest ==
  ASSUME GateInv, NEW k \in Op, NEW r, Tells(k, r), Fitting(k, r), RevokedStays, SourcedCalm,
         sender' = sender
  PROVE  SourcesKnow'
<1>1. PICK m, c, d : m = sender.main /\ c = sender.cand /\ d = sender.drains
  OBVIOUS
<1>2. SourceKnows(m) /\ SourceKnows(c) /\ (\A t \in Targets : SourceKnows(d[t])) /\ Apart(m, c, d)
  BY <1>1, GateTypes DEF SourcesKnow
<1>3. /\ m.src \in OpOrNone /\ m.hold \in OpOrNone /\ c.src \in OpOrNone /\ c.hold \in OpOrNone
      /\ \A t \in Targets : d[t].src \in OpOrNone /\ d[t].hold \in OpOrNone
  BY <1>1, SendersTyped
<1>4. SourceKnows(m)' /\ SourceKnows(c)' /\ (\A t \in Targets : SourceKnows(d[t])')
  BY <1>2, <1>3, SourceKeeps
<1> QED BY <1>1, <1>2, <1>4, SourcesThen

LEMMA PollKeeps ==
  ASSUME GateInv, NEW k \in Op, NEW r, Tells(k, r), Fitting(k, r), RevokedStays,
         \A h \in Op : ~Early(h) => PhaseCalm(h) /\ ~Early(h)' /\ (h \in producer'.live => h \in producer.live)
                                    /\ (records[h].sender # 0 => records'[h].sender = records[h].sender),
         coord'.fence = coord.fence \/ ~Early(coord.fence)', poll' = poll
  PROVE  PollKnows'
<1>1. PollKnows /\ poll.fence \in OpOrNone /\ coord.fence \in OpOrNone
  BY GateTypes, Readers DEF PollType, CoordType
<1>2. coord'.fence # 0 => ~Early(coord.fence)'
  <2>1. CASE ~Early(coord.fence)'
    BY <2>1 DEF Early, EarlyAt
  <2>2. CASE coord'.fence = coord.fence
    <3>1. coord.fence # 0 => coord.fence \in Op /\ ~Early(coord.fence)
      BY <1>1, OpBasic DEF PollKnows
    <3>2. PICK f : f = coord.fence
      OBVIOUS
    <3>3. f # 0 => ~Early(f)'
      BY <3>1, <3>2
    <3> QED BY <2>2, <3>2, <3>3 DEF Early
  <2> QED BY <2>1, <2>2
<1>3. PICK f : f = poll.fence
  OBVIOUS
<1>4. f # 0 => f \in Op /\ ~Early(f) /\ ~Early(f)' /\ PhaseCalm(f)
  BY <1>1, <1>3, OpBasic DEF PollKnows
<1>5. CASE f = 0
  <2>1. poll.step \notin {"native", "cancelled", "sender", "settle"}
    BY <1>3, <1>5, GateTypes, OpBasic DEF Inv, PollPlaced, Reconciling
  <2> QED BY <1>2, <1>3, <1>5, <2>1 DEF PollKnows
<1>6. CASE f # 0
  <2>1. poll.step = "cancelled" => ~Outstanding(f)'
    BY <1>1, <1>3, <1>4, <1>6 DEF PollKnows, PhaseCalm, Outstanding
  <2>2. poll.step \in {"native", "sender"} /\ poll.rec.sender # 0 => records'[f].sender = poll.rec.sender
    BY <1>1, <1>3, <1>4, <1>6 DEF PollKnows
  <2>3. poll.step = "settle" /\ f \in producer'.live => records'[f].native # 0
    <3>1. SUFFICES ASSUME poll.step = "settle", f \in producer'.live PROVE records'[f].native # 0
      OBVIOUS
    <3>2. f \in producer.live
      BY <1>4, <1>6, <3>1
    <3>3. records[f].native # 0 /\ Exists(f)
      BY <1>1, <1>3, <3>1, <3>2, LiveTypes DEF PollKnows
    <3> QED BY <1>4, <1>6, <3>3, NativesKept
  <2>4. poll.step = "settle" /\ poll.obs.state # "playing" /\ Outstanding(f)' => Revoked(f)'
    BY <1>1, <1>3, <1>4, <1>6 DEF PollKnows, PhaseCalm, Outstanding, RevokedStays
  <2> QED BY <1>2, <1>3, <1>4, <1>6, <2>1, <2>2, <2>3, <2>4 DEF PollKnows, Early, Outstanding, Revoked
<1> QED BY <1>5, <1>6

LEMMA PlayRests ==
  ASSUME GateInv, NEW k \in Op, NEW r, Tells(k, r), Fitting(k, r), RevokedKept,
         \A h \in Op : ~Early(h) => PhaseCalm(h), producer.live \subseteq producer'.live, play' = play
  PROVE  PlayKnows'
<1>1. PlayKnows /\ HoldsAgree
  BY GateTypes
<1>2. play.step # "idle" => play.hold \in Op /\ ~Early(play.hold)
  BY <1>1, GateTypes DEF PlayKnows, HoldsAgree, Inv, PlayPlaced
<1>3. play.step # "idle" => native'.phase[play.hold] # "none"
  BY <1>1, <1>2 DEF PlayKnows, PhaseCalm
<1>4. play.step \in {"recover", "drain", "record"} => play.key \in Op
  BY GateTypes DEF Inv, PlayPlaced
<1>5. play.step \in {"recover", "drain", "record"} =>
        play.key \in producer'.live /\ records'[play.key].preempted /\ records'[play.key].native = records[play.key].native
  BY <1>1, <1>4 DEF PlayKnows, RevokedKept
<1> QED BY <1>1, <1>3, <1>5 DEF PlayKnows, HoldOf

-----------------------------------------------------------------------------
(* A step of a thread *)

\* The thread goes forward, and does not come to be bound.
Ahead(o, x) ==
  /\ EarlyAt(x) => Early(o)
  /\ UnpreparedAt(x) => Unprepared(o)
  /\ UnstartedAt(x) => Unstarted(o)
Forth(o, x) == Ahead(o, x) /\ (BindingAt(x) => BoundTo(o) \/ SourceOperation(o))

LEMMA ForthAhead ==
  ASSUME NEW o, NEW x, Forth(o, x)
  PROVE  Ahead(o, x)
BY DEF Forth

LEMMA Assembled ==
  ASSUME HoldInv', SealedHolds', Accounted', ThreadsKnow', LiveKnows', SourcesKnow', PollKnows', PlayKnows'
  PROVE  GateInv'
BY DEF GateInv, GateKnown

\* The thread of o writes at most its own record, to r, and goes on to x.
LEMMA ThreadTells ==
  ASSUME GateInv, HoldInv', NEW o \in Op, NEW x, Goes(o, x), Ahead(o, x), cmd' = cmd,
         NEW r, Tells(o, r), Fitting(o, r), r.target = records[o].target \/ ~Exists(o),
         records[o].preempted => r.native = records[o].native,
         records[o].sender # 0 /\ ~Early(o) => r.sender = records[o].sender,
         r.sender # 0 => BoundTo(o) \/ SourceOperation(o),
         producer.live \subseteq producer'.live,
         producer'.live = producer.live \/ (Early(o) /\ producer'.live = producer.live \cup {o}),
         producer'.active # 0 => \/ producer'.active = producer.active
                                 \/ producer'.active \in Op /\ records'[producer'.active].native # 0,
         o \in producer'.live => LiveKnown(o)',
         \A h \in Op \ {o} : PhaseCalm(h),
         PhaseCalm(o) \/ (Early(o) /\ (Outstanding(o)' => AccountedFor(o)')),
         (sender' = sender /\ Forth(o, x)) \/ SourcesKnow', poll' = poll, play' = play,
         coord'.fence = coord.fence \/ ~Early(coord.fence)', ThreadKnows(o)'
  PROVE  GateInv'
<1>0. pc'[o] = x /\ \A p \in Op \ {o} : pc'[p] = pc[p]
  BY GateTypes, HoldTypes DEF Goes, PCType
<1>1. \A p \in Op : SourceOperation(p)' = SourceOperation(p)
  BY DEF SourceOperation
<1>2. SealedHolds' /\ RevokedStays
  BY RevokedKeeps DEF Fitting
<1>3. Accounted'
  BY <1>1, <1>2, AccountedKeeps
<1>4. \A q \in Op \ {o} :
        /\ records'[q].target = records[q].target /\ records'[q].sender = records[q].sender
        /\ records'[q].prior = records[q].prior
        /\ records[q].preempted => records'[q].preempted /\ records'[q].native = records[q].native
  BY DEF Tells, Alike, Same
<1>5. /\ Exists(o) => records'[o].target = records[o].target
      /\ records[o].preempted => records'[o].preempted /\ records'[o].native = records[o].native
      /\ records[o].sender # 0 /\ ~Early(o) => records'[o].sender = records[o].sender
      /\ records'[o].sender # 0 => records[o].sender # 0 \/ BoundTo(o) \/ SourceOperation(o)
  BY DEF Tells, Alike, Same, Fitting
<1>6. ThreadsKnow'
  <2>1. \A q \in Op : Exists(q) => records'[q].target = records[q].target
    BY <1>4, <1>5
  <2>2. ASSUME NEW p \in Op, p # o PROVE ThreadKnows(p)'
    BY <1>0, <1>2, <2>1, <2>2, OtherKnows
  <2> QED BY <2>2 DEF ThreadsKnow
<1>7. LiveKnows'
  <2>1. ASSUME NEW p \in producer'.live
        PROVE \/ p \in Op /\ LiveKnown(p)'
              \/ /\ p \in producer.live /\ SourceOperation(p)' = SourceOperation(p)
                 /\ records'[p].prior = records[p].prior /\ records'[p].sender = records[p].sender
    <3>1. CASE p = o
      BY <2>1, <3>1
    <3>2. CASE p # o
      <4>1. p \in producer.live
        BY <2>1, <3>2
      <4>2. p \in Op
        BY <4>1, LiveTypes
      <4> QED BY <1>1, <1>4, <3>2, <4>1, <4>2
    <3> QED BY <3>1, <3>2
  <2> QED BY <2>1, LiveKeeps
<1>8. Forth(o, x) => SourcedCalm
  <2>1. ASSUME Forth(o, x), NEW p \in Op, Sourced(p) PROVE ThreadCalm(p)
    <3>1. CASE p = o
      BY <1>0, <1>1, <1>5, <2>1, <3>1 DEF Forth, Ahead, ThreadCalm, Sourced, Unprepared, Unstarted, BoundTo
    <3>2. CASE p # o
      BY <1>0, <1>1, <1>4, <3>2 DEF ThreadCalm, Unprepared, Unstarted, BoundTo
    <3> QED BY <3>1, <3>2
  <2> QED BY <2>1 DEF SourcedCalm
<1>9. SourcesKnow'
  BY <1>2, <1>8, SourcesRest
<1>10. PollKnows'
  <2>1. \A h \in Op : ~Early(h) => /\ PhaseCalm(h) /\ ~Early(h)' /\ (h \in producer'.live => h \in producer.live)
                                   /\ (records[h].sender # 0 => records'[h].sender = records[h].sender)
    BY <1>0, <1>4, <1>5 DEF Early, Ahead
  <2> QED BY <1>2, <2>1, PollKeeps
<1>11. PlayKnows'
  <2>1. RevokedKept
    BY <1>4, <1>5 DEF RevokedKept
  <2> QED BY <2>1, PlayRests
<1> QED BY <1>2, <1>3, <1>6, <1>7, <1>9, <1>10, <1>11, Assembled

\* A thread that is past its reservation and not about to know how it ends knows nothing special.
Far(x) ==
  /\ x[1] \notin {"idle", "preflight", "reserve", "native", "sender", "cancel"}
  /\ x[1] = "finish" => x[2] # "stopped"

LEMMA FarKnows ==
  ASSUME GateInv, NEW o \in Op, NEW x, Goes(o, x), Far(x)
  PROVE  ThreadKnows(o)'
<1>1. pc'[o] = x
  BY GateTypes, HoldTypes DEF Goes, PCType
<1>2. pc'[o][1] \notin {"idle", "preflight", "reserve", "native", "sender", "cancel"} /\ (pc'[o][1] = "finish" => pc'[o][2] # "stopped")
  BY <1>1 DEF Far
<1>3. ~Early(o)'
  <2>1. x # <<"native", "call">>
    BY DEF Far
  <2> QED BY <1>1, <1>2, <2>1 DEF Early, EarlyAt
<1> QED BY <1>2, <1>3 DEF ThreadKnows

\* A record that is live knows no less when it is brought further.
LEMMA LiveStays ==
  ASSUME GateInv, NEW k \in Op, NEW r, Tells(k, r), Fitting(k, r), NEW o \in producer.live,
         SourceOperation(o)' = SourceOperation(o),
         records'[o].prior = records[o].prior, records'[o].sender = records[o].sender
  PROVE  LiveKnown(o)'
<1>1. o \in Op /\ Exists(o) /\ LiveKnown(o)
      /\ (records[o].prior # 0 => records[o].prior \in Op /\ Exists(records[o].prior))
  BY LiveTypes
<1> QED BY <1>1, NativesKept DEF LiveKnown

\* What is left to show of a step of a thread that at most furthers its record.
LEMMA StepKnows ==
  ASSUME GateInv, HoldInv', NEW o \in Op, NEW x, Goes(o, x), Ahead(o, x), cmd' = cmd, NEW r,
         \/ UNCHANGED producerVars
         \/ /\ Exists(o) /\ Journaled(o, r) /\ Furthers(o, r)
            /\ Outstanding(o) => Fits(r, o) /\ (Silent(r, o) => Revoked(o))
            /\ producer'.live = producer.live
            /\ producer'.active \in {producer.active, 0} \/ (producer'.active = o /\ records[o].native # 0),
         \A h \in Op \ {o} : PhaseCalm(h),
         PhaseCalm(o) \/ (Early(o) /\ (Outstanding(o)' => AccountedFor(o)')),
         (sender' = sender /\ Forth(o, x)) \/ SourcesKnow', poll' = poll, play' = play,
         coord'.fence = coord.fence \/ ~Early(coord.fence)', ThreadKnows(o)'
  PROVE  GateInv'
<1>1. CASE UNCHANGED producerVars
  <2>1. PICK q : q = records[o]
    OBVIOUS
  <2>2. UNCHANGED <<records, disk, producer>>
    BY <1>1 DEF producerVars
  <2>3. Tells(o, q)
    BY <2>2, AlikeSame DEF Tells
  <2>4. Fitting(o, q)
    BY <2>1, <2>2, GateTypes DEF Fitting, Accounted, AccountedFor, Revoked
  <2>5. \A p \in Op : SourceOperation(p)' = SourceOperation(p)
    BY DEF SourceOperation
  <2>6. o \in producer'.live => LiveKnown(o)'
    BY <2>2, <2>3, <2>4, <2>5, LiveStays
  <2>7. q.sender # 0 => BoundTo(o)
    BY <2>1 DEF BoundTo
  <2> QED BY <2>1, <2>2, <2>3, <2>4, <2>6, <2>7, ThreadTells
<1>2. CASE /\ Exists(o) /\ Journaled(o, r) /\ Furthers(o, r)
           /\ Outstanding(o) => Fits(r, o) /\ (Silent(r, o) => Revoked(o))
           /\ producer'.live = producer.live
           /\ producer'.active \in {producer.active, 0} \/ (producer'.active = o /\ records[o].native # 0)
  <2>1. /\ \A p \in Op \ {o} : records'[p] = records[p] /\ disk'[p] = disk[p]
        /\ \/ records'[o] = r /\ disk'[o] = r
           \/ records'[o] = records[o] /\ disk'[o] \in {disk[o], r}
    <3>1. \/ records' = [records EXCEPT ![o] = r] /\ disk' = [disk EXCEPT ![o] = r]
          \/ records' = records /\ disk' \in {disk, [disk EXCEPT ![o] = r]}
      BY <1>2 DEF Journaled, Stored, StoreFailed
    <3>2. records \in [Op -> Record] /\ disk \in [Op -> Record]
      BY GateTypes DEF Inv, Typed, JournalTyped
    <3> QED BY <3>1, <3>2
  <2>2. Tells(o, r)
    BY <2>1 DEF Tells, Alike, Same
  <2>3. records[o].preempted => r.preempted /\ r.native = records[o].native
    BY <1>2 DEF Furthers
  <2>4. Fitting(o, r)
    <3>1. RevokedStays
      BY <1>2, <2>2, <2>3, RevokedKeeps DEF Furthers
    <3> QED BY <1>2, <2>3, <3>1 DEF Fitting, Furthers, RevokedStays
  <2>5. \A p \in Op : SourceOperation(p)' = SourceOperation(p)
    BY DEF SourceOperation
  <2>6. records'[o].prior = records[o].prior /\ records'[o].sender = records[o].sender
        /\ records'[o].native = records[o].native
    BY <1>2, <2>1 DEF Furthers
  <2>7. o \in producer'.live => LiveKnown(o)'
    BY <1>2, <2>2, <2>4, <2>5, <2>6, LiveStays
  <2>8. r.sender = records[o].sender /\ r.target = records[o].target /\ (r.sender # 0 => BoundTo(o))
    BY <1>2 DEF Furthers, BoundTo
  <2>9. producer'.active # 0 => \/ producer'.active = producer.active
                                \/ producer'.active \in Op /\ records'[producer'.active].native # 0
    BY <1>2, <2>6
  <2> QED BY <1>2, <2>2, <2>3, <2>4, <2>7, <2>8, <2>9, ThreadTells
<1> QED BY <1>1, <1>2
-----------------------------------------------------------------------------
(* The writes of a thread *)

\* What is left to show of a write by o's own thread, or of its refusal.
LEMMA WriteKnows ==
  ASSUME GateInv, HoldInv', NEW o \in Op, NEW x, Goes(o, x), Forth(o, x), NEW r,
         UNCHANGED <<native, sender, cmd, coord, play, poll>>,
         \/ UNCHANGED producerVars
         \/ /\ Exists(o) /\ Journaled(o, r) /\ Furthers(o, r)
            /\ Outstanding(o) => Fits(r, o) /\ (Silent(r, o) => Revoked(o))
            /\ producer'.live = producer.live
            /\ producer'.active \in {producer.active, 0} \/ (producer'.active = o /\ records[o].native # 0),
         ThreadKnows(o)'
  PROVE  GateInv'
<1>1. \A h \in Op : PhaseCalm(h)
  BY DEF PhaseCalm
<1> QED BY <1>1, ForthAhead, StepKnows

LEMMA NoneOutstanding ==
  ASSUME GateInv, NEW o \in Op, Early(o) \/ pc[o][1] = "cancel"
  PROVE  ~Outstanding(o)
BY GateTypes DEF ThreadsKnow, ThreadKnows, HoldsAgree, Outstanding

LEMMA PreflightWritesKnow ==
  ASSUME GateInv, HoldInv', NEW o \in Op, PreflightRecord(o) \/ PreflightReject(o), UNCHANGED <<coord, play, poll>>
  PROVE  GateInv'
<1>0. /\ records[o] \in Record /\ ThreadAgrees(o) /\ ThreadKnows(o) /\ pc \in PCType
      /\ records \in [Op -> Record]
  BY GateTypes, HoldTypes DEF ThreadsAgree, ThreadsKnow
<1>1. CASE PreflightRecord(o)
  <2> DEFINE r == [records[o] EXCEPT !.stage = "preflight-prepared", !.peer = o, !.epoch = StateOf(o).epoch]
  <2>1. /\ pc[o] = <<"preflight", "record">> /\ UNCHANGED <<native, sender, cmd>>
        /\ \/ UNCHANGED producerVars
           \/ Exists(o) /\ Journaled(o, r) /\ UNCHANGED producer
    BY <1>1 DEF PreflightRecord, Write, Journaled, StillPreflighting, Exists, At, peerVars
  <2>2. PICK x \in {<<"done", "clean">>, <<"reserve", "check">>} : Goes(o, x)
    BY <1>1 DEF PreflightRecord, Write, Goes, Goto, Clean
  <2>3. Early(o) /\ Unstarted(o) /\ pc'[o] = x /\ Recorded(o) /\ ~SourceOperation(o)
    BY <1>0, <2>1, <2>2 DEF Early, EarlyAt, Unstarted, UnstartedAt, Goes, PCType, Recorded, ThreadAgrees
  <2>4. Forth(o, x) /\ ~Outstanding(o)
    BY <2>2, <2>3, NoneOutstanding DEF Forth, Ahead, UnpreparedAt, BindingAt
  <2>5. Furthers(o, r) /\ r.native = records[o].native /\ r.rejection = records[o].rejection
        /\ r.terminal = records[o].terminal /\ r.sender = records[o].sender
    BY <1>0 DEF Furthers, Record
  <2> HIDE DEF r
  <2>6. ThreadKnows(o)'
    <3>1. CASE x = <<"done", "clean">>
      BY <2>2, <3>1, FarKnows DEF Far
    <3>2. CASE x = <<"reserve", "check">>
      <4>1. records'[o] = records[o] \/ records'[o] = r
        BY <1>0, <2>1 DEF producerVars, Journaled, Stored, StoreFailed
      <4>2. Blank(records[o]) /\ records[o].sender = 0
        BY <1>0, <2>1, <2>3 DEF ThreadKnows
      <4>3. Blank(records'[o]) /\ records'[o].sender = 0
        BY <2>5, <4>1, <4>2 DEF Blank
      <4>4. Blank(records[o])'
        BY <4>3 DEF Blank
      <4>5. pc'[o][1] = "reserve" /\ ~Asking(o)'
        BY <2>3, <3>2 DEF Asking
      <4> QED BY <4>3, <4>4, <4>5 DEF ThreadKnows
    <3> QED BY <2>2, <3>1, <3>2
  <2> QED BY <2>1, <2>2, <2>4, <2>5, <2>6, WriteKnows
<1>2. CASE PreflightReject(o)
  <2> DEFINE r == [records[o] EXCEPT !.stage = "preflight-rejected", !.terminal = TRUE, !.outcome = "rejected"]
  <2>1. /\ pc[o] = <<"preflight", "reject">> /\ UNCHANGED <<native, sender, cmd>>
        /\ Goes(o, <<"done", "clean">>)
        /\ \/ UNCHANGED producerVars
           \/ Exists(o) /\ Journaled(o, r) /\ UNCHANGED producer
    BY <1>2 DEF PreflightReject, Write, Journaled, StillPreflighting, Exists, At, Goes, Goto, Clean, peerVars
  <2>2. Forth(o, <<"done", "clean">>) /\ Far(<<"done", "clean">>) /\ Early(o)
    BY <2>1 DEF Forth, Ahead, Far, Early, EarlyAt, UnpreparedAt, UnstartedAt, BindingAt
  <2>3. ~Outstanding(o)
    BY <2>2, NoneOutstanding
  <2>4. Furthers(o, r)
    BY <1>0 DEF Furthers, Record
  <2>5. ThreadKnows(o)'
    BY <2>1, <2>2, FarKnows
  <2> HIDE DEF r
  <2> QED BY <2>1, <2>2, <2>3, <2>4, <2>5, WriteKnows
<1> QED BY <1>1, <1>2

LEMMA CancelWritesKnow ==
  ASSUME GateInv, HoldInv', NEW o \in Op, CancelJournal(o) \/ CancelRecord(o), UNCHANGED <<coord, play, poll>>
  PROVE  GateInv'
<1>0. records[o] \in Record /\ ThreadKnows(o) /\ Inv /\ pc \in PCType
  BY GateTypes, HoldTypes DEF ThreadsKnow
<1>1. Exists(o) /\ pc[o][1] = "cancel" /\ UNCHANGED <<native, sender, cmd>>
  BY <1>0, ReservedExists DEF CancelJournal, CancelRecord, At, Reserved, peerVars
<1>2. PICK x \in {<<"cancel", "call">>, <<"done", "clean">>, <<"done", "unknown">>} : Goes(o, x)
  BY DEF CancelJournal, CancelRecord, Write, Goes, Goto, Clean, Unknown
<1>3. Forth(o, x) /\ ~Outstanding(o)
  BY <1>1, <1>2, NoneOutstanding DEF Forth, Ahead, EarlyAt, UnpreparedAt, UnstartedAt, Unstarted, BindingAt
<1>4. ThreadKnows(o)'
  <2>1. CASE x = <<"cancel", "call">>
    <3>1. pc'[o][1] = "cancel" /\ ~Early(o)'
      BY <1>0, <1>2, <2>1 DEF Goes, PCType, Early, EarlyAt
    <3>2. native'.phase[o] = "rejected"
      BY <1>0, <1>1 DEF ThreadKnows
    <3> QED BY <3>1, <3>2 DEF ThreadKnows
  <2>2. CASE x # <<"cancel", "call">>
    BY <1>2, <2>2, FarKnows DEF Far
  <2> QED BY <2>1, <2>2
<1>5. CASE CancelJournal(o)
  <2> DEFINE r == [records[o] EXCEPT !.rejection = TRUE, !.stage = "candidate-cancel-attempted"]
  <2>1. \/ UNCHANGED producerVars
        \/ Journaled(o, r) /\ UNCHANGED producer
    BY <1>5 DEF CancelJournal, Write, Journaled
  <2>2. Furthers(o, r)
    BY <1>0 DEF Furthers, Record
  <2> HIDE DEF r
  <2> QED BY <1>1, <1>2, <1>3, <1>4, <2>1, <2>2, WriteKnows
<1>6. CASE CancelRecord(o)
  <2> DEFINE r == [records[o] EXCEPT !.terminal = TRUE, !.outcome = "rejected", !.stage = "no-effects-rejected"]
  <2>1. \/ UNCHANGED producerVars
        \/ Journaled(o, r) /\ UNCHANGED producer
    BY <1>6 DEF CancelRecord, Write, Journaled
  <2>2. Furthers(o, r)
    BY <1>0 DEF Furthers, Record
  <2> HIDE DEF r
  <2> QED BY <1>1, <1>2, <1>3, <1>4, <2>1, <2>2, WriteKnows
<1> QED BY <1>5, <1>6

\* What the gate reads of a record that goes on from one stage to another.
LEMMA FurtherFits ==
  ASSUME GateInv, NEW o \in Op, NEW r, r.stage \notin Unasked, r.native = records[o].native, r.sender = records[o].sender,
         r.rejection = records[o].rejection, r.terminal = records[o].terminal, r.playing = records[o].playing
  PROVE  Outstanding(o) => Fits(r, o) /\ (Silent(r, o) => Revoked(o))
BY GateTypes DEF Accounted, AccountedFor, Fits, Silent

LEMMA EffectWritesKnow ==
  ASSUME GateInv, HoldInv', NEW o \in Op, Admit(o) \/ Advance(o), UNCHANGED <<coord, play, poll>>
  PROVE  GateInv'
<1>0. records[o] \in Record /\ Inv
  BY GateTypes, HoldTypes
<1>1. CASE Admit(o)
  <2>1. PICK effect \in Effect :
          /\ At(o, effect, "admit") /\ UNCHANGED <<peerVars, cmd>>
          /\ \/ /\ Write(o, [records[o] EXCEPT !.stage = Attempt[effect]], producer,
                          Goto(o, effect, IF effect \in ReadsFirst THEN "read" ELSE "call"), Unknown(o))
             \/ Unknown(o) /\ UNCHANGED <<producerVars, faults>>
    BY <1>1 DEF Admit
  <2> DEFINE r == [records[o] EXCEPT !.stage = Attempt[effect]]
  <2>2. PICK x \in {<<effect, "read">>, <<effect, "call">>, <<"done", "unknown">>} : Goes(o, x)
    BY <2>1 DEF Write, Goes, Goto, Unknown
  <2>3. pc[o] = <<effect, "admit">> /\ effect \in Reserved
    BY <2>1 DEF At, Effect, Reserved
  <2>4. Exists(o) /\ UNCHANGED <<native, sender, cmd>>
    BY <1>0, <2>1, <2>3, ReservedExists DEF peerVars
  <2>5. Forth(o, x) /\ Far(x)
    <3>1. ~EarlyAt(x) /\ ~UnpreparedAt(x) /\ ~BindingAt(x) /\ Far(x)
      BY <2>1, <2>2 DEF Effect, EarlyAt, UnpreparedAt, BindingAt, Far
    <3>2. UnstartedAt(x) => Unstarted(o)
      BY <2>1, <2>2, <2>3 DEF Effect, UnstartedAt, Unstarted
    <3> QED BY <3>1, <3>2 DEF Forth, Ahead
  <2>6. \/ UNCHANGED producerVars
        \/ Journaled(o, r) /\ UNCHANGED producer
    BY <2>1 DEF Write, Journaled
  <2>7. Attempt[effect] \notin Unasked
    BY <2>1 DEF Effect, Attempt, Unasked, PreflightStage
  <2>8. /\ Furthers(o, r) /\ r.stage \notin Unasked /\ r.native = records[o].native /\ r.sender = records[o].sender
        /\ r.rejection = records[o].rejection /\ r.terminal = records[o].terminal /\ r.playing = records[o].playing
    BY <1>0, <2>7 DEF Furthers, Record, Unasked
  <2> HIDE DEF r
  <2>9. ThreadKnows(o)' /\ (Outstanding(o) => Fits(r, o) /\ (Silent(r, o) => Revoked(o)))
    BY <2>2, <2>5, <2>8, FarKnows, FurtherFits
  <2> QED BY <2>2, <2>4, <2>5, <2>6, <2>8, <2>9, WriteKnows
<1>2. CASE Advance(o)
  <2>1. PICK effect \in {"suspend", "start", "volume"} :
          /\ At(o, effect, "record") /\ UNCHANGED <<peerVars, cmd>>
          /\ \/ Write(o, [records[o] EXCEPT !.stage = Done(effect)], producer, Proceed(o, effect), Unknown(o))
             \/ Unknown(o) /\ UNCHANGED <<producerVars, faults>>
    BY <1>2 DEF Advance
  <2> DEFINE r == [records[o] EXCEPT !.stage = Done(effect)]
  <2>2. PICK x \in {<<Following(o, effect), "admit">>, <<"done", "unknown">>} : Goes(o, x)
    BY <2>1 DEF Write, Goes, Goto, Unknown, Proceed
  <2>3. pc[o] = <<effect, "record">> /\ effect \in Reserved /\ Done(effect) \notin Unasked
    BY <2>1 DEF At, Reserved, Done, Unasked, PreflightStage
  <2>4. Exists(o) /\ UNCHANGED <<native, sender, cmd>>
    BY <1>0, <2>1, <2>3, ReservedExists DEF peerVars
  <2>5. Following(o, effect) \in {"start", "finish"} /\ (Following(o, effect) = "start" => effect = "suspend")
    BY <2>1 DEF Following
  <2>6. Forth(o, x) /\ Far(x)
    <3>1. ~EarlyAt(x) /\ ~UnpreparedAt(x) /\ ~BindingAt(x) /\ Far(x)
      BY <2>2, <2>5 DEF EarlyAt, UnpreparedAt, BindingAt, Far
    <3>2. UnstartedAt(x) => Unstarted(o)
      BY <2>2, <2>3, <2>5 DEF UnstartedAt, Unstarted
    <3> QED BY <3>1, <3>2 DEF Forth, Ahead
  <2>7. \/ UNCHANGED producerVars
        \/ Journaled(o, r) /\ UNCHANGED producer
    BY <2>1 DEF Write, Journaled
  <2>8. /\ Furthers(o, r) /\ r.stage \notin Unasked /\ r.native = records[o].native /\ r.sender = records[o].sender
        /\ r.rejection = records[o].rejection /\ r.terminal = records[o].terminal /\ r.playing = records[o].playing
    BY <1>0, <2>3 DEF Furthers, Record, Unasked
  <2> HIDE DEF r
  <2>9. ThreadKnows(o)' /\ (Outstanding(o) => Fits(r, o) /\ (Silent(r, o) => Revoked(o)))
    BY <2>2, <2>6, <2>8, FarKnows, FurtherFits
  <2> QED BY <2>2, <2>4, <2>6, <2>7, <2>8, <2>9, WriteKnows
<1> QED BY <1>1, <1>2

\* An operation that ends stopped had its hold revoked.
LEMMA FinishRecordKnows ==
  ASSUME GateInv, HoldInv', NEW o \in Op, FinishRecord(o), UNCHANGED <<coord, play, poll>>
  PROVE  GateInv'
<1>0. records[o] \in Record /\ ThreadKnows(o) /\ Inv
  BY GateTypes, HoldTypes DEF ThreadsKnow
<1>1. PICK state \in {"playing", "stopped"} :
        /\ At(o, "finish", state) /\ UNCHANGED <<peerVars, cmd>>
        /\ \/ Write(o, [records[o] EXCEPT !.terminal = TRUE, !.outcome = "committed",
                                         !.stage = "terminal", !.playing = (state = "playing")],
                   [producer EXCEPT !.active = IF state = "playing" THEN o ELSE 0],
                   Goto(o, "done", state), Unknown(o))
           \/ Unknown(o) /\ UNCHANGED <<producerVars, faults>>
  BY DEF FinishRecord
<1> DEFINE r == [records[o] EXCEPT !.terminal = TRUE, !.outcome = "committed",
                                   !.stage = "terminal", !.playing = (state = "playing")]
<1>2. PICK x \in {<<"done", state>>, <<"done", "unknown">>} : Goes(o, x)
  BY <1>1 DEF Write, Goes, Goto, Unknown
<1>3. pc[o] = <<"finish", state>> /\ "finish" \in Reserved /\ "finish" \in Holding
  BY <1>1 DEF At, Reserved, Holding
<1>4. Exists(o) /\ records[o].native # 0 /\ UNCHANGED <<native, sender, cmd>>
  BY <1>0, <1>1, <1>3 DEF peerVars, Inv, Placed
<1>5. Forth(o, x) /\ Far(x)
  BY <1>2 DEF Forth, Ahead, EarlyAt, UnpreparedAt, UnstartedAt, BindingAt, Far
<1>6. \/ UNCHANGED producerVars
      \/ Journaled(o, r) /\ producer'.live = producer.live /\ producer'.active \in {producer.active, 0, o}
  BY <1>1, GateTypes, HoldTypes DEF Write, Journaled, ProducerType
<1>7. Furthers(o, r) /\ r.terminal /\ r.rejection = records[o].rejection /\ r.stage \notin Unasked
      /\ r.playing = (state = "playing") /\ r.native = records[o].native /\ r.sender = records[o].sender
  BY <1>0 DEF Furthers, Record, Unasked, PreflightStage
<1> HIDE DEF r
<1>8. Outstanding(o) => Fits(r, o) /\ (Silent(r, o) => Revoked(o))
  <2>1. SUFFICES ASSUME Outstanding(o) PROVE Fits(r, o) /\ (Silent(r, o) => Revoked(o))
    OBVIOUS
  <2>2. Fits(r, o) /\ records[o].native = o
    BY <1>4, <1>7, <2>1, GateTypes DEF Accounted, AccountedFor, Fits
  <2>3. state = "stopped" => Revoked(o)
    BY <1>0, <1>3, <2>1 DEF ThreadKnows
  <2> QED BY <1>1, <1>7, <2>2, <2>3 DEF Silent
<1>9. ThreadKnows(o)'
  BY <1>2, <1>5, FarKnows
<1> QED BY <1>2, <1>4, <1>5, <1>6, <1>7, <1>8, <1>9, WriteKnows

\* A thread's step that rewrites nothing that matters here.
LEMMA ThreadRests ==
  ASSUME GateInv, HoldInv', NEW o \in Op, NEW x, Goes(o, x), Forth(o, x), cmd' = cmd,
         \A p \in Op : Alike(p), producer'.live = producer.live, producer'.active = producer.active,
         \A h \in Op : PhaseCalm(h), sender' = sender, poll' = poll, play' = play,
         coord'.fence = coord.fence \/ ~Early(coord.fence)', ThreadKnows(o)'
  PROVE  GateInv'
<1>1. PICK q : q = records[o]
  OBVIOUS
<1>2. Tells(o, q)
  BY DEF Tells
<1>3. Fitting(o, q)
  <2>1. SealedHolds' /\ RevokedStays
    BY <1>1, <1>2, RevokedKeeps
  <2> QED BY <1>1, <2>1, GateTypes DEF Fitting, Accounted, AccountedFor, RevokedStays
<1>4. SourceOperation(o)' = SourceOperation(o) /\ records'[o].prior = records[o].prior
      /\ records'[o].sender = records[o].sender
  BY DEF SourceOperation, Alike, Same
<1>5. o \in producer'.live => LiveKnown(o)'
  BY <1>2, <1>3, <1>4, LiveStays
<1>6. q.sender # 0 => BoundTo(o)
  BY <1>1 DEF BoundTo
<1> QED BY <1>1, <1>2, <1>3, <1>5, <1>6, ForthAhead, ThreadTells

LEMMA JournalTells ==
  ASSUME JournalTyped, NEW o \in Op, NEW r, Journaled(o, r)
  PROVE  /\ Tells(o, r)
         /\ \A p \in Op \ {o} : records'[p] = records[p] /\ disk'[p] = disk[p]
         /\ \/ records'[o] = r /\ disk'[o] = r
            \/ records'[o] = records[o]
<1>1. \/ records' = [records EXCEPT ![o] = r] /\ disk' = [disk EXCEPT ![o] = r]
      \/ records' = records /\ disk' \in {disk, [disk EXCEPT ![o] = r]}
  BY DEF Journaled, Stored, StoreFailed
<1>2. /\ \A p \in Op \ {o} : records'[p] = records[p] /\ disk'[p] = disk[p]
      /\ \/ records'[o] = r /\ disk'[o] = r
         \/ records'[o] = records[o] /\ disk'[o] \in {disk[o], r}
  BY <1>1 DEF JournalTyped
<1> QED BY <1>2 DEF Tells, Alike, Same

LEMMA StopWritesKnow ==
  ASSUME GateInv, HoldInv', NEW o \in Op, StopRecord(o), UNCHANGED <<coord, play, poll>>
  PROVE  GateInv'
<1> DEFINE own == [records[o] EXCEPT !.ticket = Plain, !.stage = "stopped"]
           src == Incumbent(o)
           of == [records[src] EXCEPT !.drained = TRUE, !.ticket = Plain]
           first == IF records[o].prior # 0 THEN [records EXCEPT ![src] = of] ELSE records
           onDisk == IF records[o].prior # 0 THEN [disk EXCEPT ![src] = of] ELSE disk
<1>0. records[o] \in Record /\ Inv /\ records \in [Op -> Record] /\ disk \in [Op -> Record]
  BY GateTypes, HoldTypes DEF Inv, Typed, JournalTyped
<1>1. /\ At(o, "stop", "record") /\ UNCHANGED <<native, sender, cmd, producer>>
      /\ records' \in {records, first, [first EXCEPT ![o] = own]}
      /\ disk' \in {disk, onDisk, [onDisk EXCEPT ![o] = own]}
  BY DEF StopRecord, peerVars
<1>2. PICK x \in {<<Following(o, "stop"), "admit">>, <<"done", "unknown">>} : Goes(o, x)
  BY DEF StopRecord, Proceed, Goto, Unknown, Goes
<1>3. Following(o, "stop") \in {"finish", "suspend"}
  BY DEF Following
<1>4. Forth(o, x) /\ Far(x)
  <2>1. ~EarlyAt(x) /\ ~UnpreparedAt(x) /\ ~BindingAt(x) /\ Far(x)
    BY <1>2, <1>3 DEF EarlyAt, UnpreparedAt, BindingAt, Far
  <2>2. Unstarted(o)
    BY <1>1 DEF At, Unstarted, UnstartedAt
  <2> QED BY <2>1, <2>2 DEF Forth, Ahead
<1>5. Same(own, records[o]) /\ (src \in Op => Same(of, records[src]))
  <2>1. Same(own, records[o])
    BY <1>0 DEF Same, Record, Unasked, PreflightStage
  <2>2. ASSUME src \in Op PROVE Same(of, records[src])
    BY <1>0, <2>2 DEF Same, Record
  <2> QED BY <2>1, <2>2
<1>6. \A p \in Op : /\ \/ records'[p] = records[p]
                       \/ p = o /\ records'[p] = own
                       \/ p = src /\ records'[p] = of
                    /\ \/ disk'[p] = disk[p]
                       \/ p = o /\ disk'[p] = own
                       \/ p = src /\ disk'[p] = of
  <2> HIDE DEF own, of, src
  <2>1. /\ first \in [Op -> {first[p] : p \in Op}] /\ \A p \in Op : first[p] = records[p] \/ (p = src /\ first[p] = of)
        /\ onDisk \in [Op -> {onDisk[p] : p \in Op}] /\ \A p \in Op : onDisk[p] = disk[p] \/ (p = src /\ onDisk[p] = of)
    BY <1>0
  <2> HIDE DEF first, onDisk
  <2> QED BY <1>1, <2>1
<1> HIDE DEF own, of, src, first, onDisk
<1>7. ASSUME NEW p \in Op PROVE Alike(p)
  <2>1. Same(records[p], records[p]) /\ Same(disk[p], disk[p])
    BY DEF Same
  <2>2. p = o => Same(own, records[p])
    BY <1>5
  <2>3. p = src => Same(of, records[p])
    BY <1>5
  <2> QED BY <1>6, <2>1, <2>2, <2>3 DEF Alike
<1>8. \A h \in Op : PhaseCalm(h)
  BY <1>1 DEF PhaseCalm
<1>9. ThreadKnows(o)'
  BY <1>2, <1>4, FarKnows
<1> QED BY <1>1, <1>2, <1>4, <1>7, <1>8, <1>9, ThreadRests

-----------------------------------------------------------------------------
(* The writes that bind an operation to its hold and source *)

LEMMA PreflightJournalKnows ==
  ASSUME GateInv, HoldInv', NEW o \in Op, PreflightJournal(o), UNCHANGED <<coord, play, poll>>
  PROVE  GateInv'
<1> DEFINE r == [NoRecord EXCEPT !.stage = "preflight-attempted", !.target = cmd[o].target]
<1>0. /\ JournalTyped /\ pc \in PCType /\ producer \in ProducerType
      /\ pc[o] = <<"preflight", "journal">> /\ UNCHANGED <<sender, cmd>> /\ native'.phase = native.phase
  <2>1. native' \in {native, IntentCaptured(o)} /\ native \in NativeType
    BY GateTypes, HoldTypes DEF PreflightJournal, Write
  <2>2. native'.phase = native.phase
    BY <2>1 DEF IntentCaptured, NativeType
  <2> QED BY <2>2, GateTypes, HoldTypes DEF PreflightJournal, At, Inv, Typed
<1>1. \/ /\ Journaled(o, r)
         /\ \/ /\ Stored(o, r) /\ producer' = [producer EXCEPT !.live = @ \cup {o}]
               /\ Goes(o, <<"preflight", "call">>)
            \/ /\ StoreFailed(o, r) /\ producer' = producer /\ Goes(o, <<"done", "clean">>)
      \/ UNCHANGED producerVars /\ Goes(o, <<"done", "clean">>)
  BY DEF PreflightJournal, Write, Journaled, Goes, Goto, Clean, producerVars
<1>2. /\ ~Exists(o) /\ Early(o) /\ Unprepared(o) /\ Unstarted(o)
      /\ ~SourceOperation(o) /\ o \notin producer.live
  BY <1>0, GateTypes, LiveExists
     DEF Inv, Placed, Unjournaled, Early, EarlyAt, Unprepared, UnpreparedAt, Unstarted, UnstartedAt, ThreadsAgree, ThreadAgrees
<1>3. ~Outstanding(o) /\ ~records[o].preempted
  BY <1>2, NoneOutstanding, GateTypes DEF Inv, Sealed
<1>4. \A h \in Op : PhaseCalm(h)
  BY <1>0 DEF PhaseCalm
<1>5. /\ r.target = cmd[o].target /\ r.native = 0 /\ r.sender = 0 /\ r.prior = 0 /\ ~r.rejection
      /\ ~r.terminal /\ ~r.preempted /\ r.stage = "preflight-attempted"
  BY DEF NoRecord
<1> HIDE DEF r
<1>6. CASE UNCHANGED producerVars /\ Goes(o, <<"done", "clean">>)
  <2>1. Forth(o, <<"done", "clean">>) /\ Far(<<"done", "clean">>)
    BY DEF Forth, Ahead, EarlyAt, UnpreparedAt, UnstartedAt, BindingAt, Far
  <2>2. ThreadKnows(o)'
    BY <1>6, <2>1, FarKnows
  <2> QED BY <1>0, <1>4, <1>6, <2>1, <2>2, ForthAhead, StepKnows
<1>7. CASE Journaled(o, r) /\ ~(UNCHANGED producerVars /\ Goes(o, <<"done", "clean">>))
  <2>1. Tells(o, r) /\ Fitting(o, r)
    BY <1>0, <1>2, <1>3, <1>7, JournalTells DEF Fitting
  <2>2. PICK x \in {<<"preflight", "call">>, <<"done", "clean">>} :
          /\ Goes(o, x) /\ Forth(o, x)
          /\ x = <<"preflight", "call">> => records'[o] = r
          /\ o \in producer'.live => records'[o] = r
          /\ x = <<"done", "clean">> => Far(x)
    <3>1. CASE Stored(o, r) /\ producer' = [producer EXCEPT !.live = @ \cup {o}] /\ Goes(o, <<"preflight", "call">>)
      <4>1. records'[o] = r
        BY <1>0, <3>1 DEF Stored, JournalTyped
      <4>2. Forth(o, <<"preflight", "call">>)
        BY <1>2 DEF Forth, Ahead, BindingAt
      <4> QED BY <3>1, <4>1, <4>2
    <3>2. CASE StoreFailed(o, r) /\ producer' = producer /\ Goes(o, <<"done", "clean">>)
      <4>1. Forth(o, <<"done", "clean">>) /\ Far(<<"done", "clean">>)
        BY DEF Forth, Ahead, EarlyAt, UnpreparedAt, UnstartedAt, BindingAt, Far
      <4> QED BY <1>2, <3>2, <4>1
    <3> QED BY <1>1, <1>7, <3>1, <3>2
  <2>3. pc'[o] = x
    BY <1>0, <2>2 DEF Goes, PCType
  <2>4. producer'.live \in {producer.live, producer.live \cup {o}} /\ producer'.active = producer.active
    BY <1>0, <1>1 DEF producerVars, ProducerType
  <2>5. o \in producer'.live => LiveKnown(o)'
    BY <1>5, <2>2 DEF LiveKnown
  <2>6. ThreadKnows(o)'
    <3>1. CASE x = <<"done", "clean">>
      BY <2>2, <3>1, FarKnows
    <3>2. CASE x = <<"preflight", "call">>
      <4>1. Blank(records'[o]) /\ records'[o].sender = 0
        BY <1>5, <2>2, <3>2 DEF Blank
      <4>2. Blank(records[o])'
        BY <4>1 DEF Blank
      <4>3. pc'[o][1] = "preflight" /\ ~Asking(o)'
        BY <2>3, <3>2 DEF Asking
      <4> QED BY <4>1, <4>2, <4>3 DEF ThreadKnows
    <3> QED BY <2>2, <3>1, <3>2
  <2> QED BY <1>0, <1>2, <1>3, <1>4, <1>5, <2>1, <2>2, <2>4, <2>5, <2>6, ForthAhead, ThreadTells
<1> QED BY <1>1, <1>6, <1>7

LEMMA ReserveJournalKnows ==
  ASSUME GateInv, HoldInv', NEW o \in Op, ReserveJournal(o), UNCHANGED <<coord, play, poll>>
  PROVE  GateInv'
<1> DEFINE r == Reservation(o)
<1>0. /\ JournalTyped /\ pc \in PCType /\ producer \in ProducerType /\ records[o] \in Record
      /\ pc[o] = <<"reserve", "journal">> /\ UNCHANGED <<native, sender, cmd>>
  BY GateTypes, HoldTypes DEF ReserveJournal, At, Inv, Typed, peerVars
<1>1. \/ /\ MayReserve(o)
         /\ \/ /\ Stored(o, r) /\ producer' = [producer EXCEPT !.live = @ \cup {o}]
               /\ Goes(o, <<"native", "call">>)
            \/ /\ StoreFailed(o, r) /\ producer' = producer /\ Goes(o, <<"done", "unknown">>)
      \/ UNCHANGED producerVars /\ Goes(o, <<"done", "unknown">>)
  BY DEF ReserveJournal, Write, Goes, Goto, Unknown, producerVars
<1>2. /\ Early(o) /\ Unstarted(o) /\ ~Outstanding(o) /\ ThreadKnows(o) /\ ThreadAgrees(o)
  <2>1. Early(o) /\ Unstarted(o)
    BY <1>0 DEF Early, EarlyAt, Unstarted, UnstartedAt
  <2> QED BY <2>1, NoneOutstanding, GateTypes DEF ThreadsKnow, ThreadsAgree
<1>3. Forth(o, <<"done", "unknown">>) /\ Far(<<"done", "unknown">>) /\ Forth(o, <<"native", "call">>)
  BY <1>2 DEF Forth, Ahead, EarlyAt, UnpreparedAt, UnstartedAt, BindingAt, Far
<1>4. \A h \in Op : PhaseCalm(h)
  BY <1>0 DEF PhaseCalm
<1>5. CASE UNCHANGED producerVars /\ Goes(o, <<"done", "unknown">>)
  <2>1. ThreadKnows(o)'
    BY <1>3, <1>5, FarKnows
  <2> QED BY <1>0, <1>3, <1>4, <1>5, <2>1, ForthAhead, StepKnows
<1>6. CASE /\ MayReserve(o)
           /\ \/ /\ Stored(o, r) /\ producer' = [producer EXCEPT !.live = @ \cup {o}]
                 /\ Goes(o, <<"native", "call">>)
              \/ /\ StoreFailed(o, r) /\ producer' = producer /\ Goes(o, <<"done", "unknown">>)
  <2> DEFINE a == producer.active
             base == IF SourceOperation(o)
                     THEN [NoRecord EXCEPT !.target = cmd[o].target, !.peer = records[a].peer,
                                           !.epoch = records[a].epoch]
                     ELSE records[o]
             kept == producer.retained[cmd[o].target]
             n == IF kept.native # 0 /\ kept.epoch = base.epoch THEN kept.native ELSE 0
  <2>1. /\ SourceOperation(o) => ~Exists(o) /\ o \notin producer.live
        /\ ~SourceOperation(o) => o \in producer.live /\ Exists(o) /\ Recorded(o)
    BY <1>0, <1>2, <1>6, LiveExists, GateTypes DEF MayReserve, ThreadAgrees, Recorded
  <2>2. a # 0 => /\ a \in Op /\ Exists(a) /\ records[a].native # 0
    BY GateTypes, LiveExists DEF LiveKnows, RecordsAgree
  <2>3. /\ base.native = 0 /\ base.sender = 0 /\ ~base.rejection /\ ~base.terminal
        /\ ~SourceOperation(o) => base = records[o]
    <3>1. CASE SourceOperation(o)
      <4>1. base = [NoRecord EXCEPT !.target = cmd[o].target, !.peer = records[a].peer, !.epoch = records[a].epoch]
        BY <3>1
      <4> QED BY <3>1, <4>1 DEF NoRecord
    <3>2. CASE ~SourceOperation(o)
      BY <1>0, <1>2, <2>1, <3>2 DEF ThreadKnows, Blank
    <3> QED BY <3>1, <3>2
  <2>4. r = [base EXCEPT !.stage = "native-reserve-attempted", !.prior = a, !.retained = n]
    BY Zenon DEF Reservation
  <2>5. DOMAIN base = DOMAIN NoRecord
    <3>1. CASE SourceOperation(o)
      BY <3>1
    <3>2. CASE ~SourceOperation(o)
      BY <1>0, <3>2 DEF Record, NoRecord
    <3> QED BY <3>1, <3>2
  <2> HIDE DEF n, base, a
  <2>6. /\ r.stage = "native-reserve-attempted" /\ r.prior = a /\ r.native = base.native /\ r.sender = base.sender
        /\ r.rejection = base.rejection /\ r.terminal = base.terminal /\ r.preempted = base.preempted
        /\ r.target = base.target
    BY <2>4, <2>5 DEF NoRecord
  <2> HIDE DEF r
  <2>7. /\ r.native = 0 /\ r.sender = 0 /\ Blank(r) /\ r.stage \notin Unasked
        /\ records[o].preempted => r.preempted /\ records[o].native = 0
    <3>1. records[o].preempted => ~SourceOperation(o)
      BY <2>1, GateTypes DEF Inv, Sealed
    <3> QED BY <2>3, <2>6, <3>1 DEF Blank, Unasked, PreflightStage
  <2>8. Tells(o, r) /\ (\A p \in Op \ {o} : records'[p] = records[p] /\ disk'[p] = disk[p])
        /\ (records'[o] = r \/ records'[o] = records[o])
    BY <1>0, <1>6, JournalTells DEF Journaled
  <2>9. Exists(o) => records[o].native = 0 /\ r.target = records[o].target
    BY <2>1, <2>3, <2>6
  <2>10. Fitting(o, r)
    BY <1>2, <2>7, <2>9 DEF Fitting
  <2>11. PICK x \in {<<"native", "call">>, <<"done", "unknown">>} :
           /\ Goes(o, x)
           /\ x = <<"native", "call">> => records'[o] = r /\ disk'[o] = r
           /\ o \in producer'.live => records'[o] = r \/ (o \in producer.live /\ records'[o] = records[o])
    BY <1>0, <1>6 DEF Stored, StoreFailed, JournalTyped
  <2>12. Forth(o, x) /\ (x # <<"native", "call">> => Far(x))
    BY <1>3, <2>11
  <2>13. producer'.live \in {producer.live, producer.live \cup {o}} /\ producer'.active = producer.active
    BY <1>0, <1>6 DEF ProducerType
  <2>14. ASSUME o \in producer'.live PROVE LiveKnown(o)'
    <3>1. CASE records'[o] = r
      <4>1. a # 0 => a # o
        BY <2>1, <2>2, <2>3
      <4>2. a # 0 => records'[a].native # 0
        BY <2>2, <2>8, <4>1
      <4> QED BY <2>6, <2>7, <3>1, <4>2 DEF LiveKnown
    <3>2. CASE o \in producer.live /\ records'[o] = records[o]
      BY <1>0, <2>8, <2>10, <3>2, LiveStays DEF SourceOperation
    <3> QED BY <2>11, <2>14, <3>1, <3>2
  <2>15. ThreadKnows(o)'
    <3>1. CASE x # <<"native", "call">>
      BY <2>11, <2>12, <3>1, FarKnows
    <3>2. CASE x = <<"native", "call">>
      <4>1. pc'[o] = <<"native", "call">>
        BY <1>0, <2>11, <3>2 DEF Goes, PCType
      <4>2. Blank(records[o])' /\ Blank(disk[o])' /\ records'[o].sender = 0 /\ records'[o].native = 0
            /\ records'[o].stage \notin Unasked /\ disk'[o].stage \notin Unasked
        BY <2>7, <2>11, <3>2 DEF Blank
      <4>3. pc'[o][1] = "native" /\ pc'[o][2] = "call"
        BY <4>1
      <4> QED BY <4>2, <4>3 DEF ThreadKnows
    <3> QED BY <3>1, <3>2
  <2> QED BY <1>0, <1>2, <1>4, <2>7, <2>8, <2>9, <2>10, <2>11, <2>12, <2>13, <2>14, <2>15, ForthAhead, ThreadTells
<1> QED BY <1>1, <1>5, <1>6

LEMMA NativeRecordKnows ==
  ASSUME GateInv, HoldInv', NEW o \in Op, NativeRecord(o), UNCHANGED <<coord, play, poll>>
  PROVE  GateInv'
<1> DEFINE h == IF Reused(o) # 0 THEN Reused(o) ELSE o
           r == [records[o] EXCEPT !.native = h, !.stage = "sender-reserve-attempted"]
<1>0. /\ JournalTyped /\ pc \in PCType /\ records[o] \in Record
      /\ pc[o] = <<"native", "record">> /\ UNCHANGED <<native, sender, cmd, producer>>
      /\ ThreadKnows(o) /\ ThreadAgrees(o)
  BY GateTypes, HoldTypes DEF NativeRecord, Write, At, Inv, Typed, peerVars, producerVars, ThreadsKnow, ThreadsAgree
<1>1. \/ /\ ~Fenced(o)
         /\ \/ Stored(o, r) /\ Goes(o, <<"sender", "call">>)
            \/ StoreFailed(o, r) /\ Goes(o, <<"done", "unknown">>)
      \/ UNCHANGED producerVars /\ Goes(o, <<"done", "unknown">>)
  BY DEF NativeRecord, Write, Goes, Goto, Unknown, producerVars
<1>2. Forth(o, <<"done", "unknown">>) /\ Far(<<"done", "unknown">>) /\ Forth(o, <<"sender", "call">>)
  <2>1. Unstarted(o)
    BY <1>0 DEF Unstarted, UnstartedAt
  <2> QED BY <2>1 DEF Forth, Ahead, EarlyAt, UnpreparedAt, UnstartedAt, BindingAt, Far
<1>3. \A p \in Op : PhaseCalm(p)
  BY <1>0 DEF PhaseCalm
<1>4. CASE UNCHANGED producerVars /\ Goes(o, <<"done", "unknown">>)
  <2>1. ThreadKnows(o)'
    BY <1>2, <1>4, FarKnows
  <2> QED BY <1>0, <1>2, <1>3, <1>4, <2>1, ForthAhead, StepKnows
<1>5. CASE /\ ~Fenced(o)
           /\ \/ Stored(o, r) /\ Goes(o, <<"sender", "call">>)
              \/ StoreFailed(o, r) /\ Goes(o, <<"done", "unknown">>)
  <2>1. o \in producer.live /\ records[o].native = 0 /\ records[o].sender = 0 /\ ~records[o].preempted
    BY <1>0, <1>5 DEF ThreadKnows, ThreadAgrees, Recorded, Reserved, Fenced
  <2>2. h # 0 /\ (Outstanding(o) => h = o)
    <3>1. native.phase[o] # "none" => Reused(o) = 0
      BY <1>0 DEF ThreadKnows
    <3> QED BY <3>1, OpBasic DEF Outstanding
  <2> HIDE DEF h
  <2>3. /\ r.stage \notin Unasked /\ r.native = h /\ r.target = records[o].target /\ r.sender = records[o].sender
        /\ r.prior = records[o].prior /\ r.rejection = records[o].rejection /\ r.terminal = records[o].terminal
        /\ r.playing = records[o].playing /\ r.preempted = records[o].preempted
    BY <1>0 DEF Record, Unasked, PreflightStage
  <2> HIDE DEF r
  <2>4. Tells(o, r) /\ (\A p \in Op \ {o} : records'[p] = records[p])
        /\ (records'[o] = r \/ records'[o] = records[o])
    BY <1>0, <1>5, JournalTells DEF Journaled
  <2>5. Fitting(o, r)
    <3>1. Outstanding(o) => Fits(records[o], o) /\ (Silent(records[o], o) => Revoked(o))
      BY GateTypes DEF Accounted, AccountedFor
    <3>2. RevokedStays
      BY <2>1, <2>3, <2>4, RevokedKeeps
    <3> QED BY <2>1, <2>2, <2>3, <3>1, <3>2 DEF Fitting, Fits, Silent, RevokedStays
  <2>6. PICK x \in {<<"sender", "call">>, <<"done", "unknown">>} : Goes(o, x) /\ Forth(o, x)
    BY <1>2, <1>5
  <2>7. pc'[o] = x /\ SourceOperation(o)' = SourceOperation(o)
    BY <1>0, <2>6 DEF Goes, PCType, SourceOperation
  <2>8. LiveKnown(o)'
    <3>1. records'[o].prior = records[o].prior /\ records'[o].sender = records[o].sender
      BY <2>3, <2>4
    <3> QED BY <2>1, <2>4, <2>5, <2>7, <3>1, LiveStays
  <2>9. ThreadKnows(o)'
    <3>1. CASE x = <<"done", "unknown">>
      BY <2>6, <3>1, FarKnows DEF Far
    <3>2. CASE x = <<"sender", "call">>
      <4>1. pc'[o] = <<"sender", "call">> /\ records'[o].sender = 0
        BY <2>1, <2>3, <2>4, <2>7, <3>2
      <4>2. pc'[o][1] = "sender" /\ ~Early(o)'
        BY <4>1 DEF Early, EarlyAt
      <4> QED BY <4>1, <4>2 DEF ThreadKnows
    <3> QED BY <2>6, <3>1, <3>2
  <2> QED BY <1>0, <1>3, <2>1, <2>3, <2>4, <2>5, <2>6, <2>8, <2>9, ForthAhead, ThreadTells
<1> QED BY <1>1, <1>4, <1>5

LEMMA SenderRecordKnows ==
  ASSUME GateInv, HoldInv', NEW o \in Op, SenderRecord(o), UNCHANGED <<coord, play, poll>>
  PROVE  GateInv'
<1> DEFINE source == IF SourceOperation(o) THEN records[records[o].prior].sender ELSE o
           r == [records[o] EXCEPT !.sender = source, !.stage = "reserved"]
           m == [producer EXCEPT !.retained[records[o].target] = [native |-> records[o].native, epoch |-> records[o].epoch]]
<1>0. /\ JournalTyped /\ pc \in PCType /\ records[o] \in Record /\ producer \in ProducerType
      /\ pc[o] = <<"sender", "record">> /\ UNCHANGED <<native, sender, cmd>>
      /\ ThreadKnows(o) /\ ThreadAgrees(o)
  BY GateTypes, HoldTypes DEF SenderRecord, At, Inv, Typed, peerVars, ThreadsKnow, ThreadsAgree
<1>1. \/ /\ ~Fenced(o) /\ producer' \in {producer, m} /\ Journaled(o, r)
         /\ \E x \in {<<"fence", "set">>, <<"done", "unknown">>} : Goes(o, x)
      \/ UNCHANGED producerVars /\ Goes(o, <<"done", "unknown">>)
  BY DEF SenderRecord, Write, Journaled, Goes, Goto, Unknown, producerVars
<1>2. \A x \in {<<"fence", "set">>, <<"done", "unknown">>} : Forth(o, x) /\ Far(x)
  <2>1. Unstarted(o)
    BY <1>0 DEF Unstarted, UnstartedAt
  <2> QED BY <2>1 DEF Forth, Ahead, EarlyAt, UnpreparedAt, UnstartedAt, BindingAt, Far
<1>3. \A p \in Op : PhaseCalm(p)
  BY <1>0 DEF PhaseCalm
<1>4. CASE UNCHANGED producerVars /\ Goes(o, <<"done", "unknown">>)
  <2>1. Forth(o, <<"done", "unknown">>) /\ ThreadKnows(o)'
    BY <1>2, <1>4, FarKnows
  <2> QED BY <1>0, <1>3, <1>4, <2>1, ForthAhead, StepKnows
<1>5. CASE /\ ~Fenced(o) /\ producer' \in {producer, m} /\ Journaled(o, r)
           /\ \E x \in {<<"fence", "set">>, <<"done", "unknown">>} : Goes(o, x)
  <2>1. o \in producer.live /\ records[o].native # 0 /\ records[o].sender = 0 /\ ~records[o].preempted /\ BoundTo(o)
    BY <1>0, <1>5, GateTypes
       DEF ThreadKnows, ThreadAgrees, Recorded, Reserved, Holding, Fenced, Inv, Placed, BoundTo, BindingAt
  <2>2. ~SourceOperation(o) => source = o
    OBVIOUS
  <2> HIDE DEF source
  <2>3. /\ r.stage \notin Unasked /\ r.native = records[o].native /\ r.target = records[o].target /\ r.sender = source
        /\ r.prior = records[o].prior /\ r.rejection = records[o].rejection /\ r.terminal = records[o].terminal
        /\ r.playing = records[o].playing /\ r.preempted = records[o].preempted
    BY <1>0 DEF Record, Unasked, PreflightStage
  <2>4. producer'.live = producer.live /\ producer'.active = producer.active
    BY <1>0, <1>5 DEF ProducerType
  <2> HIDE DEF r, m
  <2>5. Tells(o, r) /\ (\A p \in Op \ {o} : records'[p] = records[p])
        /\ (records'[o] = r \/ records'[o] = records[o])
    BY <1>0, <1>5, JournalTells
  <2>6. Fitting(o, r)
    <3>1. Outstanding(o) => Fits(r, o) /\ (Silent(r, o) => Revoked(o))
      BY <2>2, <2>3, GateTypes DEF Accounted, AccountedFor, Fits, Silent
    <3>2. RevokedStays
      BY <2>1, <2>3, <2>5, RevokedKeeps
    <3> QED BY <2>1, <2>3, <3>1, <3>2 DEF Fitting, RevokedStays
  <2>7. PICK x \in {<<"fence", "set">>, <<"done", "unknown">>} : Goes(o, x) /\ Forth(o, x) /\ ThreadKnows(o)'
    BY <1>2, <1>5, FarKnows
  <2>8. LiveKnown(o)'
    <3>1. /\ o \in Op /\ (records[o].prior # 0 => records[o].prior \in Op /\ Exists(records[o].prior))
          /\ records[o].prior # 0 => records[records[o].prior].native # 0
          /\ ~SourceOperation(o) => records[o].sender \in {0, o}
      BY <2>1, LiveTypes DEF LiveKnown
    <3>2. records'[o].prior = records[o].prior /\ records'[o].sender \in {records[o].sender, source}
          /\ records'[o].native # 0
      BY <2>1, <2>3, <2>5
    <3>3. records[o].prior # 0 => records'[records[o].prior].native # 0
      BY <2>5, <2>6, <3>1, NativesKept
    <3>4. SourceOperation(o)' = SourceOperation(o)
      BY <1>0 DEF SourceOperation
    <3> QED BY <2>2, <3>1, <3>2, <3>3, <3>4 DEF LiveKnown
  <2> QED BY <1>0, <1>3, <2>1, <2>3, <2>4, <2>5, <2>6, <2>7, <2>8, ForthAhead, ThreadTells
<1> QED BY <1>1, <1>4, <1>5

-----------------------------------------------------------------------------
(* The calls of a thread to Native *)

LEMMA CallKnows ==
  ASSUME GateInv, HoldInv', NEW o \in Op, NEW x, Goes(o, x), Ahead(o, x),
         UNCHANGED <<producerVars, cmd, coord, play, poll>>,
         \A h \in Op \ {o} : PhaseCalm(h),
         PhaseCalm(o) \/ (Early(o) /\ (Outstanding(o)' => AccountedFor(o)')),
         (sender' = sender /\ Forth(o, x)) \/ SourcesKnow', ThreadKnows(o)'
  PROVE  GateInv'
<1>1. PICK r : r = records[o]
  OBVIOUS
<1> QED BY StepKnows

\* A suspension that is read or asked for leaves the hold a hold.
LEMMA ReadPhases ==
  ASSUME Inv, NEW h \in Op,
         \/ native' \in {native, ResultRead(h)}
         \/ native.phase[h] = "prepared" /\ native' \in {native, Suspend(h)} \cup SuspendUncertain(h)
  PROVE  \A k \in Op : PhaseCalm(k)
<1>0. native \in NativeType
  BY HoldTypes
<1>1. /\ \A k \in Op \ {h} : native'.phase[k] = native.phase[k]
      /\ \/ native'.phase[h] = native.phase[h]
         \/ native.phase[h] \in {"unknown", "prepared"} /\ native'.phase[h] \in {"prepared", "suspended", "unknown"}
  <2>1. CASE native' \in {native, ResultRead(h)}
    BY <1>0, <2>1 DEF ResultRead, NativeType
  <2>2. CASE native.phase[h] = "prepared" /\ native' \in {native, Suspend(h)} \cup SuspendUncertain(h)
    <3>1. PICK to \in {"suspended", "unknown"}, p \in {native.parked, native.parked \cup {h}} : native' \in {native, [native EXCEPT !.phase[h] = to, !.parked = p]}
      BY <2>2 DEF Suspend, SuspendUncertain
    <3> QED BY <1>0, <2>2, <3>1 DEF NativeType
  <2> QED BY <2>1, <2>2
<1> QED BY <1>1 DEF PhaseCalm

LEMMA NativeReserveKnows ==
  ASSUME GateInv, HoldInv', NEW o \in Op, NativeReserve(o), UNCHANGED <<coord, play, poll>>
  PROVE  GateInv'
<1> DEFINE h == Reused(o)
           t == cmd[o].target
<1>0. /\ Inv /\ pc \in PCType /\ native \in NativeType /\ RecordsAgree /\ ThreadsAgree /\ ThreadKnows(o) /\ ThreadAgrees(o)
      /\ pc[o] = <<"native", "call">> /\ pc[o][1] \in Reserved
      /\ UNCHANGED <<sender, producerVars, cmd>>
  BY GateTypes, HoldTypes DEF NativeReserve, At, Reserved, ThreadsAgree, ThreadsKnow
<1>1. native.phase[o] = "none" /\ Early(o) /\ Unstarted(o) /\ Recorded(o) /\ Asking(o)
  <2>1. Early(o)
    BY <1>0 DEF Early, EarlyAt
  <2> QED BY <1>0, <2>1, GateTypes DEF HoldsAgree, Unstarted, UnstartedAt, Recorded, Asking
<1>2. \A x \in {<<"native", "record">>, <<"cancel", "journal">>, <<"done", "unknown">>} :
        Forth(o, x) /\ Ahead(o, x) /\ ~EarlyAt(x)
  BY <1>1 DEF Forth, Ahead, EarlyAt, UnpreparedAt, UnstartedAt, BindingAt
<1>3. \/ SourceOperation(o) /\ native' = native /\ Goes(o, <<"native", "record">>)
      \/ ~SourceOperation(o) /\ native' = native /\ Goes(o, <<"done", "unknown">>)
      \/ h # 0 /\ native' \in {native, ResultRead(h)} /\ \E x \in {<<"native", "record">>, <<"done", "unknown">>} : Goes(o, x)
      \/ /\ ~SourceOperation(o) /\ h = 0 /\ native.hold[t] = 0 /\ native' = Held(o, t)
         /\ \E x \in {<<"native", "record">>, <<"done", "unknown">>} : Goes(o, x)
      \/ ~SourceOperation(o) /\ native' = Rejected(o) /\ \E x \in {<<"cancel", "journal">>, <<"done", "unknown">>} : Goes(o, x)
  BY DEF NativeReserve, NativeCall, Goto, Goes, Unknown, Reservable
<1>4. \A x : Goes(o, x) => pc'[o] = x
  BY <1>0 DEF Goes, PCType
<1>5. ASSUME Goes(o, <<"native", "record">>), native'.phase[o] # "none" => h = 0 PROVE ThreadKnows(o)'
  <2>1. pc'[o] = <<"native", "record">>
    BY <1>4, <1>5
  <2>2. pc'[o][1] = "native" /\ pc'[o][2] = "record" /\ ~Early(o)'
    BY <2>1 DEF Early, EarlyAt
  <2>3. UNCHANGED <<records, cmd>> /\ Reused(o)' = h
    BY <1>0 DEF producerVars, Reused, SameTarget, SourceOperation
  <2>4. records[o].sender = 0 /\ (~records[o].preempted => records[o].native = 0)
    BY <1>0, <1>1 DEF ThreadKnows
  <2> HIDE DEF h
  <2> QED BY <1>5, <2>2, <2>3, <2>4 DEF ThreadKnows
<1>6. ASSUME Goes(o, <<"done", "unknown">>) PROVE ThreadKnows(o)'
  BY <1>6, FarKnows DEF Far
<1>7. CASE native' = native
  <2>1. PICK x \in {<<"native", "record">>, <<"cancel", "journal">>, <<"done", "unknown">>} :
          Goes(o, x) /\ x # <<"cancel", "journal">>
    BY <1>0, <1>1, <1>3, <1>7 DEF Rejected, NativeType
  <2>2. (\A k \in Op : PhaseCalm(k)) /\ native'.phase[o] = "none"
    BY <1>1, <1>7 DEF PhaseCalm
  <2>3. ThreadKnows(o)'
    BY <1>5, <1>6, <2>1, <2>2
  <2> QED BY <1>0, <1>2, <2>1, <2>2, <2>3, CallKnows
<1>8. CASE h # 0 /\ native' \in {native, ResultRead(h)} /\ \E x \in {<<"native", "record">>, <<"done", "unknown">>} : Goes(o, x)
  <2>1. h \in Op
    BY <1>0, <1>8, ReusedFits
  <2>2. \A k \in Op : PhaseCalm(k)
    <3> HIDE DEF h
    <3> QED BY <1>0, <1>8, <2>1, ReadPhases
  <2>3. native'.phase[o] = "none"
    BY <1>1, <2>2 DEF PhaseCalm
  <2>4. PICK x \in {<<"native", "record">>, <<"done", "unknown">>} : Goes(o, x)
    BY <1>8
  <2>5. ThreadKnows(o)'
    BY <1>5, <1>6, <2>3, <2>4
  <2> QED BY <1>0, <1>2, <2>2, <2>4, <2>5, CallKnows
<1>9. CASE /\ ~SourceOperation(o) /\ h = 0 /\ native.hold[t] = 0 /\ native' = Held(o, t)
           /\ \E x \in {<<"native", "record">>, <<"done", "unknown">>} : Goes(o, x)
  <2>1. \A k \in Op \ {o} : PhaseCalm(k)
    BY <1>0, <1>9 DEF Held, NativeType, PhaseCalm
  <2>2. UNCHANGED <<records, disk, cmd>>
    BY <1>0 DEF producerVars
  <2>3. /\ Blank(records[o]) /\ Blank(disk[o]) /\ records[o].stage \notin Unasked /\ disk[o].stage \notin Unasked
    BY <1>0, <1>1, <1>9 DEF ThreadKnows
  <2>4. AccountedFor(o)
    BY <1>9, <2>3 DEF AccountedFor, Fits, Silent, Blank
  <2>5. AccountedFor(o)'
    BY <2>2, <2>4 DEF AccountedFor, Fits, Silent, Revoked, SourceOperation
  <2>6. PICK x \in {<<"native", "record">>, <<"done", "unknown">>} : Goes(o, x)
    BY <1>9
  <2>7. ThreadKnows(o)'
    BY <1>5, <1>6, <1>9, <2>6
  <2> QED BY <1>0, <1>1, <1>2, <2>1, <2>5, <2>6, <2>7, CallKnows
<1>10. CASE ~SourceOperation(o) /\ native' = Rejected(o) /\ \E x \in {<<"cancel", "journal">>, <<"done", "unknown">>} : Goes(o, x)
  <2>1. (\A k \in Op \ {o} : PhaseCalm(k)) /\ native'.phase[o] = "rejected"
    BY <1>0, <1>10 DEF Rejected, NativeType, PhaseCalm
  <2>2. ~Outstanding(o)'
    BY <2>1 DEF Outstanding
  <2>3. PICK x \in {<<"cancel", "journal">>, <<"done", "unknown">>} : Goes(o, x)
    BY <1>10
  <2>4. ThreadKnows(o)'
    <3>1. CASE x = <<"done", "unknown">>
      BY <1>6, <2>3, <3>1
    <3>2. CASE x = <<"cancel", "journal">>
      <4>1. pc'[o] = <<"cancel", "journal">>
        BY <1>4, <2>3, <3>2
      <4>2. pc'[o][1] = "cancel" /\ ~Early(o)'
        BY <4>1 DEF Early, EarlyAt
      <4> QED BY <2>1, <4>2 DEF ThreadKnows
    <3> QED BY <2>3, <3>1, <3>2
  <2> QED BY <1>0, <1>1, <1>2, <2>1, <2>2, <2>3, <2>4, CallKnows
<1> QED BY <1>3, <1>7, <1>8, <1>9, <1>10

LEMMA SuspendsKnow ==
  ASSUME GateInv, HoldInv', NEW o \in Op, SuspendRead(o) \/ SuspendCall(o) \/ StartRead(o),
         UNCHANGED <<coord, play, poll>>
  PROVE  GateInv'
<1> DEFINE h == records[o].native
<1>0. /\ Inv /\ pc[o][1] \in {"suspend", "start"} /\ (pc[o][1] = "start" => pc[o][2] = "read")
      /\ UNCHANGED <<sender, producerVars, cmd>>
  <2>1. Inv
    BY GateTypes
  <2>2. pc[o] = <<"suspend", "read">> \/ pc[o] = <<"suspend", "call">> \/ pc[o] = <<"start", "read">>
    BY Zenon DEF SuspendRead, SuspendCall, StartRead, At
  <2>3. UNCHANGED <<sender, producerVars, cmd>>
    BY DEF SuspendRead, SuspendCall, StartRead
  <2> QED BY <2>1, <2>2, <2>3
<1>1. h \in Op
  <2>1. h # 0 /\ records[o] \in Record
    BY <1>0, HoldTypes DEF Inv, Placed, Holding, Reserved
  <2> QED BY <2>1, OpBasic DEF Record
<1>2. PICK x \in {<<"suspend", "record">>, <<"suspend", "call">>, <<"start", "call">>, <<"done", "unknown">>} : Goes(o, x)
  BY DEF SuspendRead, SuspendCall, StartRead, NativeCall, Goto, Goes, Unknown
<1>3. Forth(o, x) /\ Far(x)
  <2>1. Unstarted(o)
    BY <1>0 DEF Unstarted, UnstartedAt
  <2> QED BY <1>2, <2>1 DEF Forth, Ahead, EarlyAt, UnpreparedAt, UnstartedAt, BindingAt, Far
<1>4. \A k \in Op : PhaseCalm(k)
  <2>1. \/ native' \in {native, ResultRead(h)}
        \/ native.phase[h] = "prepared" /\ native' \in {native, Suspend(h)} \cup SuspendUncertain(h)
    BY DEF SuspendRead, SuspendCall, StartRead, NativeCall, Suspendable
  <2> HIDE DEF h
  <2> QED BY <1>0, <1>1, <2>1, ReadPhases
<1>5. ThreadKnows(o)'
  BY <1>2, <1>3, FarKnows
<1> QED BY <1>0, <1>2, <1>3, <1>4, <1>5, ForthAhead, CallKnows

-----------------------------------------------------------------------------
(* The calls of a thread to the sender *)

\* A source that fits once the thread of o goes on to x.
SourceNext(o, x, q) ==
  /\ q.src \in OpOrNone
  /\ q.phase # "empty" <=> q.src # 0
  /\ q.src # 0 =>
       /\ q.src \in producer.live /\ ~SourceOperation(q.src)
       /\ ~Unprepared(q.src) \/ (q.src = o /\ ~UnpreparedAt(x))
       /\ q.phase \in {"starting", "playing"} => ~Unstarted(q.src) \/ (q.src = o /\ ~UnstartedAt(x))
       /\ q.phase = "drained" /\ (q.op = q.src \/ Unstarted(q.src)) => Revoked(q.hold)
       /\ BoundTo(q.src) \/ (q.src = o /\ BindingAt(x)) => q.hold = records[q.src].native /\ q.phase # "prepared"

LEMMA SourceGoesOn ==
  ASSUME GateInv, NEW o \in Op, NEW x, Goes(o, x), Ahead(o, x), UNCHANGED <<producerVars, cmd>>,
         NEW q, SourceNext(o, x, q)
  PROVE  SourceKnows(q)'
<1>0. pc'[o] = x /\ \A p \in Op \ {o} : pc'[p] = pc[p]
  BY GateTypes, HoldTypes DEF Goes, PCType
<1>1. CASE q.src = 0
  BY <1>1 DEF SourceNext, SourceKnows
<1>2. CASE q.src # 0
  <2>1. q.src \in Op
    BY <1>2, OpBasic DEF SourceNext
  <2>2. /\ Unprepared(q.src)' => Unprepared(q.src) /\ ~(q.src = o /\ ~UnpreparedAt(x))
        /\ Unstarted(q.src)' => Unstarted(q.src) /\ ~(q.src = o /\ ~UnstartedAt(x))
        /\ BoundTo(q.src)' => BoundTo(q.src) \/ (q.src = o /\ BindingAt(x))
    <3>1. CASE q.src = o
      BY <1>0, <3>1 DEF Ahead, Unprepared, Unstarted, BoundTo, producerVars
    <3>2. CASE q.src # o
      BY <1>0, <2>1, <3>2 DEF Unprepared, Unstarted, BoundTo, producerVars
    <3> QED BY <3>1, <3>2
  <2>3. /\ q.src \in producer'.live /\ ~SourceOperation(q.src)' /\ ~Unprepared(q.src)'
        /\ q.phase \in {"starting", "playing"} => ~Unstarted(q.src)'
        /\ q.phase = "drained" /\ (q.op = q.src \/ Unstarted(q.src)') => Revoked(q.hold)'
        /\ BoundTo(q.src)' => q.hold = records'[q.src].native /\ q.phase # "prepared"
    BY <1>2, <2>2 DEF SourceNext, SourceOperation, Revoked, producerVars
  <2> QED BY <1>2, <2>3 DEF SourceNext, SourceKnows
<1> QED BY <1>1, <1>2

LEMMA SenderKnown ==
  ASSUME GateInv
  PROVE  /\ SourceKnows(sender.main) /\ SourceKnows(sender.cand) /\ Apart(sender.main, sender.cand, sender.drains)
         /\ \A t \in Targets : SourceKnows(sender.drains[t])
         /\ sender.main.src \in OpOrNone /\ sender.cand.src \in OpOrNone
         /\ \A t \in Targets : sender.drains[t].src \in OpOrNone
         /\ \E n : /\ sender \in SenderUpTo(n) /\ sender.main \in SourceUpTo(n) /\ sender.cand \in SourceUpTo(n)
                   /\ sender.drains \in [Targets -> SourceUpTo(n)]
<1>1. Inv /\ SourcesKnow
  BY GateTypes
<1>2. sender \in SenderUpTo(Cardinality(Begun))
  BY <1>1, SenderTypes
<1>3. /\ sender.main \in SourceUpTo(Cardinality(Begun)) /\ sender.cand \in SourceUpTo(Cardinality(Begun))
      /\ sender.drains \in [Targets -> SourceUpTo(Cardinality(Begun))]
  BY <1>2 DEF SenderUpTo
<1> QED BY <1>1, <1>2, <1>3, SendersTyped DEF SourcesKnow

\* A source that is left alone fits, unless it is the one that is being bound.
LEMMA SourceStays ==
  ASSUME NEW o, NEW x, NEW s, s.src \in OpOrNone, SourceKnows(s), BindingAt(x) => s.src # o \/ BoundTo(o)
  PROVE  SourceNext(o, x, s)
BY DEF SourceKnows, SourceNext

\* What is left to show of a call to the sender.
LEMMA SenderCallKnows ==
  ASSUME GateInv, HoldInv', NEW o \in Op, NEW x, Goes(o, x), Ahead(o, x),
         UNCHANGED <<native, producerVars, cmd, coord, play, poll>>, ThreadKnows(o)',
         \/ sender' = sender /\ (BindingAt(x) => SourceOperation(o))
         \/ /\ SourceNext(o, x, sender'.main) /\ SourceNext(o, x, sender'.cand)
            /\ \A t \in Targets : SourceNext(o, x, sender'.drains[t])
            /\ Apart(sender'.main, sender'.cand, sender'.drains)
  PROVE  GateInv'
<1>1. \A h \in Op : PhaseCalm(h)
  BY DEF PhaseCalm
<1>2. (sender' = sender /\ Forth(o, x)) \/ SourcesKnow'
  <2>1. CASE sender' = sender /\ (BindingAt(x) => SourceOperation(o))
    BY <2>1 DEF Forth
  <2>2. CASE /\ SourceNext(o, x, sender'.main) /\ SourceNext(o, x, sender'.cand)
             /\ \A t \in Targets : SourceNext(o, x, sender'.drains[t])
             /\ Apart(sender'.main, sender'.cand, sender'.drains)
    <3>1. PICK m, c, d : m = sender'.main /\ c = sender'.cand /\ d = sender'.drains
      OBVIOUS
    <3>2. SourceNext(o, x, m) /\ SourceNext(o, x, c) /\ (\A t \in Targets : SourceNext(o, x, d[t])) /\ Apart(m, c, d)
      BY <2>2, <3>1
    <3>3. SourceKnows(m)' /\ SourceKnows(c)' /\ (\A t \in Targets : SourceKnows(d[t])')
      BY <3>2, SourceGoesOn
    <3> QED BY <3>1, <3>2, <3>3, SourcesThen
  <2> QED BY <2>1, <2>2
<1> QED BY <1>1, <1>2, CallKnows

\* A thread that goes on within its effect knows what it knew.
LEMMA StayingKnows ==
  ASSUME GateInv, NEW o \in Op, NEW x, Goes(o, x), pc[o][1] \in {"preflight", "sender", "cancel"}, Recorded(o),
         x[1] = pc[o][1], UNCHANGED <<native, producerVars, cmd>>
  PROVE  ThreadKnows(o)'
<1>1. pc'[o] = x /\ ThreadKnows(o)
  BY GateTypes, HoldTypes DEF Goes, PCType, ThreadsKnow
<1>2. Early(o)' => Early(o)
  BY <1>1 DEF Early, EarlyAt
<1>3. Asking(o)' = FALSE /\ SourceOperation(o)' = SourceOperation(o) /\ UNCHANGED <<records, disk>>
  BY <1>1 DEF Asking, SourceOperation, producerVars
<1>4. Early(o) /\ ~SourceOperation(o) => Blank(records[o])
  BY <1>1 DEF ThreadKnows
<1>5. Early(o)' /\ ~SourceOperation(o)' => Blank(records[o])'
  BY <1>2, <1>3, <1>4 DEF Blank
<1>6. records[o].sender = 0 \/ pc[o][1] = "cancel"
  BY <1>1 DEF ThreadKnows
<1>7. pc[o][1] = "cancel" => native.phase[o] = "rejected"
  BY <1>1 DEF ThreadKnows
<1> QED BY <1>1, <1>3, <1>5, <1>6, <1>7 DEF ThreadKnows

LEMMA PreflightCallKnows ==
  ASSUME GateInv, HoldInv', NEW o \in Op, PreflightCall(o), UNCHANGED <<coord, play, poll>>
  PROVE  GateInv'
<1>1. pc[o] = <<"preflight", "call">> /\ UNCHANGED <<native, producerVars, cmd>>
  BY DEF PreflightCall, At
<1>2. PICK x \in {<<"preflight", "record">>, <<"preflight", "reject">>, <<"done", "clean">>} : Goes(o, x)
  BY DEF PreflightCall, SenderCall, Goto, Clean, Goes
<1>3. /\ Early(o) /\ Unprepared(o) /\ Unstarted(o) /\ Recorded(o) /\ o \in producer.live /\ ~SourceOperation(o)
      /\ records[o].sender = 0 /\ ~BoundTo(o)
  <2>1. Recorded(o) /\ ThreadKnows(o) /\ ThreadAgrees(o)
    BY <1>1, GateTypes DEF Recorded, ThreadsKnow, ThreadsAgree
  <2> QED BY <1>1, <2>1 DEF Early, EarlyAt, Unprepared, UnpreparedAt, Unstarted, UnstartedAt, ThreadKnows, ThreadAgrees,
                            BoundTo, BindingAt
<1>4. Ahead(o, x) /\ ~BindingAt(x) /\ ~UnpreparedAt(x)
  BY <1>2, <1>3 DEF Ahead, BindingAt, UnpreparedAt
<1>5. ThreadKnows(o)'
  <2>1. CASE x = <<"done", "clean">>
    BY <1>2, <2>1, FarKnows DEF Far
  <2>2. CASE x # <<"done", "clean">>
    <3>1. x[1] = pc[o][1] /\ pc[o][1] = "preflight"
      BY <1>1, <1>2, <2>2
    <3> QED BY <1>1, <1>2, <1>3, <3>1, StayingKnows
  <2> QED BY <2>1, <2>2
<1>6. \/ sender' = sender
      \/ /\ SourceNext(o, x, sender'.main) /\ SourceNext(o, x, sender'.cand)
         /\ \A t \in Targets : SourceNext(o, x, sender'.drains[t])
         /\ Apart(sender'.main, sender'.cand, sender'.drains)
  <2>1. SUFFICES ASSUME sender' = Preflighted(o, cmd[o].target, client.holds[cmd[o].target])
        PROVE /\ SourceNext(o, x, sender'.main) /\ SourceNext(o, x, sender'.cand)
              /\ \A t \in Targets : SourceNext(o, x, sender'.drains[t])
              /\ Apart(sender'.main, sender'.cand, sender'.drains)
    BY DEF PreflightCall, SenderCall
  <2>2. PICK new : /\ new.src = o /\ new.phase = "prepared"
                   /\ sender' \in {[sender EXCEPT !.cand = new], [sender EXCEPT !.main = new, !.cand = NoSource]}
    <3> DEFINE t == cmd[o].target
               keep == IF Beside THEN CandidateEpoch(t, client.holds[t]) ELSE MainEpoch(t)
               fresh == [src |-> o, op |-> o, tgt |-> t, phase |-> "prepared", epoch |-> keep.e,
                         hold |-> keep.h, relinquished |-> FALSE]
    <3>1. sender' = IF Beside THEN [sender EXCEPT !.cand = fresh]
                    ELSE [sender EXCEPT !.main = fresh, !.cand = NoSource]
      BY <2>1, Zenon DEF Preflighted
    <3>2. fresh.src = o /\ fresh.phase = "prepared"
      OBVIOUS
    <3> HIDE DEF fresh
    <3> QED BY <3>1, <3>2
  <2>3. o \in OpOrNone /\ o # 0
    BY OpBasic
  <2>4. SourceNext(o, x, new)
    BY <1>3, <1>4, <2>2, <2>3 DEF SourceNext
  <2>5. SourceNext(o, x, NoSource) /\ NoSource.src = 0
    BY OpBasic DEF SourceNext, NoSource
  <2>6. \A s : SourceKnows(s) => s.src # o
    BY <1>3, <2>3 DEF SourceKnows
  <2>7. /\ SourceNext(o, x, sender.main) /\ SourceNext(o, x, sender.cand)
        /\ \A t \in Targets : SourceNext(o, x, sender.drains[t])
    BY <1>4, SenderKnown, SourceStays
  <2>8. /\ sender'.drains = sender.drains
        /\ \/ sender'.main = sender.main /\ sender'.cand = new
           \/ sender'.main = new /\ sender'.cand = NoSource
    BY <2>2, SenderKnown DEF SenderUpTo
  <2>9. Apart(sender'.main, sender'.cand, sender'.drains)
    BY <2>2, <2>3, <2>5, <2>6, <2>8, SenderKnown DEF Apart
  <2> QED BY <2>4, <2>5, <2>7, <2>8, <2>9
<1> QED BY <1>1, <1>2, <1>4, <1>5, <1>6, SenderCallKnows

LEMMA SenderReserveKnows ==
  ASSUME GateInv, HoldInv', NEW o \in Op, SenderReserve(o), UNCHANGED <<coord, play, poll>>
  PROVE  GateInv'
<1> DEFINE h == records[o].native
<1>1. pc[o] = <<"sender", "call">> /\ UNCHANGED <<native, producerVars, cmd>>
  BY DEF SenderReserve, At
<1>2. /\ Unstarted(o) /\ Recorded(o) /\ ~BoundTo(o)
  <2>1. Recorded(o) /\ ThreadKnows(o)
    BY <1>1, GateTypes DEF Recorded, Reserved, ThreadsKnow
  <2> QED BY <1>1, <2>1 DEF Unstarted, UnstartedAt, ThreadKnows, BoundTo, BindingAt
<1>3. PICK x \in {<<"sender", "record">>, <<"done", "unknown">>} :
        /\ Goes(o, x)
        /\ \/ sender' = sender /\ (BindingAt(x) => SourceOperation(o))
           \/ BindAccepted(o, h) /\ sender' = Bound(o, h)
  <2>1. ~BindingAt(<<"done", "unknown">>)
    BY DEF BindingAt
  <2> QED BY <2>1 DEF SenderReserve, SenderCall, Goto, Unknown, Goes
<1>4. Ahead(o, x) /\ ~UnpreparedAt(x)
  BY <1>2, <1>3 DEF Ahead, EarlyAt, UnpreparedAt
<1>5. ThreadKnows(o)'
  <2>1. CASE x = <<"done", "unknown">>
    BY <1>3, <2>1, FarKnows DEF Far
  <2>2. CASE x = <<"sender", "record">>
    <3>1. x[1] = pc[o][1] /\ pc[o][1] = "sender"
      BY <1>1, <2>2
    <3> QED BY <1>1, <1>2, <1>3, <3>1, StayingKnows
  <2> QED BY <1>3, <2>1, <2>2
<1>6. ASSUME BindAccepted(o, h), sender' = Bound(o, h)
      PROVE /\ SourceNext(o, x, sender'.main) /\ SourceNext(o, x, sender'.cand)
            /\ \A t \in Targets : SourceNext(o, x, sender'.drains[t])
            /\ Apart(sender'.main, sender'.cand, sender'.drains)
  <2> HIDE DEF h
  <2>1. PICK main, cand, drains : main = sender.main /\ cand = sender.cand /\ drains = sender.drains
    OBVIOUS
  <2>2. /\ SourceKnows(main) /\ SourceKnows(cand) /\ Apart(main, cand, drains)
        /\ \A t \in Targets : SourceKnows(drains[t]) /\ drains[t].src \in OpOrNone
        /\ main.src \in OpOrNone /\ cand.src \in OpOrNone
    BY <2>1, SenderKnown
  <2>3. o # 0
    BY OpBasic
  <2>4. \/ cand.src = o /\ cand.phase = "prepared"
        \/ cand.src # o /\ main.src = o /\ main.phase = "prepared"
    BY <1>6, <2>1, <2>2, <2>3 DEF BindAccepted, Apart
  <2>5. \A s : SourceKnows(s) /\ s.src \in OpOrNone /\ s.src # o => SourceNext(o, x, s)
    BY SourceStays
  <2>6. \A t \in Targets : drains[t].src # o
    BY <2>2, <2>3, <2>4 DEF Apart
  <2>7. \A t \in Targets : SourceNext(o, x, drains[t])
    BY <2>2, <2>5, <2>6
  <2>8. sender'.drains = drains
    BY <1>6, <2>1, SenderKnown DEF Bound, SenderUpTo
  <2>9. ASSUME NEW s, NEW q, SourceKnows(s), s.src = o, s.phase = "prepared", q.src = o, q.phase = "bound", q.hold = h
        PROVE SourceNext(o, x, q)
    <3>1. o \in OpOrNone /\ o \in producer.live /\ ~SourceOperation(o) /\ ~Unprepared(o)
      BY <2>3, <2>9, OpBasic DEF SourceKnows
    <3> QED BY <2>3, <2>9, <3>1 DEF SourceNext, h
  <2>10. CASE cand.src = o
    <3>1. sender'.main = main /\ sender'.cand.src = o /\ sender'.cand.phase = "bound" /\ sender'.cand.hold = h
      BY <1>6, <2>1, <2>10, SenderKnown DEF Bound, SenderUpTo, SourceUpTo
    <3>2. main.src # o /\ cand.phase = "prepared"
      BY <2>2, <2>3, <2>4, <2>10 DEF Apart
    <3>3. SourceNext(o, x, sender'.main) /\ SourceNext(o, x, sender'.cand)
      BY <2>2, <2>5, <2>9, <2>10, <3>1, <3>2
    <3>4. Apart(sender'.main, sender'.cand, sender'.drains)
      BY <2>2, <2>8, <2>10, <3>1 DEF Apart
    <3> QED BY <2>7, <2>8, <3>3, <3>4
  <2>11. CASE cand.src # o
    <3>1. sender'.cand = cand /\ sender'.main.src = o /\ sender'.main.phase = "bound" /\ sender'.main.hold = h
      BY <1>6, <2>1, <2>4, <2>11, SenderKnown DEF Bound, SenderUpTo, SourceUpTo
    <3>2. SourceNext(o, x, sender'.main) /\ SourceNext(o, x, sender'.cand)
      BY <2>2, <2>4, <2>5, <2>9, <2>11, <3>1
    <3>3. Apart(sender'.main, sender'.cand, sender'.drains)
      BY <2>2, <2>4, <2>6, <2>8, <2>11, <3>1 DEF Apart
    <3> QED BY <2>7, <2>8, <3>2, <3>3
  <2> QED BY <2>10, <2>11
<1> QED BY <1>1, <1>3, <1>4, <1>5, <1>6, SenderCallKnows

\* A source that is only cancelled, or commanded while it plays, fits as it did.
LEMMA CancelCallKnows ==
  ASSUME GateInv, HoldInv', NEW o \in Op, CancelCall(o), UNCHANGED <<coord, play, poll>>
  PROVE  GateInv'
<1>1. pc[o] = <<"cancel", "call">> /\ UNCHANGED <<native, producerVars, cmd>>
  BY DEF CancelCall, At
<1>2. Unstarted(o) /\ Recorded(o)
  BY <1>1 DEF Unstarted, UnstartedAt, Recorded, Reserved
<1>3. PICK x \in {<<"cancel", "record">>, <<"done", "unknown">>} : Goes(o, x)
  BY DEF CancelCall, SenderCall, Goto, Unknown, Goes
<1>4. Ahead(o, x) /\ ~BindingAt(x)
  BY <1>2, <1>3 DEF Ahead, EarlyAt, UnpreparedAt, BindingAt
<1>5. ThreadKnows(o)'
  <2>1. CASE x = <<"done", "unknown">>
    BY <1>3, <2>1, FarKnows DEF Far
  <2>2. CASE x = <<"cancel", "record">>
    <3>1. x[1] = pc[o][1] /\ pc[o][1] = "cancel"
      BY <1>1, <2>2
    <3> QED BY <1>1, <1>2, <1>3, <3>1, StayingKnows
  <2> QED BY <1>3, <2>1, <2>2
<1>6. ASSUME CancelAccepted(o), sender' = CancelledSource(o)
      PROVE /\ SourceNext(o, x, sender'.main) /\ SourceNext(o, x, sender'.cand)
            /\ \A t \in Targets : SourceNext(o, x, sender'.drains[t])
            /\ Apart(sender'.main, sender'.cand, sender'.drains)
  <2>1. PICK main, cand, drains : main = sender.main /\ cand = sender.cand /\ drains = sender.drains
    OBVIOUS
  <2>2. /\ SourceNext(o, x, main) /\ SourceNext(o, x, cand) /\ Apart(main, cand, drains)
        /\ \A t \in Targets : SourceNext(o, x, drains[t])
    BY <1>4, <2>1, SenderKnown, SourceStays
  <2>3. \A s, q : /\ SourceNext(o, x, s) /\ s.phase \in {"prepared", "cancelled"} /\ q.phase = "cancelled"
                  /\ q.src = s.src /\ q.op = s.op /\ q.hold = s.hold
                  => SourceNext(o, x, q)
    BY DEF SourceNext
  <2>4. sender'.drains = drains
    BY <1>6, <2>1, SenderKnown DEF CancelledSource, SenderUpTo
  <2>5. CASE cand.src = o
    <3>1. sender'.main = main /\ sender'.cand.src = cand.src /\ sender'.cand.phase = "cancelled"
          /\ sender'.cand.hold = cand.hold /\ sender'.cand.op = cand.op
      BY <1>6, <2>1, <2>5, SenderKnown DEF CancelledSource, SenderUpTo, SourceUpTo
    <3>2. cand.phase \in {"prepared", "cancelled"}
      BY <1>6, <2>1, <2>5 DEF CancelAccepted, StateOf
    <3>3. SourceNext(o, x, sender'.cand)
      BY <2>2, <2>3, <3>1, <3>2
    <3>4. Apart(sender'.main, sender'.cand, sender'.drains)
      BY <2>2, <2>4, <3>1 DEF Apart
    <3> QED BY <2>2, <2>4, <3>1, <3>3, <3>4
  <2>6. CASE cand.src # o
    <3>1. sender'.cand = cand /\ sender'.main.src = main.src /\ sender'.main.phase = "cancelled"
          /\ sender'.main.hold = main.hold /\ sender'.main.op = main.op
      BY <1>6, <2>1, <2>6, SenderKnown DEF CancelledSource, SenderUpTo, SourceUpTo
    <3>2. main.phase \in {"prepared", "cancelled"}
      BY <1>6, <2>1, <2>6 DEF CancelAccepted, StateOf
    <3>3. SourceNext(o, x, sender'.main)
      BY <2>2, <2>3, <3>1, <3>2
    <3>4. Apart(sender'.main, sender'.cand, sender'.drains)
      BY <2>2, <2>4, <3>1, <3>2 DEF Apart
    <3> QED BY <2>2, <2>4, <3>1, <3>3, <3>4
  <2> QED BY <2>5, <2>6
<1>7. sender' = sender \/ (CancelAccepted(o) /\ sender' = CancelledSource(o))
  BY DEF CancelCall, SenderCall
<1> QED BY <1>1, <1>3, <1>4, <1>5, <1>6, <1>7, SenderCallKnows

\* A stopped result is of a source that was drained.
LEMMA ResultSource ==
  ASSUME GateInv, NEW o \in Op, ResultOf(o).state = "stopped"
  PROVE  \E s : s.op = o /\ s.phase = "drained" /\ s.src = ResultOf(o).src /\ SourceKnows(s)
<1>1. PICK s : s = FoundSource(o)
  OBVIOUS
<1>2. SourcesOf(o) # {} /\ ResultOf(o) = Decoded(s)
  BY <1>1 DEF ResultOf, ObsError, Obs
<1>3. s.op = o /\ s \in {sender.cand, sender.main} \cup {sender.drains[t] : t \in Targets}
  <2>1. \A q \in SourcesOf(o) : q.op = o /\ q \in {sender.cand, sender.main} \cup {sender.drains[t] : t \in Targets}
    BY DEF SourcesOf
  <2>2. (CHOOSE q \in SourcesOf(o) : TRUE) \in SourcesOf(o)
    BY <1>2
  <2> QED BY <1>1, <2>1, <2>2 DEF FoundSource
<1>4. s.phase = "drained" /\ ResultOf(o).src = s.src
  BY <1>2 DEF Decoded, Obs
<1>5. SourceKnows(s)
  BY <1>3, SenderKnown
<1> QED BY <1>3, <1>4, <1>5

LEMMA StopCallKnows ==
  ASSUME GateInv, HoldInv', NEW o \in Op, StopCall(o) \/ VolumeCall(o), UNCHANGED <<coord, play, poll>>
  PROVE  GateInv'
<1>1. /\ \/ pc[o] = <<"stop", "call">> /\ sender' \in {sender, Stopped(o)}
         \/ pc[o] = <<"volume", "call">> /\ sender' \in {sender, VolumeSet(o)}
      /\ UNCHANGED <<native, producerVars, cmd>>
  BY DEF StopCall, VolumeCall, SenderCall, At
<1>2. PICK x \in {<<"stop", "record">>, <<"volume", "record">>, <<"done", "unknown">>} :
        Goes(o, x) /\ (x = <<"stop", "record">> => pc[o] = <<"stop", "call">>)
  BY DEF StopCall, VolumeCall, SenderCall, At, Goto, Unknown, Goes
<1>3. Ahead(o, x) /\ ~BindingAt(x) /\ Far(x)
  <2>1. UnstartedAt(x) => Unstarted(o)
    BY <1>2 DEF Unstarted, UnstartedAt
  <2> QED BY <1>2, <2>1 DEF Ahead, EarlyAt, UnpreparedAt, BindingAt, Far
<1>4. ThreadKnows(o)'
  BY <1>2, <1>3, FarKnows
<1>5. PICK main, cand, drains : main = sender.main /\ cand = sender.cand /\ drains = sender.drains
  OBVIOUS
<1>6. /\ SourceNext(o, x, main) /\ SourceNext(o, x, cand) /\ Apart(main, cand, drains)
      /\ \A t \in Targets : SourceNext(o, x, drains[t])
  BY <1>3, <1>5, SenderKnown, SourceStays
<1>7. ASSUME sender' = Stopped(o), sender' # sender, pc[o] = <<"stop", "call">>
      PROVE /\ SourceNext(o, x, sender'.main) /\ SourceNext(o, x, sender'.cand)
            /\ \A t \in Targets : SourceNext(o, x, sender'.drains[t])
            /\ Apart(sender'.main, sender'.cand, sender'.drains)
  <2>1. main.src # 0 /\ main.phase \in {"starting", "playing", "drained"}
    <3>1. StopAccepted(Incumbent(o))
      BY <1>1, <1>7 DEF StopCall, VolumeCall, SenderCall, At
    <3> QED BY <1>5, <1>6, <3>1 DEF StopAccepted, SourceNext
  <2> DEFINE m == [sender.main EXCEPT !.phase = "drained", !.op = o]
  <2>2. m.src = main.src /\ m.phase = "drained" /\ m.op = o /\ m.hold = main.hold
    BY <1>5, SenderKnown DEF SourceUpTo
  <2>3. sender' = Drain(sender, m)
    BY <1>7 DEF Stopped
  <2> HIDE DEF m
  <2>4. sender'.main = m /\ sender'.cand = cand /\ \A t \in Targets : sender'.drains[t] \in {drains[t], m}
    <3>1. PICK u : u = m.tgt
      OBVIOUS
    <3>2. sender' = [sender EXCEPT !.main = m, !.drains = [sender.drains EXCEPT ![u] = m]]
      BY <2>3, <3>1, SenderKnown DEF Drain, SenderUpTo
    <3>3. \A t \in Targets : [sender.drains EXCEPT ![u] = m][t] \in {sender.drains[t], m}
      BY SenderKnown
    <3> QED BY <1>5, <3>2, <3>3, SenderKnown DEF SenderUpTo
  <2>5. Unstarted(o)
    BY <1>7 DEF Unstarted, UnstartedAt
  <2>6. SourceNext(o, x, m)
    <3>1. main.src = o \/ Unstarted(main.src) => Revoked(main.hold)
      <4>1. SourceKnows(main)
        BY <1>5, SenderKnown
      <4> QED BY <2>1, <2>5, <4>1 DEF SourceKnows
    <3> QED BY <1>6, <2>1, <2>2, <3>1 DEF SourceNext
  <2>7. Apart(sender'.main, sender'.cand, sender'.drains)
    <3>1. \A t \in Targets : drains[t].src # 0 => drains[t].phase = "drained" /\ drains[t].src # cand.src
      BY <1>6 DEF Apart
    <3>2. m.src # cand.src
      BY <1>6, <2>1, <2>2 DEF Apart
    <3> QED BY <2>2, <2>4, <3>1, <3>2 DEF Apart
  <2> QED BY <1>6, <2>4, <2>6, <2>7
<1>8. ASSUME sender' = VolumeSet(o), sender' # sender, pc[o] = <<"volume", "call">>
      PROVE /\ SourceNext(o, x, sender'.main) /\ SourceNext(o, x, sender'.cand)
            /\ \A t \in Targets : SourceNext(o, x, sender'.drains[t])
            /\ Apart(sender'.main, sender'.cand, sender'.drains)
  <2>1. main.phase = "playing"
    <3>1. VolumeAccepted(records[o].sender)
      BY <1>1, <1>8 DEF StopCall, VolumeCall, SenderCall, At
    <3> QED BY <1>5, <3>1 DEF VolumeAccepted
  <2>2. /\ sender'.main.src = main.src /\ sender'.main.phase = main.phase /\ sender'.main.hold = main.hold
        /\ sender'.cand = cand /\ sender'.drains = drains
    BY <1>5, <1>8, SenderKnown DEF VolumeSet, SenderUpTo, SourceUpTo
  <2>3. PICK m : m = sender'.main
    OBVIOUS
  <2>4. SourceNext(o, x, m)
    BY <1>6, <2>1, <2>2, <2>3 DEF SourceNext
  <2>5. Apart(sender'.main, sender'.cand, sender'.drains)
    BY <1>6, <2>2 DEF Apart
  <2> QED BY <1>6, <2>2, <2>3, <2>4, <2>5
<1>9. pc[o] = <<"stop", "call">> => pc[o] # <<"volume", "call">>
  OBVIOUS
<1> QED BY <1>1, <1>2, <1>3, <1>4, <1>7, <1>8, <1>9, SenderCallKnows

LEMMA StartCallKnows ==
  ASSUME GateInv, HoldInv', NEW o \in Op, StartCall(o), UNCHANGED <<coord, play, poll>>
  PROVE  GateInv'
<1>1. /\ pc[o] = <<"start", "call">> /\ UNCHANGED <<native, producerVars, cmd>>
      /\ \/ sender' = sender
         \/ StartAccepted(records[o].sender, records[o].native) /\ sender' = StartedSource(records[o].sender)
  BY DEF StartCall, SenderCall, At
<1>2. PICK x \in {<<"start", "record">>, <<"done", "unknown">>} : Goes(o, x)
  BY DEF StartCall, SenderCall, Goto, Unknown, Goes
<1>3. Ahead(o, x) /\ ~BindingAt(x) /\ Far(x) /\ ~UnstartedAt(x) /\ ~UnpreparedAt(x)
  BY <1>2 DEF Ahead, EarlyAt, UnpreparedAt, UnstartedAt, BindingAt, Far
<1>4. ThreadKnows(o)'
  BY <1>2, <1>3, FarKnows
<1>5. PICK main, cand, drains : main = sender.main /\ cand = sender.cand /\ drains = sender.drains
  OBVIOUS
<1>6. /\ SourceNext(o, x, main) /\ SourceNext(o, x, cand) /\ Apart(main, cand, drains)
      /\ \A t \in Targets : SourceNext(o, x, drains[t])
  BY <1>3, <1>5, SenderKnown, SourceStays
<1>7. records[o].sender = o /\ o # 0
  <2>1. ThreadAgrees(o)
    BY GateTypes DEF ThreadsAgree
  <2>2. pc[o][1] = "start"
    BY <1>1
  <2> QED BY <2>1, <2>2, OpBasic DEF ThreadAgrees
<1>8. ASSUME StartAccepted(o, records[o].native), sender' = StartedSource(o)
      PROVE /\ SourceNext(o, x, sender'.main) /\ SourceNext(o, x, sender'.cand)
            /\ \A t \in Targets : SourceNext(o, x, sender'.drains[t])
            /\ Apart(sender'.main, sender'.cand, sender'.drains)
  <2> DEFINE s == StateOf(o)
             m == [s EXCEPT !.phase = "starting"]
             c == IF sender.cand.src = o THEN NoSource ELSE sender.cand
  <2>1. s.src = o /\ s.phase = "bound" /\ s = (IF cand.src = o THEN cand ELSE main)
    BY <1>5, <1>8 DEF StartAccepted, StateOf
  <2>2. m.src = s.src /\ m.op = s.op /\ m.hold = s.hold /\ m.phase = "starting"
    BY <2>1, <1>5, SenderKnown DEF SourceUpTo
  <2>3. sender' = [sender EXCEPT !.main = m, !.cand = c]
    BY <1>8 DEF StartedSource
  <2> HIDE DEF m, s
  <2>4. sender'.main = m /\ sender'.cand = c /\ sender'.drains = drains
    BY <1>5, <2>3, SenderKnown DEF SenderUpTo
  <2>5. c = (IF cand.src = o THEN NoSource ELSE cand)
    BY <1>5
  <2> HIDE DEF c
  <2>6. SourceNext(o, x, s)
    BY <1>6, <2>1
  <2>7. SourceNext(o, x, m)
    BY <1>3, <1>7, <2>1, <2>2, <2>6 DEF SourceNext
  <2>8. SourceNext(o, x, c)
    <3>1. SourceNext(o, x, NoSource)
      BY OpBasic DEF SourceNext, NoSource
    <3> QED BY <1>6, <2>5, <3>1
  <2>9. Apart(m, c, drains)
    <3>1. \A t \in Targets : drains[t].src # 0 => drains[t].phase = "drained" /\ drains[t].src # cand.src
      BY <1>6 DEF Apart
    <3>2. NoSource.src = 0
      BY DEF NoSource
    <3>3. CASE cand.src = o
      BY <2>1, <2>2, <2>5, <3>1, <3>2, <3>3 DEF Apart
    <3>4. CASE cand.src # o
      <4>1. s = main /\ c = cand /\ main.phase = "bound"
        BY <2>1, <2>5, <3>4
      <4>2. \A t \in Targets : drains[t].src # 0 => drains[t].src # main.src
        BY <1>6, <4>1 DEF Apart
      <4> QED BY <1>6, <2>1, <2>2, <3>1, <3>4, <4>1, <4>2 DEF Apart
    <3> QED BY <3>3, <3>4
  <2> QED BY <1>6, <2>4, <2>7, <2>8, <2>9
<1> QED BY <1>1, <1>2, <1>3, <1>4, <1>7, <1>8, SenderCallKnows

\* An operation that finds its own source drained had its hold revoked.
LEMMA FinishKnows ==
  ASSUME GateInv, HoldInv', NEW o \in Op, FinishWait(o) \/ FinishResult(o), UNCHANGED <<coord, play, poll>>
  PROVE  GateInv'
<1>1. pc[o][1] = "finish" /\ UNCHANGED <<native, sender, producerVars, cmd>>
  <2>1. \E step \in {"read", "wait", "result"} : pc[o] = <<"finish", step>>
    BY Zenon DEF FinishWait, FinishResult, At
  <2> QED BY <2>1 DEF FinishWait, FinishResult, peerVars
<1>2. \/ \E x \in {<<"finish", "wait">>, <<"finish", "result">>, <<"done", "unknown">>} : Goes(o, x)
      \/ ResultMatches(o, records[o].sender) /\ Goes(o, <<"finish", ResultOf(o).state>>)
  BY DEF FinishWait, FinishResult, Goto, Unknown, Goes
<1>3. \A x : x[1] \in {"finish", "done"} => Forth(o, x)
  BY DEF Forth, Ahead, EarlyAt, UnpreparedAt, UnstartedAt, BindingAt
<1>4. \A h \in Op : PhaseCalm(h)
  BY <1>1 DEF PhaseCalm
<1>5. CASE \E x \in {<<"finish", "wait">>, <<"finish", "result">>, <<"done", "unknown">>} : Goes(o, x)
  <2>1. PICK x \in {<<"finish", "wait">>, <<"finish", "result">>, <<"done", "unknown">>} : Goes(o, x)
    BY <1>5
  <2>2. Forth(o, x) /\ Far(x)
    BY <1>3, <2>1 DEF Far
  <2>3. ThreadKnows(o)'
    BY <2>1, <2>2, FarKnows
  <2> QED BY <1>1, <1>4, <2>1, <2>2, <2>3, ForthAhead, CallKnows
<1>6. CASE ResultMatches(o, records[o].sender) /\ Goes(o, <<"finish", ResultOf(o).state>>)
  <2>1. PICK x : x = <<"finish", ResultOf(o).state>>
    OBVIOUS
  <2>2. Goes(o, x) /\ Forth(o, x) /\ x[1] = "finish" /\ x[2] = ResultOf(o).state
    BY <1>3, <1>6, <2>1
  <2>3. ResultOf(o).state = "stopped" /\ Outstanding(o) => Revoked(o)
    <3>1. SUFFICES ASSUME ResultOf(o).state = "stopped", Outstanding(o) PROVE Revoked(o)
      OBVIOUS
    <3>2. PICK s : /\ s.op = o /\ s.phase = "drained" /\ s.src = records[o].sender /\ SourceKnows(s)
      BY <1>6, <3>1, ResultSource DEF ResultMatches
    <3>3. ~SourceOperation(o) /\ records[o].native \in {0, o}
      BY <3>1, GateTypes DEF Accounted, AccountedFor, Fits
    <3>4. o \in producer.live /\ records[o].native # 0
      BY <1>1, GateTypes DEF ThreadsAgree, ThreadAgrees, Recorded, Reserved, Holding, Inv, Placed
    <3>5. records[o].sender \in {0, o}
      BY <3>3, <3>4, GateTypes DEF LiveKnows, LiveKnown
    <3>6. s.src = o /\ BoundTo(o)
      BY <3>2, <3>5, OpBasic DEF SourceKnows, BoundTo
    <3> QED BY <3>2, <3>3, <3>4, <3>6, OpBasic DEF SourceKnows
  <2>4. pc'[o] = x
    BY <2>2, GateTypes, HoldTypes DEF Goes, PCType
  <2>5. ThreadKnows(o)'
    <3>1. pc'[o][1] = "finish" /\ pc'[o][2] = ResultOf(o).state /\ ~Early(o)'
      BY <2>2, <2>4 DEF Early, EarlyAt
    <3>2. Outstanding(o)' = Outstanding(o) /\ Revoked(o)' = Revoked(o)
      BY <1>1 DEF Outstanding, Revoked, producerVars
    <3> QED BY <2>3, <3>1, <3>2 DEF ThreadKnows
  <2> QED BY <1>1, <1>4, <2>2, <2>5, ForthAhead, CallKnows
<1> QED BY <1>2, <1>5, <1>6

LEMMA OperationStepKnows ==
  ASSUME GateInv, HoldInv', NEW o \in Op, OperationStep(o), UNCHANGED <<coord, play, poll>>
  PROVE  GateInv'
<1>1. CASE PreflightJournal(o) \/ PreflightCall(o) \/ PreflightRecord(o) \/ PreflightReject(o)
  BY <1>1, PreflightJournalKnows, PreflightCallKnows, PreflightWritesKnow
<1>2. CASE ReserveJournal(o) \/ NativeReserve(o) \/ NativeRecord(o)
  BY <1>2, ReserveJournalKnows, NativeReserveKnows, NativeRecordKnows
<1>3. CASE SenderReserve(o) \/ SenderRecord(o)
  BY <1>3, SenderReserveKnows, SenderRecordKnows
<1>4. CASE CancelJournal(o) \/ CancelCall(o) \/ CancelRecord(o)
  BY <1>4, CancelWritesKnow, CancelCallKnows
<1>5. CASE Admit(o) \/ Advance(o) \/ FinishRecord(o)
  BY <1>5, EffectWritesKnow, FinishRecordKnows
<1>6. CASE StopCall(o) \/ StopRecord(o) \/ VolumeCall(o)
  BY <1>6, StopCallKnows, StopWritesKnow
<1>7. CASE SuspendRead(o) \/ SuspendCall(o) \/ StartRead(o) \/ StartCall(o)
  BY <1>7, SuspendsKnow, StartCallKnows
<1>8. CASE FinishWait(o) \/ FinishResult(o)
  BY <1>8, FinishKnows
<1> QED BY <1>1, <1>2, <1>3, <1>4, <1>5, <1>6, <1>7, <1>8 DEF OperationStep

LEMMA CoordinatorKnows ==
  ASSUME GateInv, HoldInv', NEW o \in Op, StillCurrent(o) \/ AdoptFence(o) \/ Complete(o)
  PROVE  GateInv'
<1>1. UNCHANGED <<native, sender, producerVars, cmd, play, poll>>
  BY DEF StillCurrent, AdoptFence, Complete, peerVars
<1>2. /\ \A p \in Op : Alike(p) /\ PhaseCalm(p)
      /\ producer' = producer
  BY <1>1, AlikeSame DEF producerVars, PhaseCalm
<1>3. pc \in PCType /\ ThreadKnows(o) /\ coord \in CoordType
  BY GateTypes, HoldTypes, Readers DEF ThreadsKnow
<1>4. CASE StillCurrent(o)
  <2>1. pc[o] = <<"reserve", "check">> /\ UNCHANGED coord
    BY <1>4 DEF StillCurrent, At, coordVars
  <2>2. PICK x \in {<<"reserve", "journal">>, <<"done", "superseded">>} : Goes(o, x)
    BY <1>4 DEF StillCurrent, Goto, Goes
  <2>3. Forth(o, x) /\ Early(o)
    BY <2>1, <2>2 DEF Forth, Ahead, Early, EarlyAt, UnpreparedAt, UnstartedAt, Unstarted, BindingAt
  <2>4. ThreadKnows(o)'
    <3>1. CASE x = <<"done", "superseded">>
      BY <2>2, <3>1, FarKnows DEF Far
    <3>2. CASE x = <<"reserve", "journal">>
      <4>1. pc'[o][1] = "reserve" /\ ~Asking(o)'
        BY <1>3, <2>2, <3>2 DEF Goes, PCType, Asking
      <4>2. ~SourceOperation(o) => Blank(records[o]) /\ records[o].sender = 0
        BY <1>3, <2>1, <2>3 DEF ThreadKnows, Recorded
      <4>3. SourceOperation(o)' = SourceOperation(o) /\ UNCHANGED <<records, disk>>
        BY <1>1 DEF SourceOperation, producerVars
      <4>4. Recorded(o)' => ~SourceOperation(o)
        BY <4>1, <4>3 DEF Recorded, Reserved
      <4>5. Recorded(o)' => Blank(records[o])' /\ records'[o].sender = 0
        BY <4>2, <4>3, <4>4 DEF Blank
      <4> QED BY <4>1, <4>5 DEF ThreadKnows
    <3> QED BY <2>2, <3>1, <3>2
  <2> QED BY <1>1, <1>2, <2>1, <2>2, <2>3, <2>4, ThreadRests
<1>5. CASE AdoptFence(o)
  <2>1. pc[o] = <<"fence", "set">> /\ Goes(o, <<Following(o, "fence"), "admit">>) /\ coord' = [coord EXCEPT !.fence = o]
    BY <1>5 DEF AdoptFence, At, Proceed, Goto, Goes
  <2>2. Following(o, "fence") \in {"volume", "stop", "suspend"}
    BY DEF Following
  <2>3. PICK x : x = <<Following(o, "fence"), "admit">>
    OBVIOUS
  <2>4. Forth(o, x) /\ Far(x) /\ Goes(o, x) /\ ~EarlyAt(x)
    <3>1. ~EarlyAt(x) /\ ~UnpreparedAt(x) /\ ~BindingAt(x) /\ Far(x)
      BY <2>2, <2>3 DEF EarlyAt, UnpreparedAt, BindingAt, Far
    <3>2. Unstarted(o)
      BY <2>1 DEF Unstarted, UnstartedAt
    <3> QED BY <2>1, <2>3, <3>1, <3>2 DEF Forth, Ahead
  <2>5. ~Early(coord.fence)'
    <3>1. coord'.fence = o /\ pc'[o] = x
      BY <1>3, <2>1, <2>4 DEF CoordType, Goes, PCType
    <3> QED BY <2>4, <3>1 DEF Early
  <2>6. ThreadKnows(o)'
    BY <2>4, FarKnows
  <2> QED BY <1>1, <1>2, <2>4, <2>5, <2>6, ThreadRests
<1>6. CASE Complete(o)
  <2>1. Goes(o, <<"over", "none">>) /\ (coord' = coord \/ coord'.fence = o)
    BY <1>3, <1>6 DEF Complete, Goes, CoordType
  <2>2. Forth(o, <<"over", "none">>) /\ Far(<<"over", "none">>) /\ ~EarlyAt(<<"over", "none">>)
    BY DEF Forth, Ahead, EarlyAt, UnpreparedAt, UnstartedAt, BindingAt, Far
  <2>3. coord'.fence = coord.fence \/ ~Early(coord.fence)'
    <3>1. pc'[o] = <<"over", "none">>
      BY <1>3, <2>1 DEF Goes, PCType
    <3> QED BY <2>1, <2>2, <3>1 DEF Early
  <2>4. ThreadKnows(o)'
    BY <2>1, <2>2, FarKnows
  <2> QED BY <1>1, <1>2, <2>1, <2>2, <2>3, <2>4, ThreadRests
<1> QED BY <1>4, <1>5, <1>6

LEMMA OperationKnows ==
  ASSUME GateInv, HoldInv', NEW o \in Op, Operation(o)
  PROVE  GateInv'
<1>1. CASE OperationStep(o) /\ UNCHANGED <<coordVars, play, poll>>
  BY <1>1, OperationStepKnows DEF coordVars
<1> QED BY <1>1, CoordinatorKnows DEF Operation

-----------------------------------------------------------------------------
(* Steps that no thread takes *)

\* What is left to show of a step that at most furthers the record of k.
LEMMA QuietKnows ==
  ASSUME GateInv, HoldInv', NEW k \in Op, NEW r, Tells(k, r), Fitting(k, r), Untouched(k, r), UNCHANGED opVars,
         producer'.live = producer.live,
         producer'.active # 0 => \/ producer'.active = producer.active
                                 \/ producer'.active \in Op /\ records'[producer'.active].native # 0,
         \A h \in Op : PhaseCalm(h), sender' = sender \/ SourcesKnow',
         (coord'.fence = coord.fence /\ poll' = poll) \/ PollKnows',
         (play' = play /\ (records[k].preempted => r.native = records[k].native)) \/ PlayKnows'
  PROVE  GateInv'
<1>1. \A p \in Op : pc'[p] = pc[p] /\ cmd'[p] = cmd[p] /\ SourceOperation(p)' = SourceOperation(p)
  BY DEF opVars, SourceOperation
<1>2. SealedHolds' /\ RevokedStays
  BY RevokedKeeps DEF Fitting
<1>3. Accounted'
  BY <1>1, <1>2, AccountedKeeps
<1>4. \A p \in Op : /\ records'[p].sender = records[p].sender /\ records'[p].prior = records[p].prior
                    /\ records'[p].retained = records[p].retained /\ records'[p].target = records[p].target
                    /\ records[p].preempted => records'[p].preempted
  <2>1. \A p \in Op : /\ records'[p].sender = records[p].sender /\ records'[p].prior = records[p].prior
                      /\ records'[p].retained = records[p].retained /\ records'[p].target = records[p].target
    BY UntouchedKept
  <2>2. \A p \in Op : records[p].preempted => records'[p].preempted
    BY DEF Tells, Alike, Same, Fitting
  <2> QED BY <2>1, <2>2
<1>5. ThreadsKnow'
  <2>1. ASSUME NEW p \in Op PROVE ThreadKnows(p)'
    BY <1>1, <1>2, <1>4, OtherKnows
  <2> QED BY <2>1 DEF ThreadsKnow
<1>6. LiveKnows'
  <2>1. ASSUME NEW p \in producer'.live
        PROVE /\ p \in producer.live /\ SourceOperation(p)' = SourceOperation(p)
              /\ records'[p].prior = records[p].prior /\ records'[p].sender = records[p].sender
    <3>1. p \in producer.live
      BY <2>1
    <3>2. p \in Op
      BY <3>1, LiveTypes
    <3> QED BY <1>1, <1>4, <3>1, <3>2
  <2> QED BY <2>1, LiveKeeps
<1>7. SourcesKnow'
  <2>1. SourcedCalm
    <3>1. ASSUME NEW p \in Op PROVE ThreadCalm(p)
      BY <1>1, <1>4 DEF ThreadCalm, Unprepared, Unstarted, BoundTo
    <3> QED BY <3>1 DEF SourcedCalm
  <2> QED BY <1>2, <2>1, SourcesRest
<1>8. PollKnows'
  <2>1. \A h \in Op : ~Early(h) => /\ PhaseCalm(h) /\ ~Early(h)' /\ (h \in producer'.live => h \in producer.live)
                                   /\ (records[h].sender # 0 => records'[h].sender = records[h].sender)
    BY <1>1, <1>4 DEF Early
  <2> QED BY <1>2, <2>1, PollKeeps
<1>9. PlayKnows'
  <2>1. CASE play' = play /\ (records[k].preempted => r.native = records[k].native)
    <3>1. \A p \in Op : records[p].preempted => records'[p].native = records[p].native
      BY <2>1 DEF Tells, Alike, Same
    <3>2. RevokedKept
      BY <1>4, <3>1 DEF RevokedKept
    <3> QED BY <2>1, <3>2, PlayRests
  <2>2. CASE PlayKnows'
    BY <2>2
  <2> QED BY <2>1, <2>2
<1> QED BY <1>2, <1>3, <1>5, <1>6, <1>7, <1>8, <1>9, Assembled

\* The journals stand still.
LEMMA RestKnows ==
  ASSUME GateInv, HoldInv', UNCHANGED <<producerVars, opVars>>, \A h \in Op : PhaseCalm(h),
         sender' = sender \/ SourcesKnow',
         (coord'.fence = coord.fence /\ poll' = poll) \/ PollKnows', play' = play \/ PlayKnows'
  PROVE  GateInv'
<1>0. 1 \in Op
  BY OpBasic DEF Op
<1>1. PICK k, r : k \in Op /\ r = records[k]
  BY <1>0
<1>2. UNCHANGED <<records, disk, producer>>
  BY DEF producerVars
<1>3. Tells(k, r) /\ Alike(k)
  BY <1>2, AlikeSame DEF Tells
<1>4. Fitting(k, r)
  BY <1>1, <1>2, GateTypes DEF Fitting, Accounted, AccountedFor, Revoked
<1>5. Untouched(k, r)
  BY <1>1, <1>3 DEF Untouched
<1> QED BY <1>1, <1>2, <1>3, <1>4, <1>5, QuietKnows

\* A record that is past Native's answer is brought further.
LEMMA AmendKnows ==
  ASSUME GateInv, HoldInv', NEW k \in Op, NEW r, Exists(k), Journaled(k, r), Furthers(k, r),
         Outstanding(k) => Fits(r, k) /\ (Silent(r, k) => Revoked(k)),
         ~(Recorded(k) /\ Early(k) /\ ~SourceOperation(k)),
         UNCHANGED <<sender, opVars>>, producer'.live = producer.live,
         producer'.active \in {producer.active, 0} \/ (producer'.active = k /\ records[k].native # 0),
         \A h \in Op : PhaseCalm(h),
         (coord'.fence = coord.fence /\ poll' = poll) \/ PollKnows', play' = play \/ PlayKnows'
  PROVE  GateInv'
<1>1. JournalTyped
  BY GateTypes DEF Inv, Typed
<1>2. Tells(k, r) /\ records'[k] \in {records[k], r}
  BY <1>1, JournalTells
<1>3. /\ r.native = records[k].native /\ r.sender = records[k].sender /\ r.prior = records[k].prior
      /\ r.retained = records[k].retained /\ r.target = records[k].target
      /\ records[k].preempted => r.preempted
  BY DEF Furthers
<1>4. Fitting(k, r)
  <2>1. RevokedStays
    BY <1>2, <1>3, RevokedKeeps
  <2> QED BY <1>3, <2>1 DEF Fitting, RevokedStays
<1>5. Untouched(k, r)
  BY <1>3 DEF Untouched
<1>6. producer'.active # 0 => \/ producer'.active = producer.active
                              \/ producer'.active \in Op /\ records'[producer'.active].native # 0
  <2>1. records'[k].native = records[k].native
    BY <1>2, <1>3
  <2> QED BY <2>1
<1> QED BY <1>2, <1>3, <1>4, <1>5, <1>6, QuietKnows

LEMMA SourcesMove ==
  ASSUME UNCHANGED <<producerVars, opVars>>, NEW m, NEW c, NEW d,
         m = sender'.main, c = sender'.cand, d = sender'.drains,
         SourceKnows(m), SourceKnows(c), \A t \in Targets : SourceKnows(d[t]), Apart(m, c, d)
  PROVE  SourcesKnow'
<1>1. UNCHANGED <<records, producer, pc, cmd>>
  BY DEF producerVars, opVars
<1>2. ASSUME NEW s, SourceKnows(s) PROVE SourceKnows(s)'
  BY <1>1, <1>2 DEF SourceKnows, SourceOperation, Unprepared, Unstarted, BoundTo, Revoked
<1>3. SourceKnows(m)' /\ SourceKnows(c)' /\ \A t \in Targets : SourceKnows(d[t])'
  BY <1>2
<1> QED BY <1>3, SourcesThen

\* A starting source sounds, or one that was prepared is given up.
LEMMA SenderKnows ==
  ASSUME GateInv, HoldInv', Sounds \/ Expires
  PROVE  GateInv'
<1>1. UNCHANGED <<native, producerVars, opVars, coord, play, poll>> /\ \A h \in Op : PhaseCalm(h)
  BY DEF Sounds, Expires, coordVars, PhaseCalm
<1>2. PICK main, cand, drains, m, c, d :
        /\ main = sender.main /\ cand = sender.cand /\ drains = sender.drains
        /\ m = sender'.main /\ c = sender'.cand /\ d = sender'.drains
  OBVIOUS
<1>3. /\ SourceKnows(main) /\ SourceKnows(cand) /\ Apart(main, cand, drains)
      /\ \A t \in Targets : SourceKnows(drains[t])
  BY <1>2, SenderKnown
<1>4. \/ main.phase = "starting" /\ sender' = [sender EXCEPT !.main.phase = "playing"]
      \/ main.phase = "prepared" /\ sender' = [sender EXCEPT !.main.phase = "cancelled"]
      \/ cand.phase = "prepared" /\ sender' = [sender EXCEPT !.cand.phase = "cancelled"]
  BY <1>2 DEF Sounds, Expires
<1>5. /\ d = drains
      /\ m.src = main.src /\ m.op = main.op /\ m.hold = main.hold
      /\ c.src = cand.src /\ c.op = cand.op /\ c.hold = cand.hold
      /\ \/ m.phase = main.phase
         \/ main.phase = "starting" /\ m.phase = "playing"
         \/ main.phase = "prepared" /\ m.phase = "cancelled"
      /\ \/ c.phase = cand.phase
         \/ cand.phase = "prepared" /\ c.phase = "cancelled"
  BY <1>2, <1>4, SenderKnown DEF SenderUpTo, SourceUpTo
<1>6. SourceKnows(m) /\ SourceKnows(c)
  <2>1. SourceKnows(m)
    BY <1>3, <1>5 DEF SourceKnows
  <2>2. SourceKnows(c)
    BY <1>3, <1>5 DEF SourceKnows
  <2> QED BY <2>1, <2>2
<1>7. Apart(m, c, d)
  BY <1>3, <1>5 DEF Apart
<1>8. SourcesKnow'
  BY <1>1, <1>2, <1>3, <1>5, <1>6, <1>7, SourcesMove
<1> QED BY <1>1, <1>8, RestKnows
-----------------------------------------------------------------------------
(* The preemption *)

LEMMA PlayMoved ==
  ASSUME GateInv, play.step # "idle", \A h \in Op : PhaseCalm(h), play'.hold = play.hold,
         play'.step \notin {"recover", "drain", "record"}
  PROVE  PlayKnows'
<1>1. play.hold \in Op /\ native.phase[play.hold] # "none"
  BY GateTypes DEF Inv, PlayPlaced, PlayKnows
<1>2. native'.phase[play.hold] # "none"
  BY <1>1 DEF PhaseCalm
<1> QED BY <1>2 DEF PlayKnows

\* The thread of a record whose hold Native keeps is past Native's answer.
LEMMA HeldIsLate ==
  ASSUME GateInv, play.step # "idle", NEW k \in Op, HoldOf(k) = play.hold
  PROVE  ~(Recorded(k) /\ Early(k) /\ ~SourceOperation(k))
<1>1. SUFFICES ASSUME Recorded(k), Early(k), ~SourceOperation(k) PROVE FALSE
  OBVIOUS
<1>2. records[k].native = 0
  BY <1>1, GateTypes DEF ThreadsKnow, ThreadKnows, Blank
<1>3. play.hold = k
  BY <1>2 DEF HoldOf
<1>4. native.phase[k] # "none"
  BY <1>3, GateTypes DEF PlayKnows
<1> QED BY <1>1, <1>4, GateTypes DEF HoldsAgree

LEMMA CallbackTo ==
  ASSUME GateInv, NEW s, play' = [play EXCEPT !.step = s]
  PROVE  play'.step = s /\ play'.hold = play.hold /\ play'.key = play.key
<1> QED BY GateTypes, Readers DEF PlayType

LEMMA ExplicitPlayKnows ==
  ASSUME GateInv, HoldInv', NEW t \in Targets, ExplicitPlay(t)
  PROVE  GateInv'
<1> DEFINE h == native.hold[t]
<1>0. /\ Inv /\ play.step = "idle" /\ UNCHANGED <<sender, producerVars, opVars, coord, poll>>
      /\ native \in NativeType /\ play \in PlayType
  BY GateTypes, HoldTypes DEF ExplicitPlay
<1>1. CASE h # 0 /\ Reacquirable(h)
  <2>1. /\ h \in Op /\ native.phase[h] \in {"prepared", "suspended"} /\ native' = Intend(Reacquiring(h))
        /\ play' = [step |-> "journal", id |-> play.id + 1, target |-> t, hold |-> h, key |-> 0]
    BY <1>0, <1>1, OpBasic DEF ExplicitPlay, Reacquirable, NativeType
  <2> HIDE DEF h
  <2>2. native'.phase = [native.phase EXCEPT ![h] = "reacquiring"]
    BY <1>0, <2>1 DEF Intend, Reacquiring, NativeType
  <2>3. native'.phase[h] = "reacquiring" /\ \A k \in Op \ {h} : native'.phase[k] = native.phase[k]
    BY <1>0, <2>1, <2>2 DEF NativeType
  <2>4. \A k \in Op : PhaseCalm(k)
    BY <2>1, <2>3 DEF PhaseCalm
  <2>5. PlayKnows'
    BY <2>1, <2>3 DEF PlayKnows
  <2> QED BY <1>0, <2>4, <2>5, RestKnows
<1>2. CASE ~(h # 0 /\ Reacquirable(h))
  <2>1. native' = Intend(native) /\ play' = [play EXCEPT !.id = @ + 1]
    BY <1>2 DEF ExplicitPlay
  <2>2. native'.phase = native.phase /\ play'.step = "idle"
    BY <1>0, <2>1 DEF Intend, NativeType, PlayType
  <2>3. (\A k \in Op : PhaseCalm(k)) /\ PlayKnows'
    BY <2>2 DEF PhaseCalm, PlayKnows
  <2> QED BY <1>0, <2>3, RestKnows
<1> QED BY <1>1, <1>2

LEMMA PreemptJournalKnows ==
  ASSUME GateInv, HoldInv', PreemptJournal
  PROVE  GateInv'
<1> DEFINE found == Holders(play.hold, play.target)
           key == Newest(found)
           fenced == [records[key] EXCEPT !.preempted = TRUE, !.play = play.id, !.terminal = FALSE,
                                          !.stage = "preempt-drain-attempted"]
           s == IF records[key].native = 0 THEN "recover" ELSE "drain"
<1>0. /\ Inv /\ play.step = "journal" /\ UNCHANGED <<native, sender, opVars, coord, poll>>
      /\ \A h \in Op : PhaseCalm(h)
  BY GateTypes DEF PreemptJournal, peerVars, coordVars, PhaseCalm
<1>1. \/ play' = [play EXCEPT !.step = "refused"] /\ UNCHANGED producerVars
      \/ /\ found # {} /\ UNCHANGED producer
         /\ \/ Stored(key, fenced) /\ play' = [play EXCEPT !.key = key, !.step = s]
            \/ StoreFailed(key, fenced) /\ play' = [play EXCEPT !.key = key, !.step = "refused"]
  BY DEF PreemptJournal, Write, PlayStep
<1>2. CASE play' = [play EXCEPT !.step = "refused"] /\ UNCHANGED producerVars
  <2>1. play'.step = "refused" /\ play'.hold = play.hold
    BY <1>2, CallbackTo
  <2>2. PlayKnows'
    BY <1>0, <2>1, PlayMoved
  <2> QED BY <1>0, <1>2, <2>2, RestKnows
<1>3. CASE /\ found # {} /\ UNCHANGED producer
           /\ \/ Stored(key, fenced) /\ play' = [play EXCEPT !.key = key, !.step = s]
              \/ StoreFailed(key, fenced) /\ play' = [play EXCEPT !.key = key, !.step = "refused"]
  <2>1. key \in producer.live /\ key \in Op /\ Exists(key) /\ HoldOf(key) = play.hold /\ records[key] \in Record
    <3>1. found \subseteq Op /\ \A o \in found : o \in producer.live /\ Exists(o) /\ HoldOf(o) = play.hold
      BY <1>0, HoldTypes DEF Holders, ProducerType
    <3>2. key \in found
      BY <1>3, <3>1, Greatest
    <3> QED BY <1>0, <3>1, <3>2, HoldTypes
  <2> HIDE DEF found, key
  <2>2. /\ fenced.preempted /\ ~fenced.terminal /\ fenced.stage = "preempt-drain-attempted"
        /\ fenced.native = records[key].native /\ fenced.sender = records[key].sender
        /\ fenced.rejection = records[key].rejection /\ Furthers(key, fenced)
    <3>1. fenced.preempted = TRUE /\ fenced.terminal = FALSE
      BY <2>1 DEF Record
    <3> QED BY <2>1, <3>1 DEF Furthers, Record
  <2>3. s = IF records[key].native = 0 THEN "recover" ELSE "drain"
    OBVIOUS
  <2> HIDE DEF fenced, s
  <2>4. Outstanding(key) => Fits(fenced, key) /\ (Silent(fenced, key) => Revoked(key))
    <3>1. fenced.stage \notin Unasked
      BY <2>2 DEF Unasked, PreflightStage
    <3>2. ~Silent(fenced, key)
      BY <2>2 DEF Silent
    <3>3. Outstanding(key) => Fits(records[key], key)
      BY <2>1, GateTypes DEF Accounted, AccountedFor
    <3> QED BY <2>2, <3>1, <3>2, <3>3 DEF Fits
  <2>5. ~(Recorded(key) /\ Early(key) /\ ~SourceOperation(key))
    BY <1>0, <2>1, HeldIsLate
  <2>6. PlayKnows'
    <3>1. CASE StoreFailed(key, fenced) /\ play' = [play EXCEPT !.key = key, !.step = "refused"]
      <4>1. play'.step = "refused" /\ play'.hold = play.hold
        BY <1>0, <3>1, Readers DEF PlayType
      <4> QED BY <1>0, <4>1, PlayMoved
    <3>2. CASE Stored(key, fenced) /\ play' = [play EXCEPT !.key = key, !.step = s]
      <4>1. play'.step = s /\ play'.key = key /\ play'.hold = play.hold
        BY <1>0, <3>2, Readers DEF PlayType
      <4>2. records'[key].preempted /\ records'[key].native = records[key].native /\ producer'.live = producer.live
        BY <1>0, <1>3, <2>1, <2>2, <3>2, HoldTypes DEF Stored
      <4>3. native'.phase[play.hold] # "none"
        BY <1>0, GateTypes DEF PlayKnows
      <4>4. play'.step \in {"drain", "record"} => records'[key].native = play.hold
        BY <2>1, <2>3, <4>1, <4>2 DEF HoldOf
      <4> QED BY <2>1, <4>1, <4>2, <4>3, <4>4 DEF PlayKnows, HoldOf
    <3> QED BY <1>3, <3>1, <3>2
  <2>7. Journaled(key, fenced) /\ producer' = producer
    BY <1>3 DEF Journaled
  <2> QED BY <1>0, <2>1, <2>2, <2>4, <2>5, <2>6, <2>7, AmendKnows
<1> QED BY <1>1, <1>2, <1>3
LEMMA PreemptRecoverKnows ==
  ASSUME GateInv, HoldInv', PreemptRecover
  PROVE  GateInv'
<1>k. PICK key : key = play.key
  OBVIOUS
<1> DEFINE r == [records[key] EXCEPT !.native = play.hold]
<1>0. /\ Inv /\ JournalTyped /\ play.step = "recover" /\ UNCHANGED <<native, sender, opVars, coord, poll>>
      /\ \A h \in Op : PhaseCalm(h)
  BY GateTypes DEF Inv, Typed, PreemptRecover, peerVars, coordVars, PhaseCalm
<1>1. /\ key \in producer.live /\ records[key].preempted /\ HoldOf(key) = play.hold /\ play.hold \in Op
      /\ key \in Op /\ Exists(key) /\ records[key] \in Record /\ native.phase[play.hold] # "none"
  BY <1>k, <1>0, GateTypes, HoldTypes DEF PlayKnows, Inv, PlayPlaced
<1>2. PICK z \in {"drain", "refused"} :
        /\ play' = [play EXCEPT !.step = z]
        /\ producer' = producer
        /\ \/ Journaled(key, r) /\ (z = "drain" => Stored(key, r))
           \/ UNCHANGED producerVars /\ z = "refused"
  BY <1>k DEF PreemptRecover, Write, Journaled, PlayStep, producerVars
<1>3. play'.step = z /\ play'.hold = play.hold /\ play'.key = key
  BY <1>k, <1>2, CallbackTo
<1>4. /\ r.stage = records[key].stage /\ r.prior = records[key].prior /\ r.retained = records[key].retained
      /\ r.target = records[key].target /\ r.sender = records[key].sender /\ r.native = play.hold
      /\ r.rejection = records[key].rejection /\ r.terminal = records[key].terminal
      /\ r.playing = records[key].playing /\ r.preempted = records[key].preempted
  BY <1>1 DEF Record
<1>5. records[key].native # 0 => r.native = records[key].native
  BY <1>1, <1>4 DEF HoldOf
<1> HIDE DEF r
<1>6. CASE UNCHANGED producerVars /\ z = "refused"
  <2>1. PlayKnows'
    BY <1>0, <1>3, <1>6, PlayMoved
  <2> QED BY <1>0, <1>6, <2>1, RestKnows
<1>7. CASE Journaled(key, r) /\ (z = "drain" => Stored(key, r))
  <2>1. Tells(key, r)
    BY <1>0, <1>1, <1>7, JournalTells
  <2>2. RevokedStays
    BY <1>1, <1>4, <1>5, <2>1, RevokedKeeps
  <2>3. Fitting(key, r)
    <3>1. SUFFICES ASSUME Outstanding(key) PROVE Fits(r, key) /\ (Silent(r, key) => Revoked(key)')
      BY <1>1, <1>4, <1>5 DEF Fitting
    <3>2. Fits(records[key], key) /\ (Silent(records[key], key) => Revoked(key))
      BY <1>1, <3>1, GateTypes DEF Accounted, AccountedFor
    <3>3. r.native = key
      BY <1>1, <1>4, <1>5, <3>2, OpBasic DEF Fits, HoldOf
    <3>4. Fits(r, key)
      BY <1>4, <3>2, <3>3 DEF Fits
    <3>5. Silent(r, key) => Silent(records[key], key)
      BY <1>4, <3>3 DEF Silent
    <3> QED BY <1>1, <2>2, <3>2, <3>4, <3>5 DEF RevokedStays
  <2>4. Untouched(key, r)
    <3>1. ~(Recorded(key) /\ Early(key) /\ ~SourceOperation(key))
      BY <1>0, <1>1, HeldIsLate
    <3> QED BY <1>1, <1>4, <3>1 DEF Untouched
  <2>5. PlayKnows'
    <3>1. CASE z = "refused"
      BY <1>0, <1>3, <3>1, PlayMoved
    <3>2. CASE z = "drain"
      <4>1. records'[key] = r
        BY <1>0, <1>1, <1>7, <3>2 DEF Stored, JournalTyped
      <4>2. HoldOf(key)' = play.hold
        BY <1>1, <1>4, <4>1 DEF HoldOf
      <4> QED BY <1>0, <1>1, <1>2, <1>3, <1>4, <4>1, <4>2, OpBasic DEF PlayKnows, HoldOf
    <3> QED BY <3>1, <3>2
  <2> QED BY <1>0, <1>1, <1>2, <2>1, <2>3, <2>4, <2>5, QuietKnows
<1> QED BY <1>2, <1>6, <1>7

\* The drain that is signed for an explicit play.
LEMMA ChallengedSources ==
  ASSUME GateInv, NEW src, NEW t \in Targets, NEW h, NEW i, ChallengeAccepted(src, t, h), Revoked(h),
         UNCHANGED <<producerVars, opVars>>, sender' = Challenged(src, t, h, i)
  PROVE  SourcesKnow'
<1> DEFINE cancelled == IF CandidatePresent /\ sender.cand.tgt = t
                        THEN [sender EXCEPT !.cand.phase = "cancelled"] ELSE sender
           signed == [cancelled EXCEPT !.signed = @ \cup {i}]
           drained == [sender.main EXCEPT !.phase = "drained", !.hold = h, !.relinquished = TRUE]
<1>1. PICK n : /\ sender \in SenderUpTo(n) /\ sender.main \in SourceUpTo(n) /\ sender.cand \in SourceUpTo(n)
               /\ sender.drains \in [Targets -> SourceUpTo(n)]
  BY SenderKnown
<1>2. /\ cancelled.main = sender.main /\ cancelled.drains = sender.drains /\ DOMAIN cancelled = DOMAIN sender
      /\ cancelled.cand.src = sender.cand.src /\ cancelled.cand.op = sender.cand.op
      /\ cancelled.cand.hold = sender.cand.hold
      /\ \/ cancelled.cand.phase = sender.cand.phase
         \/ sender.cand.phase # "empty" /\ cancelled.cand.phase = "cancelled"
  BY <1>1 DEF CandidatePresent, SenderUpTo, SourceUpTo
<1>3. /\ signed.main = sender.main /\ signed.cand = cancelled.cand /\ signed.drains = sender.drains
      /\ DOMAIN signed = DOMAIN sender
  BY <1>1, <1>2 DEF SenderUpTo
<1>4. /\ drained.src = sender.main.src /\ drained.op = sender.main.op /\ drained.hold = h
      /\ drained.phase = "drained"
  BY <1>1 DEF SourceUpTo
<1>5. sender' = IF sender.main.src = src THEN Drain(signed, drained) ELSE [signed EXCEPT !.drains[t].relinquished = TRUE]
  BY DEF Challenged
<1>6. {"main", "cand", "drains"} \subseteq DOMAIN sender
  BY <1>1 DEF SenderUpTo
<1>7. PICK main, cand, drains, m, c, d :
        /\ main = sender.main /\ cand = sender.cand /\ drains = sender.drains
        /\ m = sender'.main /\ c = sender'.cand /\ d = sender'.drains
  OBVIOUS
<1>8. /\ SourceKnows(main) /\ SourceKnows(cand) /\ Apart(main, cand, drains)
      /\ \A u \in Targets : SourceKnows(drains[u])
  BY <1>7, SenderKnown
<1> HIDE DEF cancelled, signed
<1>9. c.src = cand.src /\ SourceKnows(c)
  <2>1. c = cancelled.cand
    BY <1>2, <1>3, <1>5, <1>6, <1>7 DEF Drain
  <2> QED BY <1>2, <1>7, <1>8, <2>1 DEF SourceKnows
<1>10. CASE sender.main.src = src
  <2>1. main.phase # "empty" /\ src # cand.src /\ (main.phase = "prepared" \/ main.hold = h)
    BY <1>7, <1>10 DEF ChallengeAccepted, Archived
  <2>2. PICK x : x = drained
    OBVIOUS
  <2> HIDE DEF drained
  <2>3. m = x /\ \A u \in Targets : d[u] \in {drains[u], x}
    <3>1. PICK v : v = x.tgt
      OBVIOUS
    <3>2. sender' = [signed EXCEPT !.main = x, !.drains = [signed.drains EXCEPT ![v] = x]]
      BY <1>3, <1>5, <1>6, <1>10, <2>2, <3>1 DEF Drain
    <3>3. m = x /\ d = [drains EXCEPT ![v] = x]
      BY <1>3, <1>6, <1>7, <3>2
    <3> QED BY <1>1, <1>7, <3>3
  <2>4. SourceKnows(x)
    BY <1>4, <1>7, <1>8, <2>1, <2>2 DEF SourceKnows
  <2>5. Apart(m, c, d)
    <3>1. \A u \in Targets : drains[u].src # 0 => drains[u].phase = "drained" /\ drains[u].src # cand.src
      BY <1>8 DEF Apart
    <3>2. x.src = main.src /\ x.phase = "drained" /\ x.src # cand.src
      BY <1>4, <1>7, <1>10, <2>1, <2>2
    <3> QED BY <1>9, <2>3, <3>1, <3>2 DEF Apart
  <2>6. \A u \in Targets : SourceKnows(d[u])
    BY <1>8, <2>3, <2>4
  <2> QED BY <1>7, <1>9, <2>3, <2>4, <2>5, <2>6, SourcesMove
<1>11. CASE sender.main.src # src
  <2>1. m = main /\ d = [drains EXCEPT ![t] = [drains[t] EXCEPT !.relinquished = TRUE]]
    <3>1. sender' = [signed EXCEPT !.drains[t].relinquished = TRUE]
      BY <1>5, <1>11
    <3> QED BY <1>1, <1>3, <1>6, <1>7, <3>1
  <2>2. \A u \in Targets : /\ d[u].src = drains[u].src /\ d[u].op = drains[u].op /\ d[u].hold = drains[u].hold
                           /\ d[u].phase = drains[u].phase
    BY <1>1, <1>7, <2>1 DEF SourceUpTo
  <2>3. ASSUME NEW u \in Targets PROVE SourceKnows(d[u])
    <3>1. PICK x, y : x = drains[u] /\ y = d[u]
      OBVIOUS
    <3>2. SourceKnows(y)
      BY <1>8, <2>2, <3>1 DEF SourceKnows
    <3> QED BY <3>1, <3>2
  <2>4. Apart(m, c, d)
    BY <1>8, <1>9, <2>1, <2>2 DEF Apart
  <2>5. SourceKnows(m)
    BY <1>8, <2>1
  <2> QED BY <1>7, <1>9, <2>3, <2>4, <2>5, SourcesMove
<1> QED BY <1>10, <1>11
LEMMA PreemptDrainKnows ==
  ASSUME GateInv, HoldInv', PreemptDrain
  PROVE  GateInv'
<1> DEFINE r == records[play.key]
           src == IF r.sender # 0 THEN r.sender ELSE r.peer
           t == play.target
<1>0. /\ play.step = "drain" /\ UNCHANGED <<native, producerVars, opVars, coord, poll>>
      /\ \A h \in Op : PhaseCalm(h)
  BY DEF PreemptDrain, coordVars, PhaseCalm
<1>1. \/ /\ play' = [play EXCEPT !.step = "refused"] /\ sender' = sender
      \/ \E s \in {"refused", "record"} :
           /\ play' = [play EXCEPT !.step = s]
           /\ ChallengeAccepted(src, t, r.native) /\ sender' = Challenged(src, t, r.native, play.id)
  BY DEF PreemptDrain, SenderCall, PlayStep
<1>2. PICK s \in {"refused", "record"} :
        /\ play' = [play EXCEPT !.step = s]
        /\ \/ sender' = sender
           \/ ChallengeAccepted(src, t, r.native) /\ sender' = Challenged(src, t, r.native, play.id)
  BY <1>1
<1>3. /\ play.hold \in Op /\ play.key \in Op /\ t \in Targets /\ native.phase[play.hold] # "none"
      /\ play.key \in producer.live /\ r.preempted /\ HoldOf(play.key) = play.hold /\ r.native = play.hold
  BY <1>0, GateTypes DEF PlayKnows, Inv, PlayPlaced, PlayAgrees
<1>4. play'.step = s /\ play'.hold = play.hold /\ play'.key = play.key
  BY <1>2, CallbackTo
<1>5. PlayKnows'
  BY <1>0, <1>3, <1>4 DEF PlayKnows, HoldOf, producerVars
<1>6. Revoked(r.native)
  BY <1>3, OpBasic DEF Revoked
<1>7. sender' = sender \/ SourcesKnow'
  <2>1. PICK a, u, h, i : a = src /\ u = t /\ h = r.native /\ i = play.id
    OBVIOUS
  <2> HIDE DEF src, t, r
  <2>2. CASE ChallengeAccepted(a, u, h) /\ sender' = Challenged(a, u, h, i)
    <3>1. Revoked(h) /\ u \in Targets
      BY <1>3, <1>6, <2>1
    <3> QED BY <1>0, <2>2, <3>1, ChallengedSources
  <2> QED BY <1>2, <2>1, <2>2
<1> QED BY <1>0, <1>5, <1>7, RestKnows

LEMMA PreemptRecordKnows ==
  ASSUME GateInv, HoldInv', PreemptRecord
  PROVE  GateInv'
<1>k. PICK key : key = play.key
  OBVIOUS
<1> DEFINE t == play.target
           kept == producer.retained[t]
           r == [records[key] EXCEPT !.ticket = play.id, !.stage = "preempted",
                                     !.terminal = TRUE, !.outcome = "preempted"]
           a == IF producer.active = key THEN 0 ELSE producer.active
           k == IF kept.native = play.hold THEN NotRetained ELSE kept
           forgotten == [producer EXCEPT !.active = a, !.retained = [producer.retained EXCEPT ![t] = k]]
<1>0. /\ Inv /\ play.step = "record" /\ UNCHANGED <<native, sender, opVars, coord, poll>>
      /\ \A h \in Op : PhaseCalm(h)
  BY GateTypes DEF PreemptRecord, peerVars, coordVars, PhaseCalm
<1>1. /\ key \in Op /\ Exists(key) /\ records[key] \in Record /\ play.hold \in Op
      /\ records[key].preempted /\ HoldOf(key) = play.hold /\ records[key].native = play.hold
  BY <1>k, <1>0, GateTypes, HoldTypes DEF Inv, PlayPlaced, PlayKnows
<1>2. PICK z \in {"observe", "refused"} :
        play' = [play EXCEPT !.step = z] /\ Journaled(key, r) /\ producer' \in {producer, forgotten}
  <2>1. forgotten = [producer EXCEPT !.active = IF @ = key THEN 0 ELSE @,
                                     !.retained[t] = IF kept.native = play.hold THEN NotRetained ELSE kept]
    BY <1>0, Readers DEF ProducerType
  <2> HIDE DEF forgotten
  <2> QED BY <1>k, <2>1 DEF PreemptRecord, Write, Journaled, PlayStep
<1>3. PlayKnows'
  <2>1. play'.step = z /\ play'.hold = play.hold
    BY <1>2, CallbackTo
  <2> QED BY <1>0, <2>1, PlayMoved
<1>4. /\ Furthers(key, r) /\ r.stage = "preempted" /\ r.terminal /\ r.native = records[key].native
      /\ r.sender = records[key].sender /\ r.rejection = records[key].rejection
  <2>1. r.terminal = TRUE
    BY <1>1 DEF Record
  <2> QED BY <1>1, <2>1 DEF Furthers, Record
<1>5. forgotten.live = producer.live /\ forgotten.active \in {producer.active, 0}
  BY <1>0, HoldTypes DEF ProducerType
<1> HIDE DEF r, forgotten
<1>6. Outstanding(key) => Fits(r, key) /\ (Silent(r, key) => Revoked(key))
  <2>1. SUFFICES ASSUME Outstanding(key) PROVE Fits(r, key) /\ Revoked(key)
    OBVIOUS
  <2>2. Fits(records[key], key)
    BY <1>1, <2>1, GateTypes DEF Accounted, AccountedFor
  <2>3. r.stage \notin Unasked
    BY <1>4 DEF Unasked, PreflightStage
  <2>4. Revoked(key)
    BY <1>1, <2>2, OpBasic DEF Revoked, Fits
  <2> QED BY <1>4, <2>2, <2>3, <2>4 DEF Fits
<1>7. ~(Recorded(key) /\ Early(key) /\ ~SourceOperation(key))
  BY <1>0, <1>1, HeldIsLate
<1>8. producer'.live = producer.live /\ producer'.active \in {producer.active, 0}
  BY <1>2, <1>5
<1> QED BY <1>0, <1>1, <1>2, <1>3, <1>4, <1>6, <1>7, <1>8, AmendKnows

LEMMA PreemptEndKnows ==
  ASSUME GateInv, HoldInv', PreemptObserve \/ PreemptEnd \/ NativeTimeout
  PROVE  GateInv'
<1>0. /\ Inv /\ native \in NativeType /\ coord \in CoordType /\ play.step # "idle" /\ play.hold \in Op
      /\ UNCHANGED <<sender, producerVars, opVars, poll>>
  BY GateTypes, HoldTypes, Readers DEF PreemptObserve, PreemptEnd, NativeTimeout, PlayStep, peerVars, Inv, PlayPlaced
<1>1. coord'.fence = coord.fence
  BY <1>0 DEF PreemptObserve, PreemptEnd, NativeTimeout, coordVars, CoordType
<1>2. \/ native' = native
      \/ native.phase[play.hold] = "reacquiring" /\ native' = ReacquireFailed(play.hold)
      \/ native.phase[play.hold] = "reacquiring" /\ native' = Returned(play.hold, play.target, play.id)
  BY DEF PreemptObserve, PreemptEnd, NativeTimeout, peerVars
<1>3. \A h \in Op : PhaseCalm(h)
  <2>1. CASE native' = native
    BY <2>1 DEF PhaseCalm
  <2>2. CASE native.phase[play.hold] = "reacquiring" /\ native' = ReacquireFailed(play.hold)
    <3>1. native'.phase[play.hold] = "unknown" /\ \A h \in Op : h # play.hold => native'.phase[h] = native.phase[h]
      BY <1>0, <2>2 DEF ReacquireFailed, NativeType
    <3> QED BY <2>2, <3>1 DEF PhaseCalm
  <2>3. CASE native.phase[play.hold] = "reacquiring" /\ native' = Returned(play.hold, play.target, play.id)
    <3>1. native'.phase[play.hold] = "returned" /\ \A h \in Op : h # play.hold => native'.phase[h] = native.phase[h]
      BY <1>0, <2>3 DEF Returned, NativeType
    <3> QED BY <2>3, <3>1 DEF PhaseCalm
  <2> QED BY <1>2, <2>1, <2>2, <2>3
<1>4. play' = play \/ PlayKnows'
  <2>1. CASE PreemptObserve
    <3>1. play' = [play EXCEPT !.step = "commit"]
      BY <2>1 DEF PreemptObserve, PlayStep
    <3>2. play'.step = "commit" /\ play'.hold = play.hold
      BY <3>1, CallbackTo
    <3> QED BY <1>0, <1>3, <3>2, PlayMoved
  <2>2. CASE PreemptEnd
    <3>1. play'.step = "idle"
      BY <2>2 DEF PreemptEnd, NoPlay
    <3> QED BY <3>1 DEF PlayKnows
  <2>3. CASE NativeTimeout
    BY <2>3 DEF NativeTimeout
  <2> QED BY <2>1, <2>2, <2>3
<1> QED BY <1>0, <1>1, <1>3, <1>4, RestKnows
-----------------------------------------------------------------------------
(* The polls *)

LEMMA PollMoved ==
  ASSUME GateInv, UNCHANGED opVars, coord'.fence = coord.fence, poll'.fence \in {poll.fence, 0},
         poll'.step \notin {"native", "cancelled", "sender", "settle"}
  PROVE  PollKnows'
<1>1. PICK f, g : f = coord.fence /\ g = poll.fence
  OBVIOUS
<1>2. (f # 0 => ~EarlyAt(pc[f])) /\ (g # 0 => ~EarlyAt(pc[g])) /\ pc' = pc
  BY <1>1, GateTypes DEF PollKnows, Early, opVars
<1>3. (coord'.fence # 0 => ~EarlyAt(pc'[coord'.fence])) /\ (poll'.fence # 0 => ~EarlyAt(pc'[poll'.fence]))
  BY <1>1, <1>2
<1> QED BY <1>3 DEF PollKnows, Early

LEMMA PollTo ==
  ASSUME GateInv, NEW s, poll' = [poll EXCEPT !.step = s]
  PROVE  /\ poll'.step = s /\ poll'.fence = poll.fence /\ poll'.rec = poll.rec /\ poll'.obs = poll.obs
BY GateTypes, Readers DEF PollType

LEMMA NoPollIdle ==
  ASSUME poll' = NoPoll
  PROVE  poll'.step = "idle" /\ poll'.fence = 0
BY DEF NoPoll

\* What a poll reads of the fence.
LEMMA PollReads ==
  ASSUME GateInv, HoldInv', Poll
  PROVE  GateInv'
<1>1. /\ UNCHANGED <<native, sender, producerVars, opVars, coord, play>> /\ \A h \in Op : PhaseCalm(h)
  BY DEF Poll, peerVars, PollUnchanged, PhaseCalm
<1>2. PICK mode, f, step : /\ f = coord.fence
        /\ \/ step = "release"
           \/ f # 0 /\ step = "cancelled" /\ (records[f].rejection \/ records[f].stage \in PreflightStage)
           \/ f # 0 /\ step = "native"
        /\ poll' = [NoPoll EXCEPT !.step = step, !.mode = mode, !.fence = f, !.last = coord.last,
                                  !.rec = IF f = 0 THEN NoRecord ELSE records[f]]
  <2>1. PICK mode \in {"refresh", "result"} :
          LET reads == mode = "result" \/ coord.shown.state = "unknown"
              f == coord.fence
          IN /\ reads => f # 0 /\ Exists(f)
             /\ poll' = [NoPoll EXCEPT
                    !.step = IF ~reads THEN "release"
                             ELSE IF records[f].rejection \/ (records[f].native = 0
                                        /\ records[f].stage \in PreflightStage)
                             THEN "cancelled" ELSE "native",
                    !.mode = mode, !.fence = f, !.last = coord.last,
                    !.rec = IF f = 0 THEN NoRecord ELSE records[f]]
    BY DEF Poll
  <2>2. PICK f : f = coord.fence
    OBVIOUS
  <2> DEFINE reads == mode = "result" \/ coord.shown.state = "unknown"
             gone == records[f].rejection \/ (records[f].native = 0 /\ records[f].stage \in PreflightStage)
             step == IF ~reads THEN "release" ELSE IF gone THEN "cancelled" ELSE "native"
  <2>3. /\ reads => f # 0
        /\ poll' = [NoPoll EXCEPT !.step = step, !.mode = mode, !.fence = f, !.last = coord.last,
                                  !.rec = IF f = 0 THEN NoRecord ELSE records[f]]
    BY <2>1, <2>2, Zenon
  <2>4. \/ step = "release"
        \/ f # 0 /\ step = "cancelled" /\ (records[f].rejection \/ records[f].stage \in PreflightStage)
        \/ f # 0 /\ step = "native"
    BY <2>3
  <2> HIDE DEF step
  <2> QED BY <2>2, <2>3, <2>4
<1>3. /\ poll'.fence = f /\ (f # 0 => poll'.rec = records[f])
      /\ \/ poll'.step = "release"
         \/ /\ f # 0 /\ poll'.step = "cancelled"
            /\ records[f].rejection \/ records[f].stage \in PreflightStage
         \/ f # 0 /\ poll'.step = "native"
  BY <1>2 DEF NoPoll
<1>4. (f # 0 => f \in Op /\ ~EarlyAt(pc[f])) /\ pc' = pc
  BY <1>1, <1>2, OpBasic, GateTypes, Readers DEF PollKnows, Early, opVars, CoordType
<1>5. poll'.step = "cancelled" => ~Outstanding(f)
  <2>1. Outstanding(f) /\ f \in Op => Fits(records[f], f)
    BY GateTypes DEF Accounted, AccountedFor
  <2> QED BY <1>3, <1>4, <2>1 DEF Fits, Unasked
<1>6. PollKnows'
  <2>1. (coord'.fence # 0 => ~EarlyAt(pc'[coord'.fence])) /\ (poll'.fence # 0 => ~EarlyAt(pc'[poll'.fence]))
    BY <1>1, <1>2, <1>3, <1>4
  <2>2. poll'.step = "cancelled" => ~Outstanding(f)'
    BY <1>1, <1>5 DEF Outstanding
  <2>3. poll'.step \in {"native", "sender"} => poll'.rec = records'[f]
    BY <1>1, <1>3 DEF producerVars
  <2> QED BY <1>3, <2>1, <2>2, <2>3 DEF PollKnows, Early, Outstanding
<1> QED BY <1>1, <1>6, RestKnows

\* A receipt that is kept changes nothing that matters here.
LEMMA PollReleaseKnows ==
  ASSUME GateInv, HoldInv', PollRelease
  PROVE  GateInv'
<1>0. /\ UNCHANGED <<native, sender, producer, opVars, coord, play>> /\ poll' = [poll EXCEPT !.step = "observe"]
      /\ (\A h \in Op : PhaseCalm(h)) /\ JournalTyped
  BY GateTypes DEF PollRelease, PollStep, peerVars, coordVars, PollUnchanged, PhaseCalm, Inv, Typed
<1>1. PollKnows'
  <2>1. poll'.step = "observe" /\ poll'.fence = poll.fence
    BY <1>0, PollTo
  <2> QED BY <1>0, <2>1, PollMoved
<1>2. \A p \in Op : Alike(p)
  <2> DEFINE kept == [o \in Op |-> IF o \in Completed THEN [records[o] EXCEPT !.release = TRUE] ELSE records[o]]
  <2>1. \/ /\ records' = kept
           /\ disk' = [o \in Op |-> IF o \in Completed THEN kept[o] ELSE disk[o]]
        \/ UNCHANGED <<records, disk>>
    BY DEF PollRelease
  <2>2. \A p \in Op : Same(kept[p], records[p])
    <3>1. ASSUME NEW p \in Op PROVE Same([records[p] EXCEPT !.release = TRUE], records[p])
      <4>1. records[p] \in Record
        BY <1>0 DEF JournalTyped
      <4> QED BY <4>1 DEF Same, Record
    <3> QED BY <3>1 DEF Same
  <2>3. \A p \in Op : Same(disk[p], disk[p]) /\ Same(records[p], records[p])
    BY DEF Same
  <2> HIDE DEF kept
  <2> QED BY <2>1, <2>2, <2>3 DEF Alike
<1>3. PICK k \in Op : TRUE
  BY OpBasic DEF Op
<1>4. PICK r : r = records[k]
  OBVIOUS
<1>5. Tells(k, r)
  BY <1>2 DEF Tells
<1>6. RevokedStays
  BY <1>4, <1>5, RevokedKeeps
<1>7. Fitting(k, r)
  BY <1>4, <1>6, GateTypes DEF Fitting, Accounted, AccountedFor, RevokedStays
<1>8. Untouched(k, r)
  BY <1>2, <1>4 DEF Untouched
<1> QED BY <1>0, <1>1, <1>4, <1>5, <1>7, <1>8, QuietKnows

LEMMA PollShowsKnow ==
  ASSUME GateInv, HoldInv', PollObserve \/ PollPreempted \/ PollApply
  PROVE  GateInv'
<1>1. /\ UNCHANGED <<native, sender, producerVars, opVars, play>> /\ coord \in CoordType
      /\ \A h \in Op : PhaseCalm(h)
  BY GateTypes, Readers DEF PollObserve, PollPreempted, PollApply, peerVars, PollUnchanged, PhaseCalm
<1>2. coord'.fence = coord.fence
  BY <1>1 DEF PollObserve, PollPreempted, PollApply, coordVars, CoordType
<1>3. poll'.step \in {"idle", "apply"} /\ poll'.fence \in {poll.fence, 0}
  <2>1. poll' = NoPoll \/ \E out, obs : poll' = [poll EXCEPT !.step = "apply", !.outcome = out, !.obs = obs]
    BY DEF PollObserve, PollPreempted, PollApply, PollOver, Learned
  <2> QED BY <2>1, NoPollIdle, GateTypes, Readers DEF PollType
<1>4. PollKnows'
  BY <1>1, <1>2, <1>3, PollMoved
<1> QED BY <1>1, <1>4, RestKnows
\* The record a poll reconciles: its thread is past Native's answer.
LEMMA PollFence ==
  ASSUME GateInv, poll.step \in Reconciling, NEW f, f = poll.fence
  PROVE  /\ f \in Op /\ f # 0 /\ Exists(f) /\ records[f] \in Record /\ ~Early(f)
         /\ Outstanding(f) => Fits(records[f], f) /\ (Silent(records[f], f) => Revoked(f))
<1>1. f \in Op /\ f # 0 /\ Exists(f) /\ records[f] \in Record
  BY GateTypes, HoldTypes, OpBasic DEF Inv, PollPlaced
<1>2. ~Early(f)
  BY <1>1, GateTypes DEF PollKnows
<1> QED BY <1>1, <1>2, GateTypes DEF Accounted, AccountedFor

LEMMA PollNativeKnows ==
  ASSUME GateInv, HoldInv', PollNative
  PROVE  GateInv'
<1>1. PICK f, r, h, now : f = poll.fence /\ r = poll.rec /\ h = (IF r.native # 0 THEN r.native ELSE f) /\ now = records[f]
  OBVIOUS
<1>0. /\ Inv /\ poll.step = "native" /\ UNCHANGED <<sender, opVars, coord, play>> /\ native' = ResultRead(h)
      /\ poll.rec \in Record
  BY <1>1, GateTypes, Readers DEF PollNative, coordVars, PollUnchanged, PollType
<1>2. /\ f \in Op /\ f # 0 /\ Exists(f) /\ now \in Record /\ ~Early(f)
      /\ Outstanding(f) => Fits(now, f) /\ (Silent(now, f) => Revoked(f))
  BY <1>0, <1>1, PollFence DEF Reconciling
<1>3. h \in Op
  BY <1>0, <1>1, <1>2, OpBasic DEF Record
<1>4. \A k \in Op : PhaseCalm(k)
  BY <1>0, <1>3, ReadPhases
<1>5. \/ /\ r.native = 0 /\ RejectedRequest(h) /\ producer' = producer
         /\ Journaled(f, [now EXCEPT !.rejection = TRUE, !.stage = "operation-rejection-observed"])
         /\ poll' = [poll EXCEPT !.step = "cancelled"] \/ poll' = NoPoll
      \/ /\ producer' = producer /\ Journaled(f, [now EXCEPT !.release = TRUE])
         /\ poll' = [poll EXCEPT !.step = "preempted"] \/ poll' = NoPoll
      \/ poll' = [poll EXCEPT !.step = "sender"] /\ UNCHANGED producerVars
      \/ poll' = NoPoll /\ UNCHANGED producerVars
  BY <1>1 DEF PollNative, Write, Journaled, PollStep, PollOver
<1>6. CASE /\ r.native = 0 /\ RejectedRequest(h) /\ producer' = producer
           /\ Journaled(f, [now EXCEPT !.rejection = TRUE, !.stage = "operation-rejection-observed"])
           /\ poll' = [poll EXCEPT !.step = "cancelled"] \/ poll' = NoPoll
  <2>1. ~Outstanding(f)
    BY <1>1, <1>6 DEF RejectedRequest, Outstanding
  <2>2. PICK q : q = [now EXCEPT !.rejection = TRUE, !.stage = "operation-rejection-observed"]
    OBVIOUS
  <2>3. Furthers(f, q)
    BY <1>1, <1>2, <2>2 DEF Furthers, Record
  <2>4. PollKnows'
    <3>1. CASE poll' = NoPoll
      BY <1>0, <3>1, NoPollIdle, PollMoved
    <3>2. CASE poll' = [poll EXCEPT !.step = "cancelled"]
      <4>1. poll'.step = "cancelled" /\ poll'.fence = f
        BY <1>1, <3>2, PollTo
      <4>2. native'.phase[f] = native.phase[f]
        BY <1>0, <1>1, <1>6 DEF RejectedRequest, ResultRead
      <4>3. PICK g : g = coord.fence
        OBVIOUS
      <4>4. g # 0 => ~EarlyAt(pc'[g])
        BY <1>0, <4>3, GateTypes DEF PollKnows, Early, opVars
      <4>5. ~EarlyAt(pc'[f])
        BY <1>0, <1>2 DEF Early, opVars
      <4> QED BY <1>0, <2>1, <4>1, <4>2, <4>3, <4>4, <4>5 DEF PollKnows, Early, Outstanding
    <3> QED BY <1>6, <3>1, <3>2
  <2> QED BY <1>0, <1>2, <1>4, <1>6, <2>1, <2>2, <2>3, <2>4, AmendKnows
<1>7. CASE /\ producer' = producer /\ Journaled(f, [now EXCEPT !.release = TRUE])
           /\ poll' = [poll EXCEPT !.step = "preempted"] \/ poll' = NoPoll
  <2>1. PICK q : q = [now EXCEPT !.release = TRUE]
    OBVIOUS
  <2>2. /\ Furthers(f, q) /\ q.stage = now.stage /\ q.native = now.native /\ q.sender = now.sender
        /\ q.rejection = now.rejection /\ q.terminal = now.terminal /\ q.playing = now.playing
    BY <1>1, <1>2, <2>1 DEF Furthers, Record, Exists
  <2>3. Outstanding(f) => Fits(q, f) /\ (Silent(q, f) => Revoked(f))
    BY <1>2, <2>2 DEF Fits, Silent
  <2>4. PollKnows'
    <3>1. poll'.step \in {"preempted", "idle"} /\ poll'.fence \in {poll.fence, 0}
      BY <1>7, PollTo, NoPollIdle
    <3> QED BY <1>0, <3>1, PollMoved
  <2> QED BY <1>0, <1>2, <1>4, <1>7, <2>1, <2>2, <2>3, <2>4, AmendKnows
<1>8. CASE UNCHANGED producerVars /\ (poll' = [poll EXCEPT !.step = "sender"] \/ poll' = NoPoll)
  <2>1. PollKnows'
    <3>1. CASE poll' = NoPoll
      BY <1>0, <3>1, NoPollIdle, PollMoved
    <3>2. CASE poll' = [poll EXCEPT !.step = "sender"]
      <4>1. poll'.step = "sender" /\ poll'.fence = f /\ poll'.rec = poll.rec
        BY <1>1, <3>2, PollTo
      <4>2. poll'.rec.sender # 0 => records'[f].sender = poll'.rec.sender
        BY <1>0, <1>1, <1>8, <4>1, GateTypes DEF PollKnows, producerVars
      <4>3. PICK g : g = coord.fence
        OBVIOUS
      <4>4. g # 0 => ~EarlyAt(pc'[g])
        BY <1>0, <4>3, GateTypes DEF PollKnows, Early, opVars
      <4>5. ~EarlyAt(pc'[f])
        BY <1>0, <1>2 DEF Early, opVars
      <4> QED BY <1>0, <4>1, <4>2, <4>3, <4>4, <4>5 DEF PollKnows, Early
    <3> QED BY <1>8, <3>1, <3>2
  <2> QED BY <1>0, <1>4, <1>8, <2>1, RestKnows
<1> QED BY <1>5, <1>6, <1>7, <1>8

\* What the sender says of an operation it knows.
LEMMA SourceOfResult ==
  ASSUME GateInv, NEW o \in Op, TerminalObs(ResultOf(o))
  PROVE  \E s : /\ s.op = o /\ s.src = ResultOf(o).src /\ s.src # 0 /\ SourceKnows(s)
                /\ ResultOf(o).state # "playing" => s.phase = "drained"
<1>1. PICK s : s = FoundSource(o)
  OBVIOUS
<1>2. SourcesOf(o) # {} /\ ResultOf(o) = Decoded(s)
  BY <1>1 DEF ResultOf, ObsError, Obs, TerminalObs
<1>3. s.op = o /\ s \in {sender.cand, sender.main} \cup {sender.drains[t] : t \in Targets}
  <2>1. \A q \in SourcesOf(o) : q.op = o /\ q \in {sender.cand, sender.main} \cup {sender.drains[t] : t \in Targets}
    BY DEF SourcesOf
  <2>2. (CHOOSE q \in SourcesOf(o) : TRUE) \in SourcesOf(o)
    BY <1>2
  <2> QED BY <1>1, <2>1, <2>2 DEF FoundSource
<1>4. \/ s.phase = "playing" /\ ResultOf(o).src = s.src /\ ResultOf(o).state = "playing"
      \/ s.phase = "drained" /\ ResultOf(o).src = s.src
  BY <1>2 DEF Decoded, Obs, TerminalObs
<1>5. SourceKnows(s)
  BY <1>3, SenderKnown
<1>6. s.src # 0
  BY <1>4, <1>5 DEF SourceKnows
<1> QED BY <1>3, <1>4, <1>5, <1>6
LEMMA PollCancelledKnows ==
  ASSUME GateInv, HoldInv', PollCancelled
  PROVE  GateInv'
<1>1. PICK f : f = poll.fence
  OBVIOUS
<1>0. /\ Inv /\ poll.step = "cancelled" /\ UNCHANGED <<native, sender, opVars, coord, play>>
      /\ \A k \in Op : PhaseCalm(k)
  BY GateTypes DEF PollCancelled, coordVars, PollUnchanged, PhaseCalm
<1>2. /\ f \in Op /\ f # 0 /\ Exists(f) /\ records[f] \in Record /\ ~Early(f) /\ ~Outstanding(f)
  BY <1>0, <1>1, PollFence, GateTypes DEF Reconciling, PollKnows
<1>3. PICK stage \in {"preflight-reconciled", "rejected-reconciled"}, playing \in BOOLEAN :
        \/ UNCHANGED producerVars
        \/ /\ Journaled(f, [records[f] EXCEPT !.terminal = TRUE, !.outcome = "rejected",
                                              !.playing = playing, !.stage = stage])
           /\ UNCHANGED producer
  <2>1. Playing(Applied(Observed)) \in BOOLEAN
    BY DEF Playing
  <2> HIDE DEF Playing
  <2> QED BY <1>1, <2>1 DEF PollCancelled, Write, Journaled
<1>4. poll' = NoPoll \/ \E out, obs : poll' = [poll EXCEPT !.step = "apply", !.outcome = out, !.obs = obs]
  BY DEF PollCancelled, PollOver, Learned, Write
<1>5. PollKnows'
  <2>1. poll'.step \in {"idle", "apply"} /\ poll'.fence \in {poll.fence, 0}
    BY <1>4, NoPollIdle, GateTypes, Readers DEF PollType
  <2> QED BY <1>0, <2>1, PollMoved
<1>6. PICK q : q = [records[f] EXCEPT !.terminal = TRUE, !.outcome = "rejected", !.playing = playing, !.stage = stage]
  OBVIOUS
<1>7. Furthers(f, q)
  BY <1>2, <1>6 DEF Furthers, Record
<1>8. CASE UNCHANGED producerVars
  BY <1>0, <1>5, <1>8, RestKnows
<1>9. CASE Journaled(f, q) /\ producer' = producer
  BY <1>0, <1>2, <1>5, <1>7, <1>9, AmendKnows
<1> QED BY <1>3, <1>6, <1>8, <1>9

\* A result that settles is of a source that is bound, and so of a record that has a hold; a source
\* of the hold's own operation was drained for the play that revoked it.
LEMMA PollSenderKnows ==
  ASSUME GateInv, HoldInv', PollSender
  PROVE  GateInv'
<1>1. PICK f : f = poll.fence
  OBVIOUS
<1>0. /\ Inv /\ poll.step = "sender" /\ UNCHANGED <<native, sender, producerVars, opVars, coord, play>>
      /\ \A k \in Op : PhaseCalm(k)
  BY GateTypes DEF PollSender, coordVars, PollUnchanged, PhaseCalm
<1>2. /\ f \in Op /\ f # 0 /\ ~Early(f)
      /\ Outstanding(f) => Fits(records[f], f)
  BY <1>0, <1>1, PollFence DEF Reconciling
<1>3. \/ poll' = NoPoll
      \/ /\ ResultMatches(f, poll.rec.sender)
         /\ poll' = [poll EXCEPT !.step = "settle", !.outcome = "committed", !.obs = ResultOf(f)]
  BY <1>1 DEF PollSender, PollOver
<1>4. CASE poll' = NoPoll
  <2>1. PollKnows'
    BY <1>0, <1>4, NoPollIdle, PollMoved
  <2> QED BY <1>0, <2>1, RestKnows
<1>5. CASE /\ ResultMatches(f, poll.rec.sender)
           /\ poll' = [poll EXCEPT !.step = "settle", !.outcome = "committed", !.obs = ResultOf(f)]
  <2>1. poll'.step = "settle" /\ poll'.fence = f /\ poll'.obs = ResultOf(f)
    BY <1>1, <1>5, GateTypes, Readers DEF PollType
  <2>2. PICK s : /\ s.op = f /\ s.src = poll.rec.sender /\ s.src # 0 /\ SourceKnows(s)
                 /\ ResultOf(f).state # "playing" => s.phase = "drained"
    BY <1>2, <1>5, SourceOfResult DEF ResultMatches
  <2>3. records[f].sender = s.src
    BY <1>0, <1>1, <2>2, GateTypes DEF PollKnows
  <2>4. f \in producer.live => records[f].native # 0
    BY <2>2, <2>3, LiveTypes DEF LiveKnown
  <2>5. ResultOf(f).state # "playing" /\ Outstanding(f) => Revoked(f)
    <3>1. SUFFICES ASSUME ResultOf(f).state # "playing", Outstanding(f) PROVE Revoked(f)
      OBVIOUS
    <3>2. s.src = f /\ records[f].native \in {0, f}
      BY <1>2, <2>2, <2>3, <3>1 DEF Fits
    <3>3. f \in producer.live /\ BoundTo(f)
      BY <1>2, <2>2, <2>3, <3>2 DEF SourceKnows, BoundTo
    <3>4. Revoked(s.hold) /\ s.hold = records[f].native
      BY <2>2, <3>1, <3>2, <3>3 DEF SourceKnows
    <3> QED BY <2>4, <3>2, <3>3, <3>4
  <2>6. PollKnows'
    <3>1. /\ f \in producer'.live => records'[f].native # 0
          /\ ResultOf(f).state # "playing" /\ Outstanding(f)' => Revoked(f)'
      BY <1>0, <2>4, <2>5 DEF Outstanding, Revoked, producerVars
    <3>2. PICK g : g = coord.fence
      OBVIOUS
    <3>3. g # 0 => ~EarlyAt(pc'[g])
      BY <1>0, <3>2, GateTypes DEF PollKnows, Early, opVars
    <3>4. ~EarlyAt(pc'[f])
      BY <1>0, <1>2 DEF Early, opVars
    <3> QED BY <1>0, <2>1, <3>1, <3>2, <3>3, <3>4 DEF PollKnows, Early, Outstanding, Revoked
  <2> QED BY <1>0, <2>6, RestKnows
<1> QED BY <1>3, <1>4, <1>5

LEMMA PollSettleKnows ==
  ASSUME GateInv, HoldInv', PollSettle
  PROVE  GateInv'
<1>1. PICK f : f = poll.fence
  OBVIOUS
<1> DEFINE incumbent == IF poll.rec.prior # 0 THEN records[poll.rec.prior].sender ELSE f
           active == IF poll.obs.state = "playing" THEN f
                     ELSE IF producer.active \in {f, incumbent} THEN 0 ELSE producer.active
           m == [producer EXCEPT !.active = active]
           r == [records[f] EXCEPT !.terminal = TRUE, !.outcome = "committed",
                                   !.playing = (poll.obs.state = "playing"), !.stage = "reconciled"]
<1>0. /\ Inv /\ poll.step = "settle" /\ UNCHANGED <<native, sender, opVars, coord, play>>
      /\ \A k \in Op : PhaseCalm(k)
  BY GateTypes DEF PollSettle, peerVars, coordVars, PollUnchanged, PhaseCalm
<1>2. /\ f \in Op /\ f # 0 /\ Exists(f) /\ records[f] \in Record /\ ~Early(f)
      /\ Outstanding(f) => Fits(records[f], f)
      /\ f \in producer.live => records[f].native # 0
      /\ poll.obs.state # "playing" /\ Outstanding(f) => Revoked(f)
  BY <1>0, <1>1, PollFence, GateTypes DEF Reconciling, PollKnows
<1>3. \/ f \in producer.live /\ Journaled(f, r) /\ producer' \in {producer, m}
      \/ UNCHANGED producerVars
  BY <1>1 DEF PollSettle, Write, Journaled
<1>4. active \in {producer.active, 0, f}
  OBVIOUS
<1>5. PollKnows'
  <2>1. poll' = NoPoll \/ poll' = [poll EXCEPT !.step = "apply"]
    BY DEF PollSettle, Write, PollOver, PollStep
  <2>2. poll'.step \in {"idle", "apply"} /\ poll'.fence \in {poll.fence, 0}
    BY <2>1, NoPollIdle, PollTo
  <2> QED BY <1>0, <2>2, PollMoved
<1> HIDE DEF active
<1>6. m.live = producer.live /\ m.active = active
  BY <1>0, HoldTypes DEF ProducerType
<1> HIDE DEF m
<1>7. /\ Furthers(f, r) /\ r.stage = "reconciled" /\ r.native = records[f].native /\ r.sender = records[f].sender
      /\ r.rejection = records[f].rejection /\ (r.playing <=> poll.obs.state = "playing")
  <2>1. r.playing = (poll.obs.state = "playing")
    BY <1>2 DEF Record
  <2> HIDE DEF r
  <2>2. r.stage = "reconciled" /\ r.rejection = records[f].rejection /\ Furthers(f, r)
    BY <1>2 DEF Furthers, Record, r
  <2> QED BY <2>1, <2>2 DEF Furthers
<1> HIDE DEF r
<1>8. CASE f \in producer.live /\ Journaled(f, r) /\ producer' \in {producer, m}
  <2>1. Outstanding(f) => Fits(r, f) /\ (Silent(r, f) => Revoked(f))
    <3>1. SUFFICES ASSUME Outstanding(f) PROVE Fits(r, f) /\ (Silent(r, f) => Revoked(f))
      OBVIOUS
    <3>2. r.stage \notin Unasked /\ r.native = f
      BY <1>2, <1>7, <1>8, <3>1 DEF Unasked, PreflightStage, Fits
    <3>3. Fits(r, f)
      BY <1>2, <1>7, <3>1, <3>2 DEF Fits
    <3>4. Silent(r, f) => Revoked(f)
      BY <1>2, <1>7, <3>1, <3>2 DEF Silent
    <3> QED BY <3>3, <3>4
  <2>2. /\ producer'.live = producer.live
        /\ producer'.active \in {producer.active, 0} \/ (producer'.active = f /\ records[f].native # 0)
    BY <1>2, <1>4, <1>6, <1>8
  <2> QED BY <1>0, <1>2, <1>5, <1>7, <1>8, <2>1, <2>2, AmendKnows
<1>9. CASE UNCHANGED producerVars
  BY <1>0, <1>5, <1>9, RestKnows
<1> QED BY <1>3, <1>8, <1>9
-----------------------------------------------------------------------------
(* Commands and restarts *)

\* A source that is not there.
LEMMA EmptyKnows ==
  ASSUME NEW s, s.src = 0, s.phase = "empty"
  PROVE  SourceKnows(s) /\ SourceKnows(s)'
BY DEF SourceKnows

LEMMA ExecuteKnows ==
  ASSUME GateInv, HoldInv', Execute
  PROVE  GateInv'
<1>1. PICK kind, c, x :
        /\ kind \in Kinds /\ \E o \in Op : pc[o][1] = "idle"
        /\ cmd' = [cmd EXCEPT ![NextOp] = c] /\ c.kind = kind
        /\ pc' = [pc EXCEPT ![NextOp] = x]
        /\ x = IF kind \in {"start", "move"} THEN <<"preflight", "journal">> ELSE <<"reserve", "check">>
        /\ UNCHANGED <<native, sender, producerVars, play, poll>> /\ coord'.fence = coord.fence
  <2>1. PICK kind \in Kinds, t \in Targets :
        /\ \E o \in Op : pc[o][1] = "idle"
        /\ cmd' = [cmd EXCEPT ![NextOp] = [kind |-> kind, target |-> t, from |-> coord.shown.target,
                                           playing |-> Playing(coord.shown), old |-> coord.shown]]
        /\ pc' = [pc EXCEPT ![NextOp] = IF kind \in {"start", "move"} THEN <<"preflight", "journal">>
                                        ELSE <<"reserve", "check">>]
        /\ coord' = [coord EXCEPT !.pending = TRUE, !.shown.state = "preparing", !.last = NextOp]
        /\ UNCHANGED <<native, sender, producerVars, play, poll>>
    BY DEF Execute, peerVars
  <2>2. coord'.fence = coord.fence
    BY <2>1, GateTypes, Readers DEF CoordType
  <2> DEFINE c == [kind |-> kind, target |-> t, from |-> coord.shown.target,
                   playing |-> Playing(coord.shown), old |-> coord.shown]
             x == IF kind \in {"start", "move"} THEN <<"preflight", "journal">> ELSE <<"reserve", "check">>
  <2>3. c.kind = kind
    OBVIOUS
  <2>4. /\ cmd' = [cmd EXCEPT ![NextOp] = c] /\ pc' = [pc EXCEPT ![NextOp] = x]
        /\ x = IF kind \in {"start", "move"} THEN <<"preflight", "journal">> ELSE <<"reserve", "check">>
    BY <2>1
  <2> HIDE DEF c, x
  <2>5. /\ kind \in Kinds /\ \E o \in Op : pc[o][1] = "idle"
        /\ cmd' = [cmd EXCEPT ![NextOp] = c] /\ c.kind = kind
        /\ pc' = [pc EXCEPT ![NextOp] = x]
        /\ x = IF kind \in {"start", "move"} THEN <<"preflight", "journal">> ELSE <<"reserve", "check">>
        /\ UNCHANGED <<native, sender, producerVars, play, poll>> /\ coord'.fence = coord.fence
    BY <2>1, <2>2, <2>3, <2>4
  <2> QED BY <2>5
<1>2. PICK o \in Op : o = NextOp /\ pc[o][1] = "idle"
  BY <1>1, NextOpIdle
<1>3. /\ kind \in {"stop", "volume"} /\ x = <<"reserve", "check">>
      \/ x = <<"preflight", "journal">>
  BY <1>1, RadioAssumption
<1>4. /\ pc'[o] = x /\ cmd'[o].kind = kind
      /\ \A p \in Op \ {o} : pc'[p] = pc[p] /\ cmd'[p] = cmd[p]
  BY <1>1, <1>2, GateTypes, HoldTypes DEF PCType
<1>5. \A p \in Op \ {o} : SourceOperation(p)' = SourceOperation(p)
  BY <1>4 DEF SourceOperation
<1>6. Early(o) /\ ~Exists(o) /\ o \notin producer.live /\ ~Outstanding(o)
  <2>1. Early(o)
    BY <1>2 DEF Early, EarlyAt
  <2>2. ~Exists(o)
    BY <1>2, GateTypes DEF Inv, Placed, Unjournaled
  <2>3. native.phase[o] = "none"
    BY <2>1, GateTypes DEF HoldsAgree
  <2> QED BY <2>1, <2>2, <2>3, GateTypes, LiveExists DEF Outstanding
<1>7. PICK r : r = records[o]
  OBVIOUS
<1>8. UNCHANGED <<records, disk, producer>> /\ \A p \in Op : PhaseCalm(p)
  BY <1>1 DEF producerVars, PhaseCalm
<1>9. Tells(o, r) /\ Alike(o)
  BY <1>8, AlikeSame DEF Tells
<1>10. SealedHolds' /\ RevokedStays
  BY <1>7, <1>9, RevokedKeeps
<1>11. Fitting(o, r)
  BY <1>6, <1>7 DEF Fitting
<1>12. Accounted'
  BY <1>5, <1>6, <1>8, <1>9, <1>10, <1>11, AccountedKeeps
<1>13. ThreadsKnow'
  <2>1. ASSUME NEW p \in Op \ {o} PROVE ThreadKnows(p)'
    BY <1>4, <1>8, <1>9, <1>10, <1>11, OtherKnows
  <2>2. ThreadKnows(o)'
    <3>1. ~Recorded(o)' /\ pc'[o][1] \notin {"native", "cancel", "finish"}
      <4>1. CASE x = <<"preflight", "journal">>
        BY <1>4, <4>1 DEF Recorded, Reserved
      <4>2. CASE kind \in {"stop", "volume"} /\ x = <<"reserve", "check">>
        BY <1>4, <4>2 DEF Recorded, Reserved, SourceOperation
      <4> QED BY <1>3, <4>1, <4>2
    <3> QED BY <3>1 DEF ThreadKnows
  <2> QED BY <2>1, <2>2 DEF ThreadsKnow
<1>14. LiveKnows'
  <2>1. \A p \in producer.live : p \in Op \ {o}
    BY <1>6, LiveTypes
  <2> QED BY <1>5, <1>8, <1>9, <1>11, <2>1, LiveKeeps
<1>15. SourcesKnow'
  <2>1. SourcedCalm
    <3>1. ASSUME NEW p \in Op, Sourced(p) PROVE ThreadCalm(p)
      <4>1. p \in Op \ {o}
        BY <1>6, <3>1 DEF Sourced
      <4> QED BY <1>4, <1>5, <1>8, <4>1 DEF ThreadCalm, Unprepared, Unstarted, BoundTo
    <3> QED BY <1>8, <3>1 DEF SourcedCalm
  <2> QED BY <1>1, <1>9, <1>10, <1>11, <2>1, SourcesRest
<1>16. PollKnows'
  <2>1. \A p \in Op : ~Early(p) => p \in Op \ {o}
    BY <1>6
  <2>2. \A p \in Op : ~Early(p) => ~Early(p)'
    BY <1>4, <2>1 DEF Early
  <2> QED BY <1>1, <1>8, <1>9, <1>10, <1>11, <2>2, PollKeeps
<1>17. PlayKnows'
  BY <1>1, <1>8, <1>9, <1>10, <1>11, PlayRests DEF RevokedKept
<1> QED BY <1>10, <1>12, <1>13, <1>14, <1>15, <1>16, <1>17, Assembled

LEMMA CrashKnows ==
  ASSUME GateInv, HoldInv', Crash
  PROVE  GateInv'
<1>1. /\ producer' = [active |-> 0, retained |-> [t \in Targets |-> NotRetained], live |-> {}]
      /\ pc' = [o \in Op |-> IF pc[o][1] = "idle" /\ disk[o].stage = "none" THEN pc[o] ELSE <<"over", "none">>]
      /\ native' = NativeRestarted /\ sender' = SenderRestarted /\ cmd' = cmd /\ poll' = NoPoll
      /\ play' = [NoPlay EXCEPT !.id = play.id] /\ records' = disk /\ disk' = disk /\ coord'.fence = 0
  BY DEF Crash
<1>2. \A o \in Op : pc'[o][1] \in {"idle", "over"}
  BY <1>1
<1>3. \A h \in Op : Outstanding(h)' => Outstanding(h)
  <2>1. \A h \in Op : native'.phase[h] = IF Outstanding(h) THEN "lost" ELSE native.phase[h]
    BY <1>1, GateTypes, HoldTypes DEF NativeRestarted, NativeType
  <2> QED BY <2>1 DEF Outstanding
<1>4. \A h \in Op : Revoked(h) => Revoked(h)'
  <2>1. SUFFICES ASSUME NEW h \in Op, Revoked(h) PROVE Revoked(h)'
    OBVIOUS
  <2>2. PICK o \in Op : records[o].preempted /\ records[o].native = h /\ h # 0
    BY <2>1 DEF Revoked
  <2>3. disk[o].preempted /\ disk[o].native = h
    BY <2>2, GateTypes DEF Inv, Sealed, SealedHolds
  <2> QED BY <1>1, <2>2, <2>3 DEF Revoked
<1>5. SealedHolds'
  BY <1>1 DEF SealedHolds
<1>6. Accounted'
  <2>1. SUFFICES ASSUME NEW h \in Op, Outstanding(h)' PROVE AccountedFor(h)'
    BY DEF Accounted
  <2>2. /\ ~SourceOperation(h) /\ Fits(disk[h], h)
        /\ Silent(disk[h], h) => Revoked(h)
    BY <1>3, <2>1, GateTypes DEF Accounted, AccountedFor
  <2> QED BY <1>1, <1>4, <2>2 DEF AccountedFor, SourceOperation, Fits, Silent
<1>7. ThreadsKnow'
  BY <1>2 DEF ThreadsKnow, ThreadKnows, Recorded, Reserved
<1>8. LiveKnows'
  BY <1>1 DEF LiveKnows
<1>9. SourcesKnow'
  <2>1. PICK m, c, d : m = sender'.main /\ c = sender'.cand /\ d = sender'.drains
    OBVIOUS
  <2>2. /\ m.src = 0 /\ m.phase = "empty" /\ c.src = 0 /\ c.phase = "empty"
        /\ \A t \in Targets : d[t].src = 0 /\ d[t].phase = "empty"
    BY <1>1, <2>1 DEF SenderRestarted, NoSource
  <2>3. SourceKnows(m)' /\ SourceKnows(c)' /\ \A t \in Targets : SourceKnows(d[t])'
    BY <2>2, EmptyKnows
  <2> QED BY <2>1, <2>2, <2>3, SourcesThen DEF Apart
<1>10. PollKnows'
  BY <1>1, NoPollIdle DEF PollKnows
<1>11. PlayKnows'
  BY <1>1 DEF PlayKnows, NoPlay
<1> QED BY <1>5, <1>6, <1>7, <1>8, <1>9, <1>10, <1>11, Assembled

LEMMA NothingKnown == Init => GateInv
<1> SUFFICES ASSUME Init PROVE GateInv
  OBVIOUS
<1>1. /\ native.phase = [o \in Op |-> "none"]
      /\ sender.main = NoSource /\ sender.cand = NoSource /\ sender.drains = [t \in Targets |-> NoSource]
      /\ producer.active = 0 /\ producer.live = {} /\ pc = [o \in Op |-> <<"idle", "none">>]
      /\ coord.fence = 0 /\ play = NoPlay /\ poll = NoPoll
      /\ records = [o \in Op |-> NoRecord] /\ disk = records
  BY DEF Init, ProducerInit, PeersInit
<1>2. SealedHolds
  BY <1>1 DEF SealedHolds
<1>3. Accounted
  BY <1>1 DEF Accounted, Outstanding
<1>4. ThreadsKnow
  <2>1. \A o \in Op : pc[o][1] = "idle"
    BY <1>1
  <2> QED BY <2>1 DEF ThreadsKnow, ThreadKnows, Recorded, Reserved
<1>5. LiveKnows
  BY <1>1 DEF LiveKnows
<1>6. SourcesKnow
  <2>1. NoSource.src = 0 /\ NoSource.phase = "empty"
    BY DEF NoSource
  <2>2. SourceKnows(NoSource)
    BY <2>1, EmptyKnows
  <2> QED BY <1>1, <2>1, <2>2 DEF SourcesKnow, Apart
<1>7. PollKnows /\ PlayKnows
  BY <1>1 DEF PollKnows, PlayKnows, NoPoll, NoPlay
<1> QED BY <1>2, <1>3, <1>4, <1>5, <1>6, <1>7, NothingHolds DEF GateInv, GateKnown

LEMMA GateStep == GateInv /\ [Next]_vars => GateInv'
<1> SUFFICES ASSUME GateInv, [Next]_vars PROVE GateInv'
  OBVIOUS
<1>1. HoldInv'
  BY HoldStep, GateTypes
<1>2. CASE UNCHANGED vars
  <2>1. /\ UNCHANGED <<native, sender, producerVars, opVars, coord, poll, play>>
        /\ \A h \in Op : PhaseCalm(h)
    BY <1>2 DEF vars, opVars, producerVars, PhaseCalm
  <2> QED BY <1>1, <2>1, RestKnows
<1>3. CASE Execute
  BY <1>1, <1>3, ExecuteKnows
<1>4. CASE \E o \in Op : Operation(o)
  BY <1>1, <1>4, OperationKnows
<1>5. CASE Sounds \/ Expires
  BY <1>1, <1>5, SenderKnows
<1>6. CASE \E t \in Targets : ExplicitPlay(t)
  BY <1>1, <1>6, ExplicitPlayKnows
<1>7. CASE PreemptNext \/ NativeTimeout
  BY <1>1, <1>7, PreemptJournalKnows, PreemptRecoverKnows, PreemptDrainKnows, PreemptRecordKnows,
     PreemptEndKnows DEF PreemptNext
<1>8. CASE Poll \/ PollNext
  BY <1>1, <1>8, PollReads, PollReleaseKnows, PollShowsKnow, PollNativeKnows, PollCancelledKnows,
     PollSenderKnows, PollSettleKnows DEF PollNext
<1>9. CASE Crash
  BY <1>1, <1>9, CrashKnows
<1> QED BY <1>2, <1>3, <1>4, <1>5, <1>6, <1>7, <1>8, <1>9 DEF Next

\* GateInv is an invariant of the radio: the journals, the peers and every thread and reader agree on
\* who holds a receiver, which record answers for it and which hold an explicit play revoked
\* (radio_producer_custody.go, radio_producer_preempt.go).
THEOREM GateInvAlways == Spec => []GateInv
<1> QED BY NothingKnown, GateStep, PTL DEF Spec

\* The gate of a boot (radio_producer_bootstrap.go) reads nothing but the journal, and yet it never
\* opens over a hold that Native still keeps for somebody: each such hold is the one of a record that
\* an explicit play revoked, whatever was lost, rejected, replayed or restarted before.
THEOREM GateAccountsAlways == Spec => []GateAccounts
<1>1. GateInv => GateAccounts
  <2> SUFFICES ASSUME GateInv, Gate, NEW t \in Targets, native.hold[t] # 0
               PROVE  \E o \in Op : disk[o].preempted /\ disk[o].native = native.hold[t]
    BY DEF GateAccounts
  <2>1. PICK h : h = native.hold[t]
    OBVIOUS
  <2>2. h \in Op /\ Outstanding(h)
    <3>1. h \in OpOrNone /\ h # 0
      BY <2>1, GateTypes, HoldTypes DEF NativeType
    <3>2. native.phase[h] \in ActivePhase \cup {"lost"}
      BY <2>1, <3>1, GateTypes DEF HoldsAgree
    <3>3. Outstanding(h)
      BY <3>2 DEF ActivePhase, Outstanding
    <3> QED BY <3>1, <3>3, OpBasic DEF Op, OpOrNone
  <2>3. Fits(disk[h], h) /\ (Silent(disk[h], h) => Revoked(h))
    BY <2>2, GateTypes DEF Accounted, AccountedFor
  <2>4. disk[h].terminal /\ (disk[h].playing => Released(h))
    BY <2>2, <2>3 DEF Fits, Unasked, Gate
  <2>5. CASE Silent(disk[h], h)
    <3>1. PICK o \in Op : records[o].preempted /\ records[o].native = h /\ h # 0
      BY <2>3, <2>5 DEF Revoked
    <3>2. disk[o].preempted
      BY <3>1, GateTypes DEF Inv, Sealed
    <3>3. disk[o].native = h
      BY <3>1, GateTypes DEF SealedHolds
    <3> QED BY <2>1, <3>2, <3>3
  <2>6. CASE ~Silent(disk[h], h)
    <3>1. disk[h].playing /\ disk[h].native = h
      BY <2>4, <2>6 DEF Silent
    <3> QED BY <2>1, <2>4, <3>1 DEF Released
  <2> QED BY <2>5, <2>6
<1> QED BY <1>1, GateInvAlways, PTL

-----------------------------------------------------------------------------
(* What the refinement of RadioCustody needs to know beside GateInv *)

\* What a record stands for in RadioCustody.
Standing(r) ==
  IF r.stage = "none" THEN "idle"
  ELSE IF r.preempted THEN (IF r.terminal THEN "revoked" ELSE "revoking")
  ELSE IF r.terminal THEN "settled" ELSE "open"
IsRetired(r) == r.preempted /\ r.terminal
Returnable(h) == \E p \in Op : IsRetired(records[p]) /\ records[p].native = h

\* While the boot's gate keeps the radio off nothing of it moves.
OffIsQuiet ==
  ~coord.enabled =>
    /\ \A o \in Op : pc[o][1] \in {"idle", "over"}
    /\ play.step = "idle" /\ poll.step = "idle" /\ sender.main.phase = "empty"

\* The journal is where the memory is, or one write ahead of it; what it retired and the memory did
\* not is a hold that Native still keeps, or that was retired by another record.
DiskAhead == \A o \in Op : Standing(disk[o]) \in Custody!Found(Standing(records[o]))
RetiredHeld ==
  \A o \in Op :
    /\ IsRetired(records[o]) => records[o].native # 0
    /\ IsRetired(disk[o]) => disk[o].native # 0
    /\ IsRetired(disk[o]) /\ ~IsRetired(records[o]) =>
         Returnable(disk[o].native) \/ \E t \in Targets : native.hold[t] = disk[o].native

\* A hold that a record names is of an operation that has a record.
Named ==
  \A o \in Op :
    /\ records[o].native # 0 => Exists(records[o].native)
    /\ disk[o].native # 0 => disk[disk[o].native].stage # "none"

\* The source that a live record is bound to is of an operation that has a record.
Sourcing == \A o \in producer.live : records[o].sender # 0 => Exists(records[o].sender)

\* The intent that a revoked hold was reserved under is no longer the current one.
Stale ==
  /\ \A o \in Op : records[o].preempted /\ records[o].native # 0 => records[o].native \notin native.fresh
  /\ play.step # "idle" => play.hold \notin native.fresh

\* What was parked was asked for; a start or move that has not asked yet is not revoked.
ParkedAsked == \A h \in native.parked : native.phase[h] # "none"
EarlyKept == \A o \in Op : Recorded(o) /\ Early(o) /\ ~SourceOperation(o) => ~records[o].preempted

\* The preemption under way: its hold stays until it ends, its record is unsettled until it is
\* retired, and then the hold may be returned.
PlayRetires ==
  /\ play.step # "idle" => native.hold[play.target] = play.hold
  /\ play.step \in {"recover", "drain", "record"} => ~records[play.key].terminal
  /\ play.step \in {"observe", "commit"} => Returnable(play.hold)

\* A source that may still be started was last commanded by the operation it was prepared for; the
\* one of an operation that is settled, or about to be, may not be started.  What sounds, sounds on a
\* receiver.  A start or move runs under the hold it retained, the one of the operation before it, or its
\* own; only its own is suspended.
OwnOp ==
  /\ Startable(sender.main) => sender.main.op = sender.main.src
  /\ sender.cand.src # 0 => sender.cand.op = sender.cand.src
  /\ sender.main.phase \in {"starting", "playing"} => sender.main.tgt \in Targets
NotStartable(o) == \A s \in {sender.main, sender.cand} : s.src = o => ~Startable(s)
MayGoOn(o) == pc[o][1] \in {"native", "sender", "fence", "stop", "suspend", "start"}
OwnHold(o, r) ==
  r.native \in {0, o, r.retained} \/ (r.prior # 0 /\ r.native = records[r.prior].native)
Mutes(o) == play.step = "record" /\ (play.key = o \/ records[o].target = play.target)
SettledKnows(o) ==
  ~SourceOperation(o) =>
    /\ MayGoOn(o) \/ pc[o][1] = "reserve" => records[o].peer = o
    /\ MayGoOn(o) => OwnHold(o, records[o])
    /\ pc[o] = <<"suspend", "call">> => records[o].native = o
    /\ MayGoOn(o) => \/ NotStartable(o)
                     \/ /\ ~records[o].terminal
                        /\ ~(poll.step = "settle" /\ poll.fence = o)
                        /\ ~Mutes(o)
SettledKnow == \A o \in Op : SettledKnows(o)

RefKnown ==
  /\ OffIsQuiet /\ DiskAhead /\ RetiredHeld /\ Named /\ Sourcing /\ Stale /\ ParkedAsked /\ EarlyKept
  /\ PlayRetires /\ OwnOp /\ SettledKnow
RefInv == GateInv /\ RefKnown

\* What RadioCustody's variables stand for.
Standings == [o \in Op |-> CustodyStatus(o)]
Owners == [t \in Targets |-> CustodyOwner(t)]
Sounding == IF sender.main.phase \in {"starting", "playing"} THEN {sender.main.src} ELSE {}
Revokeds == {records[o].native : o \in {p \in Op : records[p].preempted /\ records[p].terminal}}
Promised == [Custody!Next]_(Custody!custodyVars)

LEMMA InitRefines == Init => Custody!Init
<1> SUFFICES ASSUME Init PROVE Custody!Init
  OBVIOUS
<1>1. coord.enabled = TRUE /\ records = [o \in Op |-> NoRecord] /\ native.hold = [t \in Targets |-> 0]
      /\ sender.main = NoSource
  BY DEF Init, ProducerInit, PeersInit
<1>2. \A o \in Op : CustodyStatus(o) = "idle" /\ ~records[o].preempted
  BY <1>1 DEF CustodyStatus, NoRecord
<1>3. \A t \in Targets : CustodyOwner(t) = "spotify"
  BY <1>1 DEF CustodyOwner, SoundsOn, NoSource
<1>4. Sounding = {}
  BY <1>1 DEF Sounding, NoSource
<1>5. Revokeds = {}
  BY <1>2 DEF Revokeds
<1> QED BY <1>1, <1>2, <1>3, <1>4, <1>5 DEF Custody!Init, Sounding, Revokeds

LEMMA RefTypes ==
  ASSUME RefInv
  PROVE  /\ GateInv /\ HoldInv /\ Inv /\ JournalTyped /\ native \in NativeType /\ pc \in PCType
         /\ OffIsQuiet /\ DiskAhead /\ RetiredHeld /\ Named /\ Sourcing /\ Stale /\ ParkedAsked /\ EarlyKept
         /\ PlayRetires /\ OwnOp /\ SettledKnow
<1>1. GateInv /\ HoldInv /\ Inv
  BY GateTypes DEF RefInv
<1> QED BY <1>1, HoldTypes DEF RefInv, RefKnown, Inv, Typed

-----------------------------------------------------------------------------
(* What a step does to the journals *)

\* Two records that stand for the same, under the same hold.
Twin(r, q) ==
  /\ r.stage = "none" <=> q.stage = "none"
  /\ r.terminal <=> q.terminal
  /\ r.preempted <=> q.preempted
  /\ r.native = q.native

\* Two records of an operation that goes on in the same way.
Kin(r, q) == r.target = q.target /\ r.peer = q.peer /\ r.retained = q.retained /\ r.prior = q.prior

\* The name of a hold stays.
NamesKept == \A q \in Op : Exists(q) /\ records[q].native # 0 => records'[q].native = records[q].native

\* At most the record of k is rewritten, to r; a write that fails reaches the journal at most.
Wrote(k, r) ==
  /\ \A p \in Op \ {k} :
       /\ Twin(records'[p], records[p])
       /\ Twin(disk'[p], disk[p]) \/ (Exists(p) /\ Twin(disk'[p], records[p]))
  /\ \/ Twin(records'[k], r) /\ Twin(disk'[k], r)
     \/ /\ Twin(records'[k], records[k])
        /\ Twin(disk'[k], disk[k]) \/ (Exists(k) /\ Twin(disk'[k], records[k])) \/ Twin(disk'[k], r)

\* What a record is rewritten for.
Opening(k, r) ==
  ~Exists(k) /\ NoneOpen(Op) /\ r.stage # "none" /\ ~r.terminal /\ ~r.preempted /\ r.native = 0
Settling(k, r) ==
  /\ Exists(k) /\ r.stage # "none" /\ ~records[k].preempted /\ ~r.preempted /\ r.terminal
  /\ r.native = records[k].native
Naming(k, r) ==
  /\ Exists(k) /\ r.stage # "none" /\ (r.preempted <=> records[k].preempted)
  /\ (r.terminal <=> records[k].terminal)
  /\ ~IsRetired(records[k]) /\ r.native \in Op /\ Exists(r.native) /\ records[k].native \in {0, r.native}
Revoking(k, r) ==
  /\ Exists(k) /\ r.stage # "none" /\ ~records[k].preempted /\ r.preempted /\ ~r.terminal
  /\ r.native = records[k].native
Retiring(k, r) ==
  /\ Exists(k) /\ r.stage # "none" /\ records[k].preempted /\ r.preempted /\ ~records[k].terminal /\ r.terminal
  /\ r.native = records[k].native /\ r.native # 0 /\ \E t \in Targets : native.hold[t] = r.native
Purpose(k, r) ==
  \/ (Exists(k) /\ Twin(r, records[k])) \/ Opening(k, r) \/ Settling(k, r) \/ Naming(k, r) \/ Revoking(k, r) \/ Retiring(k, r)

LEMMA TwinStands ==
  ASSUME NEW r, NEW q, Twin(r, q)
  PROVE  Standing(r) = Standing(q) /\ (IsRetired(r) <=> IsRetired(q))
BY DEF Twin, Standing, IsRetired

LEMMA FoundNext ==
  /\ \A s \in Custody!Status : s \in Custody!Found(s)
  /\ "open" \in Custody!Found("idle")
  /\ "settled" \in Custody!Found("open") /\ "revoking" \in Custody!Found("open")
  /\ "revoking" \in Custody!Found("settled") /\ "revoked" \in Custody!Found("revoking")
  /\ \A s : "revoked" \in Custody!Found(s) /\ s \in Custody!Status => s \in {"revoking", "revoked"}
  /\ \A s : "revoked" \in Custody!Found("revoked") /\ (s \in Custody!Found("revoked") => s = "revoked")
  /\ \A s : s \in Custody!Status /\ "idle" \in Custody!Found(s) => s = "idle"
BY DEF Custody!Found, Custody!Status

LEMMA Stands ==
  ASSUME NEW r
  PROVE  /\ Standing(r) \in Custody!Status
         /\ Standing(r) = "idle" <=> r.stage = "none"
         /\ r.stage # "none" => (Standing(r) = "revoked" <=> IsRetired(r))
BY DEF Standing, Custody!Status, IsRetired

\* A write moves a record at most one status further.
LEMMA PurposeNext ==
  ASSUME NEW k \in Op, NEW r, Purpose(k, r)
  PROVE  Standing(r) \in Custody!Found(Standing(records[k]))
<1>1. CASE Twin(r, records[k])
  BY <1>1, TwinStands, FoundNext, Stands
<1>2. CASE Opening(k, r)
  BY <1>2, FoundNext DEF Opening, Standing, Exists
<1>3. CASE Settling(k, r)
  BY <1>3, FoundNext DEF Settling, Standing, Exists, Custody!Status
<1>4. CASE Naming(k, r)
  <2>1. Standing(r) = Standing(records[k])
    BY <1>4 DEF Naming, Standing, Exists
  <2> QED BY <2>1, FoundNext, Stands
<1>5. CASE Revoking(k, r)
  BY <1>5, FoundNext DEF Revoking, Standing, Exists
<1>6. CASE Retiring(k, r)
  BY <1>6, FoundNext DEF Retiring, Standing, Exists
<1> QED BY <1>1, <1>2, <1>3, <1>4, <1>5, <1>6 DEF Purpose

LEMMA JournalsGo ==
  ASSUME RefInv, NEW k \in Op, NEW r, Wrote(k, r), Purpose(k, r)
  PROVE  /\ \A p \in Op : Exists(p) => Exists(p)'
         /\ \A p \in Op : disk[p].stage # "none" => disk'[p].stage # "none"
         /\ \A p \in Op : IsRetired(records[p]) => IsRetired(records'[p]) /\ records'[p].native = records[p].native
         /\ \A h : Returnable(h) => Returnable(h)'
         /\ \A p \in Op : Exists(p) => disk[p].stage # "none"
         /\ NamesKept
<1>1. r.stage # "none"
  BY DEF Purpose, Twin, Exists, Opening, Settling, Naming, Revoking, Retiring
<1>2. \A p \in Op : Exists(p) => Exists(p)'
  BY <1>1 DEF Wrote, Twin, Exists
<1>3. \A p \in Op : disk[p].stage # "none" => disk'[p].stage # "none"
  BY <1>1 DEF Wrote, Twin, Exists
<1>4. \A p \in Op : IsRetired(records[p]) => IsRetired(records'[p]) /\ records'[p].native = records[p].native
  <2>1. IsRetired(records[k]) => Twin(r, records[k])
    BY RefTypes DEF Purpose, Opening, Settling, Naming, Revoking, Retiring, IsRetired, Inv, Sealed
  <2>2. \A p \in Op : IsRetired(records[p]) => Twin(records'[p], records[p]) \/ (Twin(records'[p], r) /\ Twin(r, records[p]))
    BY <2>1 DEF Wrote
  <2> QED BY <2>2 DEF Twin, IsRetired
<1>5. \A h : Returnable(h) => Returnable(h)'
  BY <1>4 DEF Returnable
<1>6. \A p \in Op : Exists(p) => disk[p].stage # "none"
  BY RefTypes, FoundNext, Stands DEF DiskAhead, Exists
<1>7. NamesKept
  <2>1. Exists(k) /\ records[k].native # 0 => r.native = records[k].native
    BY DEF Purpose, Twin, Opening, Settling, Naming, Revoking, Retiring
  <2> QED BY <2>1 DEF NamesKept, Wrote, Twin
<1> QED BY <1>2, <1>3, <1>4, <1>5, <1>6, <1>7

LEMMA JournalAhead ==
  ASSUME RefInv, NEW k \in Op, NEW r, Wrote(k, r), Purpose(k, r), native'.hold = native.hold
  PROVE  DiskAhead' /\ RetiredHeld' /\ Named'
<1>1. DiskAhead'
  <2>1. SUFFICES ASSUME NEW p \in Op PROVE Standing(disk'[p]) \in Custody!Found(Standing(records'[p]))
    BY DEF DiskAhead
  <2>2. /\ Standing(disk[p]) \in Custody!Found(Standing(records[p]))
        /\ Standing(records[p]) \in Custody!Found(Standing(records[p]))
        /\ Standing(r) \in Custody!Found(Standing(r)) /\ Standing(r) \in Custody!Found(Standing(records[k]))
    BY RefTypes, PurposeNext, FoundNext, Stands DEF DiskAhead
  <2>3. \/ /\ Standing(records'[p]) = Standing(records[p])
           /\ \/ Standing(disk'[p]) = Standing(disk[p]) \/ Standing(disk'[p]) = Standing(records[p])
              \/ p = k /\ Standing(disk'[p]) = Standing(r)
        \/ Standing(records'[p]) = Standing(r) /\ Standing(disk'[p]) = Standing(r)
    BY TwinStands DEF Wrote
  <2> QED BY <2>2, <2>3
<1>2. RetiredHeld'
  <2>1. SUFFICES ASSUME NEW p \in Op
        PROVE /\ IsRetired(records'[p]) => records'[p].native # 0
              /\ IsRetired(disk'[p]) => disk'[p].native # 0
              /\ IsRetired(disk'[p]) /\ ~IsRetired(records'[p]) =>
                   \/ \E q \in Op : IsRetired(records'[q]) /\ records'[q].native = disk'[p].native
                   \/ \E t \in Targets : native.hold[t] = disk'[p].native
    BY DEF RetiredHeld, Returnable, IsRetired
  <2>2. /\ IsRetired(records[p]) => records[p].native # 0
        /\ IsRetired(disk[p]) => disk[p].native # 0
        /\ IsRetired(disk[p]) /\ ~IsRetired(records[p]) =>
             Returnable(disk[p].native) \/ \E t \in Targets : native.hold[t] = disk[p].native
    BY RefTypes DEF RetiredHeld
  <2>3. IsRetired(r) => \/ IsRetired(records[k]) /\ r.native = records[k].native
                        \/ r.native # 0 /\ \E t \in Targets : native.hold[t] = r.native
    BY DEF Purpose, Twin, Opening, Settling, Naming, Revoking, Retiring, IsRetired
  <2>4. \A n : Returnable(n) => \E q \in Op : IsRetired(records'[q]) /\ records'[q].native = n
    BY JournalsGo DEF Returnable, IsRetired
  <2>5. CASE Twin(records'[p], r) /\ Twin(disk'[p], r) /\ p = k
    BY <2>2, <2>3, <2>5 DEF Twin, IsRetired
  <2>6. CASE Twin(records'[p], records[p]) /\ Twin(disk'[p], disk[p])
    BY <2>2, <2>4, <2>6 DEF Twin, IsRetired
  <2>7. CASE Twin(records'[p], records[p]) /\ Twin(disk'[p], records[p])
    BY <2>2, <2>7 DEF Twin, IsRetired
  <2>8. CASE Twin(records'[p], records[p]) /\ Twin(disk'[p], r) /\ p = k
    BY <2>2, <2>3, <2>8 DEF Twin, IsRetired
  <2> QED BY <2>5, <2>6, <2>7, <2>8 DEF Wrote
<1>3. Named'
  <2>1. SUFFICES ASSUME NEW p \in Op
        PROVE /\ records'[p].native # 0 => records'[records'[p].native].stage # "none"
              /\ disk'[p].native # 0 => disk'[disk'[p].native].stage # "none"
    BY DEF Named, Exists
  <2>2. /\ records[p].native # 0 => records[p].native \in Op /\ Exists(records[p].native)
        /\ disk[p].native # 0 => disk[p].native \in Op /\ disk[disk[p].native].stage # "none"
        /\ records[k].native # 0 => records[k].native \in Op /\ Exists(records[k].native)
    BY RefTypes, OpBasic DEF Named, JournalTyped, Record
  <2>3. r.native # 0 => r.native \in Op /\ Exists(r.native)
    BY <2>2 DEF Purpose, Twin, Opening, Settling, Naming, Revoking, Retiring
  <2>4. records'[p].native \in {records[p].native} \cup (IF p = k THEN {r.native} ELSE {})
    BY DEF Wrote, Twin
  <2>5. disk'[p].native \in {records[p].native, disk[p].native} \cup (IF p = k THEN {r.native} ELSE {})
    BY DEF Wrote, Twin
  <2> QED BY <2>2, <2>3, <2>4, <2>5, JournalsGo DEF Exists
<1> QED BY <1>1, <1>2, <1>3

-----------------------------------------------------------------------------
(* What RadioCustody sees of a step *)

\* Nothing of it but the statuses and the revoked holds.
OwnersStay == native'.hold = native.hold /\ Owners' = Owners /\ Sounding' = Sounding

LEMMA Mapped ==
  /\ Custody!custodyVars = <<coord.enabled, Standings, native.hold, Owners, Sounding, Revokeds>>
  /\ \A o \in Op : Standings[o] = Standing(records[o])
  /\ \A n : n \in Revokeds <=> Returnable(n)
BY DEF Custody!custodyVars, Standings, Owners, Sounding, Revokeds, CustodyStatus, Standing, Returnable, IsRetired

LEMMA Unseen ==
  ASSUME coord'.enabled = coord.enabled, OwnersStay, Standings' = Standings, Revokeds' = Revokeds
  PROVE  Promised
BY DEF Promised, Custody!custodyVars, Standings, Owners, Sounding, Revokeds, OwnersStay

LEMMA Seen ==
  ASSUME coord.enabled, coord'.enabled = coord.enabled, Custody!Operate
  PROVE  Promised
BY DEF Promised, Custody!Next

LEMMA StandingsGo ==
  ASSUME NEW k \in Op, NEW r, Wrote(k, r)
  PROVE  \/ Standings' = Standings /\ Twin(records'[k], records[k])
         \/ Standings' = [Standings EXCEPT ![k] = Standing(r)] /\ Twin(records'[k], r)
<1>1. \A o \in Op : CustodyStatus(o) = Standing(records[o]) /\ CustodyStatus(o)' = Standing(records'[o])
  BY DEF CustodyStatus, Standing
<1>2. \A o \in Op \ {k} : Standing(records'[o]) = Standing(records[o])
  BY TwinStands DEF Wrote
<1>3. CASE Twin(records'[k], records[k])
  BY <1>1, <1>2, <1>3, TwinStands DEF Standings
<1>4. CASE Twin(records'[k], r)
  BY <1>1, <1>2, <1>4, TwinStands DEF Standings
<1> QED BY <1>3, <1>4 DEF Wrote

LEMMA RevokedsGo ==
  ASSUME RefInv, NEW k \in Op, NEW r, Wrote(k, r), Purpose(k, r)
  PROVE  Revokeds' = Revokeds \/ (Retiring(k, r) /\ Twin(records'[k], r) /\ Revokeds' = Revokeds \cup {r.native})
<1>1. \A n : n \in Revokeds <=> \E p \in Op : IsRetired(records[p]) /\ records[p].native = n
  BY DEF Revokeds, IsRetired
<1>2. \A n : n \in Revokeds' <=> \E p \in Op : IsRetired(records'[p]) /\ records'[p].native = n
  BY DEF Revokeds, IsRetired
<1>3. \A p \in Op : IsRetired(records[p]) => IsRetired(records'[p]) /\ records'[p].native = records[p].native
  BY JournalsGo
<1>4. \A p \in Op \ {k} : IsRetired(records'[p]) => IsRetired(records[p]) /\ records'[p].native = records[p].native
  BY DEF Wrote, Twin, IsRetired
<1>5. CASE IsRetired(records'[k]) => IsRetired(records[k])
  <2>1. \A p \in Op : IsRetired(records'[p]) => IsRetired(records[p]) /\ records'[p].native = records[p].native
    BY <1>3, <1>4, <1>5
  <2>2. \A n : n \in Revokeds' <=> n \in Revokeds
    BY <1>1, <1>2, <1>3, <2>1
  <2> QED BY <2>2
<1>6. CASE IsRetired(records'[k]) /\ ~IsRetired(records[k])
  <2>1. Twin(records'[k], r)
    BY <1>6 DEF Wrote, Twin, IsRetired
  <2>2. Retiring(k, r)
    BY <1>6, <2>1 DEF Purpose, Twin, Opening, Settling, Naming, Revoking, IsRetired
  <2>3. records'[k].native = r.native
    BY <2>1 DEF Twin
  <2>4. Revokeds' = Revokeds \cup {r.native}
    BY <1>1, <1>2, <1>3, <1>4, <1>6, <2>3
  <2> QED BY <2>1, <2>2, <2>4
<1> QED BY <1>5, <1>6

LEMMA JournalMaps ==
  ASSUME RefInv, NEW k \in Op, NEW r, Wrote(k, r), Purpose(k, r), OwnersStay,
         coord.enabled, coord'.enabled = coord.enabled,
         Retiring(k, r) => /\ k \notin Sounding
                           /\ \E t \in Targets : native.hold[t] = r.native /\ ~SoundsOn(t)
  PROVE  Promised
<1>0. Standings \in [Op -> Custody!Status]
  BY Stands DEF Standings, CustodyStatus, Standing
<1>1. CASE Standings' = Standings /\ Revokeds' = Revokeds
  BY <1>1, Unseen
<1>2. CASE Standings' = [Standings EXCEPT ![k] = Standing(r)] /\ Twin(records'[k], r) /\ Standings' # Standings
  <2>0. Standings[k] = Standing(records[k]) /\ Standing(r) # Standing(records[k])
    BY <1>0, <1>2, Mapped
  <2>1. CASE Opening(k, r)
    <3>1. Standing(records[k]) = "idle" /\ Standing(r) = "open" /\ Revokeds' = Revokeds
      BY <2>1, RevokedsGo DEF Opening, Retiring, Standing, Exists
    <3>2. \A p \in Op : Standings[p] \notin {"open", "revoking"}
      BY <2>1, Mapped DEF Opening, NoneOpen, Open, Exists, Standing
    <3>3. Custody!OpenOperation(k)
      BY <1>2, <2>0, <3>1, <3>2 DEF Custody!OpenOperation, Custody!Unresolved, OwnersStay, Standings, Owners, Sounding,
         Revokeds
    <3> QED BY <3>3, Seen DEF Custody!Operate
  <2>2. CASE Settling(k, r)
    <3>1. Standing(records[k]) = "open" /\ Standing(r) = "settled" /\ Revokeds' = Revokeds
      BY <2>0, <2>2, RevokedsGo DEF Settling, Retiring, Standing, Exists
    <3>2. Custody!Settle(k)
      BY <1>2, <2>0, <3>1 DEF Custody!Settle, OwnersStay, Standings, Owners, Sounding, Revokeds
    <3> QED BY <3>2, Seen DEF Custody!Operate
  <2>3. CASE Revoking(k, r)
    <3>1. Standing(records[k]) \in {"open", "settled"} /\ Standing(r) = "revoking" /\ Revokeds' = Revokeds
      BY <2>3, RevokedsGo DEF Revoking, Retiring, Standing, Exists
    <3>2. Custody!Revoke(k)
      BY <1>2, <2>0, <3>1 DEF Custody!Revoke, OwnersStay, Standings, Owners, Sounding, Revokeds
    <3> QED BY <3>2, Seen DEF Custody!Operate
  <2>4. CASE Retiring(k, r)
    <3>1. Standing(records[k]) = "revoking" /\ Standing(r) = "revoked"
      BY <2>4 DEF Retiring, Standing, Exists
    <3>2. r.native \in Revokeds' /\ IsRetired(records'[k])
      BY <1>2, <2>4 DEF Retiring, Twin, IsRetired, Revokeds
    <3>3. Revokeds' = Revokeds \cup {r.native}
      BY <3>2, RevokedsGo
    <3>4. PICK t \in Targets : native.hold[t] = r.native /\ ~SoundsOn(t)
      BY <2>4
    <3>5. Owners[t] # "radio" /\ native.hold[t] # 0
      BY <2>4, <3>4 DEF Owners, CustodyOwner, Retiring
    <3>6. Custody!Retire(k, t)
      BY <1>2, <2>0, <2>4, <3>1, <3>3, <3>4, <3>5
         DEF Custody!Retire, OwnersStay, Standings, Owners, Sounding, Revokeds
    <3> QED BY <3>6, Seen DEF Custody!Operate
  <2>5. CASE Naming(k, r)
    BY <2>0, <2>5 DEF Naming, Standing, Exists
  <2>6. CASE Twin(r, records[k])
    BY <2>0, <2>6, TwinStands
  <2> QED BY <2>1, <2>2, <2>3, <2>4, <2>5, <2>6 DEF Purpose
<1>3. CASE Standings' = Standings /\ Revokeds' # Revokeds
  <2>1. Retiring(k, r) /\ Twin(records'[k], r)
    BY <1>3, RevokedsGo
  <2>2. Standing(records'[k]) = "revoked" /\ Standing(records[k]) = "revoking"
    BY <2>1 DEF Retiring, Standing, Exists, Twin
  <2>3. Standings'[k] = Standing(records'[k]) /\ Standings[k] = Standing(records[k])
    BY DEF Standings, CustodyStatus, Standing
  <2> QED BY <1>3, <2>2, <2>3
<1> QED BY <1>1, <1>2, <1>3, StandingsGo, RevokedsGo

-----------------------------------------------------------------------------
(* What stays known *)

LEMMA RefTogether ==
  ASSUME GateInv', OffIsQuiet', DiskAhead', RetiredHeld', Named', Sourcing', Stale', ParkedAsked', EarlyKept',
         PlayRetires', OwnOp', SettledKnow'
  PROVE  RefInv'
BY DEF RefInv, RefKnown

LEMMA JournalRests ==
  ASSUME RefInv, UNCHANGED <<records, disk, producer>>,
         \A t \in Targets : native.hold[t] # 0 =>
           native'.hold[t] = native.hold[t] \/ Returnable(native.hold[t])
  PROVE  /\ DiskAhead' /\ RetiredHeld' /\ Named' /\ Sourcing'
         /\ Standings' = Standings /\ Revokeds' = Revokeds /\ \A h : Returnable(h)' <=> Returnable(h)
<1>1. \A h : Returnable(h)' <=> Returnable(h)
  BY DEF Returnable
<1>2. DiskAhead' /\ Named' /\ Sourcing'
  BY RefTypes DEF DiskAhead, Named, Sourcing, Exists
<1>3. RetiredHeld'
  <2>1. SUFFICES ASSUME NEW o \in Op
        PROVE /\ IsRetired(records[o]) => records[o].native # 0
              /\ IsRetired(disk[o]) => disk[o].native # 0
              /\ IsRetired(disk[o]) /\ ~IsRetired(records[o]) =>
                   Returnable(disk[o].native) \/ \E t \in Targets : native'.hold[t] = disk[o].native
    BY DEF RetiredHeld, Returnable
  <2> QED BY RefTypes DEF RetiredHeld
<1>4. Standings' = Standings /\ Revokeds' = Revokeds
  BY DEF Standings, CustodyStatus, Revokeds
<1> QED BY <1>1, <1>2, <1>3, <1>4

LEMMA StaleStays ==
  ASSUME RefInv, native'.fresh \subseteq native.fresh,
         \A p \in Op : records'[p].preempted /\ records'[p].native # 0 =>
           (records[p].preempted /\ records'[p].native = records[p].native) \/ records'[p].native \notin native.fresh,
         play'.step # "idle" =>
           (play.step # "idle" /\ play'.hold = play.hold) \/ play'.hold \notin native'.fresh
  PROVE  Stale'
BY RefTypes DEF Stale

LEMMA ParkedStays ==
  ASSUME RefInv, \A h \in Op : native.phase[h] # "none" => native'.phase[h] # "none",
         \A h \in native'.parked : h \in native.parked \/ native'.phase[h] # "none"
  PROVE  ParkedAsked'
<1>1. \A h \in native.parked : h \in Op /\ native.phase[h] # "none"
  BY RefTypes DEF ParkedAsked, NativeType
<1> QED BY <1>1 DEF ParkedAsked

LEMMA OwnHoldStays ==
  ASSUME RefInv, NEW p \in Op, MayGoOn(p), OwnHold(p, records[p]), NamesKept, Kin(records'[p], records[p]),
         records'[p].native \in {records[p].native, p}
  PROVE  OwnHold(p, records[p])' /\ (records[p].native = p => records'[p].native = p)
<1>0. Inv /\ RecordsAgree /\ ThreadsAgree /\ pc[p][1] \in Reserved
  BY RefTypes, GateTypes DEF MayGoOn, Reserved
<1>1. p \in producer.live /\ Exists(p)
  BY <1>0, LiveExists DEF ThreadsAgree, ThreadAgrees, Recorded
<1>2. records[p].prior # 0 => records[p].prior \in Op /\ Exists(records[p].prior)
  BY <1>0, <1>1, LiveExists DEF RecordsAgree, RecordAgrees
<1>3. records[p].native # 0 => records'[p].native = records[p].native
  BY <1>1 DEF NamesKept
<1>4. CASE records'[p].native \in {0, p}
  BY <1>4, <1>3, OpBasic DEF OwnHold
<1>5. CASE records'[p].native = records[p].native /\ records[p].native \notin {0, p}
  BY <1>2, <1>5 DEF OwnHold, Kin, NamesKept
<1> QED BY <1>4, <1>5

LEMMA SettledStays ==
  ASSUME RefInv, NEW p \in Op, SourceOperation(p)' = SourceOperation(p),
         MayGoOn(p)' => MayGoOn(p), pc'[p][1] = "reserve" => MayGoOn(p) \/ pc[p][1] = "reserve",
         pc'[p] = <<"suspend", "call">> => pc[p] = <<"suspend", "call">> \/ records'[p].native = p,
         NamesKept, Kin(records'[p], records[p]),
         records'[p].native \in {records[p].native, p} \/ OwnHold(p, records[p])',
         NotStartable(p) => NotStartable(p)',
         MayGoOn(p)' /\ records'[p].terminal => records[p].terminal \/ NotStartable(p)',
         poll'.step = "settle" /\ poll'.fence = p =>
           (poll.step = "settle" /\ poll.fence = p) \/ ~MayGoOn(p) \/ SourceOperation(p) \/ NotStartable(p)',
         Mutes(p)' =>
           Mutes(p) \/ ~MayGoOn(p) \/ SourceOperation(p) \/ NotStartable(p)'
  PROVE  SettledKnows(p)'
<1>0. SettledKnows(p)
  BY RefTypes DEF SettledKnow
<1>1. SettledKnows(p)' <=> (~SourceOperation(p)' =>
         /\ MayGoOn(p)' \/ pc'[p][1] = "reserve" => records'[p].peer = p
         /\ MayGoOn(p)' => OwnHold(p, records[p])'
         /\ pc'[p] = <<"suspend", "call">> => records'[p].native = p
         /\ MayGoOn(p)' => \/ NotStartable(p)'
                           \/ /\ ~records'[p].terminal
                              /\ ~(poll'.step = "settle" /\ poll'.fence = p)
                              /\ ~Mutes(p)')
  BY DEF SettledKnows
<1>2. ~SourceOperation(p) /\ MayGoOn(p)' => OwnHold(p, records[p])'
  BY <1>0, OwnHoldStays DEF SettledKnows
<1>3. pc[p] = <<"suspend", "call">> => MayGoOn(p)
  BY DEF MayGoOn
<1>4. ~SourceOperation(p) /\ pc'[p] = <<"suspend", "call">> => records'[p].native = p
  <2>1. pc[p] = <<"suspend", "call">> => p \in producer.live /\ Exists(p) /\ p # 0
    BY RefTypes, GateTypes, LiveExists, HoldTypes DEF ThreadsAgree, ThreadAgrees, Recorded, Reserved
  <2> QED BY <1>0, <2>1 DEF SettledKnows, NamesKept
<1>5. MayGoOn(p)' \/ pc'[p][1] = "reserve" => MayGoOn(p) \/ pc[p][1] = "reserve"
  OBVIOUS
<1> QED BY <1>0, <1>1, <1>2, <1>4, <1>5 DEF SettledKnows, Kin

LEMMA PlayRetiresStays ==
  ASSUME RefInv, play' = play, \A h : Returnable(h) => Returnable(h)',
         \A t \in Targets : native.hold[t] # 0 => native'.hold[t] = native.hold[t],
         \A p \in Op : records[p].preempted /\ ~records[p].terminal => ~records'[p].terminal
  PROVE  PlayRetires'
<1>1. play.step # "idle" => play.hold # 0 /\ play.target \in Targets /\ native.hold[play.target] = play.hold
  BY RefTypes, GateTypes, HoldTypes DEF Inv, PlayPlaced, PlayAgrees, PlayRetires
<1>2. play.step \in {"recover", "drain", "record"} =>
        play.key \in Op /\ records[play.key].preempted /\ ~records[play.key].terminal
  BY RefTypes, GateTypes DEF PlayKnows, Inv, PlayPlaced, PlayRetires
<1>3. play.step \in {"observe", "commit"} => Returnable(play.hold)
  BY RefTypes DEF PlayRetires
<1>4. PICK h : h = play.hold
  OBVIOUS
<1>5. play'.step \in {"observe", "commit"} => Returnable(play.hold)'
  BY <1>3, <1>4 DEF Returnable
<1> QED BY <1>1, <1>2, <1>5 DEF PlayRetires

LEMMA SenderRests ==
  ASSUME RefInv, sender' = sender
  PROVE  /\ OwnOp' /\ \A o : NotStartable(o)' <=> NotStartable(o)
         /\ native'.hold = native.hold /\ native'.parked = native.parked => OwnersStay
<1>1. OwnOp'
  BY RefTypes DEF OwnOp, Startable
<1>2. \A o : NotStartable(o)' <=> NotStartable(o)
  BY DEF NotStartable, Startable
<1>3. native'.hold = native.hold /\ native'.parked = native.parked => OwnersStay
  BY DEF OwnersStay, Owners, CustodyOwner, SoundsOn, Sounding
<1> QED BY <1>1, <1>2, <1>3

-----------------------------------------------------------------------------
(* The steps of a thread *)

\* What is left to show of a step of o's thread.
LEMMA ThreadAfter ==
  ASSUME RefInv, GateInv', coord.enabled, coord'.enabled = coord.enabled, NEW o \in Op,
         \A p \in Op \ {o} : pc'[p] = pc[p] /\ Kin(records'[p], records[p]) /\ Twin(records'[p], records[p]),
         NamesKept,
         UNCHANGED <<cmd, play, poll>>,
         records[o].preempted => Twin(records'[o], records[o]),
         DiskAhead', RetiredHeld', Named', Sourcing', Stale', ParkedAsked', OwnOp',
         \A h : Returnable(h) => Returnable(h)',
         \A t \in Targets : native.hold[t] # 0 => native'.hold[t] = native.hold[t],
         \A p \in Op \ {o} : NotStartable(p) => NotStartable(p)',
         Recorded(o)' /\ Early(o)' /\ ~SourceOperation(o) => ~records'[o].preempted,
         SettledKnows(o)'
  PROVE  RefInv'
<1>0. \A p \in Op : SourceOperation(p)' = SourceOperation(p)
  BY DEF SourceOperation
<1>1. OffIsQuiet'
  BY DEF OffIsQuiet
<1>2. EarlyKept'
  <2>1. ASSUME NEW p \in Op, p # o
        PROVE  Recorded(p)' /\ Early(p)' /\ ~SourceOperation(p)' => ~records'[p].preempted
    <3>1. (Recorded(p)' <=> Recorded(p)) /\ (Early(p)' <=> Early(p))
      BY <1>0, <2>1 DEF Recorded, Early
    <3> QED BY <1>0, <2>1, <3>1, RefTypes DEF EarlyKept, Twin
  <2> QED BY <1>0, <2>1 DEF EarlyKept
<1>3. PlayRetires'
  <2>1. \A p \in Op : records[p].preempted /\ ~records[p].terminal => ~records'[p].terminal
    BY DEF Twin
  <2> QED BY <2>1, PlayRetiresStays
<1>4. SettledKnow'
  <2>1. ASSUME NEW p \in Op, p # o PROVE SettledKnows(p)'
    <3>1. SettledKnows(p)
      BY RefTypes DEF SettledKnow
    <3>2. (MayGoOn(p)' <=> MayGoOn(p)) /\ pc'[p][1] = pc[p][1]
      BY <2>1 DEF MayGoOn
    <3>3. Kin(records'[p], records[p]) /\ (records'[p].terminal <=> records[p].terminal) /\ records'[p].native = records[p].native
      BY <2>1 DEF Twin
    <3>4. pc'[p] = pc[p] /\ (NotStartable(p) => NotStartable(p)') /\ (Mutes(p)' => Mutes(p))
      BY <2>1, <3>3 DEF Mutes, Kin
    <3> QED BY <1>0, <2>1, <3>1, <3>2, <3>3, <3>4, SettledStays
  <2> QED BY <2>1 DEF SettledKnow
<1> QED BY <1>1, <1>2, <1>3, <1>4, RefTogether

\* What is left to show of a step of o's thread that leaves the journal alone.
LEMMA CallAfter ==
  ASSUME RefInv, GateInv', coord.enabled, coord'.enabled = coord.enabled, NEW o \in Op, NEW x, Goes(o, x),
         UNCHANGED <<records, disk, producer, cmd, play, poll>>,
         native'.fresh = native.fresh, ParkedAsked', OwnOp',
         \A t \in Targets : native.hold[t] # 0 => native'.hold[t] = native.hold[t],
         \A p \in Op \ {o} : NotStartable(p) => NotStartable(p)',
         x[1] \notin {"preflight", "done"} => (NotStartable(o) => NotStartable(o)'),
         EarlyAt(x) => Early(o) /\ (Recorded(o)' => Recorded(o)),
         x[1] \in {"native", "sender", "fence", "stop", "suspend", "start"} => MayGoOn(o) \/ SourceOperation(o),
         x[1] = "reserve" => pc[o][1] = "reserve",
         x = <<"suspend", "call">> => records[o].native = o
  PROVE  /\ RefInv'
         /\ Standings' = Standings /\ Revokeds' = Revokeds /\ \A h : Returnable(h)' <=> Returnable(h)
<1>0. pc'[o] = x /\ \A p \in Op \ {o} : pc'[p] = pc[p]
  BY RefTypes DEF Goes, PCType
<1>1. /\ DiskAhead' /\ RetiredHeld' /\ Named' /\ Sourcing'
      /\ Standings' = Standings /\ Revokeds' = Revokeds /\ \A h : Returnable(h)' <=> Returnable(h)
  BY JournalRests
<1>2. Stale'
  BY StaleStays
<1>3. SourceOperation(o)' = SourceOperation(o)
  BY DEF SourceOperation
<1>4. Recorded(o)' /\ Early(o)' /\ ~SourceOperation(o) => ~records'[o].preempted
  <2>1. Early(o)' => EarlyAt(x)
    BY <1>0 DEF Early
  <2> QED BY <2>1, RefTypes DEF EarlyKept
<1>5. SettledKnows(o)'
  <2>1. SettledKnows(o)
    BY RefTypes DEF SettledKnow
  <2>2. MayGoOn(o)' => MayGoOn(o) \/ SourceOperation(o)
    BY <1>0 DEF MayGoOn
  <2>3. CASE SourceOperation(o)
    BY <1>3, <2>3 DEF SettledKnows
  <2>4. CASE x[1] \in {"preflight", "done"}
    BY <1>0, <2>4 DEF SettledKnows, MayGoOn
  <2>5. CASE ~SourceOperation(o) /\ x[1] \notin {"preflight", "done"}
    <3>1. Mutes(o)' => Mutes(o)
      BY DEF Mutes
    <3> QED BY <1>0, <1>3, <2>1, <2>2, <2>5, <3>1, SettledStays DEF NamesKept, Kin
  <2> QED BY <2>3, <2>4, <2>5
<1>6. \A p \in Op : Twin(records'[p], records[p]) /\ Kin(records'[p], records[p])
  BY DEF Twin, Kin
<1>7. RefInv'
  BY <1>0, <1>1, <1>2, <1>4, <1>5, <1>6, ThreadAfter DEF NamesKept
<1> QED BY <1>1, <1>7

\* What is left to show of a write by o's thread.
LEMMA WriteAfter ==
  ASSUME RefInv, GateInv', coord.enabled, NEW o \in Op, NEW x, Goes(o, x), NEW r, Wrote(o, r), Purpose(o, r),
         r.preempted <=> records[o].preempted, records[o].preempted => Twin(r, records[o]),
         \A p \in Op \ {o} : Kin(records'[p], records[p]),
         UNCHANGED <<sender, cmd, coord, play, poll>>,
         native' = native \/ (native' = IntentCaptured(o) /\ ~Exists(o) /\ Early(o)),
         EarlyAt(x) => ~records[o].preempted,
         Sourcing', SettledKnows(o)'
  PROVE  RefInv' /\ Promised
<1>0. pc'[o] = x /\ \A p \in Op \ {o} : pc'[p] = pc[p]
  BY RefTypes DEF Goes, PCType
<1>1. /\ native'.hold = native.hold /\ native'.phase = native.phase /\ native'.parked = native.parked
      /\ native'.fresh \subseteq native.fresh \cup {o}
      /\ native'.fresh = native.fresh \/ (~Exists(o) /\ native.phase[o] = "none")
  BY RefTypes, GateTypes DEF IntentCaptured, NativeType, HoldsAgree
<1>2. DiskAhead' /\ RetiredHeld' /\ Named'
  BY <1>1, JournalAhead
<1>3. OwnOp' /\ (\A p : NotStartable(p)' <=> NotStartable(p)) /\ OwnersStay
  BY <1>1, SenderRests
<1>4. \A p \in Op \ {o} : Twin(records'[p], records[p])
  BY DEF Wrote
<1>5. /\ records'[o].preempted <=> records[o].preempted
      /\ records[o].preempted => Twin(records'[o], records[o])
  BY DEF Wrote, Twin
<1>6. \A p \in Op : records'[p].preempted => records[p].preempted /\ records'[p].native = records[p].native
  BY <1>4, <1>5 DEF Twin
<1>7. Stale'
  <2>1. \A p \in Op : records'[p].preempted /\ records'[p].native # 0 => records'[p].native \notin native'.fresh
    <3>1. SUFFICES ASSUME NEW p \in Op, records'[p].preempted, records'[p].native # 0, records'[p].native \in native'.fresh
          PROVE  FALSE
      OBVIOUS
    <3>2. records[p].preempted /\ records[p].native # 0 /\ records[p].native = records'[p].native
      BY <1>6, <3>1
    <3>3. records[p].native \notin native.fresh /\ Exists(records[p].native)
      BY <3>2, RefTypes DEF Stale, Named
    <3> QED BY <1>1, <3>1, <3>2, <3>3
  <2>2. play.step # "idle" => play.hold \notin native'.fresh
    BY <1>1, RefTypes, GateTypes DEF Stale, PlayKnows
  <2> QED BY <2>1, <2>2 DEF Stale
<1>8. ParkedAsked'
  BY <1>1, RefTypes DEF ParkedAsked
<1>9. Recorded(o)' /\ Early(o)' /\ ~SourceOperation(o) => ~records'[o].preempted
  BY <1>0, <1>5 DEF Early
<1>10. (\A h : Returnable(h) => Returnable(h)') /\ NamesKept
  BY JournalsGo
<1>11. RefInv'
  BY <1>0, <1>1, <1>2, <1>3, <1>4, <1>5, <1>7, <1>8, <1>9, <1>10, ThreadAfter
<1>12. ~Retiring(o, r)
  BY DEF Retiring, Twin
<1>13. Promised
  BY <1>3, <1>12, JournalMaps
<1> QED BY <1>11, <1>13

LEMMA JournaledWrote ==
  ASSUME RefInv, NEW o \in Op, NEW r, Journaled(o, r)
  PROVE  /\ Wrote(o, r)
         /\ \A p \in Op \ {o} : records'[p] = records[p]
         /\ records'[o] = records[o] \/ records'[o] = r
<1>1. \/ records' = [records EXCEPT ![o] = r] /\ disk' = [disk EXCEPT ![o] = r]
      \/ records' = records /\ disk' \in {disk, [disk EXCEPT ![o] = r]}
  BY DEF Journaled, Stored, StoreFailed
<1>2. /\ \A p \in Op \ {o} : records'[p] = records[p] /\ disk'[p] = disk[p]
      /\ \/ records'[o] = r /\ disk'[o] = r
         \/ records'[o] = records[o] /\ (disk'[o] = disk[o] \/ disk'[o] = r)
  BY <1>1, RefTypes DEF JournalTyped
<1> QED BY <1>2 DEF Wrote, Twin

\* A step of o's thread that changes nothing but the thread.
LEMMA MoveAfter ==
  ASSUME RefInv, GateInv', coord.enabled, coord'.enabled = coord.enabled, NEW o \in Op, NEW x, Goes(o, x),
         UNCHANGED <<native, sender, records, disk, producer, cmd, play, poll>>,
         EarlyAt(x) => Early(o) /\ (Recorded(o)' => Recorded(o)),
         x[1] \in {"native", "sender", "fence", "stop", "suspend", "start"} => MayGoOn(o) \/ SourceOperation(o),
         x[1] = "reserve" => pc[o][1] = "reserve",
         x = <<"suspend", "call">> => records[o].native = o
  PROVE  RefInv' /\ Promised
<1>1. ParkedAsked'
  BY RefTypes DEF ParkedAsked
<1>2. OwnOp' /\ (\A p : NotStartable(p)' <=> NotStartable(p)) /\ OwnersStay
  BY SenderRests
<1>3. RefInv' /\ Standings' = Standings /\ Revokeds' = Revokeds
  BY <1>1, <1>2, CallAfter
<1> QED BY <1>2, <1>3, Unseen

\* What is left to show of a write by o's thread once it was reserved, or of its refusal.
LEMMA AmendAfter ==
  ASSUME RefInv, GateInv', coord.enabled, NEW o \in Op, NEW x, Goes(o, x), NEW r,
         UNCHANGED <<native, sender, cmd, coord, play, poll>>,
         \/ UNCHANGED producerVars
         \/ /\ Journaled(o, r) /\ Purpose(o, r) /\ (r.preempted <=> records[o].preempted)
            /\ records[o].preempted => Twin(r, records[o])
            /\ Kin(r, records[o]) /\ (SourceOperation(o) \/ (OwnHold(o, records[o]) => OwnHold(o, r))) /\ r.sender = records[o].sender /\ producer'.live = producer.live
            /\ r.terminal => records[o].terminal \/ x[1] = "done",
         ~EarlyAt(x), x # <<"suspend", "call">>,
         x[1] \in {"native", "sender", "fence", "stop", "suspend", "start"} => MayGoOn(o) \/ SourceOperation(o)
  PROVE  RefInv' /\ Promised
<1>0. x[1] # "reserve" /\ pc'[o] = x
  BY RefTypes DEF EarlyAt, Goes, PCType
<1>1. CASE UNCHANGED producerVars
  BY <1>0, <1>1, MoveAfter DEF producerVars
<1>2. CASE /\ Journaled(o, r) /\ Purpose(o, r) /\ (r.preempted <=> records[o].preempted)
           /\ records[o].preempted => Twin(r, records[o])
           /\ Kin(r, records[o]) /\ (SourceOperation(o) \/ (OwnHold(o, records[o]) => OwnHold(o, r))) /\ r.sender = records[o].sender /\ producer'.live = producer.live
           /\ r.terminal => records[o].terminal \/ x[1] = "done"
  <2>1. /\ Wrote(o, r) /\ \A p \in Op \ {o} : records'[p] = records[p]
        /\ records'[o] = records[o] \/ records'[o] = r
    BY <1>2, JournaledWrote
  <2>2. SourceOperation(o)' = SourceOperation(o) /\ SettledKnows(o)
    BY RefTypes DEF SourceOperation, SettledKnow
  <2>3. MayGoOn(o)' => x[1] \in {"native", "sender", "fence", "stop", "suspend", "start"} /\ x[1] # "done"
    BY <1>0 DEF MayGoOn
  <2>4. \A p : NotStartable(p)' <=> NotStartable(p)
    BY SenderRests
  <2>5. Kin(records'[o], records[o]) /\ (records'[o].terminal => records[o].terminal \/ x[1] = "done")
    BY <1>2, <2>1 DEF Kin
  <2>9. NamesKept /\ (~SourceOperation(o) /\ MayGoOn(o) => records'[o].native = records[o].native \/ OwnHold(o, records[o])')
    <3>1. NamesKept
      BY <1>2, <2>1, JournalsGo
    <3>2. ASSUME ~SourceOperation(o), MayGoOn(o), records'[o] = r, r.native # records[o].native
          PROVE  OwnHold(o, records[o])'
      <4>1. /\ o \in producer.live /\ OwnHold(o, r)
            /\ r.prior # 0 => r.prior \in Op /\ Exists(r.prior)
        BY <1>2, <2>2, <3>2, RefTypes, GateTypes, LiveExists
           DEF ThreadsAgree, ThreadAgrees, Recorded, Reserved, MayGoOn, SettledKnows, RecordsAgree, RecordAgrees, Kin
      <4> QED BY <3>1, <3>2, <4>1 DEF OwnHold, NamesKept
    <3> QED BY <2>1, <3>1, <3>2
  <2>6. SettledKnows(o)'
    <3>1. CASE SourceOperation(o)
      BY <2>2, <3>1 DEF SettledKnows
    <3>2. CASE ~SourceOperation(o)
      <4>1. CASE MayGoOn(o)
        <5>1. Mutes(o)' => Mutes(o)
          BY <2>5 DEF Mutes, Kin
        <5> QED BY <1>0, <2>2, <2>3, <2>4, <2>5, <2>9, <3>2, <4>1, <5>1, SettledStays
      <4>2. CASE ~MayGoOn(o)
        BY <1>0, <2>2, <2>3, <2>5, <3>2, <4>2 DEF SettledKnows, MayGoOn
      <4> QED BY <4>1, <4>2
    <3> QED BY <3>1, <3>2
  <2>7. Sourcing'
    <3>1. \A p \in Op : Exists(p) => Exists(p)'
      BY <1>2, <2>1, JournalsGo
    <3>2. \A p \in Op : records'[p].sender = records[p].sender /\ records[p].sender \in OpOrNone
      BY <1>2, <2>1, RefTypes DEF JournalTyped, Record
    <3>3. \A p \in producer.live : p \in Op
      BY RefTypes, HoldTypes DEF ProducerType
    <3> QED BY <1>2, <3>1, <3>2, <3>3, RefTypes, OpBasic DEF Sourcing, Exists
  <2>8. \A p \in Op \ {o} : Kin(records'[p], records[p])
    BY <2>1 DEF Kin
  <2> QED BY <1>2, <2>1, <2>6, <2>7, <2>8, WriteAfter
<1> QED BY <1>1, <1>2

LEMMA KinHolds ==
  ASSUME NEW o, NEW r, NEW q, Kin(r, q), r.native = q.native
  PROVE  OwnHold(o, q) => OwnHold(o, r)
BY DEF Kin, OwnHold

LEMMA CancelWritesMap ==
  ASSUME RefInv, GateInv', coord.enabled, NEW o \in Op, CancelJournal(o) \/ CancelRecord(o), UNCHANGED <<coord, play, poll>>
  PROVE  RefInv' /\ Promised
<1>0. records[o] \in Record /\ Inv
  BY RefTypes, HoldTypes
<1>1. Exists(o) /\ pc[o][1] = "cancel" /\ UNCHANGED <<native, sender, cmd>>
  BY <1>0, ReservedExists DEF CancelJournal, CancelRecord, At, Reserved, peerVars
<1>2. PICK x \in {<<"cancel", "call">>, <<"done", "clean">>, <<"done", "unknown">>} : Goes(o, x)
  BY DEF CancelJournal, CancelRecord, Write, Goes, Goto, Clean, Unknown
<1>3. ~EarlyAt(x) /\ x[1] \notin {"native", "sender", "fence", "stop", "suspend", "start"}
  BY <1>2 DEF EarlyAt
<1>4. CASE CancelJournal(o)
  <2> DEFINE r == [records[o] EXCEPT !.rejection = TRUE, !.stage = "candidate-cancel-attempted"]
  <2>1. UNCHANGED producerVars \/ (Journaled(o, r) /\ producer' = producer)
    BY <1>4 DEF CancelJournal, Write, Journaled
  <2>2. /\ Twin(r, records[o]) /\ Kin(r, records[o]) /\ r.native = records[o].native /\ r.sender = records[o].sender
        /\ r.preempted <=> records[o].preempted
        /\ r.terminal => records[o].terminal
    BY <1>0, <1>1 DEF Record, Twin, Kin, Exists
  <2> HIDE DEF r
  <2> QED BY <1>1, <1>2, <1>3, <2>1, <2>2, KinHolds, AmendAfter DEF Purpose
<1>5. CASE CancelRecord(o)
  <2> DEFINE r == [records[o] EXCEPT !.terminal = TRUE, !.outcome = "rejected", !.stage = "no-effects-rejected"]
  <2>1. UNCHANGED producerVars \/ (Journaled(o, r) /\ producer'.live = producer.live /\ ~records[o].preempted /\ x[1] = "done")
    BY <1>2, <1>5, RefTypes DEF CancelRecord, Write, Journaled, StillAt, Fenced, Clean, Unknown, Goto, Goes, PCType
  <2>2. /\ r.stage # "none" /\ r.terminal /\ r.native = records[o].native /\ Kin(r, records[o]) /\ r.sender = records[o].sender
        /\ r.preempted <=> records[o].preempted
    BY <1>0, <1>1 DEF Record, Kin
  <2> HIDE DEF r
  <2>3. ~records[o].preempted => Settling(o, r)
    BY <1>1, <2>2 DEF Settling
  <2> QED BY <1>1, <1>2, <1>3, <2>1, <2>2, <2>3, KinHolds, AmendAfter DEF Purpose
<1> QED BY <1>4, <1>5


LEMMA EffectWritesMap ==
  ASSUME RefInv, GateInv', coord.enabled, NEW o \in Op, Admit(o) \/ Advance(o) \/ FinishRecord(o),
         UNCHANGED <<coord, play, poll>>
  PROVE  RefInv' /\ Promised
<1>0. records[o] \in Record /\ Inv
  BY RefTypes, HoldTypes
<1>1. CASE Admit(o)
  <2>1. PICK effect \in Effect :
          /\ At(o, effect, "admit") /\ UNCHANGED <<peerVars, cmd>>
          /\ \/ /\ Write(o, [records[o] EXCEPT !.stage = Attempt[effect]], producer,
                          Goto(o, effect, IF effect \in ReadsFirst THEN "read" ELSE "call"), Unknown(o))
             \/ Unknown(o) /\ UNCHANGED <<producerVars, faults>>
    BY <1>1 DEF Admit
  <2> DEFINE r == [records[o] EXCEPT !.stage = Attempt[effect]]
  <2>2. pc[o] = <<effect, "admit">> /\ effect \in {"stop", "suspend", "start", "volume", "finish"} /\ Exists(o)
    BY <1>0, <2>1, ReservedExists DEF At, Effect, Reserved
  <2>3. PICK x \in {<<effect, "read">>, <<effect, "call">>, <<"done", "unknown">>} :
          Goes(o, x) /\ x # <<"suspend", "call">>
    BY <2>1 DEF Write, Goes, Goto, Unknown, ReadsFirst
  <2>4. ~EarlyAt(x) /\ (x[1] \in {"native", "sender", "fence", "stop", "suspend", "start"} => MayGoOn(o))
    BY <2>2, <2>3 DEF EarlyAt, MayGoOn
  <2>5. UNCHANGED producerVars \/ (Journaled(o, r) /\ producer' = producer)
    BY <2>1 DEF Write, Journaled
  <2>6. Attempt[effect] # "none"
    BY <2>2 DEF Attempt
  <2>7. /\ Twin(r, records[o]) /\ Kin(r, records[o]) /\ r.native = records[o].native /\ r.sender = records[o].sender
        /\ r.preempted <=> records[o].preempted
        /\ r.terminal => records[o].terminal
    BY <1>0, <2>2, <2>6 DEF Record, Twin, Kin, Exists
  <2>8. UNCHANGED <<native, sender, cmd>>
    BY <2>1 DEF peerVars
  <2> HIDE DEF r
  <2> QED BY <2>2, <2>3, <2>4, <2>5, <2>7, <2>8, KinHolds, AmendAfter DEF Purpose
<1>2. CASE Advance(o)
  <2>1. PICK effect \in {"suspend", "start", "volume"} :
          /\ At(o, effect, "record") /\ UNCHANGED <<peerVars, cmd>>
          /\ \/ Write(o, [records[o] EXCEPT !.stage = Done(effect)], producer, Proceed(o, effect), Unknown(o))
             \/ Unknown(o) /\ UNCHANGED <<producerVars, faults>>
    BY <1>2 DEF Advance
  <2> DEFINE r == [records[o] EXCEPT !.stage = Done(effect)]
  <2>2. pc[o] = <<effect, "record">> /\ Exists(o)
    BY <1>0, <2>1, ReservedExists DEF At, Reserved
  <2>3. PICK x \in {<<"start", "admit">>, <<"finish", "admit">>, <<"done", "unknown">>} :
          Goes(o, x) /\ (x[1] = "start" => effect = "suspend")
    BY <2>1 DEF Write, Goes, Goto, Unknown, Proceed, Following
  <2>4. ~EarlyAt(x) /\ (x[1] \in {"native", "sender", "fence", "stop", "suspend", "start"} => MayGoOn(o))
    BY <2>2, <2>3 DEF EarlyAt, MayGoOn
  <2>5. UNCHANGED producerVars \/ (Journaled(o, r) /\ producer' = producer)
    BY <2>1 DEF Write, Journaled
  <2>6. Done(effect) # "none"
    BY DEF Done
  <2>7. /\ Twin(r, records[o]) /\ Kin(r, records[o]) /\ r.native = records[o].native /\ r.sender = records[o].sender
        /\ r.preempted <=> records[o].preempted
        /\ r.terminal => records[o].terminal
    BY <1>0, <2>2, <2>6 DEF Record, Twin, Kin, Exists
  <2>8. UNCHANGED <<native, sender, cmd>>
    BY <2>1 DEF peerVars
  <2> HIDE DEF r
  <2> QED BY <2>2, <2>3, <2>4, <2>5, <2>7, <2>8, KinHolds, AmendAfter DEF Purpose
<1>3. CASE FinishRecord(o)
  <2>1. PICK state \in {"playing", "stopped"} :
          /\ At(o, "finish", state) /\ UNCHANGED <<peerVars, cmd>>
          /\ \/ /\ ~Fenced(o)
                /\ Write(o, [records[o] EXCEPT !.terminal = TRUE, !.outcome = "committed", !.stage = "terminal",
                                               !.playing = state = "playing"],
                         [producer EXCEPT !.active = IF state = "playing" THEN o ELSE 0],
                         Goto(o, "done", state), Unknown(o))
             \/ Unknown(o) /\ UNCHANGED <<producerVars, faults>>
    BY <1>3 DEF FinishRecord
  <2> DEFINE r == [records[o] EXCEPT !.terminal = TRUE, !.outcome = "committed", !.stage = "terminal",
                                     !.playing = state = "playing"]
  <2>2. Exists(o)
    BY <1>0, <2>1, ReservedExists DEF At, Reserved
  <2>3. PICK x \in {<<"done", state>>, <<"done", "unknown">>} : Goes(o, x)
    BY <2>1 DEF Write, Goes, Goto, Unknown
  <2>4. ~EarlyAt(x) /\ x[1] = "done"
    BY <2>3 DEF EarlyAt
  <2>5. \/ UNCHANGED producerVars
        \/ /\ ~Fenced(o)
           /\ Write(o, r, [producer EXCEPT !.active = IF state = "playing" THEN o ELSE 0],
                    Goto(o, "done", state), Unknown(o))
    BY <2>1
  <2>6. /\ r.stage # "none" /\ r.terminal /\ r.native = records[o].native /\ Kin(r, records[o]) /\ r.sender = records[o].sender
        /\ r.preempted <=> records[o].preempted
    BY <1>0 DEF Record, Kin
  <2>7. UNCHANGED <<native, sender, cmd>>
    BY <2>1 DEF peerVars
  <2> HIDE DEF r
  <2>8. ~records[o].preempted => Settling(o, r)
    BY <2>2, <2>6 DEF Settling
  <2>9. UNCHANGED producerVars \/ (Journaled(o, r) /\ producer'.live = producer.live /\ ~records[o].preempted)
    BY <1>0, <2>5, HoldTypes DEF Write, Journaled, Fenced, ProducerType
  <2> QED BY <2>3, <2>4, <2>6, <2>7, <2>8, <2>9, KinHolds, AmendAfter DEF Purpose
<1> QED BY <1>1, <1>2, <1>3
LEMMA SourcingStays ==
  ASSUME RefInv, NEW o \in Op, \A p \in Op : Exists(p) => Exists(p)',
         \A p \in Op \ {o} : records'[p].sender = records[p].sender,
         producer'.live \subseteq producer.live \cup {o},
         o \in producer'.live /\ records'[o].sender # 0 =>
           \/ o \in producer.live /\ records'[o].sender = records[o].sender
           \/ records'[o].sender \in Op /\ Exists(records'[o].sender)
  PROVE  Sourcing'
<1>1. SUFFICES ASSUME NEW p \in producer'.live, records'[p].sender # 0
      PROVE  records'[records'[p].sender].stage # "none"
  BY DEF Sourcing, Exists
<1>2. p \in Op
  BY <1>1, RefTypes, HoldTypes DEF ProducerType
<1>3. \/ p \in producer.live /\ records'[p].sender = records[p].sender
      \/ records'[p].sender \in Op /\ Exists(records'[p].sender)
  BY <1>1, <1>2
<1>4. records[p].sender # 0 => records[p].sender \in Op
  BY <1>2, RefTypes, OpBasic DEF JournalTyped, Record
<1> QED BY <1>1, <1>3, <1>4, RefTypes DEF Sourcing, Exists

\* The first write of a preflight opens an operation, and captures the intent.
LEMMA PreflightJournalMaps ==
  ASSUME RefInv, GateInv', coord.enabled, NEW o \in Op, PreflightJournal(o), UNCHANGED <<coord, play, poll>>
  PROVE  RefInv' /\ Promised
<1> DEFINE r == [NoRecord EXCEPT !.stage = "preflight-attempted", !.target = cmd[o].target]
<1>0. /\ JournalTyped /\ pc \in PCType /\ producer \in ProducerType
      /\ pc[o] = <<"preflight", "journal">> /\ UNCHANGED <<sender, cmd>>
  BY RefTypes, HoldTypes DEF PreflightJournal, At
<1>1. \/ /\ NoneOpen(Op) /\ Journaled(o, r) /\ native' = IntentCaptured(o)
         /\ \/ /\ Stored(o, r) /\ producer' = [producer EXCEPT !.live = @ \cup {o}]
               /\ Goes(o, <<"preflight", "call">>)
            \/ producer' = producer /\ Goes(o, <<"done", "clean">>)
      \/ UNCHANGED <<native, producerVars>> /\ Goes(o, <<"done", "clean">>)
  BY DEF PreflightJournal, Write, Journaled, Goes, Goto, Clean, producerVars
<1>2. ~Exists(o) /\ Early(o) /\ ~records[o].preempted
  BY <1>0, RefTypes DEF Inv, Placed, Sealed, Unjournaled, Early, EarlyAt
<1>3. CASE UNCHANGED <<native, producerVars>> /\ Goes(o, <<"done", "clean">>)
  BY <1>0, <1>3, MoveAfter DEF EarlyAt, producerVars
<1>4. CASE /\ NoneOpen(Op) /\ Journaled(o, r) /\ native' = IntentCaptured(o)
           /\ \/ /\ Stored(o, r) /\ producer' = [producer EXCEPT !.live = @ \cup {o}]
                 /\ Goes(o, <<"preflight", "call">>)
              \/ producer' = producer /\ Goes(o, <<"done", "clean">>)
  <2>1. /\ r.stage # "none" /\ r.native = 0 /\ r.sender = 0 /\ ~r.terminal /\ ~r.preempted
    BY DEF NoRecord
  <2> HIDE DEF r
  <2>2. /\ Wrote(o, r) /\ \A p \in Op \ {o} : records'[p] = records[p]
        /\ records'[o] = records[o] \/ records'[o] = r
    BY <1>4, JournaledWrote
  <2>3. Opening(o, r) /\ Purpose(o, r)
    BY <1>2, <1>4, <2>1 DEF Opening, Purpose
  <2>4. PICK x \in {<<"preflight", "call">>, <<"done", "clean">>} : Goes(o, x)
    BY <1>4
  <2>5. pc'[o] = x /\ producer'.live \subseteq producer.live \cup {o} /\ (o \in producer.live => Exists(o))
    BY <1>0, <1>4, <2>4, RefTypes, GateTypes, LiveExists DEF Goes, PCType, ProducerType
  <2>6. SettledKnows(o)'
    BY <2>4, <2>5 DEF SettledKnows, MayGoOn
  <2>7. o \in producer'.live => records'[o] = r
    <3>1. CASE Stored(o, r)
      BY <1>0, <3>1 DEF Stored, JournalTyped
    <3>2. CASE ~Stored(o, r)
      BY <1>2, <1>4, <2>5, <3>2
    <3> QED BY <3>1, <3>2
  <2>8. Sourcing'
    BY <2>1, <2>2, <2>3, <2>5, <2>7, JournalsGo, SourcingStays
  <2>9. \A p \in Op \ {o} : Kin(records'[p], records[p])
    BY <2>2 DEF Kin
  <2> QED BY <1>0, <1>2, <1>4, <2>1, <2>2, <2>3, <2>4, <2>6, <2>8, <2>9, WriteAfter
<1> QED BY <1>1, <1>3, <1>4

LEMMA PreflightWritesMap ==
  ASSUME RefInv, GateInv', coord.enabled, NEW o \in Op, PreflightRecord(o) \/ PreflightReject(o),
         UNCHANGED <<coord, play, poll>>
  PROVE  RefInv' /\ Promised
<1>0. records[o] \in Record /\ pc \in PCType /\ producer \in ProducerType /\ Inv /\ JournalTyped
  BY RefTypes, HoldTypes
<1>1. CASE PreflightRecord(o)
  <2> DEFINE r == [records[o] EXCEPT !.stage = "preflight-prepared", !.peer = o, !.epoch = StateOf(o).epoch]
  <2>1. /\ pc[o] = <<"preflight", "record">> /\ UNCHANGED <<native, sender, cmd>>
        /\ \/ UNCHANGED producerVars /\ Goes(o, <<"done", "clean">>)
           \/ /\ Exists(o) /\ ~records[o].preempted /\ UNCHANGED producer
              /\ \/ Stored(o, r) /\ Goes(o, <<"reserve", "check">>)
                 \/ StoreFailed(o, r) /\ Goes(o, <<"done", "clean">>)
    BY <1>1 DEF PreflightRecord, Write, StillPreflighting, Fenced, Exists, At, Goes, Goto, Clean, peerVars
  <2>2. CASE UNCHANGED producerVars /\ Goes(o, <<"done", "clean">>)
    BY <2>1, <2>2, MoveAfter DEF EarlyAt, producerVars
  <2>3. CASE /\ Exists(o) /\ ~records[o].preempted /\ UNCHANGED producer
             /\ \/ Stored(o, r) /\ Goes(o, <<"reserve", "check">>)
                \/ StoreFailed(o, r) /\ Goes(o, <<"done", "clean">>)
    <3>1. Twin(r, records[o]) /\ r.peer = o /\ r.sender = records[o].sender
      BY <1>0, <2>3 DEF Record, Twin, Kin, Exists
    <3> HIDE DEF r
    <3>2. Journaled(o, r)
      BY <2>3 DEF Journaled
    <3>3. /\ Wrote(o, r) /\ \A p \in Op \ {o} : records'[p] = records[p]
          /\ records'[o] = records[o] \/ records'[o] = r
      BY <3>2, JournaledWrote
    <3>4. Purpose(o, r) /\ (r.preempted <=> records[o].preempted)
      BY <2>3, <3>1 DEF Purpose, Twin
    <3>5. PICK x \in {<<"reserve", "check">>, <<"done", "clean">>} :
            Goes(o, x) /\ (x[1] = "reserve" => records'[o] = r)
      BY <1>0, <2>3 DEF Stored, JournalTyped
    <3>6. pc'[o] = x
      BY <1>0, <3>5 DEF Goes, PCType
    <3>7. SettledKnows(o)'
      BY <3>1, <3>5, <3>6 DEF SettledKnows, MayGoOn
    <3>8. Sourcing'
      <4>1. records'[o].sender = records[o].sender
        BY <3>1, <3>3
      <4> QED BY <2>3, <3>3, <3>4, <4>1, JournalsGo, SourcingStays
    <3>9. \A p \in Op \ {o} : Kin(records'[p], records[p])
      BY <3>3 DEF Kin
    <3> QED BY <2>1, <2>3, <3>1, <3>3, <3>4, <3>5, <3>7, <3>8, <3>9, WriteAfter
  <2> QED BY <2>1, <2>2, <2>3
<1>2. CASE PreflightReject(o)
  <2> DEFINE r == [records[o] EXCEPT !.stage = "preflight-rejected", !.terminal = TRUE, !.outcome = "rejected"]
  <2>1. /\ UNCHANGED <<native, sender, cmd>>
        /\ Goes(o, <<"done", "clean">>)
        /\ \/ UNCHANGED producerVars
           \/ Exists(o) /\ Journaled(o, r) /\ UNCHANGED producer /\ ~records[o].preempted
    BY <1>2 DEF PreflightReject, Write, Journaled, StillPreflighting, Fenced, Exists, At, Goes, Goto, Clean, peerVars
  <2>2. /\ r.stage # "none" /\ r.terminal /\ r.native = records[o].native /\ Kin(r, records[o])
        /\ r.sender = records[o].sender /\ (r.preempted <=> records[o].preempted)
    BY <1>0 DEF Record, Kin
  <2> HIDE DEF r
  <2>3. Exists(o) /\ ~records[o].preempted => Purpose(o, r)
    BY <2>2 DEF Settling, Purpose
  <2> QED BY <2>1, <2>2, <2>3, KinHolds, AmendAfter DEF EarlyAt
<1> QED BY <1>1, <1>2
\* A reservation takes over the preflight's record, or opens one for a stop or volume.
LEMMA ReserveJournalMaps ==
  ASSUME RefInv, GateInv', coord.enabled, NEW o \in Op, ReserveJournal(o), UNCHANGED <<coord, play, poll>>
  PROVE  RefInv' /\ Promised
<1> DEFINE r == Reservation(o)
<1>0. /\ JournalTyped /\ pc \in PCType /\ producer \in ProducerType /\ records[o] \in Record
      /\ pc[o] = <<"reserve", "journal">> /\ UNCHANGED <<native, sender, cmd>>
  BY RefTypes, HoldTypes DEF ReserveJournal, At, peerVars
<1>1. \/ /\ MayReserve(o)
         /\ \/ /\ Stored(o, r) /\ producer' = [producer EXCEPT !.live = @ \cup {o}]
               /\ Goes(o, <<"native", "call">>)
            \/ /\ StoreFailed(o, r) /\ producer' = producer /\ Goes(o, <<"done", "unknown">>)
      \/ UNCHANGED producerVars /\ Goes(o, <<"done", "unknown">>)
  BY DEF ReserveJournal, Write, Goes, Goto, Unknown, producerVars
<1>2. /\ Early(o) /\ ThreadKnows(o) /\ ThreadAgrees(o) /\ SettledKnows(o)
  BY <1>0, RefTypes, GateTypes DEF Early, EarlyAt, ThreadsKnow, ThreadsAgree, SettledKnow
<1>3. CASE UNCHANGED producerVars /\ Goes(o, <<"done", "unknown">>)
  BY <1>0, <1>3, MoveAfter DEF EarlyAt, producerVars
<1>4. CASE /\ MayReserve(o)
           /\ \/ /\ Stored(o, r) /\ producer' = [producer EXCEPT !.live = @ \cup {o}]
                 /\ Goes(o, <<"native", "call">>)
              \/ /\ StoreFailed(o, r) /\ producer' = producer /\ Goes(o, <<"done", "unknown">>)
  <2> DEFINE a == producer.active
             base == IF SourceOperation(o)
                     THEN [NoRecord EXCEPT !.target = cmd[o].target, !.peer = records[a].peer,
                                           !.epoch = records[a].epoch]
                     ELSE records[o]
             kept == producer.retained[cmd[o].target]
             n == IF kept.native # 0 /\ kept.epoch = base.epoch THEN kept.native ELSE 0
  <2>1. /\ SourceOperation(o) => ~Exists(o)
        /\ ~SourceOperation(o) => Exists(o) /\ Recorded(o) /\ ~records[o].preempted
        /\ ~records[o].preempted
    <3>1. SourceOperation(o) => ~Exists(o) /\ ~records[o].preempted
      BY <1>4, RefTypes DEF MayReserve, Inv, Sealed
    <3>2. ~SourceOperation(o) => Exists(o) /\ Recorded(o)
      BY <1>0, <1>4 DEF MayReserve, Recorded, Exists
    <3>3. ~SourceOperation(o) => ~records[o].preempted
      BY <1>2, <3>2, RefTypes DEF EarlyKept
    <3> QED BY <3>1, <3>2, <3>3
  <2>2. /\ base.native = 0 /\ base.sender = 0 /\ ~base.terminal /\ ~base.preempted
        /\ ~SourceOperation(o) => base = records[o] /\ base.peer = o
    <3>1. CASE SourceOperation(o)
      <4>1. base = [NoRecord EXCEPT !.target = cmd[o].target, !.peer = records[a].peer, !.epoch = records[a].epoch]
        BY <3>1
      <4> QED BY <3>1, <4>1 DEF NoRecord
    <3>2. CASE ~SourceOperation(o)
      BY <1>0, <1>2, <2>1, <3>2 DEF ThreadKnows, Blank, SettledKnows
    <3> QED BY <3>1, <3>2
  <2>3. r = [base EXCEPT !.stage = "native-reserve-attempted", !.prior = a, !.retained = n]
    BY Zenon DEF Reservation
  <2>4. DOMAIN base = DOMAIN NoRecord
    <3>1. CASE SourceOperation(o)
      BY <3>1
    <3>2. CASE ~SourceOperation(o)
      BY <1>0, <3>2 DEF Record, NoRecord
    <3> QED BY <3>1, <3>2
  <2> HIDE DEF n, base, a
  <2>5. /\ r.stage = "native-reserve-attempted" /\ r.native = base.native /\ r.sender = base.sender
        /\ r.terminal = base.terminal /\ r.preempted = base.preempted /\ r.peer = base.peer
    BY <2>3, <2>4 DEF NoRecord
  <2> HIDE DEF r
  <2>6. /\ Wrote(o, r) /\ \A p \in Op \ {o} : records'[p] = records[p]
        /\ records'[o] = records[o] \/ records'[o] = r
    BY <1>4, JournaledWrote DEF Journaled
  <2>7. Purpose(o, r)
    <3>1. CASE SourceOperation(o)
      <4>1. NoneOpen(Op)
        BY <1>4, <2>1, <3>1 DEF MayReserve, NoneOpen, Open
      <4> QED BY <2>1, <2>2, <2>5, <3>1, <4>1 DEF Purpose, Opening
    <3>2. CASE ~SourceOperation(o)
      BY <2>1, <2>2, <2>5, <3>2 DEF Purpose, Twin, Exists
    <3> QED BY <3>1, <3>2
  <2>8. PICK x \in {<<"native", "call">>, <<"done", "unknown">>} :
          /\ Goes(o, x) /\ (x = <<"native", "call">> => records'[o] = r)
          /\ o \in producer'.live => records'[o] = r \/ (o \in producer.live /\ records'[o] = records[o])
    BY <1>0, <1>4 DEF Stored, StoreFailed, JournalTyped
  <2>9. pc'[o] = x /\ SourceOperation(o)' = SourceOperation(o) /\ producer'.live \subseteq producer.live \cup {o}
    BY <1>0, <1>4, <2>8 DEF Goes, PCType, SourceOperation, ProducerType
  <2>10. SettledKnows(o)'
    <3>1. CASE SourceOperation(o) \/ x # <<"native", "call">>
      BY <2>8, <2>9, <3>1 DEF SettledKnows, MayGoOn
    <3>2. CASE ~SourceOperation(o) /\ x = <<"native", "call">>
      <4>1. records'[o].peer = o /\ ~records'[o].terminal /\ records'[o].native = 0
        BY <2>2, <2>5, <2>8, <3>2
      <4>4. OwnHold(o, records[o])'
        BY <4>1 DEF OwnHold
      <4>2. o # 0 /\ poll.fence # o
        BY <1>2, GateTypes, RefTypes, HoldTypes DEF PollKnows
      <4>3. play.step # "record"
        BY <1>4, <2>1, <3>2, GateTypes, RefTypes DEF PlayKnows, PlayRetires, Inv, PlayPlaced, MayReserve, NoneOpen, Open
      <4>5. pc'[o] # <<"suspend", "call">>
        BY <2>9, <3>2
      <4> QED BY <1>4, <4>1, <4>2, <4>3, <4>4, <4>5 DEF SettledKnows, Mutes
    <3> QED BY <3>1, <3>2
  <2>11. Sourcing'
    BY <2>2, <2>5, <2>6, <2>7, <2>8, <2>9, JournalsGo, SourcingStays
  <2>12. \A p \in Op \ {o} : Kin(records'[p], records[p])
    BY <2>6 DEF Kin
  <2> QED BY <1>0, <2>1, <2>2, <2>5, <2>6, <2>7, <2>8, <2>10, <2>11, <2>12, WriteAfter
<1> QED BY <1>1, <1>3, <1>4

\* Native's answer names the hold.
LEMMA NativeRecordMaps ==
  ASSUME RefInv, GateInv', coord.enabled, NEW o \in Op, NativeRecord(o), UNCHANGED <<coord, play, poll>>
  PROVE  RefInv' /\ Promised
<1> DEFINE h == IF Reused(o) # 0 THEN Reused(o) ELSE o
           r == [records[o] EXCEPT !.native = h, !.stage = "sender-reserve-attempted"]
<1>0. /\ records[o] \in Record /\ pc[o] = <<"native", "record">> /\ UNCHANGED <<native, sender, cmd>> /\ Inv
      /\ RecordsAgree /\ ThreadsAgree /\ pc[o][1] = "native" /\ pc[o][1] \in Reserved /\ Exists(o)
  BY RefTypes, GateTypes, HoldTypes, ReservedExists DEF NativeRecord, At, peerVars, Reserved
<1>1. PICK x \in {<<"sender", "call">>, <<"done", "unknown">>} :
        /\ Goes(o, x)
        /\ UNCHANGED producerVars \/ (Journaled(o, r) /\ producer' = producer /\ ~records[o].preempted)
  BY DEF NativeRecord, Write, Goes, Goto, Unknown, Journaled, Fenced
<1>2. h \in Op /\ Exists(h)
  BY <1>0, ReusedFits DEF HoldFor
<1>6. ~SourceOperation(o) => h \in {o, records[o].retained} \/ (records[o].prior # 0 /\ h = records[records[o].prior].native)
  BY DEF Reused, SameTarget
<1>7. ~records[o].preempted => records[o].native = 0
  BY <1>0, RefTypes, GateTypes DEF ThreadsKnow, ThreadKnows
<1> HIDE DEF h
<1>3. /\ r.stage # "none" /\ r.native = h /\ r.terminal = records[o].terminal /\ r.preempted = records[o].preempted
      /\ Kin(r, records[o]) /\ r.sender = records[o].sender
  BY <1>0 DEF Record, Kin
<1> HIDE DEF r
<1>4. ~records[o].preempted => Purpose(o, r)
  BY <1>0, <1>2, <1>3, <1>7 DEF Purpose, Naming, IsRetired
<1>8. ~SourceOperation(o) => OwnHold(o, r)
  BY <1>3, <1>6 DEF OwnHold, Kin
<1>5. ~EarlyAt(x) /\ MayGoOn(o)
  BY <1>0, <1>1 DEF EarlyAt, MayGoOn
<1> QED BY <1>0, <1>1, <1>3, <1>4, <1>5, <1>8, AmendAfter

\* The binding of the source is recorded.
LEMMA SenderRecordMaps ==
  ASSUME RefInv, GateInv', coord.enabled, NEW o \in Op, SenderRecord(o), UNCHANGED <<coord, play, poll>>
  PROVE  RefInv' /\ Promised
<1> DEFINE source == IF SourceOperation(o) THEN records[records[o].prior].sender ELSE o
           r == [records[o] EXCEPT !.sender = source, !.stage = "reserved"]
<1>0. /\ records[o] \in Record /\ pc[o] = <<"sender", "record">> /\ UNCHANGED <<native, sender, cmd>> /\ Inv
      /\ pc \in PCType /\ producer \in ProducerType /\ pc[o][1] = "sender" /\ pc[o][1] \in Reserved /\ Exists(o)
  BY RefTypes, GateTypes, HoldTypes, ReservedExists DEF SenderRecord, At, peerVars, Reserved
<1>1. PICK x \in {<<"fence", "set">>, <<"done", "unknown">>} :
        /\ Goes(o, x)
        /\ \/ UNCHANGED producerVars
           \/ Journaled(o, r) /\ producer'.live = producer.live /\ ~records[o].preempted
  BY <1>0 DEF SenderRecord, Write, Goes, Goto, Unknown, Journaled, Fenced, ProducerType
<1>2. ~EarlyAt(x) /\ MayGoOn(o)
  BY <1>0, <1>1 DEF EarlyAt, MayGoOn
<1>3. CASE UNCHANGED producerVars
  BY <1>0, <1>1, <1>2, <1>3, MoveAfter DEF EarlyAt, producerVars
<1>4. CASE Journaled(o, r) /\ producer'.live = producer.live /\ ~records[o].preempted
  <2>1. source # 0 => source \in Op /\ Exists(source)
    <3>1. SourceOperation(o) => records[o].prior \in producer.live /\ records[records[o].prior] \in Record
      BY <1>0, RefTypes, GateTypes, HoldTypes, LiveExists DEF ThreadsAgree, ThreadAgrees
    <3>2. \A q \in producer.live : records[q].sender # 0 => Exists(records[q].sender)
      BY RefTypes DEF Sourcing
    <3>3. SourceOperation(o) /\ source # 0 => source \in Op /\ Exists(source)
      BY <3>1, <3>2, OpBasic DEF Record
    <3> QED BY <1>0, <3>3
  <2> HIDE DEF source
  <2>2. /\ Twin(r, records[o]) /\ Kin(r, records[o]) /\ r.sender = source
        /\ r.terminal = records[o].terminal /\ (r.preempted <=> records[o].preempted)
    BY <1>0 DEF Record, Twin, Kin, Exists
  <2> HIDE DEF r
  <2>3. /\ Wrote(o, r) /\ \A p \in Op \ {o} : records'[p] = records[p]
        /\ records'[o] = records[o] \/ records'[o] = r
    BY <1>4, JournaledWrote
  <2>4. Purpose(o, r)
    BY <1>0, <2>2 DEF Purpose
  <2>5. SettledKnows(o)'
    <3>1. SourceOperation(o)' = SourceOperation(o) /\ SettledKnows(o) /\ pc'[o] = x
      BY <1>0, <1>1, RefTypes DEF SourceOperation, SettledKnow, Goes, PCType
    <3>2. (MayGoOn(o)' => MayGoOn(o)) /\ pc'[o][1] # "reserve"
      BY <1>1, <1>2, <3>1
    <3>3. \A p : NotStartable(p)' <=> NotStartable(p)
      BY <1>0, SenderRests
    <3>4. /\ Kin(records'[o], records[o]) /\ records'[o].terminal = records[o].terminal
          /\ records'[o].native = records[o].native /\ NamesKept
      BY <2>2, <2>3, <2>4, JournalsGo DEF Kin, Twin
    <3>5. x # <<"suspend", "call">>
      BY <1>1
    <3>6. Mutes(o)' => Mutes(o)
      BY <1>0, <3>4 DEF Mutes, Kin
    <3> QED BY <3>1, <3>2, <3>3, <3>4, <3>5, <3>6, <1>0, SettledStays
  <2>6. Sourcing'
    <3>1. records'[o].sender = records[o].sender \/ (records'[o].sender # 0 => records'[o].sender \in Op /\ Exists(records'[o].sender))
      BY <2>1, <2>2, <2>3
    <3> QED BY <1>4, <2>3, <2>4, <3>1, JournalsGo, SourcingStays
  <2>7. \A p \in Op \ {o} : Kin(records'[p], records[p])
    BY <2>3 DEF Kin
  <2> QED BY <1>0, <1>1, <1>2, <2>2, <2>3, <2>4, <2>5, <2>6, <2>7, WriteAfter
<1> QED BY <1>1, <1>3, <1>4

\* The receipt of a stop is kept with two records that stand for the same as before.
LEMMA StopRecordMaps ==
  ASSUME RefInv, GateInv', coord.enabled, NEW o \in Op, StopRecord(o), UNCHANGED <<coord, play, poll>>
  PROVE  RefInv' /\ Promised
<1> DEFINE own == [records[o] EXCEPT !.ticket = Plain, !.stage = "stopped"]
           src == Incumbent(o)
           of == [records[src] EXCEPT !.drained = TRUE, !.ticket = Plain]
           first == IF records[o].prior # 0 THEN [records EXCEPT ![src] = of] ELSE records
           onDisk == IF records[o].prior # 0 THEN [disk EXCEPT ![src] = of] ELSE disk
<1>0. /\ records[o] \in Record /\ Inv /\ records \in [Op -> Record] /\ disk \in [Op -> Record] /\ pc \in PCType
      /\ pc[o] = <<"stop", "record">> /\ pc[o][1] = "stop" /\ pc[o][1] \in Reserved /\ Exists(o)
  BY RefTypes, HoldTypes, ReservedExists DEF StopRecord, Reserved, Inv, Typed, JournalTyped, At
<1>1. /\ UNCHANGED <<native, sender, cmd, producer>>
      /\ records' \in {records, first, [first EXCEPT ![o] = own]}
      /\ disk' \in {disk, onDisk, [onDisk EXCEPT ![o] = own]}
  BY DEF StopRecord, peerVars
<1>2. PICK x \in {<<Following(o, "stop"), "admit">>, <<"done", "unknown">>} : Goes(o, x)
  BY DEF StopRecord, Proceed, Goto, Unknown, Goes
<1>3. Following(o, "stop") \in {"finish", "suspend"}
  BY DEF Following
<1>4. ~EarlyAt(x) /\ x[1] # "reserve" /\ MayGoOn(o) /\ pc'[o] = x
  BY <1>0, <1>2, <1>3 DEF EarlyAt, MayGoOn, Goes, PCType
<1>5. records[o].prior # 0 => src \in OpOrNone /\ (src \in Op => Exists(src))
  <2>1. o \in producer.live
    BY <1>0, RefTypes, GateTypes DEF ThreadsAgree, ThreadAgrees, Recorded
  <2>2. records[o].prior # 0 => records[o].prior \in producer.live /\ records[o].prior \in Op
    BY <2>1, RefTypes, GateTypes, LiveExists DEF RecordsAgree, RecordAgrees
  <2>3. records[o].prior # 0 => src = records[records[o].prior].sender /\ src \in OpOrNone
    BY <1>0, <2>2 DEF Incumbent, Record
  <2> QED BY <2>2, <2>3, RefTypes, OpBasic DEF Sourcing
<1>6. /\ Twin(own, records[o]) /\ Kin(own, records[o]) /\ own.sender = records[o].sender
      /\ own.terminal = records[o].terminal
  BY <1>0 DEF Twin, Kin, Record, Exists
<1>7. src \in Op /\ Exists(src) => /\ Twin(of, records[src]) /\ Kin(of, records[src]) /\ of.sender = records[src].sender
                                   /\ of.terminal = records[src].terminal
  <2>1. src \in Op => records[src] \in Record
    BY <1>0
  <2> QED BY <2>1 DEF Twin, Kin, Record
<1>8. \A p \in Op : /\ \/ records'[p] = records[p]
                       \/ p = o /\ records'[p] = own
                       \/ p = src /\ records[o].prior # 0 /\ records'[p] = of
                    /\ \/ disk'[p] = disk[p]
                       \/ p = o /\ disk'[p] = own
                       \/ p = src /\ records[o].prior # 0 /\ disk'[p] = of
  <2> HIDE DEF own, of, src
  <2>1. /\ first \in [Op -> {first[p] : p \in Op}]
        /\ \A p \in Op : first[p] = records[p] \/ (p = src /\ records[o].prior # 0 /\ first[p] = of)
        /\ onDisk \in [Op -> {onDisk[p] : p \in Op}]
        /\ \A p \in Op : onDisk[p] = disk[p] \/ (p = src /\ records[o].prior # 0 /\ onDisk[p] = of)
    BY <1>0
  <2> HIDE DEF first, onDisk
  <2> QED BY <1>1, <2>1
<1> HIDE DEF own, of, src, first, onDisk
<1>9. \A p \in Op : /\ Twin(records'[p], records[p]) /\ Kin(records'[p], records[p])
                    /\ records'[p].sender = records[p].sender /\ records'[p].terminal = records[p].terminal
                    /\ Twin(disk'[p], disk[p]) \/ (Exists(p) /\ Twin(disk'[p], records[p]))
  <2>1. \A r : Twin(r, r) /\ Kin(r, r)
    BY DEF Twin, Kin
  <2> QED BY <1>0, <1>5, <1>6, <1>7, <1>8, <2>1
<1>10. Wrote(o, own) /\ Purpose(o, own) /\ (own.preempted <=> records[o].preempted)
  BY <1>0, <1>6, <1>9 DEF Wrote, Purpose, Twin
<1>11. Sourcing'
  BY <1>1, <1>9, <1>10, JournalsGo, SourcingStays
<1>12. SettledKnows(o)'
  <2>1. SourceOperation(o)' = SourceOperation(o) /\ SettledKnows(o)
    BY <1>1, RefTypes DEF SourceOperation, SettledKnow
  <2>2. \A p : NotStartable(p)' <=> NotStartable(p)
    BY <1>1, SenderRests
  <2>3. records'[o].native = records[o].native /\ NamesKept /\ x # <<"suspend", "call">>
    BY <1>2, <1>9, <1>10, JournalsGo DEF Twin
  <2>4. Mutes(o)' => Mutes(o)
    BY <1>1, <1>9 DEF Mutes, Kin
  <2> QED BY <1>1, <1>4, <1>9, <2>1, <2>2, <2>3, <2>4, SettledStays
<1> QED BY <1>1, <1>2, <1>4, <1>6, <1>9, <1>10, <1>11, <1>12, WriteAfter

-----------------------------------------------------------------------------
(* The calls of a thread *)

IsSounding(s) == s.phase \in {"starting", "playing"}

LEMMA SoundStays ==
  ASSUME native'.hold = native.hold, native'.parked = native.parked,
         IsSounding(sender'.main) <=> IsSounding(sender.main),
         IsSounding(sender.main) => sender'.main.src = sender.main.src /\ sender'.main.tgt = sender.main.tgt
  PROVE  OwnersStay
<1>1. \A t : SoundsOn(t)' <=> SoundsOn(t)
  BY DEF SoundsOn, IsSounding
<1>2. Sounding' = Sounding
  BY DEF Sounding, IsSounding
<1>3. Owners' = Owners
  BY <1>1 DEF Owners, CustodyOwner
<1> QED BY <1>2, <1>3 DEF OwnersStay

\* What is left to show of a call to the sender.
LEMMA SenderAfter ==
  ASSUME RefInv, GateInv', coord.enabled, NEW o \in Op, NEW x, Goes(o, x),
         UNCHANGED <<native, producerVars, cmd, coord, play, poll>>, OwnOp',
         \A p \in Op \ {o} : NotStartable(p) => NotStartable(p)',
         x[1] \notin {"preflight", "done"} => (NotStartable(o) => NotStartable(o)'),
         EarlyAt(x) => Early(o) /\ (Recorded(o)' => Recorded(o)),
         x[1] \in {"native", "sender", "fence", "stop", "suspend", "start"} => MayGoOn(o) \/ SourceOperation(o),
         x[1] # "reserve", x # <<"suspend", "call">>
  PROVE  RefInv' /\ Standings' = Standings /\ Revokeds' = Revokeds /\ (OwnersStay => Promised)
<1>1. ParkedAsked'
  BY RefTypes DEF ParkedAsked
<1>2. RefInv' /\ Standings' = Standings /\ Revokeds' = Revokeds
  BY <1>1, CallAfter DEF producerVars
<1> QED BY <1>2, Unseen

LEMMA PreflightCallMaps ==
  ASSUME RefInv, GateInv', coord.enabled, NEW o \in Op, PreflightCall(o), UNCHANGED <<coord, play, poll>>
  PROVE  RefInv' /\ Promised
<1> DEFINE t == cmd[o].target
           binding == client.holds[t]
<1>0. /\ pc[o] = <<"preflight", "call">> /\ UNCHANGED <<native, producerVars, cmd>>
      /\ sender' = sender \/ (PreflightAccepted(t, binding) /\ sender' = Preflighted(o, t, binding))
  BY DEF PreflightCall, SenderCall, At
<1>1. PICK x \in {<<"preflight", "record">>, <<"preflight", "reject">>, <<"done", "clean">>} : Goes(o, x)
  BY DEF PreflightCall, SenderCall, Goes, Goto, Clean
<1>2. Early(o) /\ Recorded(o)
  BY <1>0 DEF Early, EarlyAt, Recorded
<1>3. /\ OwnOp' /\ OwnersStay /\ \A p \in Op \ {o} : NotStartable(p) => NotStartable(p)'
  <2>1. CASE sender' = sender
    BY <1>0, <2>1, SenderRests
  <2>2. CASE PreflightAccepted(t, binding) /\ sender' = Preflighted(o, t, binding)
    <3> DEFINE keep == IF Beside THEN CandidateEpoch(t, binding) ELSE MainEpoch(t)
               new == [src |-> o, op |-> o, tgt |-> t, phase |-> "prepared", epoch |-> keep.e,
                       hold |-> keep.h, relinquished |-> FALSE]
    <3>1. sender' = IF Beside THEN [sender EXCEPT !.cand = new] ELSE [sender EXCEPT !.main = new, !.cand = NoSource]
      BY <2>2 DEF Preflighted
    <3>2. new.src = o /\ new.op = o /\ new.phase = "prepared"
      OBVIOUS
    <3>3. PICK n : sender \in SenderUpTo(n)
      BY RefTypes, SenderKnown
    <3> HIDE DEF new
    <3>4. CASE Beside
      <4>1. sender'.main = sender.main /\ sender'.cand = new
        BY <3>1, <3>3, <3>4 DEF SenderUpTo
      <4>2. OwnOp'
        BY <3>2, <4>1, RefTypes DEF OwnOp, Startable
      <4>3. \A p \in Op \ {o} : NotStartable(p) => NotStartable(p)'
        BY <3>2, <4>1 DEF NotStartable, Startable
      <4>4. OwnersStay
        BY <1>0, <4>1, SoundStays
      <4> QED BY <4>2, <4>3, <4>4
    <3>5. CASE ~Beside
      <4>1. sender'.main = new /\ sender'.cand = NoSource /\ sender.main.phase \in {"empty", "drained", "cancelled"}
        BY <2>2, <3>1, <3>3, <3>5 DEF SenderUpTo, PreflightAccepted
      <4>2. OwnOp'
        BY <3>2, <4>1 DEF OwnOp, Startable, NoSource
      <4>3. \A p \in Op \ {o} : NotStartable(p) => NotStartable(p)'
        BY <3>2, <4>1 DEF NotStartable, Startable, NoSource
      <4>4. OwnersStay
        BY <1>0, <3>2, <4>1, SoundStays DEF IsSounding
      <4> QED BY <4>2, <4>3, <4>4
    <3> QED BY <3>4, <3>5
  <2> QED BY <1>0, <2>1, <2>2
<1> QED BY <1>0, <1>1, <1>2, <1>3, SenderAfter

LEMMA SenderReserveMaps ==
  ASSUME RefInv, GateInv', coord.enabled, NEW o \in Op, SenderReserve(o), UNCHANGED <<coord, play, poll>>
  PROVE  RefInv' /\ Promised
<1> DEFINE h == records[o].native
<1>0. /\ pc[o] = <<"sender", "call">> /\ UNCHANGED <<native, producerVars, cmd>>
      /\ sender' = sender \/ (BindAccepted(o, h) /\ sender' = Bound(o, h))
  BY DEF SenderReserve, SenderCall, At
<1>1. PICK x \in {<<"sender", "record">>, <<"done", "unknown">>} : Goes(o, x)
  BY DEF SenderReserve, SenderCall, Goes, Goto, Unknown
<1>2. MayGoOn(o) /\ ~EarlyAt(x)
  BY <1>0, <1>1 DEF MayGoOn, EarlyAt
<1>3. /\ OwnOp' /\ OwnersStay /\ \A p \in Op : NotStartable(p) => NotStartable(p)'
  <2>1. CASE sender' = sender
    BY <1>0, <2>1, SenderRests
  <2>2. CASE BindAccepted(o, h) /\ sender' = Bound(o, h)
    <3>1. PICK n : sender \in SenderUpTo(n) /\ sender.main \in SourceUpTo(n) /\ sender.cand \in SourceUpTo(n)
      BY RefTypes, SenderKnown
    <3>2. sender.cand.src # 0 => sender.cand.src # sender.main.src
      BY RefTypes, SenderKnown DEF Apart
    <3>3. CASE sender.cand.src = o
      <4>1. sender'.main = sender.main /\ sender'.cand.src = o /\ sender'.cand.op = sender.cand.op
        BY <2>2, <3>1, <3>3 DEF Bound, SenderUpTo, SourceUpTo
      <4>2. sender.cand.phase = "prepared"
        BY <2>2, <3>2, <3>3, OpBasic DEF BindAccepted
      <4>3. OwnOp'
        BY <3>3, <4>1, RefTypes DEF OwnOp, Startable
      <4>4. \A p \in Op : NotStartable(p) => NotStartable(p)'
        BY <3>3, <4>1, <4>2 DEF NotStartable, Startable
      <4>5. OwnersStay
        BY <1>0, <4>1, SoundStays
      <4> QED BY <4>3, <4>4, <4>5
    <3>4. CASE sender.cand.src # o
      <4>1. /\ sender'.cand = sender.cand /\ sender'.main.src = sender.main.src /\ sender'.main.op = sender.main.op
            /\ sender'.main.phase = "bound"
        BY <2>2, <3>1, <3>4 DEF Bound, SenderUpTo, SourceUpTo
      <4>2. sender.main.src = o /\ sender.main.phase = "prepared"
        BY <2>2, <3>4 DEF BindAccepted
      <4>3. OwnOp'
        BY <4>1, <4>2, RefTypes DEF OwnOp, Startable
      <4>4. \A p \in Op : NotStartable(p) => NotStartable(p)'
        BY <4>1, <4>2 DEF NotStartable, Startable
      <4>5. OwnersStay
        BY <1>0, <4>1, <4>2, SoundStays DEF IsSounding
      <4> QED BY <4>3, <4>4, <4>5
    <3> QED BY <3>3, <3>4
  <2> QED BY <1>0, <2>1, <2>2
<1> QED BY <1>0, <1>1, <1>2, <1>3, SenderAfter

\* A source that is cancelled was not bound, and is not started any more.
LEMMA CancelledServes ==
  ASSUME RefInv, native'.hold = native.hold, native'.parked = native.parked, NEW n, sender \in SenderUpTo(n),
         sender.main \in SourceUpTo(n), sender.cand \in SourceUpTo(n),
         \/ /\ sender' = [sender EXCEPT !.cand.phase = "cancelled"]
         \/ /\ sender' = [sender EXCEPT !.main.phase = "cancelled"]
            /\ sender.main.phase \in {"prepared", "cancelled"}
  PROVE  OwnOp' /\ OwnersStay /\ \A p : NotStartable(p) => NotStartable(p)'
<1>1. CASE sender' = [sender EXCEPT !.cand.phase = "cancelled"]
  <2>1. /\ sender'.main = sender.main /\ sender'.cand.src = sender.cand.src /\ sender'.cand.op = sender.cand.op
        /\ sender'.cand.phase = "cancelled"
    BY <1>1 DEF SenderUpTo, SourceUpTo
  <2>2. OwnOp' /\ \A p : NotStartable(p) => NotStartable(p)'
    BY <2>1, RefTypes DEF OwnOp, NotStartable, Startable
  <2> QED BY <2>1, <2>2, SoundStays
<1>2. CASE /\ sender' = [sender EXCEPT !.main.phase = "cancelled"]
           /\ sender.main.phase \in {"prepared", "cancelled"}
  <2>1. /\ sender'.cand = sender.cand /\ sender'.main.src = sender.main.src /\ sender'.main.phase = "cancelled"
    BY <1>2 DEF SenderUpTo, SourceUpTo
  <2>2. OwnOp' /\ \A p : NotStartable(p) => NotStartable(p)'
    BY <2>1, RefTypes DEF OwnOp, NotStartable, Startable
  <2> QED BY <1>2, <2>1, <2>2, SoundStays DEF IsSounding
<1> QED BY <1>1, <1>2

LEMMA CancelCallMaps ==
  ASSUME RefInv, GateInv', coord.enabled, NEW o \in Op, CancelCall(o), UNCHANGED <<coord, play, poll>>
  PROVE  RefInv' /\ Promised
<1>0. /\ pc[o] = <<"cancel", "call">> /\ UNCHANGED <<native, producerVars, cmd>>
      /\ sender' = sender \/ (CancelAccepted(o) /\ sender' = CancelledSource(o))
  BY DEF CancelCall, SenderCall, At
<1>1. PICK x \in {<<"cancel", "record">>, <<"done", "unknown">>} : Goes(o, x)
  BY DEF CancelCall, SenderCall, Goes, Goto, Unknown
<1>2. ~EarlyAt(x)
  BY <1>1 DEF EarlyAt
<1>3. OwnOp' /\ OwnersStay /\ \A p : NotStartable(p) => NotStartable(p)'
  <2>1. CASE sender' = sender
    BY <1>0, <2>1, SenderRests
  <2>2. CASE CancelAccepted(o) /\ sender' = CancelledSource(o)
    <3>1. PICK n : sender \in SenderUpTo(n) /\ sender.main \in SourceUpTo(n) /\ sender.cand \in SourceUpTo(n)
      BY RefTypes, SenderKnown
    <3> QED BY <1>0, <2>2, <3>1, CancelledServes DEF CancelAccepted, CancelledSource, StateOf
  <2> QED BY <1>0, <2>1, <2>2
<1> QED BY <1>0, <1>1, <1>2, <1>3, SenderAfter

\* A source that stops sounding leaves its receiver quiet.
LEMMA Silences ==
  ASSUME RefInv, coord.enabled, coord'.enabled = coord.enabled, native'.hold = native.hold,
         native'.parked = native.parked, IsSounding(sender.main), ~IsSounding(sender'.main),
         Standings' = Standings, Revokeds' = Revokeds
  PROVE  Promised
<1>1. PICK t \in Targets : t = sender.main.tgt
  BY RefTypes DEF OwnOp, IsSounding
<1>2. /\ SoundsOn(t) /\ \A u \in Targets \ {t} : ~SoundsOn(u)
      /\ \A u \in Targets : ~SoundsOn(u)'
  BY <1>1 DEF SoundsOn, IsSounding
<1>3. native.hold[t] # 0 /\ native.hold[t] \in native.parked
  BY <1>2, RefTypes DEF HoldInv, SoundsParked
<1>4. Owners[t] = "radio" /\ Owners' = [Owners EXCEPT ![t] = "quiet"]
  <2>1. \A u \in Targets \ {t} : CustodyOwner(u)' = CustodyOwner(u)
    BY <1>2 DEF CustodyOwner
  <2>2. CustodyOwner(t) = "radio" /\ CustodyOwner(t)' = "quiet"
    BY <1>2, <1>3 DEF CustodyOwner
  <2>3. Owners' = [u \in Targets |-> IF u = t THEN "quiet" ELSE CustodyOwner(u)]
    BY <2>1, <2>2 DEF Owners
  <2> QED BY <1>1, <2>2, <2>3 DEF Owners
<1>5. Sounding' = {}
  BY DEF Sounding, IsSounding
<1>6. Custody!Silence(t)
  BY <1>4, <1>5 DEF Custody!Silence, Standings, Owners, Sounding, Revokeds
<1> QED BY <1>6, Seen DEF Custody!Operate

LEMMA StopCallMaps ==
  ASSUME RefInv, GateInv', coord.enabled, NEW o \in Op, StopCall(o) \/ VolumeCall(o), UNCHANGED <<coord, play, poll>>
  PROVE  RefInv' /\ Promised
<1>0. PICK n : sender \in SenderUpTo(n) /\ sender.main \in SourceUpTo(n) /\ sender.cand \in SourceUpTo(n)
  BY RefTypes, SenderKnown
<1>1. CASE StopCall(o)
  <2>0. /\ pc[o] = <<"stop", "call">> /\ UNCHANGED <<native, producerVars, cmd>>
        /\ sender' = sender \/ (StopAccepted(Incumbent(o)) /\ sender' = Stopped(o))
    BY <1>1 DEF StopCall, SenderCall, At
  <2>1. PICK x \in {<<"stop", "record">>, <<"done", "unknown">>} : Goes(o, x)
    BY <1>1 DEF StopCall, SenderCall, Goes, Goto, Unknown
  <2>2. MayGoOn(o) /\ ~EarlyAt(x)
    BY <2>0, <2>1 DEF MayGoOn, EarlyAt
  <2>3. CASE sender' = sender
    BY <2>0, <2>1, <2>2, <2>3, SenderRests, SenderAfter
  <2>4. CASE StopAccepted(Incumbent(o)) /\ sender' = Stopped(o)
    <3>1. sender'.main.phase = "drained" /\ sender'.main.src = sender.main.src /\ sender'.cand = sender.cand
      BY <1>0, <2>4 DEF Stopped, Drain, SenderUpTo, SourceUpTo
    <3>2. OwnOp' /\ \A p : NotStartable(p) => NotStartable(p)'
      BY <3>1, RefTypes DEF OwnOp, NotStartable, Startable
    <3>3. RefInv' /\ Standings' = Standings /\ Revokeds' = Revokeds /\ (OwnersStay => Promised)
      BY <2>0, <2>1, <2>2, <3>2, SenderAfter
    <3>4. CASE IsSounding(sender.main)
      BY <2>0, <3>1, <3>3, <3>4, Silences DEF IsSounding
    <3>5. CASE ~IsSounding(sender.main)
      BY <2>0, <3>1, <3>3, <3>5, SoundStays DEF IsSounding
    <3> QED BY <3>3, <3>4, <3>5
  <2> QED BY <2>0, <2>3, <2>4
<1>2. CASE VolumeCall(o)
  <2>0. /\ pc[o] = <<"volume", "call">> /\ UNCHANGED <<native, producerVars, cmd>>
        /\ sender' = sender \/ (VolumeAccepted(records[o].sender) /\ sender' = VolumeSet(o))
    BY <1>2 DEF VolumeCall, SenderCall, At
  <2>1. PICK x \in {<<"volume", "record">>, <<"done", "unknown">>} : Goes(o, x)
    BY <1>2 DEF VolumeCall, SenderCall, Goes, Goto, Unknown
  <2>2. ~EarlyAt(x)
    BY <2>0, <2>1 DEF EarlyAt
  <2>3. CASE sender' = sender
    BY <2>0, <2>1, <2>2, <2>3, SenderRests, SenderAfter
  <2>4. CASE VolumeAccepted(records[o].sender) /\ sender' = VolumeSet(o)
    <3>1. /\ sender'.main.phase = "playing" /\ sender'.main.src = sender.main.src /\ sender'.main.tgt = sender.main.tgt
          /\ sender'.cand = sender.cand /\ sender.main.phase = "playing"
      BY <1>0, <2>4 DEF VolumeSet, VolumeAccepted, SenderUpTo, SourceUpTo
    <3>2. OwnOp' /\ \A p : NotStartable(p) => NotStartable(p)'
      BY <3>1, RefTypes DEF OwnOp, NotStartable, Startable
    <3>3. OwnersStay
      BY <2>0, <3>1, SoundStays DEF IsSounding
    <3> QED BY <2>0, <2>1, <2>2, <3>2, <3>3, SenderAfter
  <2> QED BY <2>0, <2>3, <2>4
<1> QED BY <1>1, <1>2

LEMMA StartCallMaps ==
  ASSUME RefInv, GateInv', coord.enabled, NEW o \in Op, StartCall(o), UNCHANGED <<coord, play, poll>>
  PROVE  RefInv' /\ Promised
<1> DEFINE src == records[o].sender
           h == records[o].native
<1>0. /\ pc[o] = <<"start", "call">> /\ UNCHANGED <<native, producerVars, cmd>>
      /\ sender' = sender \/ (StartAccepted(src, h) /\ sender' = StartedSource(src))
  BY DEF StartCall, SenderCall, At
<1>1. PICK x \in {<<"start", "record">>, <<"done", "unknown">>} : Goes(o, x)
  BY DEF StartCall, SenderCall, Goes, Goto, Unknown
<1>2. MayGoOn(o) /\ ~EarlyAt(x)
  BY <1>0, <1>1 DEF MayGoOn, EarlyAt
<1>3. CASE sender' = sender
  BY <1>0, <1>1, <1>2, <1>3, SenderRests, SenderAfter
<1>4. CASE StartAccepted(src, h) /\ sender' = StartedSource(src)
  <2>1. PICK n : sender \in SenderUpTo(n) /\ sender.main \in SourceUpTo(n) /\ sender.cand \in SourceUpTo(n)
    BY RefTypes, SenderKnown
  <2>2. Starting(o) /\ HoldInv /\ Inv /\ RecordsAgree /\ ThreadsAgree /\ SourcesAgree /\ ReadyToSound
    BY <1>0, RefTypes, GateTypes DEF Starting, HoldInv
  <2>3. /\ src = o /\ Exists(o) /\ records[o].target \in Targets /\ h \in Op /\ h # 0 /\ ~SourceOperation(o)
    BY <2>2, StarterPlaced
  <2>4. PICK s \in {sender.main, sender.cand} :
          /\ s = StateOf(src) /\ s.src = o /\ s.phase = "bound"
          /\ sender.cand.src = src => sender.main.phase = "drained"
          /\ sender.cand.src # src => s = sender.main
    BY <1>4, <2>3 DEF StartAccepted, StateOf
  <2>5. ~IsSounding(sender.main)
    BY <2>4 DEF IsSounding
  <2>6. h \in native.parked /\ native.hold[records[o].target] = h /\ s.tgt = records[o].target
    BY <2>2, <2>3, <2>4, OpBasic DEF ReadyToSound, MayStart, Startable, SourcesAgree, Own
  <2>7. ~records[o].terminal
    BY <1>2, <2>3, <2>4, RefTypes DEF SettledKnow, SettledKnows, NotStartable, Startable
  <2>8. /\ sender'.main.phase = "starting" /\ sender'.main.src = o /\ sender'.main.tgt = records[o].target
        /\ sender'.cand = NoSource \/ sender'.cand = sender.cand
    BY <1>4, <2>1, <2>4, <2>6 DEF StartedSource, SenderUpTo, SourceUpTo
  <2>9. OwnOp' /\ \A p : NotStartable(p) => NotStartable(p)'
    BY <2>3, <2>8, RefTypes DEF OwnOp, NotStartable, Startable, NoSource
  <2>10. RefInv' /\ Standings' = Standings /\ Revokeds' = Revokeds
    BY <1>0, <1>1, <1>2, <2>9, SenderAfter
  <2>11. PICK t \in Targets : t = records[o].target
    BY <2>3
  <2>12. Owners[t] = "quiet" /\ Owners' = [Owners EXCEPT ![t] = "radio"]
    <3>1. (\A u : ~SoundsOn(u)) /\ SoundsOn(t)' /\ (\A u : u # t => ~SoundsOn(u)')
      BY <2>5, <2>8, <2>11 DEF SoundsOn, IsSounding
    <3>2. \A u \in Targets \ {t} : CustodyOwner(u)' = CustodyOwner(u)
      BY <1>0, <3>1 DEF CustodyOwner
    <3>3. CustodyOwner(t) = "quiet" /\ CustodyOwner(t)' = "radio"
      BY <2>3, <2>6, <2>11, <3>1 DEF CustodyOwner
    <3>4. Owners' = [u \in Targets |-> IF u = t THEN "radio" ELSE CustodyOwner(u)]
      BY <3>2, <3>3 DEF Owners
    <3> QED BY <2>11, <3>3, <3>4 DEF Owners
  <2>13. Sounding = {} /\ Sounding' = {o}
    BY <2>5, <2>8 DEF Sounding, IsSounding
  <2>14. Standings[o] \in {"open", "revoking"}
    BY <2>3, <2>7, Mapped DEF Standing, Exists
  <2>15. Custody!Sound(o, t)
    BY <1>0, <2>10, <2>12, <2>13, <2>14 DEF Custody!Sound, Custody!Unresolved, Standings, Owners, Sounding, Revokeds
  <2>16. Promised
    BY <2>11, <2>15, Seen DEF Custody!Operate
  <2> QED BY <2>10, <2>16
<1> QED BY <1>0, <1>3, <1>4

\* What is left to show of a call to Native.
LEMMA NativeAfter ==
  ASSUME RefInv, GateInv', coord.enabled, NEW o \in Op, NEW x, Goes(o, x),
         UNCHANGED <<sender, producerVars, cmd, coord, play, poll>>, native'.fresh = native.fresh,
         \A t \in Targets : native.hold[t] # 0 => native'.hold[t] = native.hold[t],
         \A k \in Op : native.phase[k] # "none" => native'.phase[k] # "none",
         \A k \in native'.parked : k \in native.parked \/ native'.phase[k] # "none",
         EarlyAt(x) => Early(o) /\ (Recorded(o)' => Recorded(o)),
         x[1] \in {"native", "sender", "fence", "stop", "suspend", "start"} => MayGoOn(o) \/ SourceOperation(o),
         x[1] # "reserve", x = <<"suspend", "call">> => records[o].native = o
  PROVE  /\ RefInv' /\ Standings' = Standings /\ Revokeds' = Revokeds
         /\ native'.hold = native.hold /\ native'.parked = native.parked => Promised
<1>1. ParkedAsked'
  BY ParkedStays
<1>2. OwnOp' /\ (\A p : NotStartable(p)' <=> NotStartable(p))
      /\ (native'.hold = native.hold /\ native'.parked = native.parked => OwnersStay)
  BY SenderRests
<1>3. RefInv' /\ Standings' = Standings /\ Revokeds' = Revokeds
  BY <1>1, <1>2, CallAfter DEF producerVars
<1> QED BY <1>2, <1>3, Unseen

LEMMA ReadRests ==
  ASSUME RefInv, NEW h, native' \in {native, ResultRead(h)}
  PROVE  /\ native'.hold = native.hold /\ native'.parked = native.parked /\ native'.fresh = native.fresh
         /\ \A k \in Op : native.phase[k] # "none" => native'.phase[k] # "none"
         /\ \A k \in native'.parked : k \in native.parked \/ native'.phase[k] # "none"
<1>1. native \in NativeType
  BY RefTypes
<1>2. CASE native' = native
  BY <1>2
<1>3. CASE native' = [native EXCEPT !.phase[h] = IF h \in native.parked THEN "suspended" ELSE "prepared"]
  BY <1>1, <1>3 DEF NativeType
<1> QED BY <1>2, <1>3 DEF ResultRead

\* A receiver is taken by an operation that is open.
LEMMA HeldMaps ==
  ASSUME RefInv, GateInv', coord.enabled, NEW o \in Op, pc[o] = <<"native", "call">>, ~SourceOperation(o),
         NEW x \in {<<"native", "record">>, <<"done", "unknown">>}, Goes(o, x),
         native' = Held(o, cmd[o].target), native.hold[cmd[o].target] = 0,
         UNCHANGED <<sender, producerVars, cmd, coord, play, poll>>
  PROVE  RefInv' /\ Promised
<1>0. /\ Inv /\ native \in NativeType /\ ThreadsAgree /\ HoldsAgree /\ ThreadsKnow /\ EarlyKept /\ ParkedAsked /\ SoundsParked
      /\ pc[o][1] = "native" /\ pc[o][1] \in Reserved
  BY RefTypes, GateTypes DEF Reserved, HoldInv
<1>1. Early(o) /\ Recorded(o) /\ MayGoOn(o) /\ Exists(o) /\ ~EarlyAt(x)
  BY <1>0, ReservedExists DEF Early, EarlyAt, Recorded, MayGoOn, Inv, Placed
<1>2. ~records[o].terminal /\ ~records[o].preempted
  BY <1>0, <1>1 DEF ThreadsKnow, ThreadKnows, Blank, EarlyKept
<1>3. native.phase[o] = "none" /\ o \notin native.parked /\ \A u \in Targets : native.hold[u] # o
  BY <1>0, <1>1, OpBasic DEF HoldsAgree, ParkedAsked, ActivePhase
<1>4. PICK t \in Targets : t = cmd[o].target /\ native.hold[t] = 0
  BY <1>0 DEF Inv, Placed
<1>5. /\ native'.hold = [native.hold EXCEPT ![t] = o] /\ native'.parked = native.parked /\ native'.fresh = native.fresh
      /\ \A k \in Op : native'.phase[k] = native.phase[k] \/ native'.phase[k] = "prepared"
  BY <1>0, <1>4 DEF Held, NativeType
<1>6. \A u \in Targets : native.hold[u] # 0 => native'.hold[u] = native.hold[u]
  BY <1>0, <1>4, <1>5 DEF NativeType
<1>7. RefInv' /\ Standings' = Standings /\ Revokeds' = Revokeds
  BY <1>0, <1>1, <1>5, <1>6, NativeAfter
<1>8. Owners' = Owners
  <2>1. \A u \in Targets : SoundsOn(u)' <=> SoundsOn(u)
    BY DEF SoundsOn
  <2>2. ~SoundsOn(t)
    BY <1>0, <1>4 DEF SoundsParked
  <2>3. native'.hold[t] = o /\ \A u \in Targets : u # t => native'.hold[u] = native.hold[u]
    BY <1>0, <1>4, <1>5 DEF NativeType
  <2>4. CustodyOwner(t)' = CustodyOwner(t)
    BY <1>3, <1>4, <1>5, <2>1, <2>2, <2>3 DEF CustodyOwner
  <2>5. \A u \in Targets : u # t => CustodyOwner(u)' = CustodyOwner(u)
    BY <1>5, <2>1, <2>3 DEF CustodyOwner
  <2>6. \A u \in Targets : CustodyOwner(u)' = CustodyOwner(u)
    BY <2>4, <2>5
  <2> QED BY <2>6 DEF Owners
<1>9. Sounding' = Sounding
  BY DEF Sounding
<1>10. Standings[o] = "open"
  BY <1>1, <1>2, Mapped DEF Standing, Exists
<1>11. Custody!Take(o, t)
  BY <1>3, <1>4, <1>5, <1>7, <1>8, <1>9, <1>10 DEF Custody!Take, Standings, Owners, Sounding, Revokeds
<1> QED BY <1>4, <1>7, <1>11, Seen DEF Custody!Operate

LEMMA NativeReserveMaps ==
  ASSUME RefInv, GateInv', coord.enabled, NEW o \in Op, NativeReserve(o), UNCHANGED <<coord, play, poll>>
  PROVE  RefInv' /\ Promised
<1> DEFINE t == cmd[o].target
<1>0. pc[o] = <<"native", "call">> /\ UNCHANGED <<sender, producerVars, cmd>> /\ MayGoOn(o)
  BY DEF NativeReserve, At, MayGoOn
<1>1. PICK x \in {<<"native", "record">>, <<"cancel", "journal">>, <<"done", "unknown">>} :
        /\ Goes(o, x)
        /\ \/ native' = native
           \/ native' = ResultRead(Reused(o))
           \/ /\ native' = Held(o, t) /\ native.hold[t] = 0 /\ ~SourceOperation(o)
              /\ x \in {<<"native", "record">>, <<"done", "unknown">>}
           \/ native' = Rejected(o)
  BY DEF NativeReserve, NativeCall, Goes, Goto, Unknown, Reservable
<1>2. ~EarlyAt(x)
  BY <1>1 DEF EarlyAt
<1>3. CASE native' \in {native, ResultRead(Reused(o))}
  BY <1>0, <1>1, <1>2, <1>3, ReadRests, NativeAfter
<1>4. CASE native' = Held(o, t) /\ native.hold[t] = 0 /\ ~SourceOperation(o) /\ x \in {<<"native", "record">>, <<"done", "unknown">>}
  BY <1>0, <1>1, <1>4, HeldMaps
<1>5. CASE native' = Rejected(o)
  <2>1. /\ native'.hold = native.hold /\ native'.parked = native.parked /\ native'.fresh = native.fresh
        /\ \A k \in Op : native'.phase[k] = native.phase[k] \/ native'.phase[k] = "rejected"
    BY <1>5, RefTypes DEF Rejected, NativeType
  <2> QED BY <1>0, <1>1, <1>2, <2>1, NativeAfter
<1> QED BY <1>1, <1>3, <1>4, <1>5

\* A hold that is suspended was reserved under an intent that is still the current one.
LEMMA SuspendMaps ==
  ASSUME RefInv, GateInv', coord.enabled, NEW o \in Op, SuspendRead(o) \/ SuspendCall(o) \/ StartRead(o),
         UNCHANGED <<coord, play, poll>>
  PROVE  RefInv' /\ Promised
<1> DEFINE h == records[o].native
<1>0. /\ pc[o][1] \in {"suspend", "start"} /\ UNCHANGED <<sender, producerVars, cmd>> /\ MayGoOn(o)
  <2>1. pc[o] \in {<<"suspend", "read">>, <<"suspend", "call">>, <<"start", "read">>}
    BY DEF SuspendRead, SuspendCall, StartRead, At
  <2>2. UNCHANGED <<sender, producerVars, cmd>>
    BY DEF SuspendRead, SuspendCall, StartRead
  <2> QED BY <2>1, <2>2 DEF MayGoOn
<1>1. PICK x \in {<<"suspend", "record">>, <<"suspend", "call">>, <<"start", "call">>, <<"done", "unknown">>} :
        /\ Goes(o, x)
        /\ \/ native' \in {native, ResultRead(h)}
           \/ pc[o] = <<"suspend", "call">> /\ Suspendable(o, h) /\ native' \in {Suspend(h)} \cup SuspendUncertain(h)
        /\ x = <<"suspend", "call">> =>
             /\ h # records[o].retained /\ (SameTarget(records[o]) => h # records[records[o].prior].native)
             /\ h # 0 \/ SameTarget(records[o])
  BY DEF SuspendRead, SuspendCall, StartRead, NativeCall, Goes, Goto, Unknown, At
<1>2. ~EarlyAt(x)
  BY <1>1 DEF EarlyAt
<1>20. /\ Inv /\ records[o] \in Record /\ ThreadsAgree /\ RecordsAgree /\ HoldsAgree /\ SoundsParked
       /\ native \in NativeType /\ pc \in PCType /\ JournalTyped
       /\ pc[o][1] \in Reserved /\ pc[o][1] \in Holding
  BY <1>0, RefTypes, GateTypes, HoldTypes DEF Reserved, Holding, HoldInv
<1>21. /\ ~SourceOperation(o) /\ o \in producer.live /\ RecordAgrees(o) /\ h \in Op /\ h # 0 /\ SettledKnows(o)
  <2>1. ~SourceOperation(o) /\ o \in producer.live
    BY <1>0, <1>20 DEF ThreadsAgree, ThreadAgrees, Recorded
  <2>2. h # 0
    BY <1>20 DEF Inv, Placed
  <2> QED BY <1>20, <2>1, <2>2, RefTypes, OpBasic DEF RecordsAgree, Record, SettledKnow
<1>22. x = <<"suspend", "call">> => h = o
  <2>1. OwnHold(o, records[o])
    BY <1>0, <1>21 DEF SettledKnows
  <2>2. ASSUME records[o].prior # 0, h = records[records[o].prior].native PROVE SameTarget(records[o])
    <3>1. records[o].prior \in producer.live
      BY <1>21, <2>2 DEF RecordAgrees
    <3>2. RecordAgrees(records[o].prior) /\ records[o].prior \in Op
      BY <1>20, <3>1, LiveExists DEF RecordsAgree
    <3> QED BY <1>21, <2>2, <3>2 DEF RecordAgrees, HoldFor, SameTarget
  <2> QED BY <1>1, <1>21, <2>1, <2>2 DEF OwnHold
<1>3. CASE native' \in {native, ResultRead(h)}
  <2>1. /\ native'.hold = native.hold /\ native'.parked = native.parked /\ native'.fresh = native.fresh
        /\ \A k \in Op : native.phase[k] # "none" => native'.phase[k] # "none"
        /\ \A k \in native'.parked : k \in native.parked \/ native'.phase[k] # "none"
    BY <1>3, ReadRests
  <2> QED BY <1>0, <1>1, <1>2, <1>22, <2>1, NativeAfter
<1>4. CASE pc[o] = <<"suspend", "call">> /\ Suspendable(o, h) /\ native' \in {Suspend(h)} \cup SuspendUncertain(h)
  <2>1. h = o /\ native.phase[h] = "prepared" /\ h \in native.fresh
    BY <1>4, <1>21 DEF Suspendable, SettledKnows
  <2>0. h \in Op /\ native \in NativeType
    BY <1>20, <1>21
  <2> HIDE DEF h
  <2>2. /\ native'.hold = native.hold /\ native'.fresh = native.fresh
        /\ native'.parked \in {native.parked, native.parked \cup {h}}
        /\ \A k \in Op : native'.phase[k] = native.phase[k] \/ native'.phase[k] \in {"suspended", "unknown"}
        /\ native'.phase[h] # "none"
    <3>1. \/ native' = [native EXCEPT !.phase[h] = "suspended", !.parked = native.parked \cup {h}]
          \/ native' = [native EXCEPT !.phase[h] = "unknown", !.parked = native.parked]
          \/ native' = [native EXCEPT !.phase[h] = "unknown", !.parked = native.parked \cup {h}]
      BY <1>4 DEF Suspend, SuspendUncertain
    <3> QED BY <2>0, <3>1 DEF NativeType
  <2>3. RefInv' /\ Standings' = Standings /\ Revokeds' = Revokeds /\ (native'.parked = native.parked => Promised)
    BY <1>0, <1>1, <1>2, <1>22, <2>1, <2>2, NativeAfter DEF h
  <2>4. PICK t \in Targets : native.hold[t] = h
    BY <1>20, <1>21, <2>1 DEF HoldsAgree, ActivePhase
  <2>5. h \notin Revokeds
    <3>1. \A p \in Op : IsRetired(records[p]) /\ records[p].native = h => FALSE
      BY <1>21, <2>1, RefTypes DEF Stale, IsRetired
    <3> QED BY <3>1, Mapped DEF Returnable
  <2>6. CASE native'.parked = native.parked
    BY <2>3, <2>6
  <2>7. CASE native'.parked = native.parked \cup {h} /\ h \notin native.parked
    <3>1. (\A u : SoundsOn(u)' <=> SoundsOn(u)) /\ ~SoundsOn(t)
      BY <1>0, <1>20, <2>4, <2>7 DEF SoundsOn, SoundsParked
    <3>2. \A u \in Targets : u # t => native.hold[u] # h
      BY <1>20, <1>21, <2>4 DEF HoldsAgree
    <3>3. \A u \in Targets \ {t} : CustodyOwner(u)' = CustodyOwner(u)
      BY <2>2, <2>7, <3>1, <3>2 DEF CustodyOwner
    <3>4. CustodyOwner(t) = "spotify" /\ CustodyOwner(t)' = "quiet"
      BY <1>21, <2>2, <2>4, <2>7, <3>1 DEF CustodyOwner
    <3>5. Owners' = [u \in Targets |-> IF u = t THEN "quiet" ELSE CustodyOwner(u)]
      BY <3>3, <3>4 DEF Owners
    <3>6. Owners[t] = "spotify" /\ Owners' = [Owners EXCEPT ![t] = "quiet"]
      BY <3>4, <3>5 DEF Owners
    <3>7. Sounding' = Sounding
      BY <1>0 DEF Sounding
    <3>8. Custody!Quiet(t)
      BY <1>21, <2>2, <2>3, <2>4, <2>5, <3>6, <3>7 DEF Custody!Quiet, Standings, Owners, Sounding, Revokeds
    <3> QED BY <2>3, <3>8, Seen DEF Custody!Operate
  <2>8. native'.parked \in {native.parked, native.parked \cup {h}} /\ (h \in native.parked => native.parked \cup {h} = native.parked)
    BY <2>2
  <2> QED BY <2>6, <2>7, <2>8
<1> QED BY <1>1, <1>3, <1>4

LEMMA FinishMaps ==
  ASSUME RefInv, GateInv', coord.enabled, NEW o \in Op, FinishWait(o) \/ FinishResult(o), UNCHANGED <<coord, play, poll>>
  PROVE  RefInv' /\ Promised
<1>1. PICK x : Goes(o, x) /\ x[1] \in {"finish", "done"} /\ x # <<"suspend", "call">>
  BY DEF FinishWait, FinishResult, Goes, Goto, Unknown
<1>2. UNCHANGED <<native, sender, producerVars, cmd>>
  BY DEF FinishWait, FinishResult, peerVars
<1>3. ~EarlyAt(x)
  BY <1>1 DEF EarlyAt
<1> QED BY <1>1, <1>2, <1>3, MoveAfter DEF producerVars

\* Every step of a thread is one the custody promises, or one it does not see.
LEMMA OperationStepMaps ==
  ASSUME RefInv, GateInv', coord.enabled, NEW o \in Op, OperationStep(o), UNCHANGED <<coord, play, poll>>
  PROVE  RefInv' /\ Promised
BY PreflightJournalMaps, PreflightCallMaps, PreflightWritesMap, ReserveJournalMaps, NativeReserveMaps,
   NativeRecordMaps, SenderReserveMaps, SenderRecordMaps, CancelWritesMap, CancelCallMaps, EffectWritesMap,
   StopCallMaps, StopRecordMaps, SuspendMaps, StartCallMaps, FinishMaps DEF OperationStep

LEMMA CoordinatorMaps ==
  ASSUME RefInv, GateInv', coord.enabled, NEW o \in Op, StillCurrent(o) \/ AdoptFence(o) \/ Complete(o)
  PROVE  RefInv' /\ Promised
<1>0. coord \in CoordType
  BY RefTypes, Readers
<1>1. UNCHANGED <<native, sender, records, disk, producer, cmd, play, poll>>
  BY DEF StillCurrent, AdoptFence, Complete, peerVars, producerVars, coordVars
<1>2. coord'.enabled = coord.enabled
  BY <1>0 DEF StillCurrent, AdoptFence, Complete, coordVars, CoordType
<1>3. CASE StillCurrent(o)
  <2>1. pc[o] = <<"reserve", "check">>
    BY <1>3 DEF StillCurrent, At
  <2>2. PICK x \in {<<"reserve", "journal">>, <<"done", "superseded">>} : Goes(o, x)
    BY <1>3 DEF StillCurrent, Goto, Goes
  <2>3. Early(o) /\ (~SourceOperation(o) => Recorded(o)) /\ (SourceOperation(o)' <=> SourceOperation(o))
    BY <1>1, <2>1 DEF Early, EarlyAt, Recorded, SourceOperation
  <2>4. pc'[o] = x
    BY <2>2, RefTypes DEF Goes, PCType
  <2>5. Recorded(o)' => Recorded(o)
    BY <2>2, <2>3, <2>4 DEF Recorded, Reserved
  <2> QED BY <1>1, <1>2, <2>1, <2>2, <2>3, <2>5, MoveAfter
<1>4. CASE AdoptFence(o)
  <2>1. pc[o] = <<"fence", "set">>
    BY <1>4 DEF AdoptFence, At
  <2>2. PICK x : x = <<Following(o, "fence"), "admit">> /\ Goes(o, x)
    BY <1>4 DEF AdoptFence, Proceed, Goto, Goes
  <2>3. x[1] \in {"volume", "stop", "suspend", "start", "finish"} /\ x # <<"suspend", "call">> /\ MayGoOn(o)
    BY <2>1, <2>2, FollowingAdmits DEF MayGoOn
  <2>4. ~EarlyAt(x)
    BY <2>3 DEF EarlyAt
  <2> QED BY <1>1, <1>2, <2>2, <2>3, <2>4, MoveAfter
<1>5. CASE Complete(o)
  <2>1. Goes(o, <<"over", "none">>)
    BY <1>5 DEF Complete, Goes
  <2> QED BY <1>1, <1>2, <2>1, MoveAfter DEF EarlyAt
<1> QED BY <1>3, <1>4, <1>5

LEMMA OperationMaps ==
  ASSUME RefInv, GateInv', NEW o \in Op, Operation(o)
  PROVE  RefInv' /\ Promised
<1>1. coord.enabled
  <2>1. pc[o][1] \notin {"idle", "over"}
    <3>1. CASE OperationStep(o)
      BY <3>1, RefTypes, OperationWrites DEF ThreadStep, Going
    <3>2. CASE StillCurrent(o) \/ AdoptFence(o) \/ Complete(o)
      BY <3>2 DEF StillCurrent, AdoptFence, Complete, At
    <3> QED BY <3>1, <3>2 DEF Operation
  <2> QED BY <2>1, RefTypes DEF OffIsQuiet
<1> QED BY <1>1, OperationStepMaps, CoordinatorMaps DEF Operation, coordVars

-----------------------------------------------------------------------------
(* The steps of the others *)

\* An operation that is not going to start its source.
Still(p) == ~MayGoOn(p) \/ SourceOperation(p) \/ NotStartable(p)

\* What a reader's step leaves as it was, or sets aside only once it is still.
Calmly ==
  /\ \A p \in Op : poll'.step = "settle" /\ poll'.fence = p => (poll.step = "settle" /\ poll.fence = p) \/ Still(p)'
  /\ \A p \in Op : Mutes(p)' => Mutes(p) \/ Still(p)'

LEMMA AsideAfter ==
  ASSUME RefInv, GateInv', UNCHANGED opVars, OffIsQuiet', DiskAhead', RetiredHeld', Named', Sourcing', Stale',
         ParkedAsked', PlayRetires', OwnOp', NamesKept, Calmly,
         \A p \in Op : /\ Kin(records'[p], records[p]) /\ records'[p].native \in {records[p].native, p}
                       /\ Exists(p)' => Exists(p)
                       /\ NotStartable(p) => NotStartable(p)'
                       /\ records'[p].preempted =>
                            records[p].preempted \/ ~(Recorded(p) /\ Early(p) /\ ~SourceOperation(p))
                       /\ records'[p].terminal => records[p].terminal \/ Still(p)'
  PROVE  RefInv'
<1>0. /\ pc' = pc /\ \A p \in Op : SourceOperation(p)' = SourceOperation(p) /\ (MayGoOn(p)' <=> MayGoOn(p))
      /\ \A p \in Op : (Early(p)' <=> Early(p)) /\ (Recorded(p)' <=> Recorded(p))
  BY DEF opVars, SourceOperation, MayGoOn, Early, Recorded
<1>1. EarlyKept'
  BY <1>0, RefTypes DEF EarlyKept
<1>2. ASSUME NEW p \in Op PROVE SettledKnows(p)'
  <2>1. CASE SourceOperation(p)
    BY <1>0, <2>1 DEF SettledKnows
  <2>2. CASE ~SourceOperation(p)
    <3>1. Still(p)' => ~MayGoOn(p) \/ NotStartable(p)'
      BY <1>0, <2>2 DEF Still
    <3>2. MayGoOn(p)' /\ records'[p].terminal => records[p].terminal \/ NotStartable(p)'
      BY <1>0, <3>1
    <3>3. poll'.step = "settle" /\ poll'.fence = p =>
            (poll.step = "settle" /\ poll.fence = p) \/ ~MayGoOn(p) \/ SourceOperation(p) \/ NotStartable(p)'
      BY <3>1 DEF Calmly
    <3>4. Mutes(p)' =>
            Mutes(p) \/ ~MayGoOn(p) \/ SourceOperation(p) \/ NotStartable(p)'
      BY <3>1 DEF Calmly
    <3>5. NotStartable(p) => NotStartable(p)'
      OBVIOUS
    <3> QED BY <1>0, <3>2, <3>3, <3>4, <3>5, SettledStays
  <2> QED BY <2>1, <2>2
<1> QED BY <1>1, <1>2, RefTogether DEF SettledKnow

\* What is left to show of a step that leaves threads and journals alone.
LEMMA RestAfter ==
  ASSUME RefInv, GateInv', UNCHANGED <<records, disk, producer, cmd, pc>>, OffIsQuiet', Stale', ParkedAsked',
         PlayRetires', OwnOp', Calmly,
         \A t \in Targets : native.hold[t] # 0 => native'.hold[t] = native.hold[t] \/ Returnable(native.hold[t]),
         \A p \in Op : NotStartable(p) => NotStartable(p)'
  PROVE  RefInv' /\ Standings' = Standings /\ Revokeds' = Revokeds
<1>1. /\ DiskAhead' /\ RetiredHeld' /\ Named' /\ Sourcing'
      /\ Standings' = Standings /\ Revokeds' = Revokeds
  BY JournalRests
<1>2. NamesKept /\ \A p \in Op : Kin(records'[p], records[p]) /\ (Exists(p)' <=> Exists(p))
  BY DEF NamesKept, Kin, Exists
<1>3. RefInv'
  BY <1>1, <1>2, AsideAfter DEF opVars
<1> QED BY <1>1, <1>3

\* What is left to show of a write by another than the record's own thread.
LEMMA KeepAfter ==
  ASSUME RefInv, GateInv', UNCHANGED opVars, coord.enabled, coord'.enabled = coord.enabled, NEW k \in Op, NEW r,
         Wrote(k, r), Purpose(k, r), ~Opening(k, r), sender' = sender, producer'.live = producer.live,
         native'.hold = native.hold, native'.parked = native.parked, native'.fresh = native.fresh,
         \A p \in Op : native.phase[p] # "none" => native'.phase[p] # "none",
         \A p \in Op : Kin(records'[p], records[p]) /\ records'[p].sender = records[p].sender,
         r.native \in {records[k].native, k}, Calmly, PlayRetires',
         play'.step # "idle" => play.step # "idle" /\ play'.hold = play.hold,
         r.preempted => records[k].preempted \/ ~(Recorded(k) /\ Early(k) /\ ~SourceOperation(k)),
         r.preempted /\ r.native # 0 =>
           (records[k].preempted /\ r.native = records[k].native) \/ r.native \notin native.fresh,
         r.terminal => records[k].terminal \/ Still(k),
         Retiring(k, r) => k \notin Sounding /\ \E t \in Targets : native.hold[t] = r.native /\ ~SoundsOn(t)
  PROVE  RefInv' /\ Promised
<1>1. DiskAhead' /\ RetiredHeld' /\ Named'
  BY JournalAhead
<1>2. NamesKept /\ (\A p \in Op : Exists(p) => Exists(p)')
  BY JournalsGo
<1>3. OwnOp' /\ (\A p : NotStartable(p)' <=> NotStartable(p)) /\ OwnersStay
  BY SenderRests
<1>4. \A p \in Op : \/ Twin(records'[p], records[p])
                    \/ p = k /\ Twin(records'[p], r)
  BY DEF Wrote
<1>5. Stale'
  <2>1. \A p \in Op : records'[p].preempted /\ records'[p].native # 0 =>
          (records[p].preempted /\ records'[p].native = records[p].native) \/ records'[p].native \notin native.fresh
    BY <1>4 DEF Twin
  <2> QED BY <2>1, StaleStays
<1>6. ParkedAsked'
  BY ParkedStays, RefTypes DEF ParkedAsked
<1>7. Sourcing'
  <2>1. \A p \in producer.live : p \in Op /\ records[p].sender \in OpOrNone
    BY RefTypes, HoldTypes DEF ProducerType, JournalTyped, Record
  <2> QED BY <1>2, <2>1, RefTypes, OpBasic DEF Sourcing, Exists
<1>8. \A p \in Op : Still(p)' <=> Still(p)
  BY <1>3 DEF Still, opVars, MayGoOn, SourceOperation
<1>9. \A p \in Op : /\ Exists(p)' => Exists(p)
                    /\ records'[p].native \in {records[p].native, p}
                    /\ records'[p].preempted => records[p].preempted \/ ~(Recorded(p) /\ Early(p) /\ ~SourceOperation(p))
                    /\ records'[p].terminal => records[p].terminal \/ Still(p)'
  <2>1. Exists(k)
    BY DEF Purpose, Settling, Naming, Revoking, Retiring
  <2> QED BY <1>4, <1>8, <2>1 DEF Twin, Exists
<1>10. OffIsQuiet'
  BY DEF OffIsQuiet
<1>11. RefInv'
  BY <1>1, <1>2, <1>3, <1>5, <1>6, <1>7, <1>9, <1>10, AsideAfter
<1>12. Promised
  BY <1>3, JournalMaps
<1> QED BY <1>11, <1>12

\* The callback and the polls are as they were.
LEMMA CalmStays ==
  ASSUME UNCHANGED <<records, play, poll>>
  PROVE  Calmly
BY DEF Calmly, Mutes

LEMMA SenderMaps ==
  ASSUME RefInv, GateInv', Sounds \/ Expires
  PROVE  RefInv' /\ Promised
<1>0. PICK n : sender \in SenderUpTo(n) /\ sender.main \in SourceUpTo(n) /\ sender.cand \in SourceUpTo(n)
  BY RefTypes, SenderKnown
<1>1. UNCHANGED <<native, records, disk, producer, cmd, pc, coord, play, poll>>
  BY DEF Sounds, Expires, producerVars, opVars, coordVars
<1>2. Stale' /\ ParkedAsked' /\ Calmly
  BY <1>1, RefTypes, CalmStays DEF Stale, ParkedAsked
<1>3. PlayRetires'
  <2>1. \A h : Returnable(h) => Returnable(h)'
    BY <1>1 DEF Returnable
  <2> QED BY <1>1, <2>1, PlayRetiresStays
<1>4. OffIsQuiet' /\ OwnOp' /\ OwnersStay /\ \A p : NotStartable(p) => NotStartable(p)'
  <2>1. CASE Sounds
    <3>1. /\ sender'.cand = sender.cand /\ sender'.main.src = sender.main.src /\ sender'.main.tgt = sender.main.tgt
          /\ sender'.main.phase = "playing" /\ sender.main.phase = "starting"
      BY <1>0, <2>1 DEF Sounds, SenderUpTo, SourceUpTo
    <3>2. OwnOp' /\ \A p : NotStartable(p) => NotStartable(p)'
      BY <3>1, RefTypes DEF OwnOp, NotStartable, Startable
    <3>3. OwnersStay
      BY <1>1, <3>1, SoundStays DEF IsSounding
    <3>4. OffIsQuiet'
      BY <1>1, <3>1, RefTypes DEF OffIsQuiet
    <3> QED BY <3>2, <3>3, <3>4
  <2>2. CASE Expires
    <3>1. \/ sender.main.phase = "prepared" /\ sender' = [sender EXCEPT !.main.phase = "cancelled"]
          \/ sender' = [sender EXCEPT !.cand.phase = "cancelled"]
      BY <2>2 DEF Expires
    <3>2. OwnOp' /\ OwnersStay /\ \A p : NotStartable(p) => NotStartable(p)'
      BY <1>0, <1>1, <3>1, CancelledServes
    <3>3. OffIsQuiet'
      <4>1. sender.main.phase = "prepared" \/ sender'.main = sender.main
        BY <1>0, <3>1 DEF SenderUpTo
      <4> QED BY <1>1, <4>1, RefTypes DEF OffIsQuiet
    <3> QED BY <3>2, <3>3
  <2> QED BY <2>1, <2>2
<1>5. RefInv' /\ Standings' = Standings /\ Revokeds' = Revokeds
  BY <1>1, <1>2, <1>3, <1>4, RestAfter
<1> QED BY <1>1, <1>4, <1>5, Unseen

\* An explicit play makes every captured intent stale; no record is touched yet.
LEMMA ExplicitPlayMaps ==
  ASSUME RefInv, GateInv', NEW t \in Targets, ExplicitPlay(t)
  PROVE  RefInv' /\ Promised
<1> DEFINE h == native.hold[t]
<1>0. native \in NativeType /\ coord.enabled /\ play \in PlayType /\ h \in OpOrNone
  BY RefTypes, Readers DEF ExplicitPlay, NativeType
<1>1. UNCHANGED <<sender, records, disk, producer, cmd, pc, coord, poll>> /\ play.step = "idle"
  BY DEF ExplicitPlay, producerVars, opVars
<1>2. /\ native'.hold = native.hold /\ native'.parked = native.parked /\ native'.fresh = {}
      /\ \A p \in Op : native.phase[p] # "none" => native'.phase[p] # "none"
      /\ \/ play'.step = "idle"
         \/ /\ play'.step = "journal" /\ play'.hold = h /\ play'.target = t
            /\ h \in Op /\ native.phase[h] # "none"
  <2>1. CASE h # 0 /\ Reacquirable(h)
    <3>1. native' = [[native EXCEPT !.phase[h] = "reacquiring"] EXCEPT !.fresh = {}]
      BY <2>1 DEF ExplicitPlay, Intend, Reacquiring
    <3>2. play' = [step |-> "journal", id |-> play.id + 1, target |-> t, hold |-> h, key |-> 0]
      BY <2>1 DEF ExplicitPlay
    <3>3. native.phase[h] # "none" /\ h \in Op
      BY <1>0, <2>1, OpBasic DEF Reacquirable
    <3> HIDE DEF h
    <3> QED BY <1>0, <3>1, <3>2, <3>3 DEF NativeType
  <2>2. CASE ~(h # 0 /\ Reacquirable(h))
    <3>1. native' = [native EXCEPT !.fresh = {}] /\ play' = [play EXCEPT !.id = @ + 1]
      BY <2>2 DEF ExplicitPlay, Intend
    <3> QED BY <1>0, <1>1, <3>1 DEF NativeType, PlayType
  <2> QED BY <2>1, <2>2
<1>3. Stale' /\ ParkedAsked' /\ OffIsQuiet' /\ Calmly
  <2>1. Stale' /\ OffIsQuiet'
    BY <1>0, <1>1, <1>2 DEF Stale, OffIsQuiet
  <2>2. ParkedAsked'
    BY <1>2, ParkedStays, RefTypes DEF ParkedAsked
  <2>3. Calmly
    BY <1>1, <1>2 DEF Calmly, Mutes
  <2> QED BY <2>1, <2>2, <2>3
<1>4. PlayRetires'
  BY <1>2 DEF PlayRetires
<1>5. OwnOp' /\ (\A p : NotStartable(p)' <=> NotStartable(p)) /\ OwnersStay
  BY <1>1, <1>2, SenderRests
<1>6. RefInv' /\ Standings' = Standings /\ Revokeds' = Revokeds
  BY <1>1, <1>2, <1>3, <1>4, <1>5, RestAfter
<1> QED BY <1>1, <1>5, <1>6, Unseen

-----------------------------------------------------------------------------
(* The steps of a preemption *)

\* What a step of the callback keeps of what it knows, unless it retires the record.
LEMMA CallbackRetires ==
  ASSUME RefInv, play.step # "idle", play'.step # "idle", play'.hold = play.hold, play'.target = play.target,
         native'.hold = native.hold,
         play'.step \in {"recover", "drain", "record"} => ~records'[play'.key].terminal,
         play'.step \in {"observe", "commit"} => \E p \in Op : IsRetired(records'[p]) /\ records'[p].native = play.hold
  PROVE  PlayRetires'
BY RefTypes DEF PlayRetires, Returnable

\* The fence of the newest record of the hold.
LEMMA PreemptJournalMaps ==
  ASSUME RefInv, GateInv', PreemptJournal
  PROVE  RefInv' /\ Promised
<1> DEFINE found == Holders(play.hold, play.target)
           key == Newest(found)
           r == [records[key] EXCEPT !.preempted = TRUE, !.play = play.id, !.terminal = FALSE,
                                     !.stage = "preempt-drain-attempted"]
           s == IF records[key].native = 0 THEN "recover" ELSE "drain"
<1>0. /\ Inv /\ GateInv /\ play.step = "journal" /\ play \in PlayType /\ UNCHANGED <<native, sender, opVars, coord, poll>>
  BY RefTypes, Readers DEF PreemptJournal, peerVars, coordVars
<1>1. coord.enabled /\ OffIsQuiet' /\ Stale
  BY <1>0, RefTypes DEF OffIsQuiet
<1>2. \/ play' = [play EXCEPT !.step = "refused"] /\ UNCHANGED producerVars
      \/ /\ found # {} /\ UNCHANGED producer /\ ~records[key].preempted
         /\ \/ Stored(key, r) /\ play' = [play EXCEPT !.key = key, !.step = s]
            \/ StoreFailed(key, r) /\ play' = [play EXCEPT !.key = key, !.step = "refused"]
  BY DEF PreemptJournal, Write, PlayStep
<1>3. CASE play' = [play EXCEPT !.step = "refused"] /\ UNCHANGED producerVars
  <2>1. play'.step = "refused" /\ play'.hold = play.hold /\ play'.target = play.target
    BY <1>0, <1>3 DEF PlayType
  <2>2. Stale' /\ ParkedAsked' /\ Calmly
    BY <1>0, <2>1, <1>3, RefTypes DEF Stale, ParkedAsked, Calmly, Mutes, producerVars
  <2>3. PlayRetires'
    BY <1>0, <2>1, CallbackRetires
  <2>4. OwnOp' /\ (\A p : NotStartable(p)' <=> NotStartable(p)) /\ OwnersStay
    BY <1>0, SenderRests
  <2>5. RefInv' /\ Standings' = Standings /\ Revokeds' = Revokeds
    BY <1>0, <1>1, <1>3, <2>2, <2>3, <2>4, RestAfter DEF producerVars, opVars
  <2> QED BY <1>0, <2>4, <2>5, Unseen
<1>4. CASE /\ found # {} /\ UNCHANGED producer /\ ~records[key].preempted
           /\ \/ Stored(key, r) /\ play' = [play EXCEPT !.key = key, !.step = s]
              \/ StoreFailed(key, r) /\ play' = [play EXCEPT !.key = key, !.step = "refused"]
  <2>1. key \in Op /\ Exists(key) /\ HoldOf(key) = play.hold /\ records[key] \in Record
    <3>1. found \subseteq Op /\ \A o \in found : o \in producer.live /\ Exists(o) /\ HoldOf(o) = play.hold
      BY <1>0, HoldTypes DEF Holders, ProducerType
    <3>2. key \in found
      BY <1>4, <3>1, Greatest
    <3> QED BY <1>0, <3>1, <3>2, HoldTypes
  <2> HIDE DEF found, key
  <2>2. /\ r.preempted /\ ~r.terminal /\ r.stage # "none" /\ r.native = records[key].native
        /\ r.sender = records[key].sender /\ Kin(r, records[key])
    <3>1. r.preempted = TRUE /\ r.terminal = FALSE
      BY <2>1 DEF Record
    <3> QED BY <2>1, <3>1 DEF Record, Kin
  <2>3. s \in {"recover", "drain"}
    OBVIOUS
  <2> HIDE DEF r, s
  <2>4. Revoking(key, r) /\ Purpose(key, r) /\ ~Opening(key, r) /\ ~Retiring(key, r)
    BY <1>4, <2>1, <2>2 DEF Revoking, Purpose, Opening, Retiring
  <2>5. /\ Wrote(key, r) /\ \A p \in Op \ {key} : records'[p] = records[p]
        /\ records'[key] = records[key] \/ records'[key] = r
    BY <1>4, <2>1, JournaledWrote DEF Journaled
  <2>6. \A p \in Op : Kin(records'[p], records[p]) /\ records'[p].sender = records[p].sender
    <3>1. \A p \in Op : records'[p] = records[p] \/ (p = key /\ records'[p] = r)
      BY <2>5
    <3> QED BY <2>2, <3>1 DEF Kin
  <2>7. /\ play'.step \in {"recover", "drain", "refused"} /\ play'.hold = play.hold /\ play'.target = play.target
        /\ play'.step # "refused" => play'.key = key /\ records'[key] = r
    <3>1. Stored(key, r) => records'[key] = r
      BY <2>1, RefTypes DEF Stored, JournalTyped
    <3> QED BY <1>0, <1>4, <2>3, <3>1 DEF PlayType
  <2>8. PlayRetires'
    BY <1>0, <2>2, <2>7, CallbackRetires
  <2>9. Calmly
    BY <1>0, <2>7 DEF Calmly, Mutes
  <2>10. ~(Recorded(key) /\ Early(key) /\ ~SourceOperation(key))
    BY <1>0, <2>1, HeldIsLate
  <2>11. r.native # 0 => r.native \notin native.fresh
    BY <1>0, <1>1, <2>1, <2>2 DEF HoldOf, Stale
  <2> QED BY <1>0, <1>1, <1>4, <2>1, <2>2, <2>4, <2>5, <2>6, <2>7, <2>8, <2>9, <2>10, <2>11, KeepAfter
<1> QED BY <1>2, <1>3, <1>4

\* The hold that was never recorded is the record's own.
LEMMA PreemptRecoverMaps ==
  ASSUME RefInv, GateInv', PreemptRecover
  PROVE  RefInv' /\ Promised
<1>k. PICK key : key = play.key
  OBVIOUS
<1> DEFINE r == [records[key] EXCEPT !.native = play.hold]
<1>0. /\ Inv /\ GateInv /\ play.step = "recover" /\ play \in PlayType /\ UNCHANGED <<native, sender, opVars, coord, poll>>
  BY RefTypes, Readers DEF PreemptRecover, peerVars, coordVars
<1>1. coord.enabled /\ OffIsQuiet' /\ Stale
  BY <1>0, RefTypes DEF OffIsQuiet
<1>2. /\ records[key].preempted /\ ~records[key].terminal /\ HoldOf(key) = play.hold /\ play.hold \in Op
      /\ key \in Op /\ Exists(key) /\ records[key] \in Record
  BY <1>k, <1>0, RefTypes, GateTypes, HoldTypes DEF PlayKnows, Inv, PlayPlaced, PlayRetires
<1>3. PICK z \in {"drain", "refused"} :
        /\ play' = [play EXCEPT !.step = z]
        /\ producer' = producer
        /\ \/ Journaled(key, r) /\ (z = "drain" => Stored(key, r))
           \/ UNCHANGED producerVars /\ z = "refused"
  BY <1>k DEF PreemptRecover, Write, Journaled, PlayStep, producerVars
<1>4. play'.step = z /\ play'.hold = play.hold /\ play'.key = key /\ play'.target = play.target
  BY <1>k, <1>0, <1>3 DEF PlayType
<1>5. /\ r.native = play.hold /\ r.stage = records[key].stage /\ r.sender = records[key].sender
      /\ Kin(r, records[key]) /\ r.terminal = records[key].terminal /\ r.preempted = records[key].preempted
  BY <1>2 DEF Record, Kin
<1> HIDE DEF r
<1>6. Calmly
  BY <1>0, <1>4 DEF Calmly, Mutes
<1>7. OwnOp' /\ (\A p : NotStartable(p)' <=> NotStartable(p)) /\ OwnersStay
  BY <1>0, SenderRests
<1>8. CASE UNCHANGED producerVars /\ z = "refused"
  <2>1. Stale' /\ ParkedAsked' /\ PlayRetires'
    BY <1>0, <1>4, <1>8, RefTypes, CallbackRetires DEF Stale, ParkedAsked, producerVars
  <2>2. RefInv' /\ Standings' = Standings /\ Revokeds' = Revokeds
    BY <1>0, <1>1, <1>6, <1>7, <1>8, <2>1, RestAfter DEF producerVars, opVars
  <2> QED BY <1>0, <1>7, <2>2, Unseen
<1>9. CASE Journaled(key, r) /\ (z = "drain" => Stored(key, r))
  <2>1. /\ Wrote(key, r) /\ \A p \in Op \ {key} : records'[p] = records[p]
        /\ records'[key] = records[key] \/ records'[key] = r
    BY <1>2, <1>9, JournaledWrote
  <2>2. \A p \in Op : Kin(records'[p], records[p]) /\ records'[p].sender = records[p].sender
    <3>1. \A p \in Op : records'[p] = records[p] \/ (p = key /\ records'[p] = r)
      BY <2>1
    <3> QED BY <1>5, <3>1 DEF Kin
  <2>3. ~records'[key].terminal
    BY <1>2, <1>5, <2>1
  <2>4. PlayRetires'
    BY <1>0, <1>4, <2>3, CallbackRetires
  <2>5. r.native \in {records[key].native, key} /\ records[key].native \in {0, r.native} /\ Exists(r.native)
    <3>1. CASE records[key].native = 0
      BY <1>2, <1>5, <3>1 DEF HoldOf
    <3>2. CASE records[key].native # 0
      BY <1>2, <1>5, <3>2, RefTypes DEF HoldOf, Named
    <3> QED BY <3>1, <3>2
  <2>6. Naming(key, r) /\ Purpose(key, r) /\ ~Opening(key, r) /\ ~Retiring(key, r)
    BY <1>2, <1>5, <2>5 DEF Naming, Purpose, Opening, Retiring, IsRetired, Exists
  <2>7. r.native \notin native.fresh
    BY <1>0, <1>1, <1>5 DEF Stale
  <2> QED BY <1>0, <1>1, <1>2, <1>3, <1>4, <1>5, <1>6, <2>1, <2>2, <2>4, <2>5, <2>6, <2>7, KeepAfter
<1> QED BY <1>3, <1>8, <1>9

\* A challenge drains what it names, and what is prepared beside it on the same receiver is cancelled.
LEMMA ChallengedServes ==
  ASSUME RefInv, NEW src, NEW t, NEW h, NEW i, sender' = Challenged(src, t, h, i)
  PROVE  /\ OwnOp' /\ \A p : NotStartable(p) => NotStartable(p)'
         /\ sender.main.src = src => sender'.main.phase = "drained"
         /\ sender.main.src # src => sender'.main = sender.main
         /\ sender'.main.src = sender.main.src /\ sender'.main.tgt = sender.main.tgt
         /\ sender'.cand.src = sender.cand.src
         /\ sender.cand.tgt = t => ~Startable(sender'.cand)
<1>0. PICK n : sender \in SenderUpTo(n) /\ sender.main \in SourceUpTo(n) /\ sender.cand \in SourceUpTo(n)
  BY RefTypes, SenderKnown
<1>1. /\ sender'.main.src = sender.main.src /\ sender'.main.tgt = sender.main.tgt
      /\ sender'.cand.src = sender.cand.src /\ sender'.cand.tgt = sender.cand.tgt
      /\ sender.main.src = src => sender'.main.phase = "drained"
      /\ sender.main.src # src => sender'.main = sender.main
      /\ sender.cand.tgt = t => ~Startable(sender'.cand)
  BY RefTypes, ChallengedCalm
<1>2. sender'.cand.op = sender.cand.op /\ (sender'.cand.phase = sender.cand.phase \/ sender'.cand.phase = "cancelled")
  <2> DEFINE cancelled == IF CandidatePresent /\ sender.cand.tgt = t
                          THEN [sender EXCEPT !.cand.phase = "cancelled"] ELSE sender
             signed == [cancelled EXCEPT !.signed = @ \cup {i}]
             drained == [sender.main EXCEPT !.phase = "drained", !.hold = h, !.relinquished = TRUE]
  <2>1. /\ cancelled.cand.op = sender.cand.op /\ DOMAIN cancelled = DOMAIN sender
        /\ cancelled.cand.phase = sender.cand.phase \/ cancelled.cand.phase = "cancelled"
    BY <1>0 DEF SenderUpTo, SourceUpTo
  <2>2. signed.cand = cancelled.cand /\ DOMAIN signed = DOMAIN sender
    BY <1>0, <2>1 DEF SenderUpTo
  <2>3. sender' = IF sender.main.src = src THEN Drain(signed, drained) ELSE [signed EXCEPT !.drains[t].relinquished = TRUE]
    BY DEF Challenged
  <2>4. {"main", "cand", "drains"} \subseteq DOMAIN sender
    BY <1>0 DEF SenderUpTo
  <2> HIDE DEF cancelled, signed, drained
  <2>5. sender'.cand = cancelled.cand
    BY <2>2, <2>3, <2>4 DEF Drain
  <2> QED BY <2>1, <2>5
<1>3. OwnOp'
  <2>1. sender'.main = sender.main \/ sender'.main.phase = "drained"
    BY <1>1
  <2> QED BY <1>1, <1>2, <2>1, RefTypes DEF OwnOp, Startable
<1>4. \A p : NotStartable(p) => NotStartable(p)'
  <2>1. sender'.main = sender.main \/ ~Startable(sender'.main)
    BY <1>1 DEF Startable
  <2>2. Startable(sender'.cand) => Startable(sender.cand)
    BY <1>2 DEF Startable
  <2> QED BY <1>1, <2>1, <2>2 DEF NotStartable
<1> QED BY <1>1, <1>3, <1>4

\* What the record of a preemption asks the sender for.
Asked == IF records[play.key].sender # 0 THEN records[play.key].sender ELSE records[play.key].peer

\* After the challenge no source of the record, or for the receiver, may still be started.
LEMMA DrainCalms ==
  ASSUME RefInv, NEW key, key = play.key, NEW t, t = play.target, NEW src, src = Asked, NEW h, NEW i,
         play.step = "drain", play'.key = key, play'.target = t, UNCHANGED <<records, cmd, pc, poll>>,
         ChallengeAccepted(src, t, h), sender' = Challenged(src, t, h, i)
  PROVE  /\ Calmly
         /\ sender.main.src # src => sender.cand.src # src /\ (sender.main.tgt = t => sender.main.phase = "drained")
<1>0. /\ GateInv /\ Inv /\ SourcesAgree /\ LiveKnows /\ PlayKnows /\ SettledKnow
  BY RefTypes, GateTypes
<1>1. \/ sender.main.src = src /\ sender.cand.src # src
      \/ /\ sender.main.src # src /\ sender.cand.src # src
         /\ sender.main.tgt = t => sender.main.phase = "drained"
  BY DEF ChallengeAccepted, Archived
<1>2. /\ sender.main.src = src => sender'.main.phase = "drained"
      /\ sender.main.src # src => sender'.main = sender.main
      /\ sender'.main.src = sender.main.src /\ sender'.main.tgt = sender.main.tgt
      /\ sender'.cand.src = sender.cand.src
      /\ sender.cand.tgt = t => ~Startable(sender'.cand)
  BY ChallengedServes
<1>3. ASSUME NEW p \in Op, p = key \/ records[p].target = t, MayGoOn(p), ~SourceOperation(p)
      PROVE  NotStartable(p)'
  <2>1. CASE records[p].target = t
    <3>1. /\ sender.main.src = p => sender.main.tgt = t
          /\ sender.cand.src = p => sender.cand.tgt = t
      BY <1>0, <2>1, OpBasic DEF SourcesAgree, Own
    <3> QED BY <1>1, <1>2, <3>1 DEF NotStartable, Startable
  <2>2. CASE p = key
    <3>1. records[p].peer = p
      BY <1>0, <1>3 DEF SettledKnow, SettledKnows
    <3>2. records[p].sender \in {0, p}
      BY <1>0, <1>3, <2>2 DEF PlayKnows, LiveKnows, LiveKnown
    <3>3. src = p
      BY <2>2, <3>1, <3>2 DEF Asked
    <3> QED BY <1>1, <1>2, <3>3 DEF NotStartable, Startable
  <2> QED BY <1>3, <2>1, <2>2
<1>4. \A p \in Op : Mutes(p)' => p = key \/ records[p].target = t
  BY DEF Mutes
<1>5. \A p \in Op : (MayGoOn(p)' <=> MayGoOn(p)) /\ (SourceOperation(p)' <=> SourceOperation(p))
  BY DEF MayGoOn, SourceOperation
<1>6. \A p \in Op : Mutes(p)' => Still(p)'
  BY <1>3, <1>4, <1>5 DEF Still
<1> QED BY <1>1, <1>6 DEF Calmly

\* The source of the record is drained, whether or not the answer arrives.
LEMMA PreemptDrainMaps ==
  ASSUME RefInv, GateInv', PreemptDrain
  PROVE  RefInv' /\ Promised /\ (play'.step = "record" => \A u : u = play'.target => ~SoundsOn(u)')
<1>k. PICK key, src, t, h, i : key = play.key /\ src = Asked /\ t = play.target /\ h = records[key].native /\ i = play.id
  OBVIOUS
<1>0. /\ play.step = "drain" /\ play \in PlayType /\ UNCHANGED <<native, records, disk, producer, cmd, pc, coord, poll>>
  BY RefTypes, Readers DEF PreemptDrain, coordVars, opVars, producerVars
<1>1. coord.enabled /\ OffIsQuiet
  BY <1>0, RefTypes DEF OffIsQuiet
<1>2. \/ /\ play' = [play EXCEPT !.step = "refused"] /\ sender' = sender
      \/ \E s \in {"refused", "record"} :
           /\ play' = [play EXCEPT !.step = s]
           /\ ChallengeAccepted(src, t, h) /\ sender' = Challenged(src, t, h, i)
  BY <1>k DEF PreemptDrain, SenderCall, PlayStep, Asked
<1>3. PICK z \in {"refused", "record"} :
        /\ play' = [play EXCEPT !.step = z]
        /\ \/ z = "refused" /\ sender' = sender
           \/ ChallengeAccepted(src, t, h) /\ sender' = Challenged(src, t, h, i)
  BY <1>2
<1>4. play'.step = z /\ play'.hold = play.hold /\ play'.key = key /\ play'.target = t
  BY <1>k, <1>0, <1>3 DEF PlayType
<1>5. ~records[key].terminal
  BY <1>k, <1>0, RefTypes DEF PlayRetires
<1>6. PlayRetires'
  BY <1>k, <1>0, <1>4, <1>5, CallbackRetires
<1>7. Stale' /\ ParkedAsked' /\ OffIsQuiet'
  BY <1>0, <1>1, <1>4, RefTypes DEF Stale, ParkedAsked, OffIsQuiet
<1>8. CASE z = "refused" /\ sender' = sender
  <2>1. OwnOp' /\ (\A p : NotStartable(p)' <=> NotStartable(p)) /\ OwnersStay
    BY <1>0, <1>8, SenderRests
  <2>2. Calmly
    BY <1>0, <1>4, <1>8 DEF Calmly, Mutes
  <2>3. RefInv' /\ Standings' = Standings /\ Revokeds' = Revokeds
    BY <1>0, <1>6, <1>7, <2>1, <2>2, RestAfter
  <2> QED BY <1>0, <1>4, <1>8, <2>1, <2>3, Unseen
<1>9. CASE ChallengeAccepted(src, t, h) /\ sender' = Challenged(src, t, h, i)
  <2>1. /\ OwnOp' /\ \A p : NotStartable(p) => NotStartable(p)'
        /\ sender.main.src = src => sender'.main.phase = "drained"
        /\ sender.main.src # src => sender'.main = sender.main
        /\ sender'.main.src = sender.main.src /\ sender'.main.tgt = sender.main.tgt
    BY <1>9, ChallengedServes
  <2>2. /\ Calmly
        /\ sender.main.src # src => sender.cand.src # src /\ (sender.main.tgt = t => sender.main.phase = "drained")
    BY <1>k, <1>0, <1>4, <1>9, DrainCalms
  <2>3. RefInv' /\ Standings' = Standings /\ Revokeds' = Revokeds
    BY <1>0, <1>6, <1>7, <2>1, <2>2, RestAfter
  <2>4. Promised
    <3>1. CASE IsSounding(sender.main) /\ ~IsSounding(sender'.main)
      BY <1>0, <1>1, <2>3, <3>1, Silences
    <3>2. CASE ~(IsSounding(sender.main) /\ ~IsSounding(sender'.main))
      <4>1. IsSounding(sender'.main) => IsSounding(sender.main)
        BY <2>1 DEF IsSounding
      <4>2. OwnersStay
        BY <1>0, <2>1, <3>2, <4>1, SoundStays
      <4> QED BY <1>0, <2>3, <4>2, Unseen
    <3> QED BY <3>1, <3>2
  <2>5. \A u : u = play'.target => ~SoundsOn(u)'
    <3>1. \A u : SoundsOn(u)' => sender'.main.tgt = u /\ sender'.main.phase # "drained"
      BY DEF SoundsOn
    <3> QED BY <1>4, <2>1, <2>2, <3>1
  <2> QED BY <2>3, <2>4, <2>5
<1> QED BY <1>3, <1>8, <1>9

\* A hold that an explicit play asked for is not lost, and what its preemption drained stays silent.
Muted ==
  /\ play.step # "idle" => native.phase[play.hold] # "lost"
  /\ play.step = "record" => ~SoundsOn(play.target)

\* The record that is retired ran on the receiver that is returned.
LEMMA KeyPlaced ==
  ASSUME RefInv, Muted, play.step \in {"drain", "record"}
  PROVE  /\ play.hold \in Op /\ play.target \in Targets /\ native.hold[play.target] = play.hold
         /\ play.key \in Op /\ Exists(play.key) /\ records[play.key] \in Record
         /\ records[play.key].preempted /\ ~records[play.key].terminal /\ records[play.key].native = play.hold
         /\ records[play.key].target = play.target
<1>1. /\ PlayKnows /\ PlayPlaced /\ PlayAgrees /\ PlayRetires /\ RecordsAgree /\ HoldsAgree
      /\ records \in [Op -> Record]
  BY RefTypes, GateTypes, HoldTypes DEF Inv
<1>2. /\ play.hold \in Op /\ play.target \in Targets /\ native.hold[play.target] = play.hold
      /\ play.key \in Op /\ Exists(play.key) /\ records[play.key] \in Record /\ play.key \in producer.live
      /\ records[play.key].preempted /\ ~records[play.key].terminal /\ records[play.key].native = play.hold
  BY <1>1 DEF PlayKnows, PlayPlaced, PlayAgrees, PlayRetires
<1>3. records[play.hold].target = records[play.key].target
  BY <1>1, <1>2, OpBasic DEF RecordsAgree, RecordAgrees, HoldFor
<1>4. native.phase[play.hold] \in ActivePhase
  BY <1>1, <1>2, OpBasic DEF HoldsAgree, Muted
<1>5. records[play.hold].target \in Targets /\ native.hold[records[play.hold].target] = play.hold
  BY <1>1, <1>2, <1>4 DEF HoldsAgree
<1>6. records[play.hold].target = play.target
  BY <1>1, <1>2, <1>5, OpBasic DEF HoldsAgree
<1> QED BY <1>2, <1>3, <1>6

\* The record is retired once its drain is signed, and the hold may be returned from then on.
LEMMA PreemptRecordMaps ==
  ASSUME RefInv, Muted, GateInv', PreemptRecord
  PROVE  RefInv' /\ Promised
<1>k. PICK key, t : key = play.key /\ t = play.target
  OBVIOUS
<1> DEFINE kept == producer.retained[t]
           r == [records[key] EXCEPT !.ticket = play.id, !.stage = "preempted", !.terminal = TRUE,
                                     !.outcome = "preempted"]
           forgotten == [producer EXCEPT !.active = IF @ = key THEN 0 ELSE @,
                                         !.retained[t] = IF kept.native = play.hold THEN NotRetained ELSE kept]
<1>0. /\ Inv /\ GateInv /\ SettledKnow /\ SourcesAgree /\ play.step = "record" /\ play \in PlayType
      /\ UNCHANGED <<native, sender, opVars, coord, poll>>
  BY RefTypes, GateTypes, Readers DEF PreemptRecord, peerVars, coordVars
<1>1. coord.enabled
  BY <1>0, RefTypes DEF OffIsQuiet
<1>2. /\ play.hold \in Op /\ t \in Targets /\ native.hold[t] = play.hold
      /\ key \in Op /\ Exists(key) /\ records[key] \in Record
      /\ records[key].preempted /\ ~records[key].terminal /\ records[key].native = play.hold
      /\ records[key].target = t
  BY <1>k, <1>0, KeyPlaced
<1>3. PICK z \in {"observe", "refused"} :
        /\ play' = [play EXCEPT !.step = z]
        /\ producer' \in {producer, forgotten}
        /\ Journaled(key, r) /\ (z = "observe" => Stored(key, r))
  BY <1>k DEF PreemptRecord, Write, Journaled, PlayStep
<1>4. play'.step = z /\ play'.hold = play.hold /\ play'.target = play.target
  BY <1>0, <1>3 DEF PlayType
<1>5. /\ r.native = play.hold /\ r.stage # "none" /\ r.sender = records[key].sender
      /\ Kin(r, records[key]) /\ r.terminal /\ r.preempted
  <2>1. r.terminal = TRUE /\ r.preempted = records[key].preempted
    BY <1>2 DEF Record
  <2> QED BY <1>2, <2>1 DEF Record, Kin
<1>6. producer'.live = producer.live
  <2>1. producer \in ProducerType
    BY <1>0, HoldTypes
  <2>2. forgotten.live = producer.live
    BY <2>1 DEF ProducerType
  <2> QED BY <1>3, <2>2
<1> HIDE DEF r, forgotten
<1>7. Calmly
  BY <1>0, <1>4 DEF Calmly, Mutes
<1>8. /\ Wrote(key, r) /\ \A p \in Op \ {key} : records'[p] = records[p]
      /\ records'[key] = records[key] \/ records'[key] = r
  BY <1>2, <1>3, JournaledWrote
<1>9. \A p \in Op : Kin(records'[p], records[p]) /\ records'[p].sender = records[p].sender
  <2>1. \A p \in Op : records'[p] = records[p] \/ (p = key /\ records'[p] = r)
    BY <1>8
  <2> QED BY <1>5, <2>1 DEF Kin
<1>10. PlayRetires'
  <2>1. z = "observe" => records'[key] = r
    BY <1>2, <1>3, RefTypes DEF Stored, JournalTyped
  <2>2. z = "observe" => \E p \in Op : IsRetired(records'[p]) /\ records'[p].native = play.hold
    BY <1>2, <1>5, <2>1 DEF IsRetired
  <2> QED BY <1>0, <1>4, <2>2, CallbackRetires
<1>11. Retiring(key, r) /\ Purpose(key, r) /\ ~Opening(key, r)
  BY <1>2, <1>5, OpBasic DEF Retiring, Purpose, Opening
<1>12. Still(key)
  <2>1. Mutes(key)
    BY <1>k, <1>0 DEF Mutes
  <2> QED BY <1>0, <1>2, <2>1 DEF SettledKnow, SettledKnows, Still
<1>13. ~SoundsOn(t)
  BY <1>k, <1>0 DEF Muted
<1>14. key \notin Sounding
  <2>1. sender.main.src = key => sender.main.tgt = t
    BY <1>0, <1>2, OpBasic DEF SourcesAgree, Own
  <2> QED BY <1>13, <2>1 DEF SoundsOn, Sounding
<1> QED BY <1>0, <1>1, <1>2, <1>4, <1>5, <1>6, <1>7, <1>8, <1>9, <1>10, <1>11, <1>12, <1>13, <1>14, KeepAfter

LEMMA PreemptObserveMaps ==
  ASSUME RefInv, GateInv', PreemptObserve
  PROVE  RefInv' /\ Promised
<1>0. /\ play.step = "observe" /\ play \in PlayType /\ play' = [play EXCEPT !.step = "commit"] /\ coord \in CoordType
      /\ UNCHANGED <<native, sender, records, disk, producer, cmd, pc, poll>>
  BY RefTypes, Readers DEF PreemptObserve, PlayStep, peerVars, producerVars, opVars
<1>1. coord.enabled /\ coord'.enabled = coord.enabled
  BY <1>0, RefTypes DEF PreemptObserve, OffIsQuiet, CoordType, coordVars
<1>2. play'.step = "commit" /\ play'.hold = play.hold /\ play'.target = play.target
  BY <1>0 DEF PlayType
<1>3. Returnable(play.hold)
  BY <1>0, RefTypes DEF PlayRetires
<1>4. PlayRetires'
  <2>1. \E p \in Op : IsRetired(records'[p]) /\ records'[p].native = play.hold
    BY <1>0, <1>3 DEF Returnable
  <2> QED BY <1>0, <1>2, <2>1, CallbackRetires
<1>5. Stale' /\ ParkedAsked' /\ OffIsQuiet' /\ Calmly
  BY <1>0, <1>1, <1>2, RefTypes DEF Stale, ParkedAsked, OffIsQuiet, Calmly, Mutes
<1>6. OwnOp' /\ (\A p : NotStartable(p)' <=> NotStartable(p)) /\ OwnersStay
  BY <1>0, SenderRests
<1>7. RefInv' /\ Standings' = Standings /\ Revokeds' = Revokeds
  BY <1>0, <1>4, <1>5, <1>6, RestAfter
<1> QED BY <1>1, <1>6, <1>7, Unseen

\* Spotify returns to the receiver that was drained for it.
LEMMA ReturnMaps ==
  ASSUME RefInv, coord.enabled, coord'.enabled = coord.enabled, sender' = sender, Standings' = Standings,
         Revokeds' = Revokeds, play.step = "commit", native.phase[play.hold] = "reacquiring",
         NEW h, NEW t, NEW i, h = play.hold, t = play.target, native' = Returned(h, t, i)
  PROVE  Promised
<1>0. /\ native \in NativeType /\ h \in Op /\ t \in Targets /\ native.hold[t] = h /\ Returnable(h) /\ ~SoundsOn(t)
      /\ \A u \in Targets : native.hold[u] = h => u = t
  <2>1. PlayPlaced /\ PlayAgrees /\ HoldsAgree /\ Drained /\ PlayRetires /\ native \in NativeType
    BY RefTypes, GateTypes, HoldTypes DEF Inv, HoldInv
  <2>2. h \in Op /\ t \in Targets /\ native.hold[t] = h /\ Returnable(h)
    BY <2>1 DEF PlayPlaced, PlayAgrees, PlayRetires
  <2>3. ~SoundsOn(t)
    BY <2>1 DEF Drained, Signed
  <2> QED BY <2>1, <2>2, <2>3, OpBasic DEF HoldsAgree
<1>1. /\ native'.hold = [native.hold EXCEPT ![t] = 0] /\ native'.parked = native.parked \ {h}
  BY <1>0 DEF Returned, NativeType
<1>2. Sounding' = Sounding /\ (\A u : SoundsOn(u)' <=> SoundsOn(u))
  BY DEF Sounding, SoundsOn
<1>3. Owners' = [Owners EXCEPT ![t] = "spotify"] /\ Owners[t] # "radio"
  <2>1. \A u \in Targets \ {t} : CustodyOwner(u)' = CustodyOwner(u)
    <3>1. ASSUME NEW u \in Targets \ {t} PROVE CustodyOwner(u)' = CustodyOwner(u)
      <4>1. native'.hold[u] = native.hold[u] /\ native.hold[u] # h
        BY <1>0, <1>1 DEF NativeType
      <4>2. native.hold[u] \in native'.parked <=> native.hold[u] \in native.parked
        BY <1>1, <4>1
      <4> QED BY <1>2, <4>1, <4>2 DEF CustodyOwner
    <3> QED BY <3>1
  <2>2. CustodyOwner(t)' = "spotify" /\ CustodyOwner(t) # "radio"
    <3>1. native'.hold[t] = 0
      BY <1>0, <1>1 DEF NativeType
    <3> QED BY <1>0, <1>2, <3>1 DEF CustodyOwner
  <2>3. Owners' = [u \in Targets |-> IF u = t THEN "spotify" ELSE CustodyOwner(u)]
    BY <2>1, <2>2 DEF Owners
  <2> QED BY <1>0, <2>2, <2>3 DEF Owners
<1>4. h \in Revokeds
  BY <1>0, Mapped
<1>5. Custody!Return(t)
  BY <1>0, <1>1, <1>2, <1>3, <1>4 DEF Custody!Return, Standings, Owners, Sounding, Revokeds
<1> QED BY <1>0, <1>5, Seen DEF Custody!Operate

LEMMA PreemptEndMaps ==
  ASSUME RefInv, GateInv', PreemptEnd
  PROVE  RefInv' /\ Promised
<1>k. PICK h, t, i : h = play.hold /\ t = play.target /\ i = play.id
  OBVIOUS
<1>0. /\ play.step \in {"commit", "refused"} /\ play \in PlayType /\ native \in NativeType /\ h \in Op
      /\ UNCHANGED <<sender, records, disk, producer, cmd, pc, coord, poll>>
  BY <1>k, RefTypes, Readers DEF PreemptEnd, producerVars, opVars, Inv, PlayPlaced
<1>1. coord.enabled /\ OffIsQuiet
  BY <1>0, RefTypes DEF OffIsQuiet
<1>2. play'.step = "idle"
  BY DEF PreemptEnd, NoPlay
<1>3. \/ native' = native
      \/ native' = ReacquireFailed(h)
      \/ play.step = "commit" /\ native.phase[h] = "reacquiring" /\ native' = Returned(h, t, i)
  BY <1>k DEF PreemptEnd
<1>4. /\ native'.fresh = native.fresh
      /\ \A p \in Op : native.phase[p] # "none" => native'.phase[p] # "none"
      /\ native'.parked \subseteq native.parked
      /\ \/ native'.hold = native.hold /\ native'.parked = native.parked
         \/ /\ play.step = "commit" /\ native.phase[h] = "reacquiring" /\ native' = Returned(h, t, i)
            /\ native'.hold = [native.hold EXCEPT ![t] = 0]
  <2>1. CASE native' = native
    BY <2>1
  <2>2. CASE native' = ReacquireFailed(h)
    BY <1>0, <2>2 DEF ReacquireFailed, NativeType
  <2>3. CASE play.step = "commit" /\ native.phase[h] = "reacquiring" /\ native' = Returned(h, t, i)
    <3>1. /\ native'.fresh = native.fresh /\ native'.parked = native.parked \ {h}
          /\ native'.hold = [native.hold EXCEPT ![t] = 0] /\ native'.phase = [native.phase EXCEPT ![h] = "returned"]
      BY <1>0, <2>3 DEF Returned, NativeType
    <3>2. \A p \in Op : native.phase[p] # "none" => native'.phase[p] # "none"
      BY <1>0, <3>1 DEF NativeType
    <3> QED BY <2>3, <3>1, <3>2
  <2> QED BY <1>3, <2>1, <2>2, <2>3
<1>5. Stale' /\ ParkedAsked' /\ OffIsQuiet' /\ Calmly /\ PlayRetires'
  <2>1. Stale' /\ OffIsQuiet' /\ Calmly /\ PlayRetires'
    BY <1>0, <1>1, <1>2, <1>4, RefTypes DEF Stale, OffIsQuiet, Calmly, Mutes, PlayRetires
  <2>2. ParkedAsked'
    BY <1>4, ParkedStays
  <2> QED BY <2>1, <2>2
<1>6. \A u \in Targets : native.hold[u] # 0 => native'.hold[u] = native.hold[u] \/ Returnable(native.hold[u])
  <2>1. play.step = "commit" => native.hold[t] = h /\ Returnable(h)
    BY <1>k, RefTypes DEF PlayRetires
  <2> QED BY <1>0, <1>4, <2>1 DEF NativeType
<1>7. OwnOp' /\ (\A p : NotStartable(p)' <=> NotStartable(p))
      /\ (native'.hold = native.hold /\ native'.parked = native.parked => OwnersStay)
  BY <1>0, SenderRests
<1>8. RefInv' /\ Standings' = Standings /\ Revokeds' = Revokeds
  BY <1>0, <1>5, <1>6, <1>7, RestAfter
<1>9. Promised
  <2>1. CASE native'.hold = native.hold /\ native'.parked = native.parked
    BY <1>0, <1>7, <1>8, <2>1, Unseen
  <2>2. CASE play.step = "commit" /\ native.phase[h] = "reacquiring" /\ native' = Returned(h, t, i)
    BY <1>k, <1>0, <1>1, <1>8, <2>2, ReturnMaps
  <2> QED BY <1>4, <2>1, <2>2
<1> QED BY <1>8, <1>9

LEMMA NativeTimeoutMaps ==
  ASSUME RefInv, GateInv', NativeTimeout
  PROVE  RefInv' /\ Promised
<1>k. PICK h : h = play.hold
  OBVIOUS
<1>0. /\ native \in NativeType /\ native' = ReacquireFailed(h) /\ play.step # "idle"
      /\ UNCHANGED <<sender, records, disk, producer, cmd, pc, coord, play, poll>>
  BY <1>k, RefTypes DEF NativeTimeout, producerVars, opVars, coordVars
<1>1. /\ native'.fresh = native.fresh /\ native'.hold = native.hold /\ native'.parked = native.parked
      /\ \A p \in Op : native.phase[p] # "none" => native'.phase[p] # "none"
  BY <1>0 DEF ReacquireFailed, NativeType
<1>2. Stale' /\ ParkedAsked' /\ OffIsQuiet' /\ Calmly /\ PlayRetires'
  <2>1. Stale' /\ OffIsQuiet' /\ Calmly
    BY <1>0, <1>1, RefTypes, CalmStays DEF Stale, OffIsQuiet
  <2>2. ParkedAsked'
    BY <1>1, ParkedStays
  <2>3. \A k : Returnable(k) => Returnable(k)'
    BY <1>0 DEF Returnable
  <2>4. PlayRetires'
    BY <1>0, <1>1, <2>3, PlayRetiresStays
  <2> QED BY <2>1, <2>2, <2>4
<1>3. OwnOp' /\ (\A p : NotStartable(p)' <=> NotStartable(p)) /\ OwnersStay
  BY <1>0, <1>1, SenderRests
<1>4. RefInv' /\ Standings' = Standings /\ Revokeds' = Revokeds
  BY <1>0, <1>1, <1>2, <1>3, RestAfter
<1> QED BY <1>0, <1>3, <1>4, Unseen

-----------------------------------------------------------------------------
(* The steps of a poll *)

\* A poll that writes nothing.
LEMMA PollRests ==
  ASSUME RefInv, GateInv', UNCHANGED <<sender, records, disk, producer, cmd, pc, play>>, coord.enabled,
         coord'.enabled = coord.enabled, NEW h, native' \in {native, ResultRead(h)},
         poll'.step = "settle" => NotStartable(poll'.fence)
  PROVE  RefInv' /\ Promised
<1>1. /\ native'.hold = native.hold /\ native'.parked = native.parked /\ native'.fresh = native.fresh
      /\ \A k \in Op : native.phase[k] # "none" => native'.phase[k] # "none"
  BY ReadRests
<1>2. OwnOp' /\ (\A p : NotStartable(p)' <=> NotStartable(p)) /\ OwnersStay
  BY <1>1, SenderRests
<1>3. Calmly
  <2>1. \A p \in Op : Mutes(p)' <=> Mutes(p)
    BY DEF Mutes
  <2>2. \A p \in Op : poll'.step = "settle" /\ poll'.fence = p => NotStartable(p)'
    BY <1>2
  <2> QED BY <2>1, <2>2 DEF Calmly, Still
<1>4. PlayRetires'
  <2>1. \A k : Returnable(k) => Returnable(k)'
    BY DEF Returnable
  <2> QED BY <1>1, <2>1, PlayRetiresStays
<1>5. Stale' /\ OffIsQuiet'
  BY <1>1, RefTypes DEF Stale, OffIsQuiet
<1>6. ParkedAsked'
  BY <1>1, ParkedStays
<1>7. RefInv' /\ Standings' = Standings /\ Revokeds' = Revokeds
  BY <1>1, <1>2, <1>3, <1>4, <1>5, <1>6, RestAfter
<1> QED BY <1>2, <1>7, Unseen

\* A poll that writes what it learned: the same standing, or the outcome of an operation that ended.
LEMMA PollWrites ==
  ASSUME RefInv, GateInv', UNCHANGED <<sender, cmd, pc, play>>, coord.enabled, coord'.enabled = coord.enabled,
         NEW h, native' \in {native, ResultRead(h)}, poll'.step # "settle", producer'.live = producer.live,
         NEW k \in Op, NEW r, Exists(k), Wrote(k, r), Twin(r, records[k]) \/ (Settling(k, r) /\ Still(k)),
         \A p \in Op : Kin(records'[p], records[p]) /\ records'[p].sender = records[p].sender
  PROVE  RefInv' /\ Promised
<1>1. /\ native'.hold = native.hold /\ native'.parked = native.parked /\ native'.fresh = native.fresh
      /\ \A p \in Op : native.phase[p] # "none" => native'.phase[p] # "none"
  BY ReadRests
<1>2. Purpose(k, r) /\ ~Opening(k, r) /\ ~Retiring(k, r)
  <2>1. ~Retiring(k, r)
    BY DEF Retiring, Settling, Twin
  <2> QED BY <2>1 DEF Purpose, Opening
<1>3. Calmly
  <2>1. \A p \in Op : Mutes(p)' <=> Mutes(p)
    BY DEF Mutes, Kin
  <2> QED BY <2>1 DEF Calmly
<1>4. PlayRetires'
  <2>1. \A n : Returnable(n) => Returnable(n)'
    BY <1>2, JournalsGo
  <2>2. \A p \in Op : records[p].preempted /\ ~records[p].terminal => ~records'[p].terminal
    BY DEF Wrote, Twin, Settling
  <2> QED BY <1>1, <2>1, <2>2, PlayRetiresStays
<1>5. /\ r.native = records[k].native /\ (r.preempted <=> records[k].preempted)
      /\ r.terminal => records[k].terminal \/ Still(k)
  BY DEF Twin, Settling
<1> QED BY <1>1, <1>2, <1>3, <1>4, <1>5, KeepAfter DEF opVars

LEMMA PollOn ==
  ASSUME RefInv, poll.step # "idle"
  PROVE  coord.enabled /\ coord \in CoordType /\ poll \in PollType
BY RefTypes, Readers DEF OffIsQuiet

\* One record written by a poll.
LEMMA PollJournals ==
  ASSUME RefInv, NEW k \in Op, NEW r, Journaled(k, r), Kin(r, records[k]), r.sender = records[k].sender
  PROVE  Wrote(k, r) /\ \A p \in Op : Kin(records'[p], records[p]) /\ records'[p].sender = records[p].sender
<1>1. /\ Wrote(k, r) /\ \A p \in Op \ {k} : records'[p] = records[p]
      /\ records'[k] = records[k] \/ records'[k] = r
  BY JournaledWrote
<1>2. \A p \in Op : records'[p] = records[p] \/ (p = k /\ records'[p] = r)
  BY <1>1
<1> QED BY <1>1, <1>2 DEF Kin

LEMMA PollMaps ==
  ASSUME RefInv, GateInv', Poll
  PROVE  RefInv' /\ Promised
<1>1. /\ UNCHANGED <<native, sender, records, disk, producer, cmd, pc, play, coord>> /\ coord.enabled
  BY DEF Poll, peerVars, producerVars, PollUnchanged, opVars
<1>2. poll'.step # "settle"
  BY DEF Poll, NoPoll
<1> QED BY <1>1, <1>2, PollRests

\* The receipts that Native keeps with the records of completed returns leave them where they stand.
LEMMA PollReleaseMaps ==
  ASSUME RefInv, GateInv', PollRelease
  PROVE  RefInv' /\ Promised
<1> DEFINE kept == [o \in Op |-> IF o \in Completed THEN [records[o] EXCEPT !.release = TRUE] ELSE records[o]]
<1>0. /\ UNCHANGED <<native, sender, producer, cmd, pc, coord, play>> /\ poll' = [poll EXCEPT !.step = "observe"]
      /\ poll.step = "release"
  BY DEF PollRelease, PollStep, peerVars, coordVars, PollUnchanged, opVars
<1>1. poll'.step = "observe" /\ coord.enabled
  BY <1>0, PollOn, PollTo, RefTypes
<1>2. \/ /\ records' = kept
         /\ disk' = [o \in Op |-> IF o \in Completed THEN kept[o] ELSE disk[o]]
      \/ UNCHANGED <<records, disk>>
  BY DEF PollRelease
<1>3. /\ records \in [Op -> Record] /\ disk \in [Op -> Record] /\ RecordsAgree /\ Inv
  BY RefTypes, GateTypes DEF JournalTyped
<1>4. CASE UNCHANGED <<records, disk>>
  BY <1>0, <1>1, <1>4, PollRests
<1>5. CASE /\ records' = kept
           /\ disk' = [o \in Op |-> IF o \in Completed THEN kept[o] ELSE disk[o]]
  <2>1. \A p \in Op : Twin(kept[p], records[p]) /\ Kin(kept[p], records[p]) /\ kept[p].sender = records[p].sender
    <3>1. ASSUME NEW p \in Op
          PROVE /\ Twin([records[p] EXCEPT !.release = TRUE], records[p])
                /\ Kin([records[p] EXCEPT !.release = TRUE], records[p])
                /\ [records[p] EXCEPT !.release = TRUE].sender = records[p].sender
      <4>1. records[p] \in Record
        BY <1>3
      <4> QED BY <4>1 DEF Twin, Kin, Record
    <3> QED BY <3>1 DEF Twin, Kin
  <2>2. \A p \in Completed : p \in Op /\ Exists(p)
    BY <1>3, LiveExists DEF Completed
  <2>3. Completed = {} => UNCHANGED <<records, disk>>
    <3>1. SUFFICES ASSUME Completed = {} PROVE UNCHANGED <<records, disk>>
      OBVIOUS
    <3>2. records' = [o \in Op |-> records[o]] /\ disk' = [o \in Op |-> disk[o]]
      BY <1>5, <3>1
    <3> QED BY <1>3, <3>2
  <2>4. CASE Completed # {}
    <3>1. PICK k \in Completed : TRUE
      BY <2>4
    <3> HIDE DEF kept
    <3>2. \A p \in Op : Twin(records'[p], records[p])
      BY <1>5, <2>1
    <3>3. \A p \in Op : Twin(disk[p], disk[p]) /\ Twin(records[p], records[p])
      BY DEF Twin
    <3>4. \A p \in Op : Twin(disk'[p], disk[p]) \/ (Exists(p) /\ Twin(disk'[p], records[p]))
      BY <1>5, <2>1, <2>2, <3>3
    <3>5. Wrote(k, records[k])
      BY <2>2, <3>1, <3>2, <3>4 DEF Wrote
    <3>6. \A p \in Op : Kin(records'[p], records[p]) /\ records'[p].sender = records[p].sender
      BY <1>5, <2>1
    <3> QED BY <1>0, <1>1, <2>2, <3>1, <3>3, <3>5, <3>6, PollWrites
  <2> QED BY <1>4, <2>3, <2>4
<1> QED BY <1>2, <1>4, <1>5

LEMMA PollShowsMap ==
  ASSUME RefInv, GateInv', PollObserve \/ PollPreempted \/ PollApply
  PROVE  RefInv' /\ Promised
<1>1. /\ UNCHANGED <<native, sender, records, disk, producer, cmd, pc, play>> /\ poll.step # "idle"
  BY DEF PollObserve, PollPreempted, PollApply, peerVars, PollUnchanged, producerVars, opVars
<1>2. coord.enabled /\ coord \in CoordType /\ poll \in PollType
  BY <1>1, PollOn
<1>3. coord'.enabled = coord.enabled
  BY <1>2 DEF PollObserve, PollPreempted, PollApply, coordVars, CoordType
<1>4. poll'.step # "settle"
  <2>1. poll' = NoPoll \/ \E out, obs : poll' = [poll EXCEPT !.step = "apply", !.outcome = out, !.obs = obs]
    BY DEF PollObserve, PollPreempted, PollApply, PollOver, Learned
  <2> QED BY <1>2, <2>1, NoPollIdle DEF PollType
<1> QED BY <1>1, <1>2, <1>3, <1>4, PollRests

LEMMA PollNativeMaps ==
  ASSUME RefInv, GateInv', PollNative
  PROVE  RefInv' /\ Promised
<1>1. PICK f, r, h, now : f = poll.fence /\ r = poll.rec /\ h = (IF r.native # 0 THEN r.native ELSE f) /\ now = records[f]
  OBVIOUS
<1>0. /\ Inv /\ GateInv /\ poll.step = "native" /\ UNCHANGED <<sender, cmd, pc, coord, play>> /\ native' = ResultRead(h)
  BY <1>1, RefTypes DEF PollNative, coordVars, PollUnchanged, opVars
<1>2. f \in Op /\ Exists(f) /\ now \in Record /\ coord.enabled /\ poll \in PollType
  BY <1>0, <1>1, PollFence, PollOn DEF Reconciling
<1>3. \/ /\ producer' = producer
         /\ \/ Journaled(f, [now EXCEPT !.rejection = TRUE, !.stage = "operation-rejection-observed"])
            \/ Journaled(f, [now EXCEPT !.release = TRUE])
      \/ UNCHANGED producerVars
  BY <1>1 DEF PollNative, Write, Journaled
<1>4. poll'.step # "settle"
  <2>1. poll' = NoPoll \/ \E s \in {"cancelled", "preempted", "sender"} : poll' = [poll EXCEPT !.step = s]
    BY DEF PollNative, Write, PollStep, PollOver
  <2> QED BY <1>2, <2>1, NoPollIdle DEF PollType
<1>5. CASE UNCHANGED producerVars
  BY <1>0, <1>2, <1>4, <1>5, PollRests DEF producerVars
<1>6. ASSUME NEW q \in {[now EXCEPT !.rejection = TRUE, !.stage = "operation-rejection-observed"],
                       [now EXCEPT !.release = TRUE]},
             Journaled(f, q), producer' = producer
      PROVE  RefInv' /\ Promised
  <2>1. Twin(q, now) /\ Kin(q, now) /\ q.sender = now.sender
    BY <1>1, <1>2 DEF Twin, Kin, Record, Exists
  <2>2. Wrote(f, q) /\ \A p \in Op : Kin(records'[p], records[p]) /\ records'[p].sender = records[p].sender
    BY <1>1, <1>2, <1>6, <2>1, PollJournals
  <2> QED BY <1>0, <1>1, <1>2, <1>4, <1>6, <2>1, <2>2, PollWrites
<1> QED BY <1>3, <1>5, <1>6

\* An operation whose result is known has no source that may still be started.
LEMMA ResultEnds ==
  ASSUME RefInv, NEW o \in Op, ResultOf(o).state \in {"cancelled", "playing", "stopped"}
  PROVE  NotStartable(o)
<1>1. PICK main, cand : main = sender.main /\ cand = sender.cand
  OBVIOUS
<1>2. /\ SourceKnows(main) /\ SourceKnows(cand) /\ (cand.src # 0 => cand.src # main.src)
  BY <1>1, RefTypes, SenderKnown DEF Apart
<1>3. (Startable(main) => main.op = main.src) /\ (cand.src # 0 => cand.op = cand.src)
  BY <1>1, RefTypes DEF OwnOp
<1>4. FoundSource(o).phase \in {"cancelled", "playing", "drained"}
  BY DEF ResultOf, ObsError, Obs, Decoded
<1>5. CASE cand.op = o
  <2>1. cand.phase \in {"cancelled", "playing", "drained"}
    BY <1>1, <1>4, <1>5 DEF FoundSource
  <2>2. cand.src = o
    BY <1>2, <1>3, <1>5, <2>1 DEF SourceKnows
  <2>3. main.src # o
    BY <1>2, <2>2, OpBasic
  <2> QED BY <1>1, <2>1, <2>3 DEF NotStartable, Startable
<1>6. CASE cand.op # o /\ main.op = o
  <2>1. main.phase \in {"cancelled", "playing", "drained"}
    BY <1>1, <1>4, <1>6 DEF FoundSource
  <2>2. cand.src # o
    BY <1>3, <1>6, OpBasic
  <2> QED BY <1>1, <2>1, <2>2 DEF NotStartable, Startable
<1>7. CASE cand.op # o /\ main.op # o
  <2>1. cand.src # o /\ (Startable(main) => main.src # o)
    BY <1>3, <1>7, OpBasic
  <2> QED BY <1>1, <2>1 DEF NotStartable
<1> QED BY <1>5, <1>6, <1>7

LEMMA PollCancelledMaps ==
  ASSUME RefInv, GateInv', PollCancelled
  PROVE  RefInv' /\ Promised
<1>1. PICK f : f = poll.fence
  OBVIOUS
<1>0. Inv /\ GateInv /\ poll.step = "cancelled" /\ UNCHANGED <<native, sender, cmd, pc, coord, play>>
  BY RefTypes DEF PollCancelled, coordVars, PollUnchanged, opVars
<1>2. f \in Op /\ Exists(f) /\ records[f] \in Record /\ coord.enabled /\ poll \in PollType
  BY <1>0, <1>1, PollFence, PollOn DEF Reconciling
<1>3. PICK stage \in {"preflight-reconciled", "rejected-reconciled"}, playing \in BOOLEAN :
        \/ UNCHANGED producerVars
        \/ /\ ResultOf(f).state = "cancelled" /\ ~records[f].preempted
           /\ Journaled(f, [records[f] EXCEPT !.terminal = TRUE, !.outcome = "rejected",
                                              !.playing = playing, !.stage = stage])
           /\ UNCHANGED producer
  <2>1. Playing(Applied(Observed)) \in BOOLEAN
    BY DEF Playing
  <2> HIDE DEF Playing
  <2> QED BY <1>1, <2>1 DEF PollCancelled, Write, Journaled
<1>4. poll'.step # "settle"
  <2>1. poll' = NoPoll \/ \E out, obs : poll' = [poll EXCEPT !.step = "apply", !.outcome = out, !.obs = obs]
    BY DEF PollCancelled, PollOver, Learned, Write
  <2>2. ASSUME NEW out, NEW obs, poll' = [poll EXCEPT !.step = "apply", !.outcome = out, !.obs = obs]
        PROVE  poll'.step # "settle"
    <3>1. PICK q : q = poll'
      OBVIOUS
    <3>2. poll = [step |-> poll.step, mode |-> poll.mode, fence |-> poll.fence, last |-> poll.last, rec |-> poll.rec,
                  outcome |-> poll.outcome, obs |-> poll.obs]
      BY <1>2 DEF PollType
    <3>3. q.step = "apply"
      BY <2>2, <3>1, <3>2
    <3> QED BY <3>1, <3>3
  <2>3. ASSUME poll' = NoPoll  PROVE poll'.step # "settle"
    BY <2>3, NoPollIdle
  <2> QED BY <2>1, <2>2, <2>3
<1>5. PICK q : q = [records[f] EXCEPT !.terminal = TRUE, !.outcome = "rejected", !.playing = playing, !.stage = stage]
  OBVIOUS
<1>6. CASE UNCHANGED producerVars
  BY <1>0, <1>2, <1>4, <1>6, PollRests DEF producerVars
<1>7. CASE ResultOf(f).state = "cancelled" /\ ~records[f].preempted /\ Journaled(f, q) /\ UNCHANGED producer
  <2>1. /\ q.terminal /\ q.stage # "none" /\ ~q.preempted /\ q.native = records[f].native
        /\ Kin(q, records[f]) /\ q.sender = records[f].sender
    <3>1. q.terminal = TRUE /\ q.preempted = records[f].preempted
      BY <1>2, <1>5 DEF Record
    <3> QED BY <1>2, <1>5, <1>7, <3>1 DEF Record, Kin
  <2>2. Settling(f, q)
    BY <1>2, <1>7, <2>1 DEF Settling
  <2>3. Still(f)
    BY <1>2, <1>7, ResultEnds DEF Still
  <2>4. Wrote(f, q) /\ \A p \in Op : Kin(records'[p], records[p]) /\ records'[p].sender = records[p].sender
    BY <1>2, <1>7, <2>1, PollJournals
  <2> QED BY <1>0, <1>2, <1>4, <1>7, <2>2, <2>3, <2>4, PollWrites
<1> QED BY <1>3, <1>5, <1>6, <1>7

LEMMA PollSenderMaps ==
  ASSUME RefInv, GateInv', PollSender
  PROVE  RefInv' /\ Promised
<1>1. PICK f : f = poll.fence
  OBVIOUS
<1>0. /\ Inv /\ GateInv /\ poll.step = "sender"
      /\ UNCHANGED <<native, sender, records, disk, producer, cmd, pc, coord, play>>
  BY RefTypes DEF PollSender, coordVars, PollUnchanged, opVars, producerVars
<1>2. f \in Op /\ coord.enabled /\ poll \in PollType
  BY <1>0, <1>1, PollFence, PollOn DEF Reconciling
<1>3. poll'.step = "settle" => NotStartable(poll'.fence)
  <2>1. \/ poll' = NoPoll
        \/ /\ ResultMatches(f, poll.rec.sender)
           /\ poll' = [poll EXCEPT !.step = "settle", !.outcome = "committed", !.obs = ResultOf(f)]
    BY <1>1 DEF PollSender, PollOver
  <2>2. ResultMatches(f, poll.rec.sender) => NotStartable(f)
    BY <1>2, ResultEnds DEF ResultMatches, TerminalObs
  <2>3. poll'.step = "settle" => poll'.fence = f /\ ResultMatches(f, poll.rec.sender)
    BY <1>1, <1>2, <2>1, NoPollIdle DEF PollType
  <2> QED BY <2>2, <2>3
<1> QED BY <1>0, <1>2, <1>3, PollRests

LEMMA PollSettleMaps ==
  ASSUME RefInv, GateInv', PollSettle
  PROVE  RefInv' /\ Promised
<1>1. PICK f : f = poll.fence
  OBVIOUS
<1> DEFINE incumbent == IF poll.rec.prior # 0 THEN records[poll.rec.prior].sender ELSE f
           active == IF poll.obs.state = "playing" THEN f
                     ELSE IF producer.active \in {f, incumbent} THEN 0 ELSE producer.active
           m == [producer EXCEPT !.active = active]
           r == [records[f] EXCEPT !.terminal = TRUE, !.outcome = "committed",
                                   !.playing = (poll.obs.state = "playing"), !.stage = "reconciled"]
<1>0. Inv /\ GateInv /\ poll.step = "settle" /\ UNCHANGED <<native, sender, cmd, pc, coord, play>>
  BY RefTypes DEF PollSettle, peerVars, coordVars, PollUnchanged, opVars
<1>2. f \in Op /\ Exists(f) /\ records[f] \in Record /\ coord.enabled /\ poll \in PollType
  BY <1>0, <1>1, PollFence, PollOn DEF Reconciling
<1>3. \/ ~records[f].preempted /\ Journaled(f, r) /\ producer' \in {producer, m}
      \/ UNCHANGED producerVars
  BY <1>1 DEF PollSettle, Write, Journaled, Fenced
<1>4. poll'.step # "settle"
  <2>1. poll' = NoPoll \/ poll' = [poll EXCEPT !.step = "apply"]
    BY DEF PollSettle, Write, PollOver, PollStep
  <2> QED BY <1>2, <2>1, NoPollIdle DEF PollType
<1> HIDE DEF active
<1>5. m.live = producer.live
  BY <1>0, HoldTypes DEF ProducerType
<1> HIDE DEF m
<1>6. /\ r.terminal /\ r.stage # "none" /\ (r.preempted <=> records[f].preempted) /\ r.native = records[f].native
      /\ Kin(r, records[f]) /\ r.sender = records[f].sender
  <2>1. r.terminal = TRUE /\ r.preempted = records[f].preempted /\ r.stage = "reconciled"
    BY <1>2 DEF Record
  <2>2. /\ r.native = records[f].native /\ r.sender = records[f].sender
        /\ r.target = records[f].target /\ r.peer = records[f].peer /\ r.retained = records[f].retained
        /\ r.prior = records[f].prior
    BY <1>2 DEF Record
  <2> HIDE DEF r
  <2> QED BY <2>1, <2>2 DEF Kin
<1> HIDE DEF r
<1>7. CASE UNCHANGED producerVars
  BY <1>0, <1>2, <1>4, <1>7, PollRests DEF producerVars
<1>8. CASE ~records[f].preempted /\ Journaled(f, r) /\ producer' \in {producer, m}
  <2>1. Settling(f, r) /\ producer'.live = producer.live
    BY <1>2, <1>5, <1>6, <1>8 DEF Settling
  <2>2. Still(f)
    BY <1>0, <1>1, <1>2, RefTypes DEF SettledKnow, SettledKnows, Still
  <2>3. Wrote(f, r) /\ \A p \in Op : Kin(records'[p], records[p]) /\ records'[p].sender = records[p].sender
    BY <1>2, <1>6, <1>8, PollJournals
  <2> QED BY <1>0, <1>2, <1>4, <2>1, <2>2, <2>3, PollWrites
<1> QED BY <1>3, <1>7, <1>8
-----------------------------------------------------------------------------
(* Commands and restarts *)

\* A command that is admitted touches no record and no peer yet.
LEMMA ExecuteMaps ==
  ASSUME RefInv, GateInv', Execute
  PROVE  RefInv' /\ Promised
<1>1. /\ \E o \in Op : pc[o][1] = "idle"
      /\ coord.enabled /\ \E old : coord' = [coord EXCEPT !.pending = TRUE, !.shown.state = "preparing", !.last = old]
      /\ UNCHANGED <<native, sender, records, disk, producer, play, poll>>
      /\ \E c : cmd' = [cmd EXCEPT ![NextOp] = c]
      /\ \E x \in {<<"preflight", "journal">>, <<"reserve", "check">>} :
           /\ pc' = [pc EXCEPT ![NextOp] = x]
           /\ x[1] = "reserve" => cmd'[NextOp].kind \in {"stop", "volume"}
  <2>1. PICK kind \in Kinds, t \in Targets :
        /\ \E o \in Op : pc[o][1] = "idle"
        /\ Offered(kind, t)
        /\ cmd' = [cmd EXCEPT ![NextOp] = [kind |-> kind, target |-> t, from |-> coord.shown.target,
                                           playing |-> Playing(coord.shown), old |-> coord.shown]]
        /\ pc' = [pc EXCEPT ![NextOp] = IF kind \in {"start", "move"} THEN <<"preflight", "journal">>
                                        ELSE <<"reserve", "check">>]
        /\ coord' = [coord EXCEPT !.pending = TRUE, !.shown.state = "preparing", !.last = NextOp]
        /\ UNCHANGED <<native, sender, records, disk, producer, play, poll>>
    BY DEF Execute, peerVars, producerVars
  <2> DEFINE c == [kind |-> kind, target |-> t, from |-> coord.shown.target,
                   playing |-> Playing(coord.shown), old |-> coord.shown]
             x == IF kind \in {"start", "move"} THEN <<"preflight", "journal">> ELSE <<"reserve", "check">>
  <2>2. /\ x \in {<<"preflight", "journal">>, <<"reserve", "check">>}
        /\ x[1] = "reserve" => c.kind \in {"stop", "volume"}
    BY RadioAssumption
  <2>3. cmd' = [cmd EXCEPT ![NextOp] = c] /\ pc' = [pc EXCEPT ![NextOp] = x]
    BY <2>1
  <2> HIDE DEF c, x
  <2>4. NextOp \in Op
    BY <2>1, NextOpIdle
  <2>5. cmd'[NextOp] = c
    BY <2>3, <2>4, RefTypes, HoldTypes
  <2> QED BY <2>1, <2>2, <2>3, <2>5 DEF Offered
<1>2. coord'.enabled = coord.enabled
  BY <1>1, RefTypes, Readers DEF CoordType
<1>3. PICK o \in Op : o = NextOp /\ pc[o][1] = "idle"
  BY <1>1, NextOpIdle
<1>4. /\ \A p \in Op \ {o} : pc'[p] = pc[p] /\ SourceOperation(p)' = SourceOperation(p)
      /\ pc'[o] \in {<<"preflight", "journal">>, <<"reserve", "check">>}
      /\ pc'[o][1] = "reserve" => SourceOperation(o)'
  BY <1>1, <1>3, RefTypes, HoldTypes DEF PCType, SourceOperation
<1>5. /\ DiskAhead' /\ RetiredHeld' /\ Named' /\ Sourcing' /\ Standings' = Standings /\ Revokeds' = Revokeds
      /\ \A h : Returnable(h)' <=> Returnable(h)
  BY <1>1, JournalRests
<1>6. OwnOp' /\ OwnersStay /\ \A p : NotStartable(p)' <=> NotStartable(p)
  BY <1>1, SenderRests
<1>7. Stale' /\ ParkedAsked' /\ OffIsQuiet'
  BY <1>1, <1>2, RefTypes DEF Stale, ParkedAsked, OffIsQuiet
<1>8. PlayRetires'
  BY <1>1, <1>5, PlayRetiresStays
<1>9. EarlyKept'
  <2>1. ~Recorded(o)'
    BY <1>4 DEF Recorded, Reserved
  <2>2. ASSUME NEW p \in Op, p # o PROVE (Recorded(p)' <=> Recorded(p)) /\ (Early(p)' <=> Early(p))
    BY <1>4, <2>2 DEF Recorded, Early
  <2> QED BY <1>1, <1>4, <2>1, <2>2, RefTypes DEF EarlyKept
<1>10. SettledKnow'
  <2>1. SettledKnows(o)'
    <3>1. ~MayGoOn(o)' /\ pc'[o] # <<"suspend", "call">>
      BY <1>4 DEF MayGoOn
    <3> QED BY <1>4, <3>1 DEF SettledKnows
  <2>2. ASSUME NEW p \in Op, p # o PROVE SettledKnows(p)'
    <3>1. SettledKnows(p) /\ pc'[p] = pc[p] /\ SourceOperation(p)' = SourceOperation(p)
      BY <1>4, <2>2, RefTypes DEF SettledKnow
    <3>2. (MayGoOn(p)' <=> MayGoOn(p)) /\ (Mutes(p)' <=> Mutes(p)) /\ (OwnHold(p, records[p])' <=> OwnHold(p, records[p]))
      BY <1>1, <3>1 DEF MayGoOn, Mutes, OwnHold
    <3> QED BY <1>1, <1>6, <3>1, <3>2 DEF SettledKnows
  <2> QED BY <2>1, <2>2 DEF SettledKnow
<1>11. RefInv'
  BY <1>5, <1>6, <1>7, <1>8, <1>9, <1>10, RefTogether
<1> QED BY <1>2, <1>5, <1>6, <1>11, Unseen

\* A restart finds every record where it was or one write further, and opens over none that is unsettled.
LEMMA CrashMaps ==
  ASSUME RefInv, GateInv', Crash
  PROVE  RefInv' /\ Promised
<1>1. /\ producer'.live = {}
      /\ pc' = [o \in Op |-> IF pc[o][1] = "idle" /\ disk[o].stage = "none" THEN pc[o] ELSE <<"over", "none">>]
      /\ cmd' = cmd /\ poll' = NoPoll /\ records' = disk /\ disk' = disk
      /\ play' = [NoPlay EXCEPT !.id = play.id] /\ coord'.enabled = Gate
  BY DEF Crash
<1>2. /\ native'.hold = native.hold /\ native'.parked = native.parked /\ native'.fresh = {}
      /\ \A h \in Op : native'.phase[h] = IF Outstanding(h) THEN "lost" ELSE native.phase[h]
  BY RefTypes DEF Crash, NativeRestarted, NativeType
<1>3. sender'.main.src = 0 /\ sender'.main.phase = "empty" /\ sender'.cand.src = 0 /\ sender'.cand.phase = "empty"
  BY DEF Crash, SenderRestarted, NoSource
<1>4. play'.step = "idle" /\ poll'.step = "idle"
  BY <1>1, NoPollIdle DEF NoPlay
<1>5. \A o \in Op : pc'[o][1] \in {"idle", "over"} /\ pc'[o] # <<"suspend", "call">>
  <2>1. \A o \in Op : pc'[o] = <<"over", "none">> \/ (pc'[o] = pc[o] /\ pc[o][1] = "idle")
    BY <1>1
  <2> QED BY <2>1
<1>6. OffIsQuiet'
  BY <1>3, <1>4, <1>5 DEF OffIsQuiet
<1>7. DiskAhead' /\ Named' /\ Sourcing'
  <2>1. \A p \in Op : Standing(disk[p]) \in Custody!Found(Standing(disk[p]))
    BY FoundNext, Stands
  <2>2. DiskAhead'
    BY <1>1, <2>1 DEF DiskAhead
  <2>3. Named'
    BY <1>1, RefTypes DEF Named, Exists
  <2> QED BY <1>1, <2>2, <2>3 DEF Sourcing
<1>8. RetiredHeld'
  BY <1>1, RefTypes DEF RetiredHeld, IsRetired
<1>9. Stale' /\ PlayRetires'
  BY <1>2, <1>4 DEF Stale, PlayRetires
<1>10. ParkedAsked'
  <2>1. \A h \in native.parked : h \in Op /\ native.phase[h] # "none"
    BY RefTypes DEF ParkedAsked, NativeType
  <2> QED BY <1>2, <2>1 DEF ParkedAsked
<1>11. EarlyKept' /\ SettledKnow'
  BY <1>5 DEF EarlyKept, Recorded, Reserved, SettledKnow, SettledKnows, MayGoOn
<1>12. OwnOp'
  BY <1>3 DEF OwnOp, Startable
<1>13. RefInv'
  BY <1>6, <1>7, <1>8, <1>9, <1>10, <1>11, <1>12, RefTogether
<1>14. \A o \in Op : Standings'[o] = Standing(disk[o]) /\ Standings[o] = Standing(records[o])
  BY <1>1 DEF Standings, CustodyStatus, Standing
<1>15. /\ Standings' \in [Op -> Custody!Status]
       /\ \A o \in Op : Standings'[o] \in Custody!Found(Standings[o])
  <2>1. Standings' = [o \in Op |-> CustodyStatus(o)'] /\ \A o \in Op : CustodyStatus(o)' \in Custody!Status
    BY DEF Standings, CustodyStatus, Custody!Status
  <2> QED BY <1>14, <2>1, RefTypes DEF DiskAhead
<1>16. Owners' = [t \in Targets |-> IF Owners[t] = "radio" THEN "quiet" ELSE Owners[t]]
  <2>1. ASSUME NEW t \in Targets
        PROVE  CustodyOwner(t)' = IF CustodyOwner(t) = "radio" THEN "quiet" ELSE CustodyOwner(t)
    <3>1. ~SoundsOn(t)'
      BY <1>3 DEF SoundsOn
    <3>2. SoundsOn(t) => native.hold[t] # 0 /\ native.hold[t] \in native.parked
      BY RefTypes DEF HoldInv, SoundsParked
    <3> QED BY <1>2, <3>1, <3>2 DEF CustodyOwner
  <2> QED BY <2>1 DEF Owners
<1>17. Sounding' = {}
  BY <1>3 DEF Sounding
<1>18. \A n : (n \in Revokeds <=> Returnable(n)) /\ (n \in Revokeds' <=> \E p \in Op : IsRetired(disk[p]) /\ disk[p].native = n)
  BY <1>1 DEF Revokeds, IsRetired, Returnable
<1>19. ASSUME NEW p \in Op, IsRetired(records[p]) PROVE IsRetired(disk[p]) /\ disk[p].native = records[p].native
  <2>1. disk[p].preempted /\ disk[p].stage # "none" /\ Exists(p)
    BY <1>19, RefTypes DEF Inv, Sealed, IsRetired
  <2>2. disk[p].native = records[p].native
    BY <1>19, RefTypes DEF IsRetired, RetiredHeld, GateInv, GateKnown, SealedHolds
  <2>3. Standing(records[p]) = "revoked"
    BY <1>19, <2>1 DEF Standing, IsRetired, Exists
  <2>4. Standing(disk[p]) = "revoked"
    BY <2>3, FoundNext, RefTypes DEF DiskAhead
  <2>5. IsRetired(disk[p])
    BY <2>1, <2>4, Stands
  <2> QED BY <2>2, <2>5
<1>20. Revokeds \subseteq Revokeds' /\ Revokeds' \subseteq Revokeds \cup ({native.hold[t] : t \in Targets} \ {0})
  <2>1. ASSUME NEW n \in Revokeds PROVE n \in Revokeds'
    BY <1>18, <1>19, <2>1 DEF Returnable
  <2>2. ASSUME NEW n \in Revokeds', n \notin Revokeds PROVE n # 0 /\ \E t \in Targets : native.hold[t] = n
    <3>1. PICK p \in Op : IsRetired(disk[p]) /\ disk[p].native = n
      BY <1>18, <2>2
    <3>2. ~IsRetired(records[p])
      BY <1>18, <1>19, <2>2, <3>1 DEF Returnable
    <3> QED BY <1>18, <2>2, <3>1, <3>2, RefTypes DEF RetiredHeld
  <2> QED BY <2>1, <2>2
<1>21. Revokeds' # Revokeds => \E o \in Op : Standings[o] = "revoking" /\ Standings'[o] = "revoked"
  <2>1. SUFFICES ASSUME Revokeds' # Revokeds PROVE \E o \in Op : Standings[o] = "revoking" /\ Standings'[o] = "revoked"
    OBVIOUS
  <2>2. PICK n : n \in Revokeds' /\ n \notin Revokeds
    BY <1>20, <2>1
  <2>3. PICK p \in Op : IsRetired(disk[p]) /\ disk[p].native = n
    BY <1>18, <2>2
  <2>4. ~IsRetired(records[p])
    BY <1>18, <1>19, <2>2, <2>3 DEF Returnable
  <2>5. disk[p].stage # "none"
    BY <2>3, RefTypes DEF Inv, Sealed, IsRetired
  <2>6. Standing(disk[p]) = "revoked"
    BY <2>3, <2>5, Stands
  <2>7. Standing(records[p]) \in {"revoking", "revoked"}
    BY <2>6, FoundNext, Stands, RefTypes DEF DiskAhead
  <2>8. Standing(records[p]) # "revoked"
    BY <2>4 DEF Standing, IsRetired
  <2> QED BY <1>14, <2>6, <2>7, <2>8
<1>22. coord'.enabled \in BOOLEAN /\ (coord'.enabled => \A o \in Op : Standings'[o] \notin {"open", "revoking"})
  <2>1. Gate \in BOOLEAN /\ (Gate => \A o \in Op : disk[o].stage # "none" => disk[o].terminal)
    BY DEF Gate
  <2>2. \A o \in Op : (disk[o].stage # "none" => disk[o].terminal) => Standing(disk[o]) \notin {"open", "revoking"}
    BY DEF Standing
  <2> HIDE DEF Gate
  <2> QED BY <1>1, <1>14, <2>1, <2>2
<1>23. Custody!Restart
  BY <1>2, <1>15, <1>16, <1>17, <1>20, <1>21, <1>22
     DEF Custody!Restart, Custody!Unresolved, Standings, Owners, Sounding, Revokeds
<1> QED BY <1>13, <1>23 DEF Promised, Custody!Next
-----------------------------------------------------------------------------
(* What Native loses, and what a preemption mutes *)

\* Native loses a hold in a restart only.
NoneLost == \A p \in Op : native'.phase[p] = "lost" => native.phase[p] = "lost"

LEMMA Answered ==
  ASSUME Inv, NEW o, NEW h, NEW t, NEW i,
         \/ native' \in {native, IntentCaptured(o), Held(o, t), Rejected(o), ResultRead(h), Suspend(h)}
         \/ native' \in SuspendUncertain(h)
         \/ native' \in {Intend(native), Intend(Reacquiring(h)), ReacquireFailed(h), Returned(h, t, i)}
  PROVE  NoneLost
<1>1. native \in NativeType
  BY HoldTypes
<1>2. \/ native'.phase = native.phase
      \/ \E k, v : v # "lost" /\ native'.phase = [native.phase EXCEPT ![k] = v]
  <2>1. CASE native' \in {native, IntentCaptured(o), Intend(native)}
    BY <1>1, <2>1 DEF IntentCaptured, Intend, NativeType
  <2>2. CASE native' \in {Held(o, t), Rejected(o)}
    <3>1. \/ native'.phase = [native.phase EXCEPT ![o] = "prepared"]
          \/ native'.phase = [native.phase EXCEPT ![o] = "rejected"]
      BY <1>1, <2>2 DEF Held, Rejected, NativeType
    <3> QED BY <3>1
  <2>3. CASE native' = ResultRead(h)
    <3>1. CASE native.phase[h] # "unknown"
      BY <2>3, <3>1 DEF ResultRead
    <3>2. CASE native.phase[h] = "unknown"
      <4>1. PICK v \in {"suspended", "prepared"} : native' = [native EXCEPT !.phase[h] = v]
        BY <2>3, <3>2 DEF ResultRead
      <4>2. native'.phase = [native.phase EXCEPT ![h] = v]
        BY <1>1, <4>1 DEF NativeType
      <4> QED BY <4>2
    <3> QED BY <3>1, <3>2
  <2>4. CASE native' \in {Suspend(h)} \cup SuspendUncertain(h)
    <3>1. \/ native'.phase = [native.phase EXCEPT ![h] = "suspended"]
          \/ native'.phase = [native.phase EXCEPT ![h] = "unknown"]
      BY <1>1, <2>4 DEF Suspend, SuspendUncertain, NativeType
    <3> QED BY <3>1
  <2>5. CASE native' \in {Intend(Reacquiring(h)), ReacquireFailed(h)}
    <3>1. \/ native'.phase = [native.phase EXCEPT ![h] = "reacquiring"]
          \/ native'.phase = [native.phase EXCEPT ![h] = "unknown"]
      BY <1>1, <2>5 DEF Intend, Reacquiring, ReacquireFailed, NativeType
    <3> QED BY <3>1
  <2>6. CASE native' = Returned(h, t, i)
    BY <1>1, <2>6 DEF Returned, NativeType
  <2> QED BY <2>1, <2>2, <2>3, <2>4, <2>5, <2>6
<1>3. CASE native'.phase = native.phase
  BY <1>3 DEF NoneLost
<1>4. CASE \E k, v : v # "lost" /\ native'.phase = [native.phase EXCEPT ![k] = v]
  <2>1. PICK k, v : v # "lost" /\ native'.phase = [native.phase EXCEPT ![k] = v]
    BY <1>4
  <2>2. \A p \in Op : native'.phase[p] \in {native.phase[p], v}
    BY <1>1, <2>1 DEF NativeType
  <2> QED BY <2>1, <2>2 DEF NoneLost
<1> QED BY <1>2, <1>3, <1>4

\* What is left to show of a step that begins no drain.
LEMMA MutedAfter ==
  ASSUME RefInv, Muted, NoneLost, SoundsCalm,
         play'.step # "idle" => play.step # "idle" /\ play'.hold = play.hold /\ play'.target = play.target,
         play'.step = "record" => play.step = "record"
  PROVE  Muted'
<1>1. play.step # "idle" => play.hold \in Op /\ play.target \in Targets
  BY RefTypes, GateTypes, HoldTypes DEF Inv, PlayPlaced, PlayAgrees
<1>2. play'.step # "idle" => native'.phase[play'.hold] # "lost"
  BY <1>1 DEF Muted, NoneLost
<1>3. play'.step = "record" => ~(sender'.main.tgt = play'.target /\ sender'.main.phase \in {"starting", "playing"})
  BY <1>1 DEF Muted, SoundsCalm, SoundsOn
<1> QED BY <1>2, <1>3 DEF Muted, SoundsOn

LEMMA OperationLoses ==
  ASSUME RefInv, NEW o \in Op, Operation(o)
  PROVE  NoneLost
<1>0. Inv
  BY RefTypes
<1>1. CASE PreflightJournal(o)
  <2>1. native' \in {native, IntentCaptured(o)}
    BY <1>1 DEF PreflightJournal
  <2> QED BY <1>0, <2>1, Answered
<1>2. CASE NativeReserve(o)
  <2>1. \E h, t : native' \in {native, ResultRead(h), Held(o, t), Rejected(o)}
    BY <1>2 DEF NativeReserve, NativeCall
  <2> QED BY <1>0, <2>1, Answered
<1>3. CASE SuspendRead(o) \/ StartRead(o)
  <2>1. \E h : native' \in {native, ResultRead(h)}
    BY <1>3 DEF SuspendRead, StartRead, NativeCall
  <2> QED BY <1>0, <2>1, Answered
<1>4. CASE SuspendCall(o)
  <2>1. \E h : native' \in {native, Suspend(h)} \/ native' \in SuspendUncertain(h)
    BY <1>4 DEF SuspendCall, NativeCall
  <2> QED BY <1>0, <2>1, Answered
<1>5. CASE native' = native
  BY <1>5 DEF NoneLost
<1>6. \/ PreflightJournal(o) \/ NativeReserve(o) \/ SuspendRead(o) \/ StartRead(o) \/ SuspendCall(o)
      \/ native' = native
  BY DEF Operation, OperationStep, StillCurrent, AdoptFence, Complete, PreflightCall, PreflightRecord, PreflightReject,
     ReserveJournal, NativeRecord, SenderReserve, SenderRecord, CancelJournal, CancelCall, CancelRecord, Admit, Advance,
     FinishRecord, StopCall, StopRecord, VolumeCall, StartCall, FinishWait, FinishResult, peerVars
<1> QED BY <1>1, <1>2, <1>3, <1>4, <1>5, <1>6

\* No call of a thread lets a receiver sound, but the one of a start; that one knows better than to
\* start under a preemption that has drained its receiver.
LEMMA OperationMutes ==
  ASSUME RefInv, Muted, NEW o \in Op, Operation(o)
  PROVE  Muted'
<1>0. Inv /\ HoldInv /\ ThreadAgrees(o) /\ RecordsAgree /\ SourcesAgree /\ NoneLost /\ play' = play
  <2>1. play' = play
    BY DEF Operation, StillCurrent, AdoptFence, Complete
  <2>2. ThreadAgrees(o)
    BY RefTypes, GateTypes DEF ThreadsAgree
  <2> QED BY <2>1, <2>2, RefTypes, GateTypes, OperationLoses
<1>1. CASE SoundsCalm
  BY <1>0, <1>1, MutedAfter
<1>2. CASE PreflightCall(o)
  <2>1. pc[o] = <<"preflight", "call">>
    BY <1>2 DEF PreflightCall, At
  <2>2. Exists(o) /\ records[o].target = cmd[o].target /\ ~Starting(o)
    BY <1>0, <2>1, LiveExists DEF ThreadAgrees, Recorded, Starting
  <2>3. sender' = sender \/ sender' = Preflighted(o, cmd[o].target, client.holds[cmd[o].target])
    BY <1>2 DEF PreflightCall, SenderCall
  <2> QED BY <1>0, <1>1, <2>2, <2>3, PreflightedCalm, SenderStays
<1>3. CASE SenderReserve(o)
  <2>1. ~Starting(o)
    BY <1>3 DEF SenderReserve, At, Starting
  <2>2. sender' = sender \/ (BindAccepted(o, records[o].native) /\ sender' = Bound(o, records[o].native))
    BY <1>3 DEF SenderReserve, SenderCall
  <2> QED BY <1>0, <1>1, <2>1, <2>2, BoundCalm, SenderStays
<1>4. CASE CancelCall(o) \/ StopCall(o) \/ VolumeCall(o)
  <2>1. sender' \in {sender, CancelledSource(o), Stopped(o), VolumeSet(o)}
    BY <1>4 DEF CancelCall, StopCall, VolumeCall, SenderCall
  <2> QED BY <1>0, <1>1, <2>1, CancelledCalm, StoppedCalm, SenderStays
<1>5. CASE StartCall(o)
  <2>1. \/ sender' = sender
        \/ StartAccepted(records[o].sender, records[o].native) /\ sender' = StartedSource(records[o].sender)
    BY <1>5 DEF StartCall, SenderCall
  <2>2. CASE sender' = sender
    BY <1>1, <2>2, SenderStays
  <2>3. CASE StartAccepted(records[o].sender, records[o].native) /\ sender' = StartedSource(records[o].sender)
    <3>1. pc[o] = <<"start", "call">> /\ Starting(o) /\ MayGoOn(o) /\ native' = native
      BY <1>5 DEF StartCall, At, Starting, MayGoOn
    <3>2. MayStart(o) /\ \A u \in Targets : SoundsOn(u)' => u = records[o].target
      BY <1>0, <2>3, <3>1, StartedCalm
    <3>3. ~SourceOperation(o)
      BY <1>0, <3>1 DEF ThreadAgrees
    <3>4. ~NotStartable(o)
      BY <3>2 DEF MayStart, NotStartable
    <3>5. ~Mutes(o)
      BY <3>1, <3>3, <3>4, RefTypes DEF SettledKnow, SettledKnows
    <3>6. play.step = "record" => play.target \in Targets /\ play.target # records[o].target
      BY <3>5, RefTypes, GateTypes DEF Mutes, PlayAgrees
    <3>7. play.step = "record" => ~SoundsOn(play.target)'
      BY <1>0, <3>2, <3>6 DEF SoundsOn
    <3> QED BY <1>0, <3>1, <3>7 DEF Muted
  <2> QED BY <2>1, <2>2, <2>3
<1>6. \/ PreflightCall(o) \/ SenderReserve(o) \/ CancelCall(o) \/ StopCall(o) \/ VolumeCall(o) \/ StartCall(o)
      \/ sender' = sender
  BY DEF Operation, OperationStep, StillCurrent, AdoptFence, Complete, PreflightJournal, PreflightRecord, PreflightReject,
     ReserveJournal, NativeReserve, NativeRecord, SenderRecord, CancelJournal, CancelRecord, Admit, Advance,
     FinishRecord, StopRecord, SuspendRead, SuspendCall, StartRead, FinishWait, FinishResult, peerVars
<1> QED BY <1>1, <1>2, <1>3, <1>4, <1>5, <1>6, SenderStays

\* Nothing but its drain brings a preemption to the record of it.
LEMMA CallbackMutes ==
  ASSUME RefInv, Muted, PreemptJournal \/ PreemptRecover \/ PreemptRecord \/ PreemptObserve
  PROVE  Muted'
<1>0. play \in PlayType /\ play.step # "idle" /\ UNCHANGED <<native, sender>>
  <2>1. play.step \in {"journal", "recover", "record", "observe"}
    BY DEF PreemptJournal, PreemptRecover, PreemptRecord, PreemptObserve, PlayStep
  <2> QED BY <2>1, RefTypes, Readers DEF PreemptJournal, PreemptRecover, PreemptRecord, PreemptObserve, peerVars
<1>1. \/ \E k, s : s # "record" /\ play' = [play EXCEPT !.key = k, !.step = s]
      \/ \E s : s # "record" /\ play' = [play EXCEPT !.step = s]
  <2>1. CASE PreemptJournal
    BY <2>1 DEF PreemptJournal, PlayStep, Write
  <2>2. CASE PreemptRecover
    BY <2>2 DEF PreemptRecover, PlayStep, Write
  <2>3. CASE PreemptRecord
    BY <2>3 DEF PreemptRecord, PlayStep, Write
  <2>4. CASE PreemptObserve
    BY <2>4 DEF PreemptObserve, PlayStep
  <2> QED BY <2>1, <2>2, <2>3, <2>4
<1>2. play'.hold = play.hold /\ play'.target = play.target /\ play'.step # "record"
  BY <1>0, <1>1 DEF PlayType
<1>3. NoneLost /\ SoundsCalm
  BY <1>0, SenderStays DEF NoneLost
<1> QED BY <1>0, <1>2, <1>3, MutedAfter

LEMMA PreemptDrainMutes ==
  ASSUME RefInv, Muted, GateInv', PreemptDrain
  PROVE  Muted'
<1>1. /\ native' = native /\ play.step = "drain" /\ play.hold \in Op
      /\ \E s \in {"record", "refused"} : play' = [play EXCEPT !.step = s]
  <2>1. play.step = "drain"
    BY DEF PreemptDrain
  <2>2. play.hold \in Op
    BY <2>1, RefTypes DEF Inv, PlayPlaced
  <2> QED BY <2>1, <2>2 DEF PreemptDrain, SenderCall, PlayStep
<1>2. play'.hold = play.hold
  BY <1>1, RefTypes, Readers DEF PlayType
<1>3. play'.step = "record" => \A u : u = play'.target => ~SoundsOn(u)'
  BY PreemptDrainMaps
<1>4. PICK u : u = play'.target
  OBVIOUS
<1>5. play'.step = "record" => ~SoundsOn(play.target)'
  BY <1>3, <1>4 DEF SoundsOn
<1> QED BY <1>1, <1>2, <1>5 DEF Muted

LEMMA ExplicitPlayMutes ==
  ASSUME RefInv, NEW t \in Targets, ExplicitPlay(t)
  PROVE  Muted'
<1> DEFINE h == native.hold[t]
<1>0. play \in PlayType /\ native \in NativeType /\ play.step = "idle"
  BY RefTypes, Readers DEF ExplicitPlay
<1>1. CASE h # 0 /\ Reacquirable(h)
  <2>1. /\ native' = Intend(Reacquiring(h))
        /\ play' = [step |-> "journal", id |-> play.id + 1, target |-> t, hold |-> h, key |-> 0]
    BY <1>1 DEF ExplicitPlay
  <2>2. h \in Op
    BY <1>0, <1>1, OpBasic DEF NativeType
  <2> HIDE DEF h
  <2>3. native'.phase[h] = "reacquiring"
    BY <1>0, <2>1, <2>2 DEF Intend, Reacquiring, NativeType
  <2>4. play'.step = "journal" /\ play'.hold = h
    BY <2>1
  <2> QED BY <2>3, <2>4 DEF Muted
<1>2. CASE ~(h # 0 /\ Reacquirable(h))
  <2>1. play' = [play EXCEPT !.id = @ + 1]
    BY <1>2 DEF ExplicitPlay
  <2>2. play'.step = "idle"
    BY <1>0, <2>1 DEF PlayType
  <2> QED BY <2>2 DEF Muted
<1> QED BY <1>1, <1>2

\* The others leave the preemption as it is, or end it.
LEMMA OthersMute ==
  ASSUME RefInv, Muted, Execute \/ Sounds \/ Expires \/ PreemptEnd \/ NativeTimeout \/ Poll \/ PollNext \/ Crash
  PROVE  Muted'
<1>0. Inv /\ play \in PlayType
  BY RefTypes, Readers
<1>1. CASE Execute \/ Poll
  <2>1. UNCHANGED <<native, sender, play>>
    BY <1>1 DEF Execute, Poll, PollUnchanged, peerVars
  <2> QED BY <2>1, SenderStays, MutedAfter DEF NoneLost
<1>2. CASE Sounds \/ Expires
  <2>1. UNCHANGED <<native, play>>
    BY <1>2 DEF Sounds, Expires
  <2>2. PICK n : sender \in SenderUpTo(n) /\ sender.main \in SourceUpTo(n) /\ sender.cand \in SourceUpTo(n)
    BY RefTypes, SenderKnown
  <2>3. \/ sender.main.phase = "starting" /\ sender' = [sender EXCEPT !.main.phase = "playing"]
        \/ sender' = [sender EXCEPT !.main.phase = "cancelled"]
        \/ sender' = [sender EXCEPT !.cand.phase = "cancelled"]
    BY <1>2 DEF Sounds, Expires
  <2>4. /\ sender'.main.tgt = sender.main.tgt
        /\ sender'.main.phase \in {"starting", "playing"} => sender.main.phase \in {"starting", "playing"}
    BY <2>2, <2>3 DEF SenderUpTo, SourceUpTo
  <2>5. SoundsCalm
    BY <2>4 DEF SoundsCalm, SoundsOn
  <2> QED BY <2>1, <2>5, MutedAfter DEF NoneLost
<1>3. CASE PreemptEnd \/ Crash
  <2>1. play' = [NoPlay EXCEPT !.id = play.id]
    BY <1>3 DEF PreemptEnd, Crash
  <2>2. play'.step = "idle"
    BY <2>1 DEF NoPlay
  <2> QED BY <2>2 DEF Muted
<1>4. CASE NativeTimeout
  <2>1. play' = play /\ sender' = sender /\ native' = ReacquireFailed(play.hold)
    BY <1>4 DEF NativeTimeout
  <2>2. NoneLost
    BY <1>0, <2>1, Answered
  <2> QED BY <2>1, <2>2, SenderStays, MutedAfter
<1>5. CASE PollNext
  <2>1. UNCHANGED <<sender, play>>
    BY <1>5 DEF PollNext, PollRelease, PollObserve, PollNative, PollCancelled, PollPreempted, PollSender, PollSettle,
       PollApply, PollUnchanged, peerVars
  <2>2. \E h : native' \in {native, ResultRead(h)}
    BY <1>5 DEF PollNext, PollRelease, PollObserve, PollNative, PollCancelled, PollPreempted, PollSender, PollSettle,
       PollApply, peerVars
  <2>3. NoneLost
    BY <1>0, <2>2, Answered
  <2> QED BY <2>1, <2>3, SenderStays, MutedAfter
<1> QED BY <1>1, <1>2, <1>3, <1>4, <1>5
-----------------------------------------------------------------------------
(* The radio implements RadioCustody *)

LEMMA NothingRefined == Init => RefInv /\ Muted
<1> SUFFICES ASSUME Init PROVE RefInv /\ Muted
  OBVIOUS
<1>1. /\ native.hold = [t \in Targets |-> 0] /\ native.parked = {} /\ native.fresh = {}
      /\ sender.main = NoSource /\ sender.cand = NoSource
      /\ producer.live = {} /\ pc = [o \in Op |-> <<"idle", "none">>]
      /\ coord.enabled = TRUE /\ play = NoPlay
      /\ records = [o \in Op |-> NoRecord] /\ disk = [o \in Op |-> NoRecord]
  BY DEF Init, ProducerInit, PeersInit
<1>2. /\ \A o \in Op : /\ records[o] = NoRecord /\ disk[o] = NoRecord
                       /\ pc[o] = <<"idle", "none">> /\ pc[o][1] = "idle"
      /\ NoRecord.stage = "none" /\ ~NoRecord.preempted /\ NoRecord.native = 0
      /\ play.step = "idle" /\ NoSource.src = 0 /\ NoSource.phase = "empty"
  BY <1>1 DEF NoRecord, NoPlay, NoSource
<1>3. OffIsQuiet /\ Named /\ Sourcing /\ Stale /\ ParkedAsked /\ PlayRetires
  BY <1>1, <1>2 DEF OffIsQuiet, Named, Sourcing, Stale, ParkedAsked, PlayRetires
<1>4. DiskAhead /\ RetiredHeld
  <2>1. \A o \in Op : disk[o] = records[o] /\ ~IsRetired(records[o])
    BY <1>2 DEF IsRetired
  <2>2. DiskAhead
    BY <2>1, FoundNext, Stands DEF DiskAhead
  <2> QED BY <2>1, <2>2 DEF RetiredHeld
<1>5. EarlyKept /\ SettledKnow
  <2>1. \A o \in Op : ~MayGoOn(o) /\ pc[o][1] # "reserve" /\ pc[o] # <<"suspend", "call">>
    BY <1>2 DEF MayGoOn
  <2> QED BY <1>2, <2>1 DEF EarlyKept, SettledKnow, SettledKnows
<1>6. OwnOp
  BY <1>1, <1>2 DEF OwnOp, Startable
<1>7. Muted
  BY <1>2 DEF Muted
<1> QED BY <1>3, <1>4, <1>5, <1>6, <1>7, NothingKnown DEF RefInv, RefKnown

LEMMA NothingMoves ==
  ASSUME RefInv, Muted, GateInv', UNCHANGED vars
  PROVE  RefInv' /\ Muted' /\ Promised
<1>1. UNCHANGED <<native, sender, records, disk, producer, cmd, pc, coord, play, poll>>
  BY DEF vars
<1>2. RefInv'
  <2>1. OffIsQuiet' /\ Stale' /\ ParkedAsked' /\ OwnOp' /\ Calmly /\ \A p \in Op : NotStartable(p) => NotStartable(p)'
    BY <1>1, RefTypes, SenderRests, CalmStays DEF OffIsQuiet, Stale, ParkedAsked
  <2>2. PlayRetires'
    BY <1>1, PlayRetiresStays DEF Returnable
  <2> QED BY <1>1, <2>1, <2>2, RestAfter
<1>3. Muted'
  BY <1>1, SenderStays, MutedAfter DEF NoneLost
<1>4. Promised
  <2>1. OwnersStay
    BY <1>1, SenderRests
  <2>2. Standings' = Standings /\ Revokeds' = Revokeds
    BY <1>1, JournalRests
  <2> QED BY <1>1, <2>1, <2>2, Unseen
<1> QED BY <1>2, <1>3, <1>4

LEMMA RefStep == RefInv /\ Muted /\ [Next]_vars => RefInv' /\ Muted' /\ Promised
<1> SUFFICES ASSUME RefInv, Muted, [Next]_vars PROVE RefInv' /\ Muted' /\ Promised
  OBVIOUS
<1>1. GateInv'
  BY GateStep DEF RefInv
<1>2. CASE UNCHANGED vars
  BY <1>1, <1>2, NothingMoves
<1>3. CASE Execute
  BY <1>1, <1>3, ExecuteMaps, OthersMute
<1>4. CASE \E o \in Op : Operation(o)
  BY <1>1, <1>4, OperationMaps, OperationMutes
<1>5. CASE Sounds \/ Expires
  BY <1>1, <1>5, SenderMaps, OthersMute
<1>6. CASE \E t \in Targets : ExplicitPlay(t)
  BY <1>1, <1>6, ExplicitPlayMaps, ExplicitPlayMutes
<1>7. CASE PreemptNext
  <2>1. CASE PreemptJournal
    BY <1>1, <2>1, PreemptJournalMaps, CallbackMutes
  <2>2. CASE PreemptRecover
    BY <1>1, <2>2, PreemptRecoverMaps, CallbackMutes
  <2>3. CASE PreemptDrain
    BY <1>1, <2>3, PreemptDrainMaps, PreemptDrainMutes
  <2>4. CASE PreemptRecord
    BY <1>1, <2>4, PreemptRecordMaps, CallbackMutes
  <2>5. CASE PreemptObserve
    BY <1>1, <2>5, PreemptObserveMaps, CallbackMutes
  <2>6. CASE PreemptEnd
    BY <1>1, <2>6, PreemptEndMaps, OthersMute
  <2> QED BY <1>7, <2>1, <2>2, <2>3, <2>4, <2>5, <2>6 DEF PreemptNext
<1>8. CASE NativeTimeout
  BY <1>1, <1>8, NativeTimeoutMaps, OthersMute
<1>9. CASE Poll
  BY <1>1, <1>9, PollMaps, OthersMute
<1>10. CASE PollNext
  <2>1. RefInv' /\ Promised
    BY <1>1, <1>10, PollReleaseMaps, PollShowsMap, PollNativeMaps, PollCancelledMaps, PollSenderMaps, PollSettleMaps
       DEF PollNext
  <2> QED BY <1>10, <2>1, OthersMute
<1>11. CASE Crash
  BY <1>1, <1>11, CrashMaps, OthersMute
<1> QED BY <1>2, <1>3, <1>4, <1>5, <1>6, <1>7, <1>8, <1>9, <1>10, <1>11 DEF Next

\* RefInv and Muted are invariants of the radio: beside what GateInv knows, the journal is at most one
\* write ahead of the memory (storeLocked), a source that is settled, about to be, or silenced for an
\* explicit play is not one a thread may still start (radio_producer_custody.go), and the hold a
\* preemption asks for stays until it ends (radio_producer_preempt.go).
THEOREM RefInvAlways == Spec => [](RefInv /\ Muted)
<1> QED BY NothingRefined, RefStep, PTL DEF Spec

\* The radio keeps the promise of RadioCustody.  Whatever its threads, journals (radio_producer.go),
\* peers, preemptions (radio_producer_preempt.go), polls (radio_result.go) and restarts
\* (radio_producer_bootstrap.go) do, and in whatever order they do it, a receiver is taken by an
\* operation that opened, sounds only for one that is unresolved, and goes back to Spotify only from a
\* revoked hold and in silence.
THEOREM RadioKeepsItsPromise == Spec => RefinesCustody
<1>1. RefInv /\ Muted /\ [Next]_vars => [Custody!Next]_(Custody!custodyVars)
  BY RefStep DEF Promised
<1> QED BY <1>1, InitRefines, RefInvAlways, PTL DEF RefinesCustody, Custody!Spec, Spec
=============================================================================
