-------------------------- MODULE AttentionProofs ---------------------------
(* Machine-checked proofs about the composition of the manager's attention   *)
(* owner with the native ledger, for every set of devices and every bound.   *)
EXTENDS Attention, NativeAttentionProofs

-----------------------------------------------------------------------------
(* Types *)

DrainType == [op : Nat, req : Request]
OutputType == [sid : Nat, dev : Devices, origin : Origin, inc : Nat, retired : BOOLEAN,
               how : {"none", "no_submission", "release", "recover"}, rec : AttemptType \cup {None},
               result : AnswerType \cup {None}, rejected : BOOLEAN,
               consumed : SUBSET [proc : Nat, drain : DrainType \cup {None}]]
SessionType == [mproc : Nat, retired : BOOLEAN]
JournalType(j) ==
  /\ j = [sess |-> j.sess, out |-> j.out]
  /\ DOMAIN j.sess \subseteq Nat /\ j.sess \in [DOMAIN j.sess -> SessionType]
  /\ DOMAIN j.out \subseteq Request /\ j.out \in [DOMAIN j.out -> OutputType]

MgrType ==
  [proc : Nat, rev : Nat, restore : Nat, nonce : Nat, active : BOOLEAN, pendingRelease : BOOLEAN,
   nativePending : BOOLEAN, busy : BOOLEAN, settling : BOOLEAN, direct : Nat, legacy : Nat, deleting : BOOLEAN,
   fault : BOOLEAN, imported : BOOLEAN, grants : [Devices -> GrantType \cup {None}]]

Custodial == {"scan", "recover", "store", "prove"}
Reconciling == {"poll", "detect", "reserve", "recheck", "put", "release", "terminal", "retire"}
PCs == {"idle", "finish"} \cup Reconciling \cup Custodial
CallType ==
  [pc : PCs, mode : {"full", "target", "settle"}, id : Devices \cup {None}, nonce : Nat, rev : Nat,
   restore : Nat, active : BOOLEAN, todo : SUBSET Devices, dev : Devices \cup {None},
   next : {"idle", "poll", "finish", "terminal"}, obs : Identities \cup {None}, op : Nat,
   cmd : CommandType \cup {None}, out : Request \cup {None}, answer : AnswerType \cup {None}]

Typed == /\ mgr \in MgrType /\ call \in CallType /\ JournalType(journal) /\ JournalType(disk)
         /\ late \subseteq CommandType /\ nreq \in 0 .. MaxRequests + MaxAttempts /\ faults \in 0 .. MaxFaults

-----------------------------------------------------------------------------
(* The mutex discipline and the structure of the journal *)

\* What the flags of the owner say of each other and of where the bridge is.
Disciplined ==
  /\ mgr.busy = (call.pc # "idle")
  /\ mgr.settling => call.mode = "settle" /\ call.pc # "idle" /\ mgr.direct = 0
  /\ mgr.fault => call.pc \in {"idle", "finish"}
  /\ ~mgr.fault => journal = disk
  /\ call.pc \in Custodial => mgr.imported /\ mgr.direct = 0 /\ ~mgr.settling
  /\ mgr.imported => ~mgr.active
  /\ mgr.deleting => call.pc = "idle" /\ mgr.direct > 0 /\ OpenSessions(disk) = {} /\ ~mgr.fault
  /\ mgr.direct <= MaxDirect
  /\ call.pc \in Reconciling => mgr.nonce # 0

\* Sessions are numbered from 1, and at most one is open: the owner's.
Counts(j) == \E n \in 0 .. MaxSessions : DOMAIN j.sess = 1 .. n
Sessions ==
  /\ Counts(journal) /\ Counts(disk)
  /\ mgr.nonce # 0 => mgr.nonce \in DOMAIN journal.sess
  /\ \A s, t \in OpenSessions(disk) : s = t
  /\ ~mgr.imported /\ ~mgr.fault =>
       /\ OpenSessions(journal) \subseteq {mgr.nonce}
       /\ OpenSessions(journal) # {} => mgr.active \/ mgr.pendingRelease
  /\ MaxLegacy = 0 => mgr.legacy = 0 /\ (mgr.active /\ ~mgr.fault => mgr.nonce \in OpenSessions(journal))

\* What loadCustody checks of an output, and that the room's sessions own the outputs.
OutputSound(j, q) ==
  LET o == j.out[q]
  IN /\ o.origin.req = q /\ o.sid \in DOMAIN j.sess
     /\ o.rejected => o.rec # None /\ o.result = None /\ ~o.retired
     /\ o.retired => \/ o.how \in {"no_submission", "release"}
                     \/ o.rec # None /\ o.result # None /\ Proves(o.result)
     /\ MaxLegacy = 0 => (j.sess[o.sid].retired => o.retired)
Sound(j) == \A q \in DOMAIN j.out : OutputSound(j, q)

\* The original BEGIN of a grant is in the journal, and recovery has not tried it while the bridge
\* may still release the grant.
Placed(g) ==
  LET q == g.origin.req
  IN /\ q \in DOMAIN journal.out /\ journal.out[q].origin = g.origin
     /\ ~mgr.imported \/ call.pc \in Reconciling => journal.out[q].rec = None
GrantsPlaced ==
  /\ \A d \in Granted : Placed(mgr.grants[d])
  /\ call.todo \subseteq Granted

\* Where the bridge is, its registers name what they are about.
CallPlaced ==
  LET c == call.cmd
      d == call.dev
      o == disk.out[call.out]
      b == disk.out[c.req]
  IN /\ call.pc \in {"reserve", "recheck"} => call.id \in Devices
     /\ call.pc = "reserve" => call.obs \in Identities /\ call.obs.dev = call.id
     /\ call.pc = "recheck" => /\ c \in CommandType /\ c.action = "begin" /\ c.exp.dev = call.id
                               /\ c.req \in DOMAIN disk.out /\ b.rec = None /\ b.dev = call.id
                               /\ b.origin = [proc |-> c.exp.proc, req |-> c.req]
     /\ call.pc = "put" => d \in Granted /\ c = mgr.grants[d].cmd
     /\ call.pc \in {"detect", "terminal", "retire"} => d \in Granted
     /\ call.pc = "detect" => call.next # "idle"
     /\ call.pc \in {"recover", "store", "prove"} =>
          call.out \in DOMAIN disk.out /\ ~o.retired /\ o.rec # None
     /\ call.pc = "recover" => /\ ~o.rejected /\ o.result = None /\ o.rec.req = c.req
                               /\ c \in CommandType /\ c.action = "recover"
                               /\ c.origin = o.origin /\ c.exp.dev = o.dev
     /\ call.pc = "store" => ~o.rejected /\ call.answer \in AnswerType
     /\ call.pc = "prove" => o.result # None

Structure == Typed /\ Disciplined /\ Sessions /\ Sound(disk) /\ GrantsPlaced /\ CallPlaced

-----------------------------------------------------------------------------
(* Records with one field changed *)

LEMMA MgrWith ==
  ASSUME NEW m \in MgrType
  PROVE  /\ {m.proc, m.rev, m.restore, m.nonce, m.direct, m.legacy} \subseteq Nat
         /\ {m.active, m.pendingRelease, m.nativePending, m.busy, m.settling, m.deleting, m.fault, m.imported}
              \subseteq BOOLEAN
         /\ m.grants \in [Devices -> GrantType \cup {None}]
         /\ \A k \in Nat : /\ [m EXCEPT !.rev = k] \in MgrType /\ [m EXCEPT !.restore = k] \in MgrType
                           /\ [m EXCEPT !.nonce = k] \in MgrType /\ [m EXCEPT !.direct = k] \in MgrType
                           /\ [m EXCEPT !.legacy = k] \in MgrType
         /\ \A b \in BOOLEAN :
              /\ [m EXCEPT !.active = b] \in MgrType /\ [m EXCEPT !.pendingRelease = b] \in MgrType
              /\ [m EXCEPT !.nativePending = b] \in MgrType /\ [m EXCEPT !.busy = b] \in MgrType
              /\ [m EXCEPT !.settling = b] \in MgrType /\ [m EXCEPT !.deleting = b] \in MgrType
              /\ [m EXCEPT !.fault = b] \in MgrType /\ [m EXCEPT !.imported = b] \in MgrType
         /\ \A g \in [Devices -> GrantType \cup {None}] : [m EXCEPT !.grants = g] \in MgrType
         /\ \A d \in Devices, g \in GrantType \cup {None} : [m EXCEPT !.grants[d] = g] \in MgrType
BY DEF MgrType

LEMMA CallWith ==
  ASSUME NEW c \in CallType
  PROVE  /\ c.pc \in PCs /\ {c.nonce, c.rev, c.restore, c.op} \subseteq Nat /\ c.active \in BOOLEAN
         /\ c.id \in Devices \cup {None} /\ c.dev \in Devices \cup {None} /\ c.todo \subseteq Devices
         /\ c.next \in {"idle", "poll", "finish", "terminal"} /\ c.obs \in Identities \cup {None}
         /\ c.cmd \in CommandType \cup {None} /\ c.out \in Request \cup {None}
         /\ c.answer \in AnswerType \cup {None}
         /\ \A x \in PCs : [c EXCEPT !.pc = x] \in CallType
         /\ \A x \in {"full", "target", "settle"} : [c EXCEPT !.mode = x] \in CallType
         /\ \A x \in Devices \cup {None} : [c EXCEPT !.id = x] \in CallType /\ [c EXCEPT !.dev = x] \in CallType
         /\ \A x \in Nat : /\ [c EXCEPT !.nonce = x] \in CallType /\ [c EXCEPT !.rev = x] \in CallType
                           /\ [c EXCEPT !.restore = x] \in CallType /\ [c EXCEPT !.op = x] \in CallType
         /\ \A x \in BOOLEAN : [c EXCEPT !.active = x] \in CallType
         /\ \A x \in SUBSET Devices : [c EXCEPT !.todo = x] \in CallType
         /\ \A x \in {"idle", "poll", "finish", "terminal"} : [c EXCEPT !.next = x] \in CallType
         /\ \A x \in Identities \cup {None} : [c EXCEPT !.obs = x] \in CallType
         /\ \A x \in CommandType \cup {None} : [c EXCEPT !.cmd = x] \in CallType
         /\ \A x \in Request \cup {None} : [c EXCEPT !.out = x] \in CallType
         /\ \A x \in AnswerType \cup {None} : [c EXCEPT !.answer = x] \in CallType
<1> USE DEF CallType
<1>1. /\ c.pc \in PCs /\ {c.nonce, c.rev, c.restore, c.op} \subseteq Nat /\ c.active \in BOOLEAN
      /\ c.id \in Devices \cup {None} /\ c.dev \in Devices \cup {None} /\ c.todo \subseteq Devices
      /\ c.next \in {"idle", "poll", "finish", "terminal"} /\ c.obs \in Identities \cup {None}
      /\ c.cmd \in CommandType \cup {None} /\ c.out \in Request \cup {None}
      /\ c.answer \in AnswerType \cup {None}
  OBVIOUS
<1>2. /\ \A x \in PCs : [c EXCEPT !.pc = x] \in CallType
      /\ \A x \in {"full", "target", "settle"} : [c EXCEPT !.mode = x] \in CallType
  OBVIOUS
<1>3. \A x \in Devices \cup {None} : [c EXCEPT !.id = x] \in CallType /\ [c EXCEPT !.dev = x] \in CallType
  OBVIOUS
<1>4. \A x \in Nat : /\ [c EXCEPT !.nonce = x] \in CallType /\ [c EXCEPT !.rev = x] \in CallType
                     /\ [c EXCEPT !.restore = x] \in CallType /\ [c EXCEPT !.op = x] \in CallType
  OBVIOUS
<1>5. /\ \A x \in BOOLEAN : [c EXCEPT !.active = x] \in CallType
      /\ \A x \in SUBSET Devices : [c EXCEPT !.todo = x] \in CallType
  OBVIOUS
<1>6. /\ \A x \in {"idle", "poll", "finish", "terminal"} : [c EXCEPT !.next = x] \in CallType
      /\ \A x \in Identities \cup {None} : [c EXCEPT !.obs = x] \in CallType
  OBVIOUS
<1>7. /\ \A x \in CommandType \cup {None} : [c EXCEPT !.cmd = x] \in CallType
      /\ \A x \in Request \cup {None} : [c EXCEPT !.out = x] \in CallType
      /\ \A x \in AnswerType \cup {None} : [c EXCEPT !.answer = x] \in CallType
  OBVIOUS
<1> QED BY <1>1, <1>2, <1>3, <1>4, <1>5, <1>6, <1>7

\* An output is written, a session is written; everything else of the journal stays.
Holds(j, k, q, o) ==
  /\ JournalType(k) /\ k.sess = j.sess /\ DOMAIN k.out = DOMAIN j.out \cup {q} /\ k.out[q] = o
  /\ \A p \in DOMAIN j.out \ {q} : k.out[p] = j.out[p]
Enters(j, k, s, x) ==
  /\ JournalType(k) /\ k.out = j.out /\ DOMAIN k.sess = DOMAIN j.sess \cup {s} /\ k.sess[s] = x
  /\ \A t \in DOMAIN j.sess \ {s} : k.sess[t] = j.sess[t]

LEMMA OutputHeld ==
  ASSUME NEW j, JournalType(j), NEW q \in Request
  PROVE  /\ \A o \in OutputType : Holds(j, [j EXCEPT !.out = Put(@, q, o)], q, o)
         /\ q \in DOMAIN j.out =>
              /\ j.out[q] \in OutputType
              /\ \A o \in OutputType : Holds(j, [j EXCEPT !.out[q] = o], q, o)
<1>1. ASSUME NEW o \in OutputType PROVE Holds(j, [j EXCEPT !.out = Put(@, q, o)], q, o)
  <2> DEFINE f == Put(j.out, q, o)
  <2>1. /\ DOMAIN f = DOMAIN j.out \cup {q} /\ f \in [DOMAIN f -> OutputType] /\ DOMAIN f \subseteq Request
        /\ f[q] = o /\ \A p \in DOMAIN j.out \ {q} : f[p] = j.out[p]
    BY DEF JournalType, Put
  <2> HIDE DEF f
  <2>2. Holds(j, [j EXCEPT !.out = f], q, o)
    BY <2>1 DEF JournalType, Holds
  <2> QED BY <2>2 DEF f
<1>2. ASSUME q \in DOMAIN j.out, NEW o \in OutputType PROVE Holds(j, [j EXCEPT !.out[q] = o], q, o)
  BY <1>2 DEF JournalType, Holds
<1> QED BY <1>1, <1>2 DEF JournalType

LEMMA SessionEntered ==
  ASSUME NEW j, JournalType(j), NEW s \in Nat
  PROVE  /\ \A x \in SessionType : Enters(j, [j EXCEPT !.sess = Put(@, s, x)], s, x)
         /\ s \in DOMAIN j.sess => Enters(j, [j EXCEPT !.sess[s].retired = TRUE], s,
                                          [j.sess[s] EXCEPT !.retired = TRUE])
<1>1. ASSUME NEW x \in SessionType PROVE Enters(j, [j EXCEPT !.sess = Put(@, s, x)], s, x)
  <2> DEFINE f == Put(j.sess, s, x)
  <2>1. /\ DOMAIN f = DOMAIN j.sess \cup {s} /\ f \in [DOMAIN f -> SessionType] /\ DOMAIN f \subseteq Nat
        /\ f[s] = x /\ \A t \in DOMAIN j.sess \ {s} : f[t] = j.sess[t]
    BY DEF JournalType, Put
  <2> HIDE DEF f
  <2>2. Enters(j, [j EXCEPT !.sess = f], s, x)
    BY <2>1 DEF JournalType, Enters
  <2> QED BY <2>2 DEF f
<1>2. ASSUME s \in DOMAIN j.sess
      PROVE  Enters(j, [j EXCEPT !.sess[s].retired = TRUE], s, [j.sess[s] EXCEPT !.retired = TRUE])
  <2> DEFINE x == [j.sess[s] EXCEPT !.retired = TRUE]
  <2>1. x \in SessionType
    BY <1>2 DEF JournalType, SessionType
  <2>2. [j EXCEPT !.sess[s].retired = TRUE] = [j EXCEPT !.sess[s] = x]
    BY <1>2 DEF JournalType
  <2> HIDE DEF x
  <2>3. Enters(j, [j EXCEPT !.sess[s] = x], s, x)
    BY <1>2, <2>1 DEF JournalType, Enters
  <2> QED BY <2>2, <2>3 DEF x
<1> QED BY <1>1, <1>2

\* The three ways a save ends.
LEMMA SaveEnds ==
  ASSUME NEW j, NEW m, NEW c, NEW n, NEW e, Save(j, <<m, c>>, <<n, e>>)
  PROVE  /\ journal' = j
         /\ \/ /\ ~mgr.fault /\ disk' = j /\ mgr' = m /\ call' = c /\ faults' = faults
            \/ /\ ~mgr.fault /\ faults < MaxFaults /\ faults' = faults + 1 /\ disk' \in {disk, j}
               /\ mgr' = [n EXCEPT !.fault = TRUE] /\ call' = e
            \/ /\ mgr.fault /\ disk' = disk /\ faults' = faults /\ mgr' = n /\ call' = e
BY DEF Save

\* One output changes in a sound journal.
LEMMA HeldSound ==
  ASSUME NEW j, NEW k, NEW q, NEW o, Sound(j), Holds(j, k, q, o), OutputSound(k, q)
  PROVE  Sound(k)
BY DEF Sound, OutputSound, Holds

-----------------------------------------------------------------------------
(* The structure is kept: the API *)

\* The sections that leave the bridge and the journal alone.
ApiQuiet ==
  \/ EngageRefresh \/ ReleaseOwned \/ LegacyChecked \/ LegacyEngage \/ LegacyRelease \/ Expire
  \/ MutationBegins \/ MutationEnds \/ DeleteBegins \/ DeleteEnds

LEMMA ApiTyped ==
  ASSUME mgr \in MgrType, ApiQuiet, mgr.deleting => mgr.direct > 0
  PROVE  /\ mgr' \in MgrType
         /\ mgr'.grants = mgr.grants /\ mgr'.nonce = mgr.nonce /\ mgr'.fault = mgr.fault
         /\ mgr'.imported = mgr.imported /\ mgr'.busy = mgr.busy /\ mgr'.settling = mgr.settling
         /\ UNCHANGED <<nat, changes, journal, disk, call, late, nreq, faults>>
<1>1. /\ mgr.rev + 1 \in Nat /\ mgr.restore + 1 \in Nat /\ mgr.legacy + 1 \in Nat /\ mgr.direct + 1 \in Nat
      /\ mgr.legacy > 0 => mgr.legacy - 1 \in Nat
      /\ mgr.direct > 0 => mgr.direct - 1 \in Nat
  BY MgrWith
<1>2. /\ [mgr EXCEPT !.rev = @ + 1] \in MgrType
      /\ [mgr EXCEPT !.restore = @ + 1, !.rev = @ + 1, !.active = FALSE, !.pendingRelease = TRUE] \in MgrType
      /\ [mgr EXCEPT !.legacy = @ + 1] \in MgrType
      /\ [mgr EXCEPT !.active = FALSE, !.pendingRelease = TRUE] \in MgrType
      /\ [mgr EXCEPT !.direct = @ + 1] \in MgrType
      /\ [mgr EXCEPT !.deleting = TRUE, !.direct = @ + 1] \in MgrType
  BY <1>1, MgrWith
<1>3. mgr.legacy > 0 =>
        /\ [mgr EXCEPT !.legacy = @ - 1] \in MgrType
        /\ [mgr EXCEPT !.legacy = @ - 1, !.active = TRUE, !.pendingRelease = FALSE] \in MgrType
  BY <1>1, MgrWith
<1>4. mgr.legacy > 0 => [mgr EXCEPT !.legacy = @ - 1, !.active = FALSE, !.pendingRelease = @ \/ mgr.active] \in MgrType
  <2>1. CASE mgr.pendingRelease \/ mgr.active
    BY <1>1, <2>1, MgrWith
  <2>2. CASE ~(mgr.pendingRelease \/ mgr.active)
    BY <1>1, <2>2, MgrWith
  <2> QED BY <2>1, <2>2
<1>5. mgr.direct > 0 =>
        /\ [mgr EXCEPT !.direct = @ - 1] \in MgrType
        /\ [mgr EXCEPT !.deleting = FALSE, !.direct = @ - 1] \in MgrType
  BY <1>1, MgrWith
<1>6. mgr' \in MgrType
  <2>1. CASE LegacyEngage \/ LegacyRelease
    BY <1>3, <1>4, <2>1 DEF LegacyEngage, LegacyRelease
  <2>2. CASE MutationEnds \/ DeleteEnds
    <3>1. mgr.direct \in Nat
      BY MgrWith
    <3> QED BY <1>5, <2>2, <3>1 DEF MutationEnds, DeleteEnds
  <2>3. CASE EngageRefresh \/ ReleaseOwned \/ LegacyChecked \/ Expire \/ MutationBegins \/ DeleteBegins
    BY <1>2, <2>3 DEF EngageRefresh, ReleaseOwned, LegacyChecked, Expire, MutationBegins, DeleteBegins
  <2> QED BY <2>1, <2>2, <2>3 DEF ApiQuiet
<1>7. /\ mgr'.grants = mgr.grants /\ mgr'.nonce = mgr.nonce /\ mgr'.fault = mgr.fault
      /\ mgr'.imported = mgr.imported /\ mgr'.busy = mgr.busy /\ mgr'.settling = mgr.settling
  BY DEF MgrType, ApiQuiet, EngageRefresh, ReleaseOwned, LegacyChecked, LegacyEngage, LegacyRelease, Expire,
         MutationBegins, MutationEnds, DeleteBegins, DeleteEnds
<1> QED BY <1>6, <1>7
    DEF ApiQuiet, EngageRefresh, ReleaseOwned, LegacyChecked, LegacyEngage, LegacyRelease, Expire,
        MutationBegins, MutationEnds, DeleteBegins, DeleteEnds

LEMMA ApiStructure ==
  ASSUME Structure, ApiQuiet
  PROVE  Structure'
<1>1. /\ mgr \in MgrType /\ mgr' \in MgrType
      /\ mgr'.grants = mgr.grants /\ mgr'.nonce = mgr.nonce /\ mgr'.fault = mgr.fault
      /\ mgr'.imported = mgr.imported /\ mgr'.busy = mgr.busy /\ mgr'.settling = mgr.settling
      /\ UNCHANGED <<nat, changes, journal, disk, call, late, nreq, faults>>
  BY ApiTyped DEF Structure, Typed, Disciplined
<1>2. mgr.direct \in Nat /\ mgr.legacy \in Nat /\ MaxDirect \in Nat /\ MaxLegacy \in Nat
  BY <1>1, MgrWith, AttentionAssumption
<1>3. Disciplined'
  <2>1. CASE MutationBegins \/ DeleteBegins
    <3>1. ~Blocked /\ ~mgr.settling /\ mgr.direct < MaxDirect
      BY <2>1 DEF MutationBegins, DeleteBegins, Deletable, Structure, Disciplined
    <3>2. mgr'.direct = mgr.direct + 1 /\ mgr'.active = mgr.active
      BY <1>1, <2>1 DEF MutationBegins, DeleteBegins, MgrType
    <3>3. mgr'.deleting => ~mgr.busy /\ OpenSessions(journal) = {}
      BY <1>1, <2>1, <3>1 DEF MutationBegins, DeleteBegins, MgrType, Blocked, Deletable
    <3>4. mgr'.direct <= MaxDirect /\ mgr'.direct > 0
      BY <1>2, <3>1, <3>2
    <3>5. mgr.busy = (call.pc # "idle") /\ journal = disk
      BY <3>1 DEF Structure, Disciplined, Blocked
    <3>6. mgr'.deleting => call.pc = "idle" /\ OpenSessions(disk) = {}
      BY <3>3, <3>5
    <3> QED BY <1>1, <3>1, <3>2, <3>4, <3>6 DEF Structure, Disciplined, Blocked
  <2>2. CASE MutationEnds
    BY <1>1, <1>2, <2>2 DEF Structure, Disciplined, MutationEnds, MgrType
  <2>3. CASE DeleteEnds
    BY <1>1, <1>2, <2>3 DEF Structure, Disciplined, DeleteEnds, MgrType
  <2>4. CASE EngageRefresh \/ ReleaseOwned \/ LegacyChecked \/ LegacyEngage \/ LegacyRelease \/ Expire
    <3>1. mgr'.direct = mgr.direct /\ mgr'.deleting = mgr.deleting /\ (mgr.imported /\ ~mgr.active => ~mgr'.active)
      BY <2>4, <1>1 DEF EngageRefresh, ReleaseOwned, LegacyChecked, LegacyEngage, LegacyRelease, Expire, MgrType, Blocked
    <3> QED BY <1>1, <3>1 DEF Structure, Disciplined
  <2> QED BY <2>1, <2>2, <2>3, <2>4 DEF ApiQuiet
<1>4. Sessions'
  <2>1. ~mgr.imported /\ ~mgr.fault /\ (mgr.active \/ mgr.pendingRelease) => mgr'.active \/ mgr'.pendingRelease
    <3>1. CASE EngageRefresh \/ ReleaseOwned \/ LegacyChecked \/ LegacyEngage \/ LegacyRelease \/ Expire
      BY <1>1, <3>1 DEF EngageRefresh, ReleaseOwned, LegacyChecked, LegacyEngage, LegacyRelease, Expire, MgrType
    <3>2. CASE MutationBegins \/ MutationEnds \/ DeleteBegins \/ DeleteEnds
      BY <1>1, <3>2 DEF MutationBegins, MutationEnds, DeleteBegins, DeleteEnds, MgrType
    <3> QED BY <3>1, <3>2 DEF ApiQuiet
  <2>2. MaxLegacy = 0 /\ mgr.legacy = 0 => mgr'.legacy = 0 /\ (mgr'.active => mgr.active)
    <3> SUFFICES ASSUME MaxLegacy = 0, mgr.legacy = 0 PROVE mgr'.legacy = 0 /\ (mgr'.active => mgr.active)
      OBVIOUS
    <3>1. CASE EngageRefresh \/ ReleaseOwned \/ Expire
      BY <1>1, <3>1 DEF EngageRefresh, ReleaseOwned, Expire, MgrType
    <3>2. CASE MutationBegins \/ MutationEnds \/ DeleteBegins \/ DeleteEnds
      BY <1>1, <3>2 DEF MutationBegins, MutationEnds, DeleteBegins, DeleteEnds, MgrType
    <3>3. CASE LegacyChecked \/ LegacyEngage \/ LegacyRelease
      BY <1>2, <3>3 DEF LegacyChecked, LegacyEngage, LegacyRelease
    <3> QED BY <3>1, <3>2, <3>3 DEF ApiQuiet
  <2> QED BY <1>1, <2>1, <2>2 DEF Structure, Sessions, OpenSessions, Counts
<1>5. Sound(disk)' /\ Typed'
  BY <1>1 DEF Structure, Typed
<1>6. GrantsPlaced'
  BY <1>1 DEF Structure, GrantsPlaced, Placed, Granted
<1>7. CallPlaced'
  BY <1>1 DEF Structure, CallPlaced, Granted
<1> QED BY <1>3, <1>4, <1>5, <1>6, <1>7 DEF Structure

\* A section of the bridge that writes no journal and no flag of the owner.
SameFlags ==
  /\ mgr'.nonce = mgr.nonce /\ mgr'.active = mgr.active /\ mgr'.pendingRelease = mgr.pendingRelease
  /\ mgr'.busy = mgr.busy /\ mgr'.settling = mgr.settling /\ mgr'.direct = mgr.direct
  /\ mgr'.legacy = mgr.legacy /\ mgr'.deleting = mgr.deleting /\ mgr'.fault = mgr.fault
  /\ mgr'.imported = mgr.imported

LEMMA BridgeStructure ==
  ASSUME Structure, UNCHANGED <<journal, disk>>, Typed', SameFlags,
         call.pc \in Reconciling, call'.pc \in Reconciling \cup {"finish"}, call'.mode = call.mode,
         \A d \in Devices : mgr'.grants[d] # None =>
            \/ mgr.grants[d] # None /\ mgr'.grants[d].origin = mgr.grants[d].origin
            \/ Placed(mgr'.grants[d]),
         call'.todo \subseteq {d \in Devices : mgr'.grants[d] # None}, CallPlaced'
  PROVE  Structure'
<1>1. Disciplined'
  BY DEF Structure, Disciplined, SameFlags, Reconciling, Custodial
<1>2. Sessions'
  BY DEF Structure, Sessions, OpenSessions, Counts, SameFlags
<1>3. Sound(disk)'
  BY DEF Structure
<1>4. GrantsPlaced'
  <2>1. ASSUME NEW d \in Devices, mgr'.grants[d] # None PROVE Placed(mgr'.grants[d])
    BY <2>1 DEF Structure, GrantsPlaced, Placed, Granted
  <2>2. ASSUME NEW d \in Devices, mgr'.grants[d] # None PROVE Placed(mgr.grants[d])'
    BY <2>1, <2>2 DEF Placed
  <2> QED BY <2>2 DEF GrantsPlaced, Granted
<1> QED BY <1>1, <1>2, <1>3, <1>4 DEF Structure

\* A step outside the manager, and the delivery of a late command.
LEMMA OutsideStructure ==
  ASSUME Structure, UNCHANGED <<mgr, journal, disk, call, nreq, faults>>, late' \subseteq late
  PROVE  Structure'
<1>1. Typed' /\ Sound(disk)'
  BY DEF Structure, Typed
<1>2. Disciplined'
  BY DEF Structure, Disciplined
<1>3. Sessions'
  BY DEF Structure, Sessions, Counts, OpenSessions
<1>4. GrantsPlaced' /\ CallPlaced'
  BY DEF Structure, GrantsPlaced, CallPlaced, Placed, Granted
<1> QED BY <1>1, <1>2, <1>3, <1>4 DEF Structure

LEMMA EngageStructure ==
  ASSUME Structure, EngageBegin
  PROVE  Structure'
<1> DEFINE s == Cardinality(DOMAIN journal.sess) + 1
           x == [mproc |-> mgr.proc, retired |-> FALSE]
           k == [journal EXCEPT !.sess = Put(@, s, x)]
           m == [mgr EXCEPT !.nonce = s, !.rev = @ + 1, !.active = TRUE, !.pendingRelease = FALSE]
           f == [mgr EXCEPT !.fault = TRUE]
<1>1. /\ ~mgr.deleting /\ ~mgr.fault /\ ~mgr.imported /\ ~mgr.active /\ ~mgr.pendingRelease /\ ~mgr.busy
      /\ Cardinality(DOMAIN journal.sess) < MaxSessions
      /\ Save(k, <<m, call>>, <<mgr, call>>) /\ UNCHANGED <<nat, changes, late, nreq>>
  BY DEF EngageBegin, Blocked
<1>2. journal = disk /\ call.pc = "idle" /\ mgr \in MgrType /\ JournalType(journal)
  BY <1>1 DEF Structure, Disciplined, Typed
<1>3. PICK n \in 0 .. MaxSessions : DOMAIN journal.sess = 1 .. n
  BY DEF Structure, Sessions, Counts
<1>4. s = n + 1 /\ n < MaxSessions /\ n \in Nat /\ MaxSessions \in Nat
  <2>1. MaxSessions \in Nat /\ n \in Int
    BY AttentionAssumption
  <2>2. Cardinality(1 .. n) = IF 1 > n THEN 0 ELSE n - 1 + 1
    BY <2>1, FS_Interval
  <2> QED BY <1>1, <1>3, <2>1, <2>2
<1>5. DOMAIN journal.sess \cup {s} = 1 .. n + 1 /\ s \notin DOMAIN journal.sess /\ s \in Nat /\ s # 0
      /\ n + 1 \in 0 .. MaxSessions
  BY <1>3, <1>4
<1> HIDE DEF s
<1>6. x \in SessionType /\ mgr.rev + 1 \in Nat /\ mgr.nonce \in Nat
  BY <1>2, MgrWith DEF SessionType
<1>7. Enters(journal, k, s, x)
  BY <1>2, <1>5, <1>6, SessionEntered
<1>8. /\ m \in MgrType /\ f \in MgrType
      /\ m.nonce = s /\ m.active /\ ~m.pendingRelease /\ m.grants = mgr.grants
      /\ m.busy = mgr.busy /\ m.settling = mgr.settling /\ m.direct = mgr.direct /\ m.legacy = mgr.legacy
      /\ m.deleting = mgr.deleting /\ m.fault = mgr.fault /\ m.imported = mgr.imported
      /\ f.nonce = mgr.nonce /\ f.active = mgr.active /\ f.pendingRelease = mgr.pendingRelease
      /\ f.grants = mgr.grants /\ f.busy = mgr.busy /\ f.settling = mgr.settling /\ f.direct = mgr.direct
      /\ f.legacy = mgr.legacy /\ f.deleting = mgr.deleting /\ f.fault /\ f.imported = mgr.imported
  <2>1. m \in MgrType /\ f \in MgrType
    BY <1>2, <1>5, <1>6, MgrWith
  <2> QED BY <1>2, <2>1 DEF MgrType
<1> HIDE DEF k, m, f, x
<1>9. /\ journal' = k /\ call' = call
      /\ \/ disk' = k /\ mgr' = m /\ faults' = faults
         \/ disk' \in {disk, k} /\ mgr' = f /\ faults < MaxFaults /\ faults' = faults + 1
  BY <1>1, SaveEnds DEF f
<1>10. Typed'
  BY <1>1, <1>2, <1>7, <1>8, <1>9, AttentionAssumption DEF Structure, Typed, Enters
<1>11. Disciplined'
  BY <1>1, <1>2, <1>8, <1>9 DEF Structure, Disciplined, Custodial, Reconciling
<1>12. OpenSessions(journal) = {} /\ OpenSessions(k) = {s}
  <2>1. OpenSessions(journal) = {}
    BY <1>1 DEF Structure, Sessions
  <2> QED BY <1>5, <1>7, <2>1 DEF OpenSessions, Enters, x
<1>13. Sessions'
  <2>1. Counts(k)
    BY <1>5, <1>7 DEF Counts, Enters
  <2>2. Counts(journal)' /\ Counts(disk)'
    BY <1>2, <1>9, <2>1 DEF Structure, Sessions
  <2>3. mgr'.nonce # 0 => mgr'.nonce \in DOMAIN journal'.sess
    BY <1>5, <1>7, <1>8, <1>9 DEF Structure, Sessions, Enters
  <2>4. \A u, v \in OpenSessions(disk') : u = v
    BY <1>2, <1>9, <1>12
  <2>5. MaxLegacy = 0 => mgr'.legacy = 0
    BY <1>8, <1>9 DEF Structure, Sessions
  <2> QED BY <1>8, <1>9, <1>12, <2>2, <2>3, <2>4, <2>5 DEF Sessions
<1>14. Sound(disk)'
  <2>1. Sound(k)
    BY <1>2, <1>5, <1>7 DEF Structure, Sound, OutputSound, Enters
  <2> QED BY <1>2, <1>9, <2>1 DEF Structure
<1>15. GrantsPlaced'
  BY <1>7, <1>8, <1>9 DEF Structure, GrantsPlaced, Placed, Granted, Enters
<1>16. CallPlaced'
  BY <1>2, <1>9 DEF CallPlaced
<1> QED BY <1>10, <1>11, <1>13, <1>14, <1>15, <1>16 DEF Structure

-----------------------------------------------------------------------------
(* The structure is kept: the bridge *)

LEMMA EnterStructure ==
  ASSUME Structure, NEW mode \in Modes, Enter(mode)
  PROVE  Structure'
<1> DEFINE m == [mgr EXCEPT !.busy = TRUE, !.settling = (mode = "settle")]
<1>1. /\ call.pc = "idle" /\ ~mgr.busy /\ ~mgr.deleting /\ ~mgr.fault /\ ~mgr.imported
      /\ mode = "settle" => mgr.direct = 0
      /\ mgr' = m /\ UNCHANGED <<nat, changes, journal, disk, late, nreq, faults>>
  BY DEF Enter, At, Blocked
<1>2. PICK id \in Devices \cup {None} :
        call' = [Idling EXCEPT !.pc = IF mgr.nonce = 0 THEN "finish" ELSE "poll",
                               !.mode = mode, !.id = id, !.nonce = mgr.nonce, !.rev = mgr.rev,
                               !.restore = mgr.restore, !.active = mgr.active, !.todo = Granted]
  BY DEF Enter
<1>3. mgr \in MgrType /\ mode \in {"full", "target", "settle"}
  BY AttentionAssumption DEF Structure, Typed
<1>4. /\ m \in MgrType /\ m.busy /\ (m.settling => mode = "settle")
      /\ m.nonce = mgr.nonce /\ m.active = mgr.active /\ m.pendingRelease = mgr.pendingRelease
      /\ m.grants = mgr.grants /\ m.direct = mgr.direct /\ m.legacy = mgr.legacy
      /\ m.deleting = mgr.deleting /\ m.fault = mgr.fault /\ m.imported = mgr.imported
  <2>1. (mode = "settle") \in BOOLEAN
    OBVIOUS
  <2>2. [mgr EXCEPT !.busy = TRUE] \in MgrType
    BY <1>3, MgrWith
  <2>3. m \in MgrType
    BY <2>1, <2>2, MgrWith
  <2> QED BY <1>3, <2>3 DEF MgrType
<1> HIDE DEF m
<1>5. /\ call' \in CallType /\ call'.mode = mode /\ call'.todo = Granted
      /\ call'.pc = IF mgr.nonce = 0 THEN "finish" ELSE "poll"
  <2>1. Idling \in CallType
    BY DEF Idling, CallType, PCs
  <2>2. "finish" \in PCs /\ "poll" \in PCs /\ Granted \in SUBSET Devices
    BY DEF PCs, Reconciling, Granted
  <2>3. /\ mgr.nonce \in Nat /\ mgr.rev \in Nat /\ mgr.restore \in Nat /\ mgr.active \in BOOLEAN
    BY <1>3, MgrWith
  <2>4. (IF mgr.nonce = 0 THEN "finish" ELSE "poll") \in PCs
    BY <2>2
  <2>5. call' \in CallType
    <3> DEFINE c == [Idling EXCEPT !.pc = IF mgr.nonce = 0 THEN "finish" ELSE "poll", !.mode = mode]
               d == [c EXCEPT !.id = id, !.nonce = mgr.nonce, !.rev = mgr.rev]
    <3>1. c \in CallType
      <4>1. [Idling EXCEPT !.pc = IF mgr.nonce = 0 THEN "finish" ELSE "poll"] \in CallType
        BY <2>1, <2>4, CallWith
      <4> QED BY <1>3, <4>1, CallWith
    <3>2. call' = [d EXCEPT !.restore = mgr.restore, !.active = mgr.active, !.todo = Granted]
      BY <1>2
    <3> HIDE DEF c
    <3>3. d \in CallType
      <4>1. [c EXCEPT !.id = id] \in CallType
        BY <3>1, CallWith
      <4>2. [c EXCEPT !.id = id, !.nonce = mgr.nonce] \in CallType
        BY <2>3, <4>1, CallWith
      <4> QED BY <2>3, <4>2, CallWith
    <3> HIDE DEF d
    <3>4. [d EXCEPT !.restore = mgr.restore] \in CallType
      BY <2>3, <3>3, CallWith
    <3>5. [d EXCEPT !.restore = mgr.restore, !.active = mgr.active] \in CallType
      BY <2>3, <3>4, CallWith
    <3>6. [d EXCEPT !.restore = mgr.restore, !.active = mgr.active, !.todo = Granted] \in CallType
      BY <2>2, <3>5, CallWith
    <3> QED BY <3>2, <3>6
  <2>6. call'.mode = mode
    BY <1>2 DEF Idling
  <2>7. call'.todo = Granted
    BY <1>2 DEF Idling
  <2>8. call'.pc = IF mgr.nonce = 0 THEN "finish" ELSE "poll"
    BY <1>2 DEF Idling
  <2> QED BY <2>5, <2>6, <2>7, <2>8
<1>6. Typed'
  BY <1>1, <1>4, <1>5 DEF Structure, Typed
<1>7. Disciplined'
  BY <1>1, <1>4, <1>5 DEF Structure, Disciplined, Reconciling, Custodial
<1>8. Sessions' /\ Sound(disk)'
  BY <1>1, <1>4 DEF Structure, Sessions, Counts, OpenSessions
<1>9. GrantsPlaced'
  BY <1>1, <1>4, <1>5 DEF Structure, GrantsPlaced, Placed, Granted
<1>10. CallPlaced'
  BY <1>5 DEF CallPlaced
<1> QED BY <1>6, <1>7, <1>8, <1>9, <1>10 DEF Structure

LEMMA DetectStructure ==
  ASSUME Structure, Detect
  PROVE  Structure'
<1> DEFINE m == [mgr EXCEPT !.active = FALSE, !.pendingRelease = TRUE, !.imported = TRUE, !.rev = @ + 1]
<1>1. /\ call.pc = "detect" /\ call' = [call EXCEPT !.pc = call.next]
      /\ mgr' = m \/ mgr' = mgr
      /\ UNCHANGED <<nat, changes, journal, disk, late, nreq, faults>>
  BY DEF Detect, At, Goto
<1>2. mgr \in MgrType /\ call \in CallType /\ mgr.rev + 1 \in Nat
  BY MgrWith DEF Structure, Typed
<1>3. /\ m \in MgrType /\ m.imported /\ ~m.active /\ m.pendingRelease /\ m.nonce = mgr.nonce
      /\ m.grants = mgr.grants /\ m.direct = mgr.direct /\ m.legacy = mgr.legacy /\ m.busy = mgr.busy
      /\ m.settling = mgr.settling /\ m.deleting = mgr.deleting /\ m.fault = mgr.fault
  <2>1. m \in MgrType
    BY <1>2, MgrWith
  <2> QED BY <1>2, <2>1 DEF MgrType
<1> HIDE DEF m
<1>4. /\ call' \in CallType /\ call'.pc = call.next /\ call'.pc \in {"poll", "finish", "terminal"}
      /\ call'.mode = call.mode /\ call'.todo = call.todo /\ call'.dev = call.dev
  <2>1. call.next \in PCs
    BY <1>2, CallWith DEF PCs, Reconciling
  <2>2. call' \in CallType
    BY <1>1, <1>2, <2>1, CallWith
  <2>3. call.next # "idle"
    BY <1>1 DEF Structure, CallPlaced
  <2>4. call.next \in {"idle", "poll", "finish", "terminal"}
    BY <1>2, CallWith
  <2> QED BY <1>1, <1>2, <2>2, <2>3, <2>4 DEF CallType
<1>5. Typed'
  BY <1>1, <1>2, <1>3, <1>4 DEF Structure, Typed
<1>6. Disciplined'
  BY <1>1, <1>3, <1>4 DEF Structure, Disciplined, Reconciling, Custodial
<1>7. Sessions'
  BY <1>1, <1>3 DEF Structure, Sessions, Counts, OpenSessions
<1>8. GrantsPlaced' /\ Sound(disk)'
  BY <1>1, <1>3, <1>4 DEF Structure, GrantsPlaced, Placed, Granted, Reconciling
<1>9. CallPlaced'
  BY <1>1, <1>3, <1>4 DEF Structure, CallPlaced, Granted
<1> QED BY <1>5, <1>6, <1>7, <1>8, <1>9 DEF Structure

\* The bridge moves on and changes nothing else.
LEMMA MovesOn ==
  ASSUME Structure, UNCHANGED <<mgr, journal, disk, late, nreq, faults>>, call' \in CallType,
         call.pc \in Reconciling, call'.pc \in Reconciling \cup {"finish"}, call'.mode = call.mode,
         call'.todo \subseteq Granted, CallPlaced'
  PROVE  Structure'
<1>1. Typed' /\ SameFlags
  BY DEF Structure, Typed, SameFlags
<1>2. mgr' = mgr /\ UNCHANGED <<journal, disk>>
  OBVIOUS
<1> QED BY <1>1, <1>2, BridgeStructure DEF Granted

\* The two ways on that most sections take.
LEMMA GoesOn ==
  ASSUME call \in CallType
  PROVE  /\ \A pc \in PCs : LET c == [call EXCEPT !.pc = pc]
                            IN c \in CallType /\ c.pc = pc /\ c.mode = call.mode /\ c.todo = call.todo
                                 /\ c.id = call.id /\ c.dev = call.dev /\ c.cmd = call.cmd
         /\ \A d \in Devices, next \in {"poll", "finish", "terminal"} :
              LET c == Detecting(d, next)
              IN c \in CallType /\ c.pc = "detect" /\ c.mode = call.mode /\ c.todo = call.todo /\ c.dev = d
                   /\ c.next = next
         /\ "finish" \in PCs /\ Reconciling \subseteq PCs /\ Custodial \subseteq PCs
<1>1. "finish" \in PCs /\ "detect" \in PCs /\ Reconciling \subseteq PCs /\ Custodial \subseteq PCs
  BY DEF PCs, Reconciling
<1>2. ASSUME NEW pc \in PCs
      PROVE  LET c == [call EXCEPT !.pc = pc]
             IN c \in CallType /\ c.pc = pc /\ c.mode = call.mode /\ c.todo = call.todo
                  /\ c.id = call.id /\ c.dev = call.dev /\ c.cmd = call.cmd
  <2>1. [call EXCEPT !.pc = pc] \in CallType
    BY CallWith
  <2> QED BY <2>1 DEF CallType
<1>3. ASSUME NEW d \in Devices, NEW next \in {"poll", "finish", "terminal"}
      PROVE  LET c == Detecting(d, next)
             IN c \in CallType /\ c.pc = "detect" /\ c.mode = call.mode /\ c.todo = call.todo /\ c.dev = d
                  /\ c.next = next
  <2>1. Detecting(d, next) \in CallType
    BY <1>1, CallWith DEF Detecting
  <2> QED BY <2>1 DEF Detecting, CallType
<1> QED BY <1>1, <1>2, <1>3

LEMMA FinishOn ==
  ASSUME Structure, UNCHANGED <<mgr, journal, disk, late, nreq, faults>>, call' = Goto("finish"),
         call.pc \in Reconciling
  PROVE  Structure'
<1>1. call' \in CallType /\ call'.pc = "finish" /\ call'.mode = call.mode /\ call'.todo = call.todo
  BY GoesOn DEF Goto, Structure, Typed
<1>2. CallPlaced'
  BY <1>1 DEF CallPlaced
<1> QED BY <1>1, <1>2, MovesOn DEF Structure, GrantsPlaced

LEMMA DetectOn ==
  ASSUME Structure, UNCHANGED <<mgr, journal, disk, late, nreq, faults>>, call.pc \in Reconciling,
         NEW d \in Granted, NEW next \in {"poll", "finish", "terminal"}, NEW c, NEW k \in Nat,
         c = Detecting(d, next), call' = c \/ call' = [c EXCEPT !.op = k]
  PROVE  Structure'
<1>1. d \in Devices /\ call \in CallType
  BY DEF Granted, Structure, Typed
<1>2. /\ c \in CallType /\ c.pc = "detect" /\ c.mode = call.mode /\ c.todo = call.todo /\ c.dev = d
      /\ c.next = next
  BY <1>1, GoesOn
<1>3. /\ call' \in CallType /\ call'.pc = "detect" /\ call'.mode = call.mode /\ call'.todo = call.todo
      /\ call'.dev = d /\ call'.next = next
  <2>1. call' \in CallType
    BY <1>2, CallWith
  <2> QED BY <1>2, <2>1 DEF CallType
<1>4. CallPlaced'
  BY <1>3 DEF CallPlaced, Granted
<1> QED BY <1>3, <1>4, MovesOn DEF Structure, GrantsPlaced, Reconciling

\* Where the release loop begins.
LEMMA ReleasingIs ==
  ASSUME call \in CallType, call.todo \subseteq Granted
  PROVE  /\ Releasing \in CallType /\ Releasing.pc \in {"finish", "release"} /\ Releasing.mode = call.mode
         /\ Releasing.todo \subseteq Granted
<1>1. "release" \in PCs /\ "finish" \in PCs
  BY DEF PCs, Reconciling
<1>2. CASE call.mode = "target"
  BY <1>1, <1>2, GoesOn DEF Releasing, Goto
<1>3. CASE call.mode # "target"
  <2> DEFINE todo == IF call.active THEN Granted \ {call.id} ELSE Granted
  <2>1. todo \subseteq Granted /\ todo \in SUBSET Devices
    BY DEF Granted
  <2>2. Releasing = [call EXCEPT !.pc = "release", !.todo = todo]
    BY <1>3 DEF Releasing
  <2> HIDE DEF todo
  <2>3. Releasing \in CallType
    BY <1>1, <2>1, <2>2, CallWith
  <2> QED BY <2>1, <2>2, <2>3 DEF CallType
<1> QED BY <1>2, <1>3

LEMMA AfterTargetIs ==
  ASSUME call \in CallType, call.todo \subseteq Granted, NEW g
  PROVE  /\ AfterTarget(g) \in CallType /\ AfterTarget(g).pc \in {"finish", "release"}
         /\ AfterTarget(g).mode = call.mode /\ AfterTarget(g).todo \subseteq Granted
<1>1. LET c == Goto("finish") IN c \in CallType /\ c.pc = "finish" /\ c.mode = call.mode /\ c.todo = call.todo
  BY GoesOn DEF Goto
<1> QED BY <1>1, ReleasingIs DEF AfterTarget

LEMMA PollDoneStructure ==
  ASSUME Structure, PollDone
  PROVE  Structure'
<1>1. /\ call.pc = "poll" /\ call' = (IF Targeting THEN AfterTarget(Target) ELSE Releasing)
      /\ UNCHANGED <<nat, changes, mgr, journal, disk, late, nreq, faults>>
  BY DEF PollDone, At
<1>2. call \in CallType /\ call.todo \subseteq Granted
  BY DEF Structure, Typed, GrantsPlaced
<1>3. /\ call' \in CallType /\ call'.pc \in {"finish", "release"} /\ call'.mode = call.mode
      /\ call'.todo \subseteq Granted
  BY <1>1, <1>2, AfterTargetIs, ReleasingIs
<1>4. CallPlaced'
  BY <1>3 DEF CallPlaced
<1> QED BY <1>1, <1>3, <1>4, MovesOn DEF Reconciling

\* The sections of the bridge that only look.
LEMMA LooksStructure ==
  ASSUME Structure, LedgerInv(nat), BeginObserves \/ UpdateObserves \/ ReserveRefused
  PROVE  Structure'
<1>1. /\ call.pc \in {"poll", "reserve"} /\ UNCHANGED <<nat, changes, mgr, journal, disk, late, nreq, faults>>
      /\ call.pc \in Reconciling /\ "reserve" \in PCs /\ "reserve" \in Reconciling
  BY DEF BeginObserves, UpdateObserves, ReserveRefused, Targeting, At, Reconciling, PCs
<1>2. call \in CallType /\ call.todo \subseteq Granted
  BY DEF Structure, Typed, GrantsPlaced
<1>3. Targeting => call.id \in Devices /\ Id(nat, call.id) \in Identities /\ Id(nat, call.id).dev = call.id
  <2> SUFFICES ASSUME Targeting PROVE call.id \in Devices /\ Id(nat, call.id) \in Identities
                                        /\ Id(nat, call.id).dev = call.id
    OBVIOUS
  <2>1. call.id \in Devices
    BY <1>2, CallWith DEF Targeting
  <2>2. LedgerType(nat)
    BY DEF LedgerInv
  <2> QED BY <2>1, <2>2, DeviceTyped DEF Id
<1>4. CASE call' = Goto("finish")
  BY <1>1, <1>4, FinishOn
<1>5. CASE Targeting /\ call' = [call EXCEPT !.pc = "reserve", !.obs = Id(nat, call.id)]
  <2>1. call' \in CallType
    BY <1>1, <1>2, <1>3, <1>5, CallWith
  <2>2. /\ call'.pc = "reserve" /\ call'.obs = Id(nat, call.id) /\ call'.id = call.id /\ call'.mode = call.mode
        /\ call'.todo = call.todo
    BY <1>2, <1>5, <2>1 DEF CallType
  <2>3. CallPlaced'
    BY <1>3, <1>5, <2>2 DEF CallPlaced
  <2> QED BY <1>1, <1>2, <2>1, <2>2, <2>3, MovesOn
<1>6. CASE Targeting /\ Target # None /\ call' = Detecting(call.id, "finish")
  <2>1. call.id \in Granted
    BY <1>3, <1>6 DEF Granted, Target
  <2> QED BY <1>1, <1>6, <2>1, DetectOn, 0 \in Nat
<1>7. \/ call' = Goto("finish")
      \/ Targeting /\ call' = [call EXCEPT !.pc = "reserve", !.obs = Id(nat, call.id)]
      \/ Targeting /\ Target # None /\ call' = Detecting(call.id, "finish")
  <2>1. CASE BeginObserves
    BY <2>1 DEF BeginObserves
  <2>2. CASE UpdateObserves
    BY <2>2 DEF UpdateObserves, Stale
  <2>3. CASE ReserveRefused
    BY <2>3 DEF ReserveRefused
  <2> QED BY <2>1, <2>2, <2>3
<1> QED BY <1>4, <1>5, <1>6, <1>7

-----------------------------------------------------------------------------
(* The structure is kept: grants *)

LEMMA GrantWith ==
  ASSUME NEW g \in GrantType
  PROVE  /\ g # None /\ g.origin \in Origin /\ g.cmd \in CommandType
         /\ g.res \in SeenType \cup {None} /\ g.gid \in LeaseType \cup {None} /\ {g.unc, g.sub} \subseteq BOOLEAN
         /\ \A c \in CommandType : LET h == Reissued(g, c)
                                   IN /\ h \in GrantType /\ h.origin = g.origin /\ h.cmd = c /\ h.gid = g.gid
                                      /\ h.res = None /\ h.unc /\ ~h.sub /\ h.rev = g.rev
                                      /\ h.lastRestore = g.lastRestore
         /\ LET h == Submitted(g)
            IN /\ h \in GrantType /\ h.origin = g.origin /\ h.cmd = g.cmd /\ h.gid = g.gid /\ h.res = g.res
               /\ h.unc
         /\ \A s \in SeenType : LET h == [g EXCEPT !.res = s]
                                IN /\ h \in GrantType /\ h.origin = g.origin /\ h.cmd = g.cmd /\ h.gid = g.gid
                                   /\ h.res = s /\ h.unc = g.unc
         /\ \A k \in Nat : LET h == [g EXCEPT !.rev = k]
                               e == [g EXCEPT !.lastRestore = k]
                           IN /\ h \in GrantType /\ h.origin = g.origin /\ h.cmd = g.cmd /\ h.gid = g.gid
                              /\ h.res = g.res /\ h.unc = g.unc
                              /\ e \in GrantType /\ e.origin = g.origin /\ e.cmd = g.cmd /\ e.gid = g.gid
                              /\ e.res = g.res /\ e.unc = g.unc
<1>1. g # None
  BY NoneAssumption
<1>2. ASSUME NEW c \in CommandType
      PROVE  LET h == Reissued(g, c)
             IN /\ h \in GrantType /\ h.origin = g.origin /\ h.cmd = c /\ h.gid = g.gid
                /\ h.res = None /\ h.unc /\ ~h.sub /\ h.rev = g.rev /\ h.lastRestore = g.lastRestore
  BY DEF Reissued, GrantType
<1>3. LET h == Submitted(g)
      IN /\ h \in GrantType /\ h.origin = g.origin /\ h.cmd = g.cmd /\ h.gid = g.gid /\ h.res = g.res /\ h.unc
  BY DEF Submitted, GrantType
<1>4. ASSUME NEW s \in SeenType
      PROVE  LET h == [g EXCEPT !.res = s]
             IN /\ h \in GrantType /\ h.origin = g.origin /\ h.cmd = g.cmd /\ h.gid = g.gid
                /\ h.res = s /\ h.unc = g.unc
  BY DEF GrantType
<1>5. ASSUME NEW k \in Nat
      PROVE  LET h == [g EXCEPT !.rev = k]
                 e == [g EXCEPT !.lastRestore = k]
             IN /\ h \in GrantType /\ h.origin = g.origin /\ h.cmd = g.cmd /\ h.gid = g.gid
                /\ h.res = g.res /\ h.unc = g.unc
                /\ e \in GrantType /\ e.origin = g.origin /\ e.cmd = g.cmd /\ e.gid = g.gid
                /\ e.res = g.res /\ e.unc = g.unc
  BY DEF GrantType
<1> QED BY <1>1, <1>2, <1>3, <1>4, <1>5 DEF GrantType

\* A receipt as the manager reads it.
Reads(n, r) == [outcome |-> r.outcome, cur |-> Current(n, r), op |-> r.op]

LEMMA ReceiptReads ==
  ASSUME NEW n, LedgerType(n), NEW q \in DOMAIN n.receipts
  PROVE  /\ n.receipts[q] \in ReceiptType
         /\ Reads(n, n.receipts[q]) \in SeenType /\ Lease(n.receipts[q]) \in LeaseType
         /\ Answer(n, q) \in AnswerType
<1>1. n.receipts[q] \in ReceiptType
  BY DEF LedgerType
<1>2. Current(n, n.receipts[q]) \in BOOLEAN
  BY DEF Current
<1> QED BY <1>1, <1>2 DEF ReceiptType, Reads, Lease, Answer, SeenType, LeaseType, AnswerType, Identities

LEMMA FoldedIs ==
  ASSUME NEW g \in GrantType, NEW r \in ReceiptType, NEW s \in SeenType
  PROVE  LET h == Folded(g, r, s)
         IN /\ h \in GrantType /\ h.origin = g.origin /\ h.cmd = g.cmd /\ h.res = s /\ ~h.unc
            /\ h.gid = IF g.gid = None THEN Lease(r) ELSE g.gid
<1>1. Lease(r) \in LeaseType
  BY DEF Lease, LeaseType, ReceiptType, Identities
<1> QED BY <1>1 DEF Folded, GrantType

\* One grant changes.
LEMMA GrantSet ==
  ASSUME mgr \in MgrType, NEW d \in Devices, NEW h \in GrantType \cup {None},
         mgr' = [mgr EXCEPT !.grants[d] = h]
  PROVE  /\ mgr' \in MgrType /\ SameFlags /\ mgr'.grants[d] = h /\ mgr'.nativePending = mgr.nativePending
         /\ \A e \in Devices \ {d} : mgr'.grants[e] = mgr.grants[e]
<1>1. mgr' \in MgrType
  BY MgrWith
<1> QED BY <1>1 DEF MgrType, SameFlags

LEMMA GrantStructure ==
  ASSUME Structure, UNCHANGED <<journal, disk>>, NEW d \in Granted, NEW h \in GrantType,
         h.origin = mgr.grants[d].origin, mgr' = [mgr EXCEPT !.grants[d] = h],
         call' \in CallType, late' \subseteq CommandType, nreq' \in 0 .. MaxRequests + MaxAttempts,
         faults' \in 0 .. MaxFaults,
         call.pc \in Reconciling, call'.pc \in Reconciling \cup {"finish"}, call'.mode = call.mode,
         call'.todo \subseteq Granted,
         call'.pc = "put" => call'.dev = d /\ call'.cmd = h.cmd,
         call'.pc \in {"detect", "terminal", "retire"} => call'.dev \in Granted,
         call'.pc = "detect" => call'.next # "idle",
         call'.pc \notin {"reserve", "recheck"}
  PROVE  Structure'
<1>1. d \in Devices /\ h # None /\ mgr \in MgrType /\ mgr.grants[d] # None
  BY GrantWith DEF Granted, Structure, Typed
<1>2. /\ mgr' \in MgrType /\ SameFlags /\ mgr'.grants[d] = h
      /\ \A e \in Devices \ {d} : mgr'.grants[e] = mgr.grants[e]
  BY <1>1, GrantSet
<1>3. {e \in Devices : mgr'.grants[e] # None} = Granted
  BY <1>1, <1>2 DEF Granted
<1>4. Granted' = Granted
  BY <1>3 DEF Granted
<1>5. Typed'
  BY <1>2 DEF Structure, Typed
<1>6. CallPlaced'
  BY <1>2, <1>4 DEF CallPlaced, Reconciling
<1>7. \A e \in Devices : mgr'.grants[e] # None =>
         mgr.grants[e] # None /\ mgr'.grants[e].origin = mgr.grants[e].origin
  BY <1>1, <1>2
<1> QED BY <1>2, <1>3, <1>5, <1>6, <1>7, BridgeStructure

LEMMA PollStructure ==
  ASSUME Structure, LedgerInv(nat), Poll
  PROVE  Structure'
<1>1. /\ call.pc = "poll" /\ UNCHANGED <<nat, changes, journal, disk, late, nreq, faults>>
      /\ call.pc \in Reconciling
  BY DEF Poll, At, Reconciling
<1>2. PICK d \in call.todo :
        \/ Waiting(mgr.grants[d]) /\ Polled(d)
        \/ ~Waiting(mgr.grants[d]) /\ call' = [call EXCEPT !.todo = @ \ {d}] /\ UNCHANGED mgr
  BY DEF Poll
<1>3. /\ call \in CallType /\ call.todo \subseteq Granted /\ d \in Granted /\ mgr.grants[d] \in GrantType
      /\ LedgerType(nat) /\ Typed /\ call.todo \in SUBSET Devices
  BY MgrWith DEF Structure, Typed, GrantsPlaced, Granted, LedgerInv
<1>4. CASE call' = [call EXCEPT !.todo = @ \ {d}] /\ UNCHANGED mgr
  <2>1. call' \in CallType
    BY <1>3, <1>4, CallWith
  <2>2. call'.pc = "poll" /\ call'.mode = call.mode /\ call'.todo = call.todo \ {d}
    BY <1>1, <1>3, <1>4, <2>1 DEF CallType
  <2>3. CallPlaced'
    BY <2>2 DEF CallPlaced
  <2> QED BY <1>1, <1>3, <1>4, <2>1, <2>2, <2>3, MovesOn
<1>5. CASE Polled(d)
  <2> DEFINE g == mgr.grants[d]
             r == nat.receipts[g.cmd.req]
             h == Folded(g, r, Seen(r))
             c == IF FailedRelease(h) THEN Detecting(d, "poll") ELSE call
             e == [c EXCEPT !.todo = call.todo \ {d}]
  <2>1. CASE call' = Goto("finish") /\ UNCHANGED mgr
    BY <1>1, <2>1, FinishOn
  <2>2. CASE call' = Detecting(d, "finish") /\ UNCHANGED mgr
    BY <1>1, <1>3, <2>2, DetectOn, 0 \in Nat
  <2>3. CASE Observable(g) /\ mgr' = [mgr EXCEPT !.grants[d] = h] /\ call' = [c EXCEPT !.todo = @ \ {d}]
    <3>1. r \in ReceiptType /\ Seen(r) \in SeenType
      BY <1>3, <2>3, ReceiptReads DEF Observable, Seen, Reads
    <3>2. h \in GrantType /\ h.origin = g.origin
      BY <1>3, <3>1, FoldedIs
    <3>3. /\ c \in CallType /\ c.pc \in {"detect", "poll"} /\ c.todo = call.todo /\ c.mode = call.mode
          /\ c.pc = "detect" => c.dev = d /\ c.next = "poll"
      BY <1>1, <1>3, GoesOn DEF Granted
    <3> HIDE DEF c, h
    <3>4. call' = e
      BY <2>3, <3>3
    <3>5. e \in CallType
      BY <1>3, <3>3, CallWith
    <3>6. /\ e.pc = c.pc /\ e.dev = c.dev /\ e.next = c.next /\ e.mode = c.mode /\ e.todo = call.todo \ {d}
      BY <3>3, <3>5 DEF CallType
    <3> QED BY <1>1, <1>3, <2>3, <3>2, <3>3, <3>4, <3>5, <3>6, GrantStructure DEF Typed, Reconciling
  <2>4. \/ call' = Goto("finish") /\ UNCHANGED mgr
        \/ call' = Detecting(d, "finish") /\ UNCHANGED mgr
        \/ Observable(g) /\ mgr' = [mgr EXCEPT !.grants[d] = h] /\ call' = [c EXCEPT !.todo = @ \ {d}]
    BY <1>5 DEF Polled
  <2> QED BY <2>1, <2>2, <2>3, <2>4
<1> QED BY <1>2, <1>4, <1>5

LEMMA TerminalStructure ==
  ASSUME Structure, LedgerInv(nat), Terminal
  PROVE  Structure'
<1> DEFINE d == call.dev
           s == [outcome |-> "accepted", cur |-> TRUE, op |-> call.op]
           g == mgr.grants[d]
           h == [g EXCEPT !.res = s]
<1>1. /\ call.pc = "terminal" /\ UNCHANGED <<nat, changes, journal, disk, late, nreq, faults>>
      /\ call.pc \in Reconciling
  BY DEF Terminal, At, Reconciling
<1>2. /\ call \in CallType /\ call.todo \subseteq Granted /\ d \in Granted /\ g \in GrantType /\ mgr \in MgrType
      /\ Typed
  BY <1>1, MgrWith DEF Structure, Typed, GrantsPlaced, Granted, CallPlaced
<1>3. CASE call' = Goto("finish") /\ UNCHANGED mgr
  BY <1>1, <1>3, FinishOn
<1>4. CASE mgr' = [mgr EXCEPT !.grants[d].res = s] /\ call' = Goto("retire")
  <2>1. s \in SeenType
    BY <1>2, CallWith DEF SeenType, OutcomeType
  <2>2. h \in GrantType /\ h.origin = g.origin
    <3> HIDE DEF s
    <3> QED BY <1>2, <2>1 DEF GrantType
  <2>3. mgr' = [mgr EXCEPT !.grants[d] = h]
    BY <1>2, <1>4 DEF MgrType, Granted
  <2> HIDE DEF h
  <2>4. call' \in CallType /\ call'.pc = "retire" /\ call'.mode = call.mode /\ call'.todo = call.todo /\ call'.dev = d
    BY <1>2, <1>4, GoesOn DEF Goto, Reconciling
  <2> QED BY <1>1, <1>2, <2>2, <2>3, <2>4, GrantStructure DEF Typed, Reconciling
<1> QED BY <1>3, <1>4 DEF Terminal

LEMMA CommandTyped ==
  ASSUME nreq \in Nat, NEW s \in Identities, NEW action \in ActionType
  PROVE  LET c == Command(action, s)
         IN c \in CommandType /\ c.action = action /\ c.exp = s /\ c.req = <<"manager", nreq + 1>> /\ c.origin = None
BY DEF Command, CommandType, Request

LEMMA ReserveUpdateStructure ==
  ASSUME Structure, LedgerInv(nat), ReserveUpdate
  PROVE  Structure'
<1> DEFINE d == call.id
           g == mgr.grants[d]
           c == Command("update", call.obs)
           h == [Reissued(g, c) EXCEPT !.rev = call.rev]
           e == [call EXCEPT !.pc = "put", !.dev = d, !.cmd = c]
<1>1. /\ call.pc = "reserve" /\ UNCHANGED <<nat, changes, journal, disk, late, faults>>
      /\ call.pc \in Reconciling /\ nreq < MaxRequests /\ nreq' = nreq + 1 /\ Target # None
      /\ mgr' = [mgr EXCEPT !.grants[d] = [Reissued(@, c) EXCEPT !.rev = call.rev]]
      /\ call' = e
  BY DEF ReserveUpdate, At, Reconciling
<1>2. /\ call \in CallType /\ call.todo \subseteq Granted /\ d \in Devices /\ call.obs \in Identities
      /\ d \in Granted /\ g \in GrantType /\ mgr \in MgrType /\ Typed /\ nreq \in 0 .. MaxRequests + MaxAttempts
  <2>1. Typed /\ call \in CallType /\ mgr \in MgrType /\ call.todo \subseteq Granted
          /\ nreq \in 0 .. MaxRequests + MaxAttempts
    BY DEF Structure, Typed, GrantsPlaced
  <2>2. d \in Devices /\ call.obs \in Identities
    BY <1>1 DEF Structure, CallPlaced
  <2>3. g # None
    BY <1>1 DEF Target
  <2>4. g \in GrantType
    BY <2>1, <2>2, <2>3, MgrWith
  <2> QED BY <2>1, <2>2, <2>3, <2>4 DEF Granted
<1>3. nreq \in Nat /\ nreq' \in 0 .. MaxRequests + MaxAttempts
  BY <1>1, <1>2, AttentionAssumption
<1>4. c \in CommandType
  BY <1>2, <1>3, CommandTyped DEF ActionType
<1> HIDE DEF c
<1>5. h \in GrantType /\ h.origin = g.origin /\ h.cmd = c
  <2> DEFINE x == Reissued(g, c)
  <2>1. x \in GrantType /\ x.origin = g.origin /\ x.cmd = c
    BY <1>2, <1>4, GrantWith
  <2>2. call.rev \in Nat
    BY <1>2, CallWith
  <2> HIDE DEF x
  <2>3. LET y == [x EXCEPT !.rev = call.rev] IN y \in GrantType /\ y.origin = x.origin /\ y.cmd = x.cmd
    BY <2>1, <2>2 DEF GrantType
  <2> QED BY <2>1, <2>3 DEF x
<1>6. mgr' = [mgr EXCEPT !.grants[d] = h]
  BY <1>1
<1> HIDE DEF h
<1>7. e \in CallType
  BY <1>2, <1>4, CallWith DEF PCs, Reconciling
<1>8. e.pc = "put" /\ e.dev = d /\ e.cmd = c /\ e.mode = call.mode /\ e.todo = call.todo
  BY <1>2, <1>7 DEF CallType
<1> QED BY <1>1, <1>2, <1>3, <1>5, <1>6, <1>7, <1>8, GrantStructure DEF Typed, Reconciling

LEMMA ReleaseStructure ==
  ASSUME Structure, LedgerInv(nat), ReleaseScans \/ ReleaseStopped \/ ReleaseLoopEnds
  PROVE  Structure'
<1>1. call.pc = "release" /\ UNCHANGED <<nat, changes, journal, disk, late, faults>> /\ call.pc \in Reconciling
  BY DEF ReleaseScans, ReleaseStopped, ReleaseLoopEnds, At, Reconciling
<1>2. CASE ReleaseStopped \/ ReleaseLoopEnds
  BY <1>1, <1>2, FinishOn DEF ReleaseStopped, ReleaseLoopEnds
<1>3. CASE ReleaseScans
  <2>1. PICK d \in call.todo :
          \/ /\ call' = [call EXCEPT !.pc = "retire", !.dev = d]
             /\ UNCHANGED <<mgr, nreq>>
          \/ /\ call' = Detecting(d, "finish")
             /\ UNCHANGED <<mgr, nreq>>
          \/ /\ call' = [Detecting(d, "terminal") EXCEPT !.op = nat.dev[d].lastRelease]
             /\ UNCHANGED <<mgr, nreq>>
          \/ /\ nreq < MaxRequests
             /\ mgr' = [mgr EXCEPT !.grants[d] = [Reissued(@, Command("release", Id(nat, d)))
                                                    EXCEPT !.lastRestore = call.restore]]
             /\ call' = [call EXCEPT !.pc = "put", !.dev = d, !.cmd = Command("release", Id(nat, d))]
             /\ nreq' = nreq + 1
    BY <1>3 DEF ReleaseScans
  <2> DEFINE g == mgr.grants[d]
             c == Command("release", Id(nat, d))
             h == [Reissued(g, c) EXCEPT !.lastRestore = call.restore]
             e == [call EXCEPT !.pc = "put", !.dev = d, !.cmd = c]
  <2>2. /\ call \in CallType /\ call.todo \subseteq Granted /\ d \in Devices /\ d \in Granted
        /\ g \in GrantType /\ mgr \in MgrType /\ Typed /\ nreq \in 0 .. MaxRequests + MaxAttempts
        /\ LedgerType(nat)
    BY MgrWith DEF Structure, Typed, GrantsPlaced, Granted, LedgerInv
  <2>3. nat.dev[d] \in DeviceType /\ Id(nat, d) \in Identities
    BY <2>2, DeviceTyped
  <2>4. CASE call' = [call EXCEPT !.pc = "retire", !.dev = d] /\ UNCHANGED <<mgr, nreq>>
    <3>1. call' \in CallType
      BY <2>2, <2>4, CallWith DEF PCs, Reconciling
    <3>2. call'.pc = "retire" /\ call'.dev = d /\ call'.mode = call.mode /\ call'.todo = call.todo
      BY <2>2, <2>4, <3>1 DEF CallType
    <3>3. CallPlaced'
      BY <2>2, <2>4, <3>2 DEF CallPlaced, Granted
    <3> QED BY <1>1, <2>2, <2>4, <3>1, <3>2, <3>3, MovesOn DEF Reconciling
  <2>5. CASE call' = Detecting(d, "finish") /\ UNCHANGED <<mgr, nreq>>
    BY <1>1, <2>2, <2>5, DetectOn, 0 \in Nat
  <2>6. CASE call' = [Detecting(d, "terminal") EXCEPT !.op = nat.dev[d].lastRelease] /\ UNCHANGED <<mgr, nreq>>
    <3>1. nat.dev[d].lastRelease \in Nat
      BY <2>3 DEF DeviceType
    <3> QED BY <1>1, <2>2, <2>6, <3>1, DetectOn
  <2>7. CASE /\ nreq < MaxRequests
             /\ mgr' = [mgr EXCEPT !.grants[d] = [Reissued(@, c) EXCEPT !.lastRestore = call.restore]]
             /\ call' = e /\ nreq' = nreq + 1
    <3>1. nreq \in Nat /\ nreq' \in 0 .. MaxRequests + MaxAttempts
      BY <2>2, <2>7, AttentionAssumption
    <3>2. c \in CommandType
      BY <2>3, <3>1, CommandTyped DEF ActionType
    <3> HIDE DEF c
    <3>3. h \in GrantType /\ h.origin = g.origin /\ h.cmd = c
      <4> DEFINE x == Reissued(g, c)
      <4>1. x \in GrantType /\ x.origin = g.origin /\ x.cmd = c
        BY <2>2, <3>2, GrantWith
      <4>2. call.restore \in Nat
        BY <2>2, CallWith
      <4> HIDE DEF x
      <4>3. LET y == [x EXCEPT !.lastRestore = call.restore]
            IN y \in GrantType /\ y.origin = x.origin /\ y.cmd = x.cmd
        BY <4>1, <4>2 DEF GrantType
      <4> QED BY <4>1, <4>3 DEF x
    <3>4. mgr' = [mgr EXCEPT !.grants[d] = h]
      BY <2>7
    <3> HIDE DEF h
    <3>5. e \in CallType
      BY <2>2, <3>2, CallWith DEF PCs, Reconciling
    <3>6. e.pc = "put" /\ e.dev = d /\ e.cmd = c /\ e.mode = call.mode /\ e.todo = call.todo
      BY <2>2, <3>5 DEF CallType
    <3> QED BY <1>1, <2>2, <2>7, <3>1, <3>3, <3>4, <3>5, <3>6, GrantStructure DEF Typed, Reconciling
  <2> QED BY <2>1, <2>4, <2>5, <2>6, <2>7
<1> QED BY <1>2, <1>3

LEMMA PutAnsweredStructure ==
  ASSUME Structure, PutAnswered, LedgerInv(nat'), call.cmd.req \in DOMAIN nat'.receipts
  PROVE  Structure'
<1> DEFINE d == call.dev
           r == nat'.receipts[call.cmd.req]
           seen == [outcome |-> r.outcome, cur |-> Current(nat', r), op |-> r.op]
           g == Submitted(mgr.grants[d])
           h == Folded(g, r, seen)
<1>1. call.pc = "put" /\ UNCHANGED <<changes, journal, disk, late, nreq, faults>> /\ call.pc \in Reconciling
  BY DEF PutAnswered, At, Reconciling
<1>2. /\ call \in CallType /\ call.todo \subseteq Granted /\ d \in Granted /\ d \in Devices /\ Typed
      /\ mgr.grants[d] \in GrantType
  BY <1>1, MgrWith DEF Structure, Typed, GrantsPlaced, Granted, CallPlaced
<1>3. /\ g \in GrantType /\ g.origin = mgr.grants[d].origin
  BY <1>2, GrantWith
<1>4. r \in ReceiptType /\ seen \in SeenType
  BY ReceiptReads DEF LedgerInv, Reads
<1> HIDE DEF g, r, seen
<1>5. h \in GrantType /\ h.origin = mgr.grants[d].origin
  BY <1>3, <1>4, FoldedIs
<1> HIDE DEF h
<1>6. CASE mgr' = [mgr EXCEPT !.grants[d] = g] /\ call' = Detecting(d, "finish")
  <2>1. /\ call' \in CallType /\ call'.pc = "detect" /\ call'.mode = call.mode /\ call'.todo = call.todo
        /\ call'.dev = d /\ call'.next = "finish"
    BY <1>2, <1>6, GoesOn
  <2> QED BY <1>1, <1>2, <1>3, <1>6, <2>1, GrantStructure DEF Typed, Reconciling
<1>7. CASE /\ mgr' = [mgr EXCEPT !.grants[d] = h]
           /\ \/ call' = Detecting(d, "finish")
              \/ call' = [call EXCEPT !.pc = "retire", !.dev = d]
              \/ call' = Goto("finish")
              \/ call' = AfterTarget(h)
  <2>1. /\ call' \in CallType /\ call'.pc \in {"detect", "retire", "finish", "release"} /\ call'.mode = call.mode
        /\ call'.todo \subseteq Granted
        /\ call'.pc \in {"detect", "retire"} => call'.dev = d
        /\ call'.pc = "detect" => call'.next = "finish"
    <3>1. CASE call' = Detecting(d, "finish")
      BY <1>2, <3>1, GoesOn
    <3>2. CASE call' = [call EXCEPT !.pc = "retire", !.dev = d]
      <4>1. call' \in CallType
        BY <1>2, <3>2, CallWith DEF PCs, Reconciling
      <4> QED BY <1>2, <3>2, <4>1 DEF CallType
    <3>3. CASE call' = Goto("finish")
      BY <1>2, <3>3, GoesOn DEF Goto
    <3>4. CASE call' = AfterTarget(h)
      BY <1>2, <3>4, AfterTargetIs
    <3> QED BY <1>7, <3>1, <3>2, <3>3, <3>4
  <2> QED BY <1>1, <1>2, <1>5, <1>7, <2>1, GrantStructure DEF Typed, Reconciling
<1>8. \/ mgr' = [mgr EXCEPT !.grants[d] = g] /\ call' = Detecting(d, "finish")
      \/ /\ mgr' = [mgr EXCEPT !.grants[d] = h]
         /\ \/ call' = Detecting(d, "finish")
            \/ call' = [call EXCEPT !.pc = "retire", !.dev = d]
            \/ call' = Goto("finish")
            \/ call' = AfterTarget(h)
  BY DEF PutAnswered, g, r, seen, h
<1> QED BY <1>6, <1>7, <1>8

LEMMA PutFailsStructure ==
  ASSUME Structure, PutFails
  PROVE  Structure'
<1> DEFINE d == call.dev
           g == Submitted(mgr.grants[d])
<1>1. call.pc = "put" /\ UNCHANGED <<changes, journal, disk, nreq>> /\ call.pc \in Reconciling
  BY DEF PutFails, At, Reconciling
<1>2. /\ call \in CallType /\ call.todo \subseteq Granted /\ d \in Granted /\ d \in Devices /\ Typed
      /\ mgr.grants[d] \in GrantType /\ call.cmd = mgr.grants[d].cmd
  BY <1>1, MgrWith DEF Structure, Typed, GrantsPlaced, Granted, CallPlaced
<1>3. g \in GrantType /\ g.origin = mgr.grants[d].origin /\ call.cmd \in CommandType
  BY <1>2, GrantWith
<1>4. mgr' = [mgr EXCEPT !.grants[d] = g] /\ call' = Detecting(d, "finish")
  BY DEF PutFails
<1>5. late' \subseteq CommandType /\ faults' \in 0 .. MaxFaults
  <2>1. faults \in 0 .. MaxFaults /\ MaxFaults \in Nat /\ late \subseteq CommandType
    BY <1>2, AttentionAssumption DEF Typed
  <2>2. faults' = faults \/ (faults < MaxFaults /\ faults' = faults + 1)
    BY DEF PutFails
  <2>3. late' = late \/ late' = late \cup {call.cmd}
    BY DEF PutFails
  <2> QED BY <1>3, <2>1, <2>2, <2>3
<1> HIDE DEF g
<1>6. /\ call' \in CallType /\ call'.pc = "detect" /\ call'.mode = call.mode /\ call'.todo = call.todo
      /\ call'.dev = d /\ call'.next = "finish"
  BY <1>2, <1>4, GoesOn
<1> QED BY <1>1, <1>2, <1>3, <1>4, <1>5, <1>6, GrantStructure DEF Typed, Reconciling

-----------------------------------------------------------------------------
(* The structure is kept: the journal is saved *)

\* Outputs are added or rewritten; what they stand for stays.
Extended(j, k) ==
  /\ JournalType(k) /\ Sound(k) /\ k.sess = j.sess /\ DOMAIN j.out \subseteq DOMAIN k.out
  /\ \A p \in DOMAIN j.out : k.out[p].origin = j.out[p].origin
Untried(j, k) == \A p \in DOMAIN j.out : j.out[p].rec = None => k.out[p].rec = None

LEMMA OutputWith ==
  ASSUME NEW o \in OutputType
  PROVE  /\ o.origin \in Origin /\ o.sid \in Nat /\ o.dev \in Devices /\ {o.retired, o.rejected} \subseteq BOOLEAN
         /\ o.rec \in AttemptType \cup {None} /\ o.result \in AnswerType \cup {None}
         /\ \A how \in {"no_submission", "release", "recover"} :
              LET x == [o EXCEPT !.retired = TRUE, !.how = how]
              IN /\ x \in OutputType /\ x.retired /\ x.how = how /\ x.origin = o.origin /\ x.sid = o.sid
                 /\ x.dev = o.dev /\ x.rec = o.rec /\ x.result = o.result /\ x.rejected = o.rejected
         /\ LET x == [o EXCEPT !.rejected = TRUE]
            IN /\ x \in OutputType /\ x.retired = o.retired /\ x.how = o.how /\ x.origin = o.origin
               /\ x.sid = o.sid /\ x.dev = o.dev /\ x.rec = o.rec /\ x.result = o.result /\ x.rejected
         /\ \A a \in AnswerType :
              LET x == [o EXCEPT !.result = a]
              IN /\ x \in OutputType /\ x.retired = o.retired /\ x.how = o.how /\ x.origin = o.origin
                 /\ x.sid = o.sid /\ x.dev = o.dev /\ x.rec = o.rec /\ x.result = a /\ x.rejected = o.rejected
<1>1. ASSUME NEW how \in {"no_submission", "release", "recover"}
      PROVE  LET x == [o EXCEPT !.retired = TRUE, !.how = how]
             IN /\ x \in OutputType /\ x.retired /\ x.how = how /\ x.origin = o.origin /\ x.sid = o.sid
                /\ x.dev = o.dev /\ x.rec = o.rec /\ x.result = o.result /\ x.rejected = o.rejected
  BY DEF OutputType
<1>2. LET x == [o EXCEPT !.rejected = TRUE]
      IN /\ x \in OutputType /\ x.retired = o.retired /\ x.how = o.how /\ x.origin = o.origin
         /\ x.sid = o.sid /\ x.dev = o.dev /\ x.rec = o.rec /\ x.result = o.result /\ x.rejected
  BY DEF OutputType
<1>3. ASSUME NEW a \in AnswerType
      PROVE  LET x == [o EXCEPT !.result = a]
             IN /\ x \in OutputType /\ x.retired = o.retired /\ x.how = o.how /\ x.origin = o.origin
                /\ x.sid = o.sid /\ x.dev = o.dev /\ x.rec = o.rec /\ x.result = a /\ x.rejected = o.rejected
  BY DEF OutputType
<1> QED BY <1>1, <1>2, <1>3 DEF OutputType

LEMMA Rewritten ==
  ASSUME NEW j, JournalType(j), Sound(j), NEW q \in DOMAIN j.out, NEW o, NEW k, Holds(j, k, q, o),
         o.origin = j.out[q].origin, o.sid = j.out[q].sid, j.out[q].retired => o.retired,
         o.rejected => o.rec # None /\ o.result = None /\ ~o.retired,
         o.retired => \/ o.how \in {"no_submission", "release"}
                      \/ o.rec # None /\ o.result # None /\ Proves(o.result)
  PROVE  Extended(j, k) /\ (o.rec = None => Untried(j, k))
<1>1. OutputSound(j, q)
  BY DEF Sound
<1>2. OutputSound(k, q)
  <2>1. k.out[q] = o /\ k.sess = j.sess
    BY DEF Holds
  <2> QED BY <1>1, <2>1 DEF OutputSound
<1>3. Sound(k)
  BY <1>2, HeldSound
<1> QED BY <1>3 DEF Extended, Untried, Holds

LEMMA RetiredIs ==
  ASSUME NEW j, JournalType(j), Sound(j), NEW q \in DOMAIN j.out, ~j.out[q].rejected,
         NEW how \in {"no_submission", "release", "recover"},
         how = "recover" => j.out[q].rec # None /\ j.out[q].result # None /\ Proves(j.out[q].result)
  PROVE  LET o == [j.out[q] EXCEPT !.retired = TRUE, !.how = how]
         IN /\ Holds(j, Retired(j, q, how), q, o) /\ o.retired /\ o.origin = j.out[q].origin
            /\ Extended(j, Retired(j, q, how)) /\ Untried(j, Retired(j, q, how))
<1> DEFINE o == [j.out[q] EXCEPT !.retired = TRUE, !.how = how]
           k == Retired(j, q, how)
<1>1. j.out[q] \in OutputType /\ q \in Request
  BY DEF JournalType
<1>2. /\ o \in OutputType /\ o.retired /\ o.how = how /\ o.origin = j.out[q].origin /\ o.sid = j.out[q].sid
      /\ o.rec = j.out[q].rec /\ o.result = j.out[q].result /\ o.rejected = j.out[q].rejected
  BY <1>1 DEF OutputType
<1>3. k = [j EXCEPT !.out[q] = o]
  BY DEF JournalType, Retired
<1> HIDE DEF o
<1>4. Holds(j, k, q, o)
  BY <1>1, <1>2, <1>3, OutputHeld
<1>5. Extended(j, k) /\ (o.rec = None => Untried(j, k))
  BY <1>2, <1>4, Rewritten
<1>6. Untried(j, k)
  BY <1>2, <1>4 DEF Untried, Holds
<1> QED BY <1>2, <1>4, <1>5, <1>6 DEF o

\* A save that failed leaves the owner fenced, and whichever file is on disk is sound.
LEMMA FailedSave ==
  ASSUME Structure, call.pc # "idle", NEW k, journal' = k, disk' \in {disk, k},
         JournalType(k), Counts(k), disk' = k => Sound(k) /\ \A s, t \in OpenSessions(k) : s = t,
         DOMAIN journal.sess \subseteq DOMAIN k.sess, DOMAIN journal.out \subseteq DOMAIN k.out,
         \A p \in DOMAIN journal.out : k.out[p].origin = journal.out[p].origin,
         ~mgr.imported => Untried(journal, k),
         mgr' \in MgrType, mgr'.fault, mgr'.nonce = mgr.nonce, mgr'.direct = mgr.direct,
         mgr'.legacy = mgr.legacy, mgr'.grants = mgr.grants, mgr'.deleting = mgr.deleting,
         mgr'.imported = mgr.imported, mgr'.active = mgr.active, mgr'.busy = (call'.pc # "idle"),
         mgr'.settling => mgr.settling /\ call'.pc # "idle" /\ call'.mode = call.mode,
         call' \in CallType, call'.pc \in {"idle", "finish"}, call'.todo \subseteq Granted,
         late' \subseteq CommandType, nreq' \in 0 .. MaxRequests + MaxAttempts, faults' \in 0 .. MaxFaults
  PROVE  Structure'
<1>1. Typed'
  BY DEF Structure, Typed
<1>2. Disciplined'
  BY DEF Structure, Disciplined, Custodial, Reconciling
<1>3. Sessions'
  <2>1. Counts(journal)' /\ Counts(disk)'
    BY DEF Structure, Sessions, Counts
  <2>2. \A s, t \in OpenSessions(disk') : s = t
    BY DEF Structure, Sessions, OpenSessions
  <2>3. \A s, t \in OpenSessions(disk)' : s = t
    BY <2>2 DEF OpenSessions
  <2> QED BY <2>1, <2>3 DEF Structure, Sessions
<1>4. Sound(disk)'
  <2>1. Sound(disk')
    BY DEF Structure
  <2> QED BY <2>1 DEF Sound, OutputSound
<1>5. GrantsPlaced'
  BY DEF Structure, GrantsPlaced, Placed, Granted, Reconciling, Untried
<1>6. CallPlaced'
  BY DEF CallPlaced
<1> QED BY <1>1, <1>2, <1>3, <1>4, <1>5, <1>6 DEF Structure

\* A save of an output that succeeded.
LEMMA OutputSaved ==
  ASSUME Structure, ~mgr.fault, call.pc # "idle", NEW k, journal' = k, disk' = k, Extended(journal, k),
         ~mgr.imported \/ call'.pc \in Reconciling => Untried(journal, k),
         mgr' \in MgrType, ~mgr'.fault, mgr'.nonce = mgr.nonce, mgr'.direct = mgr.direct,
         mgr'.legacy = mgr.legacy, mgr'.deleting = mgr.deleting, mgr'.imported = mgr.imported,
         mgr'.active = mgr.active, mgr'.pendingRelease = mgr.pendingRelease, mgr'.busy = (call'.pc # "idle"),
         mgr'.settling => mgr.settling /\ call'.pc # "idle" /\ call'.mode = call.mode,
         \A d \in Devices : mgr'.grants[d] = None \/ mgr'.grants[d] = mgr.grants[d],
         call' \in CallType, call'.todo \subseteq {d \in Devices : mgr'.grants[d] # None},
         call'.pc \in Custodial => call.pc \in Custodial, call'.pc \in Reconciling => call.pc \in Reconciling,
         CallPlaced',
         late' \subseteq CommandType, nreq' \in 0 .. MaxRequests + MaxAttempts, faults' \in 0 .. MaxFaults
  PROVE  Structure'
<1>1. Typed'
  BY DEF Structure, Typed, Extended
<1>2. Disciplined'
  BY DEF Structure, Disciplined, Custodial, Reconciling
<1>3. Sessions'
  BY DEF Structure, Disciplined, Sessions, Counts, OpenSessions, Extended
<1>4. Sound(disk)'
  BY DEF Extended, Sound, OutputSound
<1>5. GrantsPlaced'
  BY DEF Structure, GrantsPlaced, Placed, Granted, Untried, Extended
<1> QED BY <1>1, <1>2, <1>3, <1>4, <1>5 DEF Structure

\* Any journal a save may leave behind.
Successor(j, k) ==
  /\ JournalType(k) /\ Counts(k) /\ Sound(k) /\ \A s, t \in OpenSessions(k) : s = t
  /\ DOMAIN j.sess \subseteq DOMAIN k.sess /\ DOMAIN j.out \subseteq DOMAIN k.out
  /\ \A p \in DOMAIN j.out : k.out[p].origin = j.out[p].origin

LEMMA ExtendedSucceeds ==
  ASSUME Structure, ~mgr.fault, NEW k, Extended(journal, k)
  PROVE  Successor(journal, k)
<1>1. journal = disk
  BY DEF Structure, Disciplined
<1> QED BY <1>1 DEF Successor, Extended, Structure, Sessions, Counts, OpenSessions

LEMMA FaultedIs ==
  ASSUME NEW m \in MgrType, NEW n, n = [m EXCEPT !.fault = TRUE]
  PROVE  /\ n \in MgrType /\ n.fault /\ n.nonce = m.nonce /\ n.direct = m.direct /\ n.legacy = m.legacy
         /\ n.grants = m.grants /\ n.deleting = m.deleting /\ n.imported = m.imported /\ n.active = m.active
         /\ n.busy = m.busy /\ n.settling = m.settling
<1>1. n \in MgrType
  BY MgrWith
<1> QED BY <1>1 DEF MgrType

LEMMA FreedIs ==
  ASSUME NEW m \in MgrType, NEW n, n = [m EXCEPT !.busy = FALSE]
  PROVE  /\ n \in MgrType /\ n.fault = m.fault /\ n.nonce = m.nonce /\ n.direct = m.direct /\ n.legacy = m.legacy
         /\ n.grants = m.grants /\ n.deleting = m.deleting /\ n.imported = m.imported /\ n.active = m.active
         /\ ~n.busy /\ n.settling = m.settling /\ n.pendingRelease = m.pendingRelease
<1>1. n \in MgrType
  BY MgrWith
<1> QED BY <1>1 DEF MgrType

LEMMA FaultsTyped ==
  ASSUME Structure, \/ faults' = faults
                    \/ faults < MaxFaults /\ faults' = faults + 1
  PROVE  faults' \in 0 .. MaxFaults
<1>1. faults \in 0 .. MaxFaults /\ MaxFaults \in Nat
  BY AttentionAssumption DEF Structure, Typed
<1> QED BY <1>1

\* A save inside the bridge: it succeeds, or the call ends and the owner is fenced.
LEMMA BridgeSave ==
  ASSUME Structure, call.pc \in Reconciling, NEW k, NEW m, NEW c,
         Save(k, <<m, c>>, <<mgr, Goto("finish")>>), Extended(journal, k), Untried(journal, k),
         late' = late, nreq' \in 0 .. MaxRequests + MaxAttempts
  PROVE  \/ Structure'
         \/ ~mgr.fault /\ journal' = k /\ disk' = k /\ mgr' = m /\ call' = c /\ faults' = faults
<1>1. ~mgr.fault /\ call \in CallType /\ mgr \in MgrType /\ late \subseteq CommandType /\ call.todo \subseteq Granted
  BY DEF Structure, Disciplined, Typed, GrantsPlaced, Reconciling
<1>2. mgr.busy /\ call.pc # "idle"
  BY DEF Structure, Disciplined, Reconciling
<1>3. CASE /\ journal' = k /\ disk' \in {disk, k} /\ faults < MaxFaults /\ faults' = faults + 1
           /\ mgr' = [mgr EXCEPT !.fault = TRUE] /\ call' = Goto("finish")
  <2>1. /\ mgr' \in MgrType /\ mgr'.fault /\ mgr'.nonce = mgr.nonce /\ mgr'.direct = mgr.direct
        /\ mgr'.legacy = mgr.legacy /\ mgr'.grants = mgr.grants /\ mgr'.deleting = mgr.deleting
        /\ mgr'.imported = mgr.imported /\ mgr'.active = mgr.active /\ mgr'.busy = mgr.busy
        /\ mgr'.settling = mgr.settling
    BY <1>1, <1>3, FaultedIs
  <2>2. call' \in CallType /\ call'.pc = "finish" /\ call'.mode = call.mode /\ call'.todo = call.todo
    BY <1>1, <1>3, GoesOn DEF Goto
  <2>3. Successor(journal, k)
    BY <1>1, ExtendedSucceeds
  <2>4. faults' \in 0 .. MaxFaults
    BY <1>3, FaultsTyped
  <2>5. mgr'.busy = (call'.pc # "idle") /\ late' \subseteq CommandType /\ call'.todo \subseteq Granted
    BY <1>1, <1>2, <2>1, <2>2
  <2>6. call'.pc \in {"idle", "finish"} /\ (mgr'.settling => mgr.settling /\ call'.pc # "idle" /\ call'.mode = call.mode)
    BY <2>1, <2>2
  <2> QED BY <1>2, <1>3, <2>1, <2>2, <2>3, <2>4, <2>5, <2>6, FailedSave DEF Successor
<1> QED BY <1>1, <1>3, SaveEnds

\* A save inside recovery, likewise.
LEMMA CustodySave ==
  ASSUME Structure, call.pc \in Custodial, NEW k, NEW m, NEW c,
         Save(k, <<m, c>>, CustodyOver), Successor(journal, k),
         late' = late, nreq' \in 0 .. MaxRequests + MaxAttempts
  PROVE  \/ Structure'
         \/ ~mgr.fault /\ journal' = k /\ disk' = k /\ mgr' = m /\ call' = c /\ faults' = faults
<1> DEFINE n == [mgr EXCEPT !.busy = FALSE]
<1>1. ~mgr.fault /\ mgr.imported /\ mgr \in MgrType /\ late \subseteq CommandType /\ call.pc # "idle"
  BY DEF Structure, Disciplined, Typed, Custodial
<1>2. /\ n \in MgrType /\ n.fault = mgr.fault /\ n.nonce = mgr.nonce /\ n.direct = mgr.direct /\ n.legacy = mgr.legacy
      /\ n.grants = mgr.grants /\ n.deleting = mgr.deleting /\ n.imported = mgr.imported /\ n.active = mgr.active
      /\ ~n.busy /\ n.settling = mgr.settling
  BY <1>1, FreedIs
<1>3. Idling \in CallType /\ Idling.pc = "idle" /\ Idling.todo = {}
  BY DEF Idling, CallType, PCs
<1>4. CASE /\ journal' = k /\ disk' \in {disk, k} /\ faults < MaxFaults /\ faults' = faults + 1
           /\ mgr' = [n EXCEPT !.fault = TRUE] /\ call' = Idling
  <2>1. /\ mgr' \in MgrType /\ mgr'.fault /\ mgr'.nonce = n.nonce /\ mgr'.direct = n.direct
        /\ mgr'.legacy = n.legacy /\ mgr'.grants = n.grants /\ mgr'.deleting = n.deleting
        /\ mgr'.imported = n.imported /\ mgr'.active = n.active /\ mgr'.busy = n.busy
        /\ mgr'.settling = n.settling
    BY <1>2, <1>4, FaultedIs
  <2>2. ~mgr.settling
    BY DEF Structure, Disciplined, Custodial
  <2>3. faults' \in 0 .. MaxFaults
    BY <1>4, FaultsTyped
  <2>4. mgr'.busy = (call'.pc # "idle") /\ late' \subseteq CommandType /\ call'.todo \subseteq Granted
    <3>1. ~mgr'.busy /\ mgr'.busy \in BOOLEAN /\ call'.pc = "idle" /\ call'.todo = {}
      BY <1>2, <1>3, <1>4, <2>1, MgrWith
    <3> QED BY <1>1, <3>1
  <2>5. mgr'.grants = mgr.grants /\ mgr'.nonce = mgr.nonce /\ mgr'.imported /\ ~mgr'.settling
    BY <1>1, <1>2, <2>1, <2>2
  <2> QED BY <1>1, <1>2, <1>3, <1>4, <2>1, <2>2, <2>3, <2>4, <2>5, FailedSave DEF Successor
<1>5. Save(k, <<m, c>>, <<n, Idling>>)
  BY DEF CustodyOver
<1> HIDE DEF n
<1> QED BY <1>1, <1>4, <1>5, SaveEnds

\* Outputs are named by the requests minted so far.
Minted == DOMAIN disk.out \subseteq {"manager"} \X (1 .. nreq)

LEMMA OutputOfIs ==
  ASSUME NEW d \in Devices, NEW c \in CommandType, NEW s \in Nat
  PROVE  LET o == OutputOf(d, c, s)
         IN /\ o \in OutputType /\ o.sid = s /\ o.dev = d /\ o.origin = [proc |-> c.exp.proc, req |-> c.req]
            /\ ~o.retired /\ o.rec = None /\ o.result = None /\ ~o.rejected /\ o.inc = c.exp.inc
BY DEF OutputOf, OutputType, CommandType, Origin, Identities

LEMMA ReserveBeginStructure ==
  ASSUME Structure, Minted, ReserveBegin
  PROVE  Structure'
<1> DEFINE c == Command("begin", call.obs)
           q == <<"manager", nreq + 1>>
           o == OutputOf(call.id, c, mgr.nonce)
           k == [journal EXCEPT !.out = Put(@, q, o)]
           e == [call EXCEPT !.pc = "recheck", !.cmd = c]
<1>1. /\ call.pc = "reserve" /\ call.pc \in Reconciling /\ OwnerCurrent /\ nreq < MaxRequests
      /\ Save([journal EXCEPT !.out = Put(@, c.req, o)], <<mgr, e>>, <<mgr, Goto("finish")>>)
      /\ nreq' = nreq + 1 /\ UNCHANGED <<nat, changes, late>>
  BY DEF ReserveBegin, At, Reconciling
<1>2. /\ call \in CallType /\ mgr \in MgrType /\ JournalType(journal) /\ nreq \in 0 .. MaxRequests + MaxAttempts
      /\ call.todo \subseteq Granted /\ late \subseteq CommandType /\ faults \in 0 .. MaxFaults
  BY DEF Structure, Typed, GrantsPlaced
<1>3. /\ ~mgr.fault /\ journal = disk /\ mgr.nonce # 0 /\ mgr.nonce \in DOMAIN journal.sess /\ mgr.nonce \in Nat
      /\ mgr.busy /\ mgr.active
  <2>1. ~mgr.fault /\ mgr.nonce # 0 /\ mgr.busy
    BY <1>1 DEF Structure, Disciplined, Reconciling
  <2> QED BY <1>1, <1>2, <2>1, MgrWith DEF Structure, Disciplined, Sessions, OwnerCurrent
<1>4. call.id \in Devices /\ call.obs \in Identities /\ call.obs.dev = call.id
  BY <1>1 DEF Structure, CallPlaced
<1>5. nreq \in Nat /\ nreq' \in 0 .. MaxRequests + MaxAttempts
  BY <1>1, <1>2, AttentionAssumption
<1>6. c \in CommandType /\ c.action = "begin" /\ c.exp = call.obs /\ c.req = q /\ q \in Request
  BY <1>4, <1>5, CommandTyped DEF ActionType, Request
<1>7. q \notin DOMAIN journal.out
  BY <1>3, <1>5 DEF Minted
<1> HIDE DEF c, q
<1>8. /\ o \in OutputType /\ o.sid = mgr.nonce /\ o.dev = call.id /\ o.origin = [proc |-> c.exp.proc, req |-> q]
      /\ ~o.retired /\ o.rec = None /\ o.result = None /\ ~o.rejected /\ o.origin.req = q
  BY <1>3, <1>4, <1>6, OutputOfIs
<1> HIDE DEF o
<1>9. Holds(journal, k, q, o)
  BY <1>2, <1>6, <1>8, OutputHeld
<1> HIDE DEF k
<1>10. Extended(journal, k) /\ Untried(journal, k)
  <2>1. MaxLegacy = 0 => ~journal.sess[mgr.nonce].retired
    BY <1>3 DEF Structure, Sessions, OpenSessions
  <2>2. k.out[q] = o /\ k.sess = journal.sess
    BY <1>9 DEF Holds
  <2>3. OutputSound(k, q)
    BY <1>3, <1>8, <2>1, <2>2 DEF OutputSound
  <2>4. Sound(journal)
    BY <1>3 DEF Structure
  <2>5. Sound(k)
    BY <1>9, <2>3, <2>4, HeldSound
  <2> QED BY <1>7, <1>9, <2>5 DEF Extended, Untried, Holds
<1>11. Save(k, <<mgr, e>>, <<mgr, Goto("finish")>>)
  BY <1>1, <1>6 DEF k
<1>12. e \in CallType
  BY <1>2, <1>6, CallWith DEF PCs, Reconciling
<1>13. e.pc = "recheck" /\ e.cmd = c /\ e.mode = call.mode /\ e.todo = call.todo /\ e.id = call.id
  BY <1>2, <1>12 DEF CallType
<1> HIDE DEF e
<1>14. \/ Structure'
       \/ ~mgr.fault /\ journal' = k /\ disk' = k /\ mgr' = mgr /\ call' = e /\ faults' = faults
  BY <1>1, <1>5, <1>10, <1>11, BridgeSave
<1>15. CASE journal' = k /\ disk' = k /\ mgr' = mgr /\ call' = e /\ faults' = faults
  <2>1. k.out[q] = o /\ q \in DOMAIN k.out
    BY <1>9 DEF Holds
  <2>2. CallPlaced'
    BY <1>4, <1>6, <1>8, <1>13, <1>15, <2>1 DEF CallPlaced
  <2>3. mgr'.busy = (call'.pc # "idle")
    BY <1>3, <1>13, <1>15
  <2>4. call'.todo \subseteq {d \in Devices : mgr'.grants[d] # None}
    BY <1>2, <1>13, <1>15 DEF Granted
  <2>5. call'.pc \in Reconciling /\ call'.pc \notin Custodial
    BY <1>13, <1>15 DEF Reconciling, Custodial
  <2> QED BY <1>1, <1>2, <1>3, <1>5, <1>10, <1>12, <1>13, <1>15, <2>2, <2>3, <2>4, <2>5, OutputSaved
<1> QED BY <1>14, <1>15

LEMMA RecheckStructure ==
  ASSUME Structure, Recheck
  PROVE  Structure'
<1> DEFINE c == call.cmd
           q == c.req
           b == disk.out[q]
           d == call.id
<1>1. call.pc = "recheck" /\ call.pc \in Reconciling /\ UNCHANGED <<nat, changes, late, nreq>>
  BY DEF Recheck, At, Reconciling
<1>2. /\ call \in CallType /\ mgr \in MgrType /\ JournalType(journal) /\ nreq \in 0 .. MaxRequests + MaxAttempts
      /\ call.todo \subseteq Granted /\ late \subseteq CommandType /\ faults \in 0 .. MaxFaults
      /\ ~mgr.fault /\ mgr.busy /\ call.pc # "idle"
  BY <1>1 DEF Structure, Typed, GrantsPlaced, Disciplined, Reconciling
<1>3. /\ d \in Devices /\ c \in CommandType /\ c.exp.dev = d /\ q \in DOMAIN disk.out /\ b.rec = None
      /\ b.origin = [proc |-> c.exp.proc, req |-> q]
  BY <1>1 DEF Structure, CallPlaced
<1>4. journal = disk
  BY <1>2 DEF Structure, Disciplined
<1>5. CASE /\ mgr' = [mgr EXCEPT !.grants[d] = NewGrant(c, call.rev), !.nativePending = TRUE]
           /\ call' = [call EXCEPT !.pc = "put", !.dev = d] /\ UNCHANGED <<journal, disk, faults>>
  <2> DEFINE g == NewGrant(c, call.rev)
             m == [mgr EXCEPT !.grants[d] = g]
  <2>1. g \in GrantType /\ g.origin = b.origin /\ g.cmd = c
    <3>1. call.rev \in Nat /\ b.origin \in Origin
      BY <1>2, <1>3, <1>4, CallWith DEF JournalType, OutputType
    <3> QED BY <1>3, <3>1 DEF NewGrant, GrantType
  <2>2. g # None
    BY <2>1, GrantWith
  <2> HIDE DEF g
  <2>3. /\ m \in MgrType /\ m.grants[d] = g /\ \A e \in Devices \ {d} : m.grants[e] = mgr.grants[e]
    <3>1. m \in MgrType
      BY <1>2, <1>3, <2>1, MgrWith
    <3> QED BY <1>2, <1>3, <3>1 DEF MgrType
  <2>4. mgr' = [m EXCEPT !.nativePending = TRUE]
    BY <1>2, <1>5 DEF MgrType, g
  <2>5. m.nonce = mgr.nonce /\ m.active = mgr.active /\ m.pendingRelease = mgr.pendingRelease
        /\ m.busy = mgr.busy /\ m.settling = mgr.settling /\ m.direct = mgr.direct
        /\ m.legacy = mgr.legacy /\ m.deleting = mgr.deleting /\ m.fault = mgr.fault
        /\ m.imported = mgr.imported
    BY <1>2 DEF MgrType
  <2> HIDE DEF m
  <2>6. mgr' \in MgrType /\ mgr'.grants = m.grants /\ SameFlags
    <3>1. mgr' \in MgrType
      BY <2>3, <2>4, MgrWith
    <3> QED BY <2>3, <2>4, <2>5, <3>1 DEF MgrType, SameFlags
  <2>7. call' \in CallType
    BY <1>2, <1>3, <1>5, CallWith DEF PCs, Reconciling
  <2>8. call'.pc = "put" /\ call'.dev = d /\ call'.cmd = c /\ call'.mode = call.mode /\ call'.todo = call.todo
    BY <1>2, <1>5, <2>7 DEF CallType
  <2>9. Typed'
    BY <1>1, <1>2, <1>5, <2>6, <2>7 DEF Structure, Typed
  <2>10. CallPlaced'
    BY <1>3, <2>1, <2>2, <2>3, <2>6, <2>8 DEF CallPlaced, Granted
  <2>11. Placed(g)
    BY <1>3, <1>4, <2>1, GrantWith DEF Placed
  <2>12. call'.todo \subseteq {e \in Devices : mgr'.grants[e] # None}
    BY <1>2, <2>2, <2>3, <2>6, <2>8 DEF Granted
  <2>13. \A e \in Devices : mgr'.grants[e] # None =>
            \/ mgr.grants[e] # None /\ mgr'.grants[e].origin = mgr.grants[e].origin
            \/ Placed(mgr'.grants[e])
    BY <1>3, <2>3, <2>6, <2>11
  <2> QED BY <1>1, <1>5, <2>6, <2>8, <2>9, <2>10, <2>12, <2>13, BridgeStructure DEF Reconciling
<1>6. CASE Save(Retired(journal, q, "no_submission"), <<mgr, Goto("finish")>>, <<mgr, Goto("finish")>>)
  <2> DEFINE k == Retired(journal, q, "no_submission")
             e == Goto("finish")
  <2>1. ~b.rejected
    BY <1>3 DEF Structure, Sound, OutputSound
  <2>2. Extended(journal, k) /\ Untried(journal, k)
    BY <1>2, <1>3, <1>4, <2>1, RetiredIs DEF Structure
  <2> HIDE DEF k
  <2>3. \/ Structure'
        \/ ~mgr.fault /\ journal' = k /\ disk' = k /\ mgr' = mgr /\ call' = e /\ faults' = faults
    BY <1>1, <1>2, <1>6, <2>2, BridgeSave DEF k
  <2>4. e \in CallType /\ e.pc = "finish" /\ e.mode = call.mode /\ e.todo = call.todo
    BY <1>2, GoesOn DEF Goto
  <2> HIDE DEF e
  <2>5. CASE journal' = k /\ disk' = k /\ mgr' = mgr /\ call' = e /\ faults' = faults
    <3>1. CallPlaced'
      BY <2>4, <2>5 DEF CallPlaced
    <3>2. mgr'.busy = (call'.pc # "idle")
      BY <1>2, <2>4, <2>5
    <3>3. call'.todo \subseteq {x \in Devices : mgr'.grants[x] # None}
      BY <1>2, <2>4, <2>5 DEF Granted
    <3>4. call'.pc \notin Reconciling /\ call'.pc \notin Custodial
      BY <2>4, <2>5 DEF Reconciling, Custodial
    <3> QED BY <1>1, <1>2, <2>2, <2>4, <2>5, <3>1, <3>2, <3>3, <3>4, OutputSaved
  <2> QED BY <2>3, <2>5
<1> QED BY <1>5, <1>6 DEF Recheck

LEMMA RetireStructure ==
  ASSUME Structure, Retire
  PROVE  Structure'
<1> DEFINE d == call.dev
           g == mgr.grants[d]
           q == g.origin.req
           k == Retired(journal, q, "release")
           m == [mgr EXCEPT !.grants[d] = None]
           e == [call EXCEPT !.pc = "release", !.todo = @ \ {d}]
<1>1. call.pc = "retire" /\ call.pc \in Reconciling /\ UNCHANGED <<nat, changes, late, nreq>>
  BY DEF Retire, At, Reconciling
<1>2. /\ call \in CallType /\ mgr \in MgrType /\ JournalType(journal) /\ nreq \in 0 .. MaxRequests + MaxAttempts
      /\ call.todo \subseteq Granted /\ late \subseteq CommandType /\ faults \in 0 .. MaxFaults
      /\ ~mgr.fault /\ mgr.busy /\ call.pc # "idle" /\ journal = disk
  BY <1>1 DEF Structure, Typed, GrantsPlaced, Disciplined, Reconciling
<1>3. d \in Devices /\ d \in Granted /\ q \in DOMAIN journal.out /\ journal.out[q].rec = None
  BY <1>1 DEF Structure, CallPlaced, GrantsPlaced, Placed, Granted
<1>4. CASE call' = Goto("finish") /\ UNCHANGED <<mgr, journal, disk, faults>>
  BY <1>1, <1>4, FinishOn
<1>5. CASE Save(k, <<m, e>>, <<mgr, Goto("finish")>>)
  <2>1. ~journal.out[q].rejected
    BY <1>2, <1>3 DEF Structure, Sound, OutputSound
  <2>2. Extended(journal, k) /\ Untried(journal, k)
    BY <1>2, <1>3, <2>1, RetiredIs DEF Structure
  <2> HIDE DEF k
  <2>3. /\ m \in MgrType /\ m.grants[d] = None /\ \A x \in Devices \ {d} : m.grants[x] = mgr.grants[x]
        /\ m.nonce = mgr.nonce /\ m.active = mgr.active /\ m.pendingRelease = mgr.pendingRelease
        /\ m.busy = mgr.busy /\ m.settling = mgr.settling /\ m.direct = mgr.direct
        /\ m.legacy = mgr.legacy /\ m.deleting = mgr.deleting /\ m.fault = mgr.fault
        /\ m.imported = mgr.imported
    <3>1. m \in MgrType
      BY <1>2, <1>3, MgrWith
    <3> QED BY <1>2, <1>3, <3>1 DEF MgrType
  <2>4. e \in CallType
    BY <1>2, CallWith DEF PCs, Reconciling
  <2>5. e.pc = "release" /\ e.mode = call.mode /\ e.todo = call.todo \ {d}
    BY <1>2, <2>4 DEF CallType
  <2> HIDE DEF m, e
  <2>6. \/ Structure'
        \/ ~mgr.fault /\ journal' = k /\ disk' = k /\ mgr' = m /\ call' = e /\ faults' = faults
    BY <1>1, <1>2, <1>5, <2>2, BridgeSave
  <2>7. CASE journal' = k /\ disk' = k /\ mgr' = m /\ call' = e /\ faults' = faults
    <3>1. CallPlaced'
      BY <2>5, <2>7 DEF CallPlaced
    <3>2. mgr'.busy = (call'.pc # "idle")
      BY <1>2, <2>3, <2>5, <2>7
    <3>3. call'.todo \subseteq {x \in Devices : mgr'.grants[x] # None}
      BY <1>2, <2>3, <2>5, <2>7 DEF Granted
    <3>4. call'.pc \in Reconciling /\ call'.pc \notin Custodial
      BY <2>5, <2>7 DEF Reconciling, Custodial
    <3>5. \A x \in Devices : mgr'.grants[x] = None \/ mgr'.grants[x] = mgr.grants[x]
      BY <2>3, <2>7
    <3> QED BY <1>1, <1>2, <2>2, <2>3, <2>4, <2>5, <2>7, <3>1, <3>2, <3>3, <3>4, <3>5, OutputSaved
  <2> QED BY <2>6, <2>7
<1> QED BY <1>4, <1>5 DEF Retire

-----------------------------------------------------------------------------
(* The structure is kept: sessions are retired *)

\* A session without open outputs is retired.
LEMMA SessionRetires ==
  ASSUME NEW j, JournalType(j), Counts(j), NEW s \in DOMAIN j.sess,
         NEW k, k = [j EXCEPT !.sess[s].retired = TRUE]
  PROVE  /\ JournalType(k) /\ Counts(k) /\ DOMAIN k.sess = DOMAIN j.sess /\ k.out = j.out
         /\ OpenSessions(k) = OpenSessions(j) \ {s}
         /\ \A t \in DOMAIN j.sess : j.sess[t].retired => k.sess[t].retired
         /\ k.sess[s].retired
         /\ Sound(j) /\ (\A q \in OutputsOf(j, s) : j.out[q].retired) => Sound(k)
<1> DEFINE x == [j.sess[s] EXCEPT !.retired = TRUE]
<1>1. s \in Nat /\ j.sess[s] \in SessionType
  BY DEF JournalType
<1>2. Enters(j, k, s, x) /\ x.retired
  BY <1>1, SessionEntered DEF SessionType
<1> HIDE DEF x
<1>3. /\ JournalType(k) /\ k.out = j.out /\ DOMAIN k.sess = DOMAIN j.sess /\ k.sess[s].retired
      /\ \A t \in DOMAIN j.sess \ {s} : k.sess[t] = j.sess[t]
  BY <1>2 DEF Enters
<1>4. OpenSessions(k) = OpenSessions(j) \ {s}
  BY <1>3 DEF OpenSessions
<1>5. ASSUME Sound(j), \A q \in OutputsOf(j, s) : j.out[q].retired PROVE Sound(k)
  BY <1>3, <1>5 DEF Sound, OutputSound, OutputsOf
<1> QED BY <1>3, <1>4, <1>5 DEF Counts

LEMMA FinishStructure ==
  ASSUME Structure, Finish
  PROVE  Structure'
<1> DEFINE m == [mgr EXCEPT !.busy = FALSE, !.settling = FALSE, !.nativePending = (Granted # {})]
           f == [m EXCEPT !.pendingRelease = FALSE]
           k == [journal EXCEPT !.sess[mgr.nonce].retired = TRUE]
<1>1. /\ call.pc = "finish" /\ UNCHANGED <<nat, changes, late, nreq>>
      /\ \/ mgr' = m /\ call' = Idling /\ UNCHANGED <<journal, disk, faults>>
         \/ /\ mgr.nonce = 0 \/ journal.sess[mgr.nonce].retired
            /\ mgr' = f /\ call' = Idling /\ UNCHANGED <<journal, disk, faults>>
         \/ /\ Finishable /\ mgr.nonce # 0 /\ ~journal.sess[mgr.nonce].retired
            /\ Save(k, <<f, Idling>>, <<m, Idling>>)
  BY DEF Finish, At
<1>2. /\ call \in CallType /\ mgr \in MgrType /\ JournalType(journal) /\ nreq \in 0 .. MaxRequests + MaxAttempts
      /\ late \subseteq CommandType /\ faults \in 0 .. MaxFaults /\ mgr.busy /\ call.pc # "idle" /\ ~mgr.deleting
  BY <1>1 DEF Structure, Typed, Disciplined
<1>3. /\ m \in MgrType /\ ~m.busy /\ ~m.settling
      /\ m.nonce = mgr.nonce /\ m.active = mgr.active /\ m.pendingRelease = mgr.pendingRelease
      /\ m.grants = mgr.grants /\ m.direct = mgr.direct /\ m.legacy = mgr.legacy
      /\ m.deleting = mgr.deleting /\ m.fault = mgr.fault /\ m.imported = mgr.imported
  <2>1. (Granted # {}) \in BOOLEAN
    OBVIOUS
  <2>2. [mgr EXCEPT !.busy = FALSE, !.settling = FALSE] \in MgrType
    BY <1>2, MgrWith
  <2>3. m \in MgrType
    BY <2>1, <2>2, MgrWith
  <2>4. ~m.busy /\ ~m.settling
    BY <1>2 DEF MgrType
  <2>5. /\ m.nonce = mgr.nonce /\ m.active = mgr.active /\ m.pendingRelease = mgr.pendingRelease
        /\ m.grants = mgr.grants /\ m.direct = mgr.direct /\ m.legacy = mgr.legacy
        /\ m.deleting = mgr.deleting /\ m.fault = mgr.fault /\ m.imported = mgr.imported
    BY <1>2 DEF MgrType
  <2> QED BY <2>3, <2>4, <2>5
<1> HIDE DEF m
<1>4. /\ f \in MgrType /\ ~f.busy /\ ~f.settling
      /\ f.nonce = mgr.nonce /\ f.active = mgr.active
      /\ f.grants = mgr.grants /\ f.direct = mgr.direct /\ f.legacy = mgr.legacy
      /\ f.deleting = mgr.deleting /\ f.fault = mgr.fault /\ f.imported = mgr.imported
  <2>1. f \in MgrType
    BY <1>3, MgrWith
  <2> QED BY <1>3, <2>1 DEF MgrType
<1> HIDE DEF f
<1>5. Idling \in CallType /\ Idling.pc = "idle" /\ Idling.todo = {}
  BY DEF Idling, CallType, PCs
<1>6. ASSUME call' = Idling, mgr' = m \/ mgr' = f
      PROVE  /\ mgr' \in MgrType /\ ~mgr'.busy /\ ~mgr'.settling
             /\ mgr'.nonce = mgr.nonce /\ mgr'.active = mgr.active
             /\ mgr'.grants = mgr.grants /\ mgr'.direct = mgr.direct /\ mgr'.legacy = mgr.legacy
             /\ mgr'.deleting = mgr.deleting /\ mgr'.fault = mgr.fault /\ mgr'.imported = mgr.imported
             /\ CallPlaced' /\ call' \in CallType /\ call'.pc = "idle" /\ call'.todo = {}
             /\ mgr'.busy = (call'.pc # "idle")
  <2>1. CallPlaced'
    BY <1>5, <1>6 DEF CallPlaced
  <2>2. mgr' \in MgrType /\ ~mgr'.busy /\ ~mgr'.settling
    BY <1>3, <1>4, <1>6
  <2>3. mgr'.busy \in BOOLEAN
    BY <2>2, MgrWith
  <2>4. mgr'.busy = (call'.pc # "idle")
    BY <1>5, <1>6, <2>2, <2>3
  <2> QED BY <1>3, <1>4, <1>5, <1>6, <2>1, <2>2, <2>4
<1>7. CASE \/ mgr' = m /\ call' = Idling /\ UNCHANGED <<journal, disk, faults>>
           \/ /\ mgr.nonce = 0 \/ journal.sess[mgr.nonce].retired
              /\ mgr' = f /\ call' = Idling /\ UNCHANGED <<journal, disk, faults>>
  <2>1. Typed' /\ Sound(disk)'
    BY <1>1, <1>6, <1>7 DEF Structure, Typed
  <2>2. Disciplined'
    BY <1>1, <1>2, <1>6, <1>7 DEF Structure, Disciplined, Custodial, Reconciling
  <2>3. ~mgr'.imported /\ ~mgr'.fault =>
          /\ OpenSessions(journal) \subseteq {mgr'.nonce}
          /\ OpenSessions(journal) # {} => mgr'.active \/ mgr'.pendingRelease
    <3>1. CASE mgr' = m
      BY <1>3, <1>7, <3>1 DEF Structure, Sessions
    <3>2. CASE mgr.nonce = 0 \/ journal.sess[mgr.nonce].retired
      <4>1. mgr.nonce \notin OpenSessions(journal)
        BY <3>2 DEF OpenSessions, Structure, Sessions, Counts
      <4> QED BY <1>6, <1>7, <4>1 DEF Structure, Sessions
    <3> QED BY <1>7, <3>1, <3>2
  <2>4. Sessions'
    BY <1>6, <1>7, <2>3 DEF Structure, Sessions, Counts, OpenSessions
  <2>5. GrantsPlaced'
    BY <1>1, <1>6, <1>7 DEF Structure, GrantsPlaced, Placed, Granted, Reconciling
  <2> QED BY <1>6, <1>7, <2>1, <2>2, <2>4, <2>5 DEF Structure
<1>8. CASE Finishable /\ mgr.nonce # 0 /\ Save(k, <<f, Idling>>, <<m, Idling>>)
  <2>1. mgr.nonce \in DOMAIN journal.sess /\ Counts(journal)
    BY <1>8 DEF Structure, Sessions
  <2>2. /\ ~mgr.active /\ Granted = {} /\ \A q \in OutputsOf(journal, mgr.nonce) : journal.out[q].retired
    BY <1>8 DEF Finishable
  <2>3. /\ JournalType(k) /\ Counts(k) /\ DOMAIN k.sess = DOMAIN journal.sess /\ k.out = journal.out
        /\ OpenSessions(k) = OpenSessions(journal) \ {mgr.nonce}
        /\ Sound(journal) => Sound(k)
    BY <1>2, <2>1, <2>2, SessionRetires
  <2> HIDE DEF k
  <2>4. CASE ~mgr.fault /\ journal' = k /\ disk' = k /\ mgr' = f /\ call' = Idling /\ faults' = faults
    <3>1. journal = disk
      BY <2>4 DEF Structure, Disciplined
    <3>2. Typed' /\ Sound(disk)'
      BY <1>1, <1>6, <2>3, <2>4, <3>1 DEF Structure, Typed, Sound, OutputSound
    <3>3. Disciplined'
      BY <1>1, <1>2, <1>6, <2>4 DEF Structure, Disciplined, Custodial, Reconciling
    <3>4. \A s, t \in OpenSessions(k) : s = t
      BY <2>3, <3>1 DEF Structure, Sessions
    <3>5. ~mgr.imported => OpenSessions(k) = {}
      BY <2>3, <2>4 DEF Structure, Sessions
    <3>6. Sessions'
      BY <1>6, <2>1, <2>2, <2>3, <2>4, <3>4, <3>5 DEF Structure, Sessions, Counts, OpenSessions
    <3>7. GrantsPlaced'
      <4>1. \A d \in Devices : mgr'.grants[d] = None
        BY <1>6, <2>2, <2>4 DEF Granted
      <4>2. call'.todo = {}
        BY <1>6, <2>4
      <4> QED BY <4>1, <4>2 DEF GrantsPlaced, Granted
    <3> QED BY <1>6, <2>4, <3>2, <3>3, <3>6, <3>7 DEF Structure
  <2>5. CASE /\ journal' = k /\ disk' \in {disk, k} /\ mgr'.fault /\ call' = Idling
             /\ mgr' = [m EXCEPT !.fault = TRUE]
             /\ disk' = k => ~mgr.fault \/ disk = k
             /\ faults' \in 0 .. MaxFaults
    <3>1. /\ mgr' \in MgrType /\ ~mgr'.busy /\ ~mgr'.settling
          /\ mgr'.nonce = mgr.nonce /\ mgr'.active = mgr.active
          /\ mgr'.grants = mgr.grants /\ mgr'.direct = mgr.direct /\ mgr'.legacy = mgr.legacy
          /\ mgr'.deleting = mgr.deleting /\ mgr'.imported = mgr.imported
      BY <1>3, <2>5, FaultedIs
    <3>2. mgr'.busy = (call'.pc # "idle") /\ call'.todo \subseteq Granted /\ late' \subseteq CommandType
          /\ nreq' \in 0 .. MaxRequests + MaxAttempts /\ call' \in CallType /\ call'.pc \in {"idle", "finish"}
      <4>1. mgr'.busy \in BOOLEAN
        BY <3>1, MgrWith
      <4>2. mgr'.busy = (call'.pc # "idle")
        BY <1>5, <2>5, <3>1, <4>1
      <4> QED BY <1>1, <1>2, <1>5, <2>5, <4>2
    <3>3. disk' = k => Sound(k) /\ \A s, t \in OpenSessions(k) : s = t
      <4>1. CASE ~mgr.fault
        BY <2>3, <4>1 DEF Structure, Sessions, Disciplined
      <4>2. CASE disk = k
        BY <4>2 DEF Structure, Sessions
      <4> QED BY <2>5, <4>1, <4>2
    <3>4. Untried(journal, k) /\ \A p \in DOMAIN journal.out : k.out[p].origin = journal.out[p].origin
      BY <2>3 DEF Untried
    <3> QED BY <1>2, <2>3, <2>5, <3>1, <3>2, <3>3, <3>4, FailedSave
  <2>6. CASE mgr.fault /\ journal' = k /\ disk' = disk /\ faults' = faults /\ mgr' = m /\ call' = Idling
    <3>1. mgr' = [m EXCEPT !.fault = TRUE] /\ mgr'.fault
      BY <1>3, <2>6 DEF MgrType
    <3> QED BY <1>2, <2>5, <2>6, <3>1
  <2>7. CASE /\ ~mgr.fault /\ faults < MaxFaults /\ faults' = faults + 1 /\ disk' \in {disk, k}
             /\ journal' = k /\ mgr' = [m EXCEPT !.fault = TRUE] /\ call' = Idling
    <3>1. mgr'.fault
      BY <1>3, <2>7, FaultedIs
    <3>2. faults' \in 0 .. MaxFaults
      BY <2>7, FaultsTyped
    <3> QED BY <2>5, <2>7, <3>1, <3>2
  <2> QED BY <1>8, <2>4, <2>6, <2>7, SaveEnds
<1> QED BY <1>1, <1>7, <1>8

-----------------------------------------------------------------------------
(* The structure is kept: recovery *)

LEMMA CustodyEnterStructure ==
  ASSUME Structure, CustodyEnter
  PROVE  Structure'
<1> DEFINE m == [mgr EXCEPT !.busy = TRUE]
           e == [Idling EXCEPT !.pc = "scan"]
<1>1. /\ call.pc = "idle" /\ Blocked /\ ~mgr.fault /\ ~mgr.busy /\ mgr.direct = 0 /\ mgr' = m /\ call' = e
      /\ UNCHANGED <<nat, changes, journal, disk, late, nreq, faults>>
  BY DEF CustodyEnter, At
<1>2. mgr \in MgrType /\ mgr.imported /\ ~mgr.settling /\ ~mgr.deleting
  <2>1. ~mgr.deleting
    BY <1>1 DEF Structure, Disciplined
  <2> QED BY <1>1, <2>1 DEF Structure, Typed, Disciplined, Blocked
<1>3. /\ m \in MgrType /\ m.busy
      /\ m.nonce = mgr.nonce /\ m.active = mgr.active /\ m.pendingRelease = mgr.pendingRelease
      /\ m.grants = mgr.grants /\ m.direct = mgr.direct /\ m.legacy = mgr.legacy /\ m.settling = mgr.settling
      /\ m.deleting = mgr.deleting /\ m.fault = mgr.fault /\ m.imported = mgr.imported
  <2>1. m \in MgrType
    BY <1>2, MgrWith
  <2> QED BY <1>2, <2>1 DEF MgrType
<1>4. e \in CallType /\ e.pc = "scan" /\ e.todo = {}
  BY DEF Idling, CallType, PCs, Custodial
<1> HIDE DEF m, e
<1>5. Typed' /\ Sound(disk)'
  BY <1>1, <1>3, <1>4 DEF Structure, Typed
<1>6. Disciplined'
  BY <1>1, <1>2, <1>3, <1>4 DEF Structure, Disciplined, Custodial, Reconciling
<1>7. Sessions'
  BY <1>1, <1>3 DEF Structure, Sessions, Counts, OpenSessions
<1>8. GrantsPlaced'
  BY <1>1, <1>3, <1>4 DEF Structure, GrantsPlaced, Placed, Granted, Reconciling
<1>9. CallPlaced'
  BY <1>1, <1>4 DEF CallPlaced
<1> QED BY <1>5, <1>6, <1>7, <1>8, <1>9 DEF Structure

\* A section of recovery that changes neither the owner nor the journal.
LEMMA CustodyMoves ==
  ASSUME Structure, UNCHANGED <<mgr, journal, disk, late, nreq, faults>>, call.pc \in Custodial,
         call' \in CallType, call'.pc \in Custodial, call'.todo = call.todo, CallPlaced'
  PROVE  Structure'
<1>1. Typed' /\ Sound(disk)'
  BY DEF Structure, Typed
<1>2. Disciplined'
  BY DEF Structure, Disciplined, Custodial, Reconciling
<1>3. Sessions'
  BY DEF Structure, Sessions, Counts, OpenSessions
<1>4. GrantsPlaced'
  BY DEF Structure, GrantsPlaced, Placed, Granted, Reconciling, Custodial
<1> QED BY <1>1, <1>2, <1>3, <1>4 DEF Structure

\* Recovery gives up for this time.
LEMMA CustodyEndsIs ==
  ASSUME Structure, call.pc \in Custodial, CustodyEnds
  PROVE  /\ mgr' \in MgrType /\ mgr'.fault = mgr.fault /\ ~mgr'.fault /\ mgr'.nonce = mgr.nonce
         /\ mgr'.direct = mgr.direct /\ mgr'.legacy = mgr.legacy
         /\ mgr'.grants = mgr.grants /\ mgr'.deleting = mgr.deleting /\ mgr'.imported = mgr.imported
         /\ mgr'.active = mgr.active /\ ~mgr'.busy /\ mgr'.settling = mgr.settling
         /\ mgr'.pendingRelease = mgr.pendingRelease /\ ~mgr'.settling
         /\ call' \in CallType /\ call'.pc = "idle" /\ call'.todo = {} /\ mgr'.busy = (call'.pc # "idle")
         /\ CallPlaced'
<1>1. mgr \in MgrType /\ ~mgr.fault /\ ~mgr.settling
  BY DEF Structure, Typed, Disciplined, Custodial
<1>2. mgr' = [mgr EXCEPT !.busy = FALSE] /\ call' = Idling
  BY DEF CustodyEnds, CustodyOver
<1>3. Idling \in CallType /\ Idling.pc = "idle" /\ Idling.todo = {}
  BY DEF Idling, CallType, PCs
<1>4. /\ mgr' \in MgrType /\ mgr'.fault = mgr.fault /\ mgr'.nonce = mgr.nonce
      /\ mgr'.direct = mgr.direct /\ mgr'.legacy = mgr.legacy
      /\ mgr'.grants = mgr.grants /\ mgr'.deleting = mgr.deleting /\ mgr'.imported = mgr.imported
      /\ mgr'.active = mgr.active /\ ~mgr'.busy /\ mgr'.settling = mgr.settling
      /\ mgr'.pendingRelease = mgr.pendingRelease
  BY <1>1, <1>2, FreedIs
<1>5. mgr'.busy = (call'.pc # "idle")
  <2>1. mgr'.busy \in BOOLEAN
    BY <1>4, MgrWith
  <2> QED BY <1>2, <1>3, <1>4, <2>1
<1>6. CallPlaced'
  BY <1>2, <1>3 DEF CallPlaced
<1> QED BY <1>1, <1>2, <1>3, <1>4, <1>5, <1>6

LEMMA CustodyEndsStructure ==
  ASSUME Structure, call.pc \in Custodial, CustodyEnds, UNCHANGED <<journal, disk, nreq>>,
         late' \subseteq CommandType, faults' \in 0 .. MaxFaults
  PROVE  Structure'
<1>1. /\ mgr' \in MgrType /\ mgr'.fault = mgr.fault /\ ~mgr'.fault /\ mgr'.nonce = mgr.nonce
      /\ mgr'.direct = mgr.direct /\ mgr'.legacy = mgr.legacy
      /\ mgr'.grants = mgr.grants /\ mgr'.deleting = mgr.deleting /\ mgr'.imported = mgr.imported
      /\ mgr'.active = mgr.active /\ ~mgr'.busy /\ mgr'.settling = mgr.settling
      /\ mgr'.pendingRelease = mgr.pendingRelease /\ ~mgr'.settling
      /\ call' \in CallType /\ call'.pc = "idle" /\ call'.todo = {} /\ mgr'.busy = (call'.pc # "idle")
      /\ CallPlaced'
  BY CustodyEndsIs
<1>2. Typed' /\ Sound(disk)'
  BY <1>1 DEF Structure, Typed
<1>3. Disciplined'
  BY <1>1 DEF Structure, Disciplined, Custodial, Reconciling
<1>4. Sessions'
  BY <1>1 DEF Structure, Sessions, Counts, OpenSessions
<1>5. GrantsPlaced'
  BY <1>1 DEF Structure, GrantsPlaced, Placed, Granted, Reconciling, Custodial
<1> QED BY <1>1, <1>2, <1>3, <1>4, <1>5 DEF Structure

LEMMA AttemptIs ==
  ASSUME NEW o \in OutputType, NEW c \in CommandType, LedgerType(nat)
  PROVE  LET x == Attempt(o, c)
         IN /\ x \in OutputType /\ x.sid = o.sid /\ x.dev = o.dev /\ x.origin = o.origin /\ x.retired = o.retired
            /\ x.how = o.how /\ ~x.rejected /\ x.result = None /\ x.rec # None
            /\ x.rec = [req |-> c.req, proc |-> c.exp.proc, inc |-> c.exp.inc, sess |-> c.exp.sess]
<1> DEFINE a == [req |-> c.req, proc |-> c.exp.proc, inc |-> c.exp.inc, sess |-> c.exp.sess]
           y == [proc |-> nat.proc, drain |-> nat.dev[o.dev].drained]
           u == IF Failed(o) /\ OwnedDrain(o) THEN o.consumed \cup {y} ELSE o.consumed
<1>1. a \in AttemptType /\ a # None
  BY NoneAssumption DEF CommandType, AttemptType, Identities
<1>2. y \in [proc : Nat, drain : DrainType \cup {None}]
  <2>1. nat.dev[o.dev] \in DeviceType /\ nat.proc \in Nat
    BY DEF LedgerType, OutputType
  <2> QED BY <2>1 DEF DeviceType, DrainType
<1>3. u \subseteq [proc : Nat, drain : DrainType \cup {None}]
  BY <1>2 DEF OutputType
<1>4. Attempt(o, c) = [o EXCEPT !.rejected = FALSE, !.result = None, !.rec = a, !.consumed = u]
  BY DEF Attempt
<1> HIDE DEF a, u
<1>5. LET x == [o EXCEPT !.rejected = FALSE, !.result = None, !.rec = a, !.consumed = u]
      IN /\ x \in OutputType /\ x.sid = o.sid /\ x.dev = o.dev /\ x.origin = o.origin /\ x.retired = o.retired
         /\ x.how = o.how /\ ~x.rejected /\ x.result = None /\ x.rec = a
  BY <1>1, <1>3 DEF OutputType
<1> QED BY <1>1, <1>4, <1>5 DEF a

\* A save inside recovery that writes one output.
LEMMA CustodyWrites ==
  ASSUME Structure, call.pc \in Custodial, NEW k, NEW e, e \in CallType, e.pc \in Custodial, e.todo = call.todo,
         Extended(journal, k), Save(k, <<mgr, e>>, CustodyOver),
         ASSUME disk' = k, call' = e PROVE CallPlaced',
         late' = late, nreq' \in 0 .. MaxRequests + MaxAttempts
  PROVE  Structure'
<1>1. /\ ~mgr.fault /\ mgr \in MgrType /\ late \subseteq CommandType /\ call.todo \subseteq Granted /\ mgr.imported
      /\ faults \in 0 .. MaxFaults /\ ~mgr.settling /\ mgr.busy /\ call.pc # "idle"
  BY DEF Structure, Typed, Disciplined, GrantsPlaced, Custodial
<1>2. Successor(journal, k)
  BY <1>1, ExtendedSucceeds
<1>3. \/ Structure'
      \/ journal' = k /\ disk' = k /\ mgr' = mgr /\ call' = e /\ faults' = faults
  BY <1>2, CustodySave
<1>4. CASE journal' = k /\ disk' = k /\ mgr' = mgr /\ call' = e /\ faults' = faults
  <2>1. CallPlaced'
    BY <1>4
  <2>2. mgr'.busy = (call'.pc # "idle") /\ call'.pc \notin Reconciling
    BY <1>1, <1>4 DEF Custodial, Reconciling
  <2>3. call'.todo \subseteq {d \in Devices : mgr'.grants[d] # None}
    BY <1>1, <1>4 DEF Granted
  <2> QED BY <1>1, <1>4, <2>1, <2>2, <2>3, OutputSaved
<1> QED BY <1>3, <1>4

LEMMA AttemptsStructure ==
  ASSUME Structure, LedgerInv(nat), CustodyAttempts
  PROVE  Structure'
<1>1. call.pc = "scan" /\ call.pc \in Custodial /\ nreq' = nreq + 1 /\ UNCHANGED <<nat, changes, late>>
  BY DEF CustodyAttempts, At, Custodial
<1> DEFINE C(q) == [Command("recover", Id(nat, journal.out[q].dev)) EXCEPT !.origin = journal.out[q].origin]
<1>2. PICK q \in Owed(journal) :
        /\ nreq < MaxRequests + MaxAttempts
        /\ Save([journal EXCEPT !.out[q] = Attempt(journal.out[q], C(q))],
                <<mgr, [call EXCEPT !.pc = "recover", !.cmd = C(q), !.out = q]>>, CustodyOver)
  BY DEF CustodyAttempts
<1> DEFINE o == journal.out[q]
           s == Command("recover", Id(nat, o.dev))
           c == C(q)
           x == Attempt(o, c)
           k == [journal EXCEPT !.out[q] = x]
           e == [call EXCEPT !.pc = "recover", !.cmd = c, !.out = q]
<1>3. /\ call \in CallType /\ JournalType(journal) /\ nreq \in 0 .. MaxRequests + MaxAttempts
      /\ ~mgr.fault /\ journal = disk
  BY <1>1 DEF Structure, Typed, Disciplined, Custodial
<1>4. q \in DOMAIN journal.out /\ ~o.retired /\ q \in Request /\ o \in OutputType /\ o.dev \in Devices
      /\ o.origin \in Origin
  BY <1>3 DEF Owed, OpenOutputs, JournalType, OutputType
<1>5. nreq \in Nat /\ nreq' \in 0 .. MaxRequests + MaxAttempts
  BY <1>1, <1>2, <1>3, AttentionAssumption
<1>6. c \in CommandType /\ c.action = "recover" /\ c.origin = o.origin /\ c.exp.dev = o.dev
  <2>1. LedgerType(nat) /\ Id(nat, o.dev) \in Identities /\ Id(nat, o.dev).dev = o.dev
    BY <1>4, DeviceTyped DEF LedgerInv, Id
  <2>2. s \in CommandType /\ s.action = "recover" /\ s.exp.dev = o.dev
    BY <1>5, <2>1, CommandTyped DEF ActionType
  <2> HIDE DEF s
  <2>3. c = [s EXCEPT !.origin = o.origin]
    BY DEF s
  <2> QED BY <1>4, <2>2, <2>3 DEF CommandType
<1> HIDE DEF C
<1>7. /\ x \in OutputType /\ x.sid = o.sid /\ x.dev = o.dev /\ x.origin = o.origin /\ ~x.retired
      /\ ~x.rejected /\ x.result = None /\ x.rec # None /\ x.rec.req = c.req
  <2>1. LedgerType(nat)
    BY DEF LedgerInv
  <2>2. /\ x \in OutputType /\ x.sid = o.sid /\ x.dev = o.dev /\ x.origin = o.origin /\ x.retired = o.retired
        /\ ~x.rejected /\ x.result = None /\ x.rec # None
        /\ x.rec = [req |-> c.req, proc |-> c.exp.proc, inc |-> c.exp.inc, sess |-> c.exp.sess]
    BY <1>4, <1>6, <2>1, AttemptIs
  <2> HIDE DEF x
  <2> QED BY <1>4, <2>2
<1> HIDE DEF x
<1>8. Holds(journal, k, q, x)
  BY <1>3, <1>4, <1>7, OutputHeld
<1>9. Extended(journal, k)
  BY <1>3, <1>4, <1>7, <1>8, Rewritten DEF Structure
<1>10. Save(k, <<mgr, e>>, CustodyOver)
  BY <1>2 DEF x
<1>11. e \in CallType
  BY <1>3, <1>4, <1>6, CallWith DEF PCs, Custodial
<1>12. e.pc = "recover" /\ e.cmd = c /\ e.out = q /\ e.todo = call.todo /\ e.pc \in Custodial
  BY <1>3, <1>11 DEF CallType, Custodial
<1> HIDE DEF e, k
<1>13. ASSUME disk' = k, call' = e PROVE CallPlaced'
  <2>1. q \in DOMAIN k.out /\ k.out[q] = x
    BY <1>8 DEF Holds
  <2> QED BY <1>6, <1>7, <1>12, <1>13, <2>1 DEF CallPlaced
<1> QED BY <1>1, <1>5, <1>9, <1>10, <1>11, <1>12, <1>13, CustodyWrites

LEMMA StoresStructure ==
  ASSUME Structure, CustodyStores
  PROVE  Structure'
<1> DEFINE q == call.out
           o == journal.out[q]
           x == [o EXCEPT !.result = call.answer]
           k == [journal EXCEPT !.out[q] = x]
           e == Custody("prove")
<1>1. /\ call.pc = "store" /\ call.pc \in Custodial /\ UNCHANGED <<nat, changes, late, nreq>>
      /\ Save([journal EXCEPT !.out[q].result = call.answer], <<mgr, e>>, CustodyOver)
  BY DEF CustodyStores, At, Custodial
<1>2. /\ call \in CallType /\ JournalType(journal) /\ nreq \in 0 .. MaxRequests + MaxAttempts
      /\ ~mgr.fault /\ journal = disk
  BY <1>1 DEF Structure, Typed, Disciplined, Custodial
<1>3. /\ q \in DOMAIN journal.out /\ ~o.retired /\ o.rec # None /\ ~o.rejected /\ call.answer \in AnswerType
      /\ o \in OutputType /\ q \in Request
  BY <1>1, <1>2 DEF Structure, CallPlaced, JournalType
<1>4. /\ x \in OutputType /\ x.sid = o.sid /\ x.origin = o.origin /\ ~x.retired /\ x.rec = o.rec
      /\ ~x.rejected /\ x.result = call.answer /\ x.result # None
  BY <1>3, NoneAssumption DEF OutputType
<1>5. Save(k, <<mgr, e>>, CustodyOver)
  <2>1. [journal EXCEPT !.out[q].result = call.answer] = k
    BY <1>2, <1>3 DEF JournalType
  <2> QED BY <1>1, <2>1
<1> HIDE DEF x
<1>6. Holds(journal, k, q, x)
  BY <1>2, <1>3, <1>4, OutputHeld
<1>7. Extended(journal, k)
  BY <1>2, <1>3, <1>4, <1>6, Rewritten DEF Structure
<1>8. e \in CallType /\ e.pc = "prove" /\ e.todo = call.todo /\ e.pc \in Custodial
  BY <1>2, GoesOn DEF Custody, Custodial
<1>9. e.out = q
  BY <1>2 DEF Custody, CallType
<1> HIDE DEF e, k
<1>10. ASSUME disk' = k, call' = e PROVE CallPlaced'
  <2>1. q \in DOMAIN k.out /\ k.out[q] = x
    BY <1>6 DEF Holds
  <2> QED BY <1>3, <1>4, <1>8, <1>9, <1>10, <2>1 DEF CallPlaced
<1> QED BY <1>1, <1>2, <1>5, <1>7, <1>8, <1>10, CustodyWrites

LEMMA ProvesStructure ==
  ASSUME Structure, CustodyProves
  PROVE  Structure'
<1> DEFINE q == call.out
           o == journal.out[q]
           k == Retired(journal, q, "recover")
           e == Custody("scan")
<1>1. call.pc = "prove" /\ call.pc \in Custodial /\ UNCHANGED <<nat, changes, late, nreq>>
  BY DEF CustodyProves, At, Custodial
<1>2. /\ call \in CallType /\ JournalType(journal) /\ nreq \in 0 .. MaxRequests + MaxAttempts
      /\ ~mgr.fault /\ journal = disk /\ faults \in 0 .. MaxFaults /\ late \subseteq CommandType
  BY <1>1 DEF Structure, Typed, Disciplined, Custodial
<1>3. q \in DOMAIN journal.out /\ o.rec # None /\ o.result # None /\ ~o.rejected
  <2>1. q \in DOMAIN journal.out /\ o.rec # None /\ o.result # None
    BY <1>1, <1>2 DEF Structure, CallPlaced
  <2> QED BY <1>2, <2>1 DEF Structure, Sound, OutputSound
<1>4. CASE CustodyEnds /\ UNCHANGED <<journal, disk, faults>>
  BY <1>1, <1>2, <1>4, CustodyEndsStructure
<1>5. CASE Proves(o.result) /\ Save(k, <<mgr, e>>, CustodyOver)
  <2>1. Extended(journal, k)
    BY <1>2, <1>3, <1>5, RetiredIs DEF Structure
  <2>2. e \in CallType /\ e.pc = "scan" /\ e.todo = call.todo /\ e.pc \in Custodial
    BY <1>2, GoesOn DEF Custody, Custodial
  <2> HIDE DEF e, k
  <2>3. ASSUME disk' = k, call' = e PROVE CallPlaced'
    BY <2>2, <2>3 DEF CallPlaced
  <2> QED BY <1>1, <1>2, <1>5, <2>1, <2>2, <2>3, CustodyWrites
<1> QED BY <1>4, <1>5 DEF CustodyProves

LEMMA RejectedStructure ==
  ASSUME Structure, RecoverRejected
  PROVE  Structure'
<1> DEFINE q == call.out
           o == journal.out[q]
           x == [o EXCEPT !.rejected = TRUE]
           k == [journal EXCEPT !.out[q] = x]
<1>1. /\ call.pc = "recover" /\ call.pc \in Custodial /\ UNCHANGED <<nat, changes, late, nreq>>
      /\ Save([journal EXCEPT !.out[q].rejected = TRUE], CustodyOver, CustodyOver)
  BY DEF RecoverRejected, At, Custodial
<1>2. /\ call \in CallType /\ JournalType(journal) /\ nreq \in 0 .. MaxRequests + MaxAttempts
      /\ ~mgr.fault /\ journal = disk /\ faults \in 0 .. MaxFaults /\ late \subseteq CommandType
      /\ mgr.imported /\ call.pc # "idle"
  BY <1>1 DEF Structure, Typed, Disciplined, Custodial
<1>3. /\ q \in DOMAIN journal.out /\ ~o.retired /\ o.rec # None /\ o.result = None
      /\ o \in OutputType /\ q \in Request
  BY <1>1, <1>2 DEF Structure, CallPlaced, JournalType
<1>4. /\ x \in OutputType /\ x.sid = o.sid /\ x.origin = o.origin /\ ~x.retired /\ x.rec = o.rec
      /\ x.rejected /\ x.result = None
  BY <1>3 DEF OutputType
<1>5. [journal EXCEPT !.out[q].rejected = TRUE] = k
  BY <1>2, <1>3 DEF JournalType
<1> HIDE DEF x
<1>6. Holds(journal, k, q, x)
  BY <1>2, <1>3, <1>4, OutputHeld
<1>7. Extended(journal, k)
  BY <1>2, <1>3, <1>4, <1>6, Rewritten DEF Structure
<1>8. Successor(journal, k)
  BY <1>2, <1>7, ExtendedSucceeds
<1> HIDE DEF k
<1> DEFINE m == CustodyOver[1]
           c == CustodyOver[2]
<1>9. Save(k, <<m, c>>, CustodyOver)
  BY <1>1, <1>5 DEF CustodyOver
<1> HIDE DEF m, c
<1>10. \/ Structure'
       \/ journal' = k /\ disk' = k /\ mgr' = m /\ call' = c /\ faults' = faults
  BY <1>1, <1>2, <1>8, <1>9, CustodySave
<1>11. CASE journal' = k /\ disk' = k /\ mgr' = m /\ call' = c /\ faults' = faults
  <2>1. CustodyEnds
    BY <1>11 DEF CustodyEnds, m, c
  <2>2. /\ mgr' \in MgrType /\ ~mgr'.fault /\ mgr'.nonce = mgr.nonce
        /\ mgr'.direct = mgr.direct /\ mgr'.legacy = mgr.legacy
        /\ mgr'.grants = mgr.grants /\ mgr'.deleting = mgr.deleting /\ mgr'.imported = mgr.imported
        /\ mgr'.active = mgr.active /\ ~mgr'.busy /\ mgr'.settling = mgr.settling
        /\ mgr'.pendingRelease = mgr.pendingRelease /\ ~mgr'.settling
        /\ call' \in CallType /\ call'.pc = "idle" /\ call'.todo = {} /\ mgr'.busy = (call'.pc # "idle")
        /\ CallPlaced'
    BY <1>1, <2>1, CustodyEndsIs
  <2>3. call'.pc \notin Reconciling /\ call'.pc \notin Custodial
    BY <2>2 DEF Reconciling, Custodial
  <2> QED BY <1>1, <1>2, <1>7, <1>11, <2>2, <2>3, OutputSaved
<1> QED BY <1>10, <1>11

LEMMA RetiresSessionStructure ==
  ASSUME Structure, CustodyRetiresSession
  PROVE  Structure'
<1> DEFINE K(s) == [journal EXCEPT !.sess[s].retired = TRUE]
<1>1. call.pc = "scan" /\ call.pc \in Custodial /\ Owed(journal) = {} /\ UNCHANGED <<nat, changes, late, nreq>>
  BY DEF CustodyRetiresSession, At, Custodial
<1>2. PICK s \in OpenSessions(journal) : Save(K(s), <<mgr, call>>, CustodyOver)
  BY DEF CustodyRetiresSession
<1> DEFINE k == K(s)
<1>3. /\ call \in CallType /\ JournalType(journal) /\ nreq \in 0 .. MaxRequests + MaxAttempts
      /\ ~mgr.fault /\ journal = disk /\ faults \in 0 .. MaxFaults /\ late \subseteq CommandType
      /\ Counts(journal) /\ Sound(journal) /\ mgr.imported /\ mgr \in MgrType
  BY <1>1 DEF Structure, Typed, Disciplined, Custodial, Sessions
<1>4. s \in DOMAIN journal.sess /\ \A q \in OutputsOf(journal, s) : journal.out[q].retired
  BY <1>1 DEF OpenSessions, OutputsOf, Owed, OpenOutputs
<1>5. /\ JournalType(k) /\ Counts(k) /\ DOMAIN k.sess = DOMAIN journal.sess /\ k.out = journal.out
      /\ OpenSessions(k) = OpenSessions(journal) \ {s} /\ Sound(k)
  BY <1>3, <1>4, SessionRetires
<1> HIDE DEF K
<1>6. Successor(journal, k)
  BY <1>3, <1>5 DEF Successor, Structure, Sessions
<1>7. \/ Structure'
      \/ journal' = k /\ disk' = k /\ mgr' = mgr /\ call' = call /\ faults' = faults
  BY <1>1, <1>2, <1>3, <1>6, CustodySave
<1>8. CASE journal' = k /\ disk' = k /\ mgr' = mgr /\ call' = call /\ faults' = faults
  <2>1. Typed' /\ Sound(disk)'
    BY <1>1, <1>5, <1>8 DEF Structure, Typed, Sound, OutputSound
  <2>2. Disciplined'
    BY <1>3, <1>5, <1>8 DEF Structure, Disciplined, OpenSessions
  <2>3. Sessions'
    <3>1. \A u, v \in OpenSessions(k) : u = v
      BY <1>3, <1>5 DEF Structure, Sessions
    <3>2. ~mgr.active
      BY <1>3 DEF Structure, Disciplined
    <3> QED BY <1>3, <1>5, <1>8, <3>1, <3>2 DEF Structure, Sessions, Counts, OpenSessions
  <2>4. GrantsPlaced'
    BY <1>5, <1>8 DEF Structure, GrantsPlaced, Placed, Granted
  <2>5. CallPlaced'
    BY <1>1, <1>8 DEF CallPlaced
  <2> QED BY <2>1, <2>2, <2>3, <2>4, <2>5 DEF Structure
<1> QED BY <1>7, <1>8

LEMMA LooksInCustody ==
  ASSUME Structure, LedgerInv(nat), CustodyWaits \/ CustodyPolls \/ CustodyReexamines
  PROVE  Structure'
<1>1. /\ call.pc = "scan" /\ call.pc \in Custodial
      /\ UNCHANGED <<nat, changes, journal, disk, late, nreq, faults>>
  BY DEF CustodyWaits, CustodyPolls, CustodyReexamines, At, Custodial
<1>2. /\ call \in CallType /\ JournalType(journal) /\ ~mgr.fault /\ journal = disk
      /\ faults \in 0 .. MaxFaults /\ late \subseteq CommandType
  BY <1>1 DEF Structure, Typed, Disciplined, Custodial
<1>3. CASE CustodyEnds
  BY <1>1, <1>2, <1>3, CustodyEndsStructure
<1>4. CASE \E q \in Owed(journal) :
             /\ ~NeedsFresh(journal.out[q]) /\ mgr' = mgr
             /\ \/ /\ journal.out[q].rec.req \in DOMAIN nat.receipts
                   /\ call' = [call EXCEPT !.pc = "store", !.out = q, !.answer = Answer(nat, journal.out[q].rec.req)]
                \/ /\ journal.out[q].result # None
                   /\ call' = [call EXCEPT !.pc = "prove", !.out = q]
  <2>1. PICK q \in Owed(journal) :
          /\ ~NeedsFresh(journal.out[q]) /\ mgr' = mgr
          /\ \/ /\ journal.out[q].rec.req \in DOMAIN nat.receipts
                /\ call' = [call EXCEPT !.pc = "store", !.out = q, !.answer = Answer(nat, journal.out[q].rec.req)]
             \/ /\ journal.out[q].result # None
                /\ call' = [call EXCEPT !.pc = "prove", !.out = q]
    BY <1>4
  <2> DEFINE o == journal.out[q]
             a == Answer(nat, o.rec.req)
  <2>2. q \in DOMAIN journal.out /\ ~o.retired /\ q \in Request
    BY <1>2 DEF Owed, OpenOutputs, JournalType
  <2>3. ~o.rejected /\ o.rec # None
    BY <2>1 DEF NeedsFresh
  <2>4. CASE o.rec.req \in DOMAIN nat.receipts /\ call' = [call EXCEPT !.pc = "store", !.out = q, !.answer = a]
    <3>1. a \in AnswerType
      BY <2>4, ReceiptReads DEF LedgerInv
    <3> HIDE DEF a
    <3>2. call' \in CallType
      BY <1>2, <2>2, <2>4, <3>1, CallWith DEF PCs, Custodial
    <3>3. call'.pc = "store" /\ call'.out = q /\ call'.answer = a /\ call'.todo = call.todo
      BY <1>2, <2>4, <3>2 DEF CallType
    <3>4. CallPlaced'
      BY <1>1, <1>2, <2>2, <2>3, <3>1, <3>3 DEF CallPlaced
    <3> QED BY <1>1, <2>1, <3>2, <3>3, <3>4, CustodyMoves DEF Custodial
  <2>5. CASE o.result # None /\ call' = [call EXCEPT !.pc = "prove", !.out = q]
    <3>1. call' \in CallType
      BY <1>2, <2>2, <2>5, CallWith DEF PCs, Custodial
    <3>2. call'.pc = "prove" /\ call'.out = q /\ call'.todo = call.todo
      BY <1>2, <2>5, <3>1 DEF CallType
    <3>3. CallPlaced'
      BY <1>1, <1>2, <2>2, <2>3, <2>5, <3>2 DEF CallPlaced
    <3> QED BY <1>1, <2>1, <3>1, <3>2, <3>3, CustodyMoves DEF Custodial
  <2> QED BY <2>1, <2>4, <2>5
<1>5. CustodyEnds \/ \E q \in Owed(journal) :
             /\ ~NeedsFresh(journal.out[q]) /\ mgr' = mgr
             /\ \/ /\ journal.out[q].rec.req \in DOMAIN nat.receipts
                   /\ call' = [call EXCEPT !.pc = "store", !.out = q, !.answer = Answer(nat, journal.out[q].rec.req)]
                \/ /\ journal.out[q].result # None
                   /\ call' = [call EXCEPT !.pc = "prove", !.out = q]
  <2>1. CASE CustodyWaits
    BY <2>1 DEF CustodyWaits
  <2>2. CASE CustodyPolls
    BY <2>2 DEF CustodyPolls
  <2>3. CASE CustodyReexamines
    BY <2>3 DEF CustodyReexamines, Undecided
  <2> QED BY <2>1, <2>2, <2>3
<1> QED BY <1>3, <1>4, <1>5

LEMMA RecoverStructure ==
  ASSUME Structure, RecoverAnswered \/ RecoverLost,
         RecoverAnswered => LedgerInv(nat') /\ call.cmd.req \in DOMAIN nat'.receipts
  PROVE  Structure'
<1>1. call.pc = "recover" /\ call.pc \in Custodial /\ UNCHANGED <<changes, journal, disk, nreq>>
  BY DEF RecoverAnswered, RecoverLost, At, Custodial
<1>2. /\ call \in CallType /\ faults \in 0 .. MaxFaults /\ late \subseteq CommandType /\ call.cmd \in CommandType
  BY <1>1 DEF Structure, Typed, CallPlaced
<1>3. CASE RecoverLost
  <2>1. late' \subseteq CommandType /\ faults' \in 0 .. MaxFaults /\ CustodyEnds
    BY <1>2, <1>3, FaultsTyped DEF RecoverLost
  <2> QED BY <1>1, <2>1, CustodyEndsStructure
<1>4. CASE RecoverAnswered
  <2> DEFINE a == Answer(nat', call.cmd.req)
  <2>1. call' = [call EXCEPT !.pc = "store", !.answer = a] /\ UNCHANGED <<mgr, late, faults>>
    BY <1>4 DEF RecoverAnswered
  <2>2. a \in AnswerType
    BY <1>4, ReceiptReads DEF LedgerInv
  <2> HIDE DEF a
  <2>3. call' \in CallType
    BY <1>2, <2>1, <2>2, CallWith DEF PCs, Custodial
  <2>4. call'.pc = "store" /\ call'.out = call.out /\ call'.answer = a /\ call'.todo = call.todo
    BY <1>2, <2>1, <2>3 DEF CallType
  <2>5. CallPlaced'
    BY <1>1, <2>2, <2>4 DEF CallPlaced, Structure
  <2> QED BY <1>1, <2>1, <2>3, <2>4, <2>5, CustodyMoves DEF Custodial
<1> QED BY <1>3, <1>4

LEMMA DoneStructure ==
  ASSUME Structure, CustodyDone
  PROVE  Structure'
<1> DEFINE m == [mgr EXCEPT !.imported = FALSE, !.grants = NoGrants, !.nativePending = FALSE,
                            !.pendingRelease = FALSE, !.active = FALSE, !.busy = FALSE]
<1>1. /\ call.pc = "scan" /\ OpenSessions(journal) = {} /\ mgr' = m /\ call' = Idling
      /\ UNCHANGED <<nat, changes, journal, disk, late, nreq, faults>>
  BY DEF CustodyDone, At
<1>2. mgr \in MgrType /\ ~mgr.fault /\ ~mgr.settling /\ ~mgr.deleting
  BY <1>1 DEF Structure, Typed, Disciplined, Custodial
<1>3. /\ m \in MgrType /\ ~m.busy /\ ~m.active /\ ~m.imported /\ m.grants = NoGrants
      /\ m.nonce = mgr.nonce /\ m.direct = mgr.direct /\ m.legacy = mgr.legacy /\ m.settling = mgr.settling
      /\ m.deleting = mgr.deleting /\ m.fault = mgr.fault
  <2>1. NoGrants \in [Devices -> GrantType \cup {None}]
    BY DEF NoGrants
  <2>2. m \in MgrType
    BY <1>2, <2>1, MgrWith
  <2> QED BY <1>2, <2>2 DEF MgrType
<1>4. Idling \in CallType /\ Idling.pc = "idle" /\ Idling.todo = {}
  BY DEF Idling, CallType, PCs
<1> HIDE DEF m
<1>5. Typed' /\ Sound(disk)'
  BY <1>1, <1>3, <1>4 DEF Structure, Typed
<1>6. Disciplined'
  <2>1. mgr'.busy = (call'.pc # "idle")
    <3>1. mgr'.busy \in BOOLEAN /\ ~mgr'.busy /\ call'.pc = "idle"
      BY <1>1, <1>3, <1>4, MgrWith
    <3> QED BY <3>1
  <2> QED BY <1>1, <1>2, <1>3, <1>4, <2>1 DEF Structure, Disciplined, Custodial, Reconciling
<1>7. Sessions'
  BY <1>1, <1>2, <1>3 DEF Structure, Sessions, Counts, OpenSessions
<1>8. GrantsPlaced'
  BY <1>1, <1>3, <1>4 DEF GrantsPlaced, Granted, NoGrants
<1>9. CallPlaced'
  BY <1>1, <1>4 DEF CallPlaced
<1> QED BY <1>5, <1>6, <1>7, <1>8, <1>9 DEF Structure

LEMMA NewManagerIs ==
  ASSUME NEW p \in Nat, NEW m, NEW b \in BOOLEAN, NEW f \in BOOLEAN,
         m = [NewManager(p) EXCEPT !.imported = b, !.fault = f]
  PROVE  /\ m \in MgrType /\ m.imported = b /\ m.fault = f /\ ~m.active /\ ~m.pendingRelease /\ ~m.busy
         /\ ~m.settling /\ ~m.deleting /\ m.direct = 0 /\ m.legacy = 0 /\ m.nonce = 0 /\ m.grants = NoGrants
         /\ m.busy = FALSE
<1>1. NoGrants \in [Devices -> GrantType \cup {None}]
  BY DEF NoGrants
<1>2. NewManager(p) \in MgrType
  BY <1>1 DEF NewManager, MgrType
<1>3. m \in MgrType
  BY <1>2, MgrWith
<1> QED BY <1>3 DEF NewManager, MgrType

LEMMA CrashStructure ==
  ASSUME Structure, Crash
  PROVE  Structure'
<1> DEFINE m == [NewManager(mgr.proc + 1) EXCEPT !.imported = (OpenSessions(disk) # {}), !.fault = ~Loads(disk)]
<1>1. /\ faults < MaxFaults /\ faults' = faults + 1 /\ journal' = disk /\ disk' = disk /\ mgr' = m
      /\ call' = Idling /\ UNCHANGED <<nat, changes, nreq>>
      /\ late' \subseteq late \cup (IF call.pc \in {"put", "recover"} THEN {call.cmd} ELSE {})
  BY DEF Crash
<1>2. /\ mgr.proc + 1 \in Nat /\ (OpenSessions(disk) # {}) \in BOOLEAN /\ (~Loads(disk)) \in BOOLEAN
  BY MgrWith DEF Structure, Typed
<1>3. /\ m \in MgrType /\ m.imported = (OpenSessions(disk) # {}) /\ ~m.active /\ ~m.pendingRelease /\ ~m.busy
      /\ ~m.settling /\ ~m.deleting /\ m.direct = 0 /\ m.legacy = 0 /\ m.nonce = 0 /\ m.grants = NoGrants
      /\ m.busy = FALSE
  <2> DEFINE b == (OpenSessions(disk) # {})
             f == ~Loads(disk)
             p == mgr.proc + 1
  <2>1. p \in Nat /\ b \in BOOLEAN /\ f \in BOOLEAN /\ m = [NewManager(p) EXCEPT !.imported = b, !.fault = f]
    BY <1>2
  <2> HIDE DEF b, f, p, m
  <2>2. /\ m \in MgrType /\ m.imported = b /\ ~m.active /\ ~m.pendingRelease /\ ~m.busy
        /\ ~m.settling /\ ~m.deleting /\ m.direct = 0 /\ m.legacy = 0 /\ m.nonce = 0 /\ m.grants = NoGrants
        /\ m.busy = FALSE
    BY <2>1, NewManagerIs
  <2> QED BY <2>2 DEF b
<1> HIDE DEF m
<1>4. Idling \in CallType /\ Idling.pc = "idle" /\ Idling.todo = {}
  BY DEF Idling, CallType, PCs
<1>5. late' \subseteq CommandType
  <2>1. late \subseteq CommandType
    BY DEF Structure, Typed
  <2>2. call.pc \in {"put", "recover"} => call.cmd \in CommandType
    <3>1. CASE call.pc = "put"
      <4>1. call.dev \in Granted /\ call.cmd = mgr.grants[call.dev].cmd
        BY <3>1 DEF Structure, CallPlaced
      <4>2. mgr.grants[call.dev] \in GrantType
        BY <4>1, MgrWith DEF Granted, Structure, Typed
      <4> QED BY <4>1, <4>2, GrantWith
    <3> QED BY <3>1 DEF Structure, CallPlaced
  <2> QED BY <1>1, <2>1, <2>2
<1>6. Typed'
  <2>1. faults' \in 0 .. MaxFaults
    BY <1>1, FaultsTyped
  <2> QED BY <1>1, <1>3, <1>4, <1>5, <2>1 DEF Structure, Typed
<1>7. Disciplined'
  <2>1. 0 <= MaxDirect
    BY AttentionAssumption
  <2> QED BY <1>1, <1>3, <1>4, <2>1 DEF Disciplined, Custodial, Reconciling
<1>8. Sessions'
  BY <1>1, <1>3 DEF Structure, Sessions, Counts, OpenSessions
<1>9. Sound(disk)'
  BY <1>1 DEF Structure
<1>10. GrantsPlaced' /\ CallPlaced'
  BY <1>1, <1>3, <1>4 DEF GrantsPlaced, Granted, NoGrants, CallPlaced
<1> QED BY <1>6, <1>7, <1>8, <1>9, <1>10 DEF Structure

LEMMA StructureStarts == Init => Structure
<1> SUFFICES ASSUME Init PROVE Structure
  OBVIOUS
<1>1. /\ mgr = NewManager(1) /\ journal = EmptyJournal /\ disk = EmptyJournal /\ call = Idling
      /\ late = {} /\ nreq = 0 /\ faults = 0
  BY DEF Init
<1>2. /\ mgr \in MgrType /\ ~mgr.imported /\ ~mgr.fault /\ ~mgr.active /\ ~mgr.pendingRelease
      /\ ~mgr.settling /\ ~mgr.deleting /\ mgr.direct = 0 /\ mgr.legacy = 0 /\ mgr.nonce = 0 /\ mgr.grants = NoGrants
      /\ mgr.busy = FALSE
  <2>1. NoGrants \in [Devices -> GrantType \cup {None}]
    BY DEF NoGrants
  <2> QED BY <1>1, <2>1 DEF NewManager, MgrType
<1>3. Idling \in CallType /\ Idling.pc = "idle" /\ Idling.todo = {}
  BY DEF Idling, CallType, PCs
<1>4. JournalType(EmptyJournal) /\ Counts(EmptyJournal) /\ Sound(EmptyJournal) /\ OpenSessions(EmptyJournal) = {}
  <2>1. 0 \in 0 .. MaxSessions /\ 1 .. 0 = {}
    BY AttentionAssumption
  <2>2. Counts(EmptyJournal)
    BY <2>1 DEF Counts, EmptyJournal, NoEntries
  <2> QED BY <2>2 DEF JournalType, Sound, OpenSessions, EmptyJournal, NoEntries
<1>5. Typed
  <2>1. nreq \in 0 .. MaxRequests + MaxAttempts /\ faults \in 0 .. MaxFaults
    BY <1>1, AttentionAssumption
  <2> QED BY <1>1, <1>2, <1>3, <1>4, <2>1 DEF Typed
<1>6. Disciplined
  <2>1. 0 <= MaxDirect
    BY AttentionAssumption
  <2> QED BY <1>1, <1>2, <1>3, <2>1 DEF Disciplined, Custodial, Reconciling
<1>7. Sessions
  BY <1>1, <1>2, <1>4 DEF Sessions
<1>8. GrantsPlaced /\ CallPlaced
  BY <1>1, <1>2, <1>3 DEF GrantsPlaced, Granted, NoGrants, CallPlaced
<1> QED BY <1>1, <1>4, <1>5, <1>6, <1>7, <1>8 DEF Structure

-----------------------------------------------------------------------------
(* What the journal, the ledger and the commands in flight know of each other *)

\* Commands that may still reach the player: given up on, or about to be sent.
InHand == IF call.pc \in {"recheck", "put", "recover"} THEN {call.cmd} ELSE {}
Flying == late \cup InHand

\* The requests minted so far.
Minting(r) == {"manager"} \X (1 .. r)

\* The origin can never be admitted again and has no lease.
IsClosed(n, o) == IsRetired(n, o) \/ (o \notin DOMAIN n.origins /\ o.proc < n.proc)
Spent(n, o, F) == /\ o \in DOMAIN n.origins => n.origins[o].retired
                  /\ \A c \in F : c.action = "begin" /\ c.req = o.req => c.exp.proc # n.proc

\* The player has not seen the command, and the journal knows its origin.
CommandKnown(n, k, r, c) ==
  /\ c \in CommandType /\ c.req \in Minting(r) \ DOMAIN n.receipts /\ c.exp.proc <= n.proc
  /\ c.action = "begin" => /\ c.req \in DOMAIN k.out /\ k.out[c.req].dev = c.exp.dev
                           /\ k.out[c.req].origin = [proc |-> c.exp.proc, req |-> c.req]
  /\ c.action = "recover" => /\ c.origin \in Origin /\ c.origin.req \in DOMAIN k.out
                             /\ k.out[c.origin.req].origin = c.origin /\ k.out[c.origin.req].dev = c.exp.dev

Flights(n, k, F, r) ==
  /\ LedgerInv(n) /\ Deep(n, {}) /\ r \in Nat
  /\ DOMAIN n.receipts \subseteq Minting(r) \cup (Numbering \X Nat \X Nat)
  /\ DOMAIN k.out \subseteq Minting(r) /\ k.out \in [DOMAIN k.out -> OutputType]
  /\ \A q \in DOMAIN k.out : k.out[q].origin.req = q /\ k.out[q].origin.proc <= n.proc
  /\ \A o \in DOMAIN n.origins : /\ o.req \in DOMAIN k.out /\ k.out[o.req].origin = o
                                 /\ k.out[o.req].dev = n.origins[o].dev
  /\ \A c \in F : CommandKnown(n, k, r, c)
  /\ \A b, c \in F : b.req = c.req => b = c

\* A retired output is spent; its attempt is about its origin, and so is what proves it closed.
OutputKnown(n, o, F, r) ==
  /\ o.retired => Spent(n, o.origin, F)
  /\ o.rec # None =>
       /\ o.rec.req \in Minting(r)
       /\ o.rec.req \in DOMAIN n.receipts =>
            n.receipts[o.rec.req].action = "recover" /\ n.receipts[o.rec.req].origin = o.origin
       /\ \A c \in F : c.req = o.rec.req => c.action = "recover" /\ c.origin = o.origin
  /\ o.result # None /\ Proves(o.result) => IsClosed(n, o.origin)

\* The lease a grant holds is one of its origin.
LeaseOf(n, g, d) == \E q \in DOMAIN n.receipts : /\ n.receipts[q].id.dev = d /\ Lease(n.receipts[q]) = g.gid
                                                 /\ n.receipts[q].origin = g.origin
GrantKnown(n, g, d, F, r) ==
  LET p == n.receipts[g.cmd.req]
  IN /\ g.cmd.exp.dev = d /\ g.cmd.req \in Minting(r)
     /\ g.cmd.action = "begin" => g.origin = [proc |-> g.cmd.exp.proc, req |-> g.cmd.req]
     /\ \A c \in F : c.req = g.cmd.req => c = g.cmd
     /\ g.cmd.req \in DOMAIN n.receipts =>
          p.action = g.cmd.action /\ p.id.dev = d /\ (g.cmd.action = "begin" => p.origin = g.origin)
     /\ g.gid = None => g.cmd.action = "begin" /\ g.unc
     /\ g.gid # None => g.gid.lease # 0 /\ LeaseOf(n, g, d)
     /\ Accepted(g) => IsRetired(n, g.origin)

Known(n, k, G, F, r) ==
  /\ Flights(n, k, F, r)
  /\ \A q \in DOMAIN k.out : OutputKnown(n, k.out[q], F, r)
  /\ \A d \in Devices : G[d] # None => GrantKnown(n, G[d], d, F, r)

\* What the bridge has concluded and not yet written.
Aware ==
  /\ call.pc = "reserve" => /\ call.obs.proc <= nat.proc
                            /\ Target # None => Target.gid # None
  /\ call.pc = "retire" => IsRetired(nat, mgr.grants[call.dev].origin)
  /\ call.pc = "store" /\ Proves(call.answer) => IsClosed(nat, disk.out[call.out].origin)

Entrusted == Known(nat, disk, mgr.grants, Flying, nreq) /\ InHand \cap late = {} /\ Aware

LEMMA MintingApart ==
  ASSUME NEW r \in Nat, NEW q \in Minting(r)
  PROVE  q \in Request /\ q \notin Numbering \X Nat \X Nat
<1>1. PICK i \in 1 .. r : q = <<"manager", i>>
  BY DEF Minting
<1>2. q[1] = "manager" /\ q \in {"manager"} \X Nat
  BY <1>1
<1> QED BY <1>2 DEF Request, Numbering

\* Commands in C are admitted, the rest of what flies stays unseen.
Admission(n, m, C, F) ==
  \E Q, O : /\ Evolves(n, m, Q, O) /\ C \subseteq F
            /\ \A q \in Q : \E c \in C : q = c.req
            /\ \A o \in O : \E c \in C : c.action = "begin" /\ o = [proc |-> n.proc, req |-> c.req]
            /\ \A c \in C : Answered(n, m, c) /\ c.exp.proc = n.proc

\* The ledger that evolves: what is final stays final.
LEMMA StaysFinal ==
  ASSUME NEW n, NEW m, LedgerType(n), LedgerType(m), NEW k, NEW F, NEW r, Flights(n, k, F, r),
         NEW C, Admission(n, m, C, F), NEW o \in Origin
  PROVE  /\ IsRetired(n, o) => IsRetired(m, o)
         /\ IsClosed(n, o) => IsClosed(m, o)
         /\ o \in DOMAIN m.origins \ DOMAIN n.origins =>
              \E c \in C : c.action = "begin" /\ o = [proc |-> n.proc, req |-> c.req]
<1>1. PICK Q, O : /\ Evolves(n, m, Q, O) /\ C \subseteq F
                  /\ \A q \in Q : \E c \in C : q = c.req
                  /\ \A p \in O : \E c \in C : c.action = "begin" /\ p = [proc |-> n.proc, req |-> c.req]
  BY DEF Admission
<1>2. n.proc \in Nat /\ m.proc \in Nat /\ n.proc <= m.proc /\ o.proc \in Nat
  BY <1>1 DEF LedgerType, Evolves, Origin
<1>3. IsRetired(n, o) => IsRetired(m, o)
  BY <1>1 DEF Evolves, IsRetired
<1>4. o \in DOMAIN m.origins \ DOMAIN n.origins =>
        \E c \in C : c.action = "begin" /\ o = [proc |-> n.proc, req |-> c.req]
  BY <1>1 DEF Evolves
<1>5. o \notin DOMAIN n.origins /\ o.proc < n.proc => o \notin DOMAIN m.origins /\ o.proc < m.proc
  BY <1>2, <1>4
<1> QED BY <1>3, <1>4, <1>5 DEF IsClosed

LEMMA ReceiptsEvolve ==
  ASSUME NEW n, NEW m, NEW C, NEW F, Admission(n, m, C, F), NEW r \in Nat
  PROVE  \A q \in Minting(r) : q \in DOMAIN m.receipts =>
           q \in DOMAIN n.receipts \/ \E c \in C : q = c.req
BY MintingApart DEF Admission, Evolves

LEMMA FlightsEvolve ==
  ASSUME NEW n, NEW m, NEW k, NEW F, NEW r, Flights(n, k, F, r), LedgerInv(m), Deep(m, {}),
         NEW C, Admission(n, m, C, F)
  PROVE  Flights(m, k, F \ C, r)
<1>1. PICK Q, O : /\ Evolves(n, m, Q, O) /\ C \subseteq F
                  /\ \A q \in Q : \E c \in C : q = c.req
                  /\ \A p \in O : \E c \in C : c.action = "begin" /\ p = [proc |-> n.proc, req |-> c.req]
                  /\ \A c \in C : Answered(n, m, c) /\ c.exp.proc = n.proc
  BY DEF Admission
<1>2. LedgerType(n) /\ LedgerType(m) /\ r \in Nat /\ n.proc \in Nat /\ m.proc \in Nat /\ n.proc <= m.proc
  BY <1>1 DEF Flights, LedgerInv, LedgerType, Evolves
<1>3. \A q \in Minting(r) : q \in DOMAIN m.receipts =>
        q \in DOMAIN n.receipts \/ \E c \in C : q = c.req
  BY <1>2, ReceiptsEvolve
<1>4. \A c \in F : CommandKnown(n, k, r, c) /\ c.req \in Minting(r) /\ c.exp.proc \in Nat
  BY DEF Flights, CommandKnown, CommandType, Identities
<1>5. DOMAIN m.receipts \subseteq Minting(r) \cup (Numbering \X Nat \X Nat)
  <2>1. DOMAIN n.receipts \subseteq Minting(r) \cup (Numbering \X Nat \X Nat)
    BY DEF Flights
  <2> QED BY <1>1, <1>4, <2>1 DEF Evolves
<1>6. ASSUME NEW q \in DOMAIN k.out
      PROVE  k.out[q].origin.req = q /\ k.out[q].origin.proc <= m.proc
  <2>1. k.out[q].origin.req = q /\ k.out[q].origin.proc <= n.proc /\ k.out[q] \in OutputType
    BY DEF Flights
  <2>2. k.out[q].origin.proc \in Nat
    BY <2>1 DEF OutputType, Origin
  <2> QED BY <1>2, <2>1, <2>2
<1>7. ASSUME NEW o \in DOMAIN m.origins
      PROVE  o.req \in DOMAIN k.out /\ k.out[o.req].origin = o /\ k.out[o.req].dev = m.origins[o].dev
  <2>1. CASE o \in DOMAIN n.origins
    BY <1>1, <2>1 DEF Flights, Evolves
  <2>2. CASE o \notin DOMAIN n.origins
    <3>1. PICK c \in C : c.action = "begin" /\ o = [proc |-> n.proc, req |-> c.req]
      BY <1>1, <2>2 DEF Evolves
    <3>2. CommandKnown(n, k, r, c) /\ Answered(n, m, c) /\ c.exp.proc = n.proc
      BY <1>1, <1>4
    <3>3. /\ c.req \in DOMAIN k.out /\ k.out[c.req].dev = c.exp.dev
          /\ k.out[c.req].origin = [proc |-> c.exp.proc, req |-> c.req]
      BY <3>1, <3>2 DEF CommandKnown
    <3>4. m.origins[o].dev = c.exp.dev
      BY <3>1, <3>2 DEF Answered
    <3> QED BY <3>1, <3>2, <3>3, <3>4
  <2> QED BY <2>1, <2>2
<1>8. ASSUME NEW c \in F \ C PROVE CommandKnown(m, k, r, c)
  <2>1. CommandKnown(n, k, r, c) /\ \A b \in C : b.req # c.req
    BY <1>1, <1>4 DEF Flights
  <2>2. c.req \notin DOMAIN m.receipts /\ c.exp.proc <= m.proc
    BY <1>2, <1>3, <1>4, <2>1 DEF CommandKnown
  <2> QED BY <2>1, <2>2 DEF CommandKnown
<1>9. /\ DOMAIN k.out \subseteq Minting(r) /\ k.out \in [DOMAIN k.out -> OutputType]
      /\ \A b, c \in F \ C : b.req = c.req => b = c
  BY DEF Flights
<1> QED BY <1>2, <1>3, <1>5, <1>6, <1>7, <1>8, <1>9 DEF Flights

LEMMA OutputsEvolve ==
  ASSUME NEW n, NEW m, NEW k, NEW F, NEW r, Flights(n, k, F, r), LedgerInv(m), Deep(m, {}),
         NEW C, Admission(n, m, C, F), NEW q \in DOMAIN k.out, OutputKnown(n, k.out[q], F, r)
  PROVE  OutputKnown(m, k.out[q], F \ C, r)
<1> DEFINE o == k.out[q]
<1>1. /\ LedgerType(n) /\ LedgerType(m) /\ n.proc \in Nat /\ m.proc \in Nat /\ C \subseteq F /\ n.proc <= m.proc
      /\ \A c \in C : Answered(n, m, c) /\ c.exp.proc = n.proc
  BY DEF Flights, LedgerInv, LedgerType, Admission, Evolves
<1>2. o.origin \in Origin /\ \A c \in F : c.exp.proc \in Nat /\ c.exp.proc <= n.proc
  <2>1. o \in OutputType /\ \A c \in F : CommandKnown(n, k, r, c)
    BY DEF Flights
  <2> QED BY <2>1 DEF OutputType, CommandKnown, CommandType, Identities
<1>3. /\ IsRetired(n, o.origin) => IsRetired(m, o.origin)
      /\ IsClosed(n, o.origin) => IsClosed(m, o.origin)
      /\ o.origin \in DOMAIN m.origins \ DOMAIN n.origins =>
           \E c \in C : c.action = "begin" /\ o.origin = [proc |-> n.proc, req |-> c.req]
  BY <1>1, <1>2, StaysFinal
<1>4. o.retired => Spent(m, o.origin, F \ C)
  <2> SUFFICES ASSUME o.retired PROVE Spent(m, o.origin, F \ C)
    OBVIOUS
  <2>1. /\ o.origin \in DOMAIN n.origins => n.origins[o.origin].retired
        /\ \A c \in F : c.action = "begin" /\ c.req = o.origin.req => c.exp.proc # n.proc
    BY DEF OutputKnown, Spent
  <2>2. o.origin \notin DOMAIN m.origins \ DOMAIN n.origins
    <3> SUFFICES ASSUME NEW c \in C, c.action = "begin", o.origin = [proc |-> n.proc, req |-> c.req] PROVE FALSE
      BY <1>3
    <3> QED BY <1>1, <2>1
  <2>3. o.origin \in DOMAIN m.origins => m.origins[o.origin].retired
    BY <1>3, <2>1, <2>2 DEF IsRetired
  <2>4. ASSUME NEW c \in F \ C, c.action = "begin", c.req = o.origin.req PROVE c.exp.proc # m.proc
    BY <1>1, <1>2, <2>1, <2>4
  <2> QED BY <2>3, <2>4 DEF Spent
<1>5. ASSUME o.rec # None
      PROVE  /\ o.rec.req \in Minting(r)
             /\ o.rec.req \in DOMAIN m.receipts =>
                  m.receipts[o.rec.req].action = "recover" /\ m.receipts[o.rec.req].origin = o.origin
             /\ \A c \in F \ C : c.req = o.rec.req => c.action = "recover" /\ c.origin = o.origin
  <2>1. /\ o.rec.req \in Minting(r)
        /\ o.rec.req \in DOMAIN n.receipts =>
             n.receipts[o.rec.req].action = "recover" /\ n.receipts[o.rec.req].origin = o.origin
        /\ \A c \in F : c.req = o.rec.req => c.action = "recover" /\ c.origin = o.origin
    BY <1>5 DEF OutputKnown
  <2>2. CASE o.rec.req \in DOMAIN n.receipts
    BY <2>1, <2>2 DEF Admission, Evolves
  <2>3. ASSUME o.rec.req \in DOMAIN m.receipts, o.rec.req \notin DOMAIN n.receipts
        PROVE  m.receipts[o.rec.req].action = "recover" /\ m.receipts[o.rec.req].origin = o.origin
    <3>3. \A p \in Minting(r) : p \in DOMAIN m.receipts => p \in DOMAIN n.receipts \/ \E c \in C : p = c.req
      BY ReceiptsEvolve DEF Flights
    <3>1. PICK c \in C : o.rec.req = c.req
      BY <2>1, <2>3, <3>3
    <3>2. c.action = "recover" /\ c.origin = o.origin /\ Answered(n, m, c)
      BY <1>1, <2>1, <3>1
    <3> QED BY <3>1, <3>2 DEF Answered
  <2> QED BY <2>1, <2>2, <2>3
<1> QED BY <1>3, <1>4, <1>5 DEF OutputKnown

LEMMA GrantEvolves ==
  ASSUME NEW n, NEW m, NEW k, NEW F, NEW r, Flights(n, k, F, r), LedgerInv(m), Deep(m, {}),
         NEW C, Admission(n, m, C, F), NEW d \in Devices, NEW g \in GrantType, GrantKnown(n, g, d, F, r)
  PROVE  GrantKnown(m, g, d, F \ C, r)
<1> DEFINE q == g.cmd.req
<1>1. LedgerType(n) /\ LedgerType(m) /\ C \subseteq F /\ \A c \in C : Answered(n, m, c) /\ c.exp.proc = n.proc
  BY DEF Flights, LedgerInv, Admission
<1>2. \A p \in DOMAIN n.receipts :
        /\ p \in DOMAIN m.receipts /\ m.receipts[p].action = n.receipts[p].action
        /\ m.receipts[p].origin = n.receipts[p].origin /\ m.receipts[p].id = n.receipts[p].id
  BY DEF Admission, Evolves
<1>3. q \in Minting(r) /\ g.cmd.exp.dev = d /\ \A c \in F : c.req = q => c = g.cmd
  BY DEF GrantKnown
<1>4. ASSUME q \in DOMAIN m.receipts
      PROVE  LET p == m.receipts[q]
             IN p.action = g.cmd.action /\ p.id.dev = d /\ (g.cmd.action = "begin" => p.origin = g.origin)
  <2>1. CASE q \in DOMAIN n.receipts
    <3>1. LET p == n.receipts[q]
          IN p.action = g.cmd.action /\ p.id.dev = d /\ (g.cmd.action = "begin" => p.origin = g.origin)
      BY <2>1 DEF GrantKnown
    <3> QED BY <1>2, <2>1, <3>1
  <2>2. CASE q \notin DOMAIN n.receipts
    <3>4. \A p \in Minting(r) : p \in DOMAIN m.receipts => p \in DOMAIN n.receipts \/ \E c \in C : p = c.req
      BY ReceiptsEvolve DEF Flights
    <3>1. PICK c \in C : q = c.req
      BY <1>3, <1>4, <2>2, <3>4
    <3>2. c = g.cmd /\ Answered(n, m, c) /\ c.exp.proc = n.proc
      BY <1>1, <1>3, <3>1
    <3>3. g.cmd.action = "begin" => g.origin = [proc |-> g.cmd.exp.proc, req |-> q]
      BY DEF GrantKnown
    <3> QED BY <1>3, <3>1, <3>2, <3>3 DEF Answered
  <2> QED BY <2>1, <2>2
<1>5. LeaseOf(n, g, d) => LeaseOf(m, g, d)
  BY <1>2 DEF LeaseOf, Lease
<1>6. IsRetired(n, g.origin) => IsRetired(m, g.origin)
  <2>1. g.origin \in Origin
    BY DEF GrantType
  <2> QED BY <1>1, <2>1, StaysFinal
<1>7. /\ g.cmd.action = "begin" => g.origin = [proc |-> g.cmd.exp.proc, req |-> g.cmd.req]
      /\ g.gid = None => g.cmd.action = "begin" /\ g.unc
      /\ g.gid # None => g.gid.lease # 0 /\ LeaseOf(n, g, d)
      /\ Accepted(g) => IsRetired(n, g.origin)
  BY DEF GrantKnown
<1> QED BY <1>3, <1>4, <1>5, <1>6, <1>7 DEF GrantKnown

\* Commands reach the ledger, or it moves by itself: what is known stays known.
LEMMA KnownEvolves ==
  ASSUME NEW n, NEW m, NEW k, NEW G \in [Devices -> GrantType \cup {None}], NEW F, NEW r,
         Known(n, k, G, F, r), LedgerInv(m), Deep(m, {}), NEW C, Admission(n, m, C, F)
  PROVE  Known(m, k, G, F \ C, r)
<1>1. Flights(n, k, F, r) /\ Flights(m, k, F \ C, r)
  BY FlightsEvolve DEF Known
<1>2. \A q \in DOMAIN k.out : OutputKnown(m, k.out[q], F \ C, r)
  BY <1>1, OutputsEvolve DEF Known
<1>3. \A d \in Devices : G[d] # None => GrantKnown(m, G[d], d, F \ C, r)
  BY <1>1, GrantEvolves DEF Known
<1> QED BY <1>1, <1>2, <1>3 DEF Known

\* A command that flies is fresh, and about an origin of its device.
LEMMA FlyingFresh ==
  ASSUME NEW n, NEW k, NEW F, NEW r, Flights(n, k, F, r), NEW c \in F
  PROVE  /\ c \in CommandType /\ c.exp \in Identities /\ c.action \in ActionType /\ Fresh(n, c.req)
         /\ c.action = "recover" => /\ c.origin \in Origin /\ c.origin.proc <= n.proc
                                    /\ c.origin \in DOMAIN n.origins => n.origins[c.origin].dev = c.exp.dev
<1>1. CommandKnown(n, k, r, c) /\ r \in Nat
  BY DEF Flights
<1>2. c \in CommandType /\ c.req \in Minting(r) \ DOMAIN n.receipts
  BY <1>1 DEF CommandKnown
<1>3. Fresh(n, c.req)
  BY <1>1, <1>2, MintingApart DEF Fresh
<1>4. ASSUME c.action = "recover"
      PROVE  /\ c.origin \in Origin /\ c.origin.proc <= n.proc
             /\ c.origin \in DOMAIN n.origins => n.origins[c.origin].dev = c.exp.dev
  <2>1. /\ c.origin \in Origin /\ c.origin.req \in DOMAIN k.out
        /\ k.out[c.origin.req].origin = c.origin /\ k.out[c.origin.req].dev = c.exp.dev
    BY <1>1, <1>4 DEF CommandKnown
  <2> QED BY <2>1 DEF Flights
<1> QED BY <1>2, <1>3, <1>4 DEF CommandType

LEMMA CommandAdmitted ==
  ASSUME NEW n, NEW k, NEW F, NEW r, Flights(n, k, F, r), NEW c \in F, Admits(n, c)
  PROVE  LET m == Admitted(n, c)
         IN LedgerInv(m) /\ Deep(m, {}) /\ Answered(n, m, c) /\ Admission(n, m, {c}, F)
<1> DEFINE m == Admitted(n, c)
           o == [proc |-> n.proc, req |-> c.req]
           O == IF c.action = "begin" THEN {o} ELSE {}
<1>1. LedgerInv(n) /\ Deep(n, {})
  BY DEF Flights
<1>2. LedgerInv(m)
  BY <1>1, FlyingFresh, AdmittedGood DEF Good
<1>3. Deep(m, {}) /\ Answered(n, m, c) /\ Evolves(n, m, {c.req}, O)
  BY <1>1, FlyingFresh, AdmittedDeep
<1>4. c.exp.proc = n.proc
  BY DEF Admits, Id
<1> HIDE DEF m
<1>5. /\ \A q \in {c.req} : \E b \in {c} : q = b.req
      /\ \A p \in O : \E b \in {c} : b.action = "begin" /\ p = [proc |-> n.proc, req |-> b.req]
  OBVIOUS
<1> HIDE DEF O
<1>6. Admission(n, m, {c}, F)
  BY <1>3, <1>4, <1>5 DEF Admission
<1> QED BY <1>2, <1>3, <1>6 DEF m

LEMMA AdmittedKnown ==
  ASSUME NEW n, NEW k, NEW G \in [Devices -> GrantType \cup {None}], NEW F, NEW r,
         Known(n, k, G, F, r), NEW c \in F, Admits(n, c)
  PROVE  Known(Admitted(n, c), k, G, F \ {c}, r)
<1>1. Flights(n, k, F, r)
  BY DEF Known
<1>2. LET m == Admitted(n, c) IN LedgerInv(m) /\ Deep(m, {}) /\ Admission(n, m, {c}, F)
  BY <1>1, CommandAdmitted
<1> QED BY <1>2, KnownEvolves

LEMMA NativeAdmission ==
  ASSUME NEW k, NEW F, NEW r, Flights(nat, k, F, r), NativeStep \/ ProcessRestarts
  PROVE  LedgerInv(nat') /\ Deep(nat', {}) /\ Admission(nat, nat', {}, F)
<1>1. NInv /\ Deep(nat, {})
  BY DEF Flights, NInv
<1>2. LedgerInv(nat') /\ Deep(nat', {}) /\ Evolves(nat, nat', {}, {})
  BY <1>1, StepGood, StepDeep DEF NNext
<1> QED BY <1>2 DEF Admission

\* A command that is given up for good leaves the rest as it is.
LEMMA FewerKnown ==
  ASSUME NEW n, NEW k, NEW G, NEW F, NEW r, Known(n, k, G, F, r), NEW E \in SUBSET F
  PROVE  Known(n, k, G, E, r)
<1>1. Flights(n, k, E, r)
  BY DEF Known, Flights
<1>2. \A q \in DOMAIN k.out : OutputKnown(n, k.out[q], E, r)
  BY DEF Known, OutputKnown, Spent
<1>3. \A d \in Devices : G[d] # None => GrantKnown(n, G[d], d, E, r)
  BY DEF Known, GrantKnown
<1> QED BY <1>1, <1>2, <1>3 DEF Known

\* Only the outputs of the journal matter.
LEMMA SameOutputs ==
  ASSUME NEW n, NEW j, NEW k, NEW G, NEW F, NEW r, Known(n, j, G, F, r), k.out = j.out
  PROVE  Known(n, k, G, F, r)
BY DEF Known, Flights, CommandKnown

\* One output is rewritten, or a new one written.
LEMMA OutputWritten ==
  ASSUME NEW n, NEW j, NEW k, NEW G, NEW F, NEW r, NEW q, NEW o \in OutputType,
         Known(n, j, G, F, r), Holds(j, k, q, o), q \in Minting(r), OutputKnown(n, o, F, r),
         o.origin.req = q, o.origin.proc <= n.proc,
         q \in DOMAIN j.out => o.origin = j.out[q].origin /\ o.dev = j.out[q].dev
  PROVE  Known(n, k, G, F, r)
<1>1. /\ DOMAIN k.out = DOMAIN j.out \cup {q} /\ k.out[q] = o /\ k.out \in [DOMAIN k.out -> OutputType]
      /\ \A p \in DOMAIN j.out \ {q} : k.out[p] = j.out[p]
  BY DEF Holds, JournalType
<1>2. \A p \in DOMAIN j.out : k.out[p].origin = j.out[p].origin /\ k.out[p].dev = j.out[p].dev
  BY <1>1
<1>3. Flights(n, k, F, r)
  <2>1. \A c \in F : CommandKnown(n, k, r, c)
    <3>1. ASSUME NEW c \in F, CommandKnown(n, j, r, c) PROVE CommandKnown(n, k, r, c)
      BY <1>1, <1>2, <3>1 DEF CommandKnown
    <3>2. \A c \in F : CommandKnown(n, j, r, c)
      BY DEF Known, Flights
    <3> QED BY <3>1, <3>2
  <2>2. \A p \in DOMAIN k.out : k.out[p].origin.req = p /\ k.out[p].origin.proc <= n.proc
    BY <1>1, <1>2 DEF Known, Flights
  <2>3. \A p \in DOMAIN n.origins : /\ p.req \in DOMAIN k.out /\ k.out[p.req].origin = p
                                    /\ k.out[p.req].dev = n.origins[p].dev
    BY <1>1, <1>2 DEF Known, Flights
  <2>4. DOMAIN k.out \subseteq Minting(r)
    BY <1>1 DEF Known, Flights
  <2> QED BY <1>1, <2>1, <2>2, <2>3, <2>4 DEF Known, Flights
<1>4. \A p \in DOMAIN k.out : OutputKnown(n, k.out[p], F, r)
  BY <1>1 DEF Known
<1> QED BY <1>3, <1>4 DEF Known

\* One grant changes.
LEMMA GrantWritten ==
  ASSUME NEW n, NEW k, NEW G \in [Devices -> GrantType \cup {None}], NEW F, NEW r, NEW d \in Devices, NEW g,
         Known(n, k, G, F, r), g # None => GrantKnown(n, g, d, F, r)
  PROVE  Known(n, k, [G EXCEPT ![d] = g], F, r)
<1> DEFINE H == [G EXCEPT ![d] = g]
<1>1. H[d] = g /\ \A e \in Devices \ {d} : H[e] = G[e]
  OBVIOUS
<1> HIDE DEF H
<1>2. Known(n, k, H, F, r)
  BY <1>1 DEF Known
<1> QED BY <1>2 DEF H

LEMMA NothingGranted ==
  ASSUME NEW n, NEW k, NEW G, NEW F, NEW r, Known(n, k, G, F, r)
  PROVE  Known(n, k, NoGrants, F, r)
BY DEF Known, NoGrants

\* One more request is minted.
LEMMA RequestMinted ==
  ASSUME NEW n, NEW k, NEW G, NEW F, NEW r, Known(n, k, G, F, r)
  PROVE  /\ Known(n, k, G, F, r + 1)
         /\ <<"manager", r + 1>> \in Minting(r + 1) \ Minting(r)
         /\ <<"manager", r + 1>> \notin DOMAIN n.receipts
<1>1. r \in Nat
  BY DEF Known, Flights
<1>2. Minting(r) \subseteq Minting(r + 1)
  BY <1>1 DEF Minting
<1>3. <<"manager", r + 1>> \in Minting(r + 1) \ Minting(r)
  BY <1>1 DEF Minting
<1>4. <<"manager", r + 1>> \notin DOMAIN n.receipts
  <2>1. r + 1 \in Nat
    BY <1>1
  <2> QED BY <1>3, <2>1, MintingApart DEF Known, Flights
<1>5. ASSUME NEW c, CommandKnown(n, k, r, c) PROVE CommandKnown(n, k, r + 1, c)
  BY <1>2, <1>5 DEF CommandKnown
<1>6. Flights(n, k, F, r + 1)
  BY <1>1, <1>2, <1>5 DEF Known, Flights
<1>7. \A q \in DOMAIN k.out : OutputKnown(n, k.out[q], F, r + 1)
  BY <1>2 DEF Known, OutputKnown
<1>8. \A d \in Devices : G[d] # None => GrantKnown(n, G[d], d, F, r + 1)
  BY <1>2 DEF Known, GrantKnown
<1> QED BY <1>3, <1>4, <1>6, <1>7, <1>8 DEF Known

\* A command is about to be sent: nothing that is settled is about it.
LEMMA CommandFlies ==
  ASSUME NEW n, NEW k, NEW G, NEW F, NEW r, NEW c, Known(n, k, G, F, r), CommandKnown(n, k, r, c),
         \A b \in F : b.req # c.req,
         \A q \in DOMAIN k.out : k.out[q].retired /\ c.action = "begin" => c.req # q,
         \A q \in DOMAIN k.out : k.out[q].rec # None /\ k.out[q].rec.req = c.req =>
           c.action = "recover" /\ c.origin = k.out[q].origin,
         \A d \in Devices : G[d] # None /\ G[d].cmd.req = c.req => G[d].cmd = c
  PROVE  Known(n, k, G, F \cup {c}, r)
<1>1. Flights(n, k, F \cup {c}, r)
  BY DEF Known, Flights
<1>2. ASSUME NEW q \in DOMAIN k.out PROVE OutputKnown(n, k.out[q], F \cup {c}, r)
  <2>1. OutputKnown(n, k.out[q], F, r) /\ k.out[q].origin.req = q
    BY DEF Known, Flights
  <2>2. Spent(n, k.out[q].origin, F) /\ k.out[q].retired => Spent(n, k.out[q].origin, F \cup {c})
    BY <2>1 DEF Spent
  <2> QED BY <2>1, <2>2 DEF OutputKnown
<1>3. ASSUME NEW d \in Devices, G[d] # None PROVE GrantKnown(n, G[d], d, F \cup {c}, r)
  <2>1. GrantKnown(n, G[d], d, F, r)
    BY <1>3 DEF Known
  <2> QED BY <1>3, <2>1 DEF GrantKnown
<1> QED BY <1>1, <1>2, <1>3 DEF Known

\* What was in flight or written before is not about a request minted only now.
LEMMA NewRequest ==
  ASSUME NEW n, NEW k, NEW G, NEW F, NEW r, Known(n, k, G, F, r), NEW x, x \notin Minting(r)
  PROVE  /\ \A b \in F : b.req # x
         /\ \A q \in DOMAIN k.out : x # q /\ (k.out[q].rec # None => k.out[q].rec.req # x)
         /\ \A d \in Devices : G[d] # None => G[d].cmd.req # x
<1>1. \A b \in F : b.req # x
  BY DEF Known, Flights, CommandKnown
<1>2. ASSUME NEW q \in DOMAIN k.out PROVE x # q /\ (k.out[q].rec # None => k.out[q].rec.req # x)
  <2>1. q \in Minting(r) /\ OutputKnown(n, k.out[q], F, r)
    BY DEF Known, Flights
  <2> QED BY <2>1 DEF OutputKnown
<1>3. ASSUME NEW d \in Devices, G[d] # None PROVE G[d].cmd.req # x
  <2>1. GrantKnown(n, G[d], d, F, r)
    BY <1>3 DEF Known
  <2> QED BY <2>1 DEF GrantKnown
<1> QED BY <1>1, <1>2, <1>3

\* An answer that may be folded is about the origin of the grant.
LEMMA FoldsOrigin ==
  ASSUME NEW n, LedgerInv(n), Deep(n, {}), NEW d \in Devices, NEW g \in GrantType,
         LeaseOf(n, g, d), g.gid # None, g.gid.lease # 0,
         NEW q \in DOMAIN n.receipts, n.receipts[q].id.dev = d, Lease(n.receipts[q]) = g.gid
  PROVE  n.receipts[q].origin = g.origin
<1>1. PICK p \in DOMAIN n.receipts : /\ n.receipts[p].id.dev = d /\ Lease(n.receipts[p]) = g.gid
                                     /\ n.receipts[p].origin = g.origin
  BY DEF LeaseOf
<1>2. /\ n.receipts[p].id.proc = n.receipts[q].id.proc
      /\ n.receipts[p].id.lease = n.receipts[q].id.lease /\ n.receipts[p].id.lease # 0
  BY <1>1 DEF Lease
<1> QED BY <1>1, <1>2 DEF Deep, Apart

LEMMA CurrentRetires ==
  ASSUME NEW n, LedgerInv(n), Deep(n, {}), NEW q \in DOMAIN n.receipts,
         n.receipts[q].action = "release", n.receipts[q].outcome = "accepted", Current(n, n.receipts[q])
  PROVE  IsRetired(n, n.receipts[q].origin)
<1>1. LedgerType(n) /\ n.receipts[q] \in ReceiptType /\ TerminalKnown(n, n.receipts[q])
  BY DEF LedgerInv, LedgerType, Deep
<1> QED BY <1>1, CurrentMeans DEF TerminalKnown

LEMMA FoldKnown ==
  ASSUME NEW n, LedgerInv(n), Deep(n, {}), NEW d \in Devices, NEW g \in GrantType, NEW F, NEW r,
         GrantKnown(n, g, d, F, r), g.cmd.req \in DOMAIN n.receipts, Folds(g, n.receipts[g.cmd.req])
  PROVE  LET p == n.receipts[g.cmd.req] IN GrantKnown(n, Folded(g, p, Reads(n, p)), d, F, r)
<1> DEFINE q == g.cmd.req
           p == n.receipts[q]
           h == Folded(g, p, Reads(n, p))
<1>1. /\ h.origin = g.origin /\ h.cmd = g.cmd /\ h.res = Reads(n, p) /\ ~h.unc
      /\ h.gid = (IF g.gid = None THEN Lease(p) ELSE g.gid)
  BY DEF Folded, GrantType
<1>2. /\ p.action = g.cmd.action /\ p.id.dev = d /\ (g.cmd.action = "begin" => p.origin = g.origin)
      /\ g.cmd.action = "begin" => g.origin = [proc |-> g.cmd.exp.proc, req |-> g.cmd.req]
      /\ g.gid = None => g.cmd.action = "begin"
      /\ g.gid # None => g.gid.lease # 0 /\ LeaseOf(n, g, d)
      /\ g.cmd.exp.dev = d /\ g.cmd.req \in Minting(r) /\ \A c \in F : c.req = g.cmd.req => c = g.cmd
  BY DEF GrantKnown
<1>3. p \in ReceiptType /\ LeaseKnown(n, p)
  BY DEF LedgerInv, LedgerType, Deep
<1>4. Lease(p) \in LeaseType /\ Lease(p) # None /\ Lease(p).lease = p.id.lease
  BY <1>3, NoneAssumption DEF Lease, LeaseType, ReceiptType, Identities
<1>5. h.gid # None /\ h.gid.lease # 0 /\ LeaseOf(n, h, d)
  <2>1. CASE g.gid = None
    <3>1. p.origin = g.origin /\ p.id.lease # 0
      BY <1>2, <1>3, <2>1 DEF LeaseKnown
    <3> QED BY <1>1, <1>2, <1>4, <2>1, <3>1 DEF LeaseOf
  <2>2. CASE g.gid # None
    BY <1>1, <1>2, <2>2 DEF LeaseOf
  <2> QED BY <2>1, <2>2
<1>6. Accepted(h) => IsRetired(n, h.origin)
  <2> SUFFICES ASSUME h.cmd.action = "release", h.res.cur, h.res.outcome = "accepted"
               PROVE  IsRetired(n, h.origin)
    BY DEF Accepted
  <2>1. p.outcome = "accepted" /\ Current(n, p) /\ p.action = "release"
    BY <1>1, <1>2 DEF Reads
  <2>2. g.gid # None /\ Lease(p) = g.gid
    BY <1>1, <1>2 DEF Folds
  <2>3. p.origin = g.origin
    BY <1>2, <2>2, FoldsOrigin
  <2> QED BY <1>1, <2>1, <2>3, CurrentRetires
<1> HIDE DEF h, p
<1>7. GrantKnown(n, h, d, F, r)
  <2>1. /\ h.cmd.exp.dev = d /\ h.cmd.req \in Minting(r)
        /\ h.cmd.action = "begin" => h.origin = [proc |-> h.cmd.exp.proc, req |-> h.cmd.req]
        /\ \A c \in F : c.req = h.cmd.req => c = h.cmd
    BY <1>1, <1>2
  <2>2. n.receipts[h.cmd.req].action = h.cmd.action /\ n.receipts[h.cmd.req].id.dev = d
    BY <1>1, <1>2 DEF p
  <2>3. h.cmd.action = "begin" => n.receipts[h.cmd.req].origin = h.origin
    BY <1>1, <1>2 DEF p
  <2> QED BY <1>5, <1>6, <2>1, <2>2, <2>3 DEF GrantKnown
<1> QED BY <1>7 DEF h, p

\* A grant whose last command gets another command, or is marked as submitted.
LEMMA ReissuedKnown ==
  ASSUME NEW n, NEW d \in Devices, NEW g, NEW h, NEW F, NEW r, GrantKnown(n, g, d, F, r),
         h.origin = g.origin, h.gid = g.gid, h.res = None, g.gid # None,
         h.cmd.action \in {"update", "release"}, h.cmd.exp.dev = d, h.cmd.req \in Minting(r),
         h.cmd.req \notin DOMAIN n.receipts, \A c \in F : c.req # h.cmd.req
  PROVE  GrantKnown(n, h, d, F, r)
<1>1. LeaseOf(n, g, d) => LeaseOf(n, h, d)
  BY DEF LeaseOf
<1>2. ~Accepted(h)
  BY DEF Accepted
<1> QED BY <1>1, <1>2 DEF GrantKnown

LEMMA SubmittedKnown ==
  ASSUME NEW n, NEW d \in Devices, NEW g \in GrantType, NEW F, NEW r, GrantKnown(n, g, d, F, r)
  PROVE  GrantKnown(n, Submitted(g), d, F, r)
<1>1. LET h == Submitted(g)
      IN h.origin = g.origin /\ h.gid = g.gid /\ h.res = g.res /\ h.cmd = g.cmd /\ h.unc
  BY DEF Submitted, GrantType
<1>2. LeaseOf(n, g, d) => LeaseOf(n, Submitted(g), d)
  BY <1>1 DEF LeaseOf
<1>3. Accepted(Submitted(g)) => Accepted(g)
  BY <1>1 DEF Accepted
<1> QED BY <1>1, <1>2, <1>3 DEF GrantKnown

-----------------------------------------------------------------------------
(* What is entrusted is kept: steps that send nothing *)

\* Where no command is in hand.
LEMMA NothingInHand ==
  ASSUME Known(nat, disk, mgr.grants, late, nreq)', call'.pc \notin {"recheck", "put", "recover"}, Aware'
  PROVE  Entrusted'
<1>1. InHand' = {} /\ Flying' = late'
  BY DEF InHand, Flying
<1> QED BY <1>1 DEF Entrusted

LEMMA QuietEntrusted ==
  ASSUME Entrusted, UNCHANGED <<nat, late, nreq, call>>, disk'.out = disk.out, mgr'.grants = mgr.grants
  PROVE  Entrusted'
<1>1. Flying' = Flying /\ InHand' = InHand /\ Target' = Target
  BY DEF Flying, InHand, Target
<1>2. Aware'
  BY <1>1 DEF Entrusted, Aware
<1>3. Known(nat, disk', mgr.grants, Flying, nreq)
  BY SameOutputs DEF Entrusted
<1> QED BY <1>1, <1>2, <1>3 DEF Entrusted

LEMMA MovedEntrusted ==
  ASSUME Entrusted, UNCHANGED <<nat, late, nreq>>, disk'.out = disk.out,
         mgr'.grants = mgr.grants \/ mgr'.grants = NoGrants,
         call'.pc \notin {"recheck", "put", "recover"}, Aware'
  PROVE  Entrusted'
<1>1. late \in SUBSET Flying
  BY DEF Flying
<1>2. Known(nat, disk, mgr.grants, late, nreq)
  BY <1>1, FewerKnown DEF Entrusted
<1>3. Known(nat, disk, mgr'.grants, late, nreq)
  BY <1>2, NothingGranted
<1>4. Known(nat, disk', mgr'.grants, late, nreq)
  BY <1>3, SameOutputs
<1>5. Known(nat, disk, mgr.grants, late, nreq)'
  BY <1>4
<1> QED BY <1>5, NothingInHand

\* Steps after which the bridge has concluded nothing.
Simple == {"idle", "poll", "detect", "release", "terminal", "finish", "scan", "prove"}

LEMMA SimplyEntrusted ==
  ASSUME Entrusted, UNCHANGED <<nat, late, nreq>>, disk'.out = disk.out,
         mgr'.grants = mgr.grants \/ mgr'.grants = NoGrants, call'.pc \in Simple
  PROVE  Entrusted'
<1>1. Aware'
  BY DEF Aware, Simple
<1> QED BY <1>1, MovedEntrusted DEF Simple

LEMMA ApiEntrusted ==
  ASSUME Structure, Entrusted, ApiQuiet
  PROVE  Entrusted'
<1>1. mgr \in MgrType /\ (mgr.deleting => mgr.direct > 0)
  BY DEF Structure, Typed, Disciplined
<1>2. mgr'.grants = mgr.grants
  BY <1>1, ApiTyped
<1>3. UNCHANGED <<nat, late, nreq, call, disk>>
  BY DEF ApiQuiet, EngageRefresh, ReleaseOwned, LegacyChecked, LegacyEngage, LegacyRelease, Expire,
         MutationBegins, MutationEnds, DeleteBegins, DeleteEnds
<1> QED BY <1>2, <1>3, QuietEntrusted

\* What a save leaves of the journal on disk, of the grants and of the bridge.
LEMMA SaveSplits ==
  ASSUME NEW j, NEW m, NEW c, NEW n \in MgrType, NEW e, Save(j, <<m, c>>, <<n, e>>)
  PROVE  \/ disk' = j /\ mgr'.grants = m.grants /\ call' = c
         \/ disk' \in {disk, j} /\ mgr'.grants = n.grants /\ call' = e
<1>1. [n EXCEPT !.fault = TRUE].grants = n.grants
  BY DEF MgrType
<1>2. \/ /\ ~mgr.fault /\ disk' = j /\ mgr' = m /\ call' = c /\ faults' = faults
      \/ /\ ~mgr.fault /\ faults < MaxFaults /\ faults' = faults + 1 /\ disk' \in {disk, j}
         /\ mgr' = [n EXCEPT !.fault = TRUE] /\ call' = e
      \/ /\ mgr.fault /\ disk' = disk /\ faults' = faults /\ mgr' = n /\ call' = e
  BY SaveEnds
<1> QED BY <1>1, <1>2

LEMMA EngageEntrusted ==
  ASSUME Structure, Entrusted, EngageBegin
  PROVE  Entrusted'
<1> DEFINE s == Cardinality(DOMAIN journal.sess) + 1
           j == [journal EXCEPT !.sess = Put(@, s, [mproc |-> mgr.proc, retired |-> FALSE])]
           m == [mgr EXCEPT !.nonce = s, !.rev = @ + 1, !.active = TRUE, !.pendingRelease = FALSE]
<1>1. Save(j, <<m, call>>, <<mgr, call>>) /\ UNCHANGED <<nat, late, nreq>> /\ ~mgr.fault
  BY DEF EngageBegin, Blocked
<1>2. mgr \in MgrType /\ journal = disk /\ JournalType(journal)
  BY <1>1 DEF Structure, Typed, Disciplined
<1>3. m.grants = mgr.grants /\ j.out = journal.out
  BY <1>2 DEF MgrType, JournalType
<1> HIDE DEF m, j
<1>5. \/ disk' = j /\ mgr'.grants = m.grants /\ call' = call
      \/ disk' \in {disk, j} /\ mgr'.grants = mgr.grants /\ call' = call
  BY <1>1, <1>2, SaveSplits
<1>4. call' = call /\ disk'.out = disk.out /\ mgr'.grants = mgr.grants
  BY <1>2, <1>3, <1>5
<1> QED BY <1>1, <1>4, QuietEntrusted

\* The bridge goes on, or enters a reconciliation, and sends nothing.
LEMMA StepsEntrusted ==
  ASSUME Structure, Entrusted,
         \/ \E mode \in Modes : Enter(mode)
         \/ Detect \/ ReserveRefused \/ PollDone \/ ReleaseStopped \/ ReleaseLoopEnds
         \/ CustodyEnter \/ CustodyWaits \/ CustodyReexamines
  PROVE  Entrusted'
<1>1. call \in CallType /\ mgr \in MgrType
  BY DEF Structure, Typed
<1>2. CASE \E mode \in Modes : Enter(mode)
  <2>1. PICK mode \in Modes : Enter(mode)
    BY <1>2
  <2>2. UNCHANGED <<nat, late, nreq, disk>>
    BY <2>1 DEF Enter
  <2>3. mgr'.grants = mgr.grants
    BY <1>1, <2>1 DEF Enter, MgrType
  <2>4. call'.pc \in {"finish", "poll"}
    <3>1. PICK id : call' = [Idling EXCEPT !.pc = IF mgr.nonce = 0 THEN "finish" ELSE "poll",
                              !.mode = mode, !.id = id, !.nonce = mgr.nonce, !.rev = mgr.rev,
                              !.restore = mgr.restore, !.active = mgr.active, !.todo = Granted]
      BY <2>1 DEF Enter
    <3> QED BY <3>1 DEF Idling
  <2> QED BY <2>2, <2>3, <2>4, SimplyEntrusted DEF Simple
<1>3. CASE Detect
  <2>1. call'.pc = call.next
    BY <1>1, <1>3 DEF Detect, Goto, CallType
  <2>2. UNCHANGED <<nat, late, nreq, disk>> /\ mgr'.grants = mgr.grants /\ call'.pc \in Simple
    BY <1>1, <1>3, <2>1 DEF Detect, Simple, MgrType, CallType
  <2> QED BY <2>2, SimplyEntrusted
<1>4. CASE ReserveRefused \/ PollDone \/ ReleaseStopped \/ ReleaseLoopEnds
  <2>1. UNCHANGED <<nat, late, nreq, disk, mgr>>
    BY <1>4 DEF ReserveRefused, PollDone, ReleaseStopped, ReleaseLoopEnds
  <2>2. Goto("finish").pc \in Simple /\ Releasing.pc \in Simple /\ AfterTarget(Target).pc \in Simple
    <3>1. Goto("finish").pc = "finish"
      BY <1>1 DEF Goto, CallType
    <3>2. Releasing.pc \in {"finish", "release"}
      BY <1>1, <3>1 DEF Releasing, CallType
    <3> QED BY <3>1, <3>2 DEF AfterTarget, Simple
  <2>3. call' = Goto("finish") \/ call' = Releasing \/ call' = AfterTarget(Target)
    BY <1>4 DEF ReserveRefused, PollDone, ReleaseStopped, ReleaseLoopEnds
  <2> QED BY <2>1, <2>2, <2>3, SimplyEntrusted
<1>5. CASE CustodyEnter
  <2>1. UNCHANGED <<nat, late, nreq, disk>> /\ mgr'.grants = mgr.grants /\ call'.pc \in Simple
    BY <1>1, <1>5 DEF CustodyEnter, Idling, Simple, MgrType
  <2> QED BY <2>1, SimplyEntrusted
<1>6. CASE CustodyWaits
  <2>1. UNCHANGED <<nat, late, nreq, disk>> /\ mgr'.grants = mgr.grants /\ call'.pc \in Simple
    BY <1>1, <1>6 DEF CustodyWaits, CustodyEnds, CustodyOver, Idling, Simple, MgrType
  <2> QED BY <2>1, SimplyEntrusted
<1>7. CASE CustodyReexamines
  <2>1. PICK q \in Owed(journal) : call' = [call EXCEPT !.pc = "prove", !.out = q]
    BY <1>7 DEF CustodyReexamines
  <2>2. UNCHANGED <<nat, late, nreq, disk>> /\ mgr'.grants = mgr.grants /\ call'.pc \in Simple
    BY <1>1, <1>7, <2>1 DEF CustodyReexamines, Simple, CallType
  <2> QED BY <2>2, SimplyEntrusted
<1> QED BY <1>2, <1>3, <1>4, <1>5, <1>6, <1>7

\* The target is looked at before a command is reserved.
LEMMA ObservedEntrusted ==
  ASSUME Structure, Entrusted, BeginObserves \/ UpdateObserves
  PROVE  Entrusted'
<1>1. call \in CallType /\ mgr \in MgrType /\ call.id \in Devices /\ mgr.grants[call.id] = Target
  BY DEF Structure, Typed, BeginObserves, UpdateObserves, Targeting, CallType, Target
<1>2. UNCHANGED <<nat, late, nreq, disk, mgr>>
  BY DEF BeginObserves, UpdateObserves
<1>3. Goto("finish").pc = "finish" /\ Detecting(call.id, "finish").pc = "detect"
  BY <1>1 DEF Goto, Detecting, CallType
<1>4. CASE call'.pc \in Simple
  BY <1>2, <1>4, SimplyEntrusted
<1>5. CASE call' = [call EXCEPT !.pc = "reserve", !.obs = Id(nat, call.id)] /\ (Target = None \/ Target.gid # None)
  <2>1. /\ call'.pc = "reserve" /\ call'.obs = Id(nat, call.id) /\ call'.id = call.id
        /\ call'.active = call.active
    BY <1>1, <1>5 DEF CallType
  <2>2. Target' = Target
    BY <1>2, <2>1 DEF Target
  <2>3. nat.proc \in Nat /\ call'.obs.proc = nat.proc
    BY <2>1 DEF Entrusted, Known, Flights, LedgerInv, LedgerType, Id
  <2>4. Aware'
    BY <1>2, <1>5, <2>1, <2>2, <2>3 DEF Aware
  <2> QED BY <1>2, <2>1, <2>4, MovedEntrusted
<1>6. call'.pc \in Simple \/ call' = [call EXCEPT !.pc = "reserve", !.obs = Id(nat, call.id)]
  BY <1>3 DEF BeginObserves, UpdateObserves, Simple
<1>7. CASE BeginObserves
  BY <1>4, <1>5, <1>6, <1>7 DEF BeginObserves
<1>8. CASE UpdateObserves /\ ~(call'.pc \in Simple)
  <2>1. [proc |-> nat.proc, inc |-> nat.dev[call.id].inc, lease |-> nat.dev[call.id].lease] = Target.gid
    BY <1>3, <1>8 DEF UpdateObserves, Simple, Id
  <2>2. Target.gid \in LeaseType
    <3>1. LedgerType(nat)
      BY DEF Entrusted, Known, Flights, LedgerInv
    <3> QED BY <1>1, <2>1, <3>1 DEF LedgerType, DeviceType, LeaseType
  <2>3. Target.gid # None
    BY <2>2, NoneAssumption
  <2> QED BY <1>5, <1>6, <1>8, <2>3
<1> QED BY <1>4, <1>7, <1>8

-----------------------------------------------------------------------------
(* What is entrusted is kept: the journal is written *)

\* An output is rewritten, and the bridge has nothing in hand any more.
LEMMA WriteEntrusted ==
  ASSUME Entrusted, mgr \in MgrType, NEW k, NEW q \in DOMAIN disk.out, NEW x \in OutputType, Holds(disk, k, q, x),
         x.origin = disk.out[q].origin, x.dev = disk.out[q].dev, OutputKnown(nat, x, late, nreq),
         NEW m, NEW c, NEW n \in MgrType, NEW e, Save(k, <<m, c>>, <<n, e>>), n.grants = mgr.grants,
         m.grants = mgr.grants \/ \E d \in Devices : m.grants = [mgr.grants EXCEPT ![d] = None],
         c.pc \in Simple, e.pc \in Simple, UNCHANGED <<nat, late, nreq>>
  PROVE  Entrusted'
<1>1. late \in SUBSET Flying
  BY DEF Flying
<1>2. Known(nat, disk, mgr.grants, late, nreq)
  BY <1>1, FewerKnown DEF Entrusted
<1>3. q \in Minting(nreq) /\ x.origin.req = q /\ x.origin.proc <= nat.proc
  BY <1>2 DEF Known, Flights
<1>4. Known(nat, k, mgr.grants, late, nreq)
  BY <1>2, <1>3, OutputWritten
<1>5. mgr.grants \in [Devices -> GrantType \cup {None}]
  BY DEF MgrType
<1>6. ASSUME NEW j \in {disk, k}
      PROVE  Known(nat, j, mgr.grants, late, nreq) /\ Known(nat, j, m.grants, late, nreq)
  <2>1. Known(nat, j, mgr.grants, late, nreq)
    BY <1>2, <1>4
  <2>2. ASSUME NEW d \in Devices PROVE Known(nat, j, [mgr.grants EXCEPT ![d] = None], late, nreq)
    BY <1>5, <2>1, GrantWritten
  <2> QED BY <2>1, <2>2
<1>7. \/ disk' = k /\ mgr'.grants = m.grants /\ call' = c
      \/ disk' \in {disk, k} /\ mgr'.grants = n.grants /\ call' = e
  BY SaveSplits
<1>8. Known(nat, disk', mgr'.grants, late, nreq) /\ call'.pc \in Simple
  BY <1>6, <1>7
<1>9. Known(nat, disk, mgr.grants, late, nreq)'
  BY <1>8
<1>10. Aware' /\ call'.pc \notin {"recheck", "put", "recover"}
  BY <1>8 DEF Aware, Simple
<1> QED BY <1>9, <1>10, NothingInHand

\* A session is retired, or nothing is written.
LEMMA SessionsEntrusted ==
  ASSUME Structure, Entrusted, Finish \/ CustodyRetiresSession \/ CustodyDone
  PROVE  Entrusted'
<1>1. mgr \in MgrType /\ JournalType(journal) /\ call \in CallType /\ UNCHANGED <<nat, late, nreq>>
  BY DEF Structure, Typed, Finish, CustodyRetiresSession, CustodyDone
<1>2. Idling.pc = "idle" /\ "idle" \in Simple
  BY DEF Idling, Simple
<1>3. ASSUME NEW j, j.out = journal.out, NEW m, NEW c, NEW n \in MgrType, NEW e, Save(j, <<m, c>>, <<n, e>>),
             m.grants = mgr.grants, n.grants = mgr.grants, c.pc \in Simple, e.pc \in Simple
      PROVE  Entrusted'
  <2>1. \/ disk' = j /\ mgr'.grants = m.grants /\ call' = c
        \/ disk' \in {disk, j} /\ mgr'.grants = n.grants /\ call' = e
    BY <1>3, SaveSplits
  <2>2. CASE ~mgr.fault
    <3>1. journal = disk
      BY <2>2 DEF Structure, Disciplined
    <3> QED BY <1>1, <1>3, <2>1, <3>1, SimplyEntrusted
  <2>3. CASE mgr.fault
    <3>1. disk' = disk
      BY <1>3, <2>3 DEF Save
    <3> QED BY <1>1, <1>3, <2>1, <3>1, SimplyEntrusted
  <2> QED BY <2>2, <2>3
<1>4. CASE CustodyDone
  <2>1. disk' = disk /\ mgr'.grants = NoGrants /\ call' = Idling
    BY <1>1, <1>4 DEF CustodyDone, MgrType
  <2> QED BY <1>1, <1>2, <2>1, SimplyEntrusted
<1>5. CASE CustodyRetiresSession
  <2> DEFINE m == CustodyOver[1]
             c == CustodyOver[2]
  <2>1. PICK s \in OpenSessions(journal) :
          Save([journal EXCEPT !.sess[s].retired = TRUE], <<mgr, call>>, CustodyOver)
    BY <1>5 DEF CustodyRetiresSession
  <2> DEFINE j == [journal EXCEPT !.sess[s].retired = TRUE]
  <2>2. /\ CustodyOver = <<m, c>> /\ m \in MgrType /\ m.grants = mgr.grants /\ c = Idling
        /\ j.out = journal.out /\ call.pc = "scan" /\ "scan" \in Simple
    BY <1>1, <1>5 DEF CustodyOver, MgrType, JournalType, CustodyRetiresSession, At, Simple
  <2> HIDE DEF m, c, j
  <2>3. Save(j, <<mgr, call>>, <<m, c>>)
    BY <2>1, <2>2 DEF j
  <2> QED BY <1>2, <1>3, <2>2, <2>3
<1>6. CASE Finish
  <2> DEFINE m == [mgr EXCEPT !.busy = FALSE, !.settling = FALSE, !.nativePending = (Granted # {})]
             f == [m EXCEPT !.pendingRelease = FALSE]
             k == [journal EXCEPT !.sess[mgr.nonce].retired = TRUE]
  <2>1. \/ mgr' = m /\ call' = Idling /\ UNCHANGED <<journal, disk, faults>>
        \/ mgr' = f /\ call' = Idling /\ UNCHANGED <<journal, disk, faults>>
        \/ Save(k, <<f, Idling>>, <<m, Idling>>)
    BY <1>6 DEF Finish
  <2>2. m \in MgrType /\ m.grants = mgr.grants
    <3>1. (Granted # {}) \in BOOLEAN
      OBVIOUS
    <3>2. [mgr EXCEPT !.busy = FALSE, !.settling = FALSE] \in MgrType
      BY <1>1, MgrWith
    <3>3. m \in MgrType
      BY <3>1, <3>2, MgrWith
    <3> QED BY <1>1, <3>3 DEF MgrType
  <2> HIDE DEF m
  <2>3. f.grants = mgr.grants /\ k.out = journal.out
    BY <1>1, <2>2 DEF MgrType, JournalType
  <2> HIDE DEF f, k
  <2>4. CASE mgr'.grants = mgr.grants /\ call' = Idling /\ UNCHANGED disk
    BY <1>1, <1>2, <2>4, SimplyEntrusted
  <2> QED BY <1>2, <1>3, <2>1, <2>2, <2>3, <2>4
<1> QED BY <1>4, <1>5, <1>6

LEMMA CrashEntrusted ==
  ASSUME Structure, Entrusted, Crash
  PROVE  Entrusted'
<1>1. /\ UNCHANGED <<nat, disk, nreq>> /\ call' = Idling
      /\ late' \subseteq late \cup (IF call.pc \in {"put", "recover"} THEN {call.cmd} ELSE {})
      /\ mgr' = [NewManager(mgr.proc + 1) EXCEPT !.imported = (OpenSessions(disk) # {}), !.fault = ~Loads(disk)]
  BY DEF Crash
<1>2. late' \in SUBSET Flying
  BY <1>1 DEF Flying, InHand
<1>3. mgr'.grants = NoGrants
  <2> DEFINE b == (OpenSessions(disk) # {})
             f == ~Loads(disk)
             p == mgr.proc + 1
  <2>1. mgr' = [NewManager(p) EXCEPT !.imported = b, !.fault = f]
    BY <1>1
  <2>2. p \in Nat /\ b \in BOOLEAN /\ f \in BOOLEAN
    BY MgrWith DEF Structure, Typed
  <2> HIDE DEF b, f, p
  <2> QED BY <2>1, <2>2, NewManagerIs
<1>4. Known(nat, disk, mgr.grants, late', nreq)
  BY <1>2, FewerKnown DEF Entrusted
<1>5. Known(nat, disk, NoGrants, late', nreq)
  BY <1>4, NothingGranted
<1>6. Known(nat, disk, mgr.grants, late, nreq)'
  BY <1>1, <1>3, <1>5
<1>7. call'.pc = "idle"
  BY <1>1 DEF Idling
<1> QED BY <1>6, <1>7, NothingInHand DEF Aware

\* An output whose origin is retired, or was never admitted by a process of the past, is spent.
LEMMA ClosedSpent ==
  ASSUME NEW n, NEW k, NEW F, NEW r, Flights(n, k, F, r), NEW q \in DOMAIN k.out, IsClosed(n, k.out[q].origin)
  PROVE  Spent(n, k.out[q].origin, F)
<1> DEFINE o == k.out[q].origin
<1>1. n.proc \in Nat /\ o \in Origin /\ o.proc \in Nat /\ Received(n) /\ o.req = q
  BY DEF Flights, LedgerInv, LedgerType, Origin, OutputType
<1>2. o \in DOMAIN n.origins => n.origins[o].retired
  BY DEF IsClosed, IsRetired
<1>3. ASSUME NEW c \in F, c.action = "begin", c.req = o.req PROVE c.exp.proc # n.proc
  <2>1. /\ c.req \notin DOMAIN n.receipts /\ c.req \in DOMAIN k.out
        /\ k.out[c.req].origin = [proc |-> c.exp.proc, req |-> c.req]
    BY <1>3 DEF Flights, CommandKnown
  <2>2. o \notin DOMAIN n.origins
    BY <1>1, <1>3, <2>1 DEF Received
  <2>3. o.proc < n.proc
    BY <2>2 DEF IsClosed, IsRetired
  <2>4. o.proc = c.exp.proc
    BY <1>1, <1>3, <2>1
  <2> QED BY <1>1, <2>3, <2>4
<1> QED BY <1>2, <1>3 DEF Spent

LEMMA RetiredOutput ==
  ASSUME NEW n, NEW o, NEW x, NEW F, NEW r, OutputKnown(n, o, F, r), x.origin = o.origin, x.rec = o.rec,
         x.result = o.result \/ (x.result # None /\ Proves(x.result) => IsClosed(n, o.origin)),
         x.retired => o.retired \/ Spent(n, o.origin, F)
  PROVE  OutputKnown(n, x, F, r)
BY DEF OutputKnown

\* Recovery stores an answer, marks an attempt as rejected, or retires an output.
LEMMA CustodyWritesEntrusted ==
  ASSUME Structure, Entrusted, CustodyStores \/ RecoverRejected \/ CustodyProves
  PROVE  Entrusted'
<1> DEFINE q == call.out
           o == disk.out[q]
<1>1. call.pc \in {"store", "recover", "prove"} /\ call.pc \in Custodial /\ UNCHANGED <<nat, late, nreq>>
  BY DEF CustodyStores, RecoverRejected, CustodyProves, At, Custodial
<1>2. /\ mgr \in MgrType /\ call \in CallType /\ JournalType(disk) /\ journal = disk
      /\ q \in DOMAIN disk.out /\ ~o.retired /\ o.rec # None
  BY <1>1 DEF Structure, Typed, Disciplined, CallPlaced, Custodial
<1>3. o \in OutputType /\ q \in Request /\ Flights(nat, disk, late, nreq) /\ OutputKnown(nat, o, late, nreq)
  <2>1. late \in SUBSET Flying
    BY DEF Flying
  <2>2. Known(nat, disk, mgr.grants, late, nreq)
    BY <2>1, FewerKnown DEF Entrusted
  <2> QED BY <1>2, <2>2 DEF Known, JournalType
<1> DEFINE m == CustodyOver[1]
           e == CustodyOver[2]
<1>4. CustodyOver = <<m, e>> /\ m \in MgrType /\ m.grants = mgr.grants /\ e.pc = "idle" /\ "idle" \in Simple
  BY <1>2 DEF CustodyOver, MgrType, Idling, Simple
<1> HIDE DEF m, e
<1>5. Custody("prove").pc \in Simple /\ Custody("scan").pc \in Simple
  BY <1>2 DEF Custody, Simple, CallType
<1>6. ASSUME NEW x \in OutputType, x.origin = o.origin, x.dev = o.dev, OutputKnown(nat, x, late, nreq),
             NEW k, k = [disk EXCEPT !.out[q] = x],
             Save(k, <<mgr, Custody("prove")>>, CustodyOver) \/ Save(k, <<mgr, Custody("scan")>>, CustodyOver)
               \/ Save(k, CustodyOver, CustodyOver)
      PROVE  Entrusted'
  <2>1. Holds(disk, k, q, x)
    BY <1>2, <1>3, <1>6, OutputHeld
  <2>2. CASE Save(k, <<mgr, Custody("prove")>>, <<m, e>>)
    BY <1>1, <1>2, <1>4, <1>5, <1>6, <2>1, <2>2, WriteEntrusted
  <2>3. CASE Save(k, <<mgr, Custody("scan")>>, <<m, e>>)
    BY <1>1, <1>2, <1>4, <1>5, <1>6, <2>1, <2>3, WriteEntrusted
  <2>4. CASE Save(k, <<m, e>>, <<m, e>>)
    BY <1>1, <1>2, <1>4, <1>6, <2>1, <2>4, WriteEntrusted
  <2> QED BY <1>4, <1>6, <2>2, <2>3, <2>4
<1>7. CASE CustodyStores
  <2> DEFINE x == [o EXCEPT !.result = call.answer]
  <2>1. call.answer \in AnswerType /\ (Proves(call.answer) => IsClosed(nat, o.origin))
    BY <1>7 DEF CustodyStores, At, Structure, CallPlaced, Entrusted, Aware
  <2>2. /\ x \in OutputType /\ x.origin = o.origin /\ x.dev = o.dev /\ x.retired = o.retired /\ x.rec = o.rec
        /\ x.result = call.answer
    BY <1>3, <2>1 DEF OutputType
  <2>3. [disk EXCEPT !.out[q].result = call.answer] = [disk EXCEPT !.out[q] = x]
    BY <1>2 DEF JournalType
  <2> HIDE DEF x
  <2>4. OutputKnown(nat, x, late, nreq)
    BY <1>3, <2>1, <2>2, RetiredOutput
  <2>5. Save([disk EXCEPT !.out[q] = x], <<mgr, Custody("prove")>>, CustodyOver)
    BY <1>2, <1>7, <2>3 DEF CustodyStores
  <2> QED BY <1>6, <2>2, <2>4, <2>5
<1>8. CASE RecoverRejected
  <2> DEFINE x == [o EXCEPT !.rejected = TRUE]
  <2>2. /\ x \in OutputType /\ x.origin = o.origin /\ x.dev = o.dev /\ x.retired = o.retired /\ x.rec = o.rec
        /\ x.result = o.result
    BY <1>3 DEF OutputType
  <2>3. [disk EXCEPT !.out[q].rejected = TRUE] = [disk EXCEPT !.out[q] = x]
    BY <1>2 DEF JournalType
  <2> HIDE DEF x
  <2>4. OutputKnown(nat, x, late, nreq)
    BY <1>3, <2>2, RetiredOutput
  <2>5. Save([disk EXCEPT !.out[q] = x], CustodyOver, CustodyOver)
    BY <1>2, <1>8, <2>3 DEF RecoverRejected
  <2> QED BY <1>6, <2>2, <2>4, <2>5
<1>9. CASE CustodyProves
  <2> DEFINE x == [o EXCEPT !.retired = TRUE, !.how = "recover"]
  <2>1. CASE CustodyEnds /\ UNCHANGED disk
    <3>1. mgr'.grants = mgr.grants /\ call'.pc = "idle"
      BY <1>4, <2>1 DEF CustodyEnds, m, e
    <3> QED BY <1>1, <1>4, <2>1, <3>1, SimplyEntrusted
  <2>2. CASE Proves(o.result) /\ Save(Retired(disk, q, "recover"), <<mgr, Custody("scan")>>, CustodyOver)
    <3>1. /\ x \in OutputType /\ x.origin = o.origin /\ x.dev = o.dev /\ x.rec = o.rec
          /\ x.result = o.result
      BY <1>3 DEF OutputType
    <3>2. Retired(disk, q, "recover") = [disk EXCEPT !.out[q] = x]
      BY <1>2 DEF JournalType, Retired
    <3>3. o.result # None
      BY <1>9 DEF CustodyProves, At, Structure, CallPlaced
    <3>4. IsClosed(nat, o.origin)
      BY <1>3, <2>2, <3>3 DEF OutputKnown
    <3>5. Spent(nat, o.origin, late)
      BY <1>2, <1>3, <3>4, ClosedSpent
    <3> HIDE DEF x
    <3>6. OutputKnown(nat, x, late, nreq)
      BY <1>3, <3>1, <3>5, RetiredOutput
    <3> QED BY <1>6, <2>2, <3>1, <3>2, <3>6
  <2> QED BY <1>2, <1>9, <2>1, <2>2 DEF CustodyProves
<1> QED BY <1>7, <1>8, <1>9

-----------------------------------------------------------------------------
(* What is entrusted is kept: recovery sends and reads *)

\* A command is minted and in hand, unless the save before it failed.
LEMMA TakenInHand ==
  ASSUME Entrusted, NEW c, c.req = <<"manager", nreq + 1>>, nreq' = nreq + 1, UNCHANGED <<nat, late>>,
         call'.pc \in {"recheck", "put", "recover"}, call'.cmd = c,
         Known(nat, disk', mgr'.grants, late \cup {c}, nreq + 1)
  PROVE  Entrusted'
<1>1. InHand' = {c} /\ Flying' = late \cup {c}
  BY DEF InHand, Flying
<1>2. c \notin late
  <2>1. c.req \notin Minting(nreq)
    <3>1. Known(nat, disk, mgr.grants, Flying, nreq)
      BY DEF Entrusted
    <3>2. <<"manager", nreq + 1>> \in Minting(nreq + 1) \ Minting(nreq)
      BY <3>1, RequestMinted
    <3> QED BY <3>2
  <2>2. \A b \in Flying : b.req # c.req
    BY <2>1, NewRequest DEF Entrusted
  <2> QED BY <2>2 DEF Flying
<1>3. Known(nat, disk, mgr.grants, Flying, nreq)'
  BY <1>1
<1>4. Aware'
  BY DEF Aware
<1> QED BY <1>1, <1>2, <1>3, <1>4 DEF Entrusted

LEMMA AttemptsEntrusted ==
  ASSUME Structure, Entrusted, CustodyAttempts
  PROVE  Entrusted'
<1> DEFINE C(q) == [Command("recover", Id(nat, journal.out[q].dev)) EXCEPT !.origin = journal.out[q].origin]
<1>1. call.pc = "scan" /\ call.pc \in Custodial /\ nreq' = nreq + 1 /\ UNCHANGED <<nat, late>>
  BY DEF CustodyAttempts, At, Custodial
<1>2. PICK q \in Owed(journal) :
        Save([journal EXCEPT !.out[q] = Attempt(journal.out[q], C(q))],
             <<mgr, [call EXCEPT !.pc = "recover", !.cmd = C(q), !.out = q]>>, CustodyOver)
  BY DEF CustodyAttempts
<1> DEFINE o == disk.out[q]
           s == Command("recover", Id(nat, o.dev))
           c == C(q)
           x == Attempt(o, c)
           k == [disk EXCEPT !.out[q] = x]
           e == [call EXCEPT !.pc = "recover", !.cmd = c, !.out = q]
<1>3. /\ call \in CallType /\ mgr \in MgrType /\ JournalType(disk) /\ journal = disk /\ late \in SUBSET Flying
      /\ nreq \in Nat
  BY <1>1, AttentionAssumption DEF Structure, Typed, Disciplined, Custodial, Flying
<1>4. q \in DOMAIN disk.out /\ ~o.retired /\ q \in Request /\ o \in OutputType /\ o.dev \in Devices
      /\ o.origin \in Origin
  BY <1>3 DEF Owed, OpenOutputs, JournalType, OutputType
<1>5. LedgerType(nat) /\ Id(nat, o.dev) \in Identities /\ Id(nat, o.dev).dev = o.dev
      /\ Id(nat, o.dev).proc = nat.proc /\ nat.proc \in Nat
  BY <1>4, DeviceTyped DEF Entrusted, Known, Flights, LedgerInv, LedgerType, Id
<1>6. /\ c \in CommandType /\ c.action = "recover" /\ c.origin = o.origin /\ c.exp = Id(nat, o.dev)
      /\ c.req = <<"manager", nreq + 1>>
  <2>1. s \in CommandType
    BY <1>3, <1>5, CommandTyped DEF ActionType
  <2>2. s.action = "recover" /\ s.exp = Id(nat, o.dev) /\ s.req = <<"manager", nreq + 1>>
    BY DEF Command
  <2> HIDE DEF s
  <2>3. c = [s EXCEPT !.origin = o.origin]
    BY <1>3 DEF s
  <2> QED BY <1>4, <2>1, <2>2, <2>3 DEF CommandType
<1> HIDE DEF C
<1>7. /\ x \in OutputType /\ x.dev = o.dev /\ x.origin = o.origin /\ ~x.retired /\ x.result = None
      /\ x.rec # None /\ x.rec.req = c.req
  <2>2. /\ x \in OutputType /\ x.dev = o.dev /\ x.origin = o.origin /\ x.retired = o.retired
        /\ x.result = None /\ x.rec # None
        /\ x.rec = [req |-> c.req, proc |-> c.exp.proc, inc |-> c.exp.inc, sess |-> c.exp.sess]
    BY <1>4, <1>5, <1>6, AttemptIs
  <2> HIDE DEF x
  <2> QED BY <1>4, <2>2
<1>8. Holds(disk, k, q, x)
  BY <1>3, <1>4, <1>7, OutputHeld
<1>9. Save(k, <<mgr, e>>, CustodyOver)
  BY <1>2, <1>3
<1> HIDE DEF x, k
<1>10. e.pc = "recover" /\ e.cmd = c
  BY <1>3 DEF CallType
<1> HIDE DEF e
<1>11. /\ Known(nat, disk, mgr.grants, late, nreq)
       /\ Known(nat, disk, mgr.grants, late, nreq + 1)
       /\ c.req \in Minting(nreq + 1) \ Minting(nreq) /\ c.req \notin DOMAIN nat.receipts
  <2>1. Known(nat, disk, mgr.grants, late, nreq)
    BY <1>3, FewerKnown DEF Entrusted
  <2>2. /\ Known(nat, disk, mgr.grants, late, nreq + 1)
        /\ <<"manager", nreq + 1>> \in Minting(nreq + 1) \ Minting(nreq)
        /\ <<"manager", nreq + 1>> \notin DOMAIN nat.receipts
    BY <2>1, RequestMinted
  <2> QED BY <1>6, <2>1, <2>2
<1>12. /\ \A b \in late : b.req # c.req
       /\ \A p \in DOMAIN disk.out : c.req # p /\ (disk.out[p].rec # None => disk.out[p].rec.req # c.req)
       /\ \A d \in Devices : mgr.grants[d] # None => mgr.grants[d].cmd.req # c.req
  BY <1>11, NewRequest
<1>13. OutputKnown(nat, x, late, nreq + 1)
  BY <1>7, <1>11, <1>12 DEF OutputKnown
<1>14. q \in Minting(nreq + 1) /\ x.origin.req = q /\ x.origin.proc <= nat.proc
  BY <1>4, <1>7, <1>11 DEF Known, Flights
<1>15. Known(nat, k, mgr.grants, late, nreq + 1)
  BY <1>4, <1>7, <1>8, <1>11, <1>13, <1>14, OutputWritten
<1>16. CommandKnown(nat, k, nreq + 1, c)
  <2>1. o.origin.req = q /\ c.origin.req \in DOMAIN k.out /\ k.out[c.origin.req] = x
    BY <1>6, <1>7, <1>8, <1>14 DEF Holds
  <2> QED BY <1>4, <1>5, <1>6, <1>7, <1>11, <2>1 DEF CommandKnown
<1>17. Known(nat, k, mgr.grants, late \cup {c}, nreq + 1)
  <2>1. \A p \in DOMAIN k.out : k.out[p].rec # None /\ k.out[p].rec.req = c.req =>
          c.action = "recover" /\ c.origin = k.out[p].origin
    BY <1>6, <1>7, <1>8, <1>12 DEF Holds
  <2> QED BY <1>6, <1>12, <1>15, <1>16, <2>1, CommandFlies
<1> DEFINE m == CustodyOver[1]
           i == CustodyOver[2]
<1>18. CustodyOver = <<m, i>> /\ m \in MgrType /\ m.grants = mgr.grants /\ i.pc = "idle"
  BY <1>3 DEF CustodyOver, MgrType, Idling
<1> HIDE DEF m, i
<1>19. \/ disk' = k /\ mgr'.grants = mgr.grants /\ call' = e
       \/ disk' \in {disk, k} /\ mgr'.grants = m.grants /\ call' = i
  BY <1>9, <1>18, SaveSplits
<1>20. CASE disk' = k /\ mgr'.grants = mgr.grants /\ call' = e
  BY <1>1, <1>6, <1>10, <1>17, <1>20, TakenInHand
<1>21. CASE disk' \in {disk, k} /\ mgr'.grants = m.grants /\ call' = i
  <2>1. Known(nat, disk, mgr.grants, late, nreq)'
    BY <1>1, <1>11, <1>15, <1>18, <1>21
  <2> QED BY <1>18, <1>21, <2>1, NothingInHand DEF Aware
<1> QED BY <1>19, <1>20, <1>21

\* An answer that proves an origin settled does so for good.
LEMMA ProvesClosed ==
  ASSUME NEW n, LedgerInv(n), Deep(n, {}), NEW q \in DOMAIN n.receipts, n.receipts[q].action = "recover",
         Proves(Answer(n, q))
  PROVE  IsClosed(n, n.receipts[q].origin)
<1>1. TerminalKnown(n, n.receipts[q])
  BY DEF Deep
<1>2. n.receipts[q].recovery \in {"never_admitted", "already_retired", "restored"}
  BY DEF Proves, Answer
<1> QED BY <1>1, <1>2 DEF TerminalKnown, IsClosed

\* What the bridge concluded stays true while the ledger moves by itself.
LEMMA AwareStays ==
  ASSUME Structure, Entrusted, LedgerInv(nat'), NEW C, Admission(nat, nat', C, Flying),
         UNCHANGED <<mgr, disk, call>>
  PROVE  Aware'
<1>1. LedgerType(nat) /\ LedgerType(nat') /\ Flights(nat, disk, Flying, nreq) /\ nat.proc <= nat'.proc
  BY DEF Entrusted, Known, Flights, LedgerInv, Admission, Evolves
<1>2. Target' = Target
  BY DEF Target
<1>3. ASSUME call.pc = "reserve" PROVE call.obs.proc <= nat'.proc
  <2>1. call.obs.proc <= nat.proc /\ call.obs.proc \in Nat
    BY <1>3 DEF Entrusted, Aware, Structure, CallPlaced, Identities
  <2> QED BY <1>1, <2>1 DEF LedgerType
<1>4. ASSUME call.pc = "retire" PROVE IsRetired(nat', mgr.grants[call.dev].origin)
  <2>1. mgr.grants[call.dev].origin \in Origin
    BY <1>4 DEF Structure, Typed, CallPlaced, Granted, MgrType, GrantType
  <2> QED BY <1>1, <1>4, <2>1, StaysFinal DEF Entrusted, Aware
<1>5. ASSUME call.pc = "store", Proves(call.answer) PROVE IsClosed(nat', disk.out[call.out].origin)
  <2>1. disk.out[call.out].origin \in Origin
    BY <1>5 DEF Structure, Typed, CallPlaced, JournalType, OutputType
  <2> QED BY <1>1, <1>5, <2>1, StaysFinal DEF Entrusted, Aware
<1> QED BY <1>2, <1>3, <1>4, <1>5 DEF Entrusted, Aware

LEMMA NativeEntrusted ==
  ASSUME Structure, Entrusted, Native
  PROVE  Entrusted' /\ LedgerInv(nat')
<1>1. UNCHANGED avars /\ (NativeStep \/ ProcessRestarts)
  BY DEF Native
<1>2. Flights(nat, disk, Flying, nreq) /\ mgr.grants \in [Devices -> GrantType \cup {None}]
  BY DEF Entrusted, Known, Structure, Typed, MgrType
<1>3. LedgerInv(nat') /\ Deep(nat', {}) /\ Admission(nat, nat', {}, Flying)
  BY <1>1, <1>2, NativeAdmission
<1>4. Known(nat', disk, mgr.grants, Flying \ {}, nreq)
  BY <1>2, <1>3, KnownEvolves DEF Entrusted
<1>5. Flying' = Flying /\ InHand' = InHand /\ UNCHANGED <<mgr, disk, call, late, nreq>>
  BY <1>1 DEF Flying, InHand, avars
<1>6. Known(nat, disk, mgr.grants, Flying, nreq)'
  <2>1. Flying \ {} = Flying
    OBVIOUS
  <2> QED BY <1>4, <1>5, <2>1
<1>7. Aware'
  BY <1>3, <1>5, AwareStays
<1> QED BY <1>3, <1>5, <1>6, <1>7 DEF Entrusted

LEMMA LateEntrusted ==
  ASSUME Structure, Entrusted, LateDelivery
  PROVE  Entrusted' /\ LedgerInv(nat')
<1>1. PICK c \in late : /\ late' = late \ {c}
                        /\ nat' = IF Admits(nat, c) THEN Admitted(nat, c) ELSE nat
  BY DEF LateDelivery
<1>2. UNCHANGED <<mgr, disk, call, nreq>>
  BY DEF LateDelivery
<1>3. /\ Known(nat, disk, mgr.grants, Flying, nreq) /\ Flights(nat, disk, Flying, nreq) /\ c \in Flying
      /\ mgr.grants \in [Devices -> GrantType \cup {None}]
  BY <1>1 DEF Entrusted, Known, Structure, Typed, MgrType, Flying
<1>4. InHand' = InHand /\ Flying' = Flying \ {c} /\ InHand' \cap late' = {}
  BY <1>1, <1>2 DEF Entrusted, InHand, Flying
<1>5. CASE Admits(nat, c)
  <2>1. LET m == Admitted(nat, c) IN LedgerInv(m) /\ Deep(m, {}) /\ Answered(nat, m, c) /\ Admission(nat, m, {c}, Flying)
    BY <1>3, <1>5, CommandAdmitted
  <2>2. nat' = Admitted(nat, c)
    BY <1>1, <1>5
  <2>3. LedgerInv(nat') /\ Admission(nat, nat', {c}, Flying)
    BY <2>1, <2>2
  <2>4. Known(nat', disk, mgr.grants, Flying \ {c}, nreq)
    BY <1>3, <1>5, <2>2, AdmittedKnown
  <2>5. Known(nat, disk, mgr.grants, Flying, nreq)'
    BY <1>2, <1>4, <2>4
  <2>6. Aware'
    BY <1>2, <2>3, AwareStays
  <2> QED BY <1>4, <2>3, <2>5, <2>6 DEF Entrusted
<1>6. CASE ~Admits(nat, c)
  <2>1. nat' = nat
    BY <1>1, <1>6
  <2>2. Known(nat, disk, mgr.grants, Flying', nreq)
    BY <1>3, <1>4, FewerKnown
  <2>3. Known(nat, disk, mgr.grants, Flying, nreq)'
    BY <1>2, <2>1, <2>2
  <2>4. Target' = Target
    BY <1>2 DEF Target
  <2>5. Aware'
    BY <1>2, <2>1, <2>4 DEF Entrusted, Aware
  <2>6. LedgerInv(nat')
    BY <1>3, <2>1 DEF Flights
  <2> QED BY <1>4, <2>3, <2>5, <2>6 DEF Entrusted
<1> QED BY <1>5, <1>6

\* The command in hand is delivered: what flies is what is late.
LEMMA HandDelivered ==
  ASSUME Structure, Entrusted, call.pc \in {"put", "recover"}
  PROVE  /\ call.cmd \in Flying /\ call.cmd \notin late /\ Flying = late \cup {call.cmd}
         /\ Known(nat, disk, mgr.grants, late, nreq)
         /\ Admits(nat, call.cmd) =>
              LET m == Admitted(nat, call.cmd)
              IN /\ LedgerInv(m) /\ Deep(m, {}) /\ Answered(nat, m, call.cmd)
                 /\ Known(m, disk, mgr.grants, late, nreq)
<1>1. InHand = {call.cmd} /\ Flying = late \cup {call.cmd} /\ call.cmd \notin late
  BY DEF Entrusted, InHand, Flying
<1>2. Known(nat, disk, mgr.grants, Flying, nreq) /\ Flights(nat, disk, Flying, nreq)
  BY DEF Entrusted, Known
<1>3. mgr.grants \in [Devices -> GrantType \cup {None}]
  BY DEF Structure, Typed, MgrType
<1>4. Flying \ {call.cmd} = late /\ late \in SUBSET Flying /\ call.cmd \in Flying
  BY <1>1
<1>5. Known(nat, disk, mgr.grants, late, nreq)
  BY <1>2, <1>4, FewerKnown
<1>6. ASSUME Admits(nat, call.cmd)
      PROVE  LET m == Admitted(nat, call.cmd)
             IN /\ LedgerInv(m) /\ Deep(m, {}) /\ Answered(nat, m, call.cmd)
                /\ Known(m, disk, mgr.grants, late, nreq)
  <2>1. LET m == Admitted(nat, call.cmd) IN LedgerInv(m) /\ Deep(m, {}) /\ Answered(nat, m, call.cmd)
    BY <1>2, <1>4, <1>6, CommandAdmitted
  <2>2. Known(Admitted(nat, call.cmd), disk, mgr.grants, Flying \ {call.cmd}, nreq)
    BY <1>2, <1>3, <1>4, <1>6, AdmittedKnown
  <2> QED BY <1>4, <2>1, <2>2
<1> QED BY <1>1, <1>4, <1>5, <1>6

LEMMA RecoverEntrusted ==
  ASSUME Structure, Entrusted, RecoverAnswered \/ RecoverLost
  PROVE  /\ Entrusted' /\ LedgerInv(nat')
         /\ RecoverAnswered => call.cmd.req \in DOMAIN nat'.receipts
<1> DEFINE c == call.cmd
<1>1. call.pc = "recover" /\ UNCHANGED <<disk, nreq>>
  BY DEF RecoverAnswered, RecoverLost, At
<1>2. /\ c \in Flying /\ c \notin late /\ Flying = late \cup {c}
      /\ Known(nat, disk, mgr.grants, late, nreq)
      /\ Admits(nat, c) =>
           LET m == Admitted(nat, c)
           IN /\ LedgerInv(m) /\ Deep(m, {}) /\ Answered(nat, m, c)
              /\ Known(m, disk, mgr.grants, late, nreq)
  BY <1>1, HandDelivered
<1>3. mgr \in MgrType /\ call \in CallType
  BY DEF Structure, Typed
<1>4. CASE RecoverAnswered
  <2>1. /\ Admits(nat, c) /\ nat' = Admitted(nat, c) /\ UNCHANGED <<mgr, late>>
        /\ call' = [call EXCEPT !.pc = "store", !.answer = Answer(nat', c.req)]
    BY <1>4 DEF RecoverAnswered
  <2>2. /\ LedgerInv(nat') /\ Deep(nat', {}) /\ Answered(nat, nat', c)
        /\ Known(nat', disk, mgr.grants, late, nreq)
    BY <1>2, <2>1
  <2>3. call'.pc = "store" /\ call'.answer = Answer(nat', c.req) /\ call'.out = call.out
    BY <1>3, <2>1 DEF CallType
  <2>4. c.action = "recover" /\ c.origin = disk.out[call.out].origin
    BY <1>1 DEF Structure, CallPlaced
  <2>5. /\ c.req \in DOMAIN nat'.receipts /\ nat'.receipts[c.req].action = "recover"
        /\ nat'.receipts[c.req].origin = disk.out[call.out].origin
    BY <2>2, <2>4 DEF Answered
  <2>6. Proves(Answer(nat', c.req)) => IsClosed(nat', disk.out[call.out].origin)
    BY <2>2, <2>5, ProvesClosed
  <2>7. Aware'
    BY <1>1, <2>3, <2>6 DEF Aware
  <2>8. Known(nat, disk, mgr.grants, late, nreq)'
    BY <1>1, <2>1, <2>2
  <2> QED BY <2>2, <2>3, <2>5, <2>7, <2>8, NothingInHand
<1>5. CASE RecoverLost
  <2>1. /\ \/ Admits(nat, c) /\ nat' = Admitted(nat, c) /\ UNCHANGED late
           \/ late' = late \cup {c} /\ UNCHANGED nat
        /\ CustodyEnds
    BY <1>5 DEF RecoverLost
  <2>2. mgr'.grants = mgr.grants /\ call'.pc = "idle"
    BY <1>3, <2>1 DEF CustodyEnds, CustodyOver, MgrType, Idling
  <2>3. Known(nat', disk, mgr.grants, late', nreq) /\ LedgerInv(nat')
    <3>1. CASE Admits(nat, c) /\ nat' = Admitted(nat, c) /\ UNCHANGED late
      BY <1>2, <3>1
    <3>2. CASE late' = late \cup {c} /\ UNCHANGED nat
      BY <1>2, <3>2 DEF Entrusted, Known, Flights
    <3> QED BY <2>1, <3>1, <3>2
  <2>4. Known(nat, disk, mgr.grants, late, nreq)'
    BY <1>1, <2>2, <2>3
  <2>5. ~RecoverAnswered
    BY <2>2, <1>3 DEF RecoverAnswered, CallType
  <2> QED BY <2>2, <2>3, <2>4, <2>5, NothingInHand DEF Aware
<1> QED BY <1>4, <1>5

LEMMA PollsEntrusted ==
  ASSUME Structure, Entrusted, CustodyPolls
  PROVE  Entrusted'
<1>1. /\ call.pc = "scan" /\ UNCHANGED <<nat, late, nreq, disk>>
      /\ mgr \in MgrType /\ call \in CallType /\ journal = disk
  BY DEF CustodyPolls, At, Structure, Typed, Disciplined, Custodial
<1>2. PICK q \in Owed(disk) :
        LET o == disk.out[q]
        IN /\ ~NeedsFresh(o)
           /\ IF o.rec.req \in DOMAIN nat.receipts
              THEN call' = [call EXCEPT !.pc = "store", !.out = q, !.answer = Answer(nat, o.rec.req)] /\ UNCHANGED mgr
              ELSE CustodyEnds
  BY <1>1 DEF CustodyPolls
<1> DEFINE o == disk.out[q]
<1>3. CASE CustodyEnds
  <2>1. mgr'.grants = mgr.grants /\ call'.pc = "idle"
    BY <1>1, <1>3 DEF CustodyEnds, CustodyOver, MgrType, Idling
  <2> QED BY <1>1, <2>1, SimplyEntrusted DEF Simple
<1>4. CASE /\ o.rec.req \in DOMAIN nat.receipts
           /\ call' = [call EXCEPT !.pc = "store", !.out = q, !.answer = Answer(nat, o.rec.req)] /\ UNCHANGED mgr
  <2>1. call'.pc = "store" /\ call'.out = q /\ call'.answer = Answer(nat, o.rec.req)
    BY <1>1, <1>4 DEF CallType
  <2>2. q \in DOMAIN disk.out /\ OutputKnown(nat, o, Flying, nreq) /\ LedgerInv(nat) /\ Deep(nat, {})
    BY DEF Owed, OpenOutputs, Entrusted, Known, Flights
  <2>3. o.rec # None
    BY <1>2 DEF NeedsFresh
  <2>4. nat.receipts[o.rec.req].action = "recover" /\ nat.receipts[o.rec.req].origin = o.origin
    BY <1>4, <2>2, <2>3 DEF OutputKnown
  <2>5. Proves(Answer(nat, o.rec.req)) => IsClosed(nat, o.origin)
    BY <1>4, <2>2, <2>4, ProvesClosed
  <2>6. Aware'
    BY <1>1, <2>1, <2>5 DEF Aware
  <2> QED BY <1>1, <1>4, <2>1, <2>6, MovedEntrusted
<1> QED BY <1>2, <1>3, <1>4

-----------------------------------------------------------------------------
(* What is entrusted is kept: the bridge sends and reads *)

LEMMA BeginEntrusted ==
  ASSUME Structure, Entrusted, ReserveBegin
  PROVE  Entrusted'
<1> DEFINE c == Command("begin", call.obs)
           q == <<"manager", nreq + 1>>
           o == OutputOf(call.id, c, mgr.nonce)
           k == [disk EXCEPT !.out = Put(@, q, o)]
           e == [call EXCEPT !.pc = "recheck", !.cmd = c]
           i == Goto("finish")
<1>1. call.pc = "reserve" /\ nreq' = nreq + 1 /\ UNCHANGED <<nat, late>>
  BY DEF ReserveBegin, At
<1>2. /\ call \in CallType /\ mgr \in MgrType /\ JournalType(disk) /\ journal = disk /\ late \in SUBSET Flying
      /\ nreq \in Nat /\ mgr.nonce \in Nat
  <2>1. call \in CallType /\ mgr \in MgrType /\ JournalType(disk) /\ late \in SUBSET Flying /\ nreq \in Nat
    BY AttentionAssumption DEF Structure, Typed, Flying
  <2>2. journal = disk
    BY <1>1 DEF Structure, Disciplined
  <2> QED BY <2>1, <2>2, MgrWith
<1>3. call.id \in Devices /\ call.obs \in Identities /\ call.obs.dev = call.id /\ call.obs.proc <= nat.proc
  BY <1>1 DEF Structure, CallPlaced, Entrusted, Aware
<1>4. c \in CommandType /\ c.action = "begin" /\ c.exp = call.obs /\ c.req = q
  BY <1>2, <1>3, CommandTyped DEF ActionType
<1>5. Save([disk EXCEPT !.out = Put(@, c.req, o)], <<mgr, e>>, <<mgr, i>>)
  BY <1>2 DEF ReserveBegin
<1>6. Save(k, <<mgr, e>>, <<mgr, i>>)
  BY <1>4, <1>5
<1> HIDE DEF c, q
<1>7. /\ o \in OutputType /\ o.dev = call.id /\ o.origin = [proc |-> c.exp.proc, req |-> q]
      /\ ~o.retired /\ o.rec = None /\ o.result = None
  BY <1>2, <1>3, <1>4, OutputOfIs
<1> HIDE DEF o
<1>8. /\ Known(nat, disk, mgr.grants, late, nreq)
      /\ Known(nat, disk, mgr.grants, late, nreq + 1)
      /\ q \in Minting(nreq + 1) /\ q \notin Minting(nreq) /\ q \notin DOMAIN nat.receipts
  <2>1. Known(nat, disk, mgr.grants, late, nreq)
    BY <1>2, FewerKnown DEF Entrusted
  <2>2. /\ Known(nat, disk, mgr.grants, late, nreq + 1)
        /\ <<"manager", nreq + 1>> \in Minting(nreq + 1) \ Minting(nreq)
        /\ <<"manager", nreq + 1>> \notin DOMAIN nat.receipts
    BY <2>1, RequestMinted
  <2> QED BY <2>1, <2>2 DEF q
<1>9. /\ \A b \in late : b.req # q
      /\ \A p \in DOMAIN disk.out : q # p /\ (disk.out[p].rec # None => disk.out[p].rec.req # q)
      /\ \A d \in Devices : mgr.grants[d] # None => mgr.grants[d].cmd.req # q
  BY <1>8, NewRequest
<1>10. q \in Request
  BY <1>4 DEF CommandType
<1>11. Holds(disk, k, q, o)
  BY <1>2, <1>7, <1>10, OutputHeld
<1> HIDE DEF k
<1>12. OutputKnown(nat, o, late, nreq + 1)
  BY <1>7 DEF OutputKnown
<1>13. o.origin.req = q /\ o.origin.proc <= nat.proc
  BY <1>3, <1>4, <1>7
<1>14. Known(nat, k, mgr.grants, late, nreq + 1)
  BY <1>7, <1>8, <1>9, <1>11, <1>12, <1>13, OutputWritten
<1>15. CommandKnown(nat, k, nreq + 1, c)
  BY <1>3, <1>4, <1>7, <1>8, <1>11 DEF CommandKnown, Holds
<1>16. Known(nat, k, mgr.grants, late \cup {c}, nreq + 1)
  <2>1. \A p \in DOMAIN k.out : k.out[p].retired /\ c.action = "begin" => c.req # p
    BY <1>4, <1>7, <1>11 DEF Holds
  <2>2. \A p \in DOMAIN k.out : k.out[p].rec # None /\ k.out[p].rec.req = c.req =>
          c.action = "recover" /\ c.origin = k.out[p].origin
    BY <1>4, <1>7, <1>9, <1>11 DEF Holds
  <2> QED BY <1>4, <1>9, <1>14, <1>15, <2>1, <2>2, CommandFlies
<1>17. e.pc = "recheck" /\ e.cmd = c /\ i.pc = "finish"
  BY <1>2 DEF CallType, Goto
<1> HIDE DEF e, i
<1>18. \/ disk' = k /\ mgr'.grants = mgr.grants /\ call' = e
       \/ disk' \in {disk, k} /\ mgr'.grants = mgr.grants /\ call' = i
  BY <1>2, <1>6, SaveSplits
<1>19. CASE disk' = k /\ mgr'.grants = mgr.grants /\ call' = e
  BY <1>1, <1>4, <1>16, <1>17, <1>19, TakenInHand DEF q
<1>20. CASE disk' \in {disk, k} /\ mgr'.grants = mgr.grants /\ call' = i
  <2>1. Known(nat, disk, mgr.grants, late, nreq)'
    BY <1>1, <1>8, <1>14, <1>20
  <2> QED BY <1>17, <1>20, <2>1, NothingInHand DEF Aware
<1> QED BY <1>18, <1>19, <1>20

LEMMA RecheckEntrusted ==
  ASSUME Structure, Entrusted, Recheck
  PROVE  Entrusted'
<1> DEFINE c == call.cmd
           q == c.req
           b == disk.out[q]
           d == call.id
           i == Goto("finish")
<1>1. call.pc = "recheck" /\ UNCHANGED <<nat, late, nreq>>
  BY DEF Recheck, At
<1>2. /\ call \in CallType /\ mgr \in MgrType /\ JournalType(disk) /\ journal = disk /\ late \in SUBSET Flying
      /\ InHand = {c} /\ Flying = late \cup {c} /\ c \notin late
      /\ Known(nat, disk, mgr.grants, Flying, nreq)
  BY <1>1 DEF Structure, Typed, Disciplined, Flying, InHand, Entrusted
<1>3. /\ d \in Devices /\ c \in CommandType /\ c.action = "begin" /\ c.exp.dev = d /\ q \in DOMAIN disk.out
      /\ b.origin = [proc |-> c.exp.proc, req |-> q] /\ b \in OutputType
  BY <1>1, <1>2 DEF Structure, CallPlaced, JournalType
<1>4. /\ q \in Minting(nreq) /\ q \notin DOMAIN nat.receipts /\ \A a \in Flying : a.req = q => a = c
      /\ Flights(nat, disk, Flying, nreq) /\ OutputKnown(nat, b, late, nreq)
  <2>1. Flights(nat, disk, Flying, nreq) /\ CommandKnown(nat, disk, nreq, c)
    BY <1>2 DEF Known, Flights
  <2>2. Known(nat, disk, mgr.grants, late, nreq)
    BY <1>2, FewerKnown
  <2> QED BY <1>2, <1>3, <2>1, <2>2 DEF CommandKnown, Known, Flights
<1>5. CASE /\ mgr' = [mgr EXCEPT !.grants[d] = NewGrant(c, call.rev), !.nativePending = TRUE]
           /\ call' = [call EXCEPT !.pc = "put", !.dev = d] /\ UNCHANGED <<journal, disk, faults>>
  <2> DEFINE g == NewGrant(c, call.rev)
  <2>1. /\ g.origin = b.origin /\ g.cmd = c /\ g.gid = None /\ g.res = None /\ g.unc
    BY <1>3 DEF NewGrant
  <2> HIDE DEF g
  <2>2. ~Accepted(g)
    BY <2>1 DEF Accepted
  <2>3. GrantKnown(nat, g, d, Flying, nreq)
    BY <1>3, <1>4, <2>1, <2>2 DEF GrantKnown
  <2>4. mgr'.grants = [mgr.grants EXCEPT ![d] = g]
    BY <1>2, <1>5 DEF MgrType, g
  <2>5. Known(nat, disk, [mgr.grants EXCEPT ![d] = g], Flying, nreq)
    BY <1>2, <1>3, <2>3, GrantWritten DEF MgrType
  <2>6. call'.pc = "put" /\ call'.cmd = c
    BY <1>2, <1>5 DEF CallType
  <2>7. InHand' = {c} /\ Flying' = Flying
    BY <1>1, <1>2, <2>6 DEF InHand, Flying
  <2>8. Known(nat, disk, mgr.grants, Flying, nreq)'
    BY <1>1, <1>5, <2>4, <2>5, <2>7
  <2>9. Aware'
    BY <2>6 DEF Aware
  <2> QED BY <1>1, <1>2, <2>7, <2>8, <2>9 DEF Entrusted
<1>6. CASE Save(Retired(journal, q, "no_submission"), <<mgr, i>>, <<mgr, i>>)
  <2> DEFINE x == [b EXCEPT !.retired = TRUE, !.how = "no_submission"]
             k == Retired(disk, q, "no_submission")
  <2>1. /\ x \in OutputType /\ x.origin = b.origin /\ x.dev = b.dev /\ x.rec = b.rec /\ x.result = b.result
    BY <1>3 DEF OutputType
  <2>2. k = [disk EXCEPT !.out[q] = x]
    BY <1>2, <1>3 DEF JournalType, Retired
  <2>3. q \in Request
    BY <1>3 DEF CommandType
  <2> HIDE DEF x, k
  <2>4. Holds(disk, k, q, x)
    BY <1>2, <1>3, <2>1, <2>2, <2>3, OutputHeld
  <2>5. Spent(nat, b.origin, late)
    <3>1. b.origin \notin DOMAIN nat.origins
      BY <1>3, <1>4 DEF Flights, LedgerInv, Received
    <3>2. \A a \in late : a.req # q
      BY <1>2, <1>4
    <3> QED BY <1>3, <3>1, <3>2 DEF Spent
  <2>6. OutputKnown(nat, x, late, nreq)
    BY <1>4, <2>1, <2>5, RetiredOutput
  <2>7. i.pc \in Simple
    BY <1>2 DEF Goto, CallType, Simple
  <2> HIDE DEF i
  <2>8. Save(k, <<mgr, i>>, <<mgr, i>>)
    BY <1>2, <1>6 DEF k
  <2> QED BY <1>1, <1>2, <1>3, <2>1, <2>4, <2>6, <2>7, <2>8, WriteEntrusted
<1> QED BY <1>5, <1>6 DEF Recheck

\* A grant is given another command, and the bridge is about to send it.
LEMMA ReissuedEntrusted ==
  ASSUME Structure, Entrusted, NEW d \in Granted, mgr.grants[d].gid # None,
         NEW c \in CommandType, c.action \in {"update", "release"}, c.exp.dev = d, c.exp.proc <= nat.proc,
         c.req = <<"manager", nreq + 1>>,
         NEW h, h.origin = mgr.grants[d].origin, h.gid = mgr.grants[d].gid, h.res = None, h.cmd = c,
         mgr' = [mgr EXCEPT !.grants[d] = h], call'.pc = "put", call'.cmd = c,
         nreq' = nreq + 1, UNCHANGED <<nat, disk, late>>
  PROVE  Entrusted'
<1> DEFINE g == mgr.grants[d]
           G == [mgr.grants EXCEPT ![d] = h]
<1>1. d \in Devices /\ g # None /\ mgr \in MgrType /\ mgr.grants \in [Devices -> GrantType \cup {None}]
  BY DEF Granted, Structure, Typed, MgrType
<1>2. /\ Known(nat, disk, mgr.grants, late, nreq)
      /\ Known(nat, disk, mgr.grants, late, nreq + 1)
      /\ c.req \in Minting(nreq + 1) \ Minting(nreq) /\ c.req \notin DOMAIN nat.receipts
  <2>1. late \in SUBSET Flying
    BY DEF Flying
  <2>2. Known(nat, disk, mgr.grants, late, nreq)
    BY <2>1, FewerKnown DEF Entrusted
  <2>3. /\ Known(nat, disk, mgr.grants, late, nreq + 1)
        /\ <<"manager", nreq + 1>> \in Minting(nreq + 1) \ Minting(nreq)
        /\ <<"manager", nreq + 1>> \notin DOMAIN nat.receipts
    BY <2>2, RequestMinted
  <2> QED BY <2>2, <2>3
<1>3. /\ \A b \in late : b.req # c.req
      /\ \A p \in DOMAIN disk.out : c.req # p /\ (disk.out[p].rec # None => disk.out[p].rec.req # c.req)
      /\ \A e \in Devices : mgr.grants[e] # None => mgr.grants[e].cmd.req # c.req
  BY <1>2, NewRequest
<1>4. GrantKnown(nat, g, d, late, nreq + 1)
  BY <1>1, <1>2 DEF Known
<1>5. GrantKnown(nat, h, d, late, nreq + 1)
  BY <1>1, <1>2, <1>3, <1>4, ReissuedKnown
<1>6. Known(nat, disk, G, late, nreq + 1)
  BY <1>1, <1>2, <1>5, GrantWritten
<1>7. CommandKnown(nat, disk, nreq + 1, c)
  BY <1>2 DEF CommandKnown
<1>8. \A e \in Devices : G[e] # None /\ G[e].cmd.req = c.req => G[e].cmd = c
  BY <1>1, <1>3
<1>9. mgr'.grants = G
  BY <1>1 DEF MgrType
<1> HIDE DEF G
<1>10. Known(nat, disk, G, late \cup {c}, nreq + 1)
  BY <1>3, <1>6, <1>7, <1>8, CommandFlies
<1>11. Known(nat, disk', mgr'.grants, late \cup {c}, nreq + 1)
  BY <1>9, <1>10
<1> QED BY <1>11, TakenInHand

LEMMA UpdateEntrusted ==
  ASSUME Structure, Entrusted, ReserveUpdate
  PROVE  Entrusted'
<1> DEFINE d == call.id
           g == mgr.grants[d]
           c == Command("update", call.obs)
           x == Reissued(g, c)
           h == [x EXCEPT !.rev = call.rev]
<1>1. /\ call.pc = "reserve" /\ UNCHANGED <<nat, disk, late>> /\ nreq' = nreq + 1 /\ Target # None
      /\ mgr' = [mgr EXCEPT !.grants[d] = [Reissued(@, c) EXCEPT !.rev = call.rev]]
      /\ call' = [call EXCEPT !.pc = "put", !.dev = d, !.cmd = c]
  BY DEF ReserveUpdate, At
<1>2. /\ call \in CallType /\ mgr \in MgrType /\ nreq \in Nat /\ d \in Devices /\ call.obs \in Identities
      /\ call.obs.dev = d /\ call.obs.proc <= nat.proc /\ Target.gid # None
  BY <1>1, AttentionAssumption DEF Structure, Typed, CallPlaced, Entrusted, Aware
<1>3. g = Target /\ d \in Granted /\ g \in GrantType
  <2>1. g = Target
    BY <1>1 DEF Target
  <2> QED BY <1>1, <1>2, <2>1, MgrWith DEF Granted
<1>4. /\ c \in CommandType /\ c.action = "update" /\ c.exp = call.obs /\ c.req = <<"manager", nreq + 1>>
  BY <1>2, CommandTyped DEF ActionType
<1>5. call'.pc = "put" /\ call'.cmd = c
  BY <1>1, <1>2 DEF CallType
<1>6. mgr' = [mgr EXCEPT !.grants[d] = h]
  BY <1>1
<1> HIDE DEF c
<1>7. x \in GrantType /\ x.origin = g.origin /\ x.cmd = c /\ x.gid = g.gid /\ x.res = None
  BY <1>3, <1>4, GrantWith
<1> HIDE DEF x
<1>8. h.origin = g.origin /\ h.cmd = c /\ h.gid = g.gid /\ h.res = None
  BY <1>7 DEF GrantType
<1> HIDE DEF h
<1> QED BY <1>1, <1>2, <1>3, <1>4, <1>5, <1>6, <1>8, ReissuedEntrusted

LEMMA ScansEntrusted ==
  ASSUME Structure, Entrusted, ReleaseScans
  PROVE  Entrusted'
<1>1. PICK d \in call.todo :
        /\ ~ReleaseStops(d)
        /\ \/ /\ Accepted(mgr.grants[d])
              /\ call' = [call EXCEPT !.pc = "retire", !.dev = d]
              /\ UNCHANGED <<mgr, nreq>>
           \/ call' = Detecting(d, "finish") /\ UNCHANGED <<mgr, nreq>>
           \/ /\ call' = [Detecting(d, "terminal") EXCEPT !.op = nat.dev[d].lastRelease]
              /\ UNCHANGED <<mgr, nreq>>
           \/ /\ mgr' = [mgr EXCEPT !.grants[d] = [Reissued(@, Command("release", Id(nat, d)))
                                                     EXCEPT !.lastRestore = call.restore]]
              /\ call' = [call EXCEPT !.pc = "put", !.dev = d, !.cmd = Command("release", Id(nat, d))]
              /\ nreq' = nreq + 1
  BY DEF ReleaseScans
<1> DEFINE g == mgr.grants[d]
           c == Command("release", Id(nat, d))
           x == Reissued(g, c)
           h == [x EXCEPT !.lastRestore = call.restore]
<1>2. /\ call \in CallType /\ mgr \in MgrType /\ nreq \in Nat /\ d \in Devices /\ d \in Granted
      /\ g \in GrantType /\ g # None /\ GrantKnown(nat, g, d, Flying, nreq) /\ LedgerType(nat) /\ nat.proc \in Nat
      /\ UNCHANGED <<nat, disk, late>>
  <2>1. /\ call \in CallType /\ mgr \in MgrType /\ nreq \in Nat /\ call.todo \subseteq Granted
        /\ UNCHANGED <<nat, disk, late>>
    BY AttentionAssumption DEF Structure, Typed, GrantsPlaced, ReleaseScans
  <2>2. d \in Devices /\ d \in Granted /\ g # None
    BY <2>1 DEF Granted
  <2>3. g \in GrantType
    BY <2>1, <2>2, MgrWith
  <2>4. GrantKnown(nat, g, d, Flying, nreq) /\ LedgerType(nat) /\ nat.proc \in Nat
    BY <2>2 DEF Entrusted, Known, Flights, LedgerInv, LedgerType
  <2> QED BY <2>1, <2>2, <2>3, <2>4
<1>3. CASE Accepted(g) /\ call' = [call EXCEPT !.pc = "retire", !.dev = d] /\ UNCHANGED <<mgr, nreq>>
  <2>1. call'.pc = "retire" /\ call'.dev = d
    BY <1>2, <1>3 DEF CallType
  <2>2. IsRetired(nat, g.origin)
    BY <1>2, <1>3 DEF GrantKnown
  <2>3. Aware'
    BY <1>2, <1>3, <2>1, <2>2 DEF Aware
  <2> QED BY <1>2, <1>3, <2>1, <2>3, MovedEntrusted
<1>4. CASE call' = Detecting(d, "finish") /\ UNCHANGED <<mgr, nreq>>
  <2>1. call'.pc \in Simple
    BY <1>2, <1>4 DEF CallType, Detecting, Simple
  <2> QED BY <1>2, <1>4, <2>1, SimplyEntrusted
<1>5. CASE call' = [Detecting(d, "terminal") EXCEPT !.op = nat.dev[d].lastRelease] /\ UNCHANGED <<mgr, nreq>>
  <2>1. call'.pc \in Simple
    BY <1>2, <1>5 DEF CallType, Detecting, Simple
  <2> QED BY <1>2, <1>5, <2>1, SimplyEntrusted
<1>6. CASE /\ mgr' = [mgr EXCEPT !.grants[d] = [Reissued(@, c) EXCEPT !.lastRestore = call.restore]]
           /\ call' = [call EXCEPT !.pc = "put", !.dev = d, !.cmd = c]
           /\ nreq' = nreq + 1
  <2>1. Id(nat, d) \in Identities /\ Id(nat, d).proc = nat.proc /\ Id(nat, d).dev = d
    BY <1>2, DeviceTyped DEF Id
  <2>2. c \in CommandType /\ c.action = "release" /\ c.exp = Id(nat, d) /\ c.req = <<"manager", nreq + 1>>
    BY <1>2, <2>1, CommandTyped DEF ActionType
  <2>3. call'.pc = "put" /\ call'.cmd = c
    BY <1>2, <1>6 DEF CallType
  <2>4. mgr' = [mgr EXCEPT !.grants[d] = h]
    BY <1>6
  <2> HIDE DEF c
  <2>5. x \in GrantType /\ x.origin = g.origin /\ x.cmd = c /\ x.gid = g.gid /\ x.res = None
    BY <1>2, <2>2, GrantWith
  <2> HIDE DEF x
  <2>6. h.origin = g.origin /\ h.cmd = c /\ h.gid = g.gid /\ h.res = None
    BY <2>5 DEF GrantType
  <2> HIDE DEF h
  <2>7. g.gid # None
    <3>1. ~g.unc
      BY <1>1 DEF ReleaseStops, Waiting
    <3> QED BY <1>2, <3>1 DEF GrantKnown
  <2>8. c.exp.proc <= nat.proc
    BY <1>2, <2>1, <2>2
  <2> QED BY <1>2, <1>6, <2>1, <2>2, <2>3, <2>4, <2>6, <2>7, <2>8, ReissuedEntrusted
<1> QED BY <1>1, <1>3, <1>4, <1>5, <1>6

\* An answer that the bridge reads is folded into its grant.
LEMMA PolledEntrusted ==
  ASSUME Structure, Entrusted, Poll
  PROVE  Entrusted'
<1>1. PICK d \in call.todo :
        \/ Waiting(mgr.grants[d]) /\ Polled(d)
        \/ ~Waiting(mgr.grants[d]) /\ call' = [call EXCEPT !.todo = @ \ {d}] /\ UNCHANGED mgr
  BY DEF Poll
<1> DEFINE g == mgr.grants[d]
           r == nat.receipts[g.cmd.req]
           h == Folded(g, r, Seen(r))
           c == IF FailedRelease(h) THEN Detecting(d, "poll") ELSE call
<1>2. /\ call.pc = "poll" /\ call \in CallType /\ mgr \in MgrType /\ call.todo \subseteq Granted
      /\ UNCHANGED <<nat, disk, late, nreq>>
  BY DEF Poll, At, Structure, Typed, GrantsPlaced
<1>3. d \in Devices /\ g # None /\ g \in GrantType
  BY <1>2, MgrWith DEF Granted
<1>4. /\ Known(nat, disk, mgr.grants, late, nreq) /\ GrantKnown(nat, g, d, late, nreq)
      /\ LedgerInv(nat) /\ Deep(nat, {}) /\ mgr.grants \in [Devices -> GrantType \cup {None}]
  <2>1. late \in SUBSET Flying
    BY DEF Flying
  <2>2. Known(nat, disk, mgr.grants, late, nreq)
    BY <2>1, FewerKnown DEF Entrusted
  <2> QED BY <1>2, <1>3, <2>2 DEF Known, Flights, MgrType
<1>5. CASE call'.pc \in Simple /\ UNCHANGED mgr
  BY <1>2, <1>5, SimplyEntrusted
<1>6. ASSUME call' = Goto("finish") \/ call' = Detecting(d, "finish") \/ call' = [call EXCEPT !.todo = @ \ {d}]
      PROVE  call'.pc \in Simple
  BY <1>2, <1>6 DEF Goto, Detecting, CallType, Simple
<1>7. CASE Observable(g) /\ mgr' = [mgr EXCEPT !.grants[d] = h] /\ call' = [c EXCEPT !.todo = @ \ {d}]
  <2>1. g.cmd.req \in DOMAIN nat.receipts /\ Folds(g, r)
    BY <1>7 DEF Observable
  <2>2. GrantKnown(nat, Folded(g, r, Reads(nat, r)), d, late, nreq)
    BY <1>3, <1>4, <2>1, FoldKnown
  <2>3. Seen(r) = Reads(nat, r)
    BY DEF Seen, Reads
  <2>4. GrantKnown(nat, h, d, late, nreq)
    BY <2>2, <2>3
  <2> HIDE DEF h
  <2>5. mgr'.grants = [mgr.grants EXCEPT ![d] = h]
    BY <1>2, <1>7 DEF MgrType
  <2>6. Known(nat, disk, [mgr.grants EXCEPT ![d] = h], late, nreq)
    BY <1>3, <1>4, <2>4, GrantWritten
  <2>7. Known(nat, disk, mgr.grants, late, nreq)'
    BY <1>2, <2>5, <2>6
  <2>8. call'.pc \in {"poll", "detect"}
    <3>1. c \in CallType /\ c.pc \in {"poll", "detect"}
      <4>1. Detecting(d, "poll") \in CallType /\ Detecting(d, "poll").pc = "detect"
        BY <1>2, <1>3, GoesOn
      <4> QED BY <1>2, <4>1
    <3> HIDE DEF c
    <3> QED BY <1>7, <3>1 DEF CallType
  <2> QED BY <2>7, <2>8, NothingInHand DEF Aware
<1>8. \/ UNCHANGED mgr /\ (call' = Goto("finish") \/ call' = Detecting(d, "finish") \/ call' = [call EXCEPT !.todo = @ \ {d}])
      \/ Observable(g) /\ mgr' = [mgr EXCEPT !.grants[d] = h] /\ call' = [c EXCEPT !.todo = @ \ {d}]
  BY <1>1 DEF Polled
<1> QED BY <1>5, <1>6, <1>7, <1>8

LEMMA TerminalEntrusted ==
  ASSUME Structure, Entrusted, Terminal
  PROVE  Entrusted'
<1> DEFINE d == call.dev
           g == mgr.grants[d]
           s == [outcome |-> "accepted", cur |-> TRUE, op |-> call.op]
           h == [g EXCEPT !.res = s]
<1>1. call.pc = "terminal" /\ UNCHANGED <<nat, disk, late, nreq>>
  BY DEF Terminal, At
<1>2. /\ call \in CallType /\ mgr \in MgrType /\ d \in Devices /\ g # None
      /\ mgr.grants \in [Devices -> GrantType \cup {None}]
  BY <1>1 DEF Structure, Typed, CallPlaced, Granted, MgrType
<1>3. g \in GrantType
  BY <1>2
<1>4. /\ Known(nat, disk, mgr.grants, late, nreq) /\ GrantKnown(nat, g, d, late, nreq)
      /\ LedgerInv(nat) /\ Deep(nat, {})
  <2>1. late \in SUBSET Flying
    BY DEF Flying
  <2>2. Known(nat, disk, mgr.grants, late, nreq)
    BY <2>1, FewerKnown DEF Entrusted
  <2> QED BY <1>2, <2>2 DEF Known, Flights
<1>5. CASE call' = Goto("finish") /\ UNCHANGED mgr
  <2>1. call'.pc \in Simple
    BY <1>2, <1>5 DEF Goto, CallType, Simple
  <2> QED BY <1>1, <1>5, <2>1, SimplyEntrusted
<1>6. CASE /\ TerminalOf(d) # {} /\ mgr' = [mgr EXCEPT !.grants[d].res = s] /\ call' = Goto("retire")
  <2>1. PICK q \in DOMAIN nat.receipts :
          /\ nat.receipts[q].id.dev = d /\ Lease(nat.receipts[q]) = g.gid /\ nat.receipts[q].action = "release"
          /\ nat.receipts[q].outcome = "accepted" /\ Current(nat, nat.receipts[q])
    BY <1>6 DEF TerminalOf
  <2>2. g.gid # None
    <3>1. Lease(nat.receipts[q]) \in LeaseType
      BY <1>4, <2>1, ReceiptReads DEF LedgerInv
    <3> QED BY <2>1, <3>1, NoneAssumption
  <2>3. g.gid.lease # 0 /\ LeaseOf(nat, g, d)
    BY <1>4, <2>2 DEF GrantKnown
  <2>4. IsRetired(nat, g.origin)
    <3>1. nat.receipts[q].origin = g.origin
      BY <1>2, <1>3, <1>4, <2>1, <2>2, <2>3, FoldsOrigin
    <3> QED BY <1>4, <2>1, <3>1, CurrentRetires
  <2>5. h.origin = g.origin /\ h.cmd = g.cmd /\ h.gid = g.gid /\ h.unc = g.unc
    BY <1>3 DEF GrantType
  <2>6. mgr'.grants = [mgr.grants EXCEPT ![d] = h]
    BY <1>2, <1>6 DEF MgrType
  <2> HIDE DEF h
  <2>7. GrantKnown(nat, h, d, late, nreq)
    <3>1. LeaseOf(nat, h, d)
      BY <2>3, <2>5 DEF LeaseOf
    <3> QED BY <1>4, <2>3, <2>4, <2>5, <3>1 DEF GrantKnown
  <2>8. Known(nat, disk, [mgr.grants EXCEPT ![d] = h], late, nreq)
    BY <1>2, <1>4, <2>7, GrantWritten
  <2>9. Known(nat, disk, mgr.grants, late, nreq)'
    BY <1>1, <2>6, <2>8
  <2>10. call'.pc = "retire" /\ call'.dev = d /\ mgr'.grants[d] = h
    BY <1>2, <1>6, <2>6 DEF Goto, CallType
  <2>11. Aware'
    BY <1>1, <2>4, <2>5, <2>10 DEF Aware
  <2> QED BY <2>9, <2>10, <2>11, NothingInHand
<1> QED BY <1>5, <1>6 DEF Terminal

\* A grant goes once its origin is retired on disk: the player had retired it.
LEMMA RetireEntrusted ==
  ASSUME Structure, Entrusted, Retire
  PROVE  Entrusted'
<1> DEFINE d == call.dev
           g == mgr.grants[d]
           q == g.origin.req
           b == disk.out[q]
           x == [b EXCEPT !.retired = TRUE, !.how = "release"]
           k == Retired(disk, q, "release")
           m == [mgr EXCEPT !.grants[d] = None]
           e == [call EXCEPT !.pc = "release", !.todo = @ \ {d}]
           i == Goto("finish")
<1>1. call.pc = "retire" /\ UNCHANGED <<nat, late, nreq>>
  BY DEF Retire, At
<1>2. /\ call \in CallType /\ mgr \in MgrType /\ journal = disk /\ JournalType(disk) /\ d \in Devices /\ d \in Granted
      /\ q \in DOMAIN disk.out /\ b.origin = g.origin /\ b \in OutputType /\ q \in Request
  BY <1>1 DEF Structure, Typed, Disciplined, CallPlaced, GrantsPlaced, Placed, Granted, JournalType
<1>3. CASE call' = Goto("finish") /\ UNCHANGED <<mgr, disk>>
  <2>1. call'.pc \in Simple
    BY <1>2, <1>3 DEF Goto, CallType, Simple
  <2> QED BY <1>1, <1>3, <2>1, SimplyEntrusted
<1>4. CASE Save(Retired(journal, q, "release"), <<m, e>>, <<mgr, i>>)
  <2>1. /\ x \in OutputType /\ x.origin = b.origin /\ x.dev = b.dev /\ x.rec = b.rec /\ x.result = b.result
    BY <1>2 DEF OutputType
  <2>2. k = [disk EXCEPT !.out[q] = x]
    BY <1>2 DEF JournalType, Retired
  <2> HIDE DEF x, k
  <2>3. Holds(disk, k, q, x)
    BY <1>2, <2>1, <2>2, OutputHeld
  <2>4. Flights(nat, disk, late, nreq) /\ OutputKnown(nat, b, late, nreq)
    <3>1. late \in SUBSET Flying
      BY DEF Flying
    <3>2. Known(nat, disk, mgr.grants, late, nreq)
      BY <3>1, FewerKnown DEF Entrusted
    <3> QED BY <1>2, <3>2 DEF Known
  <2>5. Spent(nat, b.origin, late)
    <3>1. IsClosed(nat, b.origin)
      BY <1>1, <1>2 DEF Entrusted, Aware, IsClosed
    <3> QED BY <1>2, <2>4, <3>1, ClosedSpent
  <2>6. OutputKnown(nat, x, late, nreq)
    BY <2>1, <2>4, <2>5, RetiredOutput
  <2>7. i.pc \in Simple /\ e.pc \in Simple
    BY <1>2 DEF Goto, CallType, Simple
  <2>8. m.grants = [mgr.grants EXCEPT ![d] = None]
    BY <1>2 DEF MgrType
  <2> HIDE DEF i, e, m
  <2>9. Save(k, <<m, e>>, <<mgr, i>>)
    BY <1>2, <1>4 DEF k
  <2> QED BY <1>1, <1>2, <2>1, <2>3, <2>6, <2>7, <2>8, <2>9, WriteEntrusted
<1> QED BY <1>3, <1>4 DEF Retire

\* The command in hand is answered, and the answer is folded at once.
LEMMA AnsweredEntrusted ==
  ASSUME Structure, Entrusted, PutAnswered
  PROVE  Entrusted' /\ LedgerInv(nat') /\ call.cmd.req \in DOMAIN nat'.receipts
<1> DEFINE d == call.dev
           q == call.cmd.req
           r == nat'.receipts[q]
           seen == [outcome |-> r.outcome, cur |-> Current(nat', r), op |-> r.op]
           g == Submitted(mgr.grants[d])
           h == Folded(g, r, seen)
<1>1. /\ call.pc = "put" /\ UNCHANGED <<disk, late, nreq>>
      /\ Admits(nat, call.cmd) /\ nat' = Admitted(nat, call.cmd)
  BY DEF PutAnswered, At
<1>2. /\ LedgerInv(nat') /\ Deep(nat', {}) /\ Answered(nat, nat', call.cmd)
      /\ Known(nat', disk, mgr.grants, late, nreq)
  BY <1>1, HandDelivered
<1>3. q \in DOMAIN nat'.receipts
  BY <1>2 DEF Answered
<1>4. /\ call \in CallType /\ mgr \in MgrType /\ d \in Devices /\ mgr.grants[d] \in GrantType
      /\ mgr.grants[d] # None /\ call.cmd = mgr.grants[d].cmd
      /\ mgr.grants \in [Devices -> GrantType \cup {None}]
  <2>1. /\ call \in CallType /\ mgr \in MgrType /\ d \in Devices /\ mgr.grants[d] # None
        /\ call.cmd = mgr.grants[d].cmd
    BY <1>1 DEF Structure, Typed, CallPlaced, Granted
  <2> QED BY <2>1, MgrWith
<1>5. g \in GrantType /\ g.cmd.req = q
  BY <1>4, GrantWith
<1>6. GrantKnown(nat', g, d, late, nreq)
  BY <1>2, <1>4, SubmittedKnown DEF Known
<1>7. seen = Reads(nat', r)
  BY DEF Reads
<1> HIDE DEF g, seen
<1>8. CASE mgr' = [mgr EXCEPT !.grants[d] = g] /\ call' = Detecting(d, "finish")
  <2>1. mgr'.grants = [mgr.grants EXCEPT ![d] = g] /\ call'.pc = "detect"
    BY <1>4, <1>8 DEF MgrType, CallType, Detecting
  <2>2. Known(nat', disk, [mgr.grants EXCEPT ![d] = g], late, nreq)
    BY <1>2, <1>4, <1>6, GrantWritten
  <2>3. Known(nat, disk, mgr.grants, late, nreq)'
    BY <1>1, <2>1, <2>2
  <2>4. Entrusted'
    BY <2>1, <2>3, NothingInHand DEF Aware
  <2> QED BY <1>2, <1>3, <2>4
<1>9. CASE /\ Folds(g, r) /\ mgr' = [mgr EXCEPT !.grants[d] = h]
           /\ \/ call' = Detecting(d, "finish")
              \/ Accepted(h) /\ call' = [call EXCEPT !.pc = "retire", !.dev = d]
              \/ call' = Goto("finish")
              \/ call' = AfterTarget(h)
  <2>1. GrantKnown(nat', Folded(g, r, Reads(nat', r)), d, late, nreq)
    BY <1>2, <1>3, <1>4, <1>5, <1>6, <1>9, FoldKnown
  <2>2. GrantKnown(nat', h, d, late, nreq)
    BY <1>7, <2>1
  <2> HIDE DEF h, r
  <2>3. mgr'.grants = [mgr.grants EXCEPT ![d] = h] /\ mgr'.grants[d] = h
    BY <1>4, <1>9 DEF MgrType
  <2>4. Known(nat', disk, [mgr.grants EXCEPT ![d] = h], late, nreq)
    BY <1>2, <1>4, <2>2, GrantWritten
  <2>5. Known(nat, disk, mgr.grants, late, nreq)'
    BY <1>1, <2>3, <2>4
  <2>6. /\ Detecting(d, "finish").pc = "detect" /\ Goto("finish").pc = "finish"
        /\ [call EXCEPT !.pc = "retire", !.dev = d].pc = "retire"
        /\ [call EXCEPT !.pc = "retire", !.dev = d].dev = d
        /\ AfterTarget(h).pc \in {"finish", "release"}
    <3>1. Releasing.pc \in {"finish", "release"} /\ Goto("finish").pc = "finish"
      BY <1>4 DEF Releasing, Goto, CallType
    <3>2. AfterTarget(h) = Releasing \/ AfterTarget(h) = Goto("finish")
      BY DEF AfterTarget
    <3>3. /\ Detecting(d, "finish").pc = "detect" /\ [call EXCEPT !.pc = "retire", !.dev = d].pc = "retire"
          /\ [call EXCEPT !.pc = "retire", !.dev = d].dev = d
      BY <1>4 DEF CallType, Detecting
    <3> QED BY <3>1, <3>2, <3>3
  <2>7. call'.pc \in {"detect", "finish", "release"} \/ (call'.pc = "retire" /\ call'.dev = d /\ Accepted(h))
    BY <1>9, <2>6
  <2>8. call'.pc = "retire" => IsRetired(nat', mgr'.grants[call'.dev].origin)
    BY <2>2, <2>3, <2>7 DEF GrantKnown
  <2>9. Aware'
    BY <2>7, <2>8 DEF Aware
  <2>10. Entrusted'
    BY <2>5, <2>7, <2>9, NothingInHand
  <2> QED BY <1>2, <1>3, <2>10
<1>10. \/ mgr' = [mgr EXCEPT !.grants[d] = g] /\ call' = Detecting(d, "finish")
       \/ /\ Folds(g, r) /\ mgr' = [mgr EXCEPT !.grants[d] = h]
          /\ \/ call' = Detecting(d, "finish")
             \/ Accepted(h) /\ call' = [call EXCEPT !.pc = "retire", !.dev = d]
             \/ call' = Goto("finish")
             \/ call' = AfterTarget(h)
  BY DEF PutAnswered, g, seen
<1> QED BY <1>8, <1>9, <1>10

\* The command in hand is refused, or it or its answer is lost.
LEMMA FailsEntrusted ==
  ASSUME Structure, Entrusted, PutFails
  PROVE  Entrusted' /\ LedgerInv(nat')
<1> DEFINE d == call.dev
           c == call.cmd
           g == Submitted(mgr.grants[d])
<1>1. /\ call.pc = "put" /\ UNCHANGED <<disk, nreq>>
      /\ mgr' = [mgr EXCEPT !.grants[d] = g] /\ call' = Detecting(d, "finish")
      /\ \/ UNCHANGED <<nat, late>>
         \/ Admits(nat, c) /\ nat' = Admitted(nat, c) /\ UNCHANGED late
         \/ late' = late \cup {c} /\ UNCHANGED nat
  BY DEF PutFails, At
<1>2. /\ Flying = late \cup {c} /\ Known(nat, disk, mgr.grants, late, nreq)
      /\ Admits(nat, c) =>
           LET m == Admitted(nat, c)
           IN /\ LedgerInv(m) /\ Deep(m, {}) /\ Answered(nat, m, c)
              /\ Known(m, disk, mgr.grants, late, nreq)
  BY <1>1, HandDelivered
<1>3. /\ call \in CallType /\ mgr \in MgrType /\ d \in Devices /\ mgr.grants[d] \in GrantType
      /\ mgr.grants[d] # None /\ mgr.grants \in [Devices -> GrantType \cup {None}]
  <2>1. call \in CallType /\ mgr \in MgrType /\ d \in Devices /\ mgr.grants[d] # None
    BY <1>1 DEF Structure, Typed, CallPlaced, Granted
  <2> QED BY <2>1, MgrWith
<1>4. Known(nat', disk, mgr.grants, late', nreq)
  <2>1. CASE UNCHANGED <<nat, late>>
    BY <1>2, <2>1
  <2>2. CASE Admits(nat, c) /\ nat' = Admitted(nat, c) /\ UNCHANGED late
    BY <1>2, <2>2
  <2>3. CASE late' = late \cup {c} /\ UNCHANGED nat
    BY <1>2, <2>3 DEF Entrusted
  <2> QED BY <1>1, <2>1, <2>2, <2>3
<1>5. LedgerInv(nat') /\ GrantKnown(nat', mgr.grants[d], d, late', nreq)
  BY <1>3, <1>4 DEF Known, Flights
<1>6. GrantKnown(nat', g, d, late', nreq)
  BY <1>3, <1>5, SubmittedKnown
<1> HIDE DEF g
<1>7. mgr'.grants = [mgr.grants EXCEPT ![d] = g] /\ call'.pc = "detect"
  BY <1>1, <1>3 DEF MgrType, CallType, Detecting
<1>8. Known(nat', disk, [mgr.grants EXCEPT ![d] = g], late', nreq)
  BY <1>3, <1>4, <1>6, GrantWritten
<1>9. Known(nat, disk, mgr.grants, late, nreq)'
  BY <1>1, <1>7, <1>8
<1>10. Entrusted'
  BY <1>7, <1>9, NothingInHand DEF Aware
<1> QED BY <1>5, <1>10

-----------------------------------------------------------------------------
(* The inductive invariant *)

Guarded == Structure /\ Entrusted

LEMMA GuardedLedger ==
  ASSUME Structure, Entrusted
  PROVE  LedgerInv(nat) /\ Minted
<1>1. Flights(nat, disk, Flying, nreq) 
  BY DEF Entrusted, Known
<1>2. LedgerInv(nat) /\ DOMAIN disk.out \subseteq Minting(nreq)
  BY <1>1 DEF Flights
<1> QED BY <1>2 DEF Minted, Minting

LEMMA ApiGuarded ==
  ASSUME Structure, Entrusted, Api
  PROVE  Structure' /\ Entrusted'
<1>1. CASE EngageBegin
  BY <1>1, EngageStructure, EngageEntrusted
<1>2. CASE ApiQuiet
  BY <1>2, ApiStructure, ApiEntrusted
<1> QED BY <1>1, <1>2 DEF Api, ApiQuiet

LEMMA ReconcileGuarded ==
  ASSUME Structure, Entrusted, Reconcile
  PROVE  Structure' /\ Entrusted'
<1>1. LedgerInv(nat) /\ Minted
  BY GuardedLedger
<1>2. CASE \E mode \in Modes : Enter(mode)
  BY <1>2, EnterStructure, StepsEntrusted
<1>3. CASE Poll
  BY <1>1, <1>3, PollStructure, PolledEntrusted
<1>4. CASE Detect
  BY <1>4, DetectStructure, StepsEntrusted
<1>5. CASE BeginObserves \/ UpdateObserves
  BY <1>1, <1>5, LooksStructure, ObservedEntrusted
<1>6. CASE ReserveRefused
  BY <1>1, <1>6, LooksStructure, StepsEntrusted
<1>7. CASE ReserveBegin
  BY <1>1, <1>7, ReserveBeginStructure, BeginEntrusted
<1>8. CASE Recheck
  BY <1>8, RecheckStructure, RecheckEntrusted
<1>9. CASE ReserveUpdate
  BY <1>1, <1>9, ReserveUpdateStructure, UpdateEntrusted
<1>10. CASE PollDone
  BY <1>10, PollDoneStructure, StepsEntrusted
<1>11. CASE PutAnswered
  BY <1>11, PutAnsweredStructure, AnsweredEntrusted
<1>12. CASE PutFails
  BY <1>12, PutFailsStructure, FailsEntrusted
<1>13. CASE ReleaseStopped \/ ReleaseLoopEnds
  BY <1>1, <1>13, ReleaseStructure, StepsEntrusted
<1>14. CASE ReleaseScans
  BY <1>1, <1>14, ReleaseStructure, ScansEntrusted
<1>15. CASE Terminal
  BY <1>1, <1>15, TerminalStructure, TerminalEntrusted
<1>16. CASE Retire
  BY <1>16, RetireStructure, RetireEntrusted
<1>17. CASE Finish
  BY <1>17, FinishStructure, SessionsEntrusted
<1> QED BY <1>2, <1>3, <1>4, <1>5, <1>6, <1>7, <1>8, <1>9, <1>10, <1>11, <1>12, <1>13, <1>14, <1>15, <1>16, <1>17
        DEF Reconcile

LEMMA CustodyGuarded ==
  ASSUME Structure, Entrusted, CustodyReconcile
  PROVE  Structure' /\ Entrusted'
<1>1. LedgerInv(nat)
  BY GuardedLedger
<1>2. CASE CustodyEnter
  BY <1>2, CustodyEnterStructure, StepsEntrusted
<1>3. CASE CustodyAttempts
  BY <1>1, <1>3, AttemptsStructure, AttemptsEntrusted
<1>4. CASE CustodyWaits \/ CustodyReexamines
  BY <1>1, <1>4, LooksInCustody, StepsEntrusted
<1>5. CASE RecoverAnswered \/ RecoverLost
  BY <1>5, RecoverStructure, RecoverEntrusted
<1>6. CASE RecoverRejected
  BY <1>6, RejectedStructure, CustodyWritesEntrusted
<1>7. CASE CustodyPolls
  BY <1>1, <1>7, LooksInCustody, PollsEntrusted
<1>8. CASE CustodyStores
  BY <1>8, StoresStructure, CustodyWritesEntrusted
<1>9. CASE CustodyProves
  BY <1>9, ProvesStructure, CustodyWritesEntrusted
<1>10. CASE CustodyRetiresSession
  BY <1>10, RetiresSessionStructure, SessionsEntrusted
<1>11. CASE CustodyDone
  BY <1>11, DoneStructure, SessionsEntrusted
<1> QED BY <1>2, <1>3, <1>4, <1>5, <1>6, <1>7, <1>8, <1>9, <1>10, <1>11 DEF CustodyReconcile

LEMMA GuardedSteps ==
  ASSUME Guarded, [Next]_vars
  PROVE  Guarded'
<1>1. Structure /\ Entrusted
  BY DEF Guarded
<1>2. CASE Native
  <2>1. UNCHANGED <<mgr, journal, disk, call, nreq, faults>> /\ late' \subseteq late
    BY <1>2 DEF Native, avars
  <2> QED BY <1>1, <1>2, <2>1, OutsideStructure, NativeEntrusted DEF Guarded
<1>3. CASE Api
  BY <1>1, <1>3, ApiGuarded DEF Guarded
<1>4. CASE Reconcile
  BY <1>1, <1>4, ReconcileGuarded DEF Guarded
<1>5. CASE CustodyReconcile
  BY <1>1, <1>5, CustodyGuarded DEF Guarded
<1>6. CASE LateDelivery
  <2>1. UNCHANGED <<mgr, journal, disk, call, nreq, faults>> /\ late' \subseteq late
    BY <1>6 DEF LateDelivery
  <2> QED BY <1>1, <1>6, <2>1, OutsideStructure, LateEntrusted DEF Guarded
<1>7. CASE Crash
  BY <1>1, <1>7, CrashStructure, CrashEntrusted DEF Guarded
<1>8. CASE UNCHANGED vars
  <2>1. UNCHANGED <<nat, mgr, journal, disk, call, late, nreq, faults>>
    BY <1>8 DEF vars, avars
  <2>2. Structure'
    BY <1>1, <2>1, OutsideStructure
  <2>3. Entrusted'
    BY <1>1, <2>1, QuietEntrusted
  <2> QED BY <2>2, <2>3 DEF Guarded
<1> QED BY <1>2, <1>3, <1>4, <1>5, <1>6, <1>7, <1>8 DEF Next

LEMMA GuardedStarts == Init => Guarded
<1> SUFFICES ASSUME Init PROVE Guarded
  OBVIOUS
<1>1. Structure
  BY StructureStarts
<1>2. LedgerInv(nat) /\ Deep(nat, {}) /\ nat.origins = NoEntries /\ nat.receipts = NoEntries
  BY StartInv, DeepStart DEF Init, NInit, NInv, NativeStart
<1>3. /\ mgr.grants = NoGrants /\ disk = EmptyJournal /\ late = {} /\ nreq = 0 /\ call.pc = "idle"
  BY DEF Init, NewManager, Idling
<1>4. Flights(nat, disk, {}, 0)
  BY <1>2, <1>3 DEF Flights, EmptyJournal, NoEntries
<1>5. Known(nat, disk, mgr.grants, {}, 0)
  BY <1>3, <1>4 DEF Known, EmptyJournal, NoEntries, NoGrants
<1>6. Flying = {} /\ InHand = {}
  BY <1>3 DEF Flying, InHand
<1>7. Entrusted
  BY <1>3, <1>5, <1>6 DEF Entrusted, Aware
<1> QED BY <1>1, <1>7 DEF Guarded

\* The flags, the journal, the grants, the registers of the bridge and the commands in flight agree
\* with each other and with the player's database after every step of either process, of the network
\* and of the disk, also across crashes.
THEOREM CustodyInvariant == Spec => []Guarded
<1>1. Guarded /\ [Next]_vars => Guarded'
  BY GuardedSteps
<1> QED BY <1>1, GuardedStarts, PTL DEF Spec

-----------------------------------------------------------------------------
(* What the runs check *)

\* Every variable stays in its type, and the flags say where the bridge is.
THEOREM TypesAlways == Spec => []TypeOK
<1>1. Guarded => TypeOK
  <2> SUFFICES ASSUME Structure PROVE TypeOK
    BY DEF Guarded
  <2>1. /\ mgr \in MgrType /\ MaxDirect \in Nat /\ mgr.direct \in Nat /\ mgr.direct <= MaxDirect
        /\ nreq \in 0 .. MaxRequests + MaxAttempts /\ faults \in 0 .. MaxFaults
        /\ mgr.busy = (call.pc # "idle") /\ (mgr.settling => call.mode = "settle")
    BY MgrWith, AttentionAssumption DEF Structure, Typed, Disciplined
  <2>2. PICK n \in 0 .. MaxSessions : DOMAIN journal.sess = 1 .. n
    BY DEF Structure, Sessions, Counts
  <2>3. n = Cardinality(DOMAIN journal.sess)
    <3>1. Cardinality(1 .. n) = IF 1 > n THEN 0 ELSE n - 1 + 1
      BY FS_Interval
    <3> QED BY <2>2, <3>1
  <2>4. mgr.nonce \in 0 .. MaxSessions
    <3>1. mgr.nonce \in Nat /\ MaxSessions \in Nat
      BY <2>1, MgrWith, AttentionAssumption
    <3>2. mgr.nonce # 0 => mgr.nonce \in 1 .. n
      BY <2>2 DEF Structure, Sessions
    <3> QED BY <3>1, <3>2
  <2>5. \A d \in Devices : mgr.grants[d] # None => mgr.grants[d].origin.req \in DOMAIN journal.out
    BY DEF Structure, GrantsPlaced, Placed, Granted
  <2> QED BY <2>1, <2>2, <2>3, <2>4, <2>5 DEF TypeOK
<1> QED BY <1>1, CustodyInvariant, PTL

\* A new conversation is admitted only when the earlier one is retired on disk, also where a request
\* without a session is delayed.
THEOREM OneOpenSessionAlways == Spec => []OneOpenSession
<1>1. Guarded => OneOpenSession
  <2> SUFFICES ASSUME Structure PROVE OneOpenSession
    BY DEF Guarded
  <2> DEFINE S == OpenSessions(disk)
  <2>1. \A s, t \in S : s = t
    BY DEF Structure, Sessions
  <2> HIDE DEF S
  <2>2. CASE S = {}
    <3>1. Cardinality(S) = 0
      BY <2>2, FS_EmptySet
    <3> QED BY <3>1 DEF OneOpenSession, S
  <2>3. CASE S # {}
    <3>1. PICK s : S = {s}
      BY <2>1, <2>3
    <3>2. Cardinality(S) = 1
      BY <3>1, FS_Singleton
    <3> QED BY <3>2 DEF OneOpenSession, S
  <2> QED BY <2>2, <2>3
<1> QED BY <1>1, CustodyInvariant, PTL

\* An unrestored lease, or a BEGIN that could still create one, has an open output on disk, whatever
\* the bridge, the disk, the network and either process do.
THEOREM CustodyCoversAlways == Spec => []CustodyCovers
<1>1. Guarded => CustodyCovers
  <2> SUFFICES ASSUME Entrusted PROVE CustodyCovers
    BY DEF Guarded
  <2>1. /\ Flights(nat, disk, Flying, nreq)
        /\ \A q \in DOMAIN disk.out : disk.out[q].retired => Spent(nat, disk.out[q].origin, Flying)
    BY DEF Entrusted, Known, OutputKnown
  <2>2. ASSUME NEW d \in Devices, NEW o \in OpenOrigins(nat, d) PROVE o.req \in OpenOutputs(disk)
    <3>1. o \in DOMAIN nat.origins /\ ~nat.origins[o].retired
      BY DEF OpenOrigins
    <3>2. o.req \in DOMAIN disk.out /\ disk.out[o.req].origin = o
      BY <2>1, <3>1 DEF Flights
    <3> QED BY <2>1, <3>1, <3>2 DEF Spent, OpenOutputs
  <2>3. ASSUME NEW c \in Deliverable PROVE c.req \in OpenOutputs(disk)
    <3>1. c \in Flying /\ c.action = "begin" /\ c.exp.proc = nat.proc
      BY DEF Deliverable, At, Flying, InHand
    <3>2. /\ c.req \in DOMAIN disk.out
          /\ disk.out[c.req].origin.req = c.req
      BY <2>1, <3>1 DEF Flights, CommandKnown
    <3> QED BY <2>1, <3>1, <3>2 DEF Spent, OpenOutputs
  <2> QED BY <2>2, <2>3 DEF CustodyCovers
<1> QED BY <1>1, CustodyInvariant, PTL

\* Where every client names its session, a retired session has only retired outputs.
LEMMA SessionsOwn ==
  ASSUME MaxLegacy = 0, Structure, NEW q \in DOMAIN disk.out
  PROVE  disk.out[q].sid \in DOMAIN disk.sess /\ (disk.sess[disk.out[q].sid].retired => disk.out[q].retired)
BY DEF Structure, Sound, OutputSound

\* Where every client names its session, a crash at any point, a failed save included, leaves a journal
\* that the next manager accepts.
THEOREM JournalLoadsAlways ==
  ASSUME MaxLegacy = 0
  PROVE  Spec => []JournalLoads
<1>1. Guarded => JournalLoads
  <2> SUFFICES ASSUME Structure PROVE JournalLoads
    BY DEF Guarded
  <2>1. \A q \in DOMAIN disk.out : OutputSound(disk, q)
    BY DEF Structure, Sound
  <2> QED BY <2>1 DEF JournalLoads, Loads, OutputSound
<1> QED BY <1>1, CustodyInvariant, PTL

\* Where every client names its session, a client that is told "released" can rely on it: no lease of a
\* retired session is unrestored, and no BEGIN of one can still take effect.
THEOREM ReleasedMeansRestoredAlways ==
  ASSUME MaxLegacy = 0
  PROVE  Spec => []ReleasedMeansRestored
<1>1. Guarded => ReleasedMeansRestored
  <2> SUFFICES ASSUME Structure, Entrusted, ~mgr.fault,
                      NEW s \in DOMAIN journal.sess, journal.sess[s].retired
               PROVE  /\ \A q \in OutputsOf(journal, s) :
                           journal.out[q].origin \notin UNION {OpenOrigins(nat, d) : d \in Devices}
                      /\ \A c \in Deliverable : c.req \notin OutputsOf(journal, s)
    BY DEF Guarded, ReleasedMeansRestored
  <2>1. journal = disk
    BY DEF Structure, Disciplined
  <2>2. ASSUME NEW q \in OutputsOf(journal, s)
        PROVE  /\ q \in DOMAIN disk.out /\ disk.out[q].origin.req = q
               /\ Spent(nat, disk.out[q].origin, Flying)
    <3>1. q \in DOMAIN disk.out /\ disk.out[q].sid = s
      BY <2>1 DEF OutputsOf
    <3>2. disk.out[q].retired
      BY <2>1, <3>1, SessionsOwn
    <3> QED BY <3>1, <3>2 DEF Entrusted, Known, OutputKnown, Flights
  <2>3. ASSUME NEW q \in OutputsOf(journal, s), NEW d \in Devices
        PROVE  journal.out[q].origin \notin OpenOrigins(nat, d)
    BY <2>1, <2>2 DEF Spent, OpenOrigins
  <2>4. ASSUME NEW c \in Deliverable, c.req \in OutputsOf(journal, s) PROVE FALSE
    <3>1. c \in Flying /\ c.action = "begin" /\ c.exp.proc = nat.proc
      BY DEF Deliverable, At, Flying, InHand
    <3> QED BY <2>2, <2>4, <3>1 DEF Spent
  <2> QED BY <2>3, <2>4
<1> QED BY <1>1, CustodyInvariant, PTL

\* Where every client names its session, recovery and settlement never overlap a direct effect, and a
\* room under deletion owes the player nothing.
THEOREM DirectEffectsAloneAlways ==
  ASSUME MaxLegacy = 0
  PROVE  Spec => []DirectEffectsAlone
<1>1. Guarded => DirectEffectsAlone
  <2> SUFFICES ASSUME Structure, Entrusted PROVE DirectEffectsAlone
    BY DEF Guarded
  <2>1. mgr.direct > 0 => ~mgr.settling /\ call.pc \notin {"scan", "recover", "store", "prove"}
    BY DEF Structure, Disciplined, Custodial
  <2>2. ASSUME mgr.deleting, NEW d \in Devices PROVE OpenOrigins(nat, d) = {}
    <3>1. OpenSessions(disk) = {}
      BY <2>2 DEF Structure, Disciplined
    <3> SUFFICES ASSUME NEW o \in OpenOrigins(nat, d) PROVE FALSE
      OBVIOUS
    <3>2. o \in DOMAIN nat.origins /\ ~nat.origins[o].retired
      BY DEF OpenOrigins
    <3>3. o.req \in DOMAIN disk.out /\ disk.out[o.req].origin = o
      BY <3>2 DEF Entrusted, Known, Flights
    <3>4. disk.out[o.req].retired
      BY <3>1, <3>3, SessionsOwn DEF OpenSessions
    <3> QED BY <3>2, <3>3, <3>4 DEF Entrusted, Known, OutputKnown, Spent
  <2>3. mgr.deleting => OpenSessions(disk) = {}
    BY DEF Structure, Disciplined
  <2> QED BY <2>1, <2>2, <2>3 DEF DirectEffectsAlone
<1> QED BY <1>1, CustodyInvariant, PTL
=============================================================================
