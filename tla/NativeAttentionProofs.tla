----------------------- MODULE NativeAttentionProofs -----------------------
(* Machine-checked proofs about the attention ledger of NativeAttention, for  *)
(* every set of devices and every bound: at most one unrestored origin per    *)
(* device, final outcomes, restoration of the latest base volume, and what an *)
(* answer proves of its origin.  The lemmas speak of the ledger's functions,  *)
(* so they hold for whoever posts.                                            *)
EXTENDS NativeAttention, FiniteSetTheorems, TLAPS

-----------------------------------------------------------------------------
(* Types *)

Working == {"recovery", "handoff"}
DeviceType ==
  [inc : Nat, sess : Nat, base : Nat, attn : Nat, route : Nat, lease : Nat, rest : BOOLEAN,
   expired : BOOLEAN, attempted : BOOLEAN, session : {"none", "starting", "connected"} \cup Working,
   rop : Request \cup {None}, origin : Origin \cup {None}, lastRelease : Nat,
   drained : [op : Nat, req : Request] \cup {None}]
ReceiptType ==
  [op : Nat, action : ActionType, origin : Origin, exp : Identities, id : Identities,
   outcome : OutcomeType, recovery : RecoveryType]
OriginType == [dev : Devices, retired : BOOLEAN]

LedgerType(n) ==
  /\ n = [proc |-> n.proc, opn |-> n.opn, dev |-> n.dev, receipts |-> n.receipts, origins |-> n.origins]
  /\ n.proc \in Nat /\ n.opn \in Nat /\ n.dev \in [Devices -> DeviceType]
  /\ DOMAIN n.receipts \subseteq Request /\ n.receipts \in [DOMAIN n.receipts -> ReceiptType]
  /\ DOMAIN n.origins \subseteq Origin /\ n.origins \in [DOMAIN n.origins -> OriginType]

-----------------------------------------------------------------------------
(* The inductive invariant *)

\* At most one origin of a device is open, and it is the one of a lease in force.
OriginKnown(n, d) ==
  /\ \A o, p \in OpenOrigins(n, d) : o = p
  /\ n.dev[d].lease # 0 => OpenOrigins(n, d) = {n.dev[d].origin}

\* A session names a known operation; a recovery or handoff one, a pending one of its incarnation.
SessionKnown(n, d) ==
  LET v == n.dev[d]
  IN /\ v.rop \in DOMAIN n.receipts \cup {None}
     /\ v.session \in Working => v.rop \in Live(n, d) /\ n.receipts[v.rop].id.inc = v.inc

\* What completion relies on: a pending release or recover is about an origin of its device, and
\* a recover was admitted without a lease.
ReceiptKnown(n, r) ==
  /\ r.action # "recover" => r.recovery = "none"
  /\ r.outcome = "pending" /\ r.action = "recover" => r.recovery = "pending" /\ r.id.lease = 0
  /\ r.outcome = "pending" /\ r.action \in {"release", "recover"} =>
        r.origin \in DOMAIN n.origins /\ n.origins[r.origin].dev = r.id.dev

\* Numbered requests are of a past process, or have a past number of this one.
Numbered(n) ==
  \A q \in DOMAIN n.receipts :
     q \in Numbering \X Nat \X Nat => q[2] < n.proc \/ (q[2] = n.proc /\ q[3] <= n.opn)

\* The database keeps the receipt of every BEGIN it keeps the origin of.
Received(n) == \A o \in DOMAIN n.origins : o.req \in DOMAIN n.receipts

LedgerInv(n) ==
  /\ LedgerType(n) /\ Numbered(n) /\ Received(n)
  /\ \A d \in Devices : OriginKnown(n, d) /\ SessionKnown(n, d)
  /\ \A q \in DOMAIN n.receipts : ReceiptKnown(n, n.receipts[q])

NInv == LedgerInv(nat)

\* What a step may do to the ledger besides: terminal receipts stay as they are, and an origin is
\* retired only by the accepted receipt of a command that carried the latest base volume.
Keeps(n, m) ==
  \A q \in DOMAIN n.receipts :
     /\ q \in DOMAIN m.receipts
     /\ n.receipts[q].outcome # "pending" => m.receipts[q] = n.receipts[q]
Restores(n, m) ==
  \A o \in DOMAIN n.origins : m.origins[o].retired /\ ~n.origins[o].retired =>
    \E q \in DOMAIN n.receipts :
       /\ m.receipts[q].origin = o /\ m.receipts[q].outcome = "accepted"
       /\ m.receipts[q].id.base = n.dev[n.origins[o].dev].base
       /\ m.receipts[q].id.proc = n.proc
       /\ m.receipts[q].id.inc = n.dev[n.origins[o].dev].inc
Good(n, m) == LedgerInv(m) /\ Keeps(n, m) /\ Restores(n, m) /\ m.proc = n.proc

\* A step that only adds a receipt or changes devices is good if the invariant holds after it.
Extends(n, m) ==
  /\ m.proc = n.proc /\ m.origins = n.origins
  /\ \A q \in DOMAIN n.receipts : q \in DOMAIN m.receipts /\ m.receipts[q] = n.receipts[q]

LEMMA ExtendsGood ==
  ASSUME NEW n, NEW m, LedgerInv(m), Extends(n, m)
  PROVE  Good(n, m)
BY DEF Good, Keeps, Restores, Extends

\* Before and after a good step there may be such a one.
LEMMA GoodExtends ==
  ASSUME NEW n, NEW k, NEW m, Good(n, k), Extends(k, m), LedgerInv(m)
  PROVE  Good(n, m)
BY DEF Good, Keeps, Restores, Extends

LEMMA ExtendsThenGood ==
  ASSUME NEW n, NEW k, NEW m, LedgerType(n), Extends(n, k), Good(k, m),
         k.receipts = n.receipts,
         \A d \in Devices : k.dev[d].base = n.dev[d].base /\ k.dev[d].inc = n.dev[d].inc
  PROVE  Good(n, m)
<1>1. \A o \in DOMAIN n.origins : n.origins[o].dev \in Devices
  BY DEF LedgerType, OriginType
<1>2. Restores(n, m)
  BY <1>1 DEF Good, Restores, Extends
<1> QED BY <1>2 DEF Good, Keeps, Extends

-----------------------------------------------------------------------------
(* A device changes *)

\* Nothing but the device d of n becomes v, origins aside; nothing but that.
Prepares(n, m, d, v) ==
  /\ LedgerType(m)
  /\ m.proc = n.proc /\ m.opn = n.opn /\ m.receipts = n.receipts
  /\ m.dev = [n.dev EXCEPT ![d] = v]
Becomes(n, m, d, v) == Prepares(n, m, d, v) /\ m.origins = n.origins

LEMMA DeviceTyped ==
  ASSUME NEW n, LedgerType(n), NEW d \in Devices
  PROVE  /\ n.dev[d] \in DeviceType /\ Id(n, d) \in Identities
         /\ \A v \in DeviceType : Becomes(n, [n EXCEPT !.dev[d] = v], d, v)
<1>1. n.dev[d] \in DeviceType
  BY DEF LedgerType
<1>2. Id(n, d) \in Identities
  BY <1>1 DEF LedgerType, DeviceType, Id, Identities
<1>3. ASSUME NEW v \in DeviceType
      PROVE  Becomes(n, [n EXCEPT !.dev[d] = v], d, v)
  BY DEF Becomes, Prepares, LedgerType
<1> QED BY <1>1, <1>2, <1>3

\* A device whose lease stays or ends, and whose session still names a known operation.
LEMMA DeviceGood ==
  ASSUME NEW n, NEW m, LedgerInv(n), NEW d \in Devices, NEW v \in DeviceType, Becomes(n, m, d, v),
         v.lease # 0 => v.lease = n.dev[d].lease /\ v.origin = n.dev[d].origin,
         v.rop \in DOMAIN n.receipts \cup {None},
         v.session \in Working => v.rop \in Live(n, d) /\ n.receipts[v.rop].id.inc = v.inc
  PROVE  LedgerInv(m) /\ Extends(n, m)
<1>1. /\ m.proc = n.proc /\ m.opn = n.opn /\ m.receipts = n.receipts /\ m.origins = n.origins
      /\ LedgerType(n) /\ LedgerType(m)
      /\ m.dev[d] = v /\ \A e \in Devices \ {d} : m.dev[e] = n.dev[e]
  BY DEF Becomes, Prepares, LedgerInv, LedgerType
<1>2. ASSUME NEW e \in Devices PROVE OriginKnown(m, e) /\ SessionKnown(m, e)
  <2>1. OpenOrigins(m, e) = OpenOrigins(n, e) /\ Live(m, e) = Live(n, e)
    BY <1>1 DEF OpenOrigins, Live
  <2>2. OriginKnown(n, e) /\ SessionKnown(n, e)
    BY DEF LedgerInv
  <2> QED BY <1>1, <2>1, <2>2 DEF OriginKnown, SessionKnown
<1>3. Numbered(m) /\ Received(m) /\ \A q \in DOMAIN m.receipts : ReceiptKnown(m, m.receipts[q])
  BY <1>1 DEF LedgerInv, Numbered, Received, ReceiptKnown
<1> QED BY <1>1, <1>2, <1>3 DEF LedgerInv, Extends

-----------------------------------------------------------------------------
(* A command is admitted *)

Fresh(n, q) ==
  /\ q \in Request \ DOMAIN n.receipts
  /\ q \in Numbering \X Nat \X Nat => q[2] = n.proc /\ q[3] = n.opn + 1

\* n becomes m when d becomes v and the receipt r of the request q is kept.
Posts(n, m, d, v, q, r) ==
  /\ LedgerType(m)
  /\ m.proc = n.proc /\ m.opn = n.opn + 1
  /\ m.receipts = Put(n.receipts, q, r)
  /\ m.dev = [n.dev EXCEPT ![d] = v]

\* What the command c does to the ledger before it is applied.
PostedBy(n, m, d, c) ==
  LET v == n.dev[d]
      u == m.dev[d]
      r == m.receipts[c.req]
      o == [proc |-> n.proc, req |-> c.req]
  IN /\ Posts(n, m, d, u, c.req, r)
     /\ r.action = c.action /\ r.id = Id(m, d) /\ r.outcome \in {"pending", "no_effect"}
     /\ c.action # "recover" => r.outcome = "pending"
     /\ u.inc = v.inc /\ u.base = v.base /\ u.route = v.route /\ u.attn = v.attn + 1
     /\ u.sess >= v.sess /\ (u.sess = v.sess /\ u.session = "none" => v.session = "none")
     /\ c.action = "begin" =>
          /\ u.lease = n.opn + 1 /\ u.origin = o /\ r.origin = o
          /\ m.origins = Put(n.origins, o, [dev |-> d, retired |-> FALSE])
     /\ c.action # "begin" => u.lease = v.lease /\ u.origin = v.origin /\ m.origins = n.origins
     /\ c.action \in {"update", "release"} => v.lease # 0 /\ r.origin = v.origin
     /\ c.action = "recover" =>
          v.lease = 0 /\ r.origin = c.origin /\ r.recovery = OriginState(n, c.origin)

LEMMA RecordedPosts ==
  ASSUME NEW n, NEW k, NEW d \in Devices, NEW v, NEW c, NEW origin \in Origin, NEW recovery,
         Prepares(n, k, d, v), c.req \in Request, c.action \in ActionType,
         c.exp \in Identities, recovery \in {"none", "pending", "never_admitted", "already_retired"}
  PROVE  LET m == Recorded(k, d, c, origin, recovery)
             r == m.receipts[c.req]
         IN /\ Posts(n, m, d, v, c.req, r) /\ m.origins = k.origins
            /\ r.action = c.action /\ r.origin = origin /\ r.id = Id(m, d)
            /\ r.outcome = "pending" /\ r.recovery = recovery
<1> DEFINE m1 == [k EXCEPT !.opn = @ + 1]
           r == Receipt(m1, d, c, origin, recovery)
           m == Recorded(k, d, c, origin, recovery)
<1>1. /\ m1.proc = k.proc /\ m1.opn = k.opn + 1 /\ m1.dev = k.dev /\ m1.receipts = k.receipts
      /\ m1.origins = k.origins /\ LedgerType(m1)
      /\ k.proc = n.proc /\ k.opn = n.opn /\ k.receipts = n.receipts /\ k.dev = [n.dev EXCEPT ![d] = v]
  BY DEF LedgerType, Prepares
<1>2. Id(m1, d) \in Identities
  BY <1>1, DeviceTyped
<1>3. r \in ReceiptType
  BY <1>1, <1>2 DEF Receipt, ReceiptType, LedgerType, OutcomeType, RecoveryType
<1>4. r.action = c.action /\ r.origin = origin /\ r.id = Id(m1, d) /\ r.outcome = "pending"
      /\ r.recovery = recovery
  BY DEF Receipt
<1> HIDE DEF r
<1>5. /\ m = [m1 EXCEPT !.receipts = Put(m1.receipts, c.req, r)]
  BY <1>1 DEF Recorded, r
<1>6. /\ m.proc = m1.proc /\ m.opn = m1.opn /\ m.dev = m1.dev /\ m.origins = m1.origins
      /\ m.receipts = Put(m1.receipts, c.req, r)
      /\ m = [proc |-> m.proc, opn |-> m.opn, dev |-> m.dev, receipts |-> m.receipts,
              origins |-> m.origins]
  BY <1>1, <1>5 DEF LedgerType
<1>7. /\ DOMAIN Put(m1.receipts, c.req, r) \subseteq Request
      /\ Put(m1.receipts, c.req, r) \in [DOMAIN Put(m1.receipts, c.req, r) -> ReceiptType]
      /\ Put(m1.receipts, c.req, r)[c.req] = r
  BY <1>1, <1>3 DEF LedgerType, Put
<1>8. LedgerType(m)
  BY <1>1, <1>6, <1>7 DEF LedgerType
<1>9. Id(m, d) = Id(m1, d)
  BY <1>6 DEF Id
<1> QED BY <1>1, <1>4, <1>6, <1>7, <1>8, <1>9 DEF Posts

LEMMA PostGood ==
  ASSUME NEW n, NEW m, LedgerInv(n), NEW d \in Devices, NEW v \in DeviceType, NEW q, NEW r,
         Fresh(n, q), Posts(n, m, d, v, q, r), r.id = Id(m, d), ReceiptKnown(m, r),
         OriginKnown(m, d),
         \/ m.origins = n.origins
         \/ \E o : o.req = q /\ m.origins = Put(n.origins, o, [dev |-> d, retired |-> FALSE]),
         v.rop \in DOMAIN n.receipts \cup {None, q},
         v.session \in Working => \/ v.rop = q /\ r.outcome = "pending"
                                  \/ v.rop \in Live(n, d) /\ n.receipts[v.rop].id.inc = v.inc
  PROVE  Good(n, m) /\ (m.origins = n.origins => Extends(n, m))
<1>1. /\ m.proc = n.proc /\ m.opn = n.opn + 1 /\ n.opn \in Nat /\ n.proc \in Nat
      /\ LedgerType(n) /\ LedgerType(m)
      /\ m.dev[d] = v /\ \A e \in Devices \ {d} : m.dev[e] = n.dev[e]
  BY DEF Posts, LedgerInv, LedgerType
<1>2. /\ DOMAIN m.receipts = DOMAIN n.receipts \cup {q} /\ m.receipts[q] = r
      /\ q \notin DOMAIN n.receipts /\ \A p \in DOMAIN n.receipts : m.receipts[p] = n.receipts[p]
  BY DEF Posts, Put, Fresh
<1>3. r.id.proc = n.proc /\ r.id.dev = d /\ r.id.inc = v.inc
  BY <1>1 DEF Id
<1>4. /\ DOMAIN n.origins \subseteq DOMAIN m.origins
      /\ \A o \in DOMAIN n.origins : m.origins[o] = n.origins[o]
      /\ \A o \in DOMAIN m.origins \ DOMAIN n.origins :
            o.req = q /\ m.origins[o] = [dev |-> d, retired |-> FALSE]
  <2>1. CASE m.origins = n.origins
    BY <2>1
  <2>2. ASSUME NEW o, o.req = q, m.origins = Put(n.origins, o, [dev |-> d, retired |-> FALSE])
        PROVE  <1>4!:
    <3>1. o \notin DOMAIN n.origins
      BY <1>2, <2>2 DEF LedgerInv, Received
    <3> QED BY <2>2, <3>1 DEF Put
  <2> QED BY <2>1, <2>2
<1>5. \A e \in Devices : Live(n, e) \subseteq Live(m, e)
  BY <1>1, <1>2 DEF Live
<1>6. q \in Live(m, d) \/ r.outcome # "pending"
  BY <1>1, <1>2, <1>3 DEF Live
<1>7. ASSUME NEW e \in Devices PROVE OriginKnown(m, e) /\ SessionKnown(m, e)
  <2>1. OriginKnown(n, e) /\ SessionKnown(n, e)
    BY DEF LedgerInv
  <2>2. CASE e # d
    <3>1. OpenOrigins(m, e) = OpenOrigins(n, e)
      BY <1>4, <2>2 DEF OpenOrigins
    <3>2. OriginKnown(m, e)
      BY <1>1, <2>1, <2>2, <3>1 DEF OriginKnown
    <3>3. SessionKnown(m, e)
      BY <1>1, <1>2, <1>5, <2>1, <2>2 DEF SessionKnown, Live
    <3> QED BY <3>2, <3>3
  <2>3. CASE e = d
    <3>1. SessionKnown(m, d)
      BY <1>1, <1>2, <1>3, <1>5, <1>6 DEF SessionKnown, Live
    <3> QED BY <2>3, <3>1
  <2> QED BY <2>2, <2>3
<1>8. Numbered(m)
  BY <1>1, <1>2 DEF LedgerInv, Numbered, Fresh
<1>9. Received(m)
  BY <1>2, <1>4 DEF LedgerInv, Received
<1>10. \A p \in DOMAIN m.receipts : ReceiptKnown(m, m.receipts[p])
  BY <1>2, <1>4 DEF LedgerInv, ReceiptKnown
<1>11. LedgerInv(m)
  BY <1>1, <1>7, <1>8, <1>9, <1>10 DEF LedgerInv
<1>12. Keeps(n, m) /\ Restores(n, m)
  BY <1>2, <1>4 DEF Keeps, Restores
<1>13. m.origins = n.origins => Extends(n, m)
  BY <1>1, <1>2 DEF Extends
<1> QED BY <1>1, <1>11, <1>12, <1>13 DEF Good

\* RELEASE is admitted for a lease in force while no write of the incarnation is unresolved, so
\* the session it names or makes is its own.
LEMMA ReleaseGood ==
  ASSUME NEW n, LedgerInv(n), NEW d \in Devices, Releasable(n, d), NEW c, c.action = "release",
         Fresh(n, c.req), c.exp \in Identities
  PROVE  LET m == Release(n, d, c)
         IN /\ LedgerInv(m) /\ Extends(n, m) /\ PostedBy(n, m, d, c)
            /\ n.dev[d].session = "connected" => m.dev[d].session = "connected"
<1> DEFINE v == n.dev[d]
           w == CASE v.session = "none" -> Prepared(v, c.req)
                  [] v.session = "starting" -> [v EXCEPT !.session = "handoff", !.rop = c.req]
                  [] OTHER -> v
           u == [w EXCEPT !.attn = @ + 1, !.rest = TRUE, !.lastRelease = n.opn + 1]
           k == [n EXCEPT !.dev[d] = u]
           m == Recorded(k, d, c, v.origin, "none")
           r == m.receipts[c.req]
<1>1. LedgerType(n) /\ v \in DeviceType /\ n.opn \in Nat /\ v.lease # 0 /\ c.req \in Request
  BY DeviceTyped DEF LedgerInv, LedgerType, Releasable, Fresh
<1>2. v.session \notin Working
  BY DEF Releasable, Unresolved, LedgerInv, SessionKnown
<1>3. /\ w \in DeviceType /\ w.lease = v.lease /\ w.origin = v.origin
      /\ w.rop \in {v.rop, c.req} /\ (w.session \in Working => w.rop = c.req)
      /\ (v.session = "connected" => w.session = "connected")
      /\ w.inc = v.inc /\ w.base = v.base /\ w.route = v.route /\ w.attn = v.attn
      /\ w.sess >= v.sess /\ (w.session = "none" => v.session = "none")
  <2>0. v.sess + 1 \in Nat /\ v.sess \in Nat /\ v.sess + 1 >= v.sess
    BY <1>1 DEF DeviceType
  <2>1. CASE v.session = "none"
    <3>1. w = [v EXCEPT !.session = "recovery", !.sess = @ + 1, !.rop = c.req]
      BY <2>1 DEF Prepared
    <3>2. w \in DeviceType
      BY <1>1, <2>0, <3>1 DEF DeviceType, Working
    <3>3. /\ w.lease = v.lease /\ w.origin = v.origin /\ w.rop = c.req /\ w.session = "recovery"
          /\ w.inc = v.inc /\ w.base = v.base /\ w.route = v.route /\ w.attn = v.attn
          /\ w.sess = v.sess + 1
      BY <1>1, <3>1 DEF DeviceType
    <3> QED BY <2>0, <2>1, <3>2, <3>3
  <2>2. CASE v.session = "starting"
    <3>1. w = [v EXCEPT !.session = "handoff", !.rop = c.req]
      BY <2>2
    <3>2. w \in DeviceType
      BY <1>1, <3>1 DEF DeviceType, Working
    <3>3. /\ w.lease = v.lease /\ w.origin = v.origin /\ w.rop = c.req /\ w.session = "handoff"
          /\ w.inc = v.inc /\ w.base = v.base /\ w.route = v.route /\ w.attn = v.attn
          /\ w.sess = v.sess
      BY <1>1, <3>1 DEF DeviceType
    <3> QED BY <2>0, <2>2, <3>2, <3>3
  <2>3. CASE v.session \notin {"none", "starting"}
    <3>1. v.sess \in Nat
      BY <1>1 DEF DeviceType
    <3> QED BY <1>1, <1>2, <2>3, <3>1
  <2> QED BY <2>1, <2>2, <2>3
<1> HIDE DEF w
<1>4. /\ u \in DeviceType /\ u.lease = v.lease /\ u.origin = v.origin /\ u.rop = w.rop
      /\ u.session = w.session /\ u.inc = w.inc /\ u.base = w.base /\ u.route = w.route
      /\ u.attn = w.attn + 1 /\ u.sess = w.sess
  <2>1. w.attn + 1 \in Nat /\ n.opn + 1 \in Nat
    BY <1>1, <1>3 DEF DeviceType
  <2> QED BY <1>3, <2>1 DEF DeviceType
<1> HIDE DEF u
<1>5. Becomes(n, k, d, u)
  BY <1>1, <1>4, DeviceTyped
<1> HIDE DEF k
<1>6. OriginKnown(n, d) /\ OpenOrigins(n, d) = {v.origin}
  BY <1>1 DEF LedgerInv, OriginKnown
<1>7. v.origin \in DOMAIN n.origins /\ n.origins[v.origin].dev = d /\ v.origin \in Origin
  BY <1>1, <1>6 DEF OpenOrigins, LedgerType
<1>8. /\ Posts(n, m, d, u, c.req, r) /\ m.origins = n.origins
      /\ r.action = "release" /\ r.origin = v.origin /\ r.id = Id(m, d)
      /\ r.outcome = "pending" /\ r.recovery = "none"
  <2>1. Prepares(n, k, d, u) /\ k.origins = n.origins
    BY <1>5 DEF Becomes
  <2>2. c.action \in ActionType
    BY DEF ActionType
  <2> QED BY <1>1, <1>7, <2>1, <2>2, RecordedPosts
<1>9. m = Release(n, d, c)
  BY DEF Release, k, u, w
<1> HIDE DEF m, r
<1>10. m.dev[d] = u
  BY <1>1, <1>8 DEF Posts, LedgerType
<1>11. OriginKnown(m, d)
  BY <1>4, <1>6, <1>8, <1>10 DEF OriginKnown, OpenOrigins
<1>12. ReceiptKnown(m, r)
  BY <1>7, <1>8 DEF ReceiptKnown, Id
<1>13. v.rop \in DOMAIN n.receipts \cup {None}
  BY DEF LedgerInv, SessionKnown
<1>14. Good(n, m) /\ Extends(n, m)
  BY <1>3, <1>4, <1>8, <1>11, <1>12, <1>13, PostGood
<1>15. PostedBy(n, m, d, c)
  <2>1. Posts(n, m, d, m.dev[d], c.req, m.receipts[c.req])
    BY <1>8, <1>10 DEF r
  <2> QED BY <1>1, <1>3, <1>4, <1>8, <1>10, <2>1 DEF PostedBy, r
<1> QED BY <1>3, <1>4, <1>9, <1>10, <1>14, <1>15 DEF Good

\* The release that the ledger posts itself when a lease ran out.
LEMMA ExpiryGood ==
  ASSUME NEW n, LedgerInv(n), NEW d \in Devices
  PROVE  LET m == ExpiryReconcile(n, d)
         IN /\ LedgerInv(m) /\ Extends(n, m)
            /\ n.dev[d].session = "connected" => m.dev[d].session = "connected"
<1> DEFINE v == n.dev[d]
           u == [v EXCEPT !.attempted = TRUE]
           k == [n EXCEPT !.dev[d] = u]
           c == [action |-> "release", req |-> <<"expiry", n.proc, n.opn + 1>>, exp |-> Id(n, d),
                 origin |-> None]
<1>1. LedgerType(n) /\ v \in DeviceType /\ n.opn \in Nat /\ n.proc \in Nat /\ Id(n, d) \in Identities
  BY DeviceTyped DEF LedgerInv, LedgerType
<1>2. /\ u \in DeviceType /\ u.lease = v.lease /\ u.origin = v.origin /\ u.rop = v.rop
      /\ u.session = v.session /\ u.inc = v.inc /\ Becomes(n, k, d, u)
  BY <1>1, DeviceTyped DEF DeviceType
<1>3. k = [n EXCEPT !.dev[d].attempted = TRUE]
  BY <1>1 DEF LedgerType
<1> HIDE DEF u, k
<1>4. LedgerInv(k) /\ Extends(n, k)
  BY <1>2, DeviceGood DEF LedgerInv, SessionKnown
<1>5. k.dev[d] = u /\ k.receipts = n.receipts /\ k.proc = n.proc /\ k.opn = n.opn
  BY <1>1, <1>2 DEF Becomes, Prepares, LedgerType
<1>6. CASE v.lease # 0 /\ v.expired /\ ~v.attempted /\ Releasable(n, d)
  <2>1. ExpiryReconcile(n, d) = Release(k, d, c)
    BY <1>3, <1>6 DEF ExpiryReconcile
  <2>2. Live(k, d) = Live(n, d)
    BY <1>5 DEF Live
  <2>3. Releasable(k, d)
    BY <1>2, <1>5, <1>6, <2>2 DEF Releasable, Unresolved, Preparable, Idle
  <2>4. Fresh(k, c.req)
    BY <1>1, <1>5 DEF Fresh, LedgerInv, Numbered, Request, Numbering
  <2> DEFINE m == Release(k, d, c)
  <2>5. c.action = "release" /\ c.exp \in Identities
    BY <1>1
  <2> HIDE DEF c
  <2>6. LedgerInv(m) /\ Extends(k, m) /\ (u.session = "connected" => m.dev[d].session = "connected")
    BY <1>4, <1>5, <2>3, <2>4, <2>5, ReleaseGood
  <2> HIDE DEF m
  <2>7. Extends(n, m)
    BY <1>4, <2>6 DEF Extends
  <2> QED BY <1>2, <2>1, <2>6, <2>7 DEF m
<1>7. CASE ~(v.lease # 0 /\ v.expired /\ ~v.attempted /\ Releasable(n, d))
  BY <1>7 DEF ExpiryReconcile, Extends
<1> QED BY <1>6, <1>7

-----------------------------------------------------------------------------
(* A command completes *)

Verdict == {"accepted", "failed", "unknown", "desired_only"}

\* What Complete decides of the receipt r of device d.
Owner(n, d, r) == Id(n, d) = r.id \/ TerminalCurrent(n, r, Id(n, d))

\* The owner's identity differs in the session at most.
LEMMA OwnerIs ==
  ASSUME NEW n, LedgerType(n), NEW r \in ReceiptType, Owner(n, r.id.dev, r)
  PROVE  LET v == n.dev[r.id.dev]
         IN /\ r.id.inc = v.inc /\ r.id.base = v.base /\ r.id.lease = v.lease /\ r.id.proc = n.proc
            /\ r.id.attn = v.attn
<1> DEFINE s == Id(n, r.id.dev)
           t == [s EXCEPT !.sess = r.id.sess]
<1>1. s.inc = n.dev[r.id.dev].inc /\ s.base = n.dev[r.id.dev].base
      /\ s.lease = n.dev[r.id.dev].lease /\ s.proc = n.proc /\ s.attn = n.dev[r.id.dev].attn
  BY DEF Id
<1>2. s \in Identities
  <2>1. r.id.dev \in Devices
    BY DEF ReceiptType, Identities
  <2> QED BY <2>1, DeviceTyped
<1> HIDE DEF s
<1>3. t.inc = s.inc /\ t.base = s.base /\ t.lease = s.lease /\ t.proc = s.proc /\ t.attn = s.attn
  BY <1>2 DEF Identities
<1>4. s = r.id \/ t = r.id
  BY DEF Owner, TerminalCurrent, s
<1> HIDE DEF t
<1> QED BY <1>1, <1>3, <1>4

\* The ledger once the receipt q and the owner's lease and origin are settled.
Completed(n, f, q, outcome) ==
  LET r == n.receipts[q]
      x == f.receipts[q]
      v == n.dev[r.id.dev]
      u == f.dev[r.id.dev]
  IN /\ LedgerType(f) /\ f.proc = n.proc /\ f.opn = n.opn
     /\ f.receipts = [n.receipts EXCEPT ![q] = x]
     /\ x.op = r.op /\ x.action = r.action /\ x.origin = r.origin /\ x.id = r.id
     /\ x.outcome # "pending" /\ (x.outcome = "accepted" => outcome = "accepted")
     /\ r.action = "recover" => x.recovery \in {"restored", "unknown"}
     /\ \/ x.recovery = "restored"
        \/ x.outcome = "accepted" /\ r.action = "release" /\ Owner(n, r.id.dev, r)
        => r.origin \in DOMAIN f.origins /\ f.origins[r.origin].retired
     /\ DOMAIN f.origins = DOMAIN n.origins
     /\ \A o \in DOMAIN n.origins : /\ f.origins[o].dev = n.origins[o].dev
                                    /\ n.origins[o].retired => f.origins[o].retired
     /\ \A e \in Devices \ {r.id.dev} : f.dev[e] = n.dev[e]
     /\ \/ u = v
        \/ /\ Owner(n, r.id.dev, r) /\ u.lease = 0 /\ u.inc = v.inc /\ u.base = v.base
           /\ u.attn = v.attn /\ u.route = v.route /\ u.sess = v.sess /\ u.session = v.session

LEMMA CompleteFreed ==
  ASSUME NEW n, LedgerInv(n), NEW q \in DOMAIN n.receipts, n.receipts[q].outcome = "pending",
         NEW outcome \in Verdict,
         n.dev[n.receipts[q].id.dev].session \in Working => n.dev[n.receipts[q].id.dev].rop # q
  PROVE  LET r == n.receipts[q]
             d == r.id.dev
         IN \E f : /\ Complete(n, q, outcome) = IF n.dev[d].inc = r.id.inc THEN ExpiryReconcile(f, d) ELSE f
                   /\ Good(n, f) /\ Completed(n, f, q, outcome)
                   /\ f.receipts[q].recovery = "restored" => n.dev[d].inc = r.id.inc
                   /\ outcome # "accepted" => f.origins = n.origins
                   /\ n.dev[d].session = "connected" => f.dev[d].session = "connected"
<1> DEFINE r == n.receipts[q]
           d == r.id.dev
           v == n.dev[d]
           owner == Owner(n, d, r)
           retired == owner /\ outcome = "accepted" /\ r.action \in {"release", "recover"}
           final == IF r.action = "recover" /\ ~retired /\ outcome = "accepted" THEN "unknown" ELSE outcome
           recovery == IF r.action # "recover" THEN r.recovery
                       ELSE IF retired THEN "restored" ELSE "unknown"
           x == [r EXCEPT !.outcome = final, !.recovery = recovery]
           origins == IF retired THEN [n.origins EXCEPT ![r.origin].retired = TRUE] ELSE n.origins
           kept == [n EXCEPT !.receipts[q].outcome = final, !.receipts[q].recovery = recovery,
                             !.origins = IF retired THEN [@ EXCEPT ![r.origin].retired = TRUE] ELSE @]
           frees == r.action = "release" /\ final \in {"accepted", "desired_only"} /\ owner
           u == [v EXCEPT !.lease = 0, !.rest = FALSE, !.expired = FALSE]
           freed == IF frees
                    THEN [kept EXCEPT !.dev[d].lease = 0, !.dev[d].rest = FALSE, !.dev[d].expired = FALSE]
                    ELSE kept
<1>1. /\ LedgerType(n) /\ r \in ReceiptType /\ d \in Devices /\ v \in DeviceType
      /\ r.action \in ActionType /\ r.outcome = "pending"
  BY DeviceTyped DEF LedgerInv, LedgerType, ReceiptType, Identities
<1>2. ReceiptKnown(n, r)
  BY DEF LedgerInv
<1>3. owner => /\ r.id.inc = v.inc /\ r.id.base = v.base /\ r.id.lease = v.lease
               /\ r.id.proc = n.proc
  BY <1>1, OwnerIs
<1>4. Complete(n, q, outcome) = IF v.inc = r.id.inc THEN ExpiryReconcile(freed, d) ELSE kept
  BY DEF Complete, Owner
<1>5. /\ retired => frees \/ r.action = "recover"
      /\ retired => final = "accepted" /\ owner
      /\ final \in Verdict
      /\ (recovery = "restored" => retired) /\ (r.action # "recover" => recovery = "none")
      /\ recovery \in {"none", "restored", "unknown"}
  BY <1>2 DEF ReceiptKnown, Verdict
<1>6. retired => r.origin \in DOMAIN n.origins /\ n.origins[r.origin].dev = d
  BY <1>1, <1>2 DEF ReceiptKnown
<1>7. retired /\ r.action = "recover" => v.lease = 0
  BY <1>1, <1>2, <1>3, <1>5 DEF ReceiptKnown
<1> HIDE DEF owner, frees
<1>8. /\ x \in ReceiptType /\ x.outcome = final /\ x.recovery = recovery /\ x.action = r.action
      /\ x.origin = r.origin /\ x.id = r.id
  <2>1. final \in {"pending", "accepted", "failed", "unknown", "desired_only", "no_effect"}
    BY <1>5 DEF Verdict
  <2> HIDE DEF final, recovery
  <2> QED BY <1>1, <1>5, <2>1 DEF ReceiptType, OutcomeType, RecoveryType
<1> HIDE DEF final, recovery, retired
<1>9. /\ DOMAIN origins = DOMAIN n.origins /\ origins \in [DOMAIN n.origins -> OriginType]
      /\ \A o \in DOMAIN n.origins : origins[o].dev = n.origins[o].dev
      /\ \A o \in DOMAIN n.origins : origins[o].retired # n.origins[o].retired =>
            retired /\ o = r.origin /\ origins[o].retired
  <2>1. n.origins \in [DOMAIN n.origins -> OriginType]
    BY <1>1 DEF LedgerType
  <2>2. \A o \in DOMAIN n.origins : [n.origins[o] EXCEPT !.retired = TRUE] \in OriginType
           /\ [n.origins[o] EXCEPT !.retired = TRUE].dev = n.origins[o].dev
           /\ [n.origins[o] EXCEPT !.retired = TRUE].retired
    BY <2>1 DEF OriginType
  <2> QED BY <1>6, <2>1, <2>2
<1>10. kept = [n EXCEPT !.receipts = [n.receipts EXCEPT ![q] = x], !.origins = origins]
  BY <1>1 DEF LedgerType
<1> HIDE DEF x, origins
<1>11. /\ kept.proc = n.proc /\ kept.opn = n.opn /\ kept.dev = n.dev
       /\ kept.receipts = [n.receipts EXCEPT ![q] = x] /\ kept.origins = origins
       /\ LedgerType(kept)
  <2>1. /\ kept.proc = n.proc /\ kept.opn = n.opn /\ kept.dev = n.dev
        /\ kept.receipts = [n.receipts EXCEPT ![q] = x] /\ kept.origins = origins
        /\ kept = [proc |-> kept.proc, opn |-> kept.opn, dev |-> kept.dev,
                   receipts |-> kept.receipts, origins |-> kept.origins]
    <3> DEFINE receipts == [n.receipts EXCEPT ![q] = x]
    <3>1. /\ kept = [n EXCEPT !.receipts = receipts, !.origins = origins]
          /\ n = [proc |-> n.proc, opn |-> n.opn, dev |-> n.dev, receipts |-> n.receipts,
                  origins |-> n.origins]
      BY <1>1, <1>10 DEF LedgerType
    <3> HIDE DEF receipts, kept
    <3>2. kept = [proc |-> n.proc, opn |-> n.opn, dev |-> n.dev, receipts |-> receipts,
                  origins |-> origins]
      BY <3>1
    <3> QED BY <3>2 DEF receipts
  <2> HIDE DEF kept
  <2>2. /\ DOMAIN [n.receipts EXCEPT ![q] = x] = DOMAIN n.receipts
        /\ [n.receipts EXCEPT ![q] = x] \in [DOMAIN n.receipts -> ReceiptType]
    BY <1>1, <1>8 DEF LedgerType
  <2>3. LedgerType(kept)
    BY <1>1, <1>9, <2>1, <2>2 DEF LedgerType
  <2> QED BY <2>1, <2>3
<1> HIDE DEF kept
<1>12. u \in DeviceType /\ u.lease = 0 /\ u.rop = v.rop /\ u.session = v.session /\ u.inc = v.inc
  BY <1>1 DEF DeviceType
<1>13. frees => freed = [kept EXCEPT !.dev[d] = u]
  BY <1>1, <1>11 DEF LedgerType
<1>14. /\ freed.proc = n.proc /\ freed.opn = n.opn /\ freed.receipts = [n.receipts EXCEPT ![q] = x]
       /\ freed.origins = origins /\ LedgerType(freed)
       /\ freed.dev = IF frees THEN [n.dev EXCEPT ![d] = u] ELSE n.dev
  <2>1. CASE frees
    <3>1. Becomes(kept, freed, d, u)
      BY <1>1, <1>11, <1>12, <1>13, <2>1, DeviceTyped
    <3> HIDE DEF freed
    <3> QED BY <1>11, <2>1, <3>1 DEF Becomes, Prepares
  <2>2. CASE ~frees
    BY <1>11, <2>2
  <2> QED BY <2>1, <2>2
<1> HIDE DEF freed, u
<1>15. /\ \A e \in Devices \ {d} : freed.dev[e] = n.dev[e]
       /\ freed.dev[d].rop = v.rop /\ freed.dev[d].session = v.session /\ freed.dev[d].inc = v.inc
       /\ freed.dev[d].lease # 0 => ~frees /\ freed.dev[d] = v
  BY <1>1, <1>12, <1>14 DEF LedgerType
<1>16. ASSUME NEW e \in Devices PROVE OriginKnown(freed, e) /\ SessionKnown(freed, e)
  <2>1. OriginKnown(n, e) /\ SessionKnown(n, e)
    BY DEF LedgerInv
  <2>2. OpenOrigins(freed, e) \subseteq OpenOrigins(n, e)
    BY <1>1, <1>9, <1>14 DEF OpenOrigins, LedgerType, OriginType
  <2>3. e # d \/ ~retired => OpenOrigins(freed, e) = OpenOrigins(n, e)
    BY <1>6, <1>9, <1>14 DEF OpenOrigins
  <2>4. OriginKnown(freed, e)
    BY <1>5, <1>7, <1>15, <2>1, <2>2, <2>3 DEF OriginKnown
  <2>5. Live(n, e) \ {q} \subseteq Live(freed, e)
    BY <1>14 DEF Live
  <2>6. n.dev[e].session \in Working => n.dev[e].rop # q
    BY <2>1 DEF SessionKnown, Live
  <2>7. /\ DOMAIN freed.receipts = DOMAIN n.receipts
        /\ \A p \in DOMAIN n.receipts : freed.receipts[p].id = n.receipts[p].id
    BY <1>8, <1>14
  <2>8. SessionKnown(freed, e)
    BY <1>15, <2>1, <2>5, <2>6, <2>7 DEF SessionKnown, Live
  <2> QED BY <2>4, <2>8
<1>17. Numbered(freed) /\ Received(freed)
  BY <1>9, <1>14 DEF LedgerInv, Numbered, Received
<1>18. \A p \in DOMAIN freed.receipts : ReceiptKnown(freed, freed.receipts[p])
  <2>1. ReceiptKnown(freed, x)
    BY <1>5, <1>8 DEF ReceiptKnown, Verdict
  <2>2. \A p \in DOMAIN n.receipts \ {q} : ReceiptKnown(freed, n.receipts[p])
    BY <1>9, <1>14 DEF LedgerInv, ReceiptKnown
  <2> QED BY <1>14, <2>1, <2>2
<1>19. LedgerInv(freed)
  BY <1>14, <1>16, <1>17, <1>18 DEF LedgerInv
<1>20. Keeps(n, freed) /\ Restores(n, freed)
  <2>1. Keeps(n, freed)
    BY <1>14 DEF Keeps
  <2>2. ASSUME NEW o \in DOMAIN n.origins, origins[o].retired, ~n.origins[o].retired
        PROVE  /\ x.origin = o /\ x.outcome = "accepted" /\ x.id.base = n.dev[n.origins[o].dev].base
               /\ x.id.proc = n.proc /\ x.id.inc = n.dev[n.origins[o].dev].inc
    BY <1>3, <1>5, <1>6, <1>8, <1>9, <2>2
  <2> QED BY <1>14, <2>1, <2>2 DEF Restores
<1>21. Good(n, freed)
  BY <1>14, <1>19, <1>20 DEF Good
<1>22. /\ freed.receipts[q].recovery = "restored" => v.inc = r.id.inc
       /\ outcome # "accepted" => freed.origins = n.origins
  <2>1. outcome # "accepted" => ~retired
    BY DEF retired
  <2>2. ~retired => origins = n.origins
    BY DEF origins
  <2> QED BY <1>3, <1>5, <1>8, <1>14, <2>1, <2>2
<1>23. Complete(n, q, outcome) = IF v.inc = r.id.inc THEN ExpiryReconcile(freed, d) ELSE freed
  <2>1. v.inc # r.id.inc => kept = freed
    BY <1>3 DEF freed, frees
  <2> QED BY <1>4, <2>1
<1>24. freed.receipts[q] = x
  BY <1>14
<1>25. x.op = r.op
  BY <1>1 DEF x, ReceiptType
<1>26. retired => r.origin \in DOMAIN origins /\ origins[r.origin].retired
  BY <1>1, <1>6, <1>9 DEF origins, LedgerType, OriginType
<1>27. x.outcome = "accepted" => outcome = "accepted"
  BY <1>8 DEF final
<1>28. r.action = "recover" => recovery \in {"restored", "unknown"}
  BY DEF recovery
<1>29. x.outcome = "accepted" /\ r.action = "release" /\ owner => retired
  BY <1>27 DEF retired
<1>30. \A o \in DOMAIN n.origins : n.origins[o].retired => origins[o].retired
  BY <1>9
<1>31. u.base = v.base /\ u.attn = v.attn /\ u.route = v.route /\ u.sess = v.sess
  BY <1>1 DEF u, DeviceType
<1>32. freed.dev[d] = v \/ (owner /\ freed.dev[d] = u)
  BY <1>1, <1>14 DEF LedgerType, frees
<1>33. x.outcome # "pending"
  BY <1>5, <1>8 DEF Verdict
<1>34. Completed(n, freed, q, outcome)
  BY <1>5, <1>8, <1>9, <1>12, <1>14, <1>15, <1>24, <1>25, <1>26, <1>27, <1>28, <1>29, <1>30, <1>31, <1>32,
     <1>33 DEF Completed, owner
<1> QED BY <1>15, <1>21, <1>22, <1>23, <1>34

LEMMA CompleteGood ==
  ASSUME NEW n, LedgerInv(n), NEW q \in DOMAIN n.receipts, n.receipts[q].outcome = "pending",
         NEW outcome \in Verdict,
         n.dev[n.receipts[q].id.dev].session \in Working => n.dev[n.receipts[q].id.dev].rop # q
  PROVE  LET m == Complete(n, q, outcome)
             d == n.receipts[q].id.dev
         IN /\ Good(n, m)
            /\ m.receipts[q].recovery = "restored" => n.dev[d].inc = n.receipts[q].id.inc
            /\ outcome # "accepted" => m.origins = n.origins
            /\ n.dev[d].session = "connected" => m.dev[d].session = "connected"
<1> DEFINE r == n.receipts[q]
           d == r.id.dev
<1>1. PICK f : /\ Complete(n, q, outcome) = IF n.dev[d].inc = r.id.inc THEN ExpiryReconcile(f, d) ELSE f
               /\ Good(n, f) /\ Completed(n, f, q, outcome)
               /\ f.receipts[q].recovery = "restored" => n.dev[d].inc = r.id.inc
               /\ outcome # "accepted" => f.origins = n.origins
               /\ n.dev[d].session = "connected" => f.dev[d].session = "connected"
  BY CompleteFreed
<1>2. d \in Devices
  BY DEF LedgerInv, LedgerType, ReceiptType, Identities
<1>3. CASE n.dev[d].inc = r.id.inc
  <2> DEFINE m == ExpiryReconcile(f, d)
  <2>1. LedgerInv(m) /\ Extends(f, m)
        /\ (f.dev[d].session = "connected" => m.dev[d].session = "connected")
    BY <1>1, <1>2, ExpiryGood DEF Good
  <2>2. Complete(n, q, outcome) = m
    BY <1>1, <1>3
  <2> HIDE DEF m
  <2>3. Good(n, m)
    BY <1>1, <2>1, GoodExtends
  <2> QED BY <1>1, <1>3, <2>1, <2>2, <2>3 DEF Extends
<1>4. CASE n.dev[d].inc # r.id.inc
  BY <1>1, <1>4
<1> QED BY <1>3, <1>4

-----------------------------------------------------------------------------
(* Admission is good *)

\* The command q was just posted to the device d, and no session names it.
Ready(n, d, q) ==
  /\ q \in DOMAIN n.receipts /\ n.receipts[q].outcome = "pending" /\ n.receipts[q].id.dev = d
  /\ n.dev[d].session \in Working => n.dev[d].rop # q

\* A write that no session carries is desired-only: it completes at once and retires nothing.
LEMMA AppliedGood ==
  ASSUME NEW n, NEW k, Good(n, k), NEW d \in Devices, NEW q, Ready(k, d, q)
  PROVE  Good(n, Applied(k, d, q))
<1>1. LedgerInv(k)
  BY DEF Good
<1>2. CASE k.dev[d].session # "connected"
  <2> DEFINE m == Complete(k, q, "desired_only")
  <2>1. Good(k, m) /\ m.origins = k.origins
    <3>1. "desired_only" \in Verdict /\ "desired_only" # "accepted"
      BY DEF Verdict
    <3> QED BY <1>1, <3>1, CompleteGood DEF Ready
  <2>2. Applied(k, d, q) = m
    BY <1>2 DEF Applied
  <2> HIDE DEF m
  <2>3. Keeps(n, m)
    BY <2>1 DEF Good, Keeps
  <2>4. Restores(n, m)
    BY <2>1 DEF Good, Keeps, Restores
  <2> QED BY <2>1, <2>2, <2>3, <2>4 DEF Good
<1> QED BY <1>2 DEF Applied

LEMMA BeginPosts ==
  ASSUME NEW n, LedgerInv(n), NEW d \in Devices, NEW c, c.action = "begin", Fresh(n, c.req),
         c.exp \in Identities, n.dev[d].lease = 0, OpenOrigins(n, d) = {}
  PROVE  \E s : /\ Begin(n, d, c) = Applied(s, d, c.req)
                /\ Good(n, s) /\ PostedBy(n, s, d, c) /\ Ready(s, d, c.req)
<1> DEFINE v == n.dev[d]
           o == [proc |-> n.proc, req |-> c.req]
           u == [v EXCEPT !.origin = o, !.attn = @ + 1, !.lease = n.opn + 1,
                          !.expired = FALSE, !.attempted = FALSE]
           open == Put(n.origins, o, [dev |-> d, retired |-> FALSE])
           k == [n EXCEPT !.origins = open, !.dev[d] = u]
           s == Recorded(k, d, c, o, "none")
           r == s.receipts[c.req]
<1>1. /\ LedgerType(n) /\ v \in DeviceType /\ n.opn \in Nat /\ n.proc \in Nat
      /\ c.req \in Request /\ c.req \notin DOMAIN n.receipts
  BY DeviceTyped DEF LedgerInv, LedgerType, Fresh
<1>2. o \in Origin /\ o.req = c.req
  BY <1>1 DEF Origin
<1>0. v.attn + 1 \in Nat /\ n.opn + 1 \in Nat /\ v.sess \in Nat
  BY <1>1 DEF DeviceType
<1> HIDE DEF o
<1>3. o \notin DOMAIN n.origins
  BY <1>1, <1>2 DEF LedgerInv, Received
<1>4. /\ u \in DeviceType /\ u.origin = o /\ u.rop = v.rop /\ u.session = v.session /\ u.inc = v.inc
      /\ u.base = v.base /\ u.route = v.route /\ u.sess = v.sess /\ u.attn = v.attn + 1
      /\ u.lease = n.opn + 1
  BY <1>0, <1>1, <1>2 DEF DeviceType
<1>5. /\ DOMAIN open \subseteq Origin /\ open \in [DOMAIN open -> OriginType]
      /\ DOMAIN open = DOMAIN n.origins \cup {o} /\ open[o] = [dev |-> d, retired |-> FALSE]
      /\ \A p \in DOMAIN n.origins : open[p] = n.origins[p]
  BY <1>1, <1>2, <1>3 DEF LedgerType, Put, OriginType
<1>6. k = [proc |-> n.proc, opn |-> n.opn, dev |-> [n.dev EXCEPT ![d] = u],
           receipts |-> n.receipts, origins |-> open]
  <2>1. k = [n EXCEPT !.origins = open, !.dev = [n.dev EXCEPT ![d] = u]]
    <3> HIDE DEF open, u
    <3> QED BY <1>1 DEF LedgerType
  <2>2. n = [proc |-> n.proc, opn |-> n.opn, dev |-> n.dev, receipts |-> n.receipts,
             origins |-> n.origins]
    BY <1>1 DEF LedgerType
  <2> HIDE DEF open, u, k
  <2> QED BY <2>1, <2>2
<1> HIDE DEF u, k
<1>7. Prepares(n, k, d, u) /\ k.origins = open
  <2> HIDE DEF open
  <2>1. [n.dev EXCEPT ![d] = u] \in [Devices -> DeviceType]
    BY <1>1, <1>4 DEF LedgerType
  <2> QED BY <1>1, <1>5, <1>6, <2>1 DEF Prepares, LedgerType
<1>8. /\ Posts(n, s, d, u, c.req, r) /\ s.origins = open
      /\ r.action = "begin" /\ r.id = Id(s, d) /\ r.outcome = "pending" /\ r.recovery = "none"
      /\ r.origin = o
  <2>1. c.action \in ActionType
    BY DEF ActionType
  <2> QED BY <1>1, <1>2, <1>7, <2>1, RecordedPosts
<1>9. Begin(n, d, c) = Applied(s, d, c.req)
  BY DEF Begin, k, o, u
<1> HIDE DEF s, r
<1>10. s.dev[d] = u
  BY <1>1, <1>8 DEF Posts, LedgerType
<1>11. OriginKnown(s, d)
  <2>1. OpenOrigins(s, d) = {o}
    <3>1. \A p \in DOMAIN n.origins : n.origins[p].dev # d \/ n.origins[p].retired
      BY DEF OpenOrigins
    <3> HIDE DEF open
    <3> QED BY <1>5, <1>8, <3>1 DEF OpenOrigins
  <2> QED BY <1>4, <1>10, <2>1 DEF OriginKnown
<1>12. ReceiptKnown(s, r)
  BY <1>8 DEF ReceiptKnown
<1>13. SessionKnown(n, d)
  BY DEF LedgerInv
<1>14. Good(n, s)
  <2>1. u.rop \in DOMAIN n.receipts \cup {None, c.req}
    BY <1>4, <1>13 DEF SessionKnown
  <2>2. u.session \in Working => u.rop \in Live(n, d) /\ n.receipts[u.rop].id.inc = u.inc
    BY <1>4, <1>13 DEF SessionKnown
  <2>3. s.origins = Put(n.origins, o, [dev |-> d, retired |-> FALSE])
    BY <1>8
  <2> HIDE DEF open
  <2> QED BY <1>2, <1>4, <1>8, <1>11, <1>12, <2>1, <2>2, <2>3, PostGood
<1>15. c.req \in DOMAIN s.receipts /\ s.receipts[c.req].outcome = "pending"
       /\ s.receipts[c.req].id.dev = d
  BY <1>8 DEF r, Posts, Put, Id
<1>16. s.dev[d].session \in Working => s.dev[d].rop # c.req
  BY <1>1, <1>4, <1>10, <1>13 DEF SessionKnown, Live
<1>17. PostedBy(n, s, d, c)
  <2>1. Posts(n, s, d, s.dev[d], c.req, s.receipts[c.req])
    BY <1>8, <1>10 DEF r
  <2> QED BY <1>0, <1>4, <1>8, <1>10, <2>1 DEF PostedBy, r, o
<1> QED BY <1>9, <1>14, <1>15, <1>16, <1>17 DEF Ready

LEMMA UpdatePosts ==
  ASSUME NEW n, LedgerInv(n), NEW d \in Devices, NEW c, c.action = "update", Fresh(n, c.req),
         c.exp \in Identities, n.dev[d].lease # 0
  PROVE  \E s : /\ Update(n, d, c) = Applied(s, d, c.req)
                /\ Good(n, s) /\ PostedBy(n, s, d, c) /\ Ready(s, d, c.req)
<1> DEFINE v == n.dev[d]
           u == [v EXCEPT !.attn = @ + 1, !.expired = FALSE, !.attempted = FALSE]
           k == [n EXCEPT !.dev[d].attn = @ + 1, !.dev[d].expired = FALSE, !.dev[d].attempted = FALSE]
           s == Recorded(k, d, c, u.origin, "none")
           r == s.receipts[c.req]
<1>1. /\ LedgerType(n) /\ v \in DeviceType /\ c.req \in Request /\ c.req \notin DOMAIN n.receipts
  BY DeviceTyped DEF LedgerInv, Fresh
<1>2. /\ u \in DeviceType /\ u.origin = v.origin /\ u.lease = v.lease /\ u.rop = v.rop
      /\ u.session = v.session /\ u.inc = v.inc /\ u.base = v.base /\ u.route = v.route
      /\ u.attn = v.attn + 1 /\ u.sess = v.sess /\ v.sess \in Nat
  <2>1. v.attn + 1 \in Nat
    BY <1>1 DEF DeviceType
  <2> QED BY <1>1, <2>1 DEF DeviceType
<1>3. k = [n EXCEPT !.dev[d] = u]
  BY <1>1 DEF LedgerType
<1> HIDE DEF u
<1>4. Becomes(n, k, d, u)
  BY <1>1, <1>2, <1>3, DeviceTyped
<1>5. k.dev[d] = u
  BY <1>1, <1>4 DEF Becomes, Prepares, LedgerType
<1>6. Update(n, d, c) = Applied(s, d, c.req)
  BY <1>5 DEF Update
<1> HIDE DEF k
<1>7. OriginKnown(n, d) /\ OpenOrigins(n, d) = {v.origin} /\ SessionKnown(n, d)
  BY DEF LedgerInv, OriginKnown
<1>8. v.origin \in Origin
  BY <1>1, <1>7 DEF OpenOrigins, LedgerType
<1>9. /\ Posts(n, s, d, u, c.req, r) /\ s.origins = n.origins
      /\ r.action = "update" /\ r.id = Id(s, d) /\ r.outcome = "pending" /\ r.recovery = "none"
      /\ r.origin = v.origin
  <2>1. Prepares(n, k, d, u) /\ k.origins = n.origins /\ c.action \in ActionType
    BY <1>4 DEF Becomes, ActionType
  <2> QED BY <1>1, <1>2, <1>8, <2>1, RecordedPosts
<1> HIDE DEF s, r
<1>10. s.dev[d] = u
  BY <1>1, <1>9 DEF Posts, LedgerType
<1>11. OriginKnown(s, d)
  BY <1>2, <1>7, <1>9, <1>10 DEF OriginKnown, OpenOrigins
<1>12. ReceiptKnown(s, r)
  BY <1>9 DEF ReceiptKnown
<1>13. Good(n, s)
  <2>1. u.rop \in DOMAIN n.receipts \cup {None, c.req}
    BY <1>2, <1>7 DEF SessionKnown
  <2>2. u.session \in Working => u.rop \in Live(n, d) /\ n.receipts[u.rop].id.inc = u.inc
    BY <1>2, <1>7 DEF SessionKnown
  <2> QED BY <1>2, <1>9, <1>11, <1>12, <2>1, <2>2, PostGood
<1>14. c.req \in DOMAIN s.receipts /\ s.receipts[c.req].outcome = "pending"
       /\ s.receipts[c.req].id.dev = d
  BY <1>9 DEF r, Posts, Put, Id
<1>15. s.dev[d].session \in Working => s.dev[d].rop # c.req
  BY <1>1, <1>2, <1>7, <1>10 DEF SessionKnown, Live
<1>16. PostedBy(n, s, d, c)
  <2>1. Posts(n, s, d, s.dev[d], c.req, s.receipts[c.req])
    BY <1>9, <1>10 DEF r
  <2> QED BY <1>2, <1>9, <1>10, <2>1 DEF PostedBy, r
<1> QED BY <1>6, <1>13, <1>14, <1>15, <1>16 DEF Ready

\* RECOVER prepares a session of its own only for an origin still pending; the answer to any other
\* is known at once.
LEMMA RecoverGood ==
  ASSUME NEW n, LedgerInv(n), NEW d \in Devices, NEW c, c.action = "recover", Fresh(n, c.req),
         c.exp \in Identities, Recoverable(n, d, c.origin), c.origin \in Origin,
         c.origin \in DOMAIN n.origins => n.origins[c.origin].dev = d
  PROVE  Good(n, Recover(n, d, c)) /\ PostedBy(n, Recover(n, d, c), d, c)
<1> DEFINE v == n.dev[d]
           state == OriginState(n, c.origin)
           w == IF state = "pending" THEN [Prepared(v, c.req) EXCEPT !.rop = c.req] ELSE v
           u == [w EXCEPT !.attn = @ + 1]
           k == [n EXCEPT !.dev[d] = u]
           s == Recorded(k, d, c, c.origin, state)
           r == s.receipts[c.req]
<1>1. /\ LedgerType(n) /\ v \in DeviceType /\ c.req \in Request /\ c.req \notin DOMAIN n.receipts
      /\ v.lease = 0 /\ Idle(n, d) /\ SessionKnown(n, d) /\ OriginKnown(n, d)
      /\ state \in {"pending", "never_admitted", "already_retired"}
      /\ (state = "pending" => c.origin \in DOMAIN n.origins)
  BY DeviceTyped DEF LedgerInv, Fresh, Recoverable, OriginState
<1>2. v.session \in {"none", "connected"}
  BY <1>1 DEF Idle
<1> HIDE DEF state
<1>3. /\ w \in DeviceType /\ w.lease = 0 /\ w.rop \in {v.rop, c.req}
      /\ (w.session \in Working => w.rop = c.req /\ state = "pending")
      /\ w.inc = v.inc /\ w.base = v.base /\ w.route = v.route /\ w.attn = v.attn
      /\ w.sess >= v.sess /\ (w.sess = v.sess /\ w.session = "none" => v.session = "none")
      /\ w.origin = v.origin
  <2>0. v.sess \in Nat
    BY <1>1 DEF DeviceType
  <2>1. CASE state = "pending" /\ v.session = "none"
    <3>1. v.sess + 1 \in Nat
      BY <1>1 DEF DeviceType
    <3>2. w = [[v EXCEPT !.session = "recovery", !.sess = @ + 1, !.rop = c.req] EXCEPT !.rop = c.req]
      BY <2>1 DEF Prepared
    <3>3. w \in DeviceType
      BY <1>1, <3>1, <3>2 DEF DeviceType, Working
    <3>4. /\ w.lease = v.lease /\ w.origin = v.origin /\ w.rop = c.req /\ w.session = "recovery"
          /\ w.inc = v.inc /\ w.base = v.base /\ w.route = v.route /\ w.attn = v.attn
          /\ w.sess = v.sess + 1
      BY <1>1, <3>2 DEF DeviceType
    <3> QED BY <1>1, <2>0, <2>1, <3>3, <3>4
  <2>2. CASE state = "pending" /\ v.session = "connected"
    <3>1. w = [v EXCEPT !.rop = c.req]
      BY <2>2 DEF Prepared
    <3>2. w \in DeviceType
      BY <1>1, <3>1 DEF DeviceType, Working
    <3>3. /\ w.lease = v.lease /\ w.origin = v.origin /\ w.rop = c.req /\ w.session = v.session
          /\ w.inc = v.inc /\ w.base = v.base /\ w.route = v.route /\ w.attn = v.attn
          /\ w.sess = v.sess
      BY <1>1, <3>1 DEF DeviceType
    <3> QED BY <1>1, <2>0, <2>2, <3>2, <3>3 DEF Working
  <2>3. CASE state # "pending"
    BY <1>1, <1>2, <2>0, <2>3 DEF Working
  <2> QED BY <1>2, <2>1, <2>2, <2>3
<1> HIDE DEF w
<1>4. /\ u \in DeviceType /\ u.lease = 0 /\ u.rop = w.rop /\ u.session = w.session
      /\ u.inc = w.inc /\ u.base = w.base /\ u.route = w.route /\ u.attn = w.attn + 1
      /\ u.sess = w.sess /\ u.origin = w.origin
  <2>1. w.attn + 1 \in Nat
    BY <1>3 DEF DeviceType
  <2> QED BY <1>3, <2>1 DEF DeviceType
<1>5. Becomes(n, k, d, u)
  BY <1>1, <1>4, DeviceTyped
<1>6. Recover(n, d, c) = IF state = "pending" THEN s ELSE [s EXCEPT !.receipts[c.req].outcome = "no_effect"]
  BY DEF Recover, state, w, u, k
<1> HIDE DEF u, k
<1>7. /\ Posts(n, s, d, u, c.req, r) /\ s.origins = n.origins
      /\ r.action = "recover" /\ r.origin = c.origin /\ r.id = Id(s, d)
      /\ r.outcome = "pending" /\ r.recovery = state
  <2>1. Prepares(n, k, d, u) /\ k.origins = n.origins /\ c.action \in ActionType
    BY <1>5 DEF Becomes, ActionType
  <2> QED BY <1>1, <2>1, RecordedPosts
<1> HIDE DEF s, r
<1>8. s.dev[d] = u
  BY <1>1, <1>7 DEF Posts, LedgerType
<1>9. u.rop \in DOMAIN n.receipts \cup {None, c.req}
  BY <1>1, <1>3, <1>4 DEF SessionKnown
<1>10. CASE state = "pending"
  <2>1. OriginKnown(s, d)
    BY <1>1, <1>4, <1>7, <1>8 DEF OriginKnown, OpenOrigins
  <2>2. ReceiptKnown(s, r)
    BY <1>1, <1>4, <1>7, <1>8, <1>10 DEF ReceiptKnown, Id
  <2>3. Good(n, s)
    BY <1>3, <1>4, <1>7, <1>9, <1>10, <2>1, <2>2, PostGood
  <2>4. PostedBy(n, s, d, c)
    <3>1. Posts(n, s, d, s.dev[d], c.req, s.receipts[c.req])
      BY <1>7, <1>8 DEF r
    <3> QED BY <1>1, <1>3, <1>4, <1>7, <1>8, <3>1 DEF PostedBy, r, state
  <2> QED BY <1>6, <1>10, <2>3, <2>4
<1>11. CASE state # "pending"
  <2> DEFINE x == [r EXCEPT !.outcome = "no_effect"]
             m == [s EXCEPT !.receipts[c.req].outcome = "no_effect"]
  <2>1. /\ LedgerType(s) /\ c.req \in DOMAIN s.receipts /\ r \in ReceiptType
        /\ s.receipts = Put(n.receipts, c.req, r)
    BY <1>7 DEF Posts, Put, LedgerType, r
  <2>2. /\ x \in ReceiptType /\ x.action = "recover" /\ x.outcome = "no_effect" /\ x.id = r.id
        /\ x.origin = r.origin /\ x.recovery = r.recovery
    BY <1>7, <2>1 DEF ReceiptType, OutcomeType, RecoveryType
  <2>3. [s.receipts EXCEPT ![c.req] = x] = Put(n.receipts, c.req, x)
    BY <1>1, <2>1 DEF Put
  <2>4. m = [s EXCEPT !.receipts = [s.receipts EXCEPT ![c.req] = x]]
    BY <2>1 DEF r, LedgerType
  <2> HIDE DEF x, m
  <2>5. /\ m.proc = s.proc /\ m.opn = s.opn /\ m.dev = s.dev /\ m.origins = s.origins
        /\ m.receipts = [s.receipts EXCEPT ![c.req] = x]
        /\ m = [proc |-> m.proc, opn |-> m.opn, dev |-> m.dev, receipts |-> m.receipts,
                origins |-> m.origins]
    <3> DEFINE receipts == [s.receipts EXCEPT ![c.req] = x]
    <3>1. s = [proc |-> s.proc, opn |-> s.opn, dev |-> s.dev, receipts |-> s.receipts,
               origins |-> s.origins]
      BY <2>1 DEF LedgerType
    <3>2. m = [s EXCEPT !.receipts = receipts]
      BY <2>4
    <3> HIDE DEF receipts
    <3>3. m = [proc |-> s.proc, opn |-> s.opn, dev |-> s.dev, receipts |-> receipts,
               origins |-> s.origins]
      BY <3>1, <3>2
    <3> QED BY <3>3 DEF receipts
  <2>6. /\ DOMAIN [s.receipts EXCEPT ![c.req] = x] = DOMAIN s.receipts
        /\ [s.receipts EXCEPT ![c.req] = x] \in [DOMAIN s.receipts -> ReceiptType]
    BY <2>1, <2>2 DEF LedgerType
  <2>7. LedgerType(m)
    BY <2>1, <2>5, <2>6 DEF LedgerType
  <2>8. Posts(n, m, d, u, c.req, x)
    BY <1>7, <2>3, <2>5, <2>7 DEF Posts
  <2>9. x.id = Id(m, d)
    BY <1>7, <2>2, <2>5 DEF Id
  <2>10. OriginKnown(m, d)
    BY <1>1, <1>4, <1>7, <1>8, <2>5 DEF OriginKnown, OpenOrigins
  <2>11. ReceiptKnown(m, x)
    BY <2>2 DEF ReceiptKnown
  <2>12. u.session \notin Working /\ m.origins = n.origins
    BY <1>3, <1>4, <1>7, <1>11, <2>5
  <2>13. Good(n, m)
    BY <1>4, <1>9, <2>8, <2>9, <2>10, <2>11, <2>12, PostGood
  <2>14. PostedBy(n, m, d, c)
    <3>1. m.receipts[c.req] = x /\ m.dev[d] = u
      BY <1>8, <2>1, <2>5
    <3>2. Posts(n, m, d, m.dev[d], c.req, m.receipts[c.req])
      BY <2>8, <3>1
    <3> QED BY <1>1, <1>3, <1>4, <1>7, <2>2, <2>5, <2>9, <2>12, <3>1, <3>2 DEF PostedBy, state
  <2> QED BY <1>6, <1>11, <2>13, <2>14 DEF m
<1> QED BY <1>10, <1>11

LEMMA AdmittedGood ==
  ASSUME NEW n, LedgerInv(n), NEW c, c.exp \in Identities, Fresh(n, c.req), Admits(n, c),
         c.action \in ActionType,
         c.action = "recover" => /\ c.origin \in Origin
                                 /\ c.origin \in DOMAIN n.origins => n.origins[c.origin].dev = c.exp.dev
  PROVE  Good(n, Admitted(n, c))
<1> DEFINE d == c.exp.dev
<1>1. d \in Devices
  BY DEF Identities
<1>2. CASE c.action = "begin"
  BY <1>1, <1>2, BeginPosts, AppliedGood DEF Admits, Admitted
<1>3. CASE c.action = "update"
  BY <1>1, <1>3, UpdatePosts, AppliedGood DEF Admits, Admitted
<1>4. CASE c.action = "release"
  <2>1. Good(n, Release(n, d, c))
    BY <1>1, <1>4, ReleaseGood, ExtendsGood DEF Admits
  <2> QED BY <1>4, <2>1 DEF Admitted
<1>5. CASE c.action = "recover"
  BY <1>1, <1>5, RecoverGood DEF Admits, Admitted
<1> QED BY <1>2, <1>3, <1>4, <1>5 DEF ActionType

-----------------------------------------------------------------------------
(* A session ends *)

\* What may happen to a device whose session is gone before its command completes.
Settles(n, m, d) ==
  /\ LedgerInv(m) /\ Extends(n, m) /\ m.receipts = n.receipts
  /\ \A e \in Devices : m.dev[e].base = n.dev[e].base /\ m.dev[e].inc = n.dev[e].inc
  /\ m.dev[d].session = "none"

LEMMA SettlesTwice ==
  ASSUME NEW n, NEW k, NEW m, NEW d \in Devices, Settles(n, k, d), Settles(k, m, d)
  PROVE  Settles(n, m, d)
BY DEF Settles, Extends

LEMMA DeviceSettles ==
  ASSUME NEW n, LedgerInv(n), NEW d \in Devices, NEW v \in DeviceType,
         v.lease # 0 => v.lease = n.dev[d].lease /\ v.origin = n.dev[d].origin,
         v.rop \in DOMAIN n.receipts \cup {None}, v.session = "none",
         v.base = n.dev[d].base, v.inc = n.dev[d].inc
  PROVE  Settles(n, [n EXCEPT !.dev[d] = v], d)
<1> DEFINE m == [n EXCEPT !.dev[d] = v]
<1>1. Becomes(n, m, d, v) /\ LedgerType(n)
  BY DeviceTyped DEF LedgerInv
<1> HIDE DEF m
<1>2. LedgerInv(m) /\ Extends(n, m)
  BY <1>1, DeviceGood DEF Working
<1>3. m.dev[d] = v /\ m.receipts = n.receipts /\ \A e \in Devices \ {d} : m.dev[e] = n.dev[e]
  BY <1>1 DEF Becomes, Prepares, LedgerType
<1> QED BY <1>2, <1>3 DEF Settles, m

LEMMA DrainedSettles ==
  ASSUME NEW n, LedgerInv(n), NEW d \in Devices, NEW q \in DOMAIN n.receipts
  PROVE  /\ LedgerInv(Drained(n, d, q)) /\ Extends(n, Drained(n, d, q))
         /\ n.dev[d].session = "none" => Settles(n, Drained(n, d, q), d)
<1> DEFINE v == n.dev[d]
           x == [op |-> n.receipts[q].op, req |-> q]
           u == [v EXCEPT !.drained = x]
<1>1. LedgerType(n) /\ v \in DeviceType /\ SessionKnown(n, d)
  BY DeviceTyped DEF LedgerInv
<1>2. x \in [op : Nat, req : Request]
  BY <1>1 DEF LedgerType, ReceiptType
<1> HIDE DEF x
<1>3. /\ u \in DeviceType /\ u.lease = v.lease /\ u.origin = v.origin /\ u.rop = v.rop
      /\ u.session = v.session /\ u.base = v.base /\ u.inc = v.inc
  BY <1>1, <1>2 DEF DeviceType
<1>4. [n EXCEPT !.dev[d].drained = x] = [n EXCEPT !.dev[d] = u]
  BY <1>1 DEF LedgerType
<1> HIDE DEF u
<1>5. CASE v.session = "none"
  <2>1. Settles(n, [n EXCEPT !.dev[d] = u], d)
    BY <1>1, <1>3, <1>5, DeviceSettles DEF SessionKnown
  <2>2. Settles(n, n, d)
    BY <1>5 DEF Settles, Extends
  <2> QED BY <1>4, <2>1, <2>2 DEF Drained, Settles, x
<1>6. CASE v.session # "none"
  BY <1>6 DEF Drained, Extends
<1> QED BY <1>5, <1>6

LEMMA HandoffSettles ==
  ASSUME NEW n, LedgerInv(n), NEW d \in Devices, NEW q, n.dev[d].session = "none"
  PROVE  Settles(n, HandoffDrained(n, d, q), d)
<1> DEFINE v == n.dev[d]
           u == [v EXCEPT !.lease = 0, !.rest = FALSE, !.expired = FALSE]
<1>1. LedgerType(n) /\ v \in DeviceType /\ SessionKnown(n, d)
  BY DeviceTyped DEF LedgerInv
<1>2. /\ u \in DeviceType /\ u.lease = 0 /\ u.rop = v.rop
      /\ u.session = v.session /\ u.base = v.base /\ u.inc = v.inc
  BY <1>1 DEF DeviceType
<1>3. [n EXCEPT !.dev[d].lease = 0, !.dev[d].rest = FALSE, !.dev[d].expired = FALSE]
        = [n EXCEPT !.dev[d] = u]
  BY <1>1 DEF LedgerType
<1> HIDE DEF u
<1>4. Settles(n, [n EXCEPT !.dev[d] = u], d)
  BY <1>1, <1>2, DeviceSettles DEF SessionKnown
<1>5. Settles(n, n, d)
  BY DEF Settles, Extends
<1> QED BY <1>3, <1>4, <1>5 DEF HandoffDrained

LEMMA SettledCompletes ==
  ASSUME NEW n, LedgerInv(n), NEW m, NEW d \in Devices, Settles(n, m, d),
         NEW q \in Live(n, d), NEW outcome \in Verdict
  PROVE  Good(n, Complete(m, q, outcome))
<1>1. /\ LedgerInv(m) /\ Extends(n, m) /\ m.receipts = n.receipts /\ LedgerType(n)
      /\ \A e \in Devices : m.dev[e].base = n.dev[e].base /\ m.dev[e].inc = n.dev[e].inc
  BY DEF Settles, LedgerInv
<1>2. /\ q \in DOMAIN m.receipts /\ m.receipts[q].outcome = "pending"
      /\ m.dev[m.receipts[q].id.dev].session \notin Working
  BY DEF Settles, Live, Working
<1>3. Good(m, Complete(m, q, outcome))
  BY <1>1, <1>2, CompleteGood
<1> HIDE DEF Settles
<1> QED BY <1>1, <1>3, ExtendsThenGood

\* Whatever session ends, the command it carried or the one queued on it completes.
LEMMA SessionEndedGood ==
  ASSUME NEW n, LedgerInv(n), NEW d \in Devices, NEW outcome
  PROVE  Good(n, SessionEnded(n, d, outcome))
<1> DEFINE v == n.dev[d]
           q == v.rop
           u == [v EXCEPT !.session = "none", !.sess = @ + 1, !.rop = None]
           m == [n EXCEPT !.dev[d] = u]
           verdict == IF outcome = "accepted" THEN "accepted" ELSE "unknown"
<1>1. LedgerType(n) /\ v \in DeviceType /\ SessionKnown(n, d)
  BY DeviceTyped DEF LedgerInv
<1>2. /\ u \in DeviceType /\ u.lease = v.lease /\ u.origin = v.origin /\ u.rop = None
      /\ u.session = "none" /\ u.base = v.base /\ u.inc = v.inc
  <2>1. v.sess + 1 \in Nat
    BY <1>1 DEF DeviceType
  <2> QED BY <1>1, <2>1 DEF DeviceType
<1>3. m = [n EXCEPT !.dev[d].session = "none", !.dev[d].sess = @ + 1, !.dev[d].rop = None]
  BY <1>1 DEF LedgerType
<1>4. SessionEnded(n, d, outcome) =
        CASE v.session = "handoff" -> Complete(HandoffDrained(Drained(m, d, q), d, q), q, "unknown")
          [] v.session = "recovery" -> Complete(Drained(m, d, q), q, verdict)
          [] OTHER -> IF q = None THEN Flushed(m, d) ELSE Drained(Flushed(m, d), d, q)
  BY <1>3 DEF SessionEnded
<1>5. Settles(n, m, d)
  <2> HIDE DEF u
  <2> QED BY <1>2, DeviceSettles
<1> HIDE DEF u, m, verdict
<1>6. "unknown" \in Verdict /\ verdict \in Verdict
  BY DEF Verdict, verdict
<1>7. LedgerInv(m) /\ m.dev[d].session = "none" /\ m.receipts = n.receipts
  BY <1>5 DEF Settles
<1>8. CASE v.session \in Working
  <2>1. q \in Live(n, d) /\ q \in DOMAIN m.receipts
    BY <1>1, <1>7, <1>8 DEF SessionKnown, Live
  <2> DEFINE k == Drained(m, d, q)
             h == HandoffDrained(k, d, q)
  <2>2. Settles(m, k, d)
    BY <1>7, <2>1, DrainedSettles
  <2>3. Settles(n, k, d)
    BY <1>5, <2>2, SettlesTwice
  <2>4. LedgerInv(k) /\ k.dev[d].session = "none"
    BY <2>2 DEF Settles
  <2> HIDE DEF k
  <2>5. Settles(k, h, d)
    BY <2>4, HandoffSettles
  <2>6. Settles(n, h, d)
    BY <2>3, <2>5, SettlesTwice
  <2> HIDE DEF h
  <2>7. Good(n, Complete(h, q, "unknown")) /\ Good(n, Complete(k, q, verdict))
    BY <1>6, <2>1, <2>3, <2>6, SettledCompletes
  <2> QED BY <1>4, <1>8, <2>7 DEF Working, h, k
<1>9. CASE v.session \notin Working
  <2> DEFINE f == Flushed(m, d)
             p == CHOOSE x \in Live(m, d) : m.receipts[x].id.inc = m.dev[d].inc
  <2>1. Good(n, f)
    <3>1. CASE Unresolved(m, d)
      <4>1. p \in Live(m, d)
        BY <3>1 DEF Unresolved
      <4>2. p \in Live(n, d)
        BY <1>5, <4>1 DEF Settles, Extends, Live
      <4> HIDE DEF p
      <4>3. Good(n, Complete(m, p, "unknown"))
        BY <1>5, <1>6, <4>2, SettledCompletes
      <4> QED BY <3>1, <4>3 DEF Flushed, p
    <3>2. CASE ~Unresolved(m, d)
      <4>1. Good(n, m)
        BY <1>5, ExtendsGood DEF Settles
      <4> QED BY <3>2, <4>1 DEF Flushed
    <3> QED BY <3>1, <3>2
  <2> HIDE DEF f
  <2>2. CASE q # None
    <3>1. q \in DOMAIN f.receipts /\ LedgerInv(f)
      BY <1>1, <2>1, <2>2 DEF SessionKnown, Good, Keeps
    <3>2. LedgerInv(Drained(f, d, q)) /\ Extends(f, Drained(f, d, q))
      BY <3>1, DrainedSettles
    <3>3. Good(n, Drained(f, d, q))
      BY <2>1, <3>2, GoodExtends
    <3> QED BY <1>4, <1>9, <2>2, <3>3 DEF Working, f
  <2>3. CASE q = None
    BY <1>4, <1>9, <2>1, <2>3 DEF Working, f
  <2> QED BY <2>2, <2>3
<1> QED BY <1>8, <1>9

-----------------------------------------------------------------------------
(* The steps *)

\* A device that changes by itself keeps its lease, and names no other operation.
LEMMA ChangedGood ==
  ASSUME NEW n, LedgerInv(n), NEW d \in Devices, NEW v \in DeviceType,
         v.lease # 0 => v.lease = n.dev[d].lease /\ v.origin = n.dev[d].origin,
         v.rop = None \/ v.rop = n.dev[d].rop,
         v.session \in Working => v.session = n.dev[d].session /\ v.rop = n.dev[d].rop /\ v.inc = n.dev[d].inc
  PROVE  /\ LedgerInv([n EXCEPT !.dev[d] = v]) /\ Extends(n, [n EXCEPT !.dev[d] = v])
         /\ Good(n, [n EXCEPT !.dev[d] = v])
<1> DEFINE m == [n EXCEPT !.dev[d] = v]
<1>1. Becomes(n, m, d, v) /\ SessionKnown(n, d)
  BY DeviceTyped DEF LedgerInv
<1> HIDE DEF m
<1>2. LedgerInv(m) /\ Extends(n, m)
  BY <1>1, DeviceGood DEF SessionKnown
<1> QED BY <1>2, ExtendsGood DEF m

LEMMA DeviceSteps ==
  ASSUME NInv, NEW d \in Devices,
         BaseChanged(d) \/ RouteChanged(d) \/ SessionStarts(d) \/ SessionConnects(d) \/ DeviceReadded(d)
  PROVE  Good(nat, nat')
<1> DEFINE v == nat.dev[d]
<1>1. LedgerInv(nat) /\ v \in DeviceType /\ LedgerType(nat)
  BY DeviceTyped DEF NInv, LedgerInv
<1>2. v.base + 1 \in Nat /\ v.route + 1 \in Nat /\ v.sess + 1 \in Nat /\ v.inc + 1 \in Nat
  BY <1>1 DEF DeviceType
<1>3. CASE BaseChanged(d)
  <2> DEFINE u == [v EXCEPT !.base = @ + 1]
  <2>1. u \in DeviceType /\ u.lease = v.lease /\ u.origin = v.origin /\ u.rop = v.rop
        /\ u.session = v.session /\ u.inc = v.inc
    BY <1>1, <1>2 DEF DeviceType
  <2>2. nat' = [nat EXCEPT !.dev[d] = u]
    BY <1>3 DEF BaseChanged, Change
  <2> HIDE DEF u
  <2> QED BY <1>1, <2>1, <2>2, ChangedGood
<1>4. CASE RouteChanged(d)
  <2> DEFINE u == [v EXCEPT !.route = @ + 1]
  <2>1. u \in DeviceType /\ u.lease = v.lease /\ u.origin = v.origin /\ u.rop = v.rop
        /\ u.session = v.session /\ u.inc = v.inc
    BY <1>1, <1>2 DEF DeviceType
  <2>2. nat' = [nat EXCEPT !.dev[d] = u]
    BY <1>4 DEF RouteChanged, Change
  <2> HIDE DEF u
  <2> QED BY <1>1, <2>1, <2>2, ChangedGood
<1>5. CASE SessionStarts(d)
  <2> DEFINE u == [v EXCEPT !.session = "starting", !.sess = @ + 1]
  <2>1. u \in DeviceType /\ u.lease = v.lease /\ u.origin = v.origin /\ u.rop = v.rop
        /\ u.session \notin Working
    BY <1>1, <1>2 DEF DeviceType, Working
  <2>2. nat' = [nat EXCEPT !.dev[d] = u]
    BY <1>5 DEF SessionStarts, Change
  <2> HIDE DEF u
  <2> QED BY <1>1, <2>1, <2>2, ChangedGood
<1>6. CASE SessionConnects(d)
  <2> DEFINE u == [v EXCEPT !.session = "connected"]
  <2>1. u \in DeviceType /\ u.lease = v.lease /\ u.origin = v.origin /\ u.rop = v.rop
        /\ u.session \notin Working
    BY <1>1, <1>2 DEF DeviceType, Working
  <2>2. nat' = [nat EXCEPT !.dev[d] = u]
    BY <1>1, <1>6 DEF SessionConnects, LedgerType
  <2> HIDE DEF u
  <2> QED BY <1>1, <2>1, <2>2, ChangedGood
<1>7. CASE DeviceReadded(d)
  <2> DEFINE u == NewDevice(v.inc + 1)
  <2>1. u \in DeviceType /\ u.lease = 0 /\ u.rop = None /\ u.session \notin Working
    BY <1>2 DEF NewDevice, DeviceType, Working
  <2>2. nat' = [nat EXCEPT !.dev[d] = u]
    BY <1>7 DEF DeviceReadded, Change
  <2> HIDE DEF u
  <2> QED BY <1>1, <2>1, <2>2, ChangedGood
<1> QED BY <1>3, <1>4, <1>5, <1>6, <1>7

LEMMA RespondedGood ==
  ASSUME NInv, NativeAssumption, NEW d \in Devices, Responded(d)
  PROVE  Good(nat, nat')
<1>1. PICK q \in Live(nat, d), outcome \in Outcomes :
        /\ nat.receipts[q].id.inc = nat.dev[d].inc => nat.dev[d].session = "connected"
        /\ LET m == Complete(nat, q, outcome)
           IN nat' = IF m.receipts[q].recovery = "restored" THEN [m EXCEPT !.dev[d].rop = None] ELSE m
  BY DEF Responded
<1> DEFINE m == Complete(nat, q, outcome)
<1>2. /\ q \in DOMAIN nat.receipts /\ nat.receipts[q].id.dev = d
      /\ nat.receipts[q].outcome = "pending" /\ outcome \in Verdict /\ SessionKnown(nat, d)
  BY DEF Live, NativeAssumption, Verdict, NInv, LedgerInv
<1>3. nat.dev[d].session \in Working => nat.dev[d].rop # q
  BY <1>1, <1>2 DEF SessionKnown, Working
<1>4. /\ Good(nat, m)
      /\ m.receipts[q].recovery = "restored" => nat.dev[d].inc = nat.receipts[q].id.inc
      /\ nat.dev[d].session = "connected" => m.dev[d].session = "connected"
  BY <1>2, <1>3, CompleteGood DEF NInv
<1>5. nat' = IF m.receipts[q].recovery = "restored" THEN [m EXCEPT !.dev[d].rop = None] ELSE m
  BY <1>1
<1> HIDE DEF m
<1>6. CASE m.receipts[q].recovery = "restored"
  <2> DEFINE v == m.dev[d]
             u == [v EXCEPT !.rop = None]
  <2>1. LedgerInv(m) /\ LedgerType(m) /\ v \in DeviceType /\ v.session = "connected"
    BY <1>1, <1>4, <1>6, DeviceTyped DEF Good, LedgerInv
  <2>2. u \in DeviceType /\ u.lease = v.lease /\ u.origin = v.origin /\ u.rop = None
        /\ u.session \notin Working
    BY <2>1 DEF DeviceType, Working
  <2>3. nat' = [m EXCEPT !.dev[d] = u]
    BY <1>5, <1>6, <2>1 DEF LedgerType
  <2> HIDE DEF u
  <2>4. LedgerInv(nat') /\ Extends(m, nat')
    BY <2>1, <2>2, <2>3, ChangedGood
  <2> QED BY <1>4, <2>4, GoodExtends
<1> QED BY <1>4, <1>5, <1>6

LEMMA TimerGood ==
  ASSUME NInv, NEW d \in Devices, TimerFires(d)
  PROVE  Good(nat, nat')
<1> DEFINE v == nat.dev[d]
           u == [v EXCEPT !.rest = TRUE, !.expired = TRUE, !.attn = @ + 1]
           k == [nat EXCEPT !.dev[d] = u]
<1>1. LedgerInv(nat) /\ v \in DeviceType /\ LedgerType(nat)
  BY DeviceTyped DEF NInv, LedgerInv
<1>2. u \in DeviceType /\ u.lease = v.lease /\ u.origin = v.origin /\ u.rop = v.rop
      /\ u.session = v.session /\ u.inc = v.inc
  <2>1. v.attn + 1 \in Nat
    BY <1>1 DEF DeviceType
  <2> QED BY <1>1, <2>1 DEF DeviceType
<1>3. [nat EXCEPT !.dev[d].rest = TRUE, !.dev[d].expired = TRUE, !.dev[d].attn = @ + 1] = k
  BY <1>1 DEF LedgerType
<1>4. nat' = ExpiryReconcile(k, d)
  BY <1>3 DEF TimerFires
<1>5. Good(nat, k) /\ LedgerInv(k)
  <2> HIDE DEF u
  <2> QED BY <1>1, <1>2, ChangedGood
<1> HIDE DEF k
<1>6. LedgerInv(nat') /\ Extends(k, nat')
  BY <1>4, <1>5, ExpiryGood
<1> QED BY <1>5, <1>6, GoodExtends

\* A command of a client is numbered after every command of the process.
LEMMA PostedGood ==
  ASSUME NInv, Posted
  PROVE  Good(nat, nat')
<1>1. PICK d \in Devices, action \in ActionType, o \in DOMAIN nat.origins \cup {Stranger} :
        LET c == [action |-> action, req |-> <<"client", nat.proc, nat.opn + 1>>,
                  exp |-> Id(nat, d), origin |-> o]
        IN /\ o \in DOMAIN nat.origins => nat.origins[o].dev = d
           /\ Admits(nat, c)
           /\ nat' = Admitted(nat, c)
  BY DEF Posted, ActionType
<1> DEFINE c == [action |-> action, req |-> <<"client", nat.proc, nat.opn + 1>>,
                 exp |-> Id(nat, d), origin |-> o]
<1>2. Admits(nat, c) /\ nat' = Admitted(nat, c)
  BY <1>1
<1>3. /\ LedgerInv(nat) /\ LedgerType(nat) /\ Numbered(nat) /\ nat.proc \in Nat /\ nat.opn \in Nat
      /\ Id(nat, d) \in Identities /\ Id(nat, d).dev = d
  BY DeviceTyped DEF NInv, LedgerInv, LedgerType, Id
<1>4. Fresh(nat, <<"client", nat.proc, nat.opn + 1>>)
  BY <1>3 DEF Fresh, Numbered, Request, Numbering
<1>5. o \in Origin
  BY <1>3 DEF Stranger, Origin, Request, Numbering, LedgerType
<1>6. /\ c.action = action /\ c.exp = Id(nat, d) /\ c.origin = o
      /\ c.req = <<"client", nat.proc, nat.opn + 1>>
  OBVIOUS
<1>7. o \in DOMAIN nat.origins => nat.origins[o].dev = d
  BY <1>1
<1> HIDE DEF c
<1> QED BY <1>2, <1>3, <1>4, <1>5, <1>6, <1>7, AdmittedGood

\* A restarted process keeps the database, and no device of the one before.
LEMMA RestartGood ==
  ASSUME NInv, ProcessRestarts
  PROVE  LedgerInv(nat') /\ Keeps(nat, nat') /\ Restores(nat, nat') /\ nat'.proc = nat.proc + 1
<1>1. /\ nat'.proc = nat.proc + 1 /\ nat'.opn = 0 /\ nat'.dev = [d \in Devices |-> NewDevice(1)]
      /\ nat'.receipts = nat.receipts /\ nat'.origins = nat.origins
      /\ nat' = [proc |-> nat'.proc, opn |-> nat'.opn, dev |-> nat'.dev, receipts |-> nat'.receipts,
                 origins |-> nat'.origins]
  BY DEF ProcessRestarts, Restarted, NativeStart
<1>2. LedgerType(nat) /\ nat.proc \in Nat
  BY DEF NInv, LedgerInv, LedgerType
<1>3. /\ NewDevice(1) \in DeviceType /\ NewDevice(1).lease = 0 /\ NewDevice(1).rop = None
      /\ NewDevice(1).session \notin Working
  BY DEF NewDevice, DeviceType, Working
<1>4. LedgerType(nat')
  BY <1>1, <1>2, <1>3 DEF LedgerType
<1>5. ASSUME NEW d \in Devices PROVE OriginKnown(nat', d) /\ SessionKnown(nat', d)
  <2>1. nat'.dev[d] = NewDevice(1)
    BY <1>1
  <2>2. OpenOrigins(nat', d) = OpenOrigins(nat, d)
    BY <1>1 DEF OpenOrigins
  <2>3. OriginKnown(nat, d)
    BY DEF NInv, LedgerInv
  <2> QED BY <1>3, <2>1, <2>2, <2>3 DEF OriginKnown, SessionKnown
<1>6. Numbered(nat')
  <2>1. \A q \in Numbering \X Nat \X Nat : q[2] \in Nat
    OBVIOUS
  <2> QED BY <1>1, <1>2, <2>1 DEF NInv, LedgerInv, Numbered
<1>7. Received(nat') /\ \A q \in DOMAIN nat'.receipts : ReceiptKnown(nat', nat'.receipts[q])
  BY <1>1 DEF NInv, LedgerInv, Received, ReceiptKnown
<1> QED BY <1>1, <1>4, <1>5, <1>6, <1>7 DEF LedgerInv, Keeps, Restores

LEMMA StepGood ==
  ASSUME NInv, NNext
  PROVE  /\ LedgerInv(nat') /\ Keeps(nat, nat') /\ Restores(nat, nat')
         /\ nat'.proc = nat.proc \/ (ProcessRestarts /\ nat'.proc = nat.proc + 1)
<1>1. CASE Posted
  BY <1>1, PostedGood DEF Good
<1>2. CASE ProcessRestarts
  BY <1>2, RestartGood
<1>3. CASE NativeStep
  <2>1. PICK d \in Devices :
          \/ BaseChanged(d) \/ RouteChanged(d)
          \/ SessionStarts(d) \/ SessionConnects(d) \/ SessionLost(d) \/ RecoverySessionEnds(d)
          \/ DeviceReadded(d) \/ Responded(d) \/ TimerFires(d)
    BY <1>3 DEF NativeStep
  <2>2. CASE SessionLost(d)
    BY <2>2, SessionEndedGood DEF SessionLost, NInv, Good
  <2>3. CASE RecoverySessionEnds(d)
    BY <2>3, SessionEndedGood DEF RecoverySessionEnds, NInv, Good
  <2>4. CASE Responded(d)
    BY <2>4, RespondedGood, NativeAssumption DEF Good
  <2>5. CASE TimerFires(d)
    BY <2>5, TimerGood DEF Good
  <2>6. CASE BaseChanged(d) \/ RouteChanged(d) \/ SessionStarts(d) \/ SessionConnects(d) \/ DeviceReadded(d)
    BY <2>6, DeviceSteps DEF Good
  <2> QED BY <2>1, <2>2, <2>3, <2>4, <2>5, <2>6
<1> QED BY <1>1, <1>2, <1>3 DEF NNext

-----------------------------------------------------------------------------
(* The ledger of NSpec *)

LEMMA StartInv == NInit => NInv
<1> SUFFICES ASSUME NInit PROVE NInv
  OBVIOUS
<1>1. /\ nat.proc = 1 /\ nat.opn = 0 /\ nat.dev = [d \in Devices |-> NewDevice(1)]
      /\ nat.receipts = NoEntries /\ nat.origins = NoEntries
      /\ nat = [proc |-> nat.proc, opn |-> nat.opn, dev |-> nat.dev, receipts |-> nat.receipts,
                origins |-> nat.origins]
  BY DEF NInit, NativeStart
<1>2. /\ NewDevice(1) \in DeviceType /\ NewDevice(1).lease = 0 /\ NewDevice(1).rop = None
      /\ NewDevice(1).session \notin Working
  BY DEF NewDevice, DeviceType, Working
<1>3. DOMAIN NoEntries = {} /\ NoEntries \in [{} -> ReceiptType] /\ NoEntries \in [{} -> OriginType]
  BY DEF NoEntries
<1>4. LedgerType(nat)
  BY <1>1, <1>2, <1>3 DEF LedgerType
<1>5. ASSUME NEW d \in Devices PROVE OriginKnown(nat, d) /\ SessionKnown(nat, d)
  BY <1>1, <1>2, <1>3 DEF OriginKnown, SessionKnown, OpenOrigins
<1> QED BY <1>1, <1>3, <1>4, <1>5 DEF NInv, LedgerInv, Numbered, Received

\* The ledger's inductive invariant: every receipt and origin is known to the device, session or
\* process that relies on it, whatever clients post and whatever ends, changes or restarts.
THEOREM LedgerInvariant == NSpec => []NInv
<1>1. NInv /\ [NNext]_nvars => NInv'
  <2>1. ASSUME NInv, NNext PROVE NInv'
    BY <2>1, StepGood DEF NInv
  <2>2. ASSUME NInv, UNCHANGED nvars PROVE NInv'
    BY <2>2 DEF NInv, nvars
  <2> QED BY <2>1, <2>2
<1> QED BY <1>1, StartInv, PTL DEF NSpec

\* Processes and changes are counted up to their bounds.
Counted == changes \in 0 .. MaxChanges /\ nat.proc \in 1 .. MaxRestarts + 1

LEMMA CountedAlways == NSpec => []Counted
<1>1. NInit => Counted
  BY NativeAssumption DEF NInit, NativeStart, Counted
<1>2. NInv /\ Counted /\ [NNext]_nvars => Counted'
  <2> SUFFICES ASSUME NInv, Counted, [NNext]_nvars PROVE Counted'
    OBVIOUS
  <2>1. changes \in Nat /\ MaxChanges \in Nat /\ nat.proc \in Nat /\ MaxRestarts \in Nat
    BY NativeAssumption DEF Counted
  <2>2. CASE UNCHANGED nvars
    BY <2>2 DEF Counted, nvars
  <2>3. CASE NNext
    <3>1. nat'.proc = nat.proc \/ (nat.proc <= MaxRestarts /\ nat'.proc = nat.proc + 1)
      BY <2>3, StepGood DEF ProcessRestarts
    <3>2. changes' = changes \/ (changes < MaxChanges /\ changes' = changes + 1)
      BY <2>3 DEF NNext, Posted, NativeStep, ProcessRestarts, BaseChanged, RouteChanged, SessionStarts,
                  SessionConnects, SessionLost, RecoverySessionEnds, DeviceReadded, Responded, TimerFires,
                  Change
    <3> QED BY <2>1, <3>1, <3>2 DEF Counted
  <2> QED BY <2>2, <2>3
<1> QED BY <1>1, <1>2, LedgerInvariant, PTL DEF NSpec

\* Every field of the native state keeps its type, and a session that restores or hands off names
\* a pending receipt of its device.
THEOREM LedgerTyped == NSpec => []NTypeOK
<1>1. NInv /\ Counted => NTypeOK
  <2> SUFFICES ASSUME NInv, Counted PROVE NTypeOK
    OBVIOUS
  <2>1. LedgerType(nat)
    BY DEF NInv, LedgerInv
  <2>2. ASSUME NEW d \in Devices
        PROVE  /\ Id(nat, d) \in Identities
               /\ nat.dev[d].session \in {"none", "starting", "connected", "recovery", "handoff"}
               /\ nat.dev[d].session \in {"recovery", "handoff"} => nat.dev[d].rop \in Live(nat, d)
    <3>1. Id(nat, d) \in Identities /\ nat.dev[d] \in DeviceType /\ SessionKnown(nat, d)
      BY <2>1, DeviceTyped DEF NInv, LedgerInv
    <3> QED BY <3>1 DEF DeviceType, Working, SessionKnown
  <2>3. \A q \in DOMAIN nat.receipts : nat.receipts[q].id \in Identities
    BY <2>1 DEF LedgerType, ReceiptType
  <2>4. nat.opn \in Nat
    BY <2>1 DEF LedgerType
  <2> QED BY <2>2, <2>3, <2>4 DEF NTypeOK, Counted
<1> QED BY <1>1, LedgerInvariant, CountedAlways, PTL

\* For any number of devices, clients' commands and restarts, a device has at most one unrestored
\* origin, and it is the one of the lease in force.
THEOREM OneOpenOriginAlways == NSpec => []OneOpenOrigin
<1>1. NInv => OneOpenOrigin
  <2> SUFFICES ASSUME NInv, NEW d \in Devices
               PROVE  /\ Cardinality(OpenOrigins(nat, d)) <= 1
                      /\ nat.dev[d].lease # 0 => OpenOrigins(nat, d) = {nat.dev[d].origin}
    BY DEF OneOpenOrigin
  <2>1. OriginKnown(nat, d)
    BY DEF NInv, LedgerInv
  <2>2. ASSUME NEW o \in OpenOrigins(nat, d) PROVE OpenOrigins(nat, d) = {o}
    BY <2>1 DEF OriginKnown
  <2>3. Cardinality(OpenOrigins(nat, d)) <= 1
    <3>1. CASE OpenOrigins(nat, d) = {}
      BY <3>1, FS_EmptySet
    <3>2. CASE OpenOrigins(nat, d) # {}
      <4>1. PICK o \in OpenOrigins(nat, d) : TRUE
        BY <3>2
      <4>2. OpenOrigins(nat, d) = {o}
        BY <2>2
      <4>3. Cardinality({o}) = 1
        BY FS_Singleton
      <4> QED BY <4>2, <4>3
    <3> QED BY <3>1, <3>2
  <2> QED BY <2>1, <2>3 DEF OriginKnown
<1> QED BY <1>1, LedgerInvariant, PTL

\* Whatever the order of responses, drained sessions, expiries and restarts, an origin is retired
\* only by an accepted write that carried the device's latest base volume.
THEOREM RestoresLatestBaseAlways == NSpec => RestoresLatestBase
<1>1. NInv /\ [NNext]_nvars =>
        [\A o \in DOMAIN nat.origins : nat'.origins[o].retired /\ ~nat.origins[o].retired =>
           \E q \in DOMAIN nat.receipts :
              /\ nat'.receipts[q].origin = o /\ nat'.receipts[q].outcome = "accepted"
              /\ nat'.receipts[q].id.base = nat.dev[nat.origins[o].dev].base
              /\ nat'.receipts[q].id.proc = nat.proc
              /\ nat'.receipts[q].id.inc = nat.dev[nat.origins[o].dev].inc]_nvars
  <2>1. ASSUME NInv, NNext PROVE Restores(nat, nat')
    BY <2>1, StepGood
  <2> QED BY <2>1 DEF Restores
<1> QED BY <1>1, LedgerInvariant, PTL DEF NSpec, RestoresLatestBase

\* A receipt that has a terminal outcome never changes again, in this process or a later one.
THEOREM OutcomesFinalAlways == NSpec => OutcomesFinal
<1>1. NInv /\ [NNext]_nvars =>
        [\A q \in DOMAIN nat.receipts : nat.receipts[q].outcome # "pending" =>
           nat'.receipts[q] = nat.receipts[q]]_nvars
  <2>1. ASSUME NInv, NNext PROVE Keeps(nat, nat')
    BY <2>1, StepGood
  <2> QED BY <2>1 DEF Keeps
<1> QED BY <1>1, LedgerInvariant, PTL DEF NSpec, OutcomesFinal
-----------------------------------------------------------------------------
(* What an accepted answer proves *)

\* The receipt was taken by the device's present incarnation.
Same(n, r) == r.id.proc = n.proc /\ r.id.inc = n.dev[r.id.dev].inc

\* The receipt r can never be current again.
Over(n, r) ==
  LET v == n.dev[r.id.dev]
  IN \/ ~Same(n, r)
     \/ r.id.base < v.base \/ r.id.attn < v.attn \/ r.id.route < v.route
     \/ r.id.sess + 1 < v.sess
     \/ v.sess = r.id.sess + 1 /\ v.session # "none"

\* Revisions only grow, so a receipt has none of the future.
AgeKnown(n, r) ==
  LET v == n.dev[r.id.dev]
  IN /\ r.id.proc <= n.proc
     /\ r.id.proc = n.proc => r.id.inc <= v.inc /\ r.id.lease <= n.opn
     /\ Same(n, r) => /\ r.id.base <= v.base /\ r.id.attn <= v.attn
                      /\ r.id.route <= v.route /\ r.id.sess <= v.sess

IsRetired(n, o) == o \in DOMAIN n.origins /\ n.origins[o].retired

\* A release that was accepted and may be current has retired its origin, and a recover answers
\* for good.
TerminalKnown(n, r) ==
  /\ r.action = "release" /\ r.outcome = "accepted" => Over(n, r) \/ IsRetired(n, r.origin)
  /\ r.action = "recover" /\ r.recovery \in {"restored", "already_retired"} => IsRetired(n, r.origin)
  /\ r.action = "recover" /\ r.recovery = "never_admitted" =>
       r.origin \notin DOMAIN n.origins /\ r.origin.proc < n.proc

\* The lease of a release in flight is still the device's, unless it is over.
Held(n, r) ==
  LET v == n.dev[r.id.dev]
  IN r.outcome = "pending" /\ r.action = "release" /\ ~Over(n, r) =>
       v.lease = r.id.lease /\ v.rest = r.id.rest

\* A lease belongs to one origin.
LeaseKnown(n, r) ==
  LET v == n.dev[r.id.dev]
  IN /\ r.id.proc = n.proc /\ r.id.lease # 0 /\ r.id.lease = v.lease => r.origin = v.origin
     /\ r.action # "recover" => r.id.lease # 0

Apart(n) ==
  \A q, p \in DOMAIN n.receipts :
    LET r == n.receipts[q]
        s == n.receipts[p]
    IN r.id.proc = s.id.proc /\ r.id.dev = s.id.dev =>
         /\ q # p /\ r.id.inc = s.id.inc => r.id.attn # s.id.attn
         /\ r.id.lease = s.id.lease /\ r.id.lease # 0 => r.origin = s.origin

\* X are the receipts whose own command has just ended their lease.
Deep(n, X) ==
  /\ \A d \in Devices : n.dev[d].lease <= n.opn
  /\ \A o \in DOMAIN n.origins : o.proc <= n.proc
  /\ Apart(n)
  /\ \A q \in DOMAIN n.receipts :
       LET r == n.receipts[q]
       IN AgeKnown(n, r) /\ TerminalKnown(n, r) /\ LeaseKnown(n, r) /\ (q \notin X => Held(n, r))

\* Receipts keep their command and origins are never forgotten; new ones are of Q and O, or the
\* expired leases' own.
Evolves(n, m, Q, O) ==
  /\ n.proc <= m.proc
  /\ \A q \in DOMAIN n.receipts :
       /\ q \in DOMAIN m.receipts
       /\ m.receipts[q].op = n.receipts[q].op /\ m.receipts[q].action = n.receipts[q].action
       /\ m.receipts[q].origin = n.receipts[q].origin /\ m.receipts[q].id = n.receipts[q].id
  /\ \A o \in DOMAIN n.origins :
       /\ o \in DOMAIN m.origins /\ m.origins[o].dev = n.origins[o].dev
       /\ n.origins[o].retired => m.origins[o].retired
  /\ DOMAIN m.receipts \subseteq DOMAIN n.receipts \cup Q \cup (Numbering \X Nat \X Nat)
  /\ DOMAIN m.origins \subseteq DOMAIN n.origins \cup O

LEMMA EvolvesTwice ==
  ASSUME NEW n, NEW k, NEW m, NEW Q, NEW O, LedgerType(n), LedgerType(k), LedgerType(m),
         Evolves(n, k, Q, O), Evolves(k, m, {}, {})
  PROVE  Evolves(n, m, Q, O)
BY DEF Evolves, LedgerType

\* A device grows older: a new incarnation, or larger revisions.
Aged(u, v) ==
  \/ v.inc > u.inc
  \/ /\ v.inc = u.inc /\ v.base >= u.base /\ v.attn >= u.attn /\ v.route >= u.route
     /\ v.sess >= u.sess /\ (v.sess = u.sess /\ v.session = "none" => u.session = "none")

LEMMA AgeStays ==
  ASSUME NEW n, NEW m, LedgerType(n), LedgerType(m), m.proc = n.proc, m.opn >= n.opn,
         NEW r \in ReceiptType, AgeKnown(n, r), Aged(n.dev[r.id.dev], m.dev[r.id.dev])
  PROVE  AgeKnown(m, r) /\ (Over(n, r) => Over(m, r))
<1>1. /\ n.dev[r.id.dev] \in DeviceType /\ m.dev[r.id.dev] \in DeviceType
      /\ n.opn \in Nat /\ m.opn \in Nat
  BY DEF LedgerType, ReceiptType, Identities
<1> DEFINE u == n.dev[r.id.dev]
           v == m.dev[r.id.dev]
<1>2. /\ {u.inc, u.sess, u.base, u.attn, u.route} \subseteq Nat
      /\ {v.inc, v.sess, v.base, v.attn, v.route} \subseteq Nat
      /\ {r.id.inc, r.id.sess, r.id.base, r.id.attn, r.id.route, r.id.lease} \subseteq Nat
  BY <1>1 DEF DeviceType, ReceiptType, Identities
<1>3. AgeKnown(m, r)
  BY <1>1, <1>2 DEF AgeKnown, Aged, Same
<1>4. Over(n, r) => Over(m, r)
  BY <1>1, <1>2 DEF AgeKnown, Aged, Same, Over
<1> QED BY <1>3, <1>4

\* A write of an earlier revision of the room is over.
LEMMA OlderOver ==
  ASSUME NEW n, NEW m, LedgerType(n), LedgerType(m), m.proc = n.proc,
         NEW r \in ReceiptType, AgeKnown(n, r),
         \/ m.dev[r.id.dev].inc > n.dev[r.id.dev].inc
         \/ m.dev[r.id.dev].inc = n.dev[r.id.dev].inc /\ m.dev[r.id.dev].attn > n.dev[r.id.dev].attn
  PROVE  Over(m, r)
<1> DEFINE u == n.dev[r.id.dev]
           v == m.dev[r.id.dev]
<1>1. /\ {u.inc, u.attn} \subseteq Nat /\ {v.inc, v.attn} \subseteq Nat
      /\ {r.id.inc, r.id.attn} \subseteq Nat
  <2>1. u \in DeviceType /\ v \in DeviceType
    BY DEF LedgerType, ReceiptType, Identities
  <2> QED BY <2>1 DEF DeviceType, ReceiptType, Identities
<1> QED BY <1>1 DEF Over, AgeKnown, Same

-----------------------------------------------------------------------------
(* The devices' own changes *)

LEMMA DeviceDeep ==
  ASSUME NEW n, NEW m, LedgerType(n), LedgerType(m), NEW d \in Devices, NEW X, NEW Y, X \subseteq Y,
         m.proc = n.proc, m.opn = n.opn, m.receipts = n.receipts, m.origins = n.origins,
         \A e \in Devices \ {d} : m.dev[e] = n.dev[e],
         Aged(n.dev[d], m.dev[d]),
         m.dev[d].lease # 0 => m.dev[d].lease = n.dev[d].lease /\ m.dev[d].origin = n.dev[d].origin,
         \/ m.dev[d].lease = n.dev[d].lease /\ m.dev[d].rest = n.dev[d].rest
         \/ \A q \in DOMAIN n.receipts \ Y : n.receipts[q].id.dev = d => Over(m, n.receipts[q]),
         Deep(n, X)
  PROVE  Deep(m, Y) /\ Evolves(n, m, {}, {})
<1>1. /\ n.opn \in Nat /\ n.proc \in Nat
      /\ \A q \in DOMAIN n.receipts : n.receipts[q] \in ReceiptType
      /\ \A r \in ReceiptType : r.id.dev \in Devices /\ r.id.lease \in Nat
      /\ \A e \in Devices : {n.dev[e].inc, n.dev[e].base, n.dev[e].attn, n.dev[e].route, n.dev[e].sess} \subseteq Nat
  BY DEF LedgerType, ReceiptType, Identities, DeviceType
<1>2. \A e \in Devices : Aged(n.dev[e], m.dev[e])
  BY <1>1 DEF Aged
<1>3. \A e \in Devices : m.dev[e].lease <= m.opn
  BY <1>1 DEF Deep
<1>4. ASSUME NEW q \in DOMAIN n.receipts
      PROVE  LET r == n.receipts[q]
             IN AgeKnown(m, r) /\ TerminalKnown(m, r) /\ LeaseKnown(m, r) /\ (q \notin Y => Held(m, r))
  <2> DEFINE r == n.receipts[q]
  <2>1. /\ AgeKnown(n, r) /\ TerminalKnown(n, r) /\ LeaseKnown(n, r) /\ (q \notin X => Held(n, r))
        /\ r \in ReceiptType /\ r.id.dev \in Devices
    BY <1>1 DEF Deep
  <2> HIDE DEF r
  <2>2. AgeKnown(m, r) /\ (Over(n, r) => Over(m, r))
    BY <1>1, <1>2, <2>1, AgeStays
  <2>3. TerminalKnown(m, r)
    BY <2>1, <2>2 DEF TerminalKnown, IsRetired
  <2>4. LeaseKnown(m, r)
    BY <2>1 DEF LeaseKnown
  <2>5. q \notin Y => Held(m, r)
    BY <2>1, <2>2 DEF Held, r
  <2> QED BY <2>2, <2>3, <2>4, <2>5 DEF r
<1>5. Apart(m) /\ \A o \in DOMAIN m.origins : o.proc <= m.proc
  BY DEF Deep, Apart
<1>6. Evolves(n, m, {}, {})
  BY <1>1 DEF Evolves
<1> QED BY <1>3, <1>4, <1>5, <1>6 DEF Deep

-----------------------------------------------------------------------------
(* A command is posted *)

LEMMA PostDeep ==
  ASSUME NEW n, NEW m, LedgerInv(n), NEW d \in Devices, NEW X, NEW c, PostedBy(n, m, d, c),
         c.req \in Request \ DOMAIN n.receipts, Deep(n, X),
         c.action = "recover" => c.origin \in DOMAIN n.origins \/ c.origin.proc < n.proc,
         c.action \in ActionType
  PROVE  /\ Deep(m, X)
         /\ Evolves(n, m, {c.req}, IF c.action = "begin" THEN {[proc |-> n.proc, req |-> c.req]} ELSE {})
<1> DEFINE v == n.dev[d]
           u == m.dev[d]
           r == m.receipts[c.req]
           o == [proc |-> n.proc, req |-> c.req]
<1>0. LedgerType(n) /\ Received(n)
  BY DEF LedgerInv
<1>1. /\ LedgerType(m) /\ m.proc = n.proc /\ m.opn = n.opn + 1 /\ n.opn \in Nat /\ n.proc \in Nat
      /\ \A e \in Devices \ {d} : m.dev[e] = n.dev[e]
      /\ DOMAIN m.receipts = DOMAIN n.receipts \cup {c.req}
      /\ \A q \in DOMAIN n.receipts : m.receipts[q] = n.receipts[q]
  BY <1>0 DEF PostedBy, Posts, Put, LedgerType
<1>2. /\ r.action = c.action /\ r.id = Id(m, d) /\ r.outcome \in {"pending", "no_effect"}
      /\ u.inc = v.inc /\ u.base = v.base /\ u.route = v.route /\ u.attn = v.attn + 1
      /\ u.sess >= v.sess /\ (u.sess = v.sess /\ u.session = "none" => v.session = "none")
      /\ c.action = "begin" =>
           /\ u.lease = n.opn + 1 /\ u.origin = o /\ r.origin = o
           /\ m.origins = Put(n.origins, o, [dev |-> d, retired |-> FALSE])
      /\ c.action # "begin" => u.lease = v.lease /\ u.origin = v.origin /\ m.origins = n.origins
      /\ c.action \in {"update", "release"} => v.lease # 0 /\ r.origin = v.origin
      /\ c.action = "recover" =>
           v.lease = 0 /\ r.origin = c.origin /\ r.recovery = OriginState(n, c.origin)
  BY DEF PostedBy
<1>3. /\ r.id.proc = n.proc /\ r.id.dev = d /\ r.id.inc = u.inc /\ r.id.sess = u.sess
      /\ r.id.base = u.base /\ r.id.attn = u.attn /\ r.id.route = u.route /\ r.id.lease = u.lease
      /\ r.id.rest = u.rest
  BY <1>1, <1>2 DEF Id
<1>4. /\ v \in DeviceType /\ u \in DeviceType
      /\ \A q \in DOMAIN m.receipts : m.receipts[q] \in ReceiptType
      /\ \A x \in ReceiptType : x.id.dev \in Devices /\ x.id.lease \in Nat /\ x.id.attn \in Nat
  BY <1>0, <1>1 DEF LedgerType, ReceiptType, Identities
<1>5. /\ {v.inc, v.base, v.attn, v.route, v.sess, v.lease} \subseteq Nat
      /\ {u.inc, u.base, u.attn, u.route, u.sess, u.lease} \subseteq Nat
      /\ \A e \in Devices : {n.dev[e].inc, n.dev[e].base, n.dev[e].attn, n.dev[e].route, n.dev[e].sess,
                             n.dev[e].lease} \subseteq Nat
  BY <1>0, <1>4 DEF LedgerType, DeviceType
<1> HIDE DEF r
<1>6. \A e \in Devices : Aged(n.dev[e], m.dev[e])
  BY <1>1, <1>2, <1>5 DEF Aged
<1>7. \A e \in Devices : m.dev[e].lease <= m.opn
  BY <1>1, <1>2, <1>5 DEF Deep
<1>8. /\ o \notin DOMAIN n.origins
      /\ \A p \in DOMAIN n.origins : p \in DOMAIN m.origins /\ m.origins[p] = n.origins[p]
      /\ DOMAIN m.origins = DOMAIN n.origins \cup (IF c.action = "begin" THEN {o} ELSE {})
  BY <1>0, <1>2 DEF Put, Received
<1>9. \A p \in DOMAIN m.origins : p.proc <= m.proc
  BY <1>1, <1>8 DEF Deep
<1>10. ASSUME NEW q \in DOMAIN n.receipts
       PROVE  LET x == m.receipts[q]
              IN AgeKnown(m, x) /\ TerminalKnown(m, x) /\ LeaseKnown(m, x) /\ (q \notin X => Held(m, x))
  <2> DEFINE x == n.receipts[q]
  <2>1. /\ AgeKnown(n, x) /\ TerminalKnown(n, x) /\ LeaseKnown(n, x) /\ (q \notin X => Held(n, x))
        /\ x \in ReceiptType /\ x.id.dev \in Devices /\ m.receipts[q] = x
    BY <1>1, <1>4 DEF Deep
  <2> HIDE DEF x
  <2>2. AgeKnown(m, x) /\ (Over(n, x) => Over(m, x))
    BY <1>0, <1>1, <1>6, <2>1, AgeStays
  <2>3. TerminalKnown(m, x)
    <3>1. x.origin.proc < n.proc => x.origin # o
      BY <1>1
    <3> QED BY <1>1, <1>8, <2>1, <2>2, <3>1 DEF TerminalKnown, IsRetired
  <2>4. x.id.proc = n.proc => x.id.lease <= n.opn
    BY <2>1 DEF AgeKnown
  <2>5. LeaseKnown(m, x)
    BY <1>1, <1>2, <1>4, <2>1, <2>4 DEF LeaseKnown
  <2>6. x.id.dev = d => Over(m, x)
    BY <1>0, <1>1, <1>2, <1>5, <2>1, OlderOver
  <2>7. q \notin X => Held(m, x)
    BY <1>1, <2>1, <2>2, <2>6 DEF Held
  <2> QED BY <2>1, <2>2, <2>3, <2>5, <2>7
<1>11. AgeKnown(m, r) /\ TerminalKnown(m, r) /\ LeaseKnown(m, r) /\ Held(m, r)
  <2>1. AgeKnown(m, r)
    BY <1>1, <1>3, <1>5, <1>7 DEF AgeKnown
  <2>2. TerminalKnown(m, r)
    <3>1. r.outcome # "accepted"
      BY <1>2
    <3>2. ASSUME r.action = "recover"
          PROVE  /\ m.origins = n.origins /\ r.origin = c.origin
                 /\ r.origin \in DOMAIN n.origins \/ r.origin.proc < n.proc
      BY <1>2, <3>2
    <3>3. r.action = "recover" => r.recovery = OriginState(n, r.origin)
      BY <1>2
    <3>4. /\ OriginState(n, r.origin) \in {"restored", "already_retired"} => IsRetired(n, r.origin)
          /\ OriginState(n, r.origin) = "never_admitted" => r.origin \notin DOMAIN n.origins
      BY DEF OriginState, IsRetired
    <3> QED BY <1>1, <3>1, <3>2, <3>3, <3>4 DEF TerminalKnown, IsRetired
  <2>3. LeaseKnown(m, r)
    BY <1>1, <1>2, <1>3, <1>5 DEF LeaseKnown, ActionType
  <2>4. Held(m, r)
    BY <1>3 DEF Held
  <2> QED BY <2>1, <2>2, <2>3, <2>4
<1>12. Apart(m)
  <2>1. ASSUME NEW q \in DOMAIN n.receipts, n.receipts[q].id.proc = n.proc, n.receipts[q].id.dev = d
        PROVE  /\ n.receipts[q].id.inc = r.id.inc => n.receipts[q].id.attn # r.id.attn
               /\ n.receipts[q].id.lease = r.id.lease /\ r.id.lease # 0 => n.receipts[q].origin = r.origin
    <3> DEFINE x == n.receipts[q]
    <3>1. AgeKnown(n, x) /\ LeaseKnown(n, x) /\ x \in ReceiptType
      BY <1>1, <1>4 DEF Deep
    <3>2. x.id.attn \in Nat /\ x.id.lease \in Nat
      BY <1>4, <3>1
    <3> HIDE DEF x
    <3>3. x.id.proc = n.proc /\ x.id.dev = d
      BY <2>1 DEF x
    <3>4. x.id.inc = r.id.inc => x.id.attn # r.id.attn
      BY <1>2, <1>3, <1>5, <3>1, <3>2, <3>3 DEF AgeKnown, Same
    <3>5. x.id.lease = r.id.lease /\ r.id.lease # 0 => x.origin = r.origin
      BY <1>1, <1>2, <1>3, <1>5, <3>1, <3>2, <3>3 DEF AgeKnown, LeaseKnown, ActionType
    <3> QED BY <3>4, <3>5 DEF x
  <2>2. Apart(n)
    BY DEF Deep
  <2> QED BY <1>1, <1>3, <2>1, <2>2 DEF Apart, r
<1>13. Deep(m, X)
  BY <1>1, <1>7, <1>9, <1>10, <1>11, <1>12 DEF Deep, r
<1>14. Evolves(n, m, {c.req}, IF c.action = "begin" THEN {o} ELSE {})
  BY <1>1, <1>8 DEF Evolves
<1> QED BY <1>13, <1>14

\* An expired lease posts its own release.
LEMMA ExpiryDeep ==
  ASSUME NEW n, LedgerInv(n), Deep(n, {}), NEW d \in Devices
  PROVE  Deep(ExpiryReconcile(n, d), {}) /\ Evolves(n, ExpiryReconcile(n, d), {}, {})
<1> DEFINE v == n.dev[d]
           u == [v EXCEPT !.attempted = TRUE]
           k == [n EXCEPT !.dev[d] = u]
           c == [action |-> "release", req |-> <<"expiry", n.proc, n.opn + 1>>, exp |-> Id(n, d),
                 origin |-> None]
           m == Release(k, d, c)
<1>1. LedgerType(n) /\ v \in DeviceType /\ n.opn \in Nat /\ n.proc \in Nat /\ Id(n, d) \in Identities
  BY DeviceTyped DEF LedgerInv, LedgerType
<1>2. /\ u \in DeviceType /\ u.lease = v.lease /\ u.origin = v.origin /\ u.rop = v.rop /\ u.rest = v.rest
      /\ u.session = v.session /\ u.inc = v.inc /\ u.sess = v.sess /\ u.base = v.base
      /\ u.attn = v.attn /\ u.route = v.route
      /\ k = [n EXCEPT !.dev[d].attempted = TRUE]
  BY <1>1 DEF DeviceType, LedgerType
<1> HIDE DEF u
<1>0. Aged(v, u)
  BY <1>1, <1>2 DEF Aged, DeviceType
<1>3. LedgerInv(k) /\ Extends(n, k) /\ Becomes(n, k, d, u)
  BY <1>1, <1>2, ChangedGood, DeviceTyped
<1>4. k.dev[d] = u /\ k.receipts = n.receipts /\ k.proc = n.proc /\ k.opn = n.opn /\ k.origins = n.origins
      /\ LedgerType(k) /\ \A e \in Devices \ {d} : k.dev[e] = n.dev[e]
  BY <1>1, <1>3 DEF Becomes, Prepares, LedgerType
<1> HIDE DEF k
<1>5. Deep(k, {}) /\ Evolves(n, k, {}, {})
  BY <1>0, <1>1, <1>2, <1>4, DeviceDeep
<1>6. CASE v.lease # 0 /\ v.expired /\ ~v.attempted /\ Releasable(n, d)
  <2>1. ExpiryReconcile(n, d) = m
    BY <1>2, <1>6 DEF ExpiryReconcile
  <2>2. Live(k, d) = Live(n, d)
    BY <1>4 DEF Live
  <2>3. Releasable(k, d)
    BY <1>2, <1>4, <1>6, <2>2 DEF Releasable, Unresolved, Preparable, Idle
  <2>4. Fresh(k, c.req) /\ c.req \in Numbering \X Nat \X Nat
    BY <1>1, <1>3, <1>4 DEF Fresh, LedgerInv, Numbered, Request, Numbering
  <2>5. c.action = "release" /\ c.exp \in Identities
    BY <1>1
  <2> HIDE DEF c
  <2>6. LedgerInv(m) /\ PostedBy(k, m, d, c)
    BY <1>3, <2>3, <2>4, <2>5, ReleaseGood
  <2> HIDE DEF m
  <2>7. Deep(m, {}) /\ Evolves(k, m, {c.req}, {})
    BY <1>3, <1>5, <2>4, <2>5, <2>6, PostDeep DEF Fresh, ActionType
  <2>8. Evolves(k, m, {}, {})
    BY <2>4, <2>7 DEF Evolves
  <2> QED BY <1>1, <1>4, <1>5, <2>1, <2>6, <2>7, <2>8, EvolvesTwice DEF LedgerInv
<1>7. CASE ~(v.lease # 0 /\ v.expired /\ ~v.attempted /\ Releasable(n, d))
  <2>1. ExpiryReconcile(n, d) = n
    BY <1>7 DEF ExpiryReconcile
  <2>2. Evolves(n, n, {}, {})
    BY <1>1 DEF Evolves
  <2> QED BY <2>1, <2>2
<1> QED BY <1>6, <1>7

-----------------------------------------------------------------------------
(* A command completes *)

\* A release in flight that is not over still is the owner's.
LEMMA NearOwner ==
  ASSUME NEW n, LedgerType(n), NEW r \in ReceiptType, AgeKnown(n, r), ~Over(n, r), Held(n, r),
         r.outcome = "pending", r.action = "release"
  PROVE  Owner(n, r.id.dev, r)
<1> DEFINE d == r.id.dev
           v == n.dev[d]
           s == Id(n, d)
<1>1. d \in Devices /\ v \in DeviceType /\ r.id \in Identities
  BY DEF LedgerType, ReceiptType, Identities
<1>2. /\ {v.inc, v.base, v.attn, v.route, v.sess} \subseteq Nat
      /\ {r.id.inc, r.id.sess, r.id.base, r.id.attn, r.id.route} \subseteq Nat
  BY <1>1 DEF DeviceType, Identities
<1>3. /\ n.proc = r.id.proc /\ v.inc = r.id.inc /\ v.base = r.id.base /\ v.attn = r.id.attn
      /\ v.route = r.id.route /\ v.lease = r.id.lease /\ v.rest = r.id.rest
      /\ v.sess = r.id.sess \/ (v.sess = r.id.sess + 1 /\ v.session = "none")
  BY <1>2 DEF AgeKnown, Over, Same, Held
<1>4. r.id = [proc |-> r.id.proc, dev |-> r.id.dev, inc |-> r.id.inc, sess |-> r.id.sess, base |-> r.id.base,
              attn |-> r.id.attn, route |-> r.id.route, lease |-> r.id.lease, rest |-> r.id.rest]
  BY <1>1 DEF Identities
<1>5. s = [proc |-> n.proc, dev |-> d, inc |-> v.inc, sess |-> v.sess, base |-> v.base,
           attn |-> v.attn, route |-> v.route, lease |-> v.lease, rest |-> v.rest]
  BY DEF Id
<1>6. CASE v.sess = r.id.sess
  BY <1>3, <1>4, <1>5, <1>6 DEF Owner
<1>7. CASE v.sess = r.id.sess + 1 /\ v.session = "none"
  <2>1. s.sess = r.id.sess + 1
    BY <1>5, <1>7
  <2>2. [s EXCEPT !.sess = r.id.sess] = r.id
    BY <1>3, <1>4, <1>5
  <2> QED BY <1>7, <2>1, <2>2 DEF Owner, TerminalCurrent
<1> QED BY <1>3, <1>6, <1>7

LEMMA CompletedDeep ==
  ASSUME NEW n, NEW f, LedgerInv(n), NEW q \in DOMAIN n.receipts, n.receipts[q].outcome = "pending",
         NEW outcome, Completed(n, f, q, outcome),
         Deep(n, {q}), outcome = "accepted" => Held(n, n.receipts[q])
  PROVE  Deep(f, {}) /\ Evolves(n, f, {}, {})
<1> DEFINE r == n.receipts[q]
           x == f.receipts[q]
           d == r.id.dev
           v == n.dev[d]
           u == f.dev[d]
           owner == Owner(n, d, r)
<1>1. /\ LedgerType(n) /\ LedgerType(f) /\ f.proc = n.proc /\ f.opn = n.opn
      /\ DOMAIN f.receipts = DOMAIN n.receipts
      /\ \A p \in DOMAIN n.receipts \ {q} : f.receipts[p] = n.receipts[p]
      /\ DOMAIN f.origins = DOMAIN n.origins
      /\ \A o \in DOMAIN n.origins : /\ f.origins[o].dev = n.origins[o].dev
                                     /\ n.origins[o].retired => f.origins[o].retired
      /\ \A e \in Devices \ {d} : f.dev[e] = n.dev[e]
  BY DEF Completed, LedgerInv
<1>2. /\ x.op = r.op /\ x.action = r.action /\ x.origin = r.origin /\ x.id = r.id
      /\ x.outcome # "pending" /\ (x.outcome = "accepted" => outcome = "accepted")
      /\ r.action = "recover" => x.recovery \in {"restored", "unknown"}
      /\ \/ x.recovery = "restored"
         \/ x.outcome = "accepted" /\ r.action = "release" /\ owner
         => IsRetired(f, r.origin)
  BY DEF Completed, IsRetired
<1>3. \/ u = v
      \/ /\ owner /\ u.lease = 0 /\ u.inc = v.inc /\ u.base = v.base
         /\ u.attn = v.attn /\ u.route = v.route /\ u.sess = v.sess /\ u.session = v.session
  BY DEF Completed
<1>4. /\ r \in ReceiptType /\ x \in ReceiptType /\ d \in Devices /\ n.opn \in Nat /\ n.proc \in Nat
      /\ \A p \in DOMAIN n.receipts : n.receipts[p] \in ReceiptType
      /\ \A p \in DOMAIN f.receipts : f.receipts[p] \in ReceiptType
      /\ \A y \in ReceiptType : y.id.dev \in Devices /\ y.id.lease \in Nat /\ y.id.attn \in Nat
  BY <1>1 DEF LedgerType, ReceiptType, Identities
<1>5. \A e \in Devices : {n.dev[e].inc, n.dev[e].base, n.dev[e].attn, n.dev[e].route, n.dev[e].sess,
                          n.dev[e].lease} \subseteq Nat
  BY <1>1 DEF LedgerType, DeviceType
<1>6. owner => r.id.attn = v.attn /\ r.id.inc = v.inc /\ r.id.proc = n.proc
  BY <1>1, <1>4, OwnerIs
<1>7. /\ AgeKnown(n, r) /\ TerminalKnown(n, r) /\ LeaseKnown(n, r) /\ Apart(n)
      /\ \A e \in Devices : n.dev[e].lease <= n.opn
      /\ \A o \in DOMAIN n.origins : o.proc <= n.proc
      /\ \A p \in DOMAIN n.receipts \ {q} :
           LET y == n.receipts[p]
           IN AgeKnown(n, y) /\ TerminalKnown(n, y) /\ LeaseKnown(n, y) /\ Held(n, y)
  BY DEF Deep
<1> HIDE DEF r, x, owner
<1>8. \A e \in Devices : Aged(n.dev[e], f.dev[e]) /\ f.dev[e].lease <= f.opn
  BY <1>1, <1>3, <1>4, <1>5, <1>7 DEF Aged
<1>9. ASSUME NEW p \in DOMAIN n.receipts, p # q
      PROVE  LET y == f.receipts[p]
             IN AgeKnown(f, y) /\ TerminalKnown(f, y) /\ LeaseKnown(f, y) /\ Held(f, y)
  <2> DEFINE y == n.receipts[p]
  <2>1. /\ AgeKnown(n, y) /\ TerminalKnown(n, y) /\ LeaseKnown(n, y) /\ Held(n, y)
        /\ y \in ReceiptType /\ y.id.dev \in Devices /\ f.receipts[p] = y
    BY <1>1, <1>4, <1>7, <1>9
  <2>2. y.id.proc = r.id.proc /\ y.id.dev = d /\ y.id.inc = r.id.inc => y.id.attn # r.id.attn
    BY <1>7, <1>9 DEF Apart, r
  <2> HIDE DEF y
  <2>3. AgeKnown(f, y) /\ (Over(n, y) => Over(f, y))
    BY <1>1, <1>4, <1>8, <2>1, AgeStays
  <2>4. TerminalKnown(f, y)
    BY <1>1, <2>1, <2>3 DEF TerminalKnown, IsRetired
  <2>5. LeaseKnown(f, y)
    BY <1>1, <1>3, <2>1 DEF LeaseKnown
  <2>6. owner /\ y.id.dev = d => Over(n, y)
    BY <1>4, <1>5, <1>6, <2>1, <2>2 DEF Over, Same, AgeKnown
  <2>7. Held(f, y)
    BY <1>1, <1>3, <2>1, <2>3, <2>6 DEF Held
  <2> QED BY <2>1, <2>3, <2>4, <2>5, <2>7
<1>10. AgeKnown(f, x) /\ (Over(n, r) => Over(f, x))
  <2>1. AgeKnown(f, r) /\ (Over(n, r) => Over(f, r))
    BY <1>1, <1>4, <1>7, <1>8, AgeStays
  <2> QED BY <1>2, <2>1 DEF AgeKnown, Over, Same
<1>11. TerminalKnown(f, x)
  <2>1. x.action = "release" /\ x.outcome = "accepted" => Over(f, x) \/ IsRetired(f, x.origin)
    <3> SUFFICES ASSUME x.action = "release", x.outcome = "accepted", ~Over(f, x)
                 PROVE  IsRetired(f, x.origin)
      OBVIOUS
    <3>1. Held(n, r)
      BY <1>2 DEF r
    <3>2. r.outcome = "pending"
      BY DEF r
    <3>3. owner
      BY <1>1, <1>2, <1>4, <1>7, <1>10, <3>1, <3>2, NearOwner DEF owner
    <3> QED BY <1>2, <3>3
  <2> QED BY <1>2, <2>1 DEF TerminalKnown
<1>12. LeaseKnown(f, x) /\ Held(f, x)
  <2>1. Held(f, x)
    BY <1>2 DEF Held
  <2>2. LeaseKnown(f, x)
    <3>1. LeaseKnown(n, r) /\ f.proc = n.proc
      BY <1>1, <1>7
    <3>2. u = v \/ u.lease = 0
      BY <1>3
    <3>3. /\ f.dev[x.id.dev] = u /\ n.dev[r.id.dev] = v
          /\ x.id = r.id /\ x.origin = r.origin /\ x.action = r.action
      BY <1>2
    <3> HIDE DEF u, v, d
    <3> QED BY <3>1, <3>2, <3>3 DEF LeaseKnown
  <2> QED BY <2>1, <2>2
<1>13. Apart(f)
  <2>1. \A p \in DOMAIN n.receipts : f.receipts[p].id = n.receipts[p].id /\ f.receipts[p].origin = n.receipts[p].origin
    BY <1>1, <1>2 DEF r, x
  <2> QED BY <1>1, <1>7, <2>1 DEF Apart
<1>14. \A p \in DOMAIN f.receipts :
         LET y == f.receipts[p]
         IN AgeKnown(f, y) /\ TerminalKnown(f, y) /\ LeaseKnown(f, y) /\ Held(f, y)
  BY <1>1, <1>9, <1>10, <1>11, <1>12 DEF x
<1>15. Deep(f, {})
  BY <1>1, <1>7, <1>8, <1>13, <1>14 DEF Deep
<1>16. Evolves(n, f, {}, {})
  BY <1>1, <1>2, <1>4 DEF Evolves, r, x
<1> QED BY <1>15, <1>16

LEMMA CompleteDeep ==
  ASSUME NEW n, LedgerInv(n), NEW q \in DOMAIN n.receipts, n.receipts[q].outcome = "pending",
         NEW outcome \in Verdict,
         n.dev[n.receipts[q].id.dev].session \in Working => n.dev[n.receipts[q].id.dev].rop # q,
         Deep(n, {q}), outcome = "accepted" => Held(n, n.receipts[q])
  PROVE  Deep(Complete(n, q, outcome), {}) /\ Evolves(n, Complete(n, q, outcome), {}, {})
<1> DEFINE r == n.receipts[q]
           d == r.id.dev
<1>1. PICK f : /\ Complete(n, q, outcome) = IF n.dev[d].inc = r.id.inc THEN ExpiryReconcile(f, d) ELSE f
               /\ Good(n, f) /\ Completed(n, f, q, outcome)
  BY CompleteFreed
<1>2. d \in Devices /\ LedgerInv(f)
  BY <1>1 DEF LedgerInv, LedgerType, ReceiptType, Identities, Good
<1>3. Deep(f, {}) /\ Evolves(n, f, {}, {})
  BY <1>1, CompletedDeep
<1>4. CASE n.dev[d].inc = r.id.inc
  <2> DEFINE m == ExpiryReconcile(f, d)
  <2>1. Deep(m, {}) /\ Evolves(f, m, {}, {}) /\ LedgerInv(m)
    BY <1>2, <1>3, ExpiryDeep, ExpiryGood
  <2>2. Complete(n, q, outcome) = m
    BY <1>1, <1>4
  <2> HIDE DEF m
  <2>3. Evolves(n, m, {}, {})
    BY <1>2, <1>3, <2>1, EvolvesTwice DEF LedgerInv
  <2> QED BY <2>1, <2>2, <2>3
<1>5. CASE n.dev[d].inc # r.id.inc
  BY <1>1, <1>3, <1>5
<1> QED BY <1>4, <1>5

-----------------------------------------------------------------------------
(* A command is admitted *)

LEMMA AppliedDeep ==
  ASSUME NEW n, LedgerInv(n), Deep(n, {}), NEW d \in Devices, NEW q, Ready(n, d, q)
  PROVE  Deep(Applied(n, d, q), {}) /\ Evolves(n, Applied(n, d, q), {}, {})
<1>1. CASE n.dev[d].session = "connected"
  <2>1. Evolves(n, n, {}, {})
    BY DEF Evolves, LedgerInv, LedgerType
  <2> QED BY <1>1, <2>1 DEF Applied
<1>2. CASE n.dev[d].session # "connected"
  <2>1. "desired_only" \in Verdict /\ "desired_only" # "accepted"
    BY DEF Verdict
  <2>2. Deep(n, {q})
    BY DEF Deep
  <2>3. Deep(Complete(n, q, "desired_only"), {}) /\ Evolves(n, Complete(n, q, "desired_only"), {}, {})
    BY <2>1, <2>2, CompleteDeep DEF Ready
  <2> QED BY <1>2, <2>3 DEF Applied
<1> QED BY <1>1, <1>2

\* What an admitted command leaves: its receipt, and the origin of a BEGIN.
Answered(n, m, c) ==
  LET r == m.receipts[c.req]
      o == [proc |-> n.proc, req |-> c.req]
  IN /\ c.req \in DOMAIN m.receipts /\ r.action = c.action /\ r.id.dev = c.exp.dev
     /\ c.action = "begin" => r.origin = o /\ o \in DOMAIN m.origins /\ m.origins[o].dev = c.exp.dev
     /\ c.action = "recover" => r.origin = c.origin
     /\ c.action # "recover" => r.id.lease # 0
     /\ c.action = "release" => r.outcome = "pending"

LEMMA AdmittedDeep ==
  ASSUME NEW n, LedgerInv(n), Deep(n, {}), NEW c, c.exp \in Identities, Fresh(n, c.req), Admits(n, c),
         c.action \in ActionType,
         c.action = "recover" => /\ c.origin \in Origin /\ c.origin.proc <= n.proc
                                 /\ c.origin \in DOMAIN n.origins => n.origins[c.origin].dev = c.exp.dev
  PROVE  LET m == Admitted(n, c)
         IN /\ Deep(m, {}) /\ Answered(n, m, c)
            /\ Evolves(n, m, {c.req}, IF c.action = "begin" THEN {[proc |-> n.proc, req |-> c.req]} ELSE {})
<1> DEFINE d == c.exp.dev
           o == [proc |-> n.proc, req |-> c.req]
           O == IF c.action = "begin" THEN {o} ELSE {}
           m == Admitted(n, c)
<1>1. d \in Devices /\ c.req \in Request \ DOMAIN n.receipts /\ LedgerType(n) /\ n.proc \in Nat
  BY DEF Identities, Fresh, LedgerInv, LedgerType
<1>2. c.action = "recover" => c.origin \in DOMAIN n.origins \/ c.origin.proc < n.proc
  <2>1. ASSUME c.action = "recover", c.origin \notin DOMAIN n.origins
        PROVE  c.origin.proc < n.proc
    <3>1. c.origin.proc # n.proc /\ c.origin.proc \in Nat
      BY <2>1 DEF Admits, Recoverable, OriginState, Origin
    <3> QED BY <1>1, <2>1, <3>1
  <2> QED BY <2>1
<1>3. ASSUME NEW s, LedgerInv(s), PostedBy(n, s, d, c), Deep(s, {}), LedgerInv(m),
             Evolves(n, s, {c.req}, O), Deep(m, {}), Evolves(s, m, {}, {}), 
             c.action = "release" => m.receipts[c.req].outcome = "pending"
      PROVE  Deep(m, {}) /\ Answered(n, m, c) /\ Evolves(n, m, {c.req}, O)
  <2>1. Evolves(n, m, {c.req}, O)
    BY <1>3, EvolvesTwice DEF LedgerInv
  <2>2. /\ c.req \in DOMAIN s.receipts /\ s.receipts[c.req].action = c.action
        /\ s.receipts[c.req].id.dev = d
        /\ c.action = "begin" => /\ s.receipts[c.req].origin = o
                                 /\ s.origins = Put(n.origins, o, [dev |-> d, retired |-> FALSE])
        /\ c.action = "recover" => s.receipts[c.req].origin = c.origin
    BY <1>3 DEF PostedBy, Posts, Put, Id
  <2>3. c.action = "begin" => o \in DOMAIN s.origins /\ s.origins[o].dev = d
    BY <2>2 DEF Put
  <2>4. LeaseKnown(m, m.receipts[c.req])
    BY <1>3, <2>2 DEF Deep, Evolves
  <2>5. Answered(n, m, c)
    BY <1>3, <2>2, <2>3, <2>4 DEF Answered, Evolves, LeaseKnown
  <2> QED BY <1>3, <2>1, <2>5
<1>4. CASE c.action \in {"begin", "update"}
  <2>1. PICK s : /\ m = Applied(s, d, c.req)
                 /\ Good(n, s) /\ PostedBy(n, s, d, c) /\ Ready(s, d, c.req)
    <3>1. CASE c.action = "begin"
      <4>1. n.dev[d].lease = 0 /\ OpenOrigins(n, d) = {}
        BY <3>1 DEF Admits
      <4>2. m = Begin(n, d, c)
        BY <3>1 DEF Admitted
      <4> HIDE DEF m
      <4> QED BY <1>1, <3>1, <4>1, <4>2, BeginPosts
    <3>2. CASE c.action = "update"
      <4>1. n.dev[d].lease # 0
        BY <3>2 DEF Admits
      <4>2. m = Update(n, d, c)
        BY <3>2 DEF Admitted
      <4> HIDE DEF m
      <4> QED BY <1>1, <3>2, <4>1, <4>2, UpdatePosts
    <3> QED BY <1>4, <3>1, <3>2
  <2>2. LedgerInv(s) /\ LedgerInv(m)
    BY <1>1, <2>1, AppliedGood, AdmittedGood DEF Good
  <2>3. Deep(s, {}) /\ Evolves(n, s, {c.req}, O)
    BY <1>1, <1>2, <2>1, PostDeep
  <2>4. Deep(m, {}) /\ Evolves(s, m, {}, {})
    BY <1>1, <2>1, <2>2, <2>3, AppliedDeep
  <2> HIDE DEF m
  <2>5. Deep(m, {}) /\ Answered(n, m, c) /\ Evolves(n, m, {c.req}, O)
    BY <1>3, <1>4, <2>1, <2>2, <2>3, <2>4
  <2> QED BY <2>5 DEF m
<1>5. CASE c.action \in {"release", "recover"}
  <2>1. LedgerInv(m) /\ PostedBy(n, m, d, c)
    <3>1. CASE c.action = "release"
      <4>1. Releasable(n, d)
        BY <3>1 DEF Admits
      <4>2. m = Release(n, d, c)
        BY <3>1 DEF Admitted
      <4> HIDE DEF m
      <4> QED BY <1>1, <3>1, <4>1, <4>2, ReleaseGood
    <3>2. CASE c.action = "recover"
      <4>1. Recoverable(n, d, c.origin)
        BY <3>2 DEF Admits
      <4>2. m = Recover(n, d, c)
        BY <3>2 DEF Admitted
      <4> HIDE DEF m
      <4> QED BY <1>1, <3>2, <4>1, <4>2, RecoverGood DEF Good
    <3> QED BY <1>5, <3>1, <3>2
  <2>2. Deep(m, {}) /\ Evolves(n, m, {c.req}, O)
    BY <1>1, <1>2, <2>1, PostDeep
  <2>3. Evolves(m, m, {}, {})
    BY <2>1 DEF Evolves, LedgerInv, LedgerType
  <2>4. c.action = "release" => m.receipts[c.req].outcome = "pending"
    BY <2>1 DEF PostedBy
  <2> HIDE DEF m
  <2>5. Deep(m, {}) /\ Answered(n, m, c) /\ Evolves(n, m, {c.req}, O)
    BY <1>3, <2>1, <2>2, <2>3, <2>4
  <2> QED BY <2>5 DEF m
<1> QED BY <1>4, <1>5 DEF ActionType

-----------------------------------------------------------------------------
(* A session ends *)

\* A device whose revisions stay or grow, and whose lease is the same.
LEMMA ChangedDeep ==
  ASSUME NEW n, LedgerInv(n), Deep(n, {}), NEW d \in Devices, NEW v \in DeviceType, Aged(n.dev[d], v),
         v.lease # 0 => v.lease = n.dev[d].lease /\ v.origin = n.dev[d].origin,
         \/ v.lease = n.dev[d].lease /\ v.rest = n.dev[d].rest
         \/ v.inc > n.dev[d].inc
         \/ v.inc = n.dev[d].inc /\ v.attn > n.dev[d].attn
  PROVE  Deep([n EXCEPT !.dev[d] = v], {}) /\ Evolves(n, [n EXCEPT !.dev[d] = v], {}, {})
<1> DEFINE m == [n EXCEPT !.dev[d] = v]
<1>1. Becomes(n, m, d, v) /\ LedgerType(n)
  BY DeviceTyped DEF LedgerInv
<1> HIDE DEF m
<1>2. /\ m.proc = n.proc /\ m.opn = n.opn /\ m.receipts = n.receipts /\ m.origins = n.origins
      /\ LedgerType(m) /\ m.dev[d] = v /\ \A e \in Devices \ {d} : m.dev[e] = n.dev[e]
  BY <1>1 DEF Becomes, Prepares, LedgerType
<1>3. \A q \in DOMAIN n.receipts : n.receipts[q] \in ReceiptType /\ AgeKnown(n, n.receipts[q])
  BY <1>1 DEF LedgerType, Deep
<1>4. \/ v.lease = n.dev[d].lease /\ v.rest = n.dev[d].rest
      \/ \A q \in DOMAIN n.receipts : n.receipts[q].id.dev = d => Over(m, n.receipts[q])
  BY <1>1, <1>2, <1>3, OlderOver
<1>5. Deep(m, {}) /\ Evolves(n, m, {}, {})
  BY <1>1, <1>2, <1>4, DeviceDeep
<1> QED BY <1>5 DEF m

LEMMA DrainedDeep ==
  ASSUME NEW n, LedgerInv(n), Deep(n, {}), NEW d \in Devices, NEW q \in DOMAIN n.receipts
  PROVE  Deep(Drained(n, d, q), {}) /\ Evolves(n, Drained(n, d, q), {}, {})
<1> DEFINE v == n.dev[d]
           x == [op |-> n.receipts[q].op, req |-> q]
           u == [v EXCEPT !.drained = x]
<1>1. LedgerType(n) /\ v \in DeviceType
  BY DeviceTyped DEF LedgerInv
<1>2. x \in [op : Nat, req : Request]
  BY <1>1 DEF LedgerType, ReceiptType
<1> HIDE DEF x
<1>3. /\ u \in DeviceType /\ u.lease = v.lease /\ u.origin = v.origin /\ u.rest = v.rest
      /\ u.session = v.session /\ u.inc = v.inc /\ u.sess = v.sess /\ u.base = v.base
      /\ u.attn = v.attn /\ u.route = v.route
  BY <1>1, <1>2 DEF DeviceType
<1>4. [n EXCEPT !.dev[d].drained = x] = [n EXCEPT !.dev[d] = u]
  BY <1>1 DEF LedgerType
<1> HIDE DEF u
<1>5. Aged(v, u)
  BY <1>1, <1>3 DEF Aged, DeviceType
<1>6. Deep([n EXCEPT !.dev[d] = u], {}) /\ Evolves(n, [n EXCEPT !.dev[d] = u], {}, {})
  BY <1>3, <1>5, ChangedDeep
<1>7. Evolves(n, n, {}, {})
  BY <1>1 DEF Evolves, LedgerType
<1> QED BY <1>4, <1>6, <1>7 DEF Drained, x

\* The lease that a handed off session ends is of the command it carried.
LEMMA HandoffDeep ==
  ASSUME NEW n, LedgerInv(n), Deep(n, {}), NEW d \in Devices, NEW q \in DOMAIN n.receipts,
         n.receipts[q].id.proc = n.proc, n.receipts[q].id.dev = d, n.receipts[q].id.inc = n.dev[d].inc
  PROVE  Deep(HandoffDrained(n, d, q), {q}) /\ Evolves(n, HandoffDrained(n, d, q), {}, {})
<1> DEFINE v == n.dev[d]
           r == n.receipts[q]
           u == [v EXCEPT !.lease = 0, !.rest = FALSE, !.expired = FALSE]
           m == [n EXCEPT !.dev[d] = u]
<1>1. LedgerType(n) /\ v \in DeviceType /\ n.proc \in Nat
      /\ \A p \in DOMAIN n.receipts : n.receipts[p] \in ReceiptType
  BY DeviceTyped DEF LedgerInv, LedgerType
<1>2. /\ u \in DeviceType /\ u.lease = 0
      /\ u.session = v.session /\ u.inc = v.inc /\ u.sess = v.sess /\ u.base = v.base
      /\ u.attn = v.attn /\ u.route = v.route
  BY <1>1 DEF DeviceType
<1>3. [n EXCEPT !.dev[d].lease = 0, !.dev[d].rest = FALSE, !.dev[d].expired = FALSE] = m
  BY <1>1 DEF LedgerType
<1> HIDE DEF u
<1>4. Aged(v, u)
  BY <1>1, <1>2 DEF Aged, DeviceType
<1>5. Becomes(n, m, d, u)
  BY <1>1, <1>2, DeviceTyped
<1> HIDE DEF m
<1>6. /\ m.proc = n.proc /\ m.opn = n.opn /\ m.receipts = n.receipts /\ m.origins = n.origins
      /\ LedgerType(m) /\ m.dev[d] = u /\ \A e \in Devices \ {d} : m.dev[e] = n.dev[e]
  BY <1>1, <1>5 DEF Becomes, Prepares, LedgerType
<1>7. CASE v.attn = r.id.attn
  <2>1. ASSUME NEW p \in DOMAIN n.receipts \ {q}, n.receipts[p].id.dev = d
        PROVE  Over(m, n.receipts[p])
    <3> DEFINE x == n.receipts[p]
    <3>1. AgeKnown(n, x) /\ x.id.attn \in Nat /\ v.attn \in Nat
      BY <1>1, <2>1 DEF Deep, DeviceType, ReceiptType, Identities
    <3>2. x.id.proc = n.proc /\ x.id.inc = v.inc => x.id.attn # v.attn
      BY <1>7, <2>1 DEF Deep, Apart
    <3>3. x.id.dev = d
      BY <2>1
    <3> HIDE DEF x
    <3>4. Over(m, x)
      BY <1>2, <1>6, <3>1, <3>2, <3>3 DEF Over, Same, AgeKnown
    <3> QED BY <3>4 DEF x
  <2>2. Deep(m, {q}) /\ Evolves(n, m, {}, {})
    BY <1>1, <1>2, <1>4, <1>6, <2>1, DeviceDeep
  <2>3. Evolves(n, n, {}, {}) /\ Deep(n, {q})
    BY <1>1 DEF Evolves, LedgerType, Deep
  <2> QED BY <1>3, <2>2, <2>3 DEF HandoffDrained
<1>8. CASE v.attn # r.id.attn
  <2>1. Evolves(n, n, {}, {}) /\ Deep(n, {q})
    BY <1>1 DEF Evolves, LedgerType, Deep
  <2> QED BY <1>8, <2>1 DEF HandoffDrained
<1> QED BY <1>7, <1>8

LEMMA SessionEndedDeep ==
  ASSUME NEW n, LedgerInv(n), Deep(n, {}), NEW d \in Devices, NEW outcome
  PROVE  Deep(SessionEnded(n, d, outcome), {}) /\ Evolves(n, SessionEnded(n, d, outcome), {}, {})
<1> DEFINE v == n.dev[d]
           q == v.rop
           u == [v EXCEPT !.session = "none", !.sess = @ + 1, !.rop = None]
           m == [n EXCEPT !.dev[d] = u]
           verdict == IF outcome = "accepted" THEN "accepted" ELSE "unknown"
<1>1. LedgerType(n) /\ v \in DeviceType /\ SessionKnown(n, d)
  BY DeviceTyped DEF LedgerInv
<1>2. /\ u \in DeviceType /\ u.lease = v.lease /\ u.origin = v.origin /\ u.rop = None /\ u.rest = v.rest
      /\ u.session = "none" /\ u.base = v.base /\ u.inc = v.inc /\ u.sess = v.sess + 1
      /\ u.attn = v.attn /\ u.route = v.route
  <2>1. v.sess + 1 \in Nat
    BY <1>1 DEF DeviceType
  <2> QED BY <1>1, <2>1 DEF DeviceType
<1>3. m = [n EXCEPT !.dev[d].session = "none", !.dev[d].sess = @ + 1, !.dev[d].rop = None]
  BY <1>1 DEF LedgerType
<1>4. SessionEnded(n, d, outcome) =
        CASE v.session = "handoff" -> Complete(HandoffDrained(Drained(m, d, q), d, q), q, "unknown")
          [] v.session = "recovery" -> Complete(Drained(m, d, q), q, verdict)
          [] OTHER -> IF q = None THEN Flushed(m, d) ELSE Drained(Flushed(m, d), d, q)
  BY <1>3 DEF SessionEnded
<1> HIDE DEF u
<1>5. Settles(n, m, d)
  BY <1>2, DeviceSettles
<1>6. Deep(m, {}) /\ Evolves(n, m, {}, {})
  <2>1. Aged(v, u)
    BY <1>1, <1>2 DEF Aged, DeviceType
  <2> QED BY <1>2, <2>1, ChangedDeep
<1> HIDE DEF m, verdict
<1>7. "unknown" \in Verdict /\ verdict \in Verdict
  BY DEF Verdict, verdict
<1>8. LedgerInv(m) /\ m.dev[d].session = "none" /\ m.receipts = n.receipts /\ m.proc = n.proc
      /\ m.dev[d].inc = v.inc
  BY <1>5 DEF Settles, Extends
<1>9. CASE v.session \in Working
  <2>1. q \in Live(n, d) /\ q \in DOMAIN m.receipts /\ n.receipts[q].id.inc = v.inc
    BY <1>1, <1>8, <1>9 DEF SessionKnown, Live
  <2> DEFINE k == Drained(m, d, q)
             h == HandoffDrained(k, d, q)
  <2>2. Settles(m, k, d)
    BY <1>8, <2>1, DrainedSettles
  <2>3. LedgerInv(k) /\ k.dev[d].session = "none" /\ k.receipts = n.receipts /\ k.proc = n.proc
        /\ k.dev[d].inc = v.inc
    BY <1>8, <2>2 DEF Settles, Extends
  <2>4. Deep(k, {}) /\ Evolves(m, k, {}, {})
    BY <1>6, <1>8, <2>1, DrainedDeep
  <2> HIDE DEF k
  <2>5. Settles(k, h, d)
    BY <2>3, HandoffSettles
  <2>6. LedgerInv(h) /\ h.dev[d].session = "none" /\ h.receipts = n.receipts
    BY <2>3, <2>5 DEF Settles
  <2>7. Deep(h, {q}) /\ Evolves(k, h, {}, {})
    BY <2>1, <2>3, <2>4, HandoffDeep DEF Live
  <2> HIDE DEF h
  <2>8. q \in DOMAIN n.receipts /\ n.receipts[q].outcome = "pending" /\ n.receipts[q].id.dev = d
    BY <2>1 DEF Live
  <2>9. Evolves(n, k, {}, {})
    BY <1>1, <1>6, <1>8, <2>3, <2>4, EvolvesTwice DEF LedgerInv
  <2>10. Evolves(n, h, {}, {})
    BY <1>1, <2>3, <2>6, <2>7, <2>9, EvolvesTwice DEF LedgerInv
  <2>11. CASE v.session = "handoff"
    <3> DEFINE e == Complete(h, q, "unknown")
    <3>1. Deep(e, {}) /\ Evolves(h, e, {}, {})
      BY <1>7, <2>6, <2>7, <2>8, CompleteDeep DEF Working
    <3>2. LedgerInv(e)
      BY <1>7, <2>6, <2>8, CompleteGood DEF Working, Good
    <3>3. SessionEnded(n, d, outcome) = e
      BY <1>4, <2>11 DEF h, k
    <3> HIDE DEF e
    <3>4. Evolves(n, e, {}, {})
      BY <1>1, <2>6, <2>10, <3>1, <3>2, EvolvesTwice DEF LedgerInv
    <3> QED BY <3>1, <3>3, <3>4
  <2>12. CASE v.session = "recovery"
    <3> DEFINE e == Complete(k, q, verdict)
    <3>1. Deep(k, {q}) /\ Held(k, k.receipts[q])
      BY <2>3, <2>4, <2>8 DEF Deep
    <3>2. Deep(e, {}) /\ Evolves(k, e, {}, {})
      BY <1>7, <2>3, <2>8, <3>1, CompleteDeep DEF Working
    <3>3. LedgerInv(e)
      BY <1>7, <2>3, <2>8, CompleteGood DEF Working, Good
    <3>4. SessionEnded(n, d, outcome) = e
      BY <1>4, <2>12 DEF k
    <3> HIDE DEF e
    <3>5. Evolves(n, e, {}, {})
      BY <1>1, <2>3, <2>9, <3>2, <3>3, EvolvesTwice DEF LedgerInv
    <3> QED BY <3>2, <3>4, <3>5
  <2> QED BY <1>9, <2>11, <2>12 DEF Working
<1>10. CASE v.session \notin Working
  <2> DEFINE f == Flushed(m, d)
             p == CHOOSE x \in Live(m, d) : m.receipts[x].id.inc = m.dev[d].inc
  <2>1. Deep(f, {}) /\ Evolves(m, f, {}, {}) /\ LedgerInv(f)
    <3>1. CASE Unresolved(m, d)
      <4>1. p \in Live(m, d)
        BY <3>1 DEF Unresolved
      <4> HIDE DEF p
      <4>2. p \in DOMAIN m.receipts /\ m.receipts[p].outcome = "pending" /\ m.receipts[p].id.dev = d
        BY <4>1 DEF Live
      <4>3. Deep(m, {p})
        BY <1>6 DEF Deep
      <4>4. Deep(Complete(m, p, "unknown"), {}) /\ Evolves(m, Complete(m, p, "unknown"), {}, {})
        BY <1>7, <1>8, <4>2, <4>3, CompleteDeep DEF Working
      <4>5. LedgerInv(Complete(m, p, "unknown"))
        BY <1>7, <1>8, <4>2, CompleteGood DEF Working, Good
      <4> QED BY <3>1, <4>4, <4>5 DEF Flushed, p
    <3>2. CASE ~Unresolved(m, d)
      <4>1. Evolves(m, m, {}, {})
        BY <1>8 DEF Evolves, LedgerInv, LedgerType
      <4> QED BY <1>6, <1>8, <3>2, <4>1 DEF Flushed
    <3> QED BY <3>1, <3>2
  <2> HIDE DEF f
  <2>2. Evolves(n, f, {}, {})
    BY <1>1, <1>6, <1>8, <2>1, EvolvesTwice DEF LedgerInv
  <2>3. CASE q # None
    <3> DEFINE e == Drained(f, d, q)
    <3>1. q \in DOMAIN f.receipts
      BY <1>1, <2>2, <2>3 DEF SessionKnown, Evolves
    <3>2. Deep(e, {}) /\ Evolves(f, e, {}, {}) /\ LedgerInv(e)
      BY <2>1, <3>1, DrainedDeep, DrainedSettles
    <3>3. SessionEnded(n, d, outcome) = e
      BY <1>4, <1>10, <2>3 DEF Working, f
    <3> HIDE DEF e
    <3>4. Evolves(n, e, {}, {})
      BY <1>1, <2>1, <2>2, <3>2, EvolvesTwice DEF LedgerInv
    <3> QED BY <3>2, <3>3, <3>4
  <2>4. CASE q = None
    <3>1. SessionEnded(n, d, outcome) = f
      BY <1>4, <1>10, <2>4 DEF Working, f
    <3> QED BY <2>1, <2>2, <3>1
  <2> QED BY <2>3, <2>4
<1> QED BY <1>9, <1>10

-----------------------------------------------------------------------------
(* The steps, again *)

LEMMA DeviceStepsDeep ==
  ASSUME NInv, Deep(nat, {}), NEW d \in Devices,
         BaseChanged(d) \/ RouteChanged(d) \/ SessionStarts(d) \/ SessionConnects(d) \/ DeviceReadded(d)
  PROVE  Deep(nat', {}) /\ Evolves(nat, nat', {}, {})
<1> DEFINE v == nat.dev[d]
<1>1. LedgerInv(nat) /\ v \in DeviceType /\ LedgerType(nat)
  BY DeviceTyped DEF NInv, LedgerInv
<1>2. /\ {v.base, v.route, v.sess, v.inc, v.attn} \subseteq Nat
      /\ v.base + 1 \in Nat /\ v.route + 1 \in Nat /\ v.sess + 1 \in Nat /\ v.inc + 1 \in Nat
  BY <1>1 DEF DeviceType
<1>3. CASE BaseChanged(d)
  <2> DEFINE u == [v EXCEPT !.base = @ + 1]
  <2>1. u \in DeviceType /\ u.lease = v.lease /\ u.origin = v.origin /\ u.rest = v.rest
        /\ u.session = v.session /\ u.inc = v.inc /\ u.sess = v.sess /\ u.base = v.base + 1
        /\ u.attn = v.attn /\ u.route = v.route
    BY <1>1, <1>2 DEF DeviceType
  <2>2. nat' = [nat EXCEPT !.dev[d] = u]
    BY <1>3 DEF BaseChanged, Change
  <2> HIDE DEF u
  <2>3. Aged(v, u)
    BY <1>2, <2>1 DEF Aged
  <2> QED BY <1>1, <2>1, <2>2, <2>3, ChangedDeep
<1>4. CASE RouteChanged(d)
  <2> DEFINE u == [v EXCEPT !.route = @ + 1]
  <2>1. u \in DeviceType /\ u.lease = v.lease /\ u.origin = v.origin /\ u.rest = v.rest
        /\ u.session = v.session /\ u.inc = v.inc /\ u.sess = v.sess /\ u.base = v.base
        /\ u.attn = v.attn /\ u.route = v.route + 1
    BY <1>1, <1>2 DEF DeviceType
  <2>2. nat' = [nat EXCEPT !.dev[d] = u]
    BY <1>4 DEF RouteChanged, Change
  <2> HIDE DEF u
  <2>3. Aged(v, u)
    BY <1>2, <2>1 DEF Aged
  <2> QED BY <1>1, <2>1, <2>2, <2>3, ChangedDeep
<1>5. CASE SessionStarts(d)
  <2> DEFINE u == [v EXCEPT !.session = "starting", !.sess = @ + 1]
  <2>1. u \in DeviceType /\ u.lease = v.lease /\ u.origin = v.origin /\ u.rest = v.rest
        /\ u.inc = v.inc /\ u.sess = v.sess + 1 /\ u.base = v.base
        /\ u.attn = v.attn /\ u.route = v.route
    BY <1>1, <1>2 DEF DeviceType, Working
  <2>2. nat' = [nat EXCEPT !.dev[d] = u]
    BY <1>5 DEF SessionStarts, Change
  <2> HIDE DEF u
  <2>3. Aged(v, u)
    BY <1>2, <2>1 DEF Aged
  <2> QED BY <1>1, <2>1, <2>2, <2>3, ChangedDeep
<1>6. CASE SessionConnects(d)
  <2> DEFINE u == [v EXCEPT !.session = "connected"]
  <2>1. u \in DeviceType /\ u.lease = v.lease /\ u.origin = v.origin /\ u.rest = v.rest
        /\ u.session = "connected" /\ u.inc = v.inc /\ u.sess = v.sess /\ u.base = v.base
        /\ u.attn = v.attn /\ u.route = v.route
    BY <1>1, <1>2 DEF DeviceType, Working
  <2>2. nat' = [nat EXCEPT !.dev[d] = u]
    BY <1>1, <1>6 DEF SessionConnects, LedgerType
  <2> HIDE DEF u
  <2>3. Aged(v, u)
    BY <1>2, <2>1 DEF Aged
  <2> QED BY <1>1, <2>1, <2>2, <2>3, ChangedDeep
<1>7. CASE DeviceReadded(d)
  <2> DEFINE u == NewDevice(v.inc + 1)
  <2>1. u \in DeviceType /\ u.lease = 0 /\ u.inc = v.inc + 1
    BY <1>2 DEF NewDevice, DeviceType, Working
  <2>2. nat' = [nat EXCEPT !.dev[d] = u]
    BY <1>7 DEF DeviceReadded, Change
  <2> HIDE DEF u
  <2>3. Aged(v, u) /\ u.inc > v.inc
    BY <1>2, <2>1 DEF Aged
  <2> QED BY <1>1, <2>1, <2>2, <2>3, ChangedDeep
<1> QED BY <1>3, <1>4, <1>5, <1>6, <1>7

LEMMA RespondedDeep ==
  ASSUME NInv, Deep(nat, {}), NativeAssumption, NEW d \in Devices, Responded(d)
  PROVE  Deep(nat', {}) /\ Evolves(nat, nat', {}, {})
<1>1. PICK q \in Live(nat, d), outcome \in Outcomes :
        /\ nat.receipts[q].id.inc = nat.dev[d].inc => nat.dev[d].session = "connected"
        /\ LET m == Complete(nat, q, outcome)
           IN nat' = IF m.receipts[q].recovery = "restored" THEN [m EXCEPT !.dev[d].rop = None] ELSE m
  BY DEF Responded
<1> DEFINE m == Complete(nat, q, outcome)
<1>2. /\ q \in DOMAIN nat.receipts /\ nat.receipts[q].id.dev = d
      /\ nat.receipts[q].outcome = "pending" /\ outcome \in Verdict /\ SessionKnown(nat, d)
  BY DEF Live, NativeAssumption, Verdict, NInv, LedgerInv
<1>3. nat.dev[d].session \in Working => nat.dev[d].rop # q
  BY <1>1, <1>2 DEF SessionKnown, Working
<1>4. Deep(nat, {q}) /\ Held(nat, nat.receipts[q])
  BY <1>2 DEF Deep
<1>5. /\ Deep(m, {}) /\ Evolves(nat, m, {}, {}) /\ LedgerInv(m)
  BY <1>2, <1>3, <1>4, CompleteDeep, CompleteGood DEF NInv, Good
<1>6. nat' = IF m.receipts[q].recovery = "restored" THEN [m EXCEPT !.dev[d].rop = None] ELSE m
  BY <1>1
<1> HIDE DEF m
<1> DEFINE v == m.dev[d]
           u == [v EXCEPT !.rop = None]
           k == [m EXCEPT !.dev[d] = u]
<1>7. LedgerType(m) /\ v \in DeviceType
  BY <1>5, DeviceTyped DEF LedgerInv
<1>8. /\ u \in DeviceType /\ u.lease = v.lease /\ u.origin = v.origin /\ u.rest = v.rest
      /\ u.session = v.session /\ u.inc = v.inc /\ u.sess = v.sess /\ u.base = v.base
      /\ u.attn = v.attn /\ u.route = v.route /\ [m EXCEPT !.dev[d].rop = None] = k
  BY <1>7 DEF DeviceType, LedgerType
<1> HIDE DEF u
<1>9. Aged(v, u)
  BY <1>7, <1>8 DEF Aged, DeviceType
<1>10. Deep(k, {}) /\ Evolves(m, k, {}, {})
  BY <1>5, <1>8, <1>9, ChangedDeep
<1>11. LedgerType(k)
  BY <1>7, <1>8, DeviceTyped DEF Becomes, Prepares
<1> HIDE DEF k
<1>12. Evolves(nat, k, {}, {})
  BY <1>5, <1>7, <1>10, <1>11, EvolvesTwice DEF NInv, LedgerInv
<1> QED BY <1>5, <1>6, <1>8, <1>10, <1>12

LEMMA TimerDeep ==
  ASSUME NInv, Deep(nat, {}), NEW d \in Devices, TimerFires(d)
  PROVE  Deep(nat', {}) /\ Evolves(nat, nat', {}, {})
<1> DEFINE v == nat.dev[d]
           u == [v EXCEPT !.rest = TRUE, !.expired = TRUE, !.attn = @ + 1]
           k == [nat EXCEPT !.dev[d] = u]
<1>1. LedgerInv(nat) /\ v \in DeviceType /\ LedgerType(nat)
  BY DeviceTyped DEF NInv, LedgerInv
<1>2. /\ u \in DeviceType /\ u.lease = v.lease /\ u.origin = v.origin /\ u.rop = v.rop
      /\ u.session = v.session /\ u.inc = v.inc /\ u.sess = v.sess /\ u.base = v.base
      /\ u.attn = v.attn + 1 /\ u.route = v.route
  <2>1. v.attn + 1 \in Nat
    BY <1>1 DEF DeviceType
  <2> QED BY <1>1, <2>1 DEF DeviceType
<1>3. [nat EXCEPT !.dev[d].rest = TRUE, !.dev[d].expired = TRUE, !.dev[d].attn = @ + 1] = k
  BY <1>1 DEF LedgerType
<1>4. nat' = ExpiryReconcile(k, d)
  BY <1>3 DEF TimerFires
<1> HIDE DEF u
<1>5. LedgerInv(k)
  BY <1>1, <1>2, ChangedGood
<1>6. Aged(v, u) /\ u.attn > v.attn
  BY <1>1, <1>2 DEF Aged, DeviceType
<1>7. Deep(k, {}) /\ Evolves(nat, k, {}, {})
  BY <1>1, <1>2, <1>6, ChangedDeep
<1> HIDE DEF k
<1>8. Deep(nat', {}) /\ Evolves(k, nat', {}, {}) /\ LedgerInv(nat')
  BY <1>4, <1>5, <1>7, ExpiryDeep, ExpiryGood
<1> QED BY <1>1, <1>5, <1>7, <1>8, EvolvesTwice DEF LedgerInv

LEMMA RestartDeep ==
  ASSUME NInv, Deep(nat, {}), ProcessRestarts
  PROVE  Deep(nat', {}) /\ Evolves(nat, nat', {}, {})
<1>1. /\ nat'.proc = nat.proc + 1 /\ nat'.opn = 0 /\ nat'.dev = [d \in Devices |-> NewDevice(1)]
      /\ nat'.receipts = nat.receipts /\ nat'.origins = nat.origins
  BY DEF ProcessRestarts, Restarted, NativeStart
<1>2. LedgerType(nat) /\ nat.proc \in Nat
  BY DEF NInv, LedgerInv, LedgerType
<1>3. \A d \in Devices : nat'.dev[d].lease <= nat'.opn
  BY <1>1 DEF NewDevice
<1>4. ASSUME NEW q \in DOMAIN nat.receipts
      PROVE  LET r == nat.receipts[q]
             IN AgeKnown(nat', r) /\ TerminalKnown(nat', r) /\ LeaseKnown(nat', r) /\ Held(nat', r)
  <2> DEFINE r == nat.receipts[q]
  <2>1. /\ r \in ReceiptType /\ r.id.proc <= nat.proc /\ r.id.proc \in Nat
        /\ TerminalKnown(nat, r) /\ LeaseKnown(nat, r)
    BY <1>2 DEF LedgerType, Deep, AgeKnown, ReceiptType, Identities
  <2> HIDE DEF r
  <2>2. r.id.proc < nat'.proc
    BY <1>1, <1>2, <2>1
  <2>3. AgeKnown(nat', r) /\ Over(nat', r)
    BY <1>1, <1>2, <2>1, <2>2 DEF AgeKnown, Over, Same
  <2>4. r.origin \in Origin
    BY <2>1 DEF ReceiptType
  <2>5. TerminalKnown(nat', r)
    BY <1>1, <1>2, <2>1, <2>3, <2>4 DEF TerminalKnown, IsRetired, Origin
  <2>6. LeaseKnown(nat', r) /\ Held(nat', r)
    BY <1>1, <1>2, <2>1, <2>2, <2>3 DEF LeaseKnown, Held
  <2> QED BY <2>3, <2>5, <2>6 DEF r
<1>5. Apart(nat') /\ \A o \in DOMAIN nat'.origins : o.proc <= nat'.proc
  BY <1>1, <1>2 DEF Deep, Apart, LedgerType, Origin
<1>6. Evolves(nat, nat', {}, {})
  BY <1>1, <1>2 DEF Evolves
<1> QED BY <1>1, <1>3, <1>4, <1>5, <1>6 DEF Deep

LEMMA StepDeep ==
  ASSUME NInv, Deep(nat, {}), NativeStep \/ ProcessRestarts
  PROVE  Deep(nat', {}) /\ Evolves(nat, nat', {}, {})
<1>1. CASE ProcessRestarts
  BY <1>1, RestartDeep
<1>2. CASE NativeStep
  <2>1. PICK d \in Devices :
          \/ BaseChanged(d) \/ RouteChanged(d)
          \/ SessionStarts(d) \/ SessionConnects(d) \/ SessionLost(d) \/ RecoverySessionEnds(d)
          \/ DeviceReadded(d) \/ Responded(d) \/ TimerFires(d)
    BY <1>2 DEF NativeStep
  <2>2. CASE SessionLost(d)
    BY <2>2, SessionEndedDeep DEF SessionLost, NInv
  <2>3. CASE RecoverySessionEnds(d)
    BY <2>3, SessionEndedDeep DEF RecoverySessionEnds, NInv
  <2>4. CASE Responded(d)
    BY <2>4, RespondedDeep, NativeAssumption
  <2>5. CASE TimerFires(d)
    BY <2>5, TimerDeep
  <2>6. CASE BaseChanged(d) \/ RouteChanged(d) \/ SessionStarts(d) \/ SessionConnects(d) \/ DeviceReadded(d)
    BY <2>6, DeviceStepsDeep
  <2> QED BY <2>1, <2>2, <2>3, <2>4, <2>5, <2>6
<1> QED BY <1>1, <1>2

-----------------------------------------------------------------------------
(* What a client may conclude from an answer *)

LEMMA CurrentMeans ==
  ASSUME NEW n, LedgerType(n), NEW r \in ReceiptType, Current(n, r)
  PROVE  ~Over(n, r)
<1> DEFINE d == r.id.dev
           v == n.dev[d]
           s == Id(n, d)
           w == OwnRetirement(n, r)
           t == [w EXCEPT !.sess = r.id.sess]
<1>1. d \in Devices /\ v \in DeviceType /\ s \in Identities
  BY DeviceTyped DEF LedgerType, ReceiptType, Identities
<1>2. /\ {v.inc, v.base, v.attn, v.route, v.sess} \subseteq Nat
      /\ {r.id.inc, r.id.sess, r.id.base, r.id.attn, r.id.route} \subseteq Nat
  BY <1>1 DEF DeviceType, Identities, ReceiptType
<1>3. s.proc = n.proc /\ s.inc = v.inc /\ s.base = v.base /\ s.attn = v.attn /\ s.route = v.route
      /\ s.sess = v.sess
  BY DEF Id
<1> HIDE DEF s
<1>4. w = s \/ w = [s EXCEPT !.lease = r.id.lease, !.rest = r.id.rest]
  BY DEF OwnRetirement, s
<1>5. /\ w.proc = s.proc /\ w.inc = s.inc /\ w.base = s.base /\ w.attn = s.attn /\ w.route = s.route
      /\ w.sess = s.sess
      /\ t.proc = s.proc /\ t.inc = s.inc /\ t.base = s.base /\ t.attn = s.attn /\ t.route = s.route
  BY <1>1, <1>4 DEF Identities
<1>6. w = r.id \/ (v.session = "none" /\ w.sess = r.id.sess + 1 /\ t = r.id)
  BY DEF Current, TerminalCurrent
<1> HIDE DEF w, t
<1> QED BY <1>2, <1>3, <1>5, <1>6 DEF Over, Same

LEMMA DeepStart == NInit => Deep(nat, {})
BY DEF NInit, NativeStart, NewDevice, NoEntries, Deep, Apart

LEMMA PostedDeep ==
  ASSUME NInv, Deep(nat, {}), Posted
  PROVE  Deep(nat', {})
<1>1. PICK d \in Devices, action \in ActionType, o \in DOMAIN nat.origins \cup {Stranger} :
        LET c == [action |-> action, req |-> <<"client", nat.proc, nat.opn + 1>>,
                  exp |-> Id(nat, d), origin |-> o]
        IN /\ o \in DOMAIN nat.origins => nat.origins[o].dev = d
           /\ Admits(nat, c)
           /\ nat' = Admitted(nat, c)
  BY DEF Posted, ActionType
<1> DEFINE c == [action |-> action, req |-> <<"client", nat.proc, nat.opn + 1>>,
                 exp |-> Id(nat, d), origin |-> o]
<1>2. Admits(nat, c) /\ nat' = Admitted(nat, c)
  BY <1>1
<1>3. /\ LedgerInv(nat) /\ LedgerType(nat) /\ Numbered(nat) /\ nat.proc \in Nat /\ nat.opn \in Nat
      /\ Id(nat, d) \in Identities /\ Id(nat, d).dev = d
  BY DeviceTyped DEF NInv, LedgerInv, LedgerType, Id
<1>4. Fresh(nat, <<"client", nat.proc, nat.opn + 1>>)
  BY <1>3 DEF Fresh, Numbered, Request, Numbering
<1>5. o \in Origin /\ o.proc <= nat.proc
  BY <1>3 DEF Stranger, Origin, Request, Numbering, LedgerType, Deep
<1>6. /\ c.action = action /\ c.exp = Id(nat, d) /\ c.origin = o
      /\ c.req = <<"client", nat.proc, nat.opn + 1>>
  OBVIOUS
<1>7. o \in DOMAIN nat.origins => nat.origins[o].dev = d
  BY <1>1
<1> HIDE DEF c
<1> QED BY <1>2, <1>3, <1>4, <1>5, <1>6, <1>7, AdmittedDeep

LEMMA DeepAlways == NSpec => []Deep(nat, {})
<1>1. NInv /\ Deep(nat, {}) /\ [NNext]_nvars => Deep(nat, {})'
  <2> SUFFICES ASSUME NInv, Deep(nat, {}), [NNext]_nvars PROVE Deep(nat', {})
    OBVIOUS
  <2>1. CASE UNCHANGED nvars
    BY <2>1 DEF nvars
  <2>2. CASE NNext
    BY <2>2, PostedDeep, StepDeep DEF NNext
  <2> QED BY <2>1, <2>2
<1> QED BY <1>1, DeepStart, LedgerInvariant, PTL DEF NSpec

\* What a client may conclude from the answers it reads: an accepted release that is current has
\* its origin retired in the database; a recover that answers restored or already retired too; and
\* an origin that was never admitted never will be.
AnswersProve ==
  \A q \in DOMAIN nat.receipts :
    LET r == nat.receipts[q]
    IN /\ r.action = "release" /\ r.outcome = "accepted" /\ Current(nat, r) => IsRetired(nat, r.origin)
       /\ r.action = "recover" /\ r.recovery \in {"restored", "already_retired"} => IsRetired(nat, r.origin)
       /\ r.action = "recover" /\ r.recovery = "never_admitted" =>
            r.origin \notin DOMAIN nat.origins /\ r.origin.proc < nat.proc

\* For every number of devices, commands, changes and restarts, an answer that is read keeps what
\* it promises about its origin.
THEOREM AnswersProveAlways == NSpec => []AnswersProve
<1>1. NInv /\ Deep(nat, {}) => AnswersProve
  <2> SUFFICES ASSUME NInv, Deep(nat, {}), NEW q \in DOMAIN nat.receipts
               PROVE  LET r == nat.receipts[q]
                      IN /\ r.action = "release" /\ r.outcome = "accepted" /\ Current(nat, r) =>
                              IsRetired(nat, r.origin)
                         /\ r.action = "recover" /\ r.recovery \in {"restored", "already_retired"} =>
                              IsRetired(nat, r.origin)
                         /\ r.action = "recover" /\ r.recovery = "never_admitted" =>
                              r.origin \notin DOMAIN nat.origins /\ r.origin.proc < nat.proc
    BY DEF AnswersProve
  <2>1. LedgerType(nat) /\ nat.receipts[q] \in ReceiptType /\ TerminalKnown(nat, nat.receipts[q])
    BY DEF NInv, LedgerInv, LedgerType, Deep
  <2> QED BY <2>1, CurrentMeans DEF TerminalKnown
<1> QED BY <1>1, LedgerInvariant, DeepAlways, PTL
============================================================================
