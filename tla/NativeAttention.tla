-------------------------- MODULE NativeAttention --------------------------
(***************************************************************************)
(* The attention ledger the patch adds to OwnTone: volatile leases per     *)
(* output device, and in SQLite the origin of every BEGIN and a receipt    *)
(* for every command.  The player thread handles one request, timer or     *)
(* RTSP callback at a time, so each is a function from one native state to *)
(* the next.  Revisions are small numbers; a volume is named by the        *)
(* revision it came with.                                                  *)
(***************************************************************************)
EXTENDS Naturals, FiniteSets

CONSTANTS None, Devices, Outcomes, MaxChanges, MaxRestarts, MaxCommands

ASSUME NativeAssumption ==
  /\ Outcomes \subseteq {"accepted", "failed", "unknown"}
  /\ {MaxChanges, MaxRestarts, MaxCommands} \subseteq Nat

VARIABLES nat,      \* the process and its database
          changes   \* volume, route, session and device changes so far

nvars == <<nat, changes>>

\* A request id is minted by a client, by the expiry of a lease, or by the manager.
Numbering == {"client", "expiry"}
Request == (Numbering \X Nat \X Nat) \cup ({"manager"} \X Nat)
Origin == [proc : Nat, req : Request]
ActionType == {"begin", "update", "release", "recover"}
OutcomeType == {"pending", "accepted", "failed", "unknown", "desired_only", "no_effect"}
RecoveryType == {"none", "pending", "never_admitted", "already_retired", "restored", "unknown"}
Identities == [proc : Nat, dev : Devices, inc : Nat, sess : Nat, base : Nat,
               attn : Nat, route : Nat, lease : Nat, rest : BOOLEAN]

NewDevice(incarnation) ==
  [inc |-> incarnation, sess |-> 0, base |-> 1, attn |-> 0, route |-> 0, lease |-> 0,
   rest |-> FALSE, expired |-> FALSE, attempted |-> FALSE, session |-> "none", rop |-> None,
   origin |-> None, lastRelease |-> 0, drained |-> None]

NoEntries == [q \in {} |-> 0]
Put(f, k, e) == [x \in DOMAIN f \cup {k} |-> IF x = k THEN e ELSE f[x]]

NativeStart(process) == [proc |-> process, opn |-> 0, dev |-> [d \in Devices |-> NewDevice(1)],
                         receipts |-> NoEntries, origins |-> NoEntries]

\* outputs_attention_state_get: the identity a command must expect.
Id(n, d) == LET v == n.dev[d]
            IN [proc |-> n.proc, dev |-> d, inc |-> v.inc, sess |-> v.sess, base |-> v.base,
                attn |-> v.attn, route |-> v.route, lease |-> v.lease, rest |-> v.rest]

\* Mutant: a receipt is looked up whatever its outcome.
LiveAnyOutcome(n, d) == {q \in DOMAIN n.receipts : n.receipts[q].id.proc = n.proc /\ n.receipts[q].id.dev = d}
Live(n, d) == {q \in DOMAIN n.receipts : /\ n.receipts[q].id.proc = n.proc
                                         /\ n.receipts[q].id.dev = d
                                         /\ n.receipts[q].outcome = "pending"}

\* A strict write of this incarnation whose outcome is unresolved.
Unresolved(n, d) == \E q \in Live(n, d) : n.receipts[q].id.inc = n.dev[d].inc

\* recovery_idle: no pending write of any incarnation, no sequence in flight.
Idle(n, d) == Live(n, d) = {} /\ n.dev[d].session \in {"none", "connected"}

OpenOrigins(n, d) == {o \in DOMAIN n.origins : n.origins[o].dev = d /\ ~n.origins[o].retired}

----------------------------------------------------------------------------
(* Currency of a receipt *)

\* Mutant: a volume the user chose meanwhile is ignored.
TerminalCurrentAnyBase(n, r, s) ==
  /\ r.action \in {"release", "recover"}
  /\ n.dev[r.id.dev].session = "none"
  /\ [s EXCEPT !.sess = r.id.sess, !.base = r.id.base] = r.id

\* The session that carried the command has ended since, and nothing else changed.
TerminalCurrent(n, r, s) ==
  /\ r.action \in {"release", "recover"}
  /\ n.dev[r.id.dev].session = "none"
  /\ s.sess = r.id.sess + 1
  /\ [s EXCEPT !.sess = r.id.sess] = r.id

\* An accepted release retired its own lease: that is not a change of owner.
OwnRetirement(n, r) ==
  LET s == Id(n, r.id.dev)
  IN IF /\ r.action = "release"
        /\ r.outcome \in {"accepted", "desired_only"}
        /\ s.lease = 0
        /\ s.attn = r.id.attn
     THEN [s EXCEPT !.lease = r.id.lease, !.rest = r.id.rest]
     ELSE s

\* outputs_attention_result_get: "current" is computed when the receipt is read.
Current(n, r) ==
  LET s == OwnRetirement(n, r)
  IN \/ s = r.id
     \/ /\ r.recovery = "restored" \/ (r.action = "release" /\ r.outcome = "accepted")
        /\ TerminalCurrent(n, r, s)

----------------------------------------------------------------------------
(* Admission *)

\* airplay_attention_recovery_prepare: a session of its own when the device has none.
Preparable(n, d) == Idle(n, d) /\ (n.dev[d].session = "connected" => n.dev[d].rop = None)
\* Mutant: the session is not told which operation it serves.
PreparedUnnamed(v, q) == IF v.session = "none" THEN [v EXCEPT !.session = "recovery", !.sess = @ + 1] ELSE v
Prepared(v, q) == IF v.session = "none"
                  THEN [v EXCEPT !.session = "recovery", !.sess = @ + 1, !.rop = q]
                  ELSE v

Receipt(n, d, c, origin, recovery) ==
  [op |-> n.opn, action |-> c.action, origin |-> origin, exp |-> c.exp, id |-> Id(n, d),
   outcome |-> "pending", recovery |-> recovery]

\* What every admission does last: mint the operation and keep its receipt.
Recorded(n, d, c, origin, recovery) ==
  LET m == [n EXCEPT !.opn = @ + 1]
  IN [m EXCEPT !.receipts = Put(@, c.req, Receipt(m, d, c, origin, recovery))]

Releasable(n, d) == /\ n.dev[d].lease # 0
                    /\ ~Unresolved(n, d)
                    /\ n.dev[d].session = "none" => Preparable(n, d)

\* RELEASE: a START still queued is drained first, its session handed off.
Release(n, d, c) ==
  LET v == n.dev[d]
      w == CASE v.session = "none" -> Prepared(v, c.req)
             [] v.session = "starting" -> [v EXCEPT !.session = "handoff", !.rop = c.req]
             [] OTHER -> v
      m == [n EXCEPT !.dev[d] = [w EXCEPT !.attn = @ + 1, !.rest = TRUE, !.lastRelease = n.opn + 1]]
  IN Recorded(m, d, c, v.origin, "none")

\* attention_expiry_reconcile: one release of its own per lease that ran out.
ExpiryReconcile(n, d) ==
  LET v == n.dev[d]
      c == [action |-> "release", req |-> <<"expiry", n.proc, n.opn + 1>>, exp |-> Id(n, d), origin |-> None]
  IN IF v.lease # 0 /\ v.expired /\ ~v.attempted /\ Releasable(n, d)
     THEN Release([n EXCEPT !.dev[d].attempted = TRUE], d, c)
     ELSE n

\* outputs_attention_complete: one terminal outcome per operation; only the
\* current owner's accepted release or recover retires an origin.
Complete(n, q, outcome) ==
  LET r == n.receipts[q]
      d == r.id.dev
      owner == Id(n, d) = r.id \/ TerminalCurrent(n, r, Id(n, d))
      retired == owner /\ outcome = "accepted" /\ r.action \in {"release", "recover"}
      final == IF r.action = "recover" /\ ~retired /\ outcome = "accepted" THEN "unknown" ELSE outcome
      recovery == IF r.action # "recover" THEN r.recovery
                  ELSE IF retired THEN "restored" ELSE "unknown"
      kept == [n EXCEPT !.receipts[q].outcome = final, !.receipts[q].recovery = recovery,
                        !.origins = IF retired THEN [@ EXCEPT ![r.origin].retired = TRUE] ELSE @]
      freed == IF r.action = "release" /\ final \in {"accepted", "desired_only"} /\ owner
               THEN [kept EXCEPT !.dev[d].lease = 0, !.dev[d].rest = FALSE, !.dev[d].expired = FALSE]
               ELSE kept
  IN IF n.dev[d].inc = r.id.inc THEN ExpiryReconcile(freed, d) ELSE kept

\* airplay_attention_set without a connected session: desired-only, no request sent.
Applied(n, d, q) == IF n.dev[d].session = "connected" THEN n ELSE Complete(n, q, "desired_only")

Begin(n, d, c) ==
  LET o == [proc |-> n.proc, req |-> c.req]
      v == [n.dev[d] EXCEPT !.origin = o, !.attn = @ + 1, !.lease = n.opn + 1,
                            !.expired = FALSE, !.attempted = FALSE]
      m == [n EXCEPT !.origins = Put(@, o, [dev |-> d, retired |-> FALSE]), !.dev[d] = v]
  IN Applied(Recorded(m, d, c, o, "none"), d, c.req)

Update(n, d, c) ==
  LET m == [n EXCEPT !.dev[d].attn = @ + 1, !.dev[d].expired = FALSE, !.dev[d].attempted = FALSE]
  IN Applied(Recorded(m, d, c, m.dev[d].origin, "none"), d, c.req)

\* db_attention_origin_get: absence proves that a finished process never admitted it.
OriginState(n, o) == IF o \notin DOMAIN n.origins THEN "never_admitted"
                     ELSE IF n.origins[o].retired THEN "already_retired" ELSE "pending"

\* Mutant: absence is taken for proof while the original process still runs.
RecoverableLiveProcess(n, d, o) ==
  /\ n.dev[d].lease = 0 /\ ~n.dev[d].rest
  /\ Idle(n, d)
  /\ OriginState(n, o) = "pending" => Preparable(n, d)

Recoverable(n, d, o) ==
  /\ n.dev[d].lease = 0 /\ ~n.dev[d].rest
  /\ Idle(n, d)
  /\ OriginState(n, o) = "never_admitted" => o.proc # n.proc
  /\ OriginState(n, o) = "pending" => Preparable(n, d)

Recover(n, d, c) ==
  LET state == OriginState(n, c.origin)
      v == n.dev[d]
      w == IF state = "pending" THEN [Prepared(v, c.req) EXCEPT !.rop = c.req] ELSE v
      m == [n EXCEPT !.dev[d] = [w EXCEPT !.attn = @ + 1]]
      s == Recorded(m, d, c, c.origin, state)
  IN IF state = "pending" THEN s ELSE [s EXCEPT !.receipts[c.req].outcome = "no_effect"]

\* Mutant: BEGIN looks at the volatile lease and not at the database.
AdmitsForgottenOrigin(n, c) ==
  LET d == c.exp.dev
  IN /\ c.exp = Id(n, d)
     /\ ~Unresolved(n, d)
     /\ CASE c.action = "begin" -> n.dev[d].lease = 0
          [] c.action = "update" -> n.dev[d].lease # 0 /\ ~n.dev[d].rest
          [] c.action = "release" -> Releasable(n, d)
          [] c.action = "recover" -> Recoverable(n, d, c.origin)

\* outputs_attention_admit: the conditions whose failure is answered with 400.
Admits(n, c) ==
  LET d == c.exp.dev
  IN /\ c.exp = Id(n, d)
     /\ ~Unresolved(n, d)
     /\ CASE c.action = "begin" -> n.dev[d].lease = 0 /\ OpenOrigins(n, d) = {}
          [] c.action = "update" -> n.dev[d].lease # 0 /\ ~n.dev[d].rest
          [] c.action = "release" -> Releasable(n, d)
          [] c.action = "recover" -> Recoverable(n, d, c.origin)

Admitted(n, c) ==
  LET d == c.exp.dev
  IN CASE c.action = "begin" -> Begin(n, d, c)
       [] c.action = "update" -> Update(n, d, c)
       [] c.action = "release" -> Release(n, d, c)
       [] c.action = "recover" -> Recover(n, d, c)

----------------------------------------------------------------------------
(* Sessions *)

\* outputs_attention_control_drained, once the session of the operation is gone.
Drained(n, d, q) ==
  LET r == n.receipts[q]
  IN IF /\ r.id.proc = n.proc /\ r.id.inc = n.dev[d].inc
        /\ n.dev[d].session = "none"
        /\ n.dev[d].sess = r.id.sess + 1
     THEN [n EXCEPT !.dev[d].drained = [op |-> r.op, req |-> q]]
     ELSE n

\* outputs_attention_handoff_drained: the lease ends, its origin stays open.
HandoffDrained(n, d, q) ==
  LET r == n.receipts[q]
  IN IF /\ n.dev[d].session = "none"
        /\ n.dev[d].sess = r.id.sess + 1
        /\ n.dev[d].lease = r.id.lease
        /\ n.dev[d].attn = r.id.attn
     THEN [n EXCEPT !.dev[d].lease = 0, !.dev[d].rest = FALSE, !.dev[d].expired = FALSE]
     ELSE n

\* session_free completes the requests still queued on the connection.
Flushed(n, d) ==
  IF Unresolved(n, d)
  THEN Complete(n, CHOOSE q \in Live(n, d) : n.receipts[q].id.inc = n.dev[d].inc, "unknown")
  ELSE n

\* session_cleanup: a recovery session reports only once its control is drained.
SessionEnded(n, d, outcome) ==
  LET q == n.dev[d].rop
      m == [n EXCEPT !.dev[d].session = "none", !.dev[d].sess = @ + 1, !.dev[d].rop = None]
      verdict == IF outcome = "accepted" THEN "accepted" ELSE "unknown"
  IN CASE n.dev[d].session = "handoff" -> Complete(HandoffDrained(Drained(m, d, q), d, q), q, "unknown")
       [] n.dev[d].session = "recovery" -> Complete(Drained(m, d, q), q, verdict)
       [] OTHER -> IF q = None THEN Flushed(m, d) ELSE Drained(Flushed(m, d), d, q)

----------------------------------------------------------------------------
(* Steps of the process that no client asked for *)

Change(d, v) == /\ changes < MaxChanges
                /\ changes' = changes + 1
                /\ nat' = [nat EXCEPT !.dev[d] = v]

\* outputs_device_volume_register and base_revision_advance
BaseChanged(d) == Change(d, [nat.dev[d] EXCEPT !.base = @ + 1])

\* outputs_device_select, outputs_device_deselect
RouteChanged(d) == Change(d, [nat.dev[d] EXCEPT !.route = @ + 1])

\* outputs_device_session_add
SessionStarts(d) == /\ nat.dev[d].session = "none"
                    /\ Change(d, [nat.dev[d] EXCEPT !.session = "starting", !.sess = @ + 1])

SessionConnects(d) == /\ nat.dev[d].session = "starting"
                      /\ nat' = [nat EXCEPT !.dev[d].session = "connected"]
                      /\ UNCHANGED changes

\* A session ends by itself or is stopped; a recovery or handoff one always ends.
SessionLost(d) == /\ nat.dev[d].session \in {"starting", "connected"}
                  /\ changes < MaxChanges
                  /\ changes' = changes + 1
                  /\ nat' = SessionEnded(nat, d, "unknown")

RecoverySessionEnds(d) == /\ nat.dev[d].session \in {"recovery", "handoff"}
                          /\ \E outcome \in Outcomes : nat' = SessionEnded(nat, d, outcome)
                          /\ UNCHANGED changes

\* outputs_device_remove and outputs_device_add: a new incarnation, the old session draining.
DeviceReadded(d) == Change(d, NewDevice(nat.dev[d].inc + 1))

\* attention_response_cb, or the end of an old incarnation's connection
Responded(d) ==
  /\ \E q \in Live(nat, d), outcome \in Outcomes :
       /\ nat.receipts[q].id.inc = nat.dev[d].inc => nat.dev[d].session = "connected"
       /\ LET m == Complete(nat, q, outcome)
          IN nat' = IF m.receipts[q].recovery = "restored" THEN [m EXCEPT !.dev[d].rop = None] ELSE m
  /\ UNCHANGED changes

\* attention_timer_cb at the deadline
TimerFires(d) ==
  /\ nat.dev[d].lease # 0 /\ ~nat.dev[d].rest
  /\ nat' = ExpiryReconcile([nat EXCEPT !.dev[d].rest = TRUE, !.dev[d].expired = TRUE, !.dev[d].attn = @ + 1], d)
  /\ UNCHANGED changes

\* A new OwnTone process registers with the same database.
Restarted == [NativeStart(nat.proc + 1) EXCEPT !.receipts = nat.receipts, !.origins = nat.origins]
ProcessRestarts == /\ nat.proc <= MaxRestarts
                   /\ nat' = Restarted
                   /\ UNCHANGED changes

NativeStep == \E d \in Devices :
                \/ BaseChanged(d) \/ RouteChanged(d)
                \/ SessionStarts(d) \/ SessionConnects(d) \/ SessionLost(d) \/ RecoverySessionEnds(d)
                \/ DeviceReadded(d) \/ Responded(d) \/ TimerFires(d)

----------------------------------------------------------------------------
(* The ledger under an arbitrary client *)

Stranger == [proc |-> 0, req |-> <<"client", 0, 0>>]

Posted == /\ Cardinality(DOMAIN nat.receipts) < MaxCommands
          /\ \E d \in Devices, action \in {"begin", "update", "release", "recover"},
                o \in DOMAIN nat.origins \cup {Stranger} :
               LET c == [action |-> action, req |-> <<"client", nat.proc, nat.opn + 1>>,
                         exp |-> Id(nat, d), origin |-> o]
               IN /\ o \in DOMAIN nat.origins => nat.origins[o].dev = d
                  /\ Admits(nat, c)
                  /\ nat' = Admitted(nat, c)
          /\ UNCHANGED changes

NInit == nat = NativeStart(1) /\ changes = 0
NNext == Posted \/ NativeStep \/ ProcessRestarts
NSpec == NInit /\ [][NNext]_nvars

----------------------------------------------------------------------------
(* Properties *)

\* Every field of the native state has the type the C structures give it, and a
\* session that carries a recovery or handoff operation names its receipt.
NTypeOK ==
  /\ changes \in 0 .. MaxChanges
  /\ nat.proc \in 1 .. MaxRestarts + 1 /\ nat.opn \in Nat
  /\ \A d \in Devices : /\ Id(nat, d) \in Identities
                        /\ nat.dev[d].session \in {"none", "starting", "connected", "recovery", "handoff"}
                        /\ nat.dev[d].session \in {"recovery", "handoff"} => nat.dev[d].rop \in Live(nat, d)
  /\ \A q \in DOMAIN nat.receipts : nat.receipts[q].id \in Identities

\* A device's BEGIN is refused while an earlier one is unrestored, across restarts
\* and re-added devices: at most one origin per device is open, and a lease in
\* force is always the lease of that open origin.
OneOpenOrigin ==
  \A d \in Devices : /\ Cardinality(OpenOrigins(nat, d)) <= 1
                     /\ nat.dev[d].lease # 0 => OpenOrigins(nat, d) = {nat.dev[d].origin}

\* An origin is retired only by a write that carried the device's latest base
\* volume: a volume the user chose while the restoring write was in flight is
\* never taken for restored.
RestoresLatestBase ==
  [][\A o \in DOMAIN nat.origins : nat'.origins[o].retired /\ ~nat.origins[o].retired =>
       \E q \in DOMAIN nat.receipts :
          /\ nat'.receipts[q].origin = o /\ nat'.receipts[q].outcome = "accepted"
          /\ nat'.receipts[q].id.base = nat.dev[nat.origins[o].dev].base
          /\ nat'.receipts[q].id.proc = nat.proc
          /\ nat'.receipts[q].id.inc = nat.dev[nat.origins[o].dev].inc]_nvars

\* "No last-callback-wins fold": a terminal outcome never changes, whatever
\* callbacks, drained sessions or restarts come later.
OutcomesFinal ==
  [][\A q \in DOMAIN nat.receipts : nat.receipts[q].outcome # "pending" =>
       nat'.receipts[q] = nat.receipts[q]]_nvars

============================================================================
