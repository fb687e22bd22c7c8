----------------------------- MODULE Attention -----------------------------
(***************************************************************************)
(* A room's attention owner in the manager, composed with the native       *)
(* ledger.  API handlers change mgr under its mutex; the bridge goroutine  *)
(* is the program counter call.pc and works between sections of that       *)
(* mutex, one HTTP exchange or section per step; journal is the custody in *)
(* memory and disk what a restarted manager would load.  A PUT may be      *)
(* lost, its answer may be lost, or it may be delivered after the manager  *)
(* gave up on it (late).  Session nonces and request ids are fresh numbers.*)
(***************************************************************************)
EXTENDS NativeAttention

CONSTANTS Modes,       \* how the bridge reconciles: "full", "target", "settle"
          MaxSessions, MaxRequests, MaxRevisions, MaxFaults, MaxDirect, MaxAttempts, MaxLegacy

ASSUME AttentionAssumption ==
  /\ Modes \subseteq {"full", "target", "settle"}
  /\ {MaxSessions, MaxRequests, MaxRevisions, MaxFaults, MaxDirect, MaxAttempts, MaxLegacy} \subseteq Nat

\* What the manager keeps of a native lease, a command it sent, an answer to it, and the
\* attempt to recover an origin.
LeaseType == [proc : Nat, inc : Nat, lease : Nat]
CommandType == [action : ActionType, req : Request, exp : Identities, origin : Origin \cup {None}]
SeenType == [outcome : OutcomeType, cur : BOOLEAN, op : Nat]
GrantType == [origin : Origin, gid : LeaseType \cup {None}, cmd : CommandType, res : SeenType \cup {None},
              unc : BOOLEAN, sub : BOOLEAN, rev : Nat, lastRestore : Nat]
AttemptType == [req : Request, proc : Nat, inc : Nat, sess : Nat]
AnswerType == [outcome : OutcomeType, cur : BOOLEAN, recovery : RecoveryType, op : Nat]

ASSUME NoneAssumption == None \notin LeaseType \cup SeenType \cup GrantType \cup AttemptType \cup AnswerType

VARIABLES mgr, journal, disk, call, late, nreq, faults

avars == <<mgr, journal, disk, call, late, nreq, faults>>
vars == <<nat, changes, avars>>

EmptyJournal == [sess |-> NoEntries, out |-> NoEntries]
NoGrants == [d \in Devices |-> None]
Idling == [pc |-> "idle", mode |-> "full", id |-> None, nonce |-> 0, rev |-> 0, restore |-> 0,
           active |-> FALSE, todo |-> {}, dev |-> None, next |-> "idle", obs |-> None, op |-> 0,
           cmd |-> None, out |-> None, answer |-> None]

\* The zero attention of a new manager process; loadCustody fills in the rest.
NewManager(process) ==
  [proc |-> process, rev |-> 0, restore |-> 0, nonce |-> 0, active |-> FALSE, pendingRelease |-> FALSE,
   nativePending |-> FALSE, busy |-> FALSE, settling |-> FALSE, direct |-> 0, legacy |-> 0, deleting |-> FALSE,
   fault |-> FALSE, imported |-> FALSE, grants |-> NoGrants]

Blocked == mgr.deleting \/ mgr.fault \/ mgr.imported
Granted == {d \in Devices : mgr.grants[d] # None}
OpenSessions(j) == {s \in DOMAIN j.sess : ~j.sess[s].retired}
OpenOutputs(j) == {q \in DOMAIN j.out : ~j.out[q].retired}
\* What recovery still works on: it skips the outputs of a retired session.
Owed(j) == {q \in OpenOutputs(j) : ~j.sess[j.out[q].sid].retired}
OutputsOf(j, s) == {q \in DOMAIN j.out : j.out[q].sid = s}

----------------------------------------------------------------------------
(* The journal *)

\* Mutants: any terminal answer is a proof; only a restoring answer is one.
ProvesTerminal(result) == result.outcome # "pending"
ProvesRestoredOnly(result) == result.cur /\ result.recovery = "restored" /\ result.outcome = "accepted"

\* recoveryReceipt: what a recover answer must prove before it retires an output.
Proves(result) == /\ result.cur
                  /\ <<result.recovery, result.outcome>> \in
                       {<<"never_admitted", "no_effect">>, <<"already_retired", "no_effect">>,
                        <<"restored", "accepted">>}

\* loadCustody: a journal that fails these checks leaves the room fenced for good.
Loads(j) ==
  \A q \in DOMAIN j.out : LET o == j.out[q] IN
    /\ j.sess[o.sid].retired => o.retired
    /\ o.rejected => o.rec # None /\ o.result = None /\ ~o.retired
    /\ o.retired => \/ o.how \in {"no_submission", "release"}
                    \/ o.rec # None /\ o.result # None /\ Proves(o.result)

\* save: on failure the new file may or may not have replaced the old one, and
\* the fault fences the owner.  ok and err are the owner and the call that follow.
Save(j, ok, err) ==
  /\ journal' = j
  /\ \/ /\ ~mgr.fault
        /\ disk' = j /\ mgr' = ok[1] /\ call' = ok[2]
        /\ UNCHANGED faults
     \/ /\ ~mgr.fault /\ faults < MaxFaults
        /\ faults' = faults + 1
        /\ disk' \in {disk, j}
        /\ mgr' = [err[1] EXCEPT !.fault = TRUE] /\ call' = err[2]
     \/ /\ mgr.fault
        /\ mgr' = err[1] /\ call' = err[2]
        /\ UNCHANGED <<disk, faults>>

\* custodyBeginLocked: the output is on disk before its BEGIN is sent.
OutputOf(d, c, s) ==
  [sid |-> s, dev |-> d, origin |-> [proc |-> c.exp.proc, req |-> c.req], inc |-> c.exp.inc,
   retired |-> FALSE, how |-> "none", rec |-> None, result |-> None, rejected |-> FALSE, consumed |-> {}]

Retired(j, q, how) == [j EXCEPT !.out[q].retired = TRUE, !.out[q].how = how]

----------------------------------------------------------------------------
(* The API *)

\* Mutant: the earlier conversation's cleanup is not waited for.
EngageBeginEarly ==
  /\ ~Blocked
  /\ ~mgr.active
  /\ Cardinality(DOMAIN journal.sess) < MaxSessions
  /\ LET s == Cardinality(DOMAIN journal.sess) + 1
     IN Save([journal EXCEPT !.sess = Put(@, s, [mproc |-> mgr.proc, retired |-> FALSE])],
             <<[mgr EXCEPT !.nonce = s, !.rev = @ + 1, !.active = TRUE, !.pendingRelease = FALSE], call>>,
             <<mgr, call>>)
  /\ UNCHANGED <<nat, changes, late, nreq>>

\* engageOwned with begin: custodyAdmitLocked saves the session before it is admitted.
EngageBegin ==
  /\ ~Blocked
  /\ ~mgr.active /\ ~mgr.pendingRelease /\ ~mgr.nativePending /\ ~mgr.busy
  /\ Cardinality(DOMAIN journal.sess) < MaxSessions
  /\ LET s == Cardinality(DOMAIN journal.sess) + 1
     IN Save([journal EXCEPT !.sess = Put(@, s, [mproc |-> mgr.proc, retired |-> FALSE])],
             <<[mgr EXCEPT !.nonce = s, !.rev = @ + 1, !.active = TRUE, !.pendingRelease = FALSE], call>>,
             <<mgr, call>>)
  /\ UNCHANGED <<nat, changes, late, nreq>>

\* engageOwned without begin: a heartbeat of the admitted owner.
EngageRefresh ==
  /\ ~Blocked
  /\ mgr.active /\ mgr.nonce # 0
  /\ mgr.rev < MaxRevisions
  /\ mgr' = [mgr EXCEPT !.rev = @ + 1]
  /\ UNCHANGED <<nat, changes, journal, disk, call, late, nreq, faults>>

\* releaseOwned.  custodyRelease ran in an earlier section, so the session may
\* have been retired or imported since.
ReleaseOwned ==
  /\ mgr.nonce # 0
  /\ ~(mgr.settling /\ ~mgr.active /\ mgr.pendingRelease)
  /\ mgr.rev < MaxRevisions
  /\ mgr' = [mgr EXCEPT !.restore = @ + 1, !.rev = @ + 1, !.active = FALSE, !.pendingRelease = TRUE]
  /\ UNCHANGED <<nat, changes, journal, disk, call, late, nreq, faults>>

\* A request without a session is refused once a session owns the room.  The handler
\* asks that in one section of the mutex and acts in another.
LegacyChecked ==
  /\ mgr.nonce = 0 /\ ~Blocked
  /\ mgr.legacy < MaxLegacy
  /\ mgr' = [mgr EXCEPT !.legacy = @ + 1]
  /\ UNCHANGED <<nat, changes, journal, disk, call, late, nreq, faults>>

\* engage
LegacyEngage ==
  /\ mgr.legacy > 0
  /\ mgr' = IF Blocked THEN [mgr EXCEPT !.legacy = @ - 1]
            ELSE [mgr EXCEPT !.legacy = @ - 1, !.active = TRUE, !.pendingRelease = FALSE]
  /\ UNCHANGED <<nat, changes, journal, disk, call, late, nreq, faults>>

\* release
LegacyRelease ==
  /\ mgr.legacy > 0
  /\ mgr' = [mgr EXCEPT !.legacy = @ - 1, !.active = FALSE, !.pendingRelease = @ \/ mgr.active]
  /\ UNCHANGED <<nat, changes, journal, disk, call, late, nreq, faults>>

\* expireLocked, noticed by whichever section comes first after the deadline.
Expire ==
  /\ mgr.active
  /\ mgr' = [mgr EXCEPT !.active = FALSE, !.pendingRelease = TRUE]
  /\ UNCHANGED <<nat, changes, journal, disk, call, late, nreq, faults>>

\* custodyMutationAdmission and the closure it returns
MutationBegins ==
  /\ ~Blocked /\ ~mgr.settling
  /\ mgr.direct < MaxDirect
  /\ mgr' = [mgr EXCEPT !.direct = @ + 1]
  /\ UNCHANGED <<nat, changes, journal, disk, call, late, nreq, faults>>

MutationEnds ==
  /\ mgr.direct > IF mgr.deleting THEN 1 ELSE 0
  /\ mgr' = [mgr EXCEPT !.direct = @ - 1]
  /\ UNCHANGED <<nat, changes, journal, disk, call, late, nreq, faults>>

\* custodyDeleteAdmission: a room whose cleanup is pending is not deleted.
Deletable == ~Blocked /\ ~mgr.busy /\ OpenSessions(journal) = {}

DeleteBegins ==
  /\ Deletable
  /\ mgr.direct < MaxDirect
  /\ mgr' = [mgr EXCEPT !.deleting = TRUE, !.direct = @ + 1]
  /\ UNCHANGED <<nat, changes, journal, disk, call, late, nreq, faults>>

DeleteEnds ==
  /\ mgr.deleting
  /\ mgr' = [mgr EXCEPT !.deleting = FALSE, !.direct = @ - 1]
  /\ UNCHANGED <<nat, changes, journal, disk, call, late, nreq, faults>>

----------------------------------------------------------------------------
(* Grants *)

NewGrant(c, revision) ==
  [origin |-> [proc |-> c.exp.proc, req |-> c.req], gid |-> None, cmd |-> c, res |-> None,
   unc |-> TRUE, sub |-> FALSE, rev |-> revision, lastRestore |-> 0]

\* A new command replaces the old one's result.
Reissued(g, c) == [g EXCEPT !.cmd = c, !.res = None, !.unc = TRUE, !.sub = FALSE]

Outcome(g) == IF g.res = None THEN "none" ELSE g.res.outcome
Seen(r) == [outcome |-> r.outcome, cur |-> Current(nat, r), op |-> r.op]
Lease(r) == [proc |-> r.id.proc, inc |-> r.id.inc, lease |-> r.id.lease]

\* foldObserved: a receipt of another lease is refused; the first one names the lease.
Folds(g, r) == g.gid # None => Lease(r) = g.gid
Folded(g, r, seen) == [g EXCEPT !.res = seen, !.unc = FALSE, !.gid = IF @ = None THEN Lease(r) ELSE @]

\* observe: by request id while uncertain (the database answers), else by
\* operation (only the process that ran it answers).
Observable(g) ==
  /\ g.cmd.req \in DOMAIN nat.receipts
  /\ ~g.unc => nat.receipts[g.cmd.req].id.proc = nat.proc
  /\ Folds(g, nat.receipts[g.cmd.req])

\* Mutant: a current answer is enough, also while it is pending.
AcceptedPending(g) == g.cmd.action = "release" /\ g.res # None /\ g.res.cur
Accepted(g) == g.cmd.action = "release" /\ g.res # None /\ g.res.cur /\ g.res.outcome = "accepted"
FailedRelease(g) == g.cmd.action = "release" /\ Outcome(g) \in {"failed", "unknown"}
Waiting(g) == g.unc \/ Outcome(g) = "pending"

\* inactiveOriginalCurrent, asked by the release-only path around every exchange.
OriginalCurrent(d) ==
  /\ ~mgr.active /\ mgr.pendingRelease
  /\ mgr.nonce = call.nonce /\ mgr.rev = call.rev /\ mgr.restore = call.restore
  /\ mgr.settling /\ ~Blocked /\ mgr.direct = 0
  /\ ~journal.out[mgr.grants[d].origin.req].retired

MayProceed(d) == call.mode = "settle" => OriginalCurrent(d)
OwnerCurrent == mgr.active /\ mgr.nonce = call.nonce /\ mgr.rev = call.rev
RouteAnswers == IF call.mode = "target" THEN BOOLEAN ELSE {TRUE}

At(pc) == call.pc = pc
Goto(pc) == [call EXCEPT !.pc = pc]
Detecting(d, next) == [call EXCEPT !.pc = "detect", !.dev = d, !.next = next]

----------------------------------------------------------------------------
(* nativeReconcileWithMode *)

\* A call with no owner, no lease and nothing to release changes nothing and is left out.
Enter(mode) ==
  /\ At("idle")
  /\ ~mgr.busy /\ ~Blocked
  /\ mgr.active \/ mgr.pendingRelease \/ Granted # {}
  /\ mode = "settle" => ~mgr.active /\ mgr.pendingRelease /\ mgr.nonce # 0 /\ mgr.direct = 0
  /\ \E id \in IF mode = "settle" THEN {None} ELSE IF mode = "target" THEN Devices ELSE Devices \cup {None} :
       call' = [Idling EXCEPT !.pc = IF mgr.nonce = 0 THEN "finish" ELSE "poll",
                              !.mode = mode, !.id = id, !.nonce = mgr.nonce, !.rev = mgr.rev,
                              !.restore = mgr.restore, !.active = mgr.active, !.todo = Granted]
  /\ mgr' = [mgr EXCEPT !.busy = TRUE, !.settling = (mode = "settle")]
  /\ UNCHANGED <<nat, changes, journal, disk, late, nreq, faults>>

\* Poll pending and lost receipts; a receipt that cannot be read ends the call.
Polled(d) ==
  LET g == mgr.grants[d]
      r == nat.receipts[g.cmd.req]
      h == Folded(g, r, Seen(r))
  IN IF ~MayProceed(d) THEN call' = Goto("finish") /\ UNCHANGED mgr
     ELSE IF Observable(g)
     THEN /\ mgr' = [mgr EXCEPT !.grants[d] = h]
          /\ call' = [IF FailedRelease(h) THEN Detecting(d, "poll") ELSE call EXCEPT !.todo = @ \ {d}]
     ELSE call' = Detecting(d, "finish") /\ UNCHANGED mgr

Poll ==
  /\ At("poll")
  /\ \E d \in call.todo :
       \/ Waiting(mgr.grants[d]) /\ Polled(d)
       \/ ~Waiting(mgr.grants[d]) /\ call' = [call EXCEPT !.todo = @ \ {d}] /\ UNCHANGED mgr
  /\ UNCHANGED <<nat, changes, journal, disk, late, nreq, faults>>

\* detectNativeReplacement: one more GET, then a section that imports custody.
Replaced(d) ==
  LET g == mgr.grants[d]
      v == nat.dev[d]
      quiet == Idle(nat, d) /\ v.lease = 0 /\ ~v.rest
  IN \/ nat.proc # g.cmd.exp.proc
     \/ quiet /\ v.inc # g.cmd.exp.inc
     \/ quiet /\ FailedRelease(g) /\ v.drained = [op |-> g.res.op, req |-> g.cmd.req]

Importable(d) == LET o == journal.out[mgr.grants[d].origin.req]
                 IN ~mgr.fault /\ ~o.retired /\ o.inc = mgr.grants[d].cmd.exp.inc

Detect ==
  /\ At("detect")
  /\ IF Replaced(call.dev) /\ Importable(call.dev)
     THEN mgr' = [mgr EXCEPT !.active = FALSE, !.pendingRelease = TRUE, !.imported = TRUE, !.rev = @ + 1]
     ELSE UNCHANGED mgr
  /\ call' = Goto(call.next)
  /\ UNCHANGED <<nat, changes, journal, disk, late, nreq, faults>>

Target == IF call.active /\ call.id # None THEN mgr.grants[call.id] ELSE None
Polling == At("poll") /\ call.todo # {}
Targeting == At("poll") /\ call.todo = {} /\ call.active /\ call.id # None

\* After the target is settled the release loop takes every other grant.
Releasing == IF call.mode = "target" THEN Goto("finish")
             ELSE [call EXCEPT !.pc = "release", !.todo = IF call.active THEN Granted \ {call.id} ELSE Granted]

BeginObserves ==
  /\ Targeting /\ Target = None
  /\ \E admitted \in RouteAnswers :
       call' = IF nat.dev[call.id].lease = 0 /\ admitted
               THEN [call EXCEPT !.pc = "reserve", !.obs = Id(nat, call.id)]
               ELSE Goto("finish")
  /\ UNCHANGED <<nat, changes, mgr, journal, disk, late, nreq, faults>>

Stale(g) == g # None /\ Outcome(g) # "pending" /\ g.rev # call.rev

UpdateObserves ==
  /\ Targeting /\ Stale(Target)
  /\ LET g == Target
         s == Id(nat, call.id)
     IN \E admitted \in RouteAnswers :
          call' = IF [proc |-> s.proc, inc |-> s.inc, lease |-> s.lease] # g.gid \/ s.rest
                  THEN Detecting(call.id, "finish")
                  ELSE IF admitted THEN [call EXCEPT !.pc = "reserve", !.obs = s] ELSE Goto("finish")
  /\ UNCHANGED <<nat, changes, mgr, journal, disk, late, nreq, faults>>

\* The section after the GET: the same conversation must still be current.
ReserveRefused ==
  /\ At("reserve")
  /\ ~OwnerCurrent
  /\ call' = Goto("finish")
  /\ UNCHANGED <<nat, changes, mgr, journal, disk, late, nreq, faults>>

Command(action, obs) == [action |-> action, req |-> <<"manager", nreq + 1>>, exp |-> obs, origin |-> None]

ReserveBegin ==
  /\ At("reserve") /\ Target = None
  /\ OwnerCurrent
  /\ nreq < MaxRequests
  /\ LET c == Command("begin", call.obs)
     IN Save([journal EXCEPT !.out = Put(@, c.req, OutputOf(call.id, c, mgr.nonce))],
             <<mgr, [call EXCEPT !.pc = "recheck", !.cmd = c]>>, <<mgr, Goto("finish")>>)
  /\ nreq' = nreq + 1
  /\ UNCHANGED <<nat, changes, late>>

\* "Disk durability may outlive the route or conversation permission."
Recheck ==
  /\ At("recheck")
  /\ \E admitted \in RouteAnswers :
       IF admitted /\ OwnerCurrent
       THEN /\ mgr' = [mgr EXCEPT !.grants[call.id] = NewGrant(call.cmd, call.rev), !.nativePending = TRUE]
            /\ call' = [call EXCEPT !.pc = "put", !.dev = call.id]
            /\ UNCHANGED <<journal, disk, faults>>
       ELSE Save(Retired(journal, call.cmd.req, "no_submission"), <<mgr, Goto("finish")>>, <<mgr, Goto("finish")>>)
  /\ UNCHANGED <<nat, changes, late, nreq>>

ReserveUpdate ==
  /\ At("reserve") /\ Target # None
  /\ OwnerCurrent
  /\ nreq < MaxRequests
  /\ LET c == Command("update", call.obs)
     IN /\ mgr' = [mgr EXCEPT !.grants[call.id] = [Reissued(@, c) EXCEPT !.rev = call.rev]]
        /\ call' = [call EXCEPT !.pc = "put", !.dev = call.id, !.cmd = c]
  /\ nreq' = nreq + 1
  /\ UNCHANGED <<nat, changes, journal, disk, late, faults>>

\* The target is settled, here or in an earlier tick: the handoff may go on.
TargetSettled(g) == ~g.unc /\ g.res # None /\ g.res.cur /\ g.res.outcome \in {"accepted", "desired_only"}
AfterTarget(g) == IF TargetSettled(g) THEN Releasing ELSE Goto("finish")

PollDone ==
  /\ At("poll") /\ call.todo = {}
  /\ Targeting => Target # None /\ ~Stale(Target)
  /\ call' = IF Targeting THEN AfterTarget(Target) ELSE Releasing
  /\ UNCHANGED <<nat, changes, mgr, journal, disk, late, nreq, faults>>

\* submit: one PUT per command.  Its answer is folded at once; an error leaves the
\* grant uncertain and asks whether the native process was replaced.
Submitted(g) == [g EXCEPT !.sub = TRUE, !.unc = TRUE]

PutAnswered ==
  /\ At("put")
  /\ Admits(nat, call.cmd)
  /\ nat' = Admitted(nat, call.cmd)
  /\ LET d == call.dev
         r == nat'.receipts[call.cmd.req]
         seen == [outcome |-> r.outcome, cur |-> Current(nat', r), op |-> r.op]
         g == Submitted(mgr.grants[d])
         h == Folded(g, r, seen)
     IN IF ~Folds(g, r)
        THEN mgr' = [mgr EXCEPT !.grants[d] = g] /\ call' = Detecting(d, "finish")
        ELSE /\ mgr' = [mgr EXCEPT !.grants[d] = h]
             /\ call' = CASE FailedRelease(h) -> Detecting(d, "finish")
                          [] Accepted(h) -> [call EXCEPT !.pc = "retire", !.dev = d]
                          [] h.cmd.action = "release" /\ ~Accepted(h) /\ ~FailedRelease(h) -> Goto("finish")
                          [] h.cmd.action # "release" -> AfterTarget(h)
  /\ UNCHANGED <<changes, journal, disk, late, nreq, faults>>

\* Refused with 400, or the PUT or its answer is lost.
PutFails ==
  /\ At("put")
  /\ mgr' = [mgr EXCEPT !.grants[call.dev] = Submitted(@)]
  /\ call' = Detecting(call.dev, "finish")
  /\ \/ ~Admits(nat, call.cmd) /\ UNCHANGED <<nat, late, faults>>
     \/ /\ faults < MaxFaults
        /\ faults' = faults + 1
        /\ \/ Admits(nat, call.cmd) /\ nat' = Admitted(nat, call.cmd) /\ UNCHANGED late
           \/ late' = late \cup {call.cmd} /\ UNCHANGED nat
  /\ UNCHANGED <<changes, journal, disk, nreq>>

----------------------------------------------------------------------------
(* The release loop *)

\* Stops the call: the grant's last command is unresolved, or the native lease is
\* another one, or the same failed release would be sent again.
Repeats(g, s) == /\ g.cmd.action = "release" /\ g.lastRestore = call.restore
                 /\ s.base = g.cmd.exp.base /\ s.sess = g.cmd.exp.sess

ReleaseStops(d) ==
  LET g == mgr.grants[d]
      s == Id(nat, d)
  IN \/ ~MayProceed(d)
     \/ Waiting(g)
     \/ /\ ~Accepted(g)
        /\ s.proc = g.gid.proc /\ s.inc = g.gid.inc
        /\ s.lease # 0
        /\ s.lease # g.gid.lease \/ Repeats(g, s)

ReleaseStopped ==
  /\ At("release")
  /\ \E d \in call.todo : ReleaseStops(d)
  /\ call' = Goto("finish")
  /\ UNCHANGED <<nat, changes, mgr, journal, disk, late, nreq, faults>>

\* The GET of the loop: the accepted release is retired, a replaced device is
\* reported, a lease that is gone needs its terminal, else a release is minted.
ReleaseScans ==
  /\ At("release")
  /\ \E d \in call.todo :
       LET g == mgr.grants[d]
           s == Id(nat, d)
           c == Command("release", s)
       IN /\ ~ReleaseStops(d)
          /\ \/ /\ Accepted(g)
                /\ call' = [call EXCEPT !.pc = "retire", !.dev = d]
                /\ UNCHANGED <<mgr, nreq>>
             \/ /\ ~Accepted(g)
                /\ s.proc # g.gid.proc \/ s.inc # g.gid.inc
                /\ call' = Detecting(d, "finish")
                /\ UNCHANGED <<mgr, nreq>>
             \/ /\ ~Accepted(g)
                /\ s.proc = g.gid.proc /\ s.inc = g.gid.inc
                /\ s.lease = 0
                /\ call' = [Detecting(d, "terminal") EXCEPT !.op = nat.dev[d].lastRelease]
                /\ UNCHANGED <<mgr, nreq>>
             \/ /\ ~Accepted(g)
                /\ s.proc = g.gid.proc /\ s.inc = g.gid.inc
                /\ s.lease # 0
                /\ nreq < MaxRequests
                /\ mgr' = [mgr EXCEPT !.grants[d] = [Reissued(@, c) EXCEPT !.lastRestore = call.restore]]
                /\ call' = [call EXCEPT !.pc = "put", !.dev = d, !.cmd = c]
                /\ nreq' = nreq + 1
  /\ UNCHANGED <<nat, changes, journal, disk, late, faults>>

ReleaseLoopEnds ==
  /\ At("release") /\ call.todo = {}
  /\ call' = Goto("finish")
  /\ UNCHANGED <<nat, changes, mgr, journal, disk, late, nreq, faults>>

\* "Native TTL may have restored this exact lease while manager was blocked."
TerminalOf(d) == {q \in DOMAIN nat.receipts :
                    LET r == nat.receipts[q] IN
                    /\ r.op = call.op /\ r.id.proc = nat.proc /\ r.id.dev = d
                    /\ Lease(r) = mgr.grants[d].gid
                    /\ r.action = "release" /\ r.outcome = "accepted" /\ Current(nat, r)}

Terminal ==
  /\ At("terminal")
  /\ LET d == call.dev
     IN IF Blocked \/ ~MayProceed(d) \/ TerminalOf(d) = {}
        THEN call' = Goto("finish") /\ UNCHANGED mgr
        ELSE /\ mgr' = [mgr EXCEPT !.grants[d].res = [outcome |-> "accepted", cur |-> TRUE, op |-> call.op]]
             /\ call' = Goto("retire")
  /\ UNCHANGED <<nat, changes, journal, disk, late, nreq, faults>>

\* retireNativeGrant: the grant goes only once its retirement is on disk.
Retire ==
  /\ At("retire")
  /\ LET d == call.dev
         g == mgr.grants[d]
         o == journal.out[g.origin.req]
     IN IF ~MayProceed(d) \/ g.gid.proc # o.origin.proc \/ g.gid.inc # o.inc
        THEN call' = Goto("finish") /\ UNCHANGED <<mgr, journal, disk, faults>>
        ELSE Save(Retired(journal, g.origin.req, "release"),
                  <<[mgr EXCEPT !.grants[d] = None], [call EXCEPT !.pc = "release", !.todo = @ \ {d}]>>,
                  <<mgr, Goto("finish")>>)
  /\ UNCHANGED <<nat, changes, late, nreq>>

\* The deferred section: custodyFinishLocked retires the session with its last output.
Finishable == /\ ~mgr.active /\ Granted = {}
              /\ mgr.nonce # 0 => \A q \in OutputsOf(journal, mgr.nonce) : journal.out[q].retired

Finish ==
  /\ At("finish")
  /\ LET m == [mgr EXCEPT !.busy = FALSE, !.settling = FALSE, !.nativePending = (Granted # {})]
         free == [m EXCEPT !.pendingRelease = FALSE]
     IN IF ~Finishable THEN mgr' = m /\ call' = Idling /\ UNCHANGED <<journal, disk, faults>>
        ELSE IF mgr.nonce = 0 \/ journal.sess[mgr.nonce].retired
        THEN mgr' = free /\ call' = Idling /\ UNCHANGED <<journal, disk, faults>>
        ELSE Save([journal EXCEPT !.sess[mgr.nonce].retired = TRUE], <<free, Idling>>, <<m, Idling>>)
  /\ UNCHANGED <<nat, changes, late, nreq>>

----------------------------------------------------------------------------
(* reconcileCustody *)

Custody(pc) == [call EXCEPT !.pc = pc]
\* Mutant: the deferred reset of nativeBusy is missing.
CustodyOverBusy == <<mgr, Idling>>
CustodyOver == <<[mgr EXCEPT !.busy = FALSE], Idling>>
CustodyEnds == mgr' = CustodyOver[1] /\ call' = CustodyOver[2]

\* Mutant: direct effects already admitted are not waited for.
CustodyEnterAtOnce ==
  /\ At("idle")
  /\ Blocked /\ ~mgr.fault /\ ~mgr.busy
  /\ mgr' = [mgr EXCEPT !.busy = TRUE]
  /\ call' = [Idling EXCEPT !.pc = "scan"]
  /\ UNCHANGED <<nat, changes, journal, disk, late, nreq, faults>>

CustodyEnter ==
  /\ At("idle")
  /\ Blocked /\ ~mgr.fault /\ ~mgr.busy /\ mgr.direct = 0
  /\ mgr' = [mgr EXCEPT !.busy = TRUE]
  /\ call' = [Idling EXCEPT !.pc = "scan"]
  /\ UNCHANGED <<nat, changes, journal, disk, late, nreq, faults>>

\* The drain of a failed attempt's own session, usable once.
OwnedDrain(o) == /\ nat.dev[o.dev].drained = [op |-> o.result.op, req |-> o.rec.req]
                 /\ [proc |-> nat.proc, drain |-> nat.dev[o.dev].drained] \notin o.consumed

\* A failed or unknown attempt is repeated only after the session it ran in changed.
Failed(o) == o.rec # None /\ o.result # None /\ o.result.outcome \in {"failed", "unknown"}

NeedsFresh(o) ==
  ~o.rejected /\ o.rec # None =>
    \/ o.rec.proc # nat.proc
    \/ /\ Failed(o)
       /\ \/ nat.dev[o.dev].inc # o.rec.inc
          \/ nat.dev[o.dev].sess # o.rec.sess
          \/ OwnedDrain(o)

Quiet(d) == nat.dev[d].lease = 0 /\ ~nat.dev[d].rest /\ Idle(nat, d)

\* Mutant: a fresh attempt keeps the mark of the rejected one.
AttemptStillRejected(o, c) ==
  [o EXCEPT !.result = None, !.rec = [req |-> c.req, proc |-> c.exp.proc, inc |-> c.exp.inc, sess |-> c.exp.sess]]

Attempt(o, c) ==
  [o EXCEPT !.rejected = FALSE, !.result = None,
            !.rec = [req |-> c.req, proc |-> c.exp.proc, inc |-> c.exp.inc, sess |-> c.exp.sess],
            !.consumed = IF Failed(o) /\ OwnedDrain(o)
                         THEN @ \cup {[proc |-> nat.proc, drain |-> nat.dev[o.dev].drained]} ELSE @]

\* A fresh attempt is journalled before its PUT.
CustodyAttempts ==
  /\ At("scan")
  /\ \E q \in Owed(journal) :
       LET o == journal.out[q]
           c == [Command("recover", Id(nat, o.dev)) EXCEPT !.origin = o.origin]
       IN /\ NeedsFresh(o) /\ Quiet(o.dev)
          /\ nreq < MaxRequests + MaxAttempts
          /\ Save([journal EXCEPT !.out[q] = Attempt(o, c)],
                  <<mgr, [call EXCEPT !.pc = "recover", !.cmd = c, !.out = q]>>, CustodyOver)
  /\ nreq' = nreq + 1
  /\ UNCHANGED <<nat, changes, late>>

CustodyWaits ==
  /\ At("scan")
  /\ \E q \in Owed(journal) : NeedsFresh(journal.out[q]) /\ ~Quiet(journal.out[q].dev)
  /\ CustodyEnds
  /\ UNCHANGED <<nat, changes, journal, disk, late, nreq, faults>>

Answer(n, q) == [outcome |-> n.receipts[q].outcome, cur |-> Current(n, n.receipts[q]),
                 recovery |-> n.receipts[q].recovery, op |-> n.receipts[q].op]

RecoverAnswered ==
  /\ At("recover")
  /\ Admits(nat, call.cmd)
  /\ nat' = Admitted(nat, call.cmd)
  /\ call' = [call EXCEPT !.pc = "store", !.answer = Answer(nat', call.cmd.req)]
  /\ UNCHANGED <<changes, mgr, journal, disk, late, nreq, faults>>

\* "This C endpoint's 400 paths precede backend dispatch": the attempt is dead, the
\* obligation is not.
RecoverRejected ==
  /\ At("recover")
  /\ ~Admits(nat, call.cmd)
  /\ Save([journal EXCEPT !.out[call.out].rejected = TRUE], CustodyOver, CustodyOver)
  /\ UNCHANGED <<nat, changes, late, nreq>>

RecoverLost ==
  /\ At("recover")
  /\ faults < MaxFaults
  /\ faults' = faults + 1
  /\ \/ Admits(nat, call.cmd) /\ nat' = Admitted(nat, call.cmd) /\ UNCHANGED late
     \/ late' = late \cup {call.cmd} /\ UNCHANGED nat
  /\ CustodyEnds
  /\ UNCHANGED <<changes, journal, disk, nreq>>

Undecided(o) == o.result # None => o.result.outcome = "pending"

\* An attempt without a terminal answer is polled by its request id.
CustodyPolls ==
  /\ At("scan")
  /\ \E q \in Owed(journal) :
       LET o == journal.out[q]
       IN /\ ~NeedsFresh(o)
          /\ Undecided(o)
          /\ IF o.rec.req \in DOMAIN nat.receipts
             THEN call' = [call EXCEPT !.pc = "store", !.out = q, !.answer = Answer(nat, o.rec.req)] /\ UNCHANGED mgr
             ELSE CustodyEnds
  /\ UNCHANGED <<nat, changes, journal, disk, late, nreq, faults>>

CustodyStores ==
  /\ At("store")
  /\ Save([journal EXCEPT !.out[call.out].result = call.answer], <<mgr, Custody("prove")>>, CustodyOver)
  /\ UNCHANGED <<nat, changes, late, nreq>>

\* A terminal answer already stored is only examined again.
CustodyReexamines ==
  /\ At("scan")
  /\ \E q \in Owed(journal) :
       LET o == journal.out[q]
       IN /\ ~NeedsFresh(o)
          /\ ~Undecided(o)
          /\ call' = [call EXCEPT !.pc = "prove", !.out = q]
  /\ UNCHANGED <<nat, changes, mgr, journal, disk, late, nreq, faults>>

CustodyProves ==
  /\ At("prove")
  /\ IF Proves(journal.out[call.out].result)
     THEN Save(Retired(journal, call.out, "recover"), <<mgr, Custody("scan")>>, CustodyOver)
     ELSE CustodyEnds /\ UNCHANGED <<journal, disk, faults>>
  /\ UNCHANGED <<nat, changes, late, nreq>>

CustodyRetiresSession ==
  /\ At("scan")
  /\ Owed(journal) = {}
  /\ \E s \in OpenSessions(journal) :
       Save([journal EXCEPT !.sess[s].retired = TRUE], <<mgr, call>>, CustodyOver)
  /\ UNCHANGED <<nat, changes, late, nreq>>

\* Volatile grants go only after all durable proofs.
CustodyDone ==
  /\ At("scan")
  /\ OpenSessions(journal) = {}
  /\ mgr' = [mgr EXCEPT !.imported = FALSE, !.grants = NoGrants, !.nativePending = FALSE,
                        !.pendingRelease = FALSE, !.active = FALSE, !.busy = FALSE]
  /\ call' = Idling
  /\ UNCHANGED <<nat, changes, journal, disk, late, nreq, faults>>

----------------------------------------------------------------------------
(* Failures and the specification *)

\* A PUT the manager gave up on reaches the player after all.
LateDelivery ==
  /\ \E c \in late : /\ late' = late \ {c}
                     /\ nat' = IF Admits(nat, c) THEN Admitted(nat, c) ELSE nat
  /\ UNCHANGED <<changes, mgr, journal, disk, call, nreq, faults>>

\* The manager dies; a PUT it was sending may still be on its way.
Crash ==
  /\ faults < MaxFaults
  /\ faults' = faults + 1
  /\ late' \in IF call.pc \in {"put", "recover"} THEN {late, late \cup {call.cmd}} ELSE {late}
  /\ journal' = disk
  /\ mgr' = [NewManager(mgr.proc + 1) EXCEPT !.imported = (OpenSessions(disk) # {}), !.fault = ~Loads(disk)]
  /\ call' = Idling
  /\ UNCHANGED <<nat, changes, disk, nreq>>

Native == /\ NativeStep \/ ProcessRestarts
          /\ UNCHANGED avars

Api == \/ EngageBegin \/ EngageRefresh \/ ReleaseOwned \/ LegacyChecked \/ LegacyEngage \/ LegacyRelease \/ Expire
       \/ MutationBegins \/ MutationEnds \/ DeleteBegins \/ DeleteEnds

Reconcile == \/ \E mode \in Modes : Enter(mode)
             \/ Poll \/ Detect \/ BeginObserves \/ UpdateObserves \/ ReserveRefused \/ ReserveBegin
             \/ Recheck \/ ReserveUpdate \/ PollDone \/ PutAnswered \/ PutFails
             \/ ReleaseStopped \/ ReleaseScans \/ ReleaseLoopEnds \/ Terminal \/ Retire \/ Finish

CustodyReconcile == \/ CustodyEnter \/ CustodyAttempts \/ CustodyWaits \/ RecoverAnswered
                    \/ RecoverRejected \/ RecoverLost \/ CustodyPolls \/ CustodyStores
                    \/ CustodyReexamines \/ CustodyProves \/ CustodyRetiresSession \/ CustodyDone

Init == /\ NInit
        /\ mgr = NewManager(1) /\ journal = EmptyJournal /\ disk = EmptyJournal
        /\ call = Idling /\ late = {} /\ nreq = 0 /\ faults = 0

Next == Native \/ Api \/ Reconcile \/ CustodyReconcile \/ LateDelivery \/ Crash

Spec == Init /\ [][Next]_vars

\* The bridge loop and the custody loop run every 200 ms, the deadline passes, the
\* device answers or its connection ends.  Nothing is assumed of clients, of the
\* user, of lost messages or of either process restarting.
Answers(d) == \/ SessionConnects(d) \/ RecoverySessionEnds(d) \/ Responded(d) \/ TimerFires(d)

Fairness == /\ WF_vars(Reconcile) /\ WF_vars(CustodyReconcile) /\ WF_vars(Expire)
            /\ \A d \in Devices : WF_vars(Answers(d) /\ UNCHANGED avars)

FairSpec == Spec /\ Fairness

----------------------------------------------------------------------------
(* Properties *)

\* Every variable stays in its type; the mutex discipline (busy exactly while the
\* bridge is inside a reconciliation, settling only in its release-only form) holds.
TypeOK ==
  /\ mgr.nonce \in 0 .. MaxSessions /\ mgr.direct \in 0 .. MaxDirect
  /\ mgr.busy = (call.pc # "idle")
  /\ mgr.settling => call.mode = "settle"
  /\ DOMAIN journal.sess = 1 .. Cardinality(DOMAIN journal.sess)
  /\ \A d \in Devices : mgr.grants[d] # None => mgr.grants[d].origin.req \in DOMAIN journal.out
  /\ faults \in 0 .. MaxFaults /\ nreq \in 0 .. MaxRequests + MaxAttempts

\* BEGINs that might still take effect: on their way, or about to be sent, to the
\* process they name.
Deliverable == {c \in late \cup (IF At("put") THEN {call.cmd} ELSE {}) :
                  c.action = "begin" /\ c.exp.proc = nat.proc}

\* "Every child retains the endpoint and original BEGIN": whatever the bridge, the
\* disk, the network and either process do, an unrestored native lease, or a BEGIN
\* that could still create one, has an open output in the journal on disk.
CustodyCovers ==
  /\ \A d \in Devices : \A o \in OpenOrigins(nat, d) : o.req \in OpenOutputs(disk)
  /\ \A c \in Deliverable : c.req \in OpenOutputs(disk)

\* A client that is told "released" (custodyRetired, custodyRelease) can rely on it:
\* no lease of a retired session is unrestored and none can still be created.
ReleasedMeansRestored ==
  ~mgr.fault => \A s \in DOMAIN journal.sess : journal.sess[s].retired =>
     /\ \A q \in OutputsOf(journal, s) : journal.out[q].origin \notin UNION {OpenOrigins(nat, d) : d \in Devices}
     /\ \A c \in Deliverable : c.req \notin OutputsOf(journal, s)

\* A new conversation is admitted only when the earlier one is retired on disk.
OneOpenSession == Cardinality(OpenSessions(disk)) <= 1

\* loadCustody accepts every journal this manager can leave behind, also the one of
\* a failed save: a crash never fences the room for good.
JournalLoads == Loads(disk)

\* Recovery and the release-only settlement never overlap a direct effect, and a
\* room under deletion owes the native side nothing.
DirectEffectsAlone ==
  /\ mgr.direct > 0 => ~mgr.settling /\ call.pc \notin {"scan", "recover", "store", "prove"}
  /\ mgr.deleting => OpenSessions(disk) = {} /\ \A d \in Devices : OpenOrigins(nat, d) = {}

\* "on release/expiry the pre-duck HomePod level ... is restored, and the reconcile
\* re-seeds": a release asked for by the owner or by the deadline is carried out, and
\* the bridge, which does nothing else until then, resumes.
ReleaseSettles == mgr.pendingRelease ~> ~mgr.pendingRelease

\* A room fenced because OwnTone or its device was replaced is freed again: every
\* original BEGIN of the lost process is retired and new conversations are admitted.
CustodySettles == mgr.imported ~> ~mgr.imported

============================================================================
