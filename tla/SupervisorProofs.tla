-------------------------- MODULE SupervisorProofs --------------------------
(* Machine-checked proofs about Supervisor, for every set of restarts and    *)
(* rescans and every number of starts: whom a replacement may signal, what   *)
(* it may report, and that nothing outlives the teardown.                    *)
EXTENDS Supervisor, TLAPS

-----------------------------------------------------------------------------
(* The inductive invariant *)

Stopping == {"stop", "join", "forced"}
Holding == {"check", "open", "unlock"} \cup Stopping

\* keepAlive waits for the process of its slot, the latest it started; nothing else runs, and
\* what was reaped has left its slot.
SlotsCurrent ==
    /\ \A c \in Child : (keeper[c] = "wait") <=> (slot[c] # None)
    /\ \A c \in Child : slot[c] # None => slot[c] = <<c, starts[c]>>
    /\ \A p \in alive : p = slot[p[1]]
    /\ \A p \in joined : p[2] <= starts[p[1]] /\ p # slot[p[1]]

\* A call that works holds lifecycleMu.
OneWorks == \A o \in Ops : op[o].pc \in Holding => lifecycle = o

\* Nothing is started while children are stopped: the barrier stands, or stop is closed.
Barred ==
    /\ \A o \in Replacements : op[o].pc \in Stopping \cup {"open"} => replacing
    /\ op["killAll"].pc # "idle" => stop
    /\ done => op["killAll"].pc = "returned"

\* The captured children are those that were current, so what is current now is one of them or
\* none; a restart stops Native alone, and the renderer's turn comes when Native is joined.
CaptureCurrent ==
    \A o \in Ops : op[o].pc \in Stopping =>
        /\ \A c \in Child : op[o].captured[c] # None => op[o].captured[c][1] = c
        /\ \A c \in Child : slot[c] \in {op[o].captured[c], None}
        /\ o \in Restarts => op[o].stage = "gl"
        /\ op[o].stage = "ot" => slot["gl"] = None
        /\ op[o].pc \in {"join", "forced"} => Target(o) # None

\* A replacement captured what its caller meant.
CaptureMeant ==
    \A o \in Replacements : op[o].pc \in Stopping =>
        /\ op[o].captured["gl"] = op[o].expected["gl"]
        /\ o \in Rescans => op[o].captured["ot"] = op[o].expected["ot"]

\* A forced child is joined, or a call still waits for it.
ForcedAwaited ==
    \A p \in forced : p \in joined \/ \E o \in Ops : op[o].pc = "forced" /\ Target(o) = p

\* While a replacement counts as clean, the children it has dealt with are joined and none of
\* those that it captured was forced; the child it is forcing now will end that.
CleanSoFar ==
    \A o \in Replacements :
        /\ op[o].pc \in {"stop", "join"} => Target(o) \notin forced
        /\ op[o].pc \in Stopping /\ op[o].stage = "gl" /\ o \in Rescans =>
               op[o].captured["ot"] \notin forced
        /\ op[o].pc \in Stopping /\ op[o].stage = "ot" /\ op[o].clean =>
               op[o].captured["gl"] \in {None} \cup (joined \ forced)

\* The teardown raises no barrier and ends with both slots empty.
TornDown ==
    /\ op["killAll"].pc # "open"
    /\ op["killAll"].pc \in {"unlock", "returned"} => \A c \in Child : slot[c] = None

IInv ==
    /\ TypeOK /\ SlotsCurrent /\ OneWorks /\ Barred /\ CaptureCurrent /\ CaptureMeant
    /\ ForcedAwaited /\ CleanSoFar /\ TruthfulReplacement /\ TornDown

LEMMA InitInv == Init => IInv
<1> SUFFICES ASSUME Init PROVE IInv
  OBVIOUS
<1> USE DEF Init
<1>1. \A o \in Ops : op[o] = IdleOp
  OBVIOUS
<1>2. TypeOK
  <2>1. slot \in SlotType
    BY DEF SlotType
  <2>2. IdleOp \in [pc : {"idle", "queued", "check", "stop", "join", "forced", "open", "unlock",
                           "returned"},
                     stage : Child, expected : SlotType, captured : SlotType, clean : BOOLEAN]
    BY DEF IdleOp, SlotType, Child
  <2> QED BY <2>1, <2>2 DEF TypeOK
<1>3. SlotsCurrent
  BY DEF SlotsCurrent
<1>4. OneWorks /\ Barred /\ CaptureCurrent /\ CaptureMeant /\ TornDown
  BY <1>1 DEF OneWorks, Barred, CaptureCurrent, CaptureMeant, TornDown, IdleOp, Holding,
     Stopping, Ops, Replacements
<1>5. ForcedAwaited /\ CleanSoFar /\ TruthfulReplacement
  BY <1>1 DEF ForcedAwaited, CleanSoFar, TruthfulReplacement, IdleOp, Stopping, Ops, Replacements
<1> QED BY <1>2, <1>3, <1>4, <1>5 DEF IInv

-----------------------------------------------------------------------------
(* keepAlive and the processes *)

\* A step of keepAlive between two places without a process.
LEMMA KeeperStep ==
    ASSUME IInv, NEW c \in Child, keeper[c] # "wait",
           NEW pc \in {"top", "build", "barrier", "sleep", "exited"}, KeeperMoves(c, pc),
           UNCHANGED <<stop, done, childVars, lockVars, op>>
    PROVE  IInv'
<1> USE DEF IInv, KeeperMoves, childVars, lockVars
<1>1. TypeOK'
  BY DEF TypeOK
<1>2. SlotsCurrent'
  BY DEF TypeOK, SlotsCurrent
<1>3. (OneWorks /\ Barred)'
  BY DEF OneWorks, Barred
<1>4. (CaptureCurrent /\ CaptureMeant /\ ForcedAwaited /\ CleanSoFar)'
  BY DEF CaptureCurrent, CaptureMeant, ForcedAwaited, CleanSoFar, Target
<1>5. (TruthfulReplacement /\ TornDown)'
  BY DEF TruthfulReplacement, TornDown
<1> QED BY <1>1, <1>2, <1>3, <1>4, <1>5

LEMMA StartStep ==
    ASSUME IInv, NEW c \in Child, Start(c)
    PROVE  IInv'
<1> DEFINE p == <<c, starts[c] + 1>>
<1> USE DEF IInv, Start, KeeperMoves, lockVars
<1>1. /\ p \in Process /\ slot[c] = None /\ ~stop /\ ~replacing
      /\ \A d \in Child : slot'[d] = IF d = c THEN p ELSE slot[d]
      /\ \A d \in Child : starts'[d] = IF d = c THEN starts[c] + 1 ELSE starts[d]
  BY DEF TypeOK, SlotType, Process, MayStart, SlotsCurrent
<1>2. TypeOK'
  BY <1>1 DEF TypeOK, SlotType, Process
<1>3. SlotsCurrent'
  BY <1>1, NoneAssumption DEF TypeOK, SlotType, Process, SlotsCurrent
<1>4. (OneWorks /\ Barred)'
  BY <1>1 DEF OneWorks, Barred
<1>5. \A o \in Ops : op[o].pc \notin Stopping /\ op["killAll"].pc = "idle"
  BY <1>1 DEF Barred, Ops, Replacements, Stopping
<1>6. (CaptureCurrent /\ CaptureMeant /\ ForcedAwaited /\ CleanSoFar)'
  BY <1>5 DEF CaptureCurrent, CaptureMeant, ForcedAwaited, CleanSoFar, Target, Stopping, Ops, Replacements
<1>7. (TruthfulReplacement /\ TornDown)'
  BY <1>5 DEF TruthfulReplacement, TornDown, Ops
<1> QED BY <1>2, <1>3, <1>4, <1>6, <1>7

LEMMA ReapStep ==
    ASSUME IInv, NEW c \in Child, Reap(c)
    PROVE  IInv'
<1> USE DEF IInv, Reap, KeeperMoves, lockVars
<1>1. /\ slot[c] # None /\ slot[c] \in Process /\ slot[c] = <<c, starts[c]>>
      /\ \A d \in Child : slot'[d] = IF d = c THEN None ELSE slot[d]
      /\ \A d \in Child : keeper'[d] = IF d = c THEN "sleep" ELSE keeper[d]
      /\ joined' = joined \cup {slot[c]}
  BY DEF TypeOK, SlotType, SlotsCurrent
<1>2. TypeOK'
  BY <1>1 DEF TypeOK, SlotType
<1>3. SlotsCurrent'
  <2> USE DEF TypeOK, SlotType, Process, SlotsCurrent
  <2>1. \A d \in Child : /\ (keeper'[d] = "wait") <=> (slot'[d] # None)
                         /\ slot'[d] # None => slot'[d] = <<d, starts'[d]>>
    BY <1>1
  <2>2. \A q \in alive' : q = slot'[q[1]]
    BY <1>1
  <2>3. \A q \in joined' : q[2] <= starts'[q[1]]
    BY <1>1
  <2>4. \A q \in joined' : q # slot'[q[1]]
    BY <1>1, NoneAssumption
  <2> QED BY <2>1, <2>2, <2>3, <2>4
<1>4. (OneWorks /\ Barred)'
  BY DEF OneWorks, Barred
<1>5. CaptureCurrent'
  BY <1>1 DEF CaptureCurrent, Target
<1>6. CaptureMeant' /\ ForcedAwaited'
  BY <1>1 DEF CaptureMeant, ForcedAwaited, Target
<1>7. CleanSoFar' /\ TruthfulReplacement'
  BY <1>1 DEF CleanSoFar, TruthfulReplacement, Target
<1>8. TornDown'
  BY <1>1 DEF TornDown
<1> QED BY <1>2, <1>3, <1>4, <1>5, <1>6, <1>7, <1>8

LEMMA ExitStep ==
    ASSUME IInv, NEW p \in alive, ChildExits(p)
    PROVE  IInv'
<1> USE DEF IInv, ChildExits, lockVars
<1>1. TypeOK'
  BY DEF TypeOK
<1>2. SlotsCurrent'
  BY DEF SlotsCurrent
<1>3. (OneWorks /\ Barred)'
  BY DEF OneWorks, Barred
<1>4. (CaptureCurrent /\ CaptureMeant /\ ForcedAwaited /\ CleanSoFar)'
  BY DEF CaptureCurrent, CaptureMeant, ForcedAwaited, CleanSoFar, Target
<1>5. (TruthfulReplacement /\ TornDown)'
  BY DEF TruthfulReplacement, TornDown
<1> QED BY <1>1, <1>2, <1>3, <1>4, <1>5

-----------------------------------------------------------------------------
(* The calls: what a step of one leaves alone *)

\* The records of a call and of the others after a step that moves its program counter alone.
LEMMA Moved ==
    ASSUME TypeOK, NEW o \in Ops, NEW pc, OpMoves(o, pc)
    PROVE  /\ \A q \in Ops \ {o} : op'[q] = op[q]
           /\ op'[o].pc = pc /\ op'[o].stage = op[o].stage /\ op'[o].clean = op[o].clean
           /\ op'[o].expected = op[o].expected /\ op'[o].captured = op[o].captured
BY DEF OpMoves, TypeOK

\* No call but the holder of lifecycleMu works.
LEMMA OthersIdle ==
    ASSUME OneWorks, NEW o \in Ops, op[o].pc \in Holding
    PROVE  /\ lifecycle = o
           /\ \A q \in Ops \ {o} : op[q].pc \notin Holding /\ op[q].pc \notin Stopping
BY DEF OneWorks, Holding

\* What a slot holds was neither joined nor, while no call waits for a forced child, forced.
LEMMA CurrentUntouched ==
    ASSUME TypeOK, SlotsCurrent, ForcedAwaited, \A q \in Ops : op[q].pc # "forced",
           NEW c \in Child
    PROVE  slot[c] \notin joined /\ slot[c] \notin forced
<1>1. slot[c] \notin joined
  BY NoneAssumption DEF TypeOK, SlotsCurrent, Process
<1> QED BY <1>1 DEF ForcedAwaited

LEMMA RequestStep ==
    ASSUME IInv, NEW o \in Replacements, Request(o)
    PROVE  IInv'
<1> USE DEF IInv, Request, childVars, lockVars
<1> DEFINE idle == [IdleOp EXCEPT !.pc = "queued", !.expected = slot]
<1>1. o \in Ops /\ o # "killAll"
  BY OpsAssumption DEF Ops, Replacements
<1>2. /\ op'[o] = idle /\ \A q \in Ops \ {o} : op'[q] = op[q]
      /\ idle.pc = "queued"
  BY <1>1 DEF TypeOK, IdleOp
<1>3. TypeOK'
  <2>1. idle \in [pc : {"idle", "queued", "check", "stop", "join", "forced", "open", "unlock",
                        "returned"},
                  stage : Child, expected : SlotType, captured : SlotType, clean : BOOLEAN]
    BY DEF IdleOp, SlotType, Child, TypeOK
  <2> QED BY <2>1 DEF TypeOK
<1>4. SlotsCurrent'
  BY DEF SlotsCurrent
<1>5. (OneWorks /\ Barred /\ TornDown)'
  BY <1>1, <1>2 DEF OneWorks, Barred, TornDown, Holding, Stopping, Ops, Replacements
<1>6. (CaptureCurrent /\ CaptureMeant)'
  BY <1>2 DEF CaptureCurrent, CaptureMeant, Stopping, Ops, Target
<1>7. ForcedAwaited'
  BY <1>1, <1>2 DEF ForcedAwaited, Target
<1>8. (CleanSoFar /\ TruthfulReplacement)'
  BY <1>2 DEF CleanSoFar, TruthfulReplacement, Stopping, Ops, Target
<1> QED BY <1>3, <1>4, <1>5, <1>6, <1>7, <1>8

LEMMA BeginKillAllStep ==
    ASSUME IInv, BeginKillAll
    PROVE  IInv'
<1> USE DEF IInv, BeginKillAll, Supervising, childVars, lockVars
<1>1. "killAll" \in Ops /\ "killAll" \notin Replacements
  BY OpsAssumption DEF Ops, Replacements
<1>2. /\ \A q \in Ops \ {"killAll"} : op'[q] = op[q]
      /\ op'["killAll"].pc = "queued"
  BY <1>1, Moved
<1>3. TypeOK'
  BY <1>1 DEF TypeOK, OpMoves
<1>4. SlotsCurrent'
  BY DEF SlotsCurrent
<1>5. (OneWorks /\ Barred /\ TornDown)'
  BY <1>1, <1>2 DEF OneWorks, Barred, TornDown, Holding, Stopping, Ops
<1>6. (CaptureCurrent /\ CaptureMeant)'
  BY <1>1, <1>2 DEF CaptureCurrent, CaptureMeant, Stopping, Ops, Target
<1>7. ForcedAwaited'
  BY <1>1, <1>2 DEF ForcedAwaited, Target
<1>8. (CleanSoFar /\ TruthfulReplacement)'
  BY <1>1, <1>2 DEF CleanSoFar, TruthfulReplacement, Stopping, Ops, Target
<1> QED BY <1>3, <1>4, <1>5, <1>6, <1>7, <1>8

LEMMA AcquireStep ==
    ASSUME IInv, NEW o \in Ops, Acquire(o)
    PROVE  IInv'
<1> USE DEF IInv, Acquire, childVars
<1>1. \A q \in Ops : op[q].pc \notin Holding
  BY NoneAssumption DEF OneWorks
<1>2. /\ \A q \in Ops \ {o} : op'[q] = op[q]
      /\ op'[o].pc = "check"
  BY Moved
<1>3. TypeOK'
  BY DEF TypeOK, OpMoves
<1>4. SlotsCurrent'
  BY DEF SlotsCurrent
<1>5. OneWorks'
  BY <1>1, <1>2 DEF OneWorks
<1>6. (Barred /\ TornDown)'
  BY <1>2 DEF Barred, TornDown, Stopping, Ops
<1>7. (CaptureCurrent /\ CaptureMeant)'
  BY <1>2 DEF CaptureCurrent, CaptureMeant, Stopping, Ops, Target
<1>8. ForcedAwaited'
  BY <1>2 DEF ForcedAwaited, Target
<1>9. (CleanSoFar /\ TruthfulReplacement)'
  BY <1>2 DEF CleanSoFar, TruthfulReplacement, Stopping, Ops, Target
<1> QED BY <1>3, <1>4, <1>5, <1>6, <1>7, <1>8, <1>9

-----------------------------------------------------------------------------
(* The calls: capture, stop, release *)

\* A capture of the current children by the call that holds the lock.
LEMMA CaptureStep ==
    ASSUME IInv, NEW o \in Ops, op[o].pc = "check", Capture(o),
           UNCHANGED <<stop, done, childVars, keeper, lifecycle>>,
           replacing => replacing', replacing' \in BOOLEAN,
           o \in Replacements => replacing' /\ ~Superseded(o)
    PROVE  IInv'
<1> USE DEF IInv, childVars
<1>1. /\ \A q \in Ops \ {o} : op'[q] = op[q]
      /\ op'[o].pc = "stop" /\ op'[o].stage = "gl" /\ op'[o].captured = slot
      /\ op'[o].expected = op[o].expected /\ op'[o].clean = op[o].clean
  BY DEF Capture, TypeOK
<1>2. /\ lifecycle = o
      /\ \A q \in Ops \ {o} : op'[q].pc \notin Holding /\ op'[q].pc \notin Stopping
  BY <1>1, OthersIdle DEF Holding
<1>3. \A c \in Child : slot[c] \notin forced
  BY <1>2, <1>1, CurrentUntouched DEF Stopping
<1>4. TypeOK'
  <2>1. op'[o] \in [pc : {"idle", "queued", "check", "stop", "join", "forced", "open", "unlock",
                         "returned"},
                   stage : Child, expected : SlotType, captured : SlotType, clean : BOOLEAN]
    BY DEF Capture, TypeOK, Child
  <2>2. op' = [op EXCEPT ![o] = op'[o]]
    BY DEF Capture, TypeOK
  <2> QED BY <2>1, <2>2 DEF TypeOK
<1>5. SlotsCurrent'
  BY DEF SlotsCurrent
<1>6. OneWorks'
  BY <1>1, <1>2 DEF OneWorks
<1>7. Barred'
  BY <1>1, <1>2 DEF Barred, Holding, Ops
<1>8. CaptureCurrent'
  BY <1>1, <1>2 DEF CaptureCurrent, SlotsCurrent, Child
<1>9. CaptureMeant'
  BY <1>1, <1>2 DEF CaptureMeant, Superseded, Ops
<1>10. ForcedAwaited'
  BY <1>1 DEF ForcedAwaited, Target
<1>11. CleanSoFar'
  BY <1>1, <1>2, <1>3 DEF CleanSoFar, Target, Stopping, Child, Ops
<1>12. TruthfulReplacement'
  BY <1>1 DEF TruthfulReplacement, Ops
<1>13. TornDown'
  BY <1>1 DEF TornDown, Ops
<1> QED BY <1>4, <1>5, <1>6, <1>7, <1>8, <1>9, <1>10, <1>11, <1>12, <1>13

LEMMA CheckStep ==
    ASSUME IInv, NEW o \in Replacements, Check(o)
    PROVE  IInv'
<1>1. o \in Ops /\ o # "killAll"
  BY OpsAssumption DEF Ops, Replacements
<1>2. CASE Superseded(o) \/ stop
  <2> USE DEF IInv, Check, childVars
  <2>1. /\ \A q \in Ops \ {o} : op'[q] = op[q]
        /\ op'[o].pc = "unlock" /\ op'[o].clean = FALSE
    BY <1>1, <1>2 DEF TypeOK
  <2>2. TypeOK'
    BY <1>1, <1>2 DEF TypeOK
  <2>3. SlotsCurrent'
    BY DEF SlotsCurrent
  <2>4. OneWorks'
    BY <1>1, <2>1 DEF OneWorks, Holding
  <2>5. (Barred /\ TornDown)'
    BY <1>1, <1>2, <2>1 DEF Barred, TornDown, Stopping, Ops
  <2>6. (CaptureCurrent /\ CaptureMeant)'
    BY <2>1 DEF CaptureCurrent, CaptureMeant, Stopping, Ops, Target
  <2>7. ForcedAwaited'
    BY <1>1, <2>1 DEF ForcedAwaited, Target
  <2>8. (CleanSoFar /\ TruthfulReplacement)'
    BY <2>1 DEF CleanSoFar, TruthfulReplacement, Stopping, Ops, Target
  <2> QED BY <2>2, <2>3, <2>4, <2>5, <2>6, <2>7, <2>8
<1>3. CASE ~(Superseded(o) \/ stop)
  BY <1>1, <1>3, CaptureStep DEF Check
<1> QED BY <1>2, <1>3

LEMMA CaptureAllStep ==
    ASSUME IInv, CaptureAll
    PROVE  IInv'
<1>1. "killAll" \in Ops /\ "killAll" \notin Replacements
  BY OpsAssumption DEF Ops, Replacements
<1> QED BY <1>1, CaptureStep DEF CaptureAll, lockVars, IInv, TypeOK

\* Past a child that is gone: not there at all, or joined.  A replacement that counts it as clean
\* has not forced it.
LEMMA AfterChildStep ==
    ASSUME IInv, NEW o \in Ops, op[o].pc \in Stopping, NEW clean \in BOOLEAN,
           AfterChild(o, clean),
           Target(o) = None \/ Target(o) \in joined,
           op[o].pc = "forced" => ~clean /\ Target(o) \in joined,
           UNCHANGED <<stop, done, childVars, keeper, lockVars>>
    PROVE  IInv'
<1> USE DEF IInv, childVars, lockVars
<1>1. /\ \A q \in Ops \ {o} : op'[q] = op[q]
      /\ op'[o].pc = IF op[o].stage = "gl" /\ o \notin Restarts THEN "stop"
                     ELSE IF o = "killAll" THEN "unlock" ELSE "open"
      /\ op'[o].stage = "ot" /\ op'[o].clean = (op[o].clean /\ clean)
      /\ op'[o].captured = op[o].captured /\ op'[o].expected = op[o].expected
  BY DEF AfterChild, TypeOK
<1>2. /\ lifecycle = o
      /\ \A q \in Ops \ {o} : op'[q].pc \notin Holding /\ op'[q].pc \notin Stopping
  BY <1>1, OthersIdle DEF Holding, Stopping
\* The child that was stopped has left its slot.
<1>3. slot[op[o].stage] = None
  BY NoneAssumption DEF CaptureCurrent, SlotsCurrent, TypeOK, Target
<1>4. o \in Restarts => op[o].stage = "gl"
  BY DEF CaptureCurrent
<1>5. TypeOK'
  <2>1. op'[o] \in [pc : {"idle", "queued", "check", "stop", "join", "forced", "open", "unlock",
                         "returned"},
                   stage : Child, expected : SlotType, captured : SlotType, clean : BOOLEAN]
    <3> DEFINE pc == IF op[o].stage = "gl" /\ o \notin Restarts THEN "stop"
                     ELSE IF o = "killAll" THEN "unlock" ELSE "open"
    <3>1. op'[o] = [op[o] EXCEPT !.clean = op[o].clean /\ clean, !.pc = pc, !.stage = "ot"]
      BY DEF AfterChild, TypeOK
    <3>2. pc \in {"stop", "unlock", "open"} /\ (op[o].clean /\ clean) \in BOOLEAN
      OBVIOUS
    <3> HIDE DEF pc
    <3> QED BY <3>1, <3>2 DEF TypeOK, Child
  <2>2. op' = [op EXCEPT ![o] = op'[o]]
    BY DEF AfterChild, TypeOK
  <2> QED BY <2>1, <2>2 DEF TypeOK
<1>6. SlotsCurrent'
  BY DEF SlotsCurrent
<1>7. (OneWorks /\ Barred)'
  <2>1. OneWorks'
    BY <1>1, <1>2 DEF OneWorks
  <2>2. Barred'
    BY <1>1, <1>2 DEF Barred, Stopping, Holding, Ops
  <2> QED BY <2>1, <2>2
<1>8. CaptureCurrent'
  BY <1>1, <1>2, <1>3 DEF CaptureCurrent, Stopping, Target, Child
<1>9. CaptureMeant'
  BY <1>1, <1>2 DEF CaptureMeant, Stopping, Ops
<1>10. ForcedAwaited'
  <2> SUFFICES ASSUME NEW p \in forced, p \notin joined
               PROVE  \E q \in Ops : op'[q].pc = "forced" /\ Target(q)' = p
    BY DEF ForcedAwaited
  <2>1. PICK q \in Ops : op[q].pc = "forced" /\ Target(q) = p
    BY DEF ForcedAwaited
  <2> QED BY <2>1, <1>1 DEF Target
<1>11. o \in Replacements /\ clean => Target(o) \in {None} \cup (joined \ forced)
  BY DEF CleanSoFar, Stopping
<1>12. CleanSoFar'
  <2> SUFFICES ASSUME o \in Replacements PROVE
          /\ op'[o].pc = "stop" => Target(o)' \notin forced
          /\ op'[o].pc = "stop" /\ op'[o].clean =>
                 op[o].captured["gl"] \in {None} \cup (joined \ forced)
    BY <1>1, <1>2 DEF CleanSoFar, Stopping, Ops
  <2>1. CASE op[o].stage = "gl" /\ o \in Rescans
    BY <2>1, <1>1, <1>11 DEF CleanSoFar, Target, TypeOK
  <2> QED BY <2>1, <1>1, OpsAssumption DEF Replacements
<1>13. TruthfulReplacement'
  <2> SUFFICES ASSUME o \in Replacements, op'[o].pc = "open", op'[o].clean,
                      NEW c \in (IF o \in Rescans THEN Child ELSE {"gl"}),
                      op[o].expected[c] # None
               PROVE  op[o].expected[c] \in joined \ forced
    <3>1. \A q \in Ops \ {o} : op'[q].pc \notin {"open", "unlock"}
      BY <1>2 DEF Holding
    <3>2. o \in Replacements => op'[o].pc # "unlock"
      BY <1>1, OpsAssumption DEF Replacements
    <3> QED BY <3>1, <3>2, <1>1 DEF TruthfulReplacement, Ops
  <2>1. op[o].clean /\ clean /\ op[o].captured[c] = op[o].expected[c]
    BY <1>1 DEF CaptureMeant, Child, TypeOK
  <2>2. CASE o \in Restarts
    BY <2>1, <2>2, <1>4, <1>11, OpsAssumption DEF Target
  <2>3. CASE o \in Rescans
    <3>1. op[o].stage = "ot"
      BY <1>1, <2>3, OpsAssumption DEF TypeOK, Child
    <3> QED BY <3>1, <2>1, <1>11 DEF CleanSoFar, Child, Target
  <2> QED BY <2>2, <2>3 DEF Replacements
<1>14. TornDown'
  <2>1. CASE o = "killAll"
    <3>1. o \notin Restarts
      BY <2>1, OpsAssumption
    <3>2. op'[o].pc = "unlock" => op[o].stage = "ot" /\ slot["gl"] = None
      BY <3>1, <1>1 DEF CaptureCurrent, TypeOK, Child
    <3> QED BY <2>1, <3>1, <3>2, <1>1, <1>3 DEF TornDown, Child
  <2>2. CASE o # "killAll"
    BY <2>2, <1>1 DEF TornDown, Ops
  <2> QED BY <2>1, <2>2
<1> QED BY <1>5, <1>6, <1>7, <1>8, <1>9, <1>10, <1>12, <1>13, <1>14

LEMMA NothingToStopStep ==
    ASSUME IInv, NEW o \in Ops, NothingToStop(o)
    PROVE  IInv'
BY AfterChildStep DEF NothingToStop, Stopping

LEMMA JoinedStep ==
    ASSUME IInv, NEW o \in Ops, Joined(o)
    PROVE  IInv'
BY AfterChildStep DEF Joined, Stopping

LEMMA SignalStep ==
    ASSUME IInv, NEW o \in Ops, Signal(o)
    PROVE  IInv'
<1> USE DEF IInv, Signal, lockVars
<1>1. /\ \A q \in Ops \ {o} : op'[q] = op[q]
      /\ op'[o].pc = "join" /\ op'[o].stage = op[o].stage /\ op'[o].clean = op[o].clean
      /\ op'[o].captured = op[o].captured /\ op'[o].expected = op[o].expected
  BY Moved
<1>2. Target(o) \in Process
  BY DEF Target, TypeOK, SlotType
<1>3. TypeOK'
  BY <1>2 DEF TypeOK, OpMoves
<1>4. SlotsCurrent'
  BY DEF SlotsCurrent
<1>5. OneWorks'
  BY <1>1 DEF OneWorks, Holding, Stopping
<1>6. (Barred /\ TornDown)'
  BY <1>1 DEF Barred, TornDown, Stopping, Ops
<1>7. (CaptureCurrent /\ CaptureMeant)'
  BY <1>1 DEF CaptureCurrent, CaptureMeant, Stopping, Ops, Target
<1>8. ForcedAwaited'
  BY <1>1 DEF ForcedAwaited, Target
<1>9. (CleanSoFar /\ TruthfulReplacement)'
  BY <1>1 DEF CleanSoFar, TruthfulReplacement, Stopping, Ops, Target
<1> QED BY <1>3, <1>4, <1>5, <1>6, <1>7, <1>8, <1>9

LEMMA DeadlineStep ==
    ASSUME IInv, NEW o \in Ops, Deadline(o)
    PROVE  IInv'
<1> USE DEF IInv, Deadline, lockVars
<1>1. /\ \A q \in Ops \ {o} : op'[q] = op[q]
      /\ op'[o].pc = "forced" /\ op'[o].stage = op[o].stage /\ op'[o].clean = op[o].clean
      /\ op'[o].captured = op[o].captured /\ op'[o].expected = op[o].expected
  BY Moved
<1>2. /\ lifecycle = o
      /\ \A q \in Ops \ {o} : op'[q].pc \notin Holding /\ op'[q].pc \notin Stopping
  BY <1>1, OthersIdle DEF Holding, Stopping
<1>3. Target(o) # None /\ Target(o) \in Process /\ Target(o)[1] = op[o].stage
  BY DEF Target, TypeOK, SlotType, CaptureCurrent, Stopping
<1>4. TypeOK'
  BY <1>3 DEF TypeOK, OpMoves
<1>5. SlotsCurrent'
  BY DEF SlotsCurrent
<1>6. OneWorks'
  BY <1>1, <1>2 DEF OneWorks
<1>7. (Barred /\ TornDown)'
  BY <1>1 DEF Barred, TornDown, Stopping, Ops
<1>8. (CaptureCurrent /\ CaptureMeant)'
  BY <1>1 DEF CaptureCurrent, CaptureMeant, Stopping, Ops, Target
<1>9. ForcedAwaited'
  BY <1>1 DEF ForcedAwaited, Target
\* The child that is forced is not the other one of the pair.
<1>10. \A c \in Child : c # op[o].stage => op[o].captured[c] # Target(o)
  BY <1>3 DEF CaptureCurrent, Stopping
<1>11. CleanSoFar'
  <2> SUFFICES ASSUME o \in Replacements PROVE
          /\ op[o].stage = "gl" /\ o \in Rescans => op[o].captured["ot"] \notin forced'
          /\ op[o].stage = "ot" /\ op[o].clean =>
                 op[o].captured["gl"] \in {None} \cup (joined \ forced')
    BY <1>1, <1>2 DEF CleanSoFar, Stopping, Ops
  <2> QED BY <1>10 DEF CleanSoFar, Stopping, Child
<1>12. TruthfulReplacement'
  BY <1>1, <1>2 DEF TruthfulReplacement, Holding, Ops
<1> QED BY <1>4, <1>5, <1>6, <1>7, <1>8, <1>9, <1>11, <1>12

LEMMA OpenBarrierStep ==
    ASSUME IInv, NEW o \in Ops, OpenBarrier(o)
    PROVE  IInv'
<1> USE DEF IInv, OpenBarrier, childVars
<1>1. /\ \A q \in Ops \ {o} : op'[q] = op[q]
      /\ op'[o].pc = "unlock" /\ op'[o].stage = op[o].stage /\ op'[o].clean = op[o].clean
      /\ op'[o].captured = op[o].captured /\ op'[o].expected = op[o].expected
  BY Moved
<1>2. /\ lifecycle = o
      /\ \A q \in Ops \ {o} : op'[q].pc \notin Holding /\ op'[q].pc \notin Stopping
  BY <1>1, OthersIdle DEF Holding
<1>3. TypeOK'
  BY DEF TypeOK, OpMoves, Released
<1>4. SlotsCurrent'
  BY DEF SlotsCurrent, Released, TypeOK
<1>5. OneWorks'
  BY <1>1, <1>2 DEF OneWorks
<1>6. Barred'
  BY <1>1, <1>2 DEF Barred, Stopping, Holding, Ops
<1>7. TornDown'
  BY <1>1 DEF TornDown, Ops
<1>8. (CaptureCurrent /\ CaptureMeant)'
  BY <1>1 DEF CaptureCurrent, CaptureMeant, Stopping, Ops, Target
<1>9. ForcedAwaited'
  BY <1>1 DEF ForcedAwaited, Target
<1>10. CleanSoFar'
  BY <1>1 DEF CleanSoFar, Stopping, Ops, Target
<1>11. TruthfulReplacement'
  BY <1>1 DEF TruthfulReplacement, Ops
<1> QED BY <1>3, <1>4, <1>5, <1>6, <1>7, <1>8, <1>9, <1>10, <1>11

LEMMA UnlockStep ==
    ASSUME IInv, NEW o \in Ops, Unlock(o)
    PROVE  IInv'
<1> USE DEF IInv, Unlock, childVars
<1>1. /\ \A q \in Ops \ {o} : op'[q] = op[q]
      /\ op'[o].pc = IF o = "killAll" THEN "returned" ELSE "idle"
  BY DEF TypeOK, IdleOp
<1>2. \A q \in Ops \ {o} : op'[q].pc \notin Holding /\ op'[q].pc \notin Stopping
  BY <1>1, OthersIdle DEF Holding
<1>3. TypeOK'
  <2>1. op'[o] \in [pc : {"idle", "queued", "check", "stop", "join", "forced", "open", "unlock",
                         "returned"},
                   stage : Child, expected : SlotType, captured : SlotType, clean : BOOLEAN]
    <3>1. CASE o = "killAll"
      BY <3>1 DEF TypeOK
    <3>2. CASE o # "killAll"
      BY <3>2 DEF TypeOK, IdleOp, SlotType, Child
    <3> QED BY <3>1, <3>2
  <2>2. op' = [op EXCEPT ![o] = op'[o]]
    BY DEF TypeOK
  <2> QED BY <2>1, <2>2 DEF TypeOK
<1>4. SlotsCurrent'
  BY DEF SlotsCurrent
<1>5. OneWorks'
  BY <1>1, <1>2 DEF OneWorks, Holding, Stopping
<1>6. Barred'
  BY <1>1, <1>2 DEF Barred, Stopping, Holding, Ops
<1>7. TornDown'
  BY <1>1 DEF TornDown, Ops
<1>8. (CaptureCurrent /\ CaptureMeant)'
  BY <1>1 DEF CaptureCurrent, CaptureMeant, Stopping, Ops, Target
<1>9. ForcedAwaited'
  BY <1>1 DEF ForcedAwaited, Target
<1>10. (CleanSoFar /\ TruthfulReplacement)'
  BY <1>1 DEF CleanSoFar, TruthfulReplacement, Stopping, Ops, Target
<1> QED BY <1>3, <1>4, <1>5, <1>6, <1>7, <1>8, <1>9, <1>10

\* A step that changes neither the children nor a call: stop is closed, or done once the
\* teardown returned, or nothing happens.
LEMMA FlagStep ==
    ASSUME IInv, UNCHANGED <<childVars, keeper, lockVars, op>>, stop => stop', stop' \in BOOLEAN,
           done' = done \/ (done' /\ op["killAll"].pc = "returned"), done' \in BOOLEAN
    PROVE  IInv'
<1> USE DEF IInv, childVars, lockVars
<1>1. (TypeOK /\ SlotsCurrent)'
  BY DEF TypeOK, SlotsCurrent
<1>2. (OneWorks /\ Barred)'
  BY DEF OneWorks, Barred
<1>3. (CaptureCurrent /\ CaptureMeant /\ ForcedAwaited /\ CleanSoFar)'
  BY DEF CaptureCurrent, CaptureMeant, ForcedAwaited, CleanSoFar, Target
<1>4. (TruthfulReplacement /\ TornDown)'
  BY DEF TruthfulReplacement, TornDown
<1> QED BY <1>1, <1>2, <1>3, <1>4

-----------------------------------------------------------------------------
(* The invariant *)

LEMMA StepInv == IInv /\ [Next]_vars => IInv'
<1> SUFFICES ASSUME IInv, [Next]_vars PROVE IInv'
  OBVIOUS
<1>1. ASSUME NEW c \in Child, Top(c) PROVE IInv'
  BY <1>1, KeeperStep DEF Top
<1>2. ASSUME NEW c \in Child, Refused(c) PROVE IInv'
  BY <1>2, KeeperStep DEF Refused
<1>3. ASSUME NEW c \in Child, BarrierWakes(c) PROVE IInv'
  BY <1>3, KeeperStep DEF BarrierWakes
<1>4. ASSUME NEW c \in Child, Sleep(c) PROVE IInv'
  BY <1>4, KeeperStep DEF Sleep
<1>5. ASSUME NEW c \in Child, StartFails(c) PROVE IInv'
  BY <1>5, KeeperStep DEF StartFails
<1>6. ASSUME NEW c \in Child, Start(c) \/ Reap(c) PROVE IInv'
  BY <1>6, StartStep, ReapStep
<1>7. ASSUME NEW p \in alive, ChildExits(p) PROVE IInv'
  BY <1>7, ExitStep
<1>8. ASSUME NEW o \in Replacements, Request(o) PROVE IInv'
  BY <1>8, RequestStep
<1>9. ASSUME NEW o \in Ops, Acquire(o) \/ Deadline(o) PROVE IInv'
  BY <1>9, AcquireStep, DeadlineStep
<1>10. ASSUME NEW o \in Ops, Work(o) PROVE IInv'
  BY <1>10, CheckStep, NothingToStopStep, SignalStep, JoinedStep, OpenBarrierStep, UnlockStep
     DEF Work, Check
<1>11. ASSUME BeginKillAll \/ CaptureAll PROVE IInv'
  BY <1>11, BeginKillAllStep, CaptureAllStep
<1>12. CASE Done
  BY <1>12, FlagStep DEF Done, IInv, TypeOK
<1>13. CASE RequestStop
  BY <1>13, FlagStep DEF RequestStop, IInv, TypeOK
<1>14. CASE UNCHANGED vars
  BY <1>14, FlagStep DEF vars, IInv, TypeOK
<1> QED BY <1>1, <1>2, <1>3, <1>4, <1>5, <1>6, <1>7, <1>8, <1>9, <1>10, <1>11, <1>12, <1>13, <1>14
        DEF Next, Keep

THEOREM InductiveInv == Spec => []IInv
BY InitInv, StepInv, PTL DEF Spec

-----------------------------------------------------------------------------
(* The theorems *)

\* Every variable keeps its type, whatever the replacements and however often a child is started.
THEOREM TypeCorrect == Spec => []TypeOK
<1>1. IInv => TypeOK
  BY DEF IInv
<1> QED BY <1>1, InductiveInv, PTL

\* When supervise has closed rt.done no child runs, and as the invariant holds for ever, none is
\* started later: killAll emptied both slots after stop was closed.
THEOREM TeardownLeavesNothing == Spec => []NoOrphans
<1>1. IInv => NoOrphans
  <2> SUFFICES ASSUME IInv, done, NEW p \in alive PROVE FALSE
    BY DEF NoOrphans
  <2>1. slot[p[1]] = None /\ p = slot[p[1]]
    BY DEF IInv, Barred, TornDown, SlotsCurrent, TypeOK, Process
  <2> QED BY <2>1, NoneAssumption DEF IInv, TypeOK, Process
<1> QED BY <1>1, InductiveInv, PTL

\* replaceChildren reports success only when the children it was asked to replace were joined and
\* none of them was forced.
THEOREM ReplacementTruthful == Spec => []TruthfulReplacement
<1>1. IInv => TruthfulReplacement
  BY DEF IInv
<1> QED BY <1>1, InductiveInv, PTL

\* Whom a step signals: the child that is the turn of the call that holds lifecycleMu, of that
\* child's own kind, and the one that was meant.
LEMMA WhoIsSignalled ==
    ASSUME IInv, Next, NEW p \in signalled' \ signalled
    PROVE  /\ lifecycle \in Ops /\ alive' = alive
           /\ p[1] = op[lifecycle].stage
           /\ op[lifecycle].stage = "ot" => slot["gl"] = None
           /\ lifecycle \in Replacements => p = op[lifecycle].expected[p[1]]
<1>1. PICK o \in Ops : Signal(o)
  BY DEF Next, Keep, Work, Top, Refused, Start, BarrierWakes, Reap, Sleep, StartFails, ChildExits,
     Request, Acquire, Check, NothingToStop, Joined, OpenBarrier, Unlock, Deadline, BeginKillAll,
     CaptureAll, Done, RequestStop, childVars
<1>2. p = Target(o) /\ p # None /\ op[o].pc \in Stopping /\ alive' = alive
  BY <1>1 DEF Signal, Stopping
<1>3. lifecycle = o
  BY <1>2, OthersIdle DEF IInv, Holding
<1>4. p[1] = op[o].stage /\ (op[o].stage = "ot" => slot["gl"] = None)
  BY <1>2 DEF IInv, CaptureCurrent, Target, TypeOK
<1>5. o \in Replacements => p = op[o].expected[op[o].stage]
  BY <1>2, OpsAssumption DEF IInv, CaptureMeant, CaptureCurrent, Target, TypeOK, Replacements, Child
<1> QED BY <1>2, <1>3, <1>4, <1>5

\* The renderer is signalled only when no Native process runs: a call reaches the renderer's turn
\* after Native is joined, and nothing starts Native while children are stopped.
THEOREM RendererStopsLast == Spec => RendererLast
<1>1. IInv /\ [Next]_vars =>
        [\A p \in signalled' \ signalled : p[1] = "ot" => \A q \in alive' : q[1] # "gl"]_vars
  <2> SUFFICES ASSUME IInv, Next, NEW p \in signalled' \ signalled, p[1] = "ot",
                      NEW q \in alive', q[1] = "gl"
               PROVE  FALSE
    OBVIOUS
  <2>1. slot["gl"] = None /\ q \in alive
    BY WhoIsSignalled
  <2> QED BY <2>1, NoneAssumption DEF IInv, SlotsCurrent, TypeOK, Process
<1> QED BY <1>1, InductiveInv, PTL DEF Spec, RendererLast

\* A replacement signals only what its caller meant: a child started after the request, be it by
\* another replacement or after a crash, is never stopped by it.
THEOREM SuccessorsAreSpared == Spec => SuccessorSpared
<1>1. IInv /\ [Next]_vars =>
        [\A p \in signalled' \ signalled :
            \A o \in Replacements : lifecycle = o => p = op[o].expected[p[1]]]_vars
  BY WhoIsSignalled
<1> QED BY <1>1, InductiveInv, PTL DEF Spec, SuccessorSpared
=============================================================================
