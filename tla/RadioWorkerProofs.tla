------------------------- MODULE RadioWorkerProofs -------------------------
(* Machine-checked proofs about RadioWorker: the decoder runs only in a      *)
(* guardian's custody, what is taken for started was executed, and what is   *)
(* closed is gone, however long either launch is kept at any of its steps.   *)
EXTENDS RadioWorker, TLAPS

-----------------------------------------------------------------------------
(* The inductive invariant *)

Awaiting == {"native", "start"}
Later == {"wait", "await", "enable", "up", "over", "stop-kill", "stop-join", "stop-close", "stop-closing"}
Process ==
  [at : {"none", "zombie", "reaped"} \cup Running, crossed : BOOLEAN, doomed : BOOLEAN, clean : BOOLEAN]
Pipes == [ready : BOOLEAN, go : BOOLEAN, open : BOOLEAN, refused : BOOLEAN]
Guardian == {"none", "starting", "stillborn", "watching", "done", "broken"}
Cage ==
  [pidfd : BOOLEAN, guardian : BOOLEAN, liveness : BOOLEAN, closed : BOOLEAN, executed : BOOLEAN,
   failed : BOOLEAN, mu : {"free", "start", "boot", "waiter"}]
Typed ==
  /\ proc \in [Launch -> Process] /\ byte \in [Launch -> Pipes]
  /\ guard \in [Launch -> Guardian] /\ cage \in [Launch -> Cage]
  /\ boot \in Launch \X (Awaiting \cup AfterStart \cup Failing \cup Later)
  /\ waiter \in {"none", "wait", "close", "closing", "over"} /\ supervised \in BOOLEAN

\* The go byte is what lets a helper reach the decoder, and it is sent in the guardian's custody
\* alone; only a decoder ends well.
Sent(p) ==
  /\ proc[p].at \in {"released", "decoder"} \/ proc[p].crossed => byte[p].go
  /\ proc[p].at = "decoder" \/ proc[p].clean => proc[p].crossed
  /\ byte[p].go => HasCustody(p)

\* Where the launch that is under way stands: before its process, with a process that nobody has
\* joined, or with one that is reaped.
Under(p) ==
  boot[1] = p =>
    /\ boot[2] \in Awaiting => proc[p].at = "none"
    /\ boot[2] \in AfterStart => proc[p].at \notin {"none", "reaped"}
    /\ boot[2] \in Awaiting \cup {"ready", "guardian", "attach"} => ~byte[p].go
    /\ boot[2] = "go" => HasCustody(p)
    /\ boot[2] \in {"alive", "status"} => proc[p].crossed \/ proc[p].at = "zombie"
    /\ boot[2] \in {"close", "closing"} => proc[p].at = "reaped"

\* A guardian that the cage does not have is dead, but while it is being attached.
Attached(p) == cage[p].guardian \/ guard[p] \in {"none", "stillborn"} \/ boot = <<p, "attach">>
Gone(p) == cage[p].closed => proc[p].at = "reaped" /\ guard[p] \notin {"starting", "watching"}

\* The second launch is untouched until the first one succeeded; the sender's joiner starts with
\* its visibility.
Turn ==
  /\ boot[1] = OneShot => proc[Idle].at = "none" /\ ~byte[Idle].go /\ guard[Idle] = "none"
  /\ boot[1] = Idle => cage[OneShot].closed /\ proc[OneShot].clean
  /\ boot[2] \in {"alive", "status"} => boot[1] = Idle
Joined ==
  /\ waiter # "none" => boot[1] = Idle /\ boot[2] \notin Awaiting \cup AfterStart
  /\ waiter \in {"close", "closing", "over"} => proc[Idle].at = "reaped"
  /\ boot[2] \in {"stop-close", "stop-closing"} => waiter = "over"
  /\ supervised => proc[Idle].crossed
WorkerInv == Typed /\ (\A p \in Launch : Sent(p) /\ Under(p) /\ Attached(p) /\ Gone(p)) /\ Turn /\ Joined

LEMMA WorkerInit == Init => WorkerInv
<1> SUFFICES ASSUME Init PROVE WorkerInv
  OBVIOUS
<1>1. boot = <<1, "native">> /\ boot[1] = 1 /\ boot[2] = "native" /\ Launch = {1, 2}
  BY DEF Init, Launch, OneShot, Idle
<1>2. Typed
  BY <1>1 DEF Init, Typed, Process, Pipes, Guardian, Cage, Awaiting
<1>3. \A p \in Launch : Sent(p) /\ Under(p) /\ Attached(p) /\ Gone(p)
  BY <1>1 DEF Init, Sent, Under, Attached, Gone, AfterStart, Awaiting
<1>4. Turn /\ Joined
  BY <1>1 DEF Init, Turn, Joined, OneShot, Idle, Launch
<1> QED BY <1>2, <1>3, <1>4 DEF WorkerInv

-----------------------------------------------------------------------------
(* The processes *)

\* What the worker processes and guardians do by themselves: a helper goes on only when it was
\* released, nothing but a join reaps a process, and a guardian that has custody keeps it or ends.
ProcessKept(p) ==
  /\ proc'[p].at # proc[p].at => Live(p) /\ proc'[p].at \in Running \cup {"zombie"}
  /\ proc'[p].at \in {"released", "decoder"} \/ proc'[p].crossed => byte[p].go
  /\ proc[p].crossed => proc'[p].crossed
  /\ proc'[p].at = "decoder" \/ proc'[p].clean => proc'[p].crossed
  /\ proc[p].clean /\ ~Live(p) => proc'[p].clean
  /\ byte'[p].go = byte[p].go
  /\ guard'[p] = guard[p] \/ guard[p] \in {"starting", "watching"}
  /\ guard[p] \in {"starting", "watching"} => guard'[p] # "none"
  /\ HasCustody(p) => HasCustody(p)'

LEMMA ProcessesKeep ==
  ASSUME WorkerInv, Typed', UNCHANGED <<boot, cage, waiter, supervised>>, \A p \in Launch : ProcessKept(p)
  PROVE  WorkerInv'
<1>1. ASSUME NEW p \in Launch PROVE (Sent(p) /\ Under(p) /\ Attached(p) /\ Gone(p))'
  <2>0. Sent(p) /\ Under(p) /\ Attached(p) /\ Gone(p) /\ ProcessKept(p)
    BY DEF WorkerInv
  <2>1. Sent(p)'
    BY <2>0 DEF Sent, ProcessKept
  <2>2. Under(p)'
    BY <2>0 DEF Under, ProcessKept, Live, Running
  <2>3. Attached(p)' /\ Gone(p)'
    BY <2>0 DEF Attached, Gone, ProcessKept, Live, Running, HasCustody
  <2> QED BY <2>1, <2>2, <2>3
<1>2. Turn' /\ Joined'
  <2>1. ProcessKept(OneShot) /\ ProcessKept(Idle) /\ Gone(OneShot) /\ Turn /\ Joined
    BY DEF WorkerInv, Launch
  <2> QED BY <2>1 DEF Turn, Joined, ProcessKept, Live, Running, Gone
<1> QED BY <1>1, <1>2 DEF WorkerInv

\* A signal to a worker.
LEMMA DoomedProcess ==
  ASSUME Typed, NEW p \in Launch
  PROVE  /\ Doomed(p) \in [Launch -> Process] /\ Killed(p) \in [Launch -> Process]
         /\ \A q \in Launch : /\ Doomed(p)[q].at = proc[q].at /\ Doomed(p)[q].crossed = proc[q].crossed
                             /\ Doomed(p)[q].clean = proc[q].clean
         /\ \A q \in Launch : /\ Killed(p)[q].at = proc[q].at /\ Killed(p)[q].crossed = proc[q].crossed
                             /\ Killed(p)[q].clean = proc[q].clean
<1>1. /\ Doomed(p) \in [Launch -> Process]
      /\ \A q \in Launch : /\ Doomed(p)[q].at = proc[q].at /\ Doomed(p)[q].crossed = proc[q].crossed
                          /\ Doomed(p)[q].clean = proc[q].clean
  <2>1. proc \in [Launch -> Process] /\ Live(p) \in BOOLEAN
    BY DEF Typed, Live
  <2>2. proc[p] \in Process
    BY <2>1
  <2> DEFINE d == proc[p].doomed \/ Live(p)
             r == [proc[p] EXCEPT !.doomed = d]
  <2>3. d \in BOOLEAN
    BY <2>1, <2>2 DEF Process
  <2>4. Doomed(p) = [proc EXCEPT ![p] = r]
    BY Zenon DEF Doomed
  <2> HIDE DEF d
  <2>5. r \in Process /\ r.at = proc[p].at /\ r.crossed = proc[p].crossed /\ r.clean = proc[p].clean
    BY <2>2, <2>3 DEF Process
  <2> HIDE DEF r
  <2> QED BY <2>1, <2>4, <2>5
<1>2. Killed(p) = Doomed(p) \/ Killed(p) = proc
  BY DEF Killed
<1> QED BY <1>1, <1>2 DEF Typed

\* A worker that exits.
LEMMA ExitedProcess ==
  ASSUME Typed, NEW p \in Launch, NEW clean \in BOOLEAN, Exits(p, clean)
  PROVE  /\ proc' \in [Launch -> Process] /\ \A q \in Launch \ {p} : proc'[q] = proc[q]
         /\ proc'[p].at = "zombie" /\ proc'[p].crossed = proc[p].crossed /\ proc'[p].clean = clean
BY DEF Typed, Exits, Process

LEMMA MovedProcess ==
  ASSUME Typed, NEW p \in Launch, NEW at \in Running \cup {"reaped"}, proc' = [proc EXCEPT ![p].at = at]
  PROVE  /\ proc' \in [Launch -> Process] /\ \A q \in Launch \ {p} : proc'[q] = proc[q]
         /\ proc'[p].at = at /\ proc'[p].crossed = proc[p].crossed /\ proc'[p].clean = proc[p].clean
BY DEF Typed, Process

LEMMA WorkerMoves ==
  ASSUME WorkerInv, NEW p \in Launch,
         \/ HelperReady(p) \/ HelperReleased(p) \/ HelperAbandoned(p) \/ HelperExec(p)
         \/ DecoderExits(p) \/ Dies(p)
  PROVE  WorkerInv'
<1>1. Typed /\ (\A q \in Launch : Sent(q)) /\ Sent(p)
  BY DEF WorkerInv
<1>2. UNCHANGED <<boot, cage, waiter, supervised, guard>>
  BY DEF HelperReady, HelperReleased, HelperAbandoned, HelperExec, DecoderExits, Dies, ownVars
<1>3. byte' \in [Launch -> Pipes] /\ \A q \in Launch : byte'[q].go = byte[q].go
  <2>1. \/ byte' = byte \/ byte' = [byte EXCEPT ![p].ready = TRUE]
        \/ byte' = [byte EXCEPT ![p].refused = TRUE]
    BY DEF HelperReady, HelperReleased, HelperAbandoned, HelperExec, DecoderExits, Dies
  <2>2. byte \in [Launch -> Pipes]
    BY <1>1 DEF Typed
  <2>3. CASE byte' = [byte EXCEPT ![p].ready = TRUE]
    BY <2>2, <2>3 DEF Pipes
  <2>4. CASE byte' = [byte EXCEPT ![p].refused = TRUE]
    BY <2>2, <2>4 DEF Pipes
  <2> QED BY <2>1, <2>2, <2>3, <2>4
<1> DEFINE Goal ==
      /\ proc' \in [Launch -> Process] /\ \A q \in Launch \ {p} : proc'[q] = proc[q]
      /\ Live(p) /\ proc'[p].at \in Running \cup {"zombie"}
      /\ proc'[p].at \in {"released", "decoder"} \/ proc'[p].crossed => byte[p].go
      /\ proc[p].crossed => proc'[p].crossed
      /\ proc'[p].at = "decoder" \/ proc'[p].clean => proc'[p].crossed
<1>4. Goal
  <2>1. CASE HelperReady(p)
    <3>1. proc' = [proc EXCEPT ![p].at = "waiting"] /\ Live(p)
      BY <2>1 DEF HelperReady, Live, Running
    <3>2. /\ proc' \in [Launch -> Process] /\ \A q \in Launch \ {p} : proc'[q] = proc[q]
          /\ proc'[p].at = "waiting" /\ proc'[p].crossed = proc[p].crossed /\ proc'[p].clean = proc[p].clean
      BY <1>1, <3>1, MovedProcess DEF Running
    <3> QED BY <1>1, <3>1, <3>2 DEF Running, Sent
  <2>2. CASE proc' = [proc EXCEPT ![p].at = "released"] /\ HelperReleased(p)
    <3>1. /\ proc' \in [Launch -> Process] /\ \A q \in Launch \ {p} : proc'[q] = proc[q]
          /\ proc'[p].at = "released" /\ proc'[p].crossed = proc[p].crossed /\ proc'[p].clean = proc[p].clean
      BY <1>1, <2>2, MovedProcess DEF Running
    <3>2. proc[p].at = "waiting" /\ byte[p].go
      BY <2>2 DEF HelperReleased
    <3> QED BY <1>1, <3>1, <3>2 DEF Running, Sent, Live
  <2>3. ASSUME NEW clean \in BOOLEAN, Exits(p, clean), Live(p), clean => proc[p].at = "decoder"
        PROVE  Goal
    <3>1. proc'[p].at = "zombie" /\ proc'[p].crossed = proc[p].crossed /\ proc'[p].clean = clean
      BY <1>1, <2>3, ExitedProcess
    <3> QED BY <1>1, <2>3, <3>1, ExitedProcess DEF Running, Sent
  <2>4. CASE HelperExec(p) /\ proc' = [proc EXCEPT ![p].at = "decoder", ![p].crossed = TRUE]
    <3>1. /\ proc' \in [Launch -> Process] /\ \A q \in Launch \ {p} : proc'[q] = proc[q]
          /\ proc'[p].at = "decoder" /\ proc'[p].crossed = TRUE /\ proc'[p].clean = proc[p].clean
      BY <1>1, <2>4 DEF Typed, Process, Running
    <3> QED BY <1>1, <2>4, <3>1 DEF Running, Sent, HelperExec, Live
  <2>5. CASE HelperReleased(p)
    BY <2>2, <2>3, <2>5 DEF HelperReleased, Live, Running
  <2>6. CASE HelperAbandoned(p) \/ HelperExec(p) \/ DecoderExits(p) \/ Dies(p)
    BY <2>3, <2>4, <2>6 DEF HelperAbandoned, HelperExec, DecoderExits, Dies, Live, Running
  <2> QED BY <2>1, <2>5, <2>6
<1>5. Typed'
  BY <1>1, <1>2, <1>3, <1>4 DEF Typed
<1>6. \A q \in Launch : ProcessKept(q)
  <2>1. ProcessKept(p)
    BY <1>1, <1>2, <1>3, <1>4 DEF ProcessKept, HasCustody
  <2>2. ASSUME NEW q \in Launch, q # p PROVE ProcessKept(q)
    <3>1. proc'[q] = proc[q] /\ guard'[q] = guard[q] /\ byte'[q].go = byte[q].go /\ Sent(q)
      BY <1>1, <1>2, <1>3, <1>4, <2>2
    <3> QED BY <3>1 DEF ProcessKept, Sent, HasCustody
  <2> QED BY <2>1, <2>2
<1> QED BY <1>2, <1>5, <1>6, ProcessesKeep

\* A signal to a worker, and a guardian.
LEMMA SignalsKeep ==
  ASSUME WorkerInv, NEW p \in Launch, UNCHANGED <<boot, cage, waiter, supervised, byte>>,
         proc' \in {proc, Doomed(p), Killed(p)},
         guard' \in [Launch -> Guardian],
         \A q \in Launch : \/ guard'[q] = guard[q]
                           \/ guard[q] = "starting" /\ guard'[q] # "none"
                           \/ guard[q] = "watching" /\ guard'[q] \in {"done", "broken"}
  PROVE  WorkerInv'
<1>1. Typed /\ \A q \in Launch : Sent(q)
  BY DEF WorkerInv
<1>2. /\ proc' \in [Launch -> Process]
      /\ \A q \in Launch : proc'[q].at = proc[q].at /\ proc'[q].crossed = proc[q].crossed /\ proc'[q].clean = proc[q].clean
  BY <1>1, DoomedProcess DEF Typed
<1>3. Typed'
  BY <1>1, <1>2 DEF Typed
<1>4. \A q \in Launch : ProcessKept(q)
  <2> SUFFICES ASSUME NEW q \in Launch PROVE ProcessKept(q)
    OBVIOUS
  <2>1. Sent(q) /\ byte'[q].go = byte[q].go
    BY <1>1
  <2>2. proc'[q].at = proc[q].at /\ proc'[q].crossed = proc[q].crossed /\ proc'[q].clean = proc[q].clean
    BY <1>2
  <2> QED BY <2>1, <2>2 DEF ProcessKept, Sent, HasCustody
<1> QED BY <1>3, <1>4, ProcessesKeep

LEMMA BesideMoves ==
  ASSUME WorkerInv, NEW p \in Launch,
         \/ KilledFromOutside(p) \/ WatcherKills(p) \/ ParentSignal(p)
         \/ GuardianReady(p) \/ GuardianDies(p) \/ GuardianActs(p)
  PROVE  WorkerInv'
<1>1. guard \in [Launch -> Guardian]
  BY DEF WorkerInv, Typed
<1>2. UNCHANGED <<boot, cage, waiter, supervised, byte>> /\ proc' \in {proc, Doomed(p), Killed(p)}
  BY DEF KilledFromOutside, WatcherKills, ParentSignal, GuardianReady, GuardianDies, GuardianActs, ownVars
<1>3. /\ guard' \in [Launch -> Guardian]
      /\ \A q \in Launch : \/ guard'[q] = guard[q]
                           \/ guard[q] = "starting" /\ guard'[q] # "none"
                           \/ guard[q] = "watching" /\ guard'[q] \in {"done", "broken"}
  BY <1>1 DEF KilledFromOutside, WatcherKills, ParentSignal, GuardianReady, GuardianDies, GuardianActs,
              ownVars, Guardian
<1> QED BY <1>2, <1>3, SignalsKeep

-----------------------------------------------------------------------------
(* The manager's threads *)

\* A step of the boot thread that only looks at the processes: it comes no nearer to the start of
\* the decoder than it was, and it closes a cage that is empty.
Emptied(p) == proc[p].at = "reaped" /\ guard[p] \notin {"starting", "watching"}
ThreadMoves(p, s) ==
  /\ boot[1] = p /\ boot' = <<p, s>>
  /\ s \in Awaiting => boot[2] \in Awaiting
  /\ s \in AfterStart => boot[2] \in AfterStart
  /\ s \in {"ready", "guardian", "attach"} => boot[2] \in {"ready", "guardian", "attach"}
  /\ s = "go" => HasCustody(p)
  /\ s \in {"alive", "status"} => p = Idle /\ (proc[p].crossed \/ proc[p].at = "zombie")
  /\ s \in {"close", "closing"} => boot[2] \in {"close", "closing"}
  /\ s \in {"stop-close", "stop-closing"} => waiter = "over"
ThreadSees(p) ==
  /\ UNCHANGED <<proc, byte, waiter>> /\ (supervised' => supervised)
  /\ \A q \in Launch :
       /\ guard'[q] = guard[q] \/ (guard[q] \in {"starting", "stillborn"} /\ guard'[q] = "stillborn")
       /\ cage[q].guardian => cage'[q].guardian
       /\ cage[q].closed => cage'[q].closed
       /\ cage'[q].closed => cage[q].closed \/ (q = p /\ Emptied(p))
  /\ boot[2] = "attach" => cage'[p].guardian \/ guard'[p] = "stillborn"

LEMMA ThreadKeeps ==
  ASSUME WorkerInv, Typed', NEW p \in Launch, NEW s, ThreadMoves(p, s), ThreadSees(p)
  PROVE  WorkerInv'
<1>0. Typed /\ Turn /\ Joined
  BY DEF WorkerInv
<1>1. boot'[1] = p /\ boot'[2] = s
  BY DEF ThreadMoves
<1>2. ASSUME NEW q \in Launch PROVE (Sent(q) /\ Under(q) /\ Attached(q) /\ Gone(q))'
  <2>0. Sent(q) /\ Under(q) /\ Attached(q) /\ Gone(q)
    BY DEF WorkerInv
  <2>1. proc' = proc /\ byte' = byte /\ (HasCustody(q) => HasCustody(q)')
    BY DEF ThreadSees, HasCustody
  <2>2. Sent(q)'
    BY <2>0, <2>1 DEF Sent
  <2>3. Under(q)'
    BY <1>1, <2>0, <2>1 DEF Under, ThreadMoves, Awaiting
  <2>4. Attached(q)'
    <3>1. boot = <<q, "attach">> => q = p /\ boot[2] = "attach"
      BY DEF ThreadMoves
    <3> QED BY <2>0, <3>1 DEF Attached, ThreadSees
  <2>5. Gone(q)'
    BY <2>0, <2>1 DEF Gone, ThreadSees, Emptied
  <2> QED BY <2>2, <2>3, <2>4, <2>5
<1>3. Turn'
  BY <1>0, <1>1 DEF Turn, ThreadMoves, ThreadSees, Launch
<1>4. Joined'
  BY <1>0, <1>1 DEF Joined, ThreadMoves, ThreadSees
<1> QED BY <1>2, <1>3, <1>4 DEF WorkerInv

\* What is written to a cage: one field, or two.
CageKept(c, d) ==
  d \in [Launch -> Cage] /\ \A q \in Launch : d[q].guardian = c[q].guardian /\ d[q].closed = c[q].closed

LEMMA CageField ==
  ASSUME NEW c \in [Launch -> Cage], NEW p \in Launch
  PROVE  /\ \A m \in {"free", "start", "boot", "waiter"} : CageKept(c, [c EXCEPT ![p].mu = m])
         /\ CageKept(c, [c EXCEPT ![p].mu = "free"])
         /\ CageKept(c, [c EXCEPT ![p].failed = TRUE]) /\ CageKept(c, [c EXCEPT ![p].liveness = FALSE])
         /\ CageKept(c, [c EXCEPT ![p].executed = TRUE]) /\ CageKept(c, [c EXCEPT ![p].pidfd = TRUE])
         /\ LET d == [c EXCEPT ![p].closed = TRUE] IN
            /\ d \in [Launch -> Cage] /\ d[p].closed
            /\ \A q \in Launch : d[q].guardian = c[q].guardian /\ (q # p => d[q] = c[q])
         /\ LET d == [c EXCEPT ![p].guardian = TRUE] IN
            /\ d \in [Launch -> Cage] /\ d[p].guardian
            /\ \A q \in Launch : d[q].closed = c[q].closed /\ (q # p => d[q] = c[q])
<1>1. \A m \in {"free", "start", "boot", "waiter"} : CageKept(c, [c EXCEPT ![p].mu = m])
  BY DEF Cage, CageKept
<1>2. CageKept(c, [c EXCEPT ![p].failed = TRUE])
  BY DEF Cage, CageKept
<1>3. CageKept(c, [c EXCEPT ![p].liveness = FALSE])
  BY DEF Cage, CageKept
<1>4. CageKept(c, [c EXCEPT ![p].executed = TRUE])
  BY DEF Cage, CageKept
<1>5. CageKept(c, [c EXCEPT ![p].pidfd = TRUE])
  BY DEF Cage, CageKept
<1>6. LET d == [c EXCEPT ![p].closed = TRUE] IN
      /\ d \in [Launch -> Cage] /\ d[p].closed
      /\ \A q \in Launch : d[q].guardian = c[q].guardian /\ (q # p => d[q] = c[q])
  BY DEF Cage
<1>7. LET d == [c EXCEPT ![p].guardian = TRUE] IN
      /\ d \in [Launch -> Cage] /\ d[p].guardian
      /\ \A q \in Launch : d[q].closed = c[q].closed /\ (q # p => d[q] = c[q])
  BY DEF Cage
<1>8. CageKept(c, [c EXCEPT ![p].mu = "free"])
  BY <1>1, Zenon
<1> QED BY <1>1, <1>2, <1>3, <1>4, <1>5, <1>6, <1>7, <1>8

LEMMA CageWrites ==
  ASSUME Typed, NEW p \in Launch
  PROVE  /\ Refuse(p) => CageKept(cage, cage') /\ boot' = <<p, "kill">>
         /\ \A th \in {"boot", "waiter"} : CloseBegins(p, th) => CageKept(cage, cage')
         /\ CloseFails(p) => CageKept(cage, cage')
         /\ cage' = [cage EXCEPT ![p].executed = TRUE, ![p].mu = "free"] => CageKept(cage, cage')
         /\ CloseSucceeds(p) =>
              /\ cage' \in [Launch -> Cage] /\ cage'[p].closed
              /\ \A q \in Launch : cage'[q].guardian = cage[q].guardian /\ (q # p => cage'[q] = cage[q])
<1>0. cage \in [Launch -> Cage]
  BY DEF Typed
<1>1. Refuse(p) => CageKept(cage, cage') /\ boot' = <<p, "kill">>
  <2> DEFINE c == [cage EXCEPT ![p].failed = TRUE]
  <2>1. CageKept(cage, c)
    BY <1>0, CageField
  <2>2. Refuse(p) => cage' = [c EXCEPT ![p].mu = "free"] /\ boot' = <<p, "kill">>
    BY DEF Refuse, Goto
  <2> HIDE DEF c
  <2>3. c \in [Launch -> Cage]
    BY <2>1 DEF CageKept
  <2>4. CageKept(c, [c EXCEPT ![p].mu = "free"])
    BY <2>3, CageField, Zenon
  <2> QED BY <2>1, <2>2, <2>4 DEF CageKept
<1>2. ASSUME NEW th \in {"boot", "waiter"}, CloseBegins(p, th) PROVE CageKept(cage, cage')
  <2> DEFINE c == [cage EXCEPT ![p].mu = th]
  <2>1. CageKept(cage, c)
    BY <1>0, CageField
  <2>2. cage' = [c EXCEPT ![p].liveness = FALSE]
    BY <1>2 DEF CloseBegins
  <2> HIDE DEF c
  <2>3. c \in [Launch -> Cage]
    BY <2>1 DEF CageKept
  <2>4. CageKept(c, [c EXCEPT ![p].liveness = FALSE])
    BY <2>3, CageField, Zenon
  <2> QED BY <2>1, <2>2, <2>4 DEF CageKept
<1>3. CloseFails(p) => CageKept(cage, cage')
  <2>1. CageKept(cage, [cage EXCEPT ![p].mu = "free"])
    BY <1>0, CageField, Zenon
  <2> QED BY <2>1 DEF CloseFails
<1>4. cage' = [cage EXCEPT ![p].executed = TRUE, ![p].mu = "free"] => CageKept(cage, cage')
  <2> DEFINE c == [cage EXCEPT ![p].executed = TRUE]
  <2>1. CageKept(cage, c)
    BY <1>0, CageField
  <2>2. cage' = [cage EXCEPT ![p].executed = TRUE, ![p].mu = "free"] => cage' = [c EXCEPT ![p].mu = "free"]
    OBVIOUS
  <2> HIDE DEF c
  <2>3. c \in [Launch -> Cage]
    BY <2>1 DEF CageKept
  <2>4. CageKept(c, [c EXCEPT ![p].mu = "free"])
    BY <2>3, CageField, Zenon
  <2> QED BY <2>1, <2>2, <2>4 DEF CageKept
<1>5. ASSUME CloseSucceeds(p)
      PROVE  /\ cage' \in [Launch -> Cage] /\ cage'[p].closed
             /\ \A q \in Launch : cage'[q].guardian = cage[q].guardian /\ (q # p => cage'[q] = cage[q])
  <2> DEFINE c == [cage EXCEPT ![p].mu = "free"]
  <2>1. CageKept(cage, c) /\ \A q \in Launch : q # p => c[q] = cage[q]
    BY <1>0, CageField
  <2>2. cage' = [c EXCEPT ![p].closed = TRUE]
    BY <1>5 DEF CloseSucceeds
  <2> HIDE DEF c
  <2>3. c \in [Launch -> Cage]
    BY <2>1 DEF CageKept
  <2>4. /\ cage' \in [Launch -> Cage] /\ cage'[p].closed
        /\ \A q \in Launch : cage'[q].guardian = c[q].guardian /\ (q # p => cage'[q] = c[q])
    BY <2>2, <2>3, CageField
  <2> QED BY <2>1, <2>4 DEF CageKept
<1> QED BY <1>1, <1>2, <1>3, <1>4, <1>5

Steps == Awaiting \cup AfterStart \cup Failing \cup Later
LEMMA ThreadLooks ==
  ASSUME WorkerInv, NEW p \in Launch, NEW s \in Steps, ThreadMoves(p, s), boot[2] # "attach",
         UNCHANGED <<proc, byte, guard, waiter>>, supervised' \in {supervised, FALSE},
         cage' = cage \/ CageKept(cage, cage')
  PROVE  WorkerInv'
<1>1. Typed
  BY DEF WorkerInv
<1>2. CageKept(cage, cage')
  BY <1>1 DEF CageKept, Typed
<1>3. boot' \in Launch \X Steps
  BY DEF ThreadMoves
<1>4. Typed'
  BY <1>1, <1>2, <1>3 DEF Typed, CageKept, Steps
<1>5. supervised' => supervised
  BY Zenon
<1>6. /\ \A q \in Launch : guard'[q] = guard[q]
      /\ \A q \in Launch : cage'[q].guardian = cage[q].guardian /\ cage'[q].closed = cage[q].closed
  BY <1>2 DEF CageKept
<1>7. ThreadSees(p)
  BY <1>5, <1>6 DEF ThreadSees
<1> QED BY <1>4, <1>7, ThreadKeeps

\* The steps of a launch that only look.
LEMMA LooksKeep ==
  ASSUME WorkerInv, NEW p \in Launch, AwaitReady(p) \/ AwaitExec(p) \/ CheckAlive(p) \/ Close(p)
  PROVE  WorkerInv'
<1>1. Typed /\ Under(p) /\ Turn
  BY DEF WorkerInv
<1>2. UNCHANGED <<proc, byte, guard, waiter, supervised>>
  BY DEF AwaitReady, AwaitExec, CheckAlive, Close, processVars, AfterStartUnchanged
<1>3. \E s \in Steps : /\ ThreadMoves(p, s) /\ boot[2] # "attach"
                       /\ cage' = cage \/ CageKept(cage, cage')
  <2>1. CASE AwaitReady(p)
    <3>1. boot = <<p, "ready">> /\ boot[1] = p /\ boot[2] = "ready"
      BY <2>1 DEF AwaitReady, At
    <3>2. CageKept(cage, [cage EXCEPT ![p].pidfd = TRUE])
      BY <1>1, CageField, Zenon DEF Typed
    <3>3. CageKept(cage, cage') /\ boot' \in {<<p, "guardian">>, <<p, "kill">>}
      BY <1>1, <2>1, <3>2, CageWrites DEF AwaitReady, Goto
    <3>4. ThreadMoves(p, "guardian") \/ ThreadMoves(p, "kill")
      BY <3>1, <3>3 DEF ThreadMoves, Awaiting, AfterStart
    <3> QED BY <3>1, <3>3, <3>4 DEF Steps, AfterStart, Failing
  <2>2. CASE AwaitExec(p)
    <3>1. boot = <<p, "exec">> /\ boot[1] = p /\ boot[2] = "exec"
      BY <2>2 DEF AwaitExec, At
    <3>2. cage' = cage \/ CageKept(cage, cage')
      BY <1>1, <2>2, CageWrites DEF AwaitExec
    <3>3. CASE Refuse(p)
      <4>1. ThreadMoves(p, "kill")
        BY <1>1, <3>1, <3>3, CageWrites DEF ThreadMoves, Awaiting, AfterStart
      <4> QED BY <3>1, <3>2, <4>1 DEF Steps, Failing
    <3>4. CASE ExecPipeEnded(p) /\ boot' \in {<<p, "wait">>, <<p, "alive">>} /\ (p = OneShot => boot' = <<p, "wait">>)
      <4>1. proc[p].crossed \/ proc[p].at = "zombie"
        BY <1>1, <3>1, <3>4 DEF ExecPipeEnded, Live, Under, Typed, Process, AfterStart
      <4>2. ThreadMoves(p, "wait") \/ ThreadMoves(p, "alive")
        BY <3>1, <3>4, <4>1 DEF ThreadMoves, Awaiting, AfterStart, Launch
      <4> QED BY <3>1, <3>2, <4>2 DEF Steps, AfterStart, Later
    <3> QED BY <2>2, <3>3, <3>4 DEF AwaitExec, Goto
  <2>3. CASE CheckAlive(p)
    <3>1. boot = <<p, "alive">> /\ boot[1] = p /\ boot[2] = "alive"
      BY <2>3 DEF CheckAlive, At
    <3>2. cage' = cage \/ CageKept(cage, cage')
      BY <1>1, <2>3, CageWrites DEF CheckAlive
    <3>3. boot' \in {<<p, "status">>, <<p, "kill">>}
      BY <1>1, <2>3, CageWrites DEF CheckAlive, Goto
    <3>4. p = Idle /\ (proc[p].crossed \/ proc[p].at = "zombie")
      BY <1>1, <3>1 DEF Under, Turn
    <3>5. ThreadMoves(p, "status") \/ ThreadMoves(p, "kill")
      BY <3>1, <3>3, <3>4 DEF ThreadMoves, Awaiting, AfterStart
    <3> QED BY <3>1, <3>2, <3>5 DEF Steps, AfterStart, Failing
  <2>4. CASE Close(p)
    <3>1. boot = <<p, "close">> /\ boot[1] = p /\ boot[2] = "close" /\ boot' = <<p, "closing">>
      BY <2>4 DEF Close, At, Goto
    <3>2. CageKept(cage, cage')
      BY <1>1, <2>4, CageWrites DEF Close
    <3>3. ThreadMoves(p, "closing")
      BY <3>1 DEF ThreadMoves, Awaiting, AfterStart
    <3> QED BY <3>1, <3>2, <3>3 DEF Steps, Failing
  <2> QED BY <2>1, <2>2, <2>3, <2>4
<1> QED BY <1>2, <1>3, ThreadLooks

\* A helper is started, and a guardian.
LEMMA StartKeeps ==
  ASSUME WorkerInv, NEW p \in Launch, Start(p)
  PROVE  WorkerInv'
<1>1. Typed /\ Under(p) /\ Sent(p) /\ Attached(p) /\ Gone(p) /\ Turn /\ Joined
  BY DEF WorkerInv
<1>2. boot = <<p, "start">> /\ boot[1] = p /\ boot[2] = "start"
  BY DEF Start, At
<1>3. UNCHANGED <<byte, guard, waiter, supervised>>
  BY DEF Start
<1>4. CASE boot' = <<p, "over">> /\ UNCHANGED <<proc, cage>>
  <2>1. ThreadMoves(p, "over")
    BY <1>2, <1>4 DEF ThreadMoves, Awaiting, AfterStart
  <2> QED BY <1>2, <1>3, <1>4, <2>1, ThreadLooks DEF Steps, Later
<1>5. CASE /\ proc' = [proc EXCEPT ![p].at = "loading"] /\ cage' = [cage EXCEPT ![p].mu = "start"]
           /\ boot' = <<p, "ready">>
  <2>1. CageKept(cage, cage')
    <3>1. CageKept(cage, [cage EXCEPT ![p].mu = "start"])
      BY <1>1, CageField, Zenon DEF Typed
    <3> QED BY <1>5, <3>1
  <2>2. /\ proc' \in [Launch -> Process] /\ \A q \in Launch \ {p} : proc'[q] = proc[q]
        /\ proc'[p].at = "loading" /\ proc'[p].crossed = proc[p].crossed /\ proc'[p].clean = proc[p].clean
    BY <1>1, <1>5, MovedProcess DEF Running
  <2>3. boot'[1] = p /\ boot'[2] = "ready" /\ boot' \in Launch \X Steps
    BY <1>5 DEF Steps, AfterStart
  <2>4. Typed'
    BY <1>1, <1>3, <2>1, <2>2, <2>3 DEF Typed, CageKept, Steps
  <2>5. proc[p].at = "none" /\ ~byte[p].go /\ waiter = "none" /\ ~cage[p].closed
    BY <1>1, <1>2 DEF Under, Joined, Gone, Awaiting
  <2>6. ASSUME NEW q \in Launch PROVE (Sent(q) /\ Under(q) /\ Attached(q) /\ Gone(q))'
    <3>0. Sent(q) /\ Under(q) /\ Attached(q) /\ Gone(q)
      BY DEF WorkerInv
    <3>1. Attached(q)'
      BY <1>2, <1>3, <2>1, <3>0 DEF Attached, CageKept
    <3>2. Gone(q)'
      BY <1>3, <2>1, <2>2, <2>5, <3>0 DEF Gone, CageKept
    <3>3. Under(q)'
      BY <1>3, <2>2, <2>3, <2>5 DEF Under, Awaiting
    <3>4. Sent(q)'
      BY <1>3, <2>2, <3>0 DEF Sent, HasCustody
    <3> QED BY <3>1, <3>2, <3>3, <3>4
  <2>7. Turn' /\ Joined'
    <3>1. Turn'
      BY <1>1, <1>2, <1>3, <2>1, <2>2, <2>3 DEF Turn, CageKept, Launch, OneShot, Idle
    <3>2. Joined'
      BY <1>1, <1>3, <2>2, <2>3, <2>5 DEF Joined, Launch, OneShot, Idle
    <3> QED BY <3>1, <3>2
  <2> QED BY <2>4, <2>6, <2>7 DEF WorkerInv
<1> QED BY <1>4, <1>5 DEF Start, Goto

LEMMA StartGuardianKeeps ==
  ASSUME WorkerInv, NEW p \in Launch, StartGuardian(p)
  PROVE  WorkerInv'
<1>1. Typed /\ Under(p) /\ Sent(p) /\ Attached(p) /\ Gone(p) /\ Turn /\ Joined
  BY DEF WorkerInv
<1>2. boot = <<p, "guardian">> /\ boot[1] = p /\ boot[2] = "guardian"
  BY DEF StartGuardian, At
<1>3. UNCHANGED <<proc, byte, waiter, supervised>>
  BY DEF StartGuardian, AfterStartUnchanged
<1>4. CASE Refuse(p) /\ UNCHANGED guard
  <2>1. CageKept(cage, cage') /\ boot' = <<p, "kill">>
    BY <1>1, <1>4, CageWrites
  <2>2. ThreadMoves(p, "kill")
    BY <1>2, <2>1 DEF ThreadMoves, Awaiting, AfterStart
  <2> QED BY <1>2, <1>3, <1>4, <2>1, <2>2, ThreadLooks DEF Steps, Failing
<1>5. CASE guard' = [guard EXCEPT ![p] = "starting"] /\ boot' = <<p, "attach">> /\ UNCHANGED cage
  <2>1. /\ guard' \in [Launch -> Guardian] /\ guard'[p] = "starting"
        /\ \A q \in Launch \ {p} : guard'[q] = guard[q]
    BY <1>1, <1>5 DEF Typed, Guardian
  <2>2. boot'[1] = p /\ boot'[2] = "attach" /\ boot' \in Launch \X Steps
    BY <1>5 DEF Steps, AfterStart
  <2>3. Typed'
    BY <1>1, <1>3, <1>5, <2>1, <2>2 DEF Typed, Steps
  <2>4. ~byte[p].go /\ ~cage[p].closed /\ proc[p].at \notin {"none", "reaped"}
    BY <1>1, <1>2 DEF Under, Gone, AfterStart
  <2>5. ASSUME NEW q \in Launch PROVE (Sent(q) /\ Under(q) /\ Attached(q) /\ Gone(q))'
    <3>0. Sent(q) /\ Under(q) /\ Attached(q) /\ Gone(q)
      BY DEF WorkerInv
    <3>1. Attached(q)'
      BY <1>2, <1>5, <2>1, <3>0 DEF Attached
    <3>2. Gone(q)' /\ Sent(q)'
      BY <1>3, <1>5, <2>1, <2>4, <3>0 DEF Gone, Sent, HasCustody
    <3>3. Under(q)'
      BY <1>3, <2>2, <2>4 DEF Under, Awaiting
    <3> QED BY <3>1, <3>2, <3>3
  <2>6. Turn'
    BY <1>1, <1>2, <1>3, <1>5, <2>1, <2>2 DEF Turn, Launch, OneShot, Idle
  <2>7. Joined'
    BY <1>1, <1>2, <1>3, <2>2 DEF Joined, AfterStart
  <2> QED BY <2>3, <2>5, <2>6, <2>7 DEF WorkerInv
<1> QED BY <1>4, <1>5 DEF StartGuardian, Goto

LEMMA AttachKeeps ==
  ASSUME WorkerInv, NEW p \in Launch, Attach(p)
  PROVE  WorkerInv'
<1>1. Typed
  BY DEF WorkerInv
<1>2. boot = <<p, "attach">> /\ boot[1] = p /\ boot[2] = "attach"
  BY DEF Attach, At
<1>3. UNCHANGED <<proc, byte, waiter, supervised>>
  BY DEF Attach, AfterStartUnchanged
<1>4. CASE /\ HasCustody(p) /\ cage' = [cage EXCEPT ![p].guardian = TRUE]
           /\ boot' = <<p, "go">> /\ UNCHANGED guard
  <2>1. /\ cage' \in [Launch -> Cage] /\ cage'[p].guardian
        /\ \A q \in Launch : cage'[q].closed = cage[q].closed /\ (q # p => cage'[q] = cage[q])
    <3> DEFINE d == [cage EXCEPT ![p].guardian = TRUE]
    <3>1. /\ d \in [Launch -> Cage] /\ d[p].guardian
          /\ \A q \in Launch : d[q].closed = cage[q].closed /\ (q # p => d[q] = cage[q])
      BY <1>1, CageField, Zenon DEF Typed
    <3> QED BY <1>4, <3>1
  <2>2. ThreadMoves(p, "go") /\ boot' \in Launch \X Steps
    BY <1>2, <1>4 DEF ThreadMoves, Awaiting, AfterStart, Steps
  <2>3. Typed'
    BY <1>1, <1>3, <1>4, <2>1, <2>2 DEF Typed, Steps
  <2>4. ThreadSees(p)
    BY <1>3, <1>4, <2>1 DEF ThreadSees
  <2> QED BY <2>2, <2>3, <2>4, ThreadKeeps
<1>5. CASE /\ guard[p] \in {"starting", "stillborn"}
           /\ guard' = [guard EXCEPT ![p] = "stillborn"] /\ Refuse(p)
  <2>1. CageKept(cage, cage') /\ boot' = <<p, "kill">>
    BY <1>1, <1>5, CageWrites
  <2>2. ThreadMoves(p, "kill") /\ boot' \in Launch \X Steps
    BY <1>2, <2>1 DEF ThreadMoves, Awaiting, AfterStart, Steps, Failing
  <2>3. /\ guard' \in [Launch -> Guardian] /\ guard'[p] = "stillborn"
        /\ \A q \in Launch \ {p} : guard'[q] = guard[q]
    BY <1>1, <1>5 DEF Typed, Guardian
  <2>4. Typed'
    BY <1>1, <1>3, <2>1, <2>2, <2>3 DEF Typed, Steps, CageKept
  <2>5. ThreadSees(p)
    BY <1>3, <1>5, <2>1, <2>3 DEF ThreadSees, CageKept
  <2> QED BY <2>2, <2>4, <2>5, ThreadKeeps
<1> QED BY <1>4, <1>5 DEF Attach, Goto

\* The go byte is sent.
LEMMA GoKeeps ==
  ASSUME WorkerInv, NEW p \in Launch, Go(p)
  PROVE  WorkerInv'
<1>1. Typed /\ Under(p) /\ Turn /\ Joined
  BY DEF WorkerInv
<1>2. boot = <<p, "go">> /\ boot[1] = p /\ boot[2] = "go"
  BY DEF Go, At
<1>3. UNCHANGED <<proc, guard, waiter, supervised>>
  BY DEF Go, AfterStartUnchanged
<1>4. CASE Refuse(p) /\ UNCHANGED byte
  <2>1. CageKept(cage, cage') /\ boot' = <<p, "kill">>
    BY <1>1, <1>4, CageWrites
  <2>2. ThreadMoves(p, "kill")
    BY <1>2, <2>1 DEF ThreadMoves, Awaiting, AfterStart
  <2> QED BY <1>2, <1>3, <1>4, <2>1, <2>2, ThreadLooks DEF Steps, Failing
<1>5. CASE /\ byte' = [byte EXCEPT ![p].go = TRUE, ![p].open = FALSE]
           /\ boot' = <<p, "exec">> /\ UNCHANGED cage
  <2>1. /\ byte' \in [Launch -> Pipes] /\ \A q \in Launch \ {p} : byte'[q] = byte[q]
    <3> DEFINE b == [byte EXCEPT ![p].go = TRUE]
    <3>1. b \in [Launch -> Pipes] /\ \A q \in Launch \ {p} : b[q] = byte[q]
      BY <1>1 DEF Typed, Pipes
    <3>2. byte' = [b EXCEPT ![p].open = FALSE]
      BY <1>5
    <3> HIDE DEF b
    <3> QED BY <3>1, <3>2 DEF Pipes
  <2>2. boot'[1] = p /\ boot'[2] = "exec" /\ boot' \in Launch \X Steps
    BY <1>5 DEF Steps, AfterStart
  <2>3. Typed'
    BY <1>1, <1>3, <1>5, <2>1, <2>2 DEF Typed, Steps
  <2>4. HasCustody(p) /\ proc[p].at \notin {"none", "reaped"}
    BY <1>1, <1>2 DEF Under, AfterStart
  <2>5. ASSUME NEW q \in Launch PROVE (Sent(q) /\ Under(q) /\ Attached(q) /\ Gone(q))'
    <3>0. Sent(q) /\ Under(q) /\ Attached(q) /\ Gone(q)
      BY DEF WorkerInv
    <3>1. Attached(q)' /\ Gone(q)'
      BY <1>2, <1>3, <1>5, <3>0 DEF Attached, Gone
    <3>2. Under(q)'
      BY <1>3, <2>2, <2>4 DEF Under, Awaiting
    <3>3. Sent(q)'
      <4>1. CASE q = p
        <5>1. byte'[p].go
          <6> DEFINE b == [byte EXCEPT ![p].go = TRUE]
          <6>1. b \in [Launch -> Pipes] /\ b[p].go
            BY <1>1 DEF Typed, Pipes
          <6>2. byte' = [b EXCEPT ![p].open = FALSE]
            BY <1>5
          <6> HIDE DEF b
          <6> QED BY <6>1, <6>2 DEF Pipes
        <5> QED BY <1>3, <2>4, <3>0, <4>1, <5>1 DEF Sent, HasCustody
      <4>2. CASE q # p
        BY <1>3, <2>1, <3>0, <4>2 DEF Sent, HasCustody
      <4> QED BY <4>1, <4>2
    <3> QED BY <3>1, <3>2, <3>3
  <2>6. Turn'
    BY <1>1, <1>2, <1>3, <1>5, <2>1, <2>2 DEF Turn, Launch, OneShot, Idle
  <2>7. Joined'
    BY <1>1, <1>2, <1>3, <2>2 DEF Joined, AfterStart
  <2> QED BY <2>3, <2>5, <2>6, <2>7 DEF WorkerInv
<1> QED BY <1>4, <1>5 DEF Go, Goto

\* The sender becomes visible.
LEMMA CheckStatusKeeps ==
  ASSUME WorkerInv, NEW p \in Launch, CheckStatus(p)
  PROVE  WorkerInv'
<1>1. Typed /\ Under(p) /\ Turn /\ Joined
  BY DEF WorkerInv
<1>2. boot = <<p, "status">> /\ boot[1] = p /\ boot[2] = "status"
  BY DEF CheckStatus, At
<1>3. UNCHANGED <<proc, byte, guard>>
  BY DEF CheckStatus, processVars
<1>4. CASE Refuse(p) /\ UNCHANGED <<supervised, waiter>>
  <2>1. CageKept(cage, cage') /\ boot' = <<p, "kill">>
    BY <1>1, <1>4, CageWrites
  <2>2. ThreadMoves(p, "kill")
    BY <1>2, <2>1 DEF ThreadMoves, Awaiting, AfterStart
  <2> QED BY <1>2, <1>3, <1>4, <2>1, <2>2, ThreadLooks DEF Steps, Failing
<1>5. CASE /\ Alive(p) /\ cage' = [cage EXCEPT ![p].executed = TRUE, ![p].mu = "free"]
           /\ boot' = <<p, "await">> /\ supervised' = TRUE /\ waiter' = "wait"
  <2>1. CageKept(cage, cage')
    BY <1>1, <1>5, CageWrites
  <2>2. boot'[1] = p /\ boot'[2] = "await" /\ boot' \in Launch \X Steps
    BY <1>5 DEF Steps, Later
  <2>3. Typed'
    BY <1>1, <1>3, <1>5, <2>1, <2>2 DEF Typed, Steps, CageKept
  <2>4. p = Idle /\ proc[Idle].crossed
    BY <1>1, <1>2, <1>5 DEF Under, Turn, Alive
  <2>5. ASSUME NEW q \in Launch PROVE (Sent(q) /\ Under(q) /\ Attached(q) /\ Gone(q))'
    <3>0. Sent(q) /\ Under(q) /\ Attached(q) /\ Gone(q)
      BY DEF WorkerInv
    <3>1. Attached(q)' /\ Gone(q)'
      BY <1>2, <1>3, <2>1, <3>0 DEF Attached, Gone, CageKept
    <3>2. Under(q)'
      BY <2>2 DEF Under, Awaiting, AfterStart
    <3>3. Sent(q)'
      BY <1>3, <3>0 DEF Sent, HasCustody
    <3> QED BY <3>1, <3>2, <3>3
  <2>6. Turn' /\ Joined'
    <3>1. Turn'
      BY <1>1, <1>2, <1>3, <2>1, <2>2, <2>4 DEF Turn, CageKept, Launch, OneShot, Idle
    <3>2. Joined'
      BY <1>3, <1>5, <2>2, <2>4 DEF Joined, Awaiting, AfterStart
    <3> QED BY <3>1, <3>2
  <2> QED BY <2>3, <2>5, <2>6 DEF WorkerInv
<1> QED BY <1>4, <1>5 DEF CheckStatus, Goto

\* What is at most a signal to the worker of a launch that failed.
LEMMA KillKeeps ==
  ASSUME WorkerInv, NEW p \in Launch, NEW s \in {"join", "stop-join"},
         boot[1] = p, boot[2] \notin Awaiting \cup AfterStart, boot' = <<p, s>>,
         UNCHANGED <<byte, guard, cage, waiter, supervised>>, proc' = Killed(p)
  PROVE  WorkerInv'
<1>1. Typed /\ Turn /\ Joined
  BY DEF WorkerInv
<1>2. boot'[1] = p /\ boot'[2] = s /\ boot' \in Launch \X Steps
  BY DEF Steps, Failing, Later
<1>3. /\ proc' \in [Launch -> Process]
      /\ \A q \in Launch : proc'[q].at = proc[q].at /\ proc'[q].crossed = proc[q].crossed /\ proc'[q].clean = proc[q].clean
  BY <1>1, DoomedProcess
<1>4. Typed'
  BY <1>1, <1>2, <1>3 DEF Typed, Steps
<1>5. ASSUME NEW q \in Launch PROVE (Sent(q) /\ Under(q) /\ Attached(q) /\ Gone(q))'
  <2>0. Sent(q) /\ Under(q) /\ Attached(q) /\ Gone(q)
    BY DEF WorkerInv
  <2>1. boot # <<q, "attach">>
    BY DEF AfterStart
  <2>2. Sent(q)' /\ Attached(q)' /\ Gone(q)'
    BY <1>3, <2>0, <2>1 DEF Sent, Attached, Gone, HasCustody
  <2>3. Under(q)'
    BY <1>2 DEF Under, Awaiting, AfterStart
  <2> QED BY <2>2, <2>3
<1>6. Turn'
  BY <1>1, <1>2, <1>3 DEF Turn, Launch
<1>7. Joined'
  BY <1>1, <1>2, <1>3 DEF Joined, Awaiting, AfterStart, Launch
<1> QED BY <1>4, <1>5, <1>6, <1>7 DEF WorkerInv

LEMMA FailKillKeeps ==
  ASSUME WorkerInv, NEW p \in Launch, FailKill(p)
  PROVE  WorkerInv'
<1>1. boot[1] = p /\ boot[2] = "kill" /\ boot' = <<p, "join">>
  BY DEF FailKill, At, Goto
<1> QED BY <1>1, KillKeeps DEF FailKill, AfterStartUnchanged, Awaiting, AfterStart

\* A worker is joined, and its cage closed.
LEMMA JoinKeeps ==
  ASSUME WorkerInv, NEW p \in Launch, Join(p)
  PROVE  WorkerInv'
<1>1. Typed /\ Turn /\ Joined
  BY DEF WorkerInv
<1>2. boot[1] = p /\ boot[2] \in {"join", "wait"} /\ boot \in {<<p, "join">>, <<p, "wait">>}
  BY DEF Join, At
<1>3. UNCHANGED <<byte, guard, cage, waiter, supervised>>
  BY DEF Join, AfterStartUnchanged
<1>4. boot' = <<p, "close">> /\ boot'[1] = p /\ boot'[2] = "close" /\ boot' \in Launch \X Steps
  BY DEF Join, Goto, Steps, Failing
<1>5. /\ proc' \in [Launch -> Process] /\ \A q \in Launch \ {p} : proc'[q] = proc[q]
      /\ proc'[p].at = "reaped" /\ proc'[p].crossed = proc[p].crossed /\ proc'[p].clean = proc[p].clean
  BY <1>1, MovedProcess DEF Join
<1>6. Typed'
  BY <1>1, <1>3, <1>4, <1>5 DEF Typed, Steps
<1>7. ASSUME NEW q \in Launch PROVE (Sent(q) /\ Under(q) /\ Attached(q) /\ Gone(q))'
  <2>0. Sent(q) /\ Under(q) /\ Attached(q) /\ Gone(q)
    BY DEF WorkerInv
  <2>1. Attached(q)'
    BY <1>2, <1>3, <2>0 DEF Attached
  <2>2. Sent(q)' /\ Gone(q)'
    BY <1>3, <1>5, <2>0 DEF Sent, Gone, HasCustody
  <2>3. Under(q)'
    BY <1>4, <1>5 DEF Under, Awaiting, AfterStart
  <2> QED BY <2>1, <2>2, <2>3
<1>8. Turn'
  BY <1>1, <1>2, <1>3, <1>4, <1>5 DEF Turn, Launch, OneShot, Idle
<1>9. Joined'
  BY <1>1, <1>2, <1>3, <1>4, <1>5 DEF Joined, Awaiting, AfterStart, Launch, OneShot, Idle
<1> QED BY <1>6, <1>7, <1>8, <1>9 DEF WorkerInv

\* A guardian that is gone, or was never attached, does not watch.
LEMMA ClosesEmpty ==
  ASSUME WorkerInv, NEW p \in Launch, GuardianGone(p), proc[p].at = "reaped", boot # <<p, "attach">>
  PROVE  Emptied(p)
<1>1. Attached(p)
  BY DEF WorkerInv
<1> QED BY <1>1 DEF Attached, Emptied, GuardianGone

LEMMA ClosedKeeps ==
  ASSUME WorkerInv, NEW p \in Launch, Closed(p)
  PROVE  WorkerInv'
<1>1. Typed /\ Turn /\ Joined /\ Under(p)
  BY DEF WorkerInv
<1>2. boot[1] = p /\ boot[2] = "closing" /\ boot # <<p, "attach">> /\ proc[p].at = "reaped"
  BY <1>1 DEF Closed, At, Under
<1>3. UNCHANGED <<proc, byte, guard, waiter, supervised>>
  BY DEF Closed, processVars
<1>4. ASSUME boot' = <<p, "over">>, CloseSucceeds(p) \/ CloseFails(p) PROVE WorkerInv'
  <2>1. ThreadMoves(p, "over") /\ boot' \in Launch \X Steps
    BY <1>2, <1>4 DEF ThreadMoves, Awaiting, AfterStart, Steps, Later
  <2>2. CASE CloseFails(p)
    BY <1>1, <1>2, <1>3, <2>1, <2>2, CageWrites, ThreadLooks DEF Steps, Later
  <2>3. CASE CloseSucceeds(p)
    <3>1. /\ cage' \in [Launch -> Cage] /\ cage'[p].closed
          /\ \A q \in Launch : cage'[q].guardian = cage[q].guardian /\ (q # p => cage'[q] = cage[q])
      BY <1>1, <2>3, CageWrites
    <3>2. Emptied(p)
      BY <1>2, <2>3, ClosesEmpty DEF CloseSucceeds
    <3>3. Typed'
      BY <1>1, <1>3, <2>1, <3>1 DEF Typed, Steps
    <3>4. ThreadSees(p)
      BY <1>2, <1>3, <3>1, <3>2 DEF ThreadSees
    <3> QED BY <2>1, <3>3, <3>4, ThreadKeeps
  <2> QED BY <1>4, <2>2, <2>3
<1>5. ASSUME boot' = <<Idle, "start">>, p = OneShot, proc[p].clean, CloseSucceeds(p) PROVE WorkerInv'
  <2>1. /\ cage' \in [Launch -> Cage] /\ cage'[p].closed
        /\ \A q \in Launch : cage'[q].guardian = cage[q].guardian /\ (q # p => cage'[q] = cage[q])
    BY <1>1, <1>5, CageWrites
  <2>2. Emptied(p)
    BY <1>2, <1>5, ClosesEmpty DEF CloseSucceeds
  <2>3. boot'[1] = Idle /\ boot'[2] = "start" /\ boot' \in Launch \X Steps
    BY <1>5 DEF Steps, Awaiting, Launch
  <2>4. Typed'
    BY <1>1, <1>3, <2>1, <2>3 DEF Typed, Steps
  <2>5. boot[1] = OneShot /\ OneShot # Idle
    BY <1>2, <1>5 DEF OneShot, Idle
  <2>6. ASSUME NEW q \in Launch PROVE (Sent(q) /\ Under(q) /\ Attached(q) /\ Gone(q))'
    <3>0. Sent(q) /\ Under(q) /\ Attached(q) /\ Gone(q)
      BY DEF WorkerInv
    <3>1. boot # <<q, "attach">>
      BY <1>2
    <3>2. Sent(q)' /\ Attached(q)'
      BY <1>3, <2>1, <3>0, <3>1 DEF Sent, Attached, HasCustody
    <3>3. Gone(q)'
      BY <1>3, <2>1, <2>2, <3>0 DEF Gone, Emptied
    <3>4. Under(q)'
      BY <1>1, <1>3, <2>3, <2>5 DEF Under, Turn, AfterStart
    <3> QED BY <3>2, <3>3, <3>4
  <2>7. Turn'
    BY <1>3, <1>5, <2>1, <2>3, <2>5 DEF Turn
  <2>8. Joined'
    BY <1>1, <1>3, <2>3, <2>5 DEF Joined
  <2> QED BY <2>4, <2>6, <2>7, <2>8 DEF WorkerInv
<1> QED BY <1>4, <1>5 DEF Closed, Goto

\* What moves neither a process nor the boot thread.
LEMMA AsideKeeps ==
  ASSUME WorkerInv, Typed', UNCHANGED <<boot, proc, byte, guard, supervised>>,
         waiter' # "none" => waiter # "none",
         waiter' \in {"close", "closing", "over"} => waiter \in {"close", "closing", "over"},
         waiter = "over" => waiter' = "over",
         \A q \in Launch : /\ cage'[q].guardian = cage[q].guardian
                           /\ cage[q].closed => cage'[q].closed
                           /\ cage'[q].closed => cage[q].closed \/ Emptied(q)
  PROVE  WorkerInv'
<1>1. Turn /\ Joined
  BY DEF WorkerInv
<1>2. ASSUME NEW q \in Launch PROVE (Sent(q) /\ Under(q) /\ Attached(q) /\ Gone(q))'
  <2>0. Sent(q) /\ Under(q) /\ Attached(q) /\ Gone(q)
    BY DEF WorkerInv
  <2> QED BY <2>0 DEF Sent, Under, Attached, Gone, Emptied, HasCustody
<1>3. Turn'
  BY <1>1 DEF Turn, Launch
<1>4. Joined'
  BY <1>1 DEF Joined
<1> QED BY <1>2, <1>3, <1>4 DEF WorkerInv

LEMMA LostKeeps ==
  ASSUME WorkerInv, NEW p \in Launch, LostCustody(p)
  PROVE  WorkerInv'
<1>1. Typed
  BY DEF WorkerInv
<1>2. CageKept(cage, [cage EXCEPT ![p].failed = TRUE])
  BY <1>1, CageField, Zenon DEF Typed
<1>3. CageKept(cage, cage') /\ UNCHANGED <<boot, proc, byte, guard, waiter, supervised>>
  BY <1>2 DEF LostCustody, processVars
<1>4. Typed'
  BY <1>1, <1>3 DEF Typed, CageKept
<1> QED BY <1>3, <1>4, AsideKeeps DEF CageKept

\* The goroutine that joins the sender.
LEMMA WaiterKeeps ==
  ASSUME WorkerInv, WaiterJoins \/ WaiterCloses
  PROVE  WorkerInv'
<1>1. Typed /\ Turn /\ Joined /\ Idle \in Launch
  BY DEF WorkerInv, Launch
<1>2. waiter # "none"
  BY DEF WaiterJoins, WaiterCloses
<1>3. boot[1] = Idle /\ boot[2] \notin Awaiting \cup AfterStart /\ boot # <<Idle, "attach">>
  BY <1>1, <1>2 DEF Joined, AfterStart
<1>4. CASE WaiterJoins
  <2>1. proc' = [proc EXCEPT ![Idle].at = "reaped"] /\ waiter' = "close"
    BY <1>4 DEF WaiterJoins
  <2>2. UNCHANGED <<boot, byte, guard, cage, supervised>> /\ waiter = "wait"
    BY <1>4 DEF WaiterJoins
  <2>3. /\ proc' \in [Launch -> Process] /\ \A q \in Launch \ {Idle} : proc'[q] = proc[q]
        /\ proc'[Idle].at = "reaped" /\ proc'[Idle].crossed = proc[Idle].crossed
        /\ proc'[Idle].clean = proc[Idle].clean
    BY <1>1, <2>1, MovedProcess
  <2>4. Typed'
    BY <1>1, <2>1, <2>2, <2>3 DEF Typed
  <2>5. ASSUME NEW q \in Launch PROVE (Sent(q) /\ Under(q) /\ Attached(q) /\ Gone(q))'
    <3>0. Sent(q) /\ Under(q) /\ Attached(q) /\ Gone(q)
      BY DEF WorkerInv
    <3>1. Sent(q)' /\ Gone(q)'
      BY <2>2, <2>3, <3>0 DEF Sent, Gone, HasCustody
    <3>2. Attached(q)' /\ Under(q)'
      BY <1>3, <2>2, <2>3, <3>0 DEF Attached, Under, Awaiting, AfterStart
    <3> QED BY <3>1, <3>2
  <2>6. Turn'
    BY <1>1, <1>3, <2>2, <2>3 DEF Turn, Launch, OneShot, Idle
  <2>7. Joined'
    BY <1>1, <1>3, <2>1, <2>2, <2>3 DEF Joined
  <2> QED BY <2>4, <2>5, <2>6, <2>7 DEF WorkerInv
<1>5. CASE WaiterCloses
  <2>1. UNCHANGED <<boot, proc, byte, guard, supervised>>
    BY <1>5 DEF WaiterCloses, processVars
  <2>2. waiter \in {"close", "closing"} /\ waiter' \in {"closing", "over"}
    BY <1>5 DEF WaiterCloses
  <2>3. proc[Idle].at = "reaped"
    BY <1>1, <2>2 DEF Joined
  <2>4. /\ cage' \in [Launch -> Cage]
        /\ \A q \in Launch : /\ cage'[q].guardian = cage[q].guardian
                             /\ cage[q].closed => cage'[q].closed
                             /\ cage'[q].closed => cage[q].closed \/ Emptied(q)
    <3>1. CASE CloseBegins(Idle, "waiter") \/ CloseFails(Idle)
      <4>1. CageKept(cage, cage')
        BY <1>1, <3>1, CageWrites
      <4> QED BY <4>1 DEF CageKept
    <3>2. CASE CloseSucceeds(Idle)
      <4>1. Emptied(Idle)
        BY <1>1, <1>3, <2>3, <3>2, ClosesEmpty DEF CloseSucceeds
      <4> QED BY <1>1, <3>2, <4>1, CageWrites
    <3> QED BY <1>5, <3>1, <3>2 DEF WaiterCloses
  <2>5. Typed'
    BY <1>1, <2>1, <2>2, <2>4 DEF Typed
  <2> QED BY <2>1, <2>2, <2>4, <2>5, AsideKeeps
<1> QED BY <1>4, <1>5

\* The boot thread before the first launch and after the second.
LEMMA PreparationKeeps ==
  ASSUME WorkerInv,
         NativeOffers \/ NativeAwaitEnds \/ Await \/ Enable \/ StopKill \/ StopJoin \/ StopClose
  PROVE  WorkerInv'
<1>1. Typed /\ Joined /\ OneShot \in Launch /\ Idle \in Launch
  BY DEF WorkerInv, Launch
<1>2. CASE NativeOffers \/ NativeAwaitEnds
  <2>1. boot[1] = OneShot /\ boot[2] = "native" /\ boot' \in {<<OneShot, "start">>, <<OneShot, "over">>}
    BY <1>2 DEF NativeOffers, NativeAwaitEnds, At, Goto
  <2>2. ThreadMoves(OneShot, "start") \/ ThreadMoves(OneShot, "over")
    BY <2>1 DEF ThreadMoves, Awaiting, AfterStart
  <2>3. UNCHANGED <<proc, byte, guard, waiter, supervised, cage>>
    BY <1>2 DEF NativeOffers, NativeAwaitEnds, processVars
  <2> QED BY <1>1, <2>1, <2>2, <2>3, ThreadLooks DEF Steps, Awaiting, Later
<1>3. CASE Await \/ Enable
  <2>1. boot[1] = Idle /\ boot[2] \in {"await", "enable"}
    BY <1>3 DEF Await, Enable, At
  <2>2. boot' \in {<<Idle, "enable">>, <<Idle, "stop-kill">>, <<Idle, "up">>}
    BY <1>3 DEF Await, Enable, Goto
  <2>3. ThreadMoves(Idle, "enable") \/ ThreadMoves(Idle, "stop-kill") \/ ThreadMoves(Idle, "up")
    BY <2>1, <2>2 DEF ThreadMoves, Awaiting, AfterStart
  <2>4. UNCHANGED <<proc, byte, guard, waiter, supervised, cage>>
    BY <1>3 DEF Await, Enable, processVars
  <2> QED BY <1>1, <2>1, <2>3, <2>4, ThreadLooks DEF Steps, Later
<1>4. CASE StopKill
  <2>1. boot[1] = Idle /\ boot[2] = "stop-kill" /\ boot' = <<Idle, "stop-join">>
    BY <1>4 DEF StopKill, At, Goto
  <2> QED BY <1>1, <1>4, <2>1, KillKeeps DEF StopKill, AfterStartUnchanged, Awaiting, AfterStart
<1>5. CASE StopJoin
  <2>1. /\ boot[1] = Idle /\ boot[2] = "stop-join"
        /\ boot' \in {<<Idle, "stop-close">>, <<Idle, "over">>}
        /\ boot' = <<Idle, "stop-close">> => waiter = "over"
    BY <1>5 DEF StopJoin, At, Goto
  <2>2. ThreadMoves(Idle, "stop-close") \/ ThreadMoves(Idle, "over")
    BY <2>1 DEF ThreadMoves, Awaiting, AfterStart
  <2>3. UNCHANGED <<proc, byte, guard, waiter, supervised, cage>>
    BY <1>5 DEF StopJoin, processVars
  <2> QED BY <1>1, <2>1, <2>2, <2>3, ThreadLooks DEF Steps, Later
<1>6. CASE StopClose
  <2>1. /\ boot[1] = Idle /\ boot[2] \in {"stop-close", "stop-closing"} /\ boot # <<Idle, "attach">>
        /\ boot' \in {<<Idle, "stop-closing">>, <<Idle, "over">>}
    BY <1>6 DEF StopClose, At, Goto
  <2>2. waiter = "over" /\ proc[Idle].at = "reaped"
    BY <1>1, <2>1 DEF Joined
  <2>3. ThreadMoves(Idle, "stop-closing") \/ ThreadMoves(Idle, "over")
    BY <2>1, <2>2 DEF ThreadMoves, Awaiting, AfterStart
  <2>4. UNCHANGED <<proc, byte, guard, waiter>> /\ supervised' \in {supervised, FALSE}
    BY <1>6 DEF StopClose, processVars
  <2>5. CASE UNCHANGED cage \/ CloseBegins(Idle, "boot") \/ CloseFails(Idle)
    <3>1. cage' = cage \/ CageKept(cage, cage')
      BY <1>1, <2>5, CageWrites
    <3> QED BY <1>1, <2>1, <2>3, <2>4, <3>1, ThreadLooks DEF Steps, Later
  <2>6. CASE CloseSucceeds(Idle)
    <3>1. /\ cage' \in [Launch -> Cage] /\ cage'[Idle].closed
          /\ \A q \in Launch : cage'[q].guardian = cage[q].guardian /\ (q # Idle => cage'[q] = cage[q])
      BY <1>1, <2>6, CageWrites
    <3>2. Emptied(Idle)
      BY <1>1, <2>1, <2>2, <2>6, ClosesEmpty DEF CloseSucceeds
    <3>3. Typed'
      <4>1. boot' \in Launch \X Steps
        BY <1>1, <2>1 DEF Steps, Later
      <4> QED BY <1>1, <2>4, <3>1, <4>1 DEF Typed, Steps
    <3>4. ThreadSees(Idle)
      <4>1. supervised' => supervised
        BY <2>4, Zenon
      <4> QED BY <2>1, <2>4, <3>1, <3>2, <4>1 DEF ThreadSees
    <3> QED BY <1>1, <2>3, <3>3, <3>4, ThreadKeeps
  <2> QED BY <1>6, <2>5, <2>6 DEF StopClose
<1> QED BY <1>2, <1>3, <1>4, <1>5, <1>6

-----------------------------------------------------------------------------
(* The invariant and what follows from it *)

LEMMA WorkerStep == WorkerInv /\ [Next]_vars => WorkerInv'
<1> SUFFICES ASSUME WorkerInv, [Next]_vars PROVE WorkerInv'
  OBVIOUS
<1>0. Typed
  BY DEF WorkerInv
<1>1. ASSUME NEW p \in Launch, LaunchStep(p) PROVE WorkerInv'
  BY <1>1, StartKeeps, LooksKeep, StartGuardianKeeps, AttachKeeps, GoKeeps, CheckStatusKeeps, FailKillKeeps,
     JoinKeeps, ClosedKeeps DEF LaunchStep
<1>2. ASSUME NEW p \in Launch, ProcessStep(p) \/ Enforced(p) PROVE WorkerInv'
  BY <1>2, WorkerMoves, BesideMoves, LostKeeps DEF ProcessStep, Enforced, GuardianKills, GuardianBreach
<1>3. CASE WaiterJoins \/ WaiterCloses
  BY <1>3, WaiterKeeps
<1>4. CASE NativeOffers \/ NativeAwaitEnds \/ Await \/ Enable \/ StopKill \/ StopJoin \/ StopClose
  BY <1>4, PreparationKeeps
<1>5. CASE ContextEnds \/ ManagerDies \/ UNCHANGED vars
  <2>1. UNCHANGED <<boot, proc, byte, guard, cage, waiter, supervised>>
    BY <1>5 DEF ContextEnds, ManagerDies, vars, processVars, ownVars
  <2>2. Typed'
    BY <1>0, <2>1 DEF Typed
  <2> QED BY <2>1, <2>2, AsideKeeps
<1> QED BY <1>1, <1>2, <1>3, <1>4, <1>5 DEF Next

\* The inductive invariant of the launches: processes, guardians, cages and threads agree.
THEOREM WorkerInvAlways == Spec => []WorkerInv
BY WorkerInit, WorkerStep, PTL DEF Spec

\* The go byte is handed out only once a guardian has custody, and nothing else brings a helper to
\* the decoder; a guardian that had custody is never taken for one that had not.
THEOREM NeverUnguardedAlways == Spec => []NeverUnguarded
<1>1. WorkerInv => NeverUnguarded
  BY DEF WorkerInv, Sent, NeverUnguarded, HasCustody
<1> QED BY <1>1, WorkerInvAlways, PTL

\* The end of the exec pipe alone is no evidence: the sender becomes visible after two looks at a
\* process nobody else may join, and the one-shot is followed up only if a decoder ended well.
THEOREM VisibleMeansExecutedAlways == Spec => []VisibleMeansExecuted
<1>1. WorkerInv => VisibleMeansExecuted
  BY DEF WorkerInv, Sent, Turn, Joined, VisibleMeansExecuted, Launch
<1> QED BY <1>1, WorkerInvAlways, PTL

\* Whichever thread closes a cage, its worker was joined, and its guardian is dead or never came to
\* watch.
THEOREM ClosedMeansGoneAlways == Spec => []ClosedMeansGone
<1>1. WorkerInv => ClosedMeansGone
  BY DEF WorkerInv, Gone, Turn, ClosedMeansGone
<1> QED BY <1>1, WorkerInvAlways, PTL

=============================================================================
