---------------------------- MODULE RadioWorker ----------------------------
(***************************************************************************)
(* The start of the radio sender: prepareConfiguredRadioProducer runs the  *)
(* initialize-only command (launch 1, a one-shot) and then the idle sender *)
(* (launch 2), each in a radioWorker of its own (radio_worker_linux.go,    *)
(* radio_sender.go).  Three processes are involved in a launch.  The       *)
(* helper waits for a go byte before it executes the decoder; a guardian,  *)
(* which survives the manager, kills the worker by its pidfd when the      *)
(* manager's liveness pipe closes or the worker exceeds its resources; the *)
(* manager hands out the go byte only once the guardian has custody.       *)
(*                                                                         *)
(* Left out: capabilities, limits and identities (the helper always has    *)
(* the ones it must have), the files of the sender, the cgroup variant of  *)
(* containment, and the window inside the kernel in which an exiting       *)
(* process has closed its files and is not yet a zombie.  The mutex of the *)
(* sender is not contended here; the worker's mutex is: it is held over    *)
(* the whole of AfterStart and over the 2 s in which Close waits for the   *)
(* guardian.                                                               *)
(***************************************************************************)
EXTENDS Naturals

OneShot == 1      \* the initialize-only command
Idle == 2         \* the idle sender
Launch == {OneShot, Idle}

VARIABLES
    manager,    \* the manager is alive
    cancelled,  \* its context has ended
    boot,       \* the preparing goroutine: its launch and the step it is at
    result,     \* what it came to: "none", "failed", "ready" or "enabled"
    proc,       \* the worker process of each launch: where it is, whether it executed the
                \* decoder (crossed), has a SIGKILL coming (doomed) and exited with 0 (clean)
    byte,       \* its pipes: ready and go bytes sent, the go pipe open, the exec refused
    guard,      \* the guardian of each launch: "none", "starting", "stillborn", "watching",
                \* "done" (it killed the worker) or "broken" (it died itself)
    cage,       \* radioWorker: pidfd and guardian attached, the liveness pipe open, closed,
                \* executed, Failure reported (failed) and who holds its mutex
    waiter,     \* startIdleProcess's goroutine that joins the sender
    supervised  \* s.cmd is set

vars == <<manager, cancelled, boot, result, proc, byte, guard, cage, waiter, supervised>>
processVars == <<proc, byte, guard>>
ownVars == <<boot, result, cage, waiter, supervised>>

AfterStart == {"ready", "guardian", "attach", "go", "exec", "alive", "status"}
Failing == {"kill", "join", "close", "closing"}
Running == {"loading", "waiting", "released", "decoder"}

Init ==
    /\ manager = TRUE /\ cancelled = FALSE /\ supervised = FALSE
    /\ boot = <<OneShot, "native">> /\ result = "none" /\ waiter = "none"
    /\ proc = [p \in Launch |-> [at |-> "none", crossed |-> FALSE, doomed |-> FALSE, clean |-> FALSE]]
    /\ byte = [p \in Launch |-> [ready |-> FALSE, go |-> FALSE, open |-> TRUE, refused |-> FALSE]]
    /\ guard = [p \in Launch |-> "none"]
    /\ cage = [p \in Launch |-> [pidfd |-> FALSE, guardian |-> FALSE, liveness |-> TRUE,
                                 closed |-> FALSE, executed |-> FALSE, failed |-> FALSE,
                                 mu |-> "free"]]

-----------------------------------------------------------------------------
(* The worker process (worker.c, then the decoder). *)

Live(p) == proc[p].at \in Running
Exits(p, clean) == proc' = [proc EXCEPT ![p].at = "zombie", ![p].clean = clean]
Doomed(p) == [proc EXCEPT ![p].doomed = @ \/ Live(p)]

HelperReady(p) ==
    /\ proc[p].at = "loading"
    /\ proc' = [proc EXCEPT ![p].at = "waiting"] /\ byte' = [byte EXCEPT ![p].ready = TRUE]
    /\ UNCHANGED <<manager, cancelled, guard>> /\ UNCHANGED ownVars
HelperReleased(p) ==
    /\ proc[p].at = "waiting" /\ byte[p].go
    /\ IF manager THEN proc' = [proc EXCEPT ![p].at = "released"] ELSE Exits(p, FALSE)
    /\ UNCHANGED <<manager, cancelled, byte, guard>> /\ UNCHANGED ownVars
HelperAbandoned(p) ==
    /\ proc[p].at = "waiting" /\ ~byte[p].go /\ (~byte[p].open \/ ~manager)
    /\ Exits(p, FALSE)
    /\ UNCHANGED <<manager, cancelled, byte, guard>> /\ UNCHANGED ownVars
HelperExec(p) ==
    /\ proc[p].at = "released"
    /\ \/ proc' = [proc EXCEPT ![p].at = "decoder", ![p].crossed = TRUE] /\ UNCHANGED byte
       \/ Exits(p, FALSE) /\ byte' = [byte EXCEPT ![p].refused = TRUE]
    /\ UNCHANGED <<manager, cancelled, guard>> /\ UNCHANGED ownVars
DecoderExits(p) ==
    /\ proc[p].at = "decoder" /\ \E clean \in BOOLEAN : Exits(p, clean)
    /\ UNCHANGED <<manager, cancelled, byte, guard>> /\ UNCHANGED ownVars
(* SIGKILL from the manager, the guardian or the kernel takes effect.        *)
Dies(p) ==
    /\ Live(p) /\ proc[p].doomed
    /\ Exits(p, FALSE)
    /\ UNCHANGED <<manager, cancelled, byte, guard>> /\ UNCHANGED ownVars
KilledFromOutside(p) ==
    /\ Live(p) /\ ~proc[p].doomed
    /\ proc' = Doomed(p)
    /\ UNCHANGED <<manager, cancelled, byte, guard>> /\ UNCHANGED ownVars

-----------------------------------------------------------------------------
(* The guardian (radioWorkerGuardianServe).  The liveness pipe ends with the *)
(* manager; a breach, or a worker whose stat cannot be read, counts as well. *)

GuardianReady(p) ==
    /\ guard[p] = "starting"
    /\ guard' = [guard EXCEPT ![p] = "watching"]
    /\ UNCHANGED <<manager, cancelled, proc, byte>> /\ UNCHANGED ownVars
GuardianDies(p) ==
    /\ guard[p] \in {"starting", "watching"}
    /\ guard' = [guard EXCEPT ![p] = IF @ = "starting" THEN "stillborn" ELSE "broken"]
    /\ UNCHANGED <<manager, cancelled, proc, byte>> /\ UNCHANGED ownVars
LivenessEnds(p) == ~manager \/ ~cage[p].liveness
GuardianActs(p) ==
    /\ guard[p] = "watching"
    /\ proc' = Doomed(p) /\ guard' = [guard EXCEPT ![p] = "done"]
    /\ UNCHANGED <<manager, cancelled, byte>> /\ UNCHANGED ownVars
GuardianKills(p) == LivenessEnds(p) /\ GuardianActs(p)
GuardianBreach(p) == ~LivenessEnds(p) /\ GuardianActs(p)

-----------------------------------------------------------------------------
(* The manager's threads stop with it.  AfterStart runs under the mutex.     *)

At(p, step) == manager /\ boot = <<p, step>>
Goto(p, step) == boot' = <<p, step>>
AfterStartUnchanged == UNCHANGED <<manager, cancelled, result, waiter, supervised>>
Refuse(p) ==
    /\ cage' = [cage EXCEPT ![p].failed = TRUE, ![p].mu = "free"]
    /\ Goto(p, "kill")

(* startConfiguredRadioBuiltin: Native is asked, by reads alone and for as    *)
(* long as it takes, until it offers a receiver; then there is one attempt,  *)
(* which a second read, the room table or an unsettled journal may refuse.   *)
NativeOffers ==
    /\ At(OneShot, "native") /\ ~cancelled
    /\ \/ Goto(OneShot, "start") /\ UNCHANGED result
       \/ Goto(OneShot, "over") /\ result' = "failed"
    /\ UNCHANGED processVars /\ UNCHANGED <<manager, cancelled, cage, waiter, supervised>>
NativeAwaitEnds ==
    /\ At(OneShot, "native") /\ cancelled
    /\ Goto(OneShot, "over") /\ result' = "failed"
    /\ UNCHANGED processVars /\ UNCHANGED <<manager, cancelled, cage, waiter, supervised>>

Start(p) ==
    /\ At(p, "start")
    /\ \/ /\ ~cancelled
          /\ proc' = [proc EXCEPT ![p].at = "loading"]
          /\ cage' = [cage EXCEPT ![p].mu = "start"]
          /\ Goto(p, "ready") /\ UNCHANGED result
       \/ Goto(p, "over") /\ result' = "failed" /\ UNCHANGED <<proc, cage>>
    /\ UNCHANGED <<manager, cancelled, byte, guard, waiter, supervised>>

AwaitReady(p) ==
    /\ At(p, "ready")
    /\ \/ byte[p].ready /\ cage' = [cage EXCEPT ![p].pidfd = TRUE] /\ Goto(p, "guardian")
       \/ Refuse(p)
    /\ UNCHANGED processVars /\ AfterStartUnchanged
StartGuardian(p) ==
    /\ At(p, "guardian")
    /\ \/ guard' = [guard EXCEPT ![p] = "starting"] /\ Goto(p, "attach") /\ UNCHANGED cage
       \/ Refuse(p) /\ UNCHANGED guard
    /\ UNCHANGED <<proc, byte>> /\ AfterStartUnchanged
(* A guardian that does not say that it has custody is killed and joined.    *)
HasCustodyStarted(p) == guard[p] # "none"    \* mutant: a guardian that was only started counts
HasCustody(p) == guard[p] \in {"watching", "done", "broken"}
Attach(p) ==
    /\ At(p, "attach")
    /\ \/ /\ HasCustody(p)
          /\ cage' = [cage EXCEPT ![p].guardian = TRUE] /\ Goto(p, "go") /\ UNCHANGED guard
       \/ /\ guard[p] \in {"starting", "stillborn"}
          /\ guard' = [guard EXCEPT ![p] = "stillborn"] /\ Refuse(p)
    /\ UNCHANGED <<proc, byte>> /\ AfterStartUnchanged
Go(p) ==
    /\ At(p, "go")
    /\ IF proc[p].at = "waiting"
       THEN /\ byte' = [byte EXCEPT ![p].go = TRUE, ![p].open = FALSE]
            /\ Goto(p, "exec") /\ UNCHANGED cage
       ELSE Refuse(p) /\ UNCHANGED byte
    /\ UNCHANGED <<proc, guard>> /\ AfterStartUnchanged

(* The exec pipe ends when the decoder is executed, and when the helper      *)
(* dies: the one-shot leaves that to its join, the sender looks twice.       *)
ExecPipeEnded(p) == (proc[p].crossed \/ ~Live(p)) /\ ~byte[p].refused
AwaitExec(p) ==
    /\ At(p, "exec")
    /\ \/ /\ ExecPipeEnded(p)
          /\ IF p = OneShot
             THEN cage' = [cage EXCEPT ![p].executed = TRUE, ![p].mu = "free"] /\ Goto(p, "wait")
             ELSE Goto(p, "alive") /\ UNCHANGED cage
       \/ Refuse(p)
    /\ UNCHANGED processVars /\ AfterStartUnchanged
AliveByPid(p) == proc[p].at # "reaped"   \* mutant: an unreaped process counts as alive
Alive(p) == proc[p].at # "zombie"
CheckAlive(p) ==
    /\ At(p, "alive")
    /\ IF Alive(p) THEN Goto(p, "status") /\ UNCHANGED cage ELSE Refuse(p)
    /\ UNCHANGED processVars /\ AfterStartUnchanged
CheckStatus(p) ==
    /\ At(p, "status")
    /\ IF Alive(p)
       THEN /\ cage' = [cage EXCEPT ![p].executed = TRUE, ![p].mu = "free"]
            /\ Goto(p, "await") /\ supervised' = TRUE /\ waiter' = "wait"
       ELSE Refuse(p) /\ UNCHANGED <<supervised, waiter>>
    /\ UNCHANGED processVars /\ UNCHANGED <<manager, cancelled, result>>

-----------------------------------------------------------------------------
(* Kill: by pidfd, or the unreaped child itself before there is one.         *)
ReachableByPidfd(p) == cage[p].pidfd     \* mutant: no pidfd, no kill
Reachable(p) == cage[p].pidfd \/ proc[p].at # "none"
Killed(p) == IF ~cage[p].closed /\ Reachable(p) THEN Doomed(p) ELSE proc
Free(p) == cage[p].mu = "free"

(* Close: refused while the child is unreaped; the guardian's pipe is closed *)
(* and its end awaited for 2 s.  A guardian that ended badly, or not yet,    *)
(* leaves the cage open.                                                     *)
CloseBegins(p, th) ==
    /\ Free(p) /\ ~cage[p].closed
    /\ cage' = [cage EXCEPT ![p].mu = th, ![p].liveness = FALSE]
GuardianAsked(p) == TRUE       \* mutant: Close does not wait for the guardian
GuardianGone(p) == cage[p].guardian => guard[p] = "done"
CloseSucceeds(p) == GuardianGone(p) /\ cage' = [cage EXCEPT ![p].mu = "free", ![p].closed = TRUE]
CloseFails(p) ==
    /\ cage[p].guardian /\ guard[p] # "done"
    /\ cage' = [cage EXCEPT ![p].mu = "free"]

(* A launch that failed is killed, joined and closed before it is reported.  *)
FailKill(p) ==
    /\ At(p, "kill") /\ Free(p)
    /\ proc' = Killed(p) /\ Goto(p, "join")
    /\ UNCHANGED <<byte, guard, cage>> /\ AfterStartUnchanged
Join(p) ==
    /\ At(p, "join") \/ At(p, "wait")
    /\ proc[p].at = "zombie"
    /\ proc' = [proc EXCEPT ![p].at = "reaped"] /\ Goto(p, "close")
    /\ UNCHANGED <<byte, guard, cage>> /\ AfterStartUnchanged
Close(p) ==
    /\ At(p, "close")
    /\ CloseBegins(p, "boot") /\ Goto(p, "closing")
    /\ UNCHANGED processVars /\ AfterStartUnchanged
(* The one-shot succeeded if it was executed, ended well and left nothing.   *)
Closed(p) ==
    /\ At(p, "closing")
    /\ \/ /\ CloseSucceeds(p)
          /\ IF p = OneShot /\ cage[p].executed /\ proc[p].clean
             THEN Goto(Idle, "start") /\ UNCHANGED result
             ELSE Goto(p, "over") /\ result' = "failed"
       \/ CloseFails(p) /\ Goto(p, "over") /\ result' = "failed"
    /\ UNCHANGED processVars /\ UNCHANGED <<manager, cancelled, waiter, supervised>>

(* The goroutine that joins the sender.                                      *)
WaiterJoins ==
    /\ manager /\ waiter = "wait" /\ proc[Idle].at = "zombie"
    /\ proc' = [proc EXCEPT ![Idle].at = "reaped"] /\ waiter' = "close"
    /\ UNCHANGED <<manager, cancelled, boot, result, byte, guard, cage, supervised>>
WaiterCloses ==
    /\ manager
    /\ \/ waiter = "close" /\ CloseBegins(Idle, "waiter") /\ waiter' = "closing"
       \/ waiter = "closing" /\ (CloseSucceeds(Idle) \/ CloseFails(Idle)) /\ waiter' = "over"
    /\ UNCHANGED processVars /\ UNCHANGED <<manager, cancelled, boot, result, supervised>>

(* awaitRadioIdleEvidence and the first Ready: productionEvidence must hold  *)
(* when the preparation succeeds; anything else but a retry stops the sender.*)
CageEvidence(p) ==
    /\ ~cage[p].closed /\ cage[p].executed /\ ~cage[p].failed
    /\ guard[p] = "watching" /\ Live(p)
Evidence == supervised /\ waiter # "over" /\ CageEvidence(Idle)
Await ==
    /\ At(Idle, "await") /\ Free(Idle)
    /\ \/ Evidence /\ Goto(Idle, "enable") /\ result' = "ready"
       \/ Goto(Idle, "stop-kill") /\ UNCHANGED result
    /\ UNCHANGED processVars /\ UNCHANGED <<manager, cancelled, cage, waiter, supervised>>

(* The backend is set; enable asks Ready once more, and no second time.      *)
Enable ==
    /\ At(Idle, "enable") /\ Free(Idle)
    /\ \/ Evidence /\ Goto(Idle, "up") /\ result' = "enabled"
       \/ Goto(Idle, "up") /\ UNCHANGED result
    /\ UNCHANGED processVars /\ UNCHANGED <<manager, cancelled, cage, waiter, supervised>>

(* stop, with 3 s for the join.  A cage that cannot be closed keeps s.cmd.   *)
StopKill ==
    /\ At(Idle, "stop-kill") /\ Free(Idle)
    /\ proc' = Killed(Idle) /\ Goto(Idle, "stop-join")
    /\ UNCHANGED <<byte, guard, cage>> /\ AfterStartUnchanged
StopJoin ==
    /\ At(Idle, "stop-join")
    /\ \/ waiter = "over" /\ Goto(Idle, "stop-close") /\ UNCHANGED result
       \/ waiter # "over" /\ Goto(Idle, "over") /\ result' = "failed"
    /\ UNCHANGED processVars /\ UNCHANGED <<manager, cancelled, cage, waiter, supervised>>
StopClose ==
    /\ \/ /\ At(Idle, "stop-close") /\ ~cage[Idle].closed
          /\ CloseBegins(Idle, "boot") /\ Goto(Idle, "stop-closing")
          /\ UNCHANGED <<result, supervised>>
       \/ /\ \/ At(Idle, "stop-close") /\ cage[Idle].closed /\ UNCHANGED cage
             \/ At(Idle, "stop-closing") /\ CloseSucceeds(Idle)
          /\ supervised' = FALSE /\ Goto(Idle, "over") /\ result' = "failed"
       \/ /\ At(Idle, "stop-closing") /\ CloseFails(Idle)
          /\ Goto(Idle, "over") /\ result' = "failed" /\ UNCHANGED supervised
    /\ UNCHANGED processVars /\ UNCHANGED <<manager, cancelled, waiter>>

-----------------------------------------------------------------------------
(* The end of the guardian closes Failure, and whoever watches it kills the  *)
(* worker; so does the end of the context (or of the one-shot's 5 s).        *)
LostOnBreach(p) == guard[p] = "done"    \* mutant: a guardian that was killed goes unnoticed
Lost(p) == guard[p] \in {"done", "broken"}
LostCustody(p) ==
    /\ manager /\ cage[p].guardian /\ Lost(p) /\ ~cage[p].failed
    /\ cage' = [cage EXCEPT ![p].failed = TRUE]
    /\ UNCHANGED processVars /\ UNCHANGED <<manager, cancelled, boot, result, waiter, supervised>>
Watched(p) == IF p = OneShot THEN At(p, "wait") ELSE waiter = "wait"
WatcherKills(p) ==
    /\ manager /\ Watched(p) /\ Free(p) /\ Live(p) /\ ~proc[p].doomed
    /\ cage[p].failed \/ cancelled \/ p = OneShot
    /\ proc' = Killed(p)
    /\ UNCHANGED <<manager, cancelled, byte, guard>> /\ UNCHANGED ownVars

ContextEnds ==
    /\ manager /\ ~cancelled /\ cancelled' = TRUE
    /\ UNCHANGED <<manager>> /\ UNCHANGED processVars /\ UNCHANGED ownVars
ManagerDies ==
    /\ manager /\ manager' = FALSE
    /\ UNCHANGED <<cancelled>> /\ UNCHANGED processVars /\ UNCHANGED ownVars
(* Pdeathsig, set before the helper's first instruction and again by it.     *)
ParentSignal(p) ==
    /\ ~manager /\ Live(p) /\ ~proc[p].doomed
    /\ proc' = Doomed(p)
    /\ UNCHANGED <<manager, cancelled, byte, guard>> /\ UNCHANGED ownVars

LaunchStep(p) ==
    \/ Start(p) \/ AwaitReady(p) \/ StartGuardian(p) \/ Attach(p) \/ Go(p) \/ AwaitExec(p)
    \/ CheckAlive(p) \/ CheckStatus(p) \/ FailKill(p) \/ Join(p) \/ Close(p) \/ Closed(p)
ProcessStep(p) ==
    \/ HelperReady(p) \/ HelperReleased(p) \/ HelperAbandoned(p) \/ HelperExec(p)
    \/ DecoderExits(p) \/ KilledFromOutside(p)
    \/ GuardianReady(p) \/ GuardianDies(p) \/ GuardianBreach(p)
Enforced(p) ==
    \/ Dies(p) \/ GuardianKills(p) \/ LostCustody(p) \/ WatcherKills(p) \/ ParentSignal(p)

Next ==
    \/ \E p \in Launch : LaunchStep(p) \/ ProcessStep(p) \/ Enforced(p)
    \/ WaiterJoins \/ WaiterCloses
    \/ NativeOffers \/ NativeAwaitEnds
    \/ Await \/ Enable \/ StopKill \/ StopJoin \/ StopClose
    \/ ContextEnds \/ ManagerDies

Spec == Init /\ [][Next]_vars

-----------------------------------------------------------------------------
(* Fairness: the manager's threads run (each of their waits has a deadline   *)
(* or ends with a process), signals arrive, and pipes report their end.      *)
(* No process has to do anything else, and readiness may never come.         *)
FairSpec ==
    /\ Spec
    /\ \A p \in Launch :
         /\ WF_vars(LaunchStep(p)) /\ WF_vars(Dies(p)) /\ WF_vars(GuardianKills(p))
         /\ WF_vars(LostCustody(p)) /\ WF_vars(WatcherKills(p)) /\ WF_vars(ParentSignal(p))
    /\ WF_vars(WaiterJoins) /\ WF_vars(WaiterCloses)
    /\ WF_vars(StopKill) /\ WF_vars(StopJoin) /\ WF_vars(StopClose)

-----------------------------------------------------------------------------
(* Properties. *)

(* The decoder never runs an instruction before a guardian said that it has  *)
(* custody of the worker, whichever of the three processes is slow or dies.  *)
NeverUnguarded ==
    \A p \in Launch : proc[p].crossed => guard[p] \in {"watching", "done", "broken"}

(* What the manager takes for started was started: a sender becomes visible, *)
(* and the one-shot is followed by the sender, only if the decoder was       *)
(* executed, though the exec pipe also ends when the helper is killed.       *)
VisibleMeansExecuted ==
    /\ supervised => proc[Idle].crossed
    /\ boot[1] = Idle => proc[OneShot].crossed /\ proc[OneShot].clean

(* A closed cage has nothing left alive, and a second worker starts only     *)
(* after the first one's cage was closed.                                    *)
ClosedMeansGone ==
    /\ \A p \in Launch : cage[p].closed =>
           proc[p].at = "reaped" /\ guard[p] \notin {"starting", "watching"}
    /\ boot[1] = Idle => cage[OneShot].closed

(* A decoder that lost its guardian, or its manager, does not go on.         *)
UnguardedEnds ==
    \A p \in Launch :
        (proc[p].at = "decoder" /\ (guard[p] # "watching" \/ ~manager)) ~> proc[p].at # "decoder"

(* A launch comes to an end: startIdleProcess, which holds the sender's      *)
(* mutex throughout, is not left waiting for a helper nobody can reach.      *)
LaunchEnds ==
    (manager /\ boot[2] \in AfterStart \cup Failing)
        ~> (~manager \/ boot[2] \notin AfterStart \cup Failing)
=============================================================================
