----------------------------- MODULE Supervisor -----------------------------
(***************************************************************************)
(* One room's runtime (podconnect/manager/supervisor.go): two keepAlive    *)
(* goroutines that start, wait for and restart go-librespot ("gl", Native) *)
(* and OwnTone ("ot", C), the replacements of live children by the         *)
(* watchdog and by HTTP handlers, and the ordered teardown after stop.     *)
(*                                                                         *)
(* Every section under rt.mu is one action, and so is a receive from a     *)
(* channel.  A child is <<kind, number>>.  lifecycleMu is held over        *)
(* several actions.  A child may exit by itself at any time, or ignore     *)
(* SIGTERM; a context may reach its deadline at any wait.  Log output and  *)
(* the delays (2 s, 3 s, 90 s) are left out.  Room ids are never reused,   *)
(* so one runtime per room is all there is.                                *)
(***************************************************************************)
EXTENDS Naturals, FiniteSets

CONSTANTS
    Restarts,  \* replaceChildren(false): the watchdog and the handlers that restart Native
    Rescans,   \* replaceChildren(true): the speaker rescan
    Watchdog,  \* the member of Restarts that runs on the supervise goroutine
    None,      \* nil
    MaxStarts  \* bound: starts of each child

ASSUME OpsAssumption == /\ Restarts \cap Rescans = {}
                        /\ Watchdog \notin Rescans
                        /\ "killAll" \notin Restarts \cup Rescans
                        /\ MaxStarts \in Nat

Child == {"gl", "ot"}
Replacements == Restarts \cup Rescans
Ops == Replacements \cup {"killAll"}

\* nil is neither a command nor a holder of the lock.
ASSUME NoneAssumption == None \notin Child \X Nat /\ None \notin Ops

VARIABLES
    stop,       \* rt.stop is closed
    done,       \* rt.done is closed
    slot,       \* glCmd and otCmd
    alive,      \* children whose process runs
    joined,     \* children whose join channel is closed
    signalled,  \* children sent SIGTERM by stopChild
    forced,     \* children sent SIGKILL by stopChild
    starts,     \* starts so far, per child kind
    keeper,     \* the keepAlive goroutines
    lifecycle,  \* holder of lifecycleMu
    replacing,  \* rt.replacing # nil: a replacement's barrier stands
    op          \* the replaceChildren and killAll calls

childVars == <<slot, alive, joined, signalled, forced, starts>>
lockVars == <<lifecycle, replacing>>
vars == <<stop, done, childVars, keeper, lockVars, op>>

IdleOp == [pc |-> "idle", stage |-> "gl", expected |-> [c \in Child |-> None],
           captured |-> [c \in Child |-> None], clean |-> TRUE]

Init ==
    /\ stop = FALSE /\ done = FALSE
    /\ slot = [c \in Child |-> None]
    /\ alive = {} /\ joined = {} /\ signalled = {} /\ forced = {}
    /\ starts = [c \in Child |-> 0]
    /\ keeper = [c \in Child |-> "top"]
    /\ lifecycle = None /\ replacing = FALSE
    /\ op = [o \in Ops |-> IdleOp]

-----------------------------------------------------------------------------
(* keepAlive *)

KeeperMoves(c, pc) == keeper' = [keeper EXCEPT ![c] = pc]

\* The select on stop at the head of the loop.
Top(c) ==
    /\ keeper[c] = "top"
    /\ KeeperMoves(c, IF stop THEN "exited" ELSE "build")
    /\ UNCHANGED <<stop, done, childVars, lockVars, op>>

\* Under rt.mu: stop again, the barrier of a replacement, then Start.
Refused(c) ==
    /\ keeper[c] = "build"
    /\ \/ stop /\ KeeperMoves(c, "exited")
       \/ ~stop /\ replacing /\ KeeperMoves(c, "barrier")
    /\ UNCHANGED <<stop, done, childVars, lockVars, op>>

\* Mutants: a child is started after stop, or while a replacement is under way.
MayStartAfterStop(c) == ~replacing
MayStartDuringReplacement(c) == ~stop

MayStart(c) == ~stop /\ ~replacing

Start(c) ==
    LET p == <<c, starts[c] + 1>>
    IN  /\ keeper[c] = "build" /\ MayStart(c) /\ starts[c] < MaxStarts
        /\ starts' = [starts EXCEPT ![c] = @ + 1]
        /\ slot' = [slot EXCEPT ![c] = p]
        /\ alive' = alive \cup {p}
        /\ KeeperMoves(c, "wait")
        /\ UNCHANGED <<stop, done, joined, signalled, forced, lockVars, op>>

StartFails(c) ==
    /\ keeper[c] = "build" /\ MayStart(c)
    /\ KeeperMoves(c, "sleep")
    /\ UNCHANGED <<stop, done, childVars, lockVars, op>>

\* The select on stop and on the barrier it read ("opened": that barrier is closed).
BarrierWakes(c) ==
    /\ keeper[c] \in {"barrier", "opened"}
    /\ \/ stop /\ KeeperMoves(c, "exited")
       \/ keeper[c] = "opened" /\ KeeperMoves(c, "top")
    /\ UNCHANGED <<stop, done, childVars, lockVars, op>>

\* cmd.Wait returned: the slot is cleared and the join channel closed under one lock.
Reap(c) ==
    /\ keeper[c] = "wait" /\ slot[c] \notin alive
    /\ joined' = joined \cup {slot[c]}
    /\ slot' = [slot EXCEPT ![c] = None]
    /\ KeeperMoves(c, "sleep")
    /\ UNCHANGED <<stop, done, alive, signalled, forced, starts, lockVars, op>>

\* sleepOrStop, and the check of stop before it when a child was reaped; when the timer and stop
\* are both ready either case may be taken.
Sleep(c) ==
    /\ keeper[c] = "sleep"
    /\ \/ stop /\ KeeperMoves(c, "exited")
       \/ KeeperMoves(c, "top")
    /\ UNCHANGED <<stop, done, childVars, lockVars, op>>

Keep(c) == Top(c) \/ Refused(c) \/ Start(c) \/ BarrierWakes(c) \/ Reap(c) \/ Sleep(c)

-----------------------------------------------------------------------------
(* The processes (external) *)

ChildExits(p) ==
    /\ p \in alive
    /\ alive' = alive \ {p}
    /\ UNCHANGED <<stop, done, slot, joined, signalled, forced, starts, keeper, lockVars, op>>

-----------------------------------------------------------------------------
(* replaceChildren and killAll *)

OpMoves(o, pc) == op' = [op EXCEPT ![o].pc = pc]
Supervising == op["killAll"].pc = "idle" /\ ~done

\* replaceChildren: the children the caller means, read before the lifecycle lock.
Request(o) ==
    /\ op[o].pc = "idle"
    /\ o = Watchdog => Supervising
    /\ op' = [op EXCEPT ![o] = [IdleOp EXCEPT !.pc = "queued", !.expected = slot]]
    /\ UNCHANGED <<stop, done, childVars, keeper, lockVars>>

\* The supervise loop sees stop, between two watchdog restarts.
BeginKillAll ==
    /\ stop /\ Supervising
    /\ Watchdog \in Restarts => op[Watchdog].pc = "idle"
    /\ OpMoves("killAll", "queued")
    /\ UNCHANGED <<stop, done, childVars, keeper, lockVars>>

Acquire(o) ==
    /\ op[o].pc = "queued" /\ lifecycle = None
    /\ lifecycle' = o
    /\ OpMoves(o, "check")
    /\ UNCHANGED <<stop, done, childVars, keeper, replacing>>

\* Mutant: the current child is replaced, whichever was meant.
SupersededNever(o) == FALSE

\* Some child the caller meant is not the current one any more.
Superseded(o) == \/ slot["gl"] # op[o].expected["gl"]
                 \/ o \in Rescans /\ slot["ot"] # op[o].expected["ot"]

\* Mutant: only Native's command is captured.
CaptureNative(o) == op' = [op EXCEPT ![o].pc = "stop", ![o].stage = "gl", ![o].captured = slot["gl"]]

Capture(o) == op' = [op EXCEPT ![o].pc = "stop", ![o].stage = "gl", ![o].captured = slot]

\* Under rt.mu: refuse, or raise the barrier and capture the children.
Check(o) ==
    /\ o \in Replacements /\ op[o].pc = "check"
    /\ IF Superseded(o) \/ stop
       THEN op' = [op EXCEPT ![o].pc = "unlock", ![o].clean = FALSE] /\ UNCHANGED replacing
       ELSE replacing' = TRUE /\ Capture(o)
    /\ UNCHANGED <<stop, done, childVars, keeper, lifecycle>>

CaptureAll ==
    /\ op["killAll"].pc = "check"
    /\ Capture("killAll")
    /\ UNCHANGED <<stop, done, childVars, keeper, lockVars>>

Target(o) == op[o].captured[op[o].stage]

\* After a child: the renderer follows Native in a rescan and in the teardown.
AfterChild(o, clean) ==
    op' = [op EXCEPT ![o].clean = @ /\ clean,
                     ![o].pc = IF op[o].stage = "gl" /\ o \notin Restarts THEN "stop"
                               ELSE IF o = "killAll" THEN "unlock" ELSE "open",
                     ![o].stage = "ot"]

\* stopChild: nothing to stop, or joined already.
NothingToStop(o) ==
    /\ op[o].pc = "stop"
    /\ Target(o) = None \/ Target(o) \in joined
    /\ AfterChild(o, TRUE)
    /\ UNCHANGED <<stop, done, childVars, keeper, lockVars>>

Signal(o) ==
    /\ op[o].pc = "stop"
    /\ Target(o) # None /\ Target(o) \notin joined
    /\ signalled' = signalled \cup {Target(o)}
    /\ OpMoves(o, "join")
    /\ UNCHANGED <<stop, done, slot, alive, joined, forced, starts, keeper, lockVars>>

\* Mutant: a forced child counts as a clean exit.
JoinedClean(o) ==
    /\ op[o].pc \in {"join", "forced"} /\ Target(o) \in joined
    /\ AfterChild(o, TRUE)
    /\ UNCHANGED <<stop, done, childVars, keeper, lockVars>>

Joined(o) ==
    /\ op[o].pc \in {"join", "forced"} /\ Target(o) \in joined
    /\ AfterChild(o, op[o].pc = "join")
    /\ UNCHANGED <<stop, done, childVars, keeper, lockVars>>

\* The context's deadline, with one last look at the join channel.
Deadline(o) ==
    /\ op[o].pc = "join" /\ Target(o) \notin joined
    /\ forced' = forced \cup {Target(o)}
    /\ OpMoves(o, "forced")
    /\ UNCHANGED <<stop, done, slot, alive, joined, signalled, starts, keeper, lockVars>>

\* Mutant: the barrier is forgotten, not closed.
ReleasedNever == keeper

\* close(barrier) makes ready every keepAlive that waits on it.
Released == [c \in Child |-> IF keeper[c] = "barrier" THEN "opened" ELSE keeper[c]]

\* The deferred calls: the barrier is opened, then the lifecycle lock is released.
OpenBarrier(o) ==
    /\ op[o].pc = "open"
    /\ replacing' = FALSE
    /\ keeper' = Released
    /\ OpMoves(o, "unlock")
    /\ UNCHANGED <<stop, done, childVars, lifecycle>>

\* Mutant: the refused replacement returns with the lifecycle lock held.
UnlockUnlessRefused(o) ==
    /\ op[o].pc = "unlock"
    /\ lifecycle' = IF op[o].clean THEN None ELSE lifecycle
    /\ op' = [op EXCEPT ![o] = IF o = "killAll" THEN [@ EXCEPT !.pc = "returned"] ELSE IdleOp]
    /\ UNCHANGED <<stop, done, childVars, keeper, replacing>>

Unlock(o) ==
    /\ op[o].pc = "unlock"
    /\ lifecycle' = None
    /\ op' = [op EXCEPT ![o] = IF o = "killAll" THEN [@ EXCEPT !.pc = "returned"] ELSE IdleOp]
    /\ UNCHANGED <<stop, done, childVars, keeper, replacing>>

\* supervise returns: close(rt.done).
Done ==
    /\ op["killAll"].pc = "returned" /\ ~done
    /\ done' = TRUE
    /\ UNCHANGED <<stop, childVars, keeper, lockVars, op>>

\* requestStop, from removeRoom or shutdownAll.
RequestStop ==
    /\ ~stop
    /\ stop' = TRUE
    /\ UNCHANGED <<done, childVars, keeper, lockVars, op>>

Work(o) == Check(o) \/ NothingToStop(o) \/ Signal(o) \/ Joined(o) \/ OpenBarrier(o) \/ Unlock(o)

Next ==
    \/ \E c \in Child : Keep(c) \/ StartFails(c)
    \/ \E p \in alive : ChildExits(p)
    \/ \E o \in Replacements : Request(o)
    \/ \E o \in Ops : Acquire(o) \/ Work(o) \/ Deadline(o)
    \/ BeginKillAll \/ CaptureAll \/ Done \/ RequestStop

\* Goroutines run, deadlines come and SIGKILL ends a process; a child need not obey SIGTERM.
\* SF: Go's mutex hands itself to a waiter that has starved, and the select of supervise picks
\* among its ready cases at random, so a ticker cannot hide the stop channel for ever.
Fairness ==
    /\ \A c \in Child : WF_vars(Keep(c))
    /\ \A o \in Ops : WF_vars(Work(o)) /\ WF_vars(Deadline(o)) /\ SF_vars(Acquire(o))
    /\ WF_vars(\E p \in alive \cap forced : ChildExits(p))
    /\ SF_vars(BeginKillAll) /\ WF_vars(CaptureAll) /\ WF_vars(Done)

Spec == Init /\ [][Next]_vars
FairSpec == Spec /\ Fairness

-----------------------------------------------------------------------------
(* Properties *)

Process == Child \X (Nat \ {0})
SlotType == [Child -> Process \cup {None}]

\* The type of every variable.
TypeOK ==
    /\ stop \in BOOLEAN /\ done \in BOOLEAN
    /\ slot \in SlotType
    /\ alive \subseteq Process /\ joined \subseteq Process
    /\ signalled \subseteq Process /\ forced \subseteq Process
    /\ starts \in [Child -> Nat]
    /\ keeper \in [Child -> {"top", "build", "barrier", "opened", "wait", "sleep", "exited"}]
    /\ lifecycle \in Ops \cup {None} /\ replacing \in BOOLEAN
    /\ op \in [Ops -> [pc : {"idle", "queued", "check", "stop", "join", "forced", "open", "unlock",
                             "returned"},
                       stage : Child, expected : SlotType, captured : SlotType, clean : BOOLEAN]]

\* NoOrphans: once rt.done is closed no child of the room runs, and none is started later.
NoOrphans == done => alive = {}

\* RendererLast: C is asked to exit only when no Native process runs or can be started ("keep C
\* alive through Native's actual process join"; a rescan replaces the pair).
RendererLast ==
    [][\A p \in signalled' \ signalled : p[1] = "ot" => \A q \in alive' : q[1] # "gl"]_vars

\* SuccessorSpared: a replacement never signals a child started after it was requested.
SuccessorSpared ==
    [][\A p \in signalled' \ signalled :
          \A o \in Replacements : lifecycle = o => p = op[o].expected[p[1]]]_vars

\* TruthfulReplacement: a replacement that reports success left every child it was to replace
\* reaped, and forced none of them.
TruthfulReplacement ==
    \A o \in Replacements :
        op[o].pc \in {"open", "unlock"} /\ op[o].clean =>
           \A c \in (IF o \in Rescans THEN Child ELSE {"gl"}) :
              op[o].expected[c] # None => op[o].expected[c] \in joined \ forced

\* Terminates: after stop the teardown completes, whatever replacement was under way.
Terminates == stop ~> done

\* BarrierOpens: a keepAlive that waits for a replacement is let go.
BarrierOpens == \A c \in Child : keeper[c] = "barrier" ~> keeper[c] # "barrier"
=============================================================================
