--------------------------- MODULE RadioProducer ---------------------------
(***************************************************************************)
(* The radio producer (radio_producer.go): the private journal of          *)
(* operations and the steps of a start, move, stop or volume, each of      *)
(* which writes its record before the effect it is about to ask for and    *)
(* again after the answer.  The lock is held over a check and its write,   *)
(* never over a call: between a call and the next write a preemption, a    *)
(* poll or a later operation may run.                                      *)
(*                                                                         *)
(* The record of operation o is records[o] in memory, disk[o] in the       *)
(* journal; its own handoff, native request and prepared source all bear   *)
(* the number o.  pc[o] = <<effect, step>> is where its thread stands.     *)
(* A fault is a journal write that fails (before or after the rename), or  *)
(* a call whose request or whose answer is lost.                           *)
(***************************************************************************)
EXTENDS RadioPeers

CONSTANTS
    MaxFaults,   \* bound: failed writes and lost calls
    MaxPlays     \* bound: explicit Spotify plays

ASSUME RadioProducerAssumption == MaxFaults \in Nat /\ MaxPlays \in Nat

PlayOrNone == 0 .. MaxPlays
Plain == MaxPlays + 1       \* the unsigned receipt of an ordinary stop

VARIABLES
    records,    \* radioProducer.records
    disk,       \* the radio-owner-journal directory
    producer,   \* active, retained and live
    cmd,        \* the command of each operation and the state it was admitted in
    pc,         \* where each operation's thread stands
    faults      \* failed writes and lost calls, and restarts, so far

producerVars == <<records, disk, producer>>
peerVars == <<native, sender, client>>

-----------------------------------------------------------------------------
(* Records and the journal. *)

Stage == {"none", "preflight-attempted", "preflight-prepared", "preflight-rejected",
          "preflight-reconciled", "native-reserve-attempted", "sender-reserve-attempted",
          "reserved", "stop-attempted", "stopped", "pause-suspend-attempted", "suspended",
          "start-attempted", "started", "volume-attempted", "volume-observed",
          "finish-attempted", "terminal", "candidate-cancel-attempted",
          "no-effects-rejected", "operation-rejection-observed", "rejected-reconciled",
          "preempt-drain-attempted", "preempted", "reconciled"}
PreflightStage == {"preflight-attempted", "preflight-prepared", "preflight-rejected",
                   "preflight-reconciled"}

(* prior: the active operation when this one reserved; retained: the hold of *)
(* Request.Retained; peer and sender: the source prepared for it or bound to *)
(* it; rejection and release: whether Native's receipt is kept.              *)
Record ==
    [stage : Stage, terminal : BOOLEAN, preempted : BOOLEAN,
     outcome : {"none", "committed", "rejected", "preempted"}, target : Targets \cup {NoTarget},
     peer : OpOrNone, epoch : 0 .. MaxOps, prior : OpOrNone, retained : OpOrNone,
     native : OpOrNone, sender : OpOrNone, playing : BOOLEAN, drained : BOOLEAN,
     ticket : 0 .. Plain, play : PlayOrNone, rejection : BOOLEAN, release : BOOLEAN]
NoRecord ==
    [stage |-> "none", terminal |-> FALSE, preempted |-> FALSE, outcome |-> "none",
     target |-> NoTarget, peer |-> 0, epoch |-> 0, prior |-> 0, retained |-> 0,
     native |-> 0, sender |-> 0, playing |-> FALSE, drained |-> FALSE, ticket |-> 0,
     play |-> 0, rejection |-> FALSE, release |-> FALSE]

Exists(o) == records[o].stage # "none"
Open(o) == Exists(o) /\ ~records[o].terminal
(* No record of S is unresolved; a record that is fenced belongs to an       *)
(* explicit play for good.                                                   *)
NoneOpenReserved(S) ==   \* mutant: a record of a preflight alone is not waited for
    \A p \in S : Open(p) => records[p].stage \in PreflightStage
NoneOpen(S) == \A p \in S : ~Open(p)
FencedOnceDrained(o) == records[o].preempted /\ records[o].terminal   \* mutant
Fenced(o) == records[o].preempted
NotRetained == [native |-> 0, epoch |-> 0]

ProducerInit ==
    /\ PeersInit
    /\ records = [o \in Op |-> NoRecord]
    /\ disk = [o \in Op |-> NoRecord]
    /\ producer = [active |-> 0, retained |-> [t \in Targets |-> NotRetained], live |-> {}]
    /\ faults = [lost |-> 0, restarts |-> 0]

Fault == faults.lost < MaxFaults /\ faults' = [faults EXCEPT !.lost = @ + 1]

(* storeLocked: the file is replaced, then the map.  A write that fails may  *)
(* have renamed the file already.                                            *)
Stored(o, r) ==
    /\ records' = [records EXCEPT ![o] = r]
    /\ disk' = [disk EXCEPT ![o] = r]
    /\ UNCHANGED faults
StoreFailed(o, r) ==
    /\ Fault
    /\ disk' \in {disk, [disk EXCEPT ![o] = r]}
    /\ UNCHANGED records

-----------------------------------------------------------------------------
(* Threads. *)

At(o, effect, step) == pc[o] = <<effect, step>>
Goto(o, effect, step) == pc' = [pc EXCEPT ![o] = <<effect, step>>]
Unknown(o) == Goto(o, "done", "unknown")   \* an effect whose outcome is not known
Clean(o) == Goto(o, "done", "clean")       \* no receiver effect was asked for

SourceOperation(o) == cmd[o].kind \in {"stop", "volume"}

(* The order of PauseAndRelease, Start, Stop, Volume and Finish in execute.  *)
Following(o, effect) ==
    CASE effect = "fence" ->
           (IF cmd[o].kind = "volume" THEN "volume" ELSE IF cmd[o].playing THEN "stop" ELSE "suspend")
      [] effect = "stop" -> (IF cmd[o].kind = "stop" THEN "finish" ELSE "suspend")
      [] effect = "suspend" -> "start"
      [] OTHER -> "finish"
Proceed(o, effect) == Goto(o, Following(o, effect), "admit")

(* The writes of an operation's thread: r replaces its record and m the      *)
(* producer's memory; onward and failed are where the thread goes.           *)
Write(o, r, m, onward, failed) ==
    \/ Stored(o, r) /\ producer' = m /\ onward
    \/ StoreFailed(o, r) /\ failed /\ UNCHANGED producer

(* A call to the sender: answered, refused or lost on either way.  after is  *)
(* the sender that obeyed; sent and answered are the client that called and  *)
(* the one that had its answer.                                              *)
SenderCall(accepted, after, sent, answered, onward, failed) ==
    \/ accepted /\ sender' = after /\ client' = answered /\ onward /\ UNCHANGED faults
    \/ ~accepted /\ client' = sent /\ failed /\ UNCHANGED <<sender, faults>>
    \/ accepted /\ Fault /\ sender' \in {sender, after} /\ client' = sent /\ failed
NativeCall(accepted, after, onward, failed) ==
    \/ accepted /\ native' = after /\ onward /\ UNCHANGED faults
    \/ ~accepted /\ failed /\ UNCHANGED <<native, faults>>
    \/ accepted /\ Fault /\ native' \in {native, after} /\ failed

-----------------------------------------------------------------------------
(* PreflightOperation. *)

(* Capturing the intent, which may fail, and the first record.               *)
IntentCaptured(o) == [native EXCEPT !.fresh = @ \cup {o}]
PreflightJournal(o) ==
    /\ At(o, "preflight", "journal")
    /\ \/ /\ NoneOpen(Op)
          /\ \/ /\ Write(o, [NoRecord EXCEPT !.stage = "preflight-attempted",
                                             !.target = cmd[o].target],
                         [producer EXCEPT !.live = @ \cup {o}],
                         Goto(o, "preflight", "call"), Clean(o))
                /\ native' = IntentCaptured(o)
             \/ Fault /\ Clean(o) /\ UNCHANGED <<native, producerVars>>
       \/ /\ ~NoneOpen(Op)
          /\ Clean(o) /\ UNCHANGED <<native, producerVars, faults>>
    /\ UNCHANGED <<sender, client, cmd>>

(* The candidate is prepared.  When the worker's evidence cannot be read     *)
(* after the answer, the answer counts as a definite refusal.                *)
PreflightCall(o) ==
    LET t == cmd[o].target
        binding == client.holds[t]
    IN
    /\ At(o, "preflight", "call")
    /\ \/ SenderCall(PreflightAccepted(t, binding), Preflighted(o, t, binding), client, client,
                     Goto(o, "preflight", "record"), Clean(o))
       \/ /\ PreflightAccepted(t, binding) /\ Fault
          /\ sender' = Preflighted(o, t, binding)
          /\ Goto(o, "preflight", "reject") /\ UNCHANGED client
    /\ UNCHANGED <<native, producerVars, cmd>>

StillPreflighting(o) == ~Fenced(o) /\ records[o].stage = "preflight-attempted"

PreflightRecord(o) ==
    /\ At(o, "preflight", "record")
    /\ \/ /\ StillPreflighting(o)
          /\ Write(o, [records[o] EXCEPT !.stage = "preflight-prepared", !.peer = o,
                                         !.epoch = StateOf(o).epoch],
                   producer, Goto(o, "reserve", "check"), Clean(o))
       \/ ~StillPreflighting(o) /\ Clean(o) /\ UNCHANGED <<producerVars, faults>>
    /\ UNCHANGED <<peerVars, cmd>>

PreflightReject(o) ==
    /\ At(o, "preflight", "reject")
    /\ \/ /\ StillPreflighting(o)
          /\ Write(o, [records[o] EXCEPT !.stage = "preflight-rejected", !.terminal = TRUE,
                                         !.outcome = "rejected"],
                   producer, Clean(o), Clean(o))
       \/ ~StillPreflighting(o) /\ Clean(o) /\ UNCHANGED <<producerVars, faults>>
    /\ UNCHANGED <<peerVars, cmd>>

-----------------------------------------------------------------------------
(* Reserve. *)

(* The record Reserve writes first, from the prepared one (a start or move)  *)
(* or from the active operation's (a stop or volume).                        *)
Reservation(o) ==
    LET a == producer.active
        base == IF SourceOperation(o)
                THEN [NoRecord EXCEPT !.target = cmd[o].target, !.peer = records[a].peer,
                                      !.epoch = records[a].epoch]
                ELSE records[o]
        kept == producer.retained[cmd[o].target]
    IN [base EXCEPT !.stage = "native-reserve-attempted", !.prior = a,
                    !.retained = IF kept.native # 0 /\ kept.epoch = base.epoch
                                 THEN kept.native ELSE 0]
MayReserve(o) ==
    /\ NoneOpen(Op \ {o})
    /\ IF SourceOperation(o)
       THEN /\ ~Exists(o) /\ producer.active # 0
            /\ records[producer.active].target = cmd[o].target
       ELSE records[o].stage = "preflight-prepared"

ReserveJournal(o) ==
    /\ At(o, "reserve", "journal")
    /\ \/ /\ MayReserve(o)
          /\ Write(o, Reservation(o), [producer EXCEPT !.live = @ \cup {o}],
                   Goto(o, "native", "call"), Unknown(o))
       \/ ~MayReserve(o) /\ Unknown(o) /\ UNCHANGED <<producerVars, faults>>
    /\ UNCHANGED <<peerVars, cmd>>

(* The hold the operation runs under: the active one for a stop or volume,   *)
(* the retained or the active one of the same target, else a new one.        *)
SameTarget(r) == r.prior # 0 /\ records[r.prior].target = r.target
Reused(o) ==
    LET r == records[o] IN
    IF SourceOperation(o) THEN records[r.prior].native
    ELSE IF r.retained # 0 THEN r.retained
    ELSE IF SameTarget(r) THEN records[r.prior].native ELSE 0

NativeReserve(o) ==
    LET h == Reused(o)
        t == cmd[o].target
        onward == Goto(o, "native", "record")
    IN
    /\ At(o, "native", "call")
    /\ IF SourceOperation(o) THEN onward /\ UNCHANGED <<native, faults>>
       ELSE IF h # 0
       THEN NativeCall(TRUE, ResultRead(h), IF ReadsSuspended(h) THEN onward ELSE Unknown(o),
                       Unknown(o))
       ELSE \/ NativeCall(Reservable(o, t), Held(o, t), onward, Unknown(o))
            \/ /\ ReserveStale(o, t)
               /\ NativeCall(TRUE, Rejected(o), Goto(o, "cancel", "journal"), Unknown(o))
    /\ UNCHANGED <<sender, client, producerVars, cmd>>

NativeRecord(o) ==
    LET h == IF Reused(o) # 0 THEN Reused(o) ELSE o IN
    /\ At(o, "native", "record")
    /\ \/ /\ ~Fenced(o)
          /\ Write(o, [records[o] EXCEPT !.native = h, !.stage = "sender-reserve-attempted"],
                   producer, Goto(o, "sender", "call"), Unknown(o))
       \/ Fenced(o) /\ Unknown(o) /\ UNCHANGED <<producerVars, faults>>
    /\ UNCHANGED <<peerVars, cmd>>

SenderReserve(o) ==
    LET r == records[o] IN
    /\ At(o, "sender", "call")
    /\ IF SourceOperation(o) THEN Goto(o, "sender", "record") /\ UNCHANGED <<sender, client, faults>>
       ELSE SenderCall(BindAccepted(o, r.native), Bound(o, r.native), client,
                       [client EXCEPT !.holds[r.target] = r.native],
                       Goto(o, "sender", "record"), Unknown(o))
    /\ UNCHANGED <<native, producerVars, cmd>>

SenderRecord(o) ==
    LET r == records[o]
        source == IF SourceOperation(o) THEN records[r.prior].sender ELSE o
    IN
    /\ At(o, "sender", "record")
    /\ \/ /\ ~Fenced(o)
          /\ Write(o, [r EXCEPT !.sender = source, !.stage = "reserved"],
                   [producer EXCEPT !.retained[r.target] = [native |-> r.native, epoch |-> r.epoch]],
                   Goto(o, "fence", "set"), Unknown(o))
       \/ Fenced(o) /\ Unknown(o) /\ UNCHANGED <<producerVars, faults>>
    /\ UNCHANGED <<peerVars, cmd>>

(* rejectCandidate: Native refused a stale intent, the candidate is          *)
(* cancelled and the operation ends without a receiver effect.               *)
StillAt(o, stage) == ~Fenced(o) /\ records[o].stage = stage
CancelJournal(o) ==
    /\ At(o, "cancel", "journal")
    /\ \/ /\ StillAt(o, "native-reserve-attempted")
          /\ Write(o, [records[o] EXCEPT !.rejection = TRUE,
                                         !.stage = "candidate-cancel-attempted"],
                   producer, Goto(o, "cancel", "call"), Unknown(o))
       \/ /\ ~StillAt(o, "native-reserve-attempted")
          /\ Unknown(o) /\ UNCHANGED <<producerVars, faults>>
    /\ UNCHANGED <<peerVars, cmd>>
CancelCall(o) ==
    /\ At(o, "cancel", "call")
    /\ SenderCall(CancelAccepted(o), CancelledSource(o), client, client,
                  Goto(o, "cancel", "record"), Unknown(o))
    /\ UNCHANGED <<native, producerVars, cmd>>
CancelRecord(o) ==
    /\ At(o, "cancel", "record")
    /\ \/ /\ StillAt(o, "candidate-cancel-attempted")
          /\ Write(o, [records[o] EXCEPT !.terminal = TRUE, !.outcome = "rejected",
                                         !.stage = "no-effects-rejected"],
                   producer, Clean(o), Unknown(o))
       \/ /\ ~StillAt(o, "candidate-cancel-attempted")
          /\ Unknown(o) /\ UNCHANGED <<producerVars, faults>>
    /\ UNCHANGED <<peerVars, cmd>>

-----------------------------------------------------------------------------
(* The effects: admit writes the attempt, a call asks for it, advance        *)
(* records the answer.                                                       *)

PermittedFrom(effect) ==
    CASE effect = "suspend" -> {"reserved", "stopped"}
      [] effect = "start" -> {"suspended"}
      [] effect = "finish" -> {"started", "stopped", "volume-observed"}
      [] OTHER -> {"reserved"}
Permitted(o, effect) ==
    LET r == records[o] IN ~Fenced(o) /\ ~r.terminal /\ r.stage \in PermittedFrom(effect)
Effect == {"stop", "suspend", "start", "volume", "finish"}
Attempt == [stop |-> "stop-attempted", suspend |-> "pause-suspend-attempted",
            start |-> "start-attempted", volume |-> "volume-attempted",
            finish |-> "finish-attempted"]
ReadsFirst == {"suspend", "start", "finish"}

Admit(o) ==
    \E effect \in Effect :
        /\ At(o, effect, "admit")
        /\ \/ /\ Permitted(o, effect)
              /\ Write(o, [records[o] EXCEPT !.stage = Attempt[effect]], producer,
                       Goto(o, effect, IF effect \in ReadsFirst THEN "read" ELSE "call"),
                       Unknown(o))
           \/ ~Permitted(o, effect) /\ Unknown(o) /\ UNCHANGED <<producerVars, faults>>
        /\ UNCHANGED <<peerVars, cmd>>

Done(effect) == CASE effect = "suspend" -> "suspended" [] effect = "start" -> "started"
                  [] OTHER -> "volume-observed"
Advance(o) ==
    \E effect \in {"suspend", "start", "volume"} :
        /\ At(o, effect, "record")
        /\ \/ /\ StillAt(o, Attempt[effect])
              /\ Write(o, [records[o] EXCEPT !.stage = Done(effect)], producer,
                       Proceed(o, effect), Unknown(o))
           \/ ~StillAt(o, Attempt[effect]) /\ Unknown(o) /\ UNCHANGED <<producerVars, faults>>
        /\ UNCHANGED <<peerVars, cmd>>

(* Stop addresses the captured incumbent's source, on the target it plays.   *)
Incumbent(o) == IF records[o].prior # 0 THEN records[records[o].prior].sender ELSE records[o].sender
ClientSent(o) == [client EXCEPT !.admitted = @ \cup {o}]
ClientAnswered(o) == [ClientSent(o) EXCEPT !.latest = o]

StopCall(o) ==
    LET src == Incumbent(o) IN
    /\ At(o, "stop", "call")
    /\ IF records[src].target = cmd[o].from
       THEN SenderCall(StopAccepted(src), Stopped(o), ClientSent(o), ClientAnswered(o),
                       Goto(o, "stop", "record"), Unknown(o))
       ELSE Unknown(o) /\ UNCHANGED <<sender, client, faults>>
    /\ UNCHANGED <<native, producerVars, cmd>>

(* The receipt is kept with the record of the stopped source first, then     *)
(* with the operation's own: two writes, either of which may fail.           *)
StopRecord(o) ==
    LET own == [records[o] EXCEPT !.ticket = Plain, !.stage = "stopped"]
        src == Incumbent(o)
        of == [records[src] EXCEPT !.drained = TRUE, !.ticket = Plain]
        first == IF records[o].prior # 0 THEN [records EXCEPT ![src] = of] ELSE records
        onDisk == IF records[o].prior # 0 THEN [disk EXCEPT ![src] = of] ELSE disk
    IN
    /\ At(o, "stop", "record")
    /\ \/ /\ StillAt(o, "stop-attempted")
          /\ \/ /\ records' = [first EXCEPT ![o] = own] /\ disk' = [onDisk EXCEPT ![o] = own]
                /\ Proceed(o, "stop") /\ UNCHANGED faults
             \/ /\ Fault /\ records' = first /\ disk' \in {onDisk, [onDisk EXCEPT ![o] = own]}
                /\ Unknown(o)
             \/ Fault /\ records[o].prior # 0 /\ disk' \in {disk, onDisk} /\ Unknown(o) /\ UNCHANGED records
       \/ ~StillAt(o, "stop-attempted") /\ Unknown(o) /\ UNCHANGED <<records, disk, faults>>
    /\ UNCHANGED <<peerVars, producer, cmd>>

(* PauseAndRelease: a reused hold is only read again; under a new one the    *)
(* bound source is verified, then Native pauses and parks the receiver.      *)
SuspendRead(o) ==
    LET r == records[o] IN
    /\ At(o, "suspend", "read")
    /\ IF r.native \in {r.retained, IF SameTarget(r) THEN records[r.prior].native ELSE 0}
       THEN NativeCall(TRUE, ResultRead(r.native),
                       IF ReadsSuspended(r.native) THEN Goto(o, "suspend", "record") ELSE Unknown(o),
                       Unknown(o))
       ELSE /\ \/ /\ StateOf(o).src = o /\ StateOf(o).phase = "bound"
                  /\ Goto(o, "suspend", "call") /\ UNCHANGED faults
               \/ ~(StateOf(o).src = o /\ StateOf(o).phase = "bound") /\ Unknown(o) /\ UNCHANGED faults
            /\ UNCHANGED native
    /\ UNCHANGED <<sender, client, producerVars, cmd>>
SuspendCall(o) ==
    LET h == records[o].native IN
    /\ At(o, "suspend", "call")
    /\ \/ NativeCall(Suspendable(o, h), Suspend(h), Goto(o, "suspend", "record"), Unknown(o))
       \/ Suspendable(o, h) /\ Fault /\ native' \in SuspendUncertain(h) /\ Unknown(o)
    /\ UNCHANGED <<sender, client, producerVars, cmd>>

(* Start reads the suspension once more before it asks for sound.            *)
StartRead(o) ==
    LET h == records[o].native IN
    /\ At(o, "start", "read")
    /\ NativeCall(TRUE, ResultRead(h),
                  IF ReadsSuspended(h) THEN Goto(o, "start", "call") ELSE Unknown(o), Unknown(o))
    /\ UNCHANGED <<sender, client, producerVars, cmd>>
StartCall(o) ==
    LET r == records[o] IN
    /\ At(o, "start", "call")
    /\ SenderCall(StartAccepted(r.sender, r.native), StartedSource(r.sender), ClientSent(o),
                  ClientAnswered(o), Goto(o, "start", "record"), Unknown(o))
    /\ UNCHANGED <<native, producerVars, cmd>>

VolumeCall(o) ==
    LET src == records[o].sender IN
    /\ At(o, "volume", "call")
    /\ IF records[src].target = cmd[o].from
       THEN SenderCall(VolumeAccepted(src), VolumeSet(o), ClientSent(o), ClientAnswered(o),
                       Goto(o, "volume", "record"), Unknown(o))
       ELSE Unknown(o) /\ UNCHANGED <<sender, client, faults>>
    /\ UNCHANGED <<native, producerVars, cmd>>

(* Finish waits while the source starts, then reads the operation's result:  *)
(* it must be final and of the source the operation holds.                   *)
Read(o) == StateOf(records[o].sender)
FinishWait(o) ==
    LET known == Read(o).src = records[o].sender /\ Read(o).op = o IN
    /\ \/ /\ At(o, "finish", "read") /\ UNCHANGED faults
          /\ IF ~known THEN Unknown(o)
             ELSE Goto(o, "finish", IF Read(o).phase = "starting" THEN "wait" ELSE "result")
       \/ /\ At(o, "finish", "wait")
          /\ \/ /\ Read(o).phase # "starting" /\ UNCHANGED faults
                /\ IF known /\ Read(o).phase = "playing" THEN Goto(o, "finish", "result") ELSE Unknown(o)
             \/ UNCHANGED faults /\ Unknown(o)
    /\ UNCHANGED <<peerVars, producerVars, cmd>>
ResultMatches(o, src) == TerminalObs(ResultOf(o)) /\ ResultOf(o).src = src
FinishResult(o) ==
    /\ At(o, "finish", "result")
    /\ \/ /\ client' = ResultSeen(o) /\ UNCHANGED faults
          /\ IF ResultMatches(o, records[o].sender) THEN Goto(o, "finish", ResultOf(o).state)
             ELSE Unknown(o)
       \/ Fault /\ Unknown(o) /\ UNCHANGED client
    /\ UNCHANGED <<native, sender, producerVars, cmd>>
FinishRecord(o) ==
    \E state \in {"playing", "stopped"} :
        LET plays == state = "playing" IN
        /\ At(o, "finish", state)
        /\ \/ /\ ~Fenced(o)
              /\ Write(o, [records[o] EXCEPT !.terminal = TRUE, !.outcome = "committed",
                                             !.stage = "terminal", !.playing = plays],
                       [producer EXCEPT !.active = IF plays THEN o ELSE 0],
                       Goto(o, "done", state), Unknown(o))
           \/ Fenced(o) /\ Unknown(o) /\ UNCHANGED <<producerVars, faults>>
        /\ UNCHANGED <<peerVars, cmd>>

OperationStep(o) ==
    \/ PreflightJournal(o) \/ PreflightCall(o) \/ PreflightRecord(o) \/ PreflightReject(o)
    \/ ReserveJournal(o) \/ NativeReserve(o) \/ NativeRecord(o) \/ SenderReserve(o)
    \/ SenderRecord(o) \/ CancelJournal(o) \/ CancelCall(o) \/ CancelRecord(o)
    \/ Admit(o) \/ Advance(o) \/ StopCall(o) \/ StopRecord(o) \/ SuspendRead(o)
    \/ SuspendCall(o) \/ StartRead(o) \/ StartCall(o) \/ VolumeCall(o)
    \/ FinishWait(o) \/ FinishResult(o) \/ FinishRecord(o)
=============================================================================
