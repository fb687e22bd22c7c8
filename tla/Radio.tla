------------------------------- MODULE Radio -------------------------------
(***************************************************************************)
(* The radio of the manager: the coordinator (radio.go, radio_native.go,   *)
(* radio_result.go) over the producer's operations (RadioProducer), with   *)
(* Native's preemption callback (radio_producer_preempt.go), the passive   *)
(* polls of GET /api/radio and GET /api/radio/result, and a restart of the *)
(* container with the gate the next boot must pass                         *)
(* (radio_producer_bootstrap.go).                                          *)
(*                                                                         *)
(* Every start names a new station, so a station is the number of the      *)
(* start that asked for it.  A captured generation is compared for         *)
(* equality only: current is the set of captors (operations, a poll and a  *)
(* play) whose generation is still the coordinator's.                      *)
(***************************************************************************)
EXTENDS RadioProducer

CONSTANTS
    Kinds,       \* commands tried: subset of {"start", "move", "stop", "volume"}
    MaxRestarts  \* bound: restarts of the container

ASSUME RadioAssumption == Kinds \subseteq {"start", "move", "stop", "volume"} /\ MaxRestarts \in Nat

VARIABLES
    coord,     \* radioCoordinator: state, pending, fence, operation
    current,   \* captors of the current Generation
    play,      \* the preemption callback under way
    poll       \* the passive read under way

vars == <<native, sender, client, records, disk, producer, cmd, pc, faults,
          coord, current, play, poll>>
opVars == <<cmd, pc>>
coordVars == <<coord, current>>

-----------------------------------------------------------------------------
(* State. *)

Shown == [state |-> "idle", source |-> "none", target |-> NoTarget, owner |-> 0]
Playing(s) == s.state = "playing" /\ s.source = "radio"
PollCaptor == 0
PlayCaptor == MaxOps + 1
NoCommand == [kind |-> "none", target |-> NoTarget, from |-> NoTarget, playing |-> FALSE,
              old |-> Shown]
NoPlay == [step |-> "idle", id |-> 0, target |-> NoTarget, hold |-> 0, key |-> 0]
NoPoll == [step |-> "idle", mode |-> "refresh", fence |-> 0, last |-> 0, rec |-> NoRecord,
           outcome |-> "none", obs |-> ObsError]

Init ==
    /\ ProducerInit
    /\ cmd = [o \in Op |-> NoCommand]
    /\ pc = [o \in Op |-> <<"idle", "none">>]
    /\ coord = [enabled |-> TRUE, pending |-> FALSE, shown |-> Shown, fence |-> 0, last |-> 0]
    /\ current = {}
    /\ play = NoPlay
    /\ poll = NoPoll

(* applyRadioObservation *)
Applied(obs) == [state |-> obs.state, source |-> obs.source, target |-> obs.target,
                 owner |-> obs.src]

-----------------------------------------------------------------------------
(* execute: admission of the next command.  What is offered may be stale, so *)
(* a start may name any target.                                              *)
NextOp == CHOOSE o \in Op : pc[o][1] = "idle" /\ \A p \in 1 .. o - 1 : pc[p][1] # "idle"
Offered(kind, t) ==
    /\ coord.enabled /\ ~coord.pending /\ coord.shown.state \notin {"preparing", "unknown"}
    /\ kind # "start" => Playing(coord.shown)
    /\ kind = "move" => t # coord.shown.target
    /\ kind \in {"stop", "volume"} => t = coord.shown.target

Execute ==
    \E kind \in Kinds, t \in Targets :
        /\ \E o \in Op : pc[o][1] = "idle"
        /\ Offered(kind, t)
        /\ cmd' = [cmd EXCEPT ![NextOp] = [kind |-> kind, target |-> t, from |-> coord.shown.target,
                                           playing |-> Playing(coord.shown), old |-> coord.shown]]
        /\ pc' = [pc EXCEPT ![NextOp] = IF kind \in {"start", "move"} THEN <<"preflight", "journal">>
                                        ELSE <<"reserve", "check">>]
        /\ coord' = [coord EXCEPT !.pending = TRUE, !.shown.state = "preparing", !.last = NextOp]
        /\ current' = {NextOp}
        /\ UNCHANGED <<peerVars, producerVars, faults, play, poll>>

(* After the preflight the command goes on only if it is still the current   *)
(* one; a superseded one ends without a word.                                *)
StillCurrent(o) ==
    /\ At(o, "reserve", "check")
    /\ IF o \in current /\ coord.pending THEN Goto(o, "reserve", "journal")
       ELSE Goto(o, "done", "superseded")
    /\ UNCHANGED <<peerVars, producerVars, faults, coordVars, cmd, play, poll>>
AdoptFence(o) ==
    /\ At(o, "fence", "set")
    /\ coord' = [coord EXCEPT !.fence = o]
    /\ Proceed(o, "fence")
    /\ UNCHANGED <<peerVars, producerVars, faults, current, cmd, play, poll>>

(* What Finish returned is accepted only if it is what was asked for.        *)
Finished(o) ==
    LET r == records[o] IN
    CASE cmd[o].kind \in {"start", "move"} -> pc[o][2] = "playing"
      [] cmd[o].kind = "stop" -> pc[o][2] = "stopped"
      [] OTHER -> pc[o][2] = "playing" /\ r.sender = cmd[o].old.owner
Result(o) ==
    IF pc[o][2] = "clean" THEN cmd[o].old
    ELSE IF pc[o][2] \notin {"playing", "stopped"} \/ ~Finished(o)
    THEN [cmd[o].old EXCEPT !.state = "unknown", !.source = "unknown"]
    ELSE IF pc[o][2] = "playing"
    THEN [state |-> "playing", source |-> "radio", target |-> cmd[o].target, owner |-> records[o].sender]
    ELSE [state |-> "stopped", source |-> "none", target |-> NoTarget, owner |-> records[o].sender]

Complete(o) ==
    /\ pc[o][1] = "done"
    /\ coord' = IF o \in current /\ pc[o][2] # "superseded"
                THEN [coord EXCEPT !.pending = FALSE, !.shown = Result(o), !.fence = o] ELSE coord
    /\ pc' = [pc EXCEPT ![o] = <<"over", "none">>]
    /\ UNCHANGED <<peerVars, producerVars, faults, current, cmd, play, poll>>

Operation(o) ==
    \/ OperationStep(o) /\ UNCHANGED <<coordVars, play, poll>>
    \/ StillCurrent(o) \/ AdoptFence(o) \/ Complete(o)

-----------------------------------------------------------------------------
(* The sender on its own: a starting source is heard, a prepared one expires.*)
Sounds ==
    /\ sender.main.phase = "starting"
    /\ sender' = [sender EXCEPT !.main.phase = "playing"]
    /\ UNCHANGED <<native, client, producerVars, opVars, faults, coordVars, play, poll>>
Expires ==
    /\ \/ sender.main.phase = "prepared" /\ sender' = [sender EXCEPT !.main.phase = "cancelled"]
       \/ sender.cand.phase = "prepared" /\ sender' = [sender EXCEPT !.cand.phase = "cancelled"]
    /\ UNCHANGED <<native, client, producerVars, opVars, faults, coordVars, play, poll>>

-----------------------------------------------------------------------------
(* Preemption.  An explicit play changes the intent of every capture; on a   *)
(* held target it makes Native ask the manager to retire the radio.          *)
PlayStep(from, to) == play.step = from /\ play' = [play EXCEPT !.step = to]

ExplicitPlay(t) ==
    LET h == native.hold[t] IN
    /\ play.step = "idle" /\ play.id < MaxPlays /\ coord.enabled
    /\ IF h # 0 /\ Reacquirable(h)
       THEN /\ native' = Intend(Reacquiring(h))
            /\ play' = [step |-> "journal", id |-> play.id + 1, target |-> t, hold |-> h, key |-> 0]
            /\ current' = current \cup {PlayCaptor}
       ELSE /\ native' = Intend(native)
            /\ play' = [play EXCEPT !.id = @ + 1]
            /\ UNCHANGED current
    /\ UNCHANGED <<sender, client, producerVars, opVars, faults, coord, poll>>

(* The newest record of the hold is fenced before anything is asked of the   *)
(* sender; a record that is already preempted refuses.                       *)
HoldOf(o) == IF records[o].native # 0 THEN records[o].native ELSE o
Holders(h, t) == {o \in producer.live : Exists(o) /\ HoldOf(o) = h /\ records[o].target = t}
Newest(S) == CHOOSE o \in S : \A p \in S : p <= o

PreemptJournal ==
    LET found == Holders(play.hold, play.target)
        key == Newest(found)
        fenced == [records[key] EXCEPT !.preempted = TRUE, !.play = play.id, !.terminal = FALSE,
                                       !.stage = "preempt-drain-attempted"]
    IN
    /\ play.step = "journal"
    /\ IF found = {} \/ records[key].preempted
       THEN PlayStep("journal", "refused") /\ UNCHANGED <<producerVars, faults>>
       ELSE /\ Write(key, fenced, producer,
                     play' = [play EXCEPT !.key = key,
                              !.step = IF records[key].native = 0 THEN "recover" ELSE "drain"],
                     play' = [play EXCEPT !.key = key, !.step = "refused"])
    /\ UNCHANGED <<peerVars, opVars, coordVars, poll>>

(* The answer to Native's reserve was never recorded: the hold is read from  *)
(* Native.                                                                   *)
PreemptRecover ==
    /\ play.step = "recover"
    /\ \/ Write(play.key, [records[play.key] EXCEPT !.native = play.hold], producer,
                PlayStep("recover", "drain"), PlayStep("recover", "refused"))
       \/ Fault /\ PlayStep("recover", "refused") /\ UNCHANGED producerVars
    /\ UNCHANGED <<peerVars, opVars, coordVars, poll>>

PreemptDrain ==
    LET r == records[play.key]
        src == IF r.sender # 0 THEN r.sender ELSE r.peer
        drained == Challenged(src, play.target, r.native, play.id)
    IN
    /\ play.step = "drain"
    /\ SenderCall(ChallengeAccepted(src, play.target, r.native), drained, client,
                  [client EXCEPT !.holds[play.target] = 0],
                  PlayStep("drain", "record"), PlayStep("drain", "refused"))
    /\ UNCHANGED <<native, producerVars, opVars, coordVars, poll>>

PreemptRecord ==
    LET key == play.key
        kept == producer.retained[play.target]
        retired == [records[key] EXCEPT !.ticket = play.id, !.stage = "preempted",
                                        !.terminal = TRUE, !.outcome = "preempted"]
        forgotten == [producer EXCEPT !.active = IF @ = key THEN 0 ELSE @,
                                      !.retained[play.target] =
                                          IF kept.native = play.hold THEN NotRetained ELSE kept]
    IN
    /\ play.step = "record"
    /\ Write(key, retired, forgotten, PlayStep("record", "observe"), PlayStep("record", "refused"))
    /\ UNCHANGED <<peerVars, opVars, coordVars, poll>>

(* observeNativePreempt *)
PreemptObserve ==
    /\ PlayStep("observe", "commit")
    /\ IF PlayCaptor \in current /\ coord.shown.target = play.target
       THEN /\ coord' = [coord EXCEPT !.pending = FALSE, !.shown.state = "unknown",
                                      !.shown.source = "unknown"]
            /\ current' = {}
       ELSE UNCHANGED coordVars
    /\ UNCHANGED <<peerVars, producerVars, opVars, faults, poll>>

(* Native verifies the ticket and reopens Spotify, or gives up: on a         *)
(* refusal, on a lost answer or when its 8 s are over.                       *)
PreemptEnd ==
    /\ \/ /\ play.step = "commit"
          /\ \/ /\ native.phase[play.hold] = "reacquiring" /\ UNCHANGED faults
                /\ native' = Returned(play.hold, play.target, play.id)
             \/ native.phase[play.hold] = "reacquiring" /\ Fault /\ native' = ReacquireFailed(play.hold)
             \/ native.phase[play.hold] # "reacquiring" /\ UNCHANGED <<native, faults>>
       \/ /\ play.step = "refused" /\ UNCHANGED faults
          /\ native' = IF native.phase[play.hold] = "reacquiring"
                       THEN ReacquireFailed(play.hold) ELSE native
    /\ play' = [NoPlay EXCEPT !.id = play.id]
    /\ current' = current \ {PlayCaptor}
    /\ UNCHANGED <<sender, client, producerVars, opVars, coord, poll>>
NativeTimeout ==
    /\ play.step \notin {"idle", "commit", "refused"} /\ native.phase[play.hold] = "reacquiring"
    /\ Fault
    /\ native' = ReacquireFailed(play.hold)
    /\ UNCHANGED <<sender, client, producerVars, opVars, coordVars, play, poll>>

-----------------------------------------------------------------------------
(* Passive reads: refresh, and result for the last command's owner.          *)
PollStep(from, to) == poll.step = from /\ poll' = [poll EXCEPT !.step = to]
PollOver == poll' = NoPoll
PollUnchanged == UNCHANGED <<opVars, play>>

Poll ==
    /\ poll.step = "idle" /\ coord.enabled /\ ~coord.pending
    /\ \E mode \in {"refresh", "result"} :
        /\ mode = "result" => coord.fence # 0 /\ coord.fence = coord.last
        /\ LET reads == mode = "result" \/ coord.shown.state = "unknown"
               f == coord.fence
           IN /\ reads => f # 0 /\ Exists(f)
              /\ poll' = [NoPoll EXCEPT
                    !.step = IF ~reads THEN "release"
                             ELSE IF records[f].rejection \/ (records[f].native = 0
                                        /\ records[f].stage \in PreflightStage)
                             THEN "cancelled" ELSE "native",
                    !.mode = mode, !.fence = f, !.last = coord.last,
                    !.rec = IF f = 0 THEN NoRecord ELSE records[f]]
              /\ current' = IF mode = "refresh" THEN current \cup {PollCaptor} ELSE current
    /\ UNCHANGED <<peerVars, producerVars, faults, coord>> /\ PollUnchanged

(* completedNativeCustody: Native's receipt of a completed return is kept    *)
(* with the newest record of its hold.                                       *)
Completed ==
    {o \in producer.live :
        LET r == records[o] IN
        /\ r.preempted /\ r.terminal /\ ~r.release
        /\ \A p \in Op : Exists(p) /\ records[p].native = r.native => p <= o
        /\ r.native # 0 /\ CompletedWith(r.native, r.ticket)}
PollRelease ==
    LET kept == [o \in Op |-> IF o \in Completed THEN [records[o] EXCEPT !.release = TRUE]
                              ELSE records[o]]
    IN
    /\ PollStep("release", "observe")
    /\ \/ /\ records' = kept /\ UNCHANGED faults
          /\ disk' = [o \in Op |-> IF o \in Completed THEN kept[o] ELSE disk[o]]
       \/ Completed # {} /\ Fault /\ UNCHANGED <<records, disk>>
    /\ UNCHANGED <<peerVars, producer, coordVars>> /\ PollUnchanged

(* The observation, or the withdrawal of an offer that cannot be verified.   *)
PollObserve ==
    LET obs == Observed
        seen == Applied(obs)
    IN
    /\ poll.step = "observe" /\ PollOver
    /\ client' = IF client.latest = 0 THEN client ELSE ResultSeen(client.latest)
    /\ \/ /\ obs # ObsError /\ UNCHANGED faults
          /\ IF coord.pending \/ PollCaptor \notin current \/ obs.src < coord.shown.owner
                   \/ seen = coord.shown
             THEN UNCHANGED coordVars
             ELSE coord' = [coord EXCEPT !.shown = seen] /\ current' = {}
       \/ /\ \/ obs = ObsError /\ UNCHANGED faults
             \/ obs # ObsError /\ Fault
          /\ IF ~coord.pending /\ PollCaptor \in current /\ coord.shown.source = "radio"
                   /\ coord.shown.state # "unknown"
             THEN coord' = [coord EXCEPT !.shown.state = "unknown"] /\ current' = {}
             ELSE UNCHANGED coordVars
    /\ UNCHANGED <<native, sender, producerVars>> /\ PollUnchanged

(* Reconcile: Native first.  A rejected request joins the path of a          *)
(* candidate that was never reserved; a preempted record needs the exact     *)
(* completion of its own ticket.                                             *)
PollNative ==
    LET f == poll.fence
        r == poll.rec
        h == IF r.native # 0 THEN r.native ELSE f
        now == records[f]
        rejected == r.native = 0 /\ RejectedRequest(h) /\ ~now.preempted
        released == /\ r.preempted /\ CompletedWith(h, r.ticket)
                    /\ now.preempted /\ now.ticket = r.ticket
    IN
    /\ poll.step = "native"
    /\ native' = ResultRead(h)
    /\ \/ /\ rejected
          /\ Write(f, [now EXCEPT !.rejection = TRUE, !.stage = "operation-rejection-observed"],
                   producer, PollStep("native", "cancelled"), PollOver)
       \/ /\ released
          /\ Write(f, [now EXCEPT !.release = TRUE], producer,
                   PollStep("native", "preempted"), PollOver)
       \/ /\ ~r.preempted /\ SettledHold(h)
          /\ PollStep("native", "sender") /\ UNCHANGED <<producerVars, faults>>
       \/ /\ ~rejected /\ ~released /\ ~(~r.preempted /\ SettledHold(h))
          /\ PollOver /\ UNCHANGED <<producerVars, faults>>
    /\ UNCHANGED <<sender, client, coordVars>> /\ PollUnchanged

Learned(outcome, obs) == poll' = [poll EXCEPT !.step = "apply", !.outcome = outcome, !.obs = obs]

(* reconcileRejected: the sender says that the candidate is gone, and an     *)
(* observation of the source shows what plays instead.                       *)
PollCancelled ==
    LET f == poll.fence
        obs == Observed
        stage == IF poll.rec.native = 0 /\ poll.rec.stage \in PreflightStage
                 THEN "preflight-reconciled" ELSE "rejected-reconciled"
    IN
    /\ poll.step = "cancelled"
    /\ IF ResultOf(f).state # "cancelled" \/ obs = ObsError \/ records[f].preempted
       THEN PollOver /\ UNCHANGED <<client, producerVars, faults>>
       ELSE /\ Write(f, [records[f] EXCEPT !.terminal = TRUE, !.outcome = "rejected",
                                           !.playing = Playing(Applied(obs)), !.stage = stage],
                     producer, Learned("rejected", obs), PollOver)
            /\ client' = IF client.latest = 0 THEN client ELSE ResultSeen(client.latest)
    /\ UNCHANGED <<native, sender, coordVars>> /\ PollUnchanged

(* PreemptObservation: the signed drain is still the sender's, and whatever  *)
(* plays now is shown.                                                       *)
PollPreempted ==
    /\ poll.step = "preempted"
    /\ IF poll.rec.ticket \in sender.signed /\ Observed # ObsError
       THEN Learned("preempted", Observed) ELSE PollOver
    /\ client' = IF client.latest = 0 THEN client ELSE ResultSeen(client.latest)
    /\ UNCHANGED <<native, sender, producerVars, faults, coordVars>> /\ PollUnchanged

(* The sender's own result of the operation settles an operation of this     *)
(* life that was not preempted meanwhile.                                    *)
PollSender ==
    LET f == poll.fence IN
    /\ poll.step = "sender"
    /\ client' = ResultSeen(f)
    /\ \/ /\ ResultMatches(f, poll.rec.sender) /\ UNCHANGED faults
          /\ poll' = [poll EXCEPT !.step = "settle", !.outcome = "committed", !.obs = ResultOf(f)]
       \/ ~ResultMatches(f, poll.rec.sender) /\ PollOver /\ UNCHANGED faults
       \/ Fault /\ PollOver
    /\ UNCHANGED <<native, sender, producerVars, coordVars>> /\ PollUnchanged
PollSettle ==
    LET f == poll.fence
        plays == poll.obs.state = "playing"
        prior == poll.rec.prior
        incumbent == IF prior # 0 THEN records[prior].sender ELSE f
        settled == [records[f] EXCEPT !.terminal = TRUE, !.outcome = "committed",
                                      !.playing = plays, !.stage = "reconciled"]
        active == IF plays THEN f
                  ELSE IF producer.active \in {f, incumbent} THEN 0 ELSE producer.active
    IN
    /\ poll.step = "settle"
    /\ IF f \in producer.live /\ ~Fenced(f)
       THEN Write(f, settled, [producer EXCEPT !.active = active], PollStep("settle", "apply"), PollOver)
       ELSE PollStep("settle", "apply") /\ UNCHANGED <<producerVars, faults>>
    /\ UNCHANGED <<peerVars, coordVars>> /\ PollUnchanged

(* validRadioReconciliation, and what refresh shows of it.  result only      *)
(* answers its caller.                                                       *)
ValidReconciliation ==
    LET asked == cmd[poll.last] IN
    /\ poll.obs.state # "unknown"
    /\ poll.outcome = "committed" =>
         CASE asked.kind \in {"start", "move"} ->
                poll.obs.state = "playing" /\ poll.obs.target = asked.target /\ poll.obs.src = poll.last
           [] asked.kind = "stop" -> poll.obs.state = "stopped"
           [] OTHER -> poll.obs.target = asked.target /\ poll.obs.src = asked.old.owner
PollApply ==
    /\ poll.step = "apply" /\ PollOver
    /\ IF /\ poll.mode = "refresh" /\ ValidReconciliation
          /\ ~coord.pending /\ PollCaptor \in current
       THEN coord' = [coord EXCEPT !.shown = Applied(poll.obs)] /\ current' = {}
       ELSE UNCHANGED coordVars
    /\ UNCHANGED <<peerVars, producerVars, faults>> /\ PollUnchanged

PollNext ==
    \/ PollRelease \/ PollObserve \/ PollNative \/ PollCancelled \/ PollPreempted
    \/ PollSender \/ PollSettle \/ PollApply

-----------------------------------------------------------------------------
(* A restart of the container ends every process; the journals survive.  The *)
(* next boot enables the radio only over a settled history, a sender whose   *)
(* own journal is retired, and a receiver that Native offers.  A restart     *)
(* before the first record would find what the first boot found; it is left  *)
(* out, so that MaxRestarts counts those that find something.                *)
Released(o) == \E p \in Op : /\ disk[p].preempted /\ disk[p].terminal /\ disk[p].release
                             /\ disk[p].native = disk[o].native
GateTerminal ==      \* mutant: a terminal record counts as settled, whatever plays
    /\ \A o \in Op : disk[o].stage # "none" => disk[o].terminal
    /\ \E t \in Targets : native.hold[t] = 0
GateReserved ==      \* mutant: a record of a preflight alone is not waited for
    /\ \A o \in Op : disk[o].stage \notin PreflightStage \cup {"none"} =>
           disk[o].terminal /\ (disk[o].playing => Released(o))
    /\ FullyRetired
    /\ \E t \in Targets : native.hold[t] = 0
Gate ==
    /\ \A o \in Op : disk[o].stage # "none" =>
           disk[o].terminal /\ (disk[o].playing => Released(o))
    /\ FullyRetired
    /\ \E t \in Targets : native.hold[t] = 0

Crash ==
    /\ disk # [o \in Op |-> NoRecord]
    /\ faults.restarts < MaxRestarts /\ faults' = [faults EXCEPT !.restarts = @ + 1]
    /\ coord' = [enabled |-> Gate, pending |-> FALSE, shown |-> Shown, fence |-> 0, last |-> 0]
    /\ current' = {}
    /\ records' = disk
    /\ producer' = [active |-> 0, retained |-> [t \in Targets |-> NotRetained], live |-> {}]
    /\ pc' = [o \in Op |-> IF pc[o][1] = "idle" /\ disk[o].stage = "none" THEN pc[o] ELSE <<"over", "none">>]
    /\ native' = NativeRestarted
    /\ sender' = SenderRestarted
    /\ client' = [latest |-> 0, admitted |-> {}, holds |-> [t \in Targets |-> 0]]
    /\ play' = [NoPlay EXCEPT !.id = play.id]
    /\ poll' = NoPoll
    /\ UNCHANGED <<disk, cmd>>

PreemptNext ==
    \/ PreemptJournal \/ PreemptRecover \/ PreemptDrain \/ PreemptRecord \/ PreemptObserve
    \/ PreemptEnd

Next ==
    \/ Execute
    \/ \E o \in Op : Operation(o)
    \/ Sounds \/ Expires
    \/ \E t \in Targets : ExplicitPlay(t)
    \/ PreemptNext \/ NativeTimeout
    \/ Poll \/ PollNext
    \/ Crash

Spec == Init /\ [][Next]_vars

-----------------------------------------------------------------------------
(* Properties. *)

(* The variables stay in the program's types: the hold of a target is an     *)
(* operation that asked for one, a record's stage is one of the code's.      *)
TypeOK ==
    /\ native.hold \in [Targets -> OpOrNone] /\ native.phase \in [Op -> HoldPhase]
    /\ native.parked \subseteq Op /\ native.fresh \subseteq Op
    /\ native.ticket \in [Op -> PlayOrNone]
    /\ sender.main \in Source /\ sender.cand \in Source
    /\ sender.drains \in [Targets -> Source] /\ sender.signed \subseteq PlayOrNone
    /\ client.latest \in OpOrNone /\ client.holds \in [Targets -> OpOrNone]
    /\ records \in [Op -> Record] /\ disk \in [Op -> Record]
    /\ producer.active \in OpOrNone /\ producer.live \subseteq Op
    /\ current \subseteq 0 .. MaxOps + 1
    /\ coord.fence \in OpOrNone /\ coord.last \in OpOrNone

(* Spotify and the radio never sound together: a source of the sender sounds *)
(* on a receiver only while Native keeps that receiver parked under a hold   *)
(* it has not given back, whatever was lost, preempted or restarted.         *)
NeverBoth ==
    \A t \in Targets : SoundsOn(t) =>
        LET h == native.hold[t] IN
        h # 0 /\ h \in native.parked /\ native.phase[h] # "returned"

(* Reserve and PreflightOperation refuse while a record is unresolved, so of *)
(* the records that were not preempted at most one is open, unless a restart *)
(* finds writes in the journal that had been reported as failed: then the    *)
(* gate keeps the radio off.                                                 *)
OneUnresolved ==
    coord.enabled =>
      \A o, p \in Op : Open(o) /\ Open(p) /\ ~records[o].preempted /\ ~records[p].preempted => o = p

(* The gate of a boot reads journals only, and yet every hold that Native    *)
(* still keeps when it opens belongs to a record an explicit play revoked.   *)
GateAccounts ==
    Gate => \A t \in Targets : native.hold[t] # 0 =>
                \E o \in Op : disk[o].preempted /\ disk[o].native = native.hold[t]

(* A preempted record is fenced for good: no later write of the thread that  *)
(* was running, of a reconciliation or of a failed write brings it back, and *)
(* it never becomes the active operation.                                    *)
RevokedForGood ==
    [][/\ \A o \in Op : records[o].preempted => records'[o].preempted
       /\ producer'.active # producer.active /\ producer'.active # 0
              => ~records'[producer'.active].preempted]_vars

(* The radio implements the custody it promises: with its journal, peers,    *)
(* preemptions, polls and restarts it takes only the steps of RadioCustody.  *)
CustodyStatus(o) ==
    LET r == records[o] IN
    IF r.stage = "none" THEN "idle"
    ELSE IF r.preempted THEN (IF r.terminal THEN "revoked" ELSE "revoking")
    ELSE IF r.terminal THEN "settled" ELSE "open"
CustodyOwner(t) ==
    IF SoundsOn(t) THEN "radio"
    ELSE IF native.hold[t] # 0 /\ native.hold[t] \in native.parked THEN "quiet" ELSE "spotify"
Custody == INSTANCE RadioCustody WITH
    Ops <- Op, None <- 0,
    ready <- coord.enabled,
    status <- [o \in Op |-> CustodyStatus(o)],
    holder <- native.hold,
    owner <- [t \in Targets |-> CustodyOwner(t)],
    sounding <- IF sender.main.phase \in {"starting", "playing"} THEN {sender.main.src} ELSE {},
    revoked <- {records[o].native : o \in {p \in Op : records[p].preempted /\ records[p].terminal}}
RefinesCustody == Custody!Spec
=============================================================================
