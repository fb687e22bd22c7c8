----------------------------- MODULE RadioPeers -----------------------------
(***************************************************************************)
(* The two processes the radio producer commands: Native (go-librespot     *)
(* with podconnect/patches/radio-handoff-native.patch), which parks the    *)
(* Spotify source of a receiver, and the sender (a second OwnTone with     *)
(* radio-handoff-owntone.patch), which plays the station; and the clients  *)
(* the manager calls them through (radio_producer_native.go and            *)
(* radio_producer_sender.go).                                              *)
(*                                                                         *)
(* A handoff is named by the number of the operation that made it: Native  *)
(* hold o and sender source o were both asked for by operation o.  A peer  *)
(* accepts or refuses a command in one step; what the network does to the  *)
(* answer is decided by the caller (Radio).  Left out: signatures and      *)
(* pairing digests (they always match), the volume level, decoder set-up   *)
(* ("preparing" is part of the preflight call), slow drains (a drain that  *)
(* outlives its call is a drain whose answer is lost), evolved custody     *)
(* and a Native commit that fails after the ticket was verified.           *)
(***************************************************************************)
EXTENDS Naturals, FiniteSets

CONSTANTS
    MaxOps,   \* bound: radio commands admitted
    Targets   \* receivers

ASSUME RadioPeersAssumption == MaxOps \in Nat \ {0} /\ Targets # {}

Op == 1 .. MaxOps
OpOrNone == 0 .. MaxOps   \* 0: the empty handoff id
NoTarget == "none"

VARIABLES
    native,   \* Native's holds, intent revision and completions
    sender,   \* the sender's main source, candidate, drains and challenges
    client    \* the sender client's latest, admitted and holds

HoldPhase == {"none", "prepared", "suspended", "reacquiring", "unknown", "lost",
              "returned", "rejected"}
SourcePhase == {"empty", "prepared", "bound", "starting", "playing", "drained", "cancelled"}

(* radio_sender and radio_sender_candidate: src is the candidate's           *)
(* sender_token, op the operation_id of the last accepted command, hold the  *)
(* Native binding and relinquished says that a drain of it was signed.       *)
Source == [src : OpOrNone, op : OpOrNone, tgt : Targets \cup {NoTarget}, phase : SourcePhase,
           epoch : 0 .. MaxOps, hold : OpOrNone, relinquished : BOOLEAN]
NoSource == [src |-> 0, op |-> 0, tgt |-> NoTarget, phase |-> "empty", epoch |-> 0, hold |-> 0,
             relinquished |-> FALSE]

PeersInit ==
    /\ native = [hold |-> [t \in Targets |-> 0], phase |-> [o \in Op |-> "none"],
                 parked |-> {}, fresh |-> {}, ticket |-> [o \in Op |-> 0]]
    /\ sender = [main |-> NoSource, cand |-> NoSource,
                 drains |-> [t \in Targets |-> NoSource], signed |-> {}, fault |-> FALSE]
    /\ client = [latest |-> 0, admitted |-> {}, holds |-> [t \in Targets |-> 0]]

-----------------------------------------------------------------------------
(* Native.  parked is the set of holds whose receiver lease is suspended in  *)
(* C: their Spotify source is silent.  fresh is the set of operations whose  *)
(* captured intent revision is still the current one.                        *)

Outstanding(h) == native.phase[h] \notin {"none", "returned", "rejected"}

(* radioHandoffActor "reserve": a hold is made only on a free target and     *)
(* under the captured intent; a stale intent is rejected durably.            *)
Reservable(o, t) == native.hold[t] = 0 /\ o \in native.fresh
ReserveStale(o, t) == native.hold[t] = 0 /\ o \notin native.fresh
Held(o, t) == [native EXCEPT !.hold[t] = o, !.phase[o] = "prepared"]
Rejected(o) == [native EXCEPT !.phase[o] = "rejected"]

(* radioHandoffActor "suspend": once, from prepared, under the captured      *)
(* intent.  An unanswered suspend leaves the phase unknown; the receiver may *)
(* be parked or not.                                                         *)
Suspendable(o, h) == native.phase[h] = "prepared" /\ o \in native.fresh
SuspendUnparked(h) == [native EXCEPT !.phase[h] = "suspended"]   \* mutant: C's receipt is not awaited
Suspend(h) == [native EXCEPT !.phase[h] = "suspended", !.parked = @ \cup {h}]
SuspendUncertain(h) == {[native EXCEPT !.phase[h] = "unknown", !.parked = p] :
                           p \in {native.parked, native.parked \cup {h}}}

(* radioReadResult: an uncertain phase is read again from C, unless the      *)
(* owner of the hold is gone.                                                *)
ResultRead(h) ==
    IF native.phase[h] = "unknown"
    THEN [native EXCEPT !.phase[h] = IF h \in native.parked THEN "suspended" ELSE "prepared"]
    ELSE native
ReadsSuspended(h) == \/ native.phase[h] = "suspended"
                     \/ native.phase[h] = "unknown" /\ h \in native.parked

(* A hold that Native returned answers with the receipt of the return, which *)
(* names the drain it verified; a result that settles an operation is either *)
(* that, or a suspension, or the rejection of the request.                   *)
CompletedWith(h, ticket) ==
    native.phase[h] = "returned" /\ ticket # 0 /\ native.ticket[h] = ticket
SettledHold(h) == ReadsSuspended(h) \/ native.phase[h] = "returned"
RejectedRequest(h) == native.phase[h] = "rejected"

(* preemptRadioPolicy: an explicit play asks the manager to retire the radio *)
(* of a held target.                                                         *)
Reacquirable(h) == native.phase[h] \in {"prepared", "suspended"}
Intend(n) == [n EXCEPT !.fresh = {}]
Reacquiring(h) == [native EXCEPT !.phase[h] = "reacquiring"]
Returned(h, t, ticket) ==
    [native EXCEPT !.hold[t] = 0, !.phase[h] = "returned", !.parked = @ \ {h},
                   !.ticket[h] = ticket]
ReacquireFailed(h) == [native EXCEPT !.phase[h] = "unknown"]

(* initRadio: holds survive a restart of Native without their owner.         *)
NativeRestarted ==
    [native EXCEPT !.phase = [h \in Op |-> IF Outstanding(h) THEN "lost" ELSE native.phase[h]],
                   !.fresh = {}]

-----------------------------------------------------------------------------
(* The sender (outputs_radio_sender, radio_sender_candidate_command).        *)

CandidatePresent == sender.cand.phase \notin {"empty", "cancelled"}
SoundsOn(t) == sender.main.tgt = t /\ sender.main.phase \in {"starting", "playing"}

(* Action 0.  While a source plays, a second one is prepared beside it;      *)
(* otherwise the new source replaces a retired main one.  A target whose     *)
(* drain was not relinquished keeps its epoch, and demands its binding.      *)
KeepsEpoch(s, t, binding) == s.tgt = t /\ ~s.relinquished /\ binding = s.hold
Beside == sender.main.phase = "playing" \/ CandidatePresent
CandidateEpoch(t, binding) ==
    IF KeepsEpoch(sender.main, t, binding) THEN [e |-> sender.main.epoch, h |-> sender.main.hold]
    ELSE LET d == sender.drains[t] IN
         IF d.src # 0 /\ KeepsEpoch(d, t, binding) THEN [e |-> d.epoch, h |-> d.hold]
         ELSE [e |-> sender.main.epoch + 1, h |-> 0]
MainEpochSkips(t) ==        \* mutant: two epochs for one preparation
    IF sender.main.phase = "drained" /\ sender.main.tgt = t /\ ~sender.main.relinquished
    THEN [e |-> sender.main.epoch, h |-> sender.main.hold]
    ELSE [e |-> sender.main.epoch + 2, h |-> 0]
MainEpoch(t) ==
    IF sender.main.phase = "drained" /\ sender.main.tgt = t /\ ~sender.main.relinquished
    THEN [e |-> sender.main.epoch, h |-> sender.main.hold]
    ELSE [e |-> sender.main.epoch + 1, h |-> 0]

PreflightAccepted(t, binding) ==
    IF Beside THEN ~CandidatePresent
    ELSE /\ sender.main.phase \in {"empty", "drained", "cancelled"}
         /\ MainEpoch(t).h \in {0, binding}
Preflighted(o, t, binding) ==
    LET keep == IF Beside THEN CandidateEpoch(t, binding) ELSE MainEpoch(t)
        new == [src |-> o, op |-> o, tgt |-> t, phase |-> "prepared", epoch |-> keep.e,
                hold |-> keep.h, relinquished |-> FALSE]
    IN IF Beside THEN [sender EXCEPT !.cand = new]
       ELSE [sender EXCEPT !.main = new, !.cand = NoSource]

(* Actions 1, 2, 6: reserve, start and volume name the source by its token.  *)
BindAccepted(src, h) ==
    \/ sender.cand.src = src /\ sender.cand.phase = "prepared" /\ sender.cand.hold \in {0, h}
    \/ sender.main.src = src /\ sender.main.phase = "prepared"
Bound(src, h) ==
    IF sender.cand.src = src
    THEN [sender EXCEPT !.cand.phase = "bound", !.cand.hold = h]
    ELSE [sender EXCEPT !.main.phase = "bound", !.main.hold = h]
StateOf(src) == IF sender.cand.src = src THEN sender.cand ELSE sender.main
StartAccepted(src, h) ==
    LET s == StateOf(src) IN
    /\ s.src = src /\ s.phase = "bound" /\ s.hold = h
    /\ sender.cand.src = src => sender.main.phase = "drained"
StartedSource(src) ==
    [sender EXCEPT !.main = [StateOf(src) EXCEPT !.phase = "starting"],
                   !.cand = IF sender.cand.src = src THEN NoSource ELSE @]
VolumeAccepted(src) == sender.main.src = src /\ sender.main.phase = "playing"
VolumeSet(o) == [sender EXCEPT !.main.op = o]

(* Action 3 without a challenge stops the main source and archives it, the   *)
(* last drain of its target.  A candidate is never stopped.                  *)
Drain(s, main) == [s EXCEPT !.main = main, !.drains[main.tgt] = main]
StopAccepted(src) ==
    /\ sender.cand.src # src /\ sender.main.src = src
    /\ sender.main.phase \in {"starting", "playing", "drained"}
Stopped(o) == Drain(sender, [sender.main EXCEPT !.phase = "drained", !.op = o])

(* Action 3 with Native's challenge: the drain of the main source is signed, *)
(* and of a target left behind the archived drain; a live candidate of that  *)
(* target is cancelled first.  A candidate itself answers to its own         *)
(* operation id alone, never to a challenge.                                 *)
Archived(src, t) ==
    /\ sender.main.src # src /\ sender.cand.src # src /\ sender.drains[t].src = src
    /\ sender.main.tgt = t => sender.main.phase = "drained"
ChallengeAccepted(src, t, h) ==
    \/ /\ sender.main.src = src /\ sender.cand.src # src
       /\ sender.main.phase \in {"prepared", "bound", "starting", "playing", "drained"}
       /\ sender.main.phase = "prepared" \/ sender.main.hold = h
    \/ Archived(src, t) /\ sender.drains[t].hold = h
Challenged(src, t, h, play) ==
    LET cancelled == IF CandidatePresent /\ sender.cand.tgt = t
                     THEN [sender EXCEPT !.cand.phase = "cancelled"] ELSE sender
        signed == [cancelled EXCEPT !.signed = @ \cup {play}]
    IN IF sender.main.src = src
       THEN Drain(signed, [sender.main EXCEPT !.phase = "drained", !.hold = h,
                                              !.relinquished = TRUE])
       ELSE [signed EXCEPT !.drains[t].relinquished = TRUE]

(* Action 8 and the 15 s preparation deadline: only an unbound source goes.  *)
CancelAccepted(src) == StateOf(src).src = src /\ StateOf(src).phase \in {"prepared", "cancelled"}
CancelledSource(src) ==
    IF sender.cand.src = src THEN [sender EXCEPT !.cand.phase = "cancelled"]
    ELSE [sender EXCEPT !.main.phase = "cancelled"]

(* radio_sender_load: a new sender starts empty only over a journal in which *)
(* every source was drained and relinquished; a journal that it refused once *)
(* is left as it is, and refused by the next one too.                        *)
FullyRetired ==
    /\ ~sender.fault
    /\ \/ sender.main.phase = "empty"
       \/ sender.main.phase = "drained" /\ sender.main.relinquished
    /\ sender.cand.phase = "empty"
    /\ \A t \in Targets : sender.drains[t].src # 0 => sender.drains[t].relinquished
SenderRestarted ==
    [main |-> [NoSource EXCEPT !.epoch = sender.main.epoch], cand |-> NoSource,
     drains |-> [t \in Targets |-> NoSource], signed |-> {},
     fault |-> ~FullyRetired]

-----------------------------------------------------------------------------
(* Results, as the sender client decodes them.                               *)

Observation == [state : {"idle", "playing", "stopped", "unknown", "cancelled", "error"},
                source : {"none", "radio", "unknown"}, target : Targets \cup {"none"},
                src : OpOrNone]
Obs(state, source, target, src) ==
    [state |-> state, source |-> source, target |-> target, src |-> src]
ObsError == Obs("error", "unknown", "none", 0)

(* Action 7: the candidate, the main source or a drain that the operation    *)
(* was the last to command.                                                  *)
SourcesOf(o) == {s \in {sender.cand, sender.main} \cup {sender.drains[t] : t \in Targets} :
                    s.op = o /\ s.phase # "empty"}
FoundSource(o) ==
    IF sender.cand.op = o THEN sender.cand
    ELSE IF sender.main.op = o THEN sender.main ELSE CHOOSE s \in SourcesOf(o) : TRUE
Decoded(s) ==
    CASE s.phase = "playing" -> Obs("playing", "radio", s.tgt, s.src)
      [] s.phase = "drained" -> Obs("stopped", "none", "none", s.src)
      [] s.phase = "cancelled" -> Obs("cancelled", "none", "none", 0)
      [] OTHER -> Obs("unknown", "unknown", "none", s.src)
ResultOf(o) == IF sender.fault \/ SourcesOf(o) = {} THEN ObsError ELSE Decoded(FoundSource(o))
TerminalObs(obs) == obs.state \in {"playing", "stopped"}

(* Only an admitted operation's own terminal result moves latest, forward.   *)
ResultSeen(o) ==
    IF TerminalObs(ResultOf(o)) /\ o \in client.admitted /\ o >= client.latest
    THEN [client EXCEPT !.latest = o] ELSE client

(* Observe: the last command's result, or an idle sender.                    *)
IdleVerified == sender.main.phase \in {"empty", "cancelled"} /\ ~CandidatePresent /\ ~sender.fault
Observed ==
    IF client.latest # 0 THEN ResultOf(client.latest)
    ELSE IF IdleVerified THEN Obs("idle", "none", "none", sender.main.src) ELSE ObsError
=============================================================================
