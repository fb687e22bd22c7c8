-------------------------- MODULE ConnectRecovery --------------------------
(***************************************************************************)
(* The bridge's use of the one-shot Connect transfer credit                *)
(* (tryExplicitConnectRecoveryOutcome in connect_recovery.go, with the     *)
(* recovery path of routeAliasOutputWithGuardOutcome in main.go), composed *)
(* with the live view that creates and cancels the credit (GLLive).        *)
(*                                                                         *)
(* The bridge consumes the credit under glLive's lock and then works       *)
(* without it: it reads a start fact and the released marker, primes the   *)
(* output, sends one selection and commits by removing the marker.         *)
(* Attention and the release of the room happen beside it.  OwnTone's      *)
(* answers are external and may be anything.  Rooms do not change.         *)
(***************************************************************************)
EXTENDS GLLive

VARIABLES
    credit,    \* the consumed connectRecoveryIntent, or None
    cpc,       \* where the bridge is in the recovery of credit
    captured,  \* fileExists(releasedPath(room)) as read before the fact
    released,  \* the released marker of the room exists
    attention, \* attentionBlocked: attention owns the route or its state is unknown
    sent,      \* history: selections sent, per transfer key
    overtaken  \* history: the user's intent changed since credit was consumed

recovery == <<credit, cpc, captured, released, attention, sent, overtaken>>
allVars == <<vars, recovery>>

RInit ==
    /\ Init
    /\ credit = None /\ cpc = "idle" /\ captured = FALSE
    /\ released \in BOOLEAN /\ attention = FALSE
    /\ sent = {} /\ overtaken = FALSE

Live(c) == expired < c.at
Playing == st.active /\ ~st.paused /\ ~st.stopped
NowIntent == IntentOf(RunNow, PhaseNow, AliasRevisionNow)

\* startIntentCurrent
StartIntentCurrent(intent) == ~Retired /\ intent = NowIntent /\ Valid(st.bound)

\* The guard closure: unexpired, current, and not owned by attention.
Guard == Live(credit) /\ StartIntentCurrent(credit.transport) /\ ~attention

\* routeIntentCurrent and current() in routeAliasOutputWithGuardOutcome.
RouteCurrent == Guard /\ st.sel = credit.alias /\ AliasRevisionNow = credit.aliasRevision

\* The live state of the credit's source: run, phase, alias and binding it was accepted under.
CreditCurrent(c) ==
    /\ ~Retired /\ c.run = RunNow /\ c.phase = PhaseNow /\ c.aliasRevision = AliasRevisionNow
    /\ c.alias = st.sel /\ c.bound = st.bound

lockedVars == <<st, transportRevision, stopped, nextRequest, wireRevision, expired,
                connectRecoverySeen, manualVars>>
outsideVars == <<engineVars, reader, requests, asked, bridgeVars, historyVars>>

\* consumeConnectRecovery
StaleCredit(c) == ~CreditCurrent(c) \/ ~Live(c)
Unsettled(c) == c.awaitInitial \/ c.awaitResume \/ ~Playing
Consume ==
    LET c == connectRecovery
        stale == StaleCredit(c) \/ (~Unsettled(c) /\ c.transport # None /\ c.transport # NowIntent)
    IN  /\ cpc = "idle" /\ c # None
        /\ ObserveStop
        /\ IF ~stale /\ Unsettled(c)
           THEN UNCHANGED <<connectRecovery, credit, cpc, overtaken>>
           ELSE /\ connectRecovery' = None
                /\ IF stale
                   THEN UNCHANGED <<credit, cpc, overtaken>>
                   ELSE /\ credit' = [c EXCEPT !.transport = NowIntent]
                        /\ cpc' = "consumed"
                        /\ overtaken' = FALSE
        /\ UNCHANGED <<lockedVars, connectRecoveryFence, routeDispatchSeq, outsideVars, captured,
                       released, attention, sent>>

\* Mutant: the program counter is reset and the credit kept.
AdvanceKeepsCredit(ok, next) ==
    /\ ObserveStop
    /\ cpc' = (IF ok THEN next ELSE "idle")
    /\ UNCHANGED credit
    /\ UNCHANGED <<lockedVars, connectRecovery, connectRecoveryFence, outsideVars, released,
                   attention, overtaken>>

\* One step of the bridge that looks at the live state (observing stop) and moves on, or drops
\* the credit for good.
Advance(ok, next) ==
    /\ ObserveStop
    /\ IF ok THEN cpc' = next /\ UNCHANGED credit
             ELSE cpc' = "idle" /\ credit' = None
    /\ UNCHANGED <<lockedVars, connectRecovery, connectRecoveryFence, outsideVars, released,
                   attention, overtaken>>

\* The first guard, and the read of the released marker.
CheckConsumed ==
    /\ cpc = "consumed"
    /\ Advance(Guard, "fact")
    /\ captured' = released
    /\ UNCHANGED <<sent, routeDispatchSeq>>

\* bridgeStartRouteFact answers; guard and marker are compared again.
ReadFact(owned) ==
    /\ cpc = "fact"
    /\ Advance(Guard /\ released = captured, IF owned THEN "commit" ELSE "route")
    /\ UNCHANGED <<captured, sent, routeDispatchSeq>>

\* The route: rooms and outputs are read, then the exact output is primed.
PrimeOutcome == {"accepted", "busy", "rejected"}
Prime(outcome) ==
    /\ cpc = "route"
    /\ Advance(RouteCurrent /\ outcome # "rejected", IF outcome = "busy" THEN "busy" ELSE "primed")
    /\ UNCHANGED <<captured, sent, routeDispatchSeq>>

\* retainConnectRecovery: a typed refusal without effect may keep the same credit.
Retainable(c) ==
    /\ connectRecovery = None /\ c.transport = NowIntent /\ CreditCurrent(c)
    /\ connectRecoverySeen[c.bound.inc] = c.ord /\ Live(c) /\ Playing
Retain ==
    /\ cpc = "busy"
    /\ ObserveStop
    /\ connectRecovery' = IF RouteCurrent /\ Retainable(credit) THEN credit ELSE connectRecovery
    /\ cpc' = "idle" /\ credit' = None
    /\ UNCHANGED <<lockedVars, connectRecoveryFence, routeDispatchSeq, outsideVars, captured,
                   released, attention, sent, overtaken>>

\* The last check before the selection, then (a separate critical section) its admission.
CheckSend ==
    /\ cpc = "primed"
    /\ Advance(RouteCurrent, "send")
    /\ UNCHANGED <<captured, sent, routeDispatchSeq>>

Send ==
    LET admitted == Routable(credit.alias, credit.aliasRevision)
    IN  /\ cpc = "send"
        /\ Advance(admitted, "sent")
        /\ routeDispatchSeq' = IF admitted THEN routeDispatchSeq + 1 ELSE routeDispatchSeq
        /\ sent' = IF admitted THEN sent \cup {<<Key(credit), routeDispatchSeq + 1>>} ELSE sent
        /\ UNCHANGED captured

\* Mutant: a failed selection is retried like a refusal without effect.
ResponseRetries(ok) ==
    /\ cpc = "sent"
    /\ Advance(RouteCurrent, IF ok THEN "commit" ELSE "busy")
    /\ UNCHANGED <<captured, sent, routeDispatchSeq>>

\* OwnTone's answer to the selection and to the start volume after it.
Response(ok) ==
    /\ cpc = "sent"
    /\ Advance(ok /\ RouteCurrent, "commit")
    /\ UNCHANGED <<captured, sent, routeDispatchSeq>>

\* Mutant: commit without the fence of the latest transfer.
CommittableUnfenced ==
    /\ ~attention /\ ~Retired
    /\ credit.transport = NowIntent /\ Live(credit) /\ credit.bound = st.bound /\ Playing
    /\ released = captured

\* commitConnectRecoveryReceipt, under attention's and glLive's locks.
Committable ==
    /\ ~attention /\ ~Retired /\ Key(connectRecoveryFence) = Key(credit)
    /\ credit.transport = NowIntent /\ Live(credit) /\ credit.bound = st.bound /\ Playing
    /\ released = captured
Commit ==
    /\ cpc = "commit"
    /\ ObserveStop
    /\ IF Committable
       THEN released' = FALSE /\ connectRecoveryFence' = None
       ELSE UNCHANGED <<released, connectRecoveryFence>>
    /\ cpc' = "idle" /\ credit' = None
    /\ UNCHANGED <<lockedVars, connectRecovery, routeDispatchSeq, outsideVars, captured, attention,
                   sent, overtaken>>

Recover ==
    \/ Consume \/ CheckConsumed \/ \E owned \in BOOLEAN : ReadFact(owned)
    \/ \E o \in PrimeOutcome : Prime(o)
    \/ Retain \/ CheckSend \/ Send \/ \E ok \in BOOLEAN : Response(ok)
    \/ Commit

\* Attention engages or settles, the released marker appears (external: the manager reads and
\* removes it, nothing in it writes it), five seconds pass.  The first two are looked at only
\* while a credit is held.
AttentionFlips ==
    /\ credit # None
    /\ attention' = ~attention
    /\ UNCHANGED <<vars, credit, cpc, captured, released, sent, overtaken>>
ReleaseRoom ==
    /\ credit # None
    /\ released' = TRUE
    /\ UNCHANGED <<vars, credit, cpc, captured, attention, sent, overtaken>>
Expire ==
    \E c \in {connectRecovery, credit} \ {None} :
        /\ Live(c)
        /\ expired' = c.at
        /\ UNCHANGED <<engineVars, st, fenceVars, transportRevision, routeDispatchSeq, stopped,
                       nextRequest, wireRevision, connectRecovery, connectRecoveryFence,
                       connectRecoverySeen, manualVars, reader, requests, asked, bridgeVars,
                       historyVars, recovery>>

\* A step of the live view.  It overtakes the held credit if it applies an event of the user's:
\* one that would have cancelled the credit, or a newer transfer.
UserIntent ==
    /\ reader.pc = "read" /\ wire # <<>> /\ wire' = Tail(wire)
    /\ LET e == Head(wire)
       IN  /\ SourceCurrent(reader)
           /\ \/ e.kind \in {"paused", "stopped", "inactive", "not_playing", "selected_alias"}
                 /\ ~Superseded(e) /\ e.ok
              \/ e.kind = "connect_transfer" /\ TransferAccepted(e)

LiveStep ==
    /\ Next
    /\ overtaken' = (overtaken \/ UserIntent)
    /\ UNCHANGED <<credit, cpc, captured, released, attention, sent>>

RNext == LiveStep \/ Recover \/ AttentionFlips \/ ReleaseRoom \/ Expire

RSpec == RInit /\ [][RNext]_allVars

-----------------------------------------------------------------------------
(* Properties *)

\* The types of what the bridge keeps.
RTypeOK ==
    /\ TypeOK
    /\ credit \in Maybe(CreditType) /\ (credit = None <=> cpc = "idle")
    /\ cpc \in {"idle", "consumed", "fact", "route", "busy", "primed", "send", "sent", "commit"}
    /\ sent \subseteq (Nat \X Nat) \X Nat

\* OneSelectionPerTransfer: however often a credit is retained and consumed again, its transfer
\* sends at most one output selection.
OneSelectionPerTransfer == \A x, y \in sent : x[1] = y[1] => x = y

\* CommitNotOvertaken: the released marker is removed only on behalf of a transfer that no later
\* pause, stop, room choice or transfer has overtaken, and never while attention owns the route.
CommitNotOvertaken == [][released /\ ~released' => ~overtaken /\ ~attention]_allVars

\* NoRevival: a credit the user has overtaken while the bridge held it does not come back, be it
\* after a cancellation or over a newer transfer (retainConnectRecovery).
NoRevival ==
    [][connectRecovery' \notin {None, connectRecovery} /\ Key(connectRecovery') = Key(credit) =>
          ~overtaken]_allVars
=============================================================================
