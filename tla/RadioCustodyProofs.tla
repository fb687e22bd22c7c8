------------------------- MODULE RadioCustodyProofs -------------------------
(* Machine-checked proofs about RadioCustody, for every set of operations    *)
(* and receivers: what its steps, and so every step of an implementation     *)
(* that refines it, can never bring about.                                   *)
EXTENDS RadioCustody, TLAPS

\* The variables keep their types.
THEOREM TypeOKAlways == Spec => []TypeOK
<1> DEFINE Rest == /\ status \in [Ops -> Status] /\ holder \in [Targets -> Ops \cup {None}]
                   /\ owner \in [Targets -> Owner] /\ revoked \subseteq Ops
                   /\ sounding \subseteq Ops
<1>1. Init => TypeOK
  BY DEF Init, TypeOK, Status, Owner
<1>2. TypeOK /\ [Next]_custodyVars => TypeOK'
  <2> SUFFICES ASSUME TypeOK, [Next]_custodyVars PROVE TypeOK'
    OBVIOUS
  <2>1. ready' \in BOOLEAN
    BY DEF TypeOK, Next, Restart, custodyVars
  <2>2. Rest'
    <3>1. Rest
      BY DEF TypeOK
    <3> USE <3>1 DEF Status, Owner
    <3>2. CASE UNCHANGED custodyVars
      BY <3>2 DEF custodyVars
    <3>3. ASSUME NEW o \in Ops, OpenOperation(o) \/ Settle(o) \/ Revoke(o) PROVE Rest'
      BY <3>3 DEF OpenOperation, Settle, Revoke
    <3>4. ASSUME NEW o \in Ops, NEW t \in Targets, Take(o, t) \/ Sound(o, t) \/ Retire(o, t)
           PROVE Rest'
      BY <3>4 DEF Take, Sound, Retire
    <3>5. ASSUME NEW t \in Targets, Quiet(t) \/ Silence(t) \/ Return(t) PROVE Rest'
      BY <3>5 DEF Quiet, Silence, Return
    <3>6. CASE Restart
      <4>1. owner' \in [Targets -> Owner] /\ status' \in [Ops -> Status] /\ holder' = holder /\ sounding' = {}
        BY <3>6 DEF Restart
      <4>2. revoked' \subseteq Ops
        BY <3>6 DEF Restart
      <4> QED BY <4>1, <4>2
    <3> QED BY <3>2, <3>3, <3>4, <3>5, <3>6 DEF Next, Operate
  <2> QED BY <2>1, <2>2 DEF TypeOK
<1> QED BY <1>1, <1>2, PTL DEF Spec

-----------------------------------------------------------------------------
(* One open command *)

\* A command opens only when none is unresolved, and no other step opens one but a restart,
\* after which the radio is ready only if it found none; a revoked command that is still being
\* retired stands beside it.
THEOREM OneOpenAlways == Spec => []OneOpen
<1>1. Init => OneOpen
  BY DEF Init, OneOpen
<1>2. TypeOK /\ OneOpen /\ [Next]_custodyVars => OneOpen'
  <2> SUFFICES ASSUME TypeOK, OneOpen, [Next]_custodyVars,
                      ready', NEW o \in Ops, NEW p \in Ops, status'[o] = "open", status'[p] = "open"
               PROVE  o = p
    BY DEF OneOpen
  <2> USE DEF TypeOK, OneOpen
  <2>1. CASE UNCHANGED custodyVars
    BY <2>1 DEF custodyVars
  <2>2. CASE Restart
    BY <2>2 DEF Restart, Unresolved
  <2>3. CASE ready /\ UNCHANGED ready /\ Operate
    <3> USE <2>3
    <3>1. ASSUME NEW q \in Ops, OpenOperation(q) PROVE o = p
      BY <3>1 DEF OpenOperation, Unresolved
    <3>2. ASSUME NEW q \in Ops, Settle(q) \/ Revoke(q) PROVE o = p
      BY <3>2 DEF Settle, Revoke
    <3>3. ASSUME NEW q \in Ops, NEW t \in Targets, Take(q, t) \/ Sound(q, t) \/ Retire(q, t)
           PROVE o = p
      BY <3>3 DEF Take, Sound, Retire
    <3>4. ASSUME NEW t \in Targets, Quiet(t) \/ Silence(t) \/ Return(t) PROVE o = p
      BY <3>4 DEF Quiet, Silence, Return
    <3> QED BY <3>1, <3>2, <3>3, <3>4 DEF Operate
  <2> QED BY <2>1, <2>2, <2>3 DEF Next
<1> QED BY <1>1, <1>2, TypeOKAlways, PTL DEF Spec

-----------------------------------------------------------------------------
(* Custody *)

\* A receiver without a holder plays Spotify, and only while a source sounds does one play the
\* radio.
Sourced ==
    /\ \A t \in Targets : holder[t] = None => owner[t] = "spotify"
    /\ \A t \in Targets : owner[t] = "radio" => sounding # {}

CustodyInv == TypeOK /\ Sourced /\ RevokedIsSilent /\ OneStream

LEMMA CustodyInit == Init => CustodyInv
BY DEF Init, CustodyInv, TypeOK, Sourced, RevokedIsSilent, OneStream, Status, Owner

\* The steps of a command leave receivers alone, and none of them ends as revoked.
LEMMA CommandStep ==
    ASSUME CustodyInv, NEW o \in Ops, OpenOperation(o) \/ Settle(o) \/ Revoke(o)
    PROVE  (Sourced /\ RevokedIsSilent /\ OneStream)'
<1> USE DEF CustodyInv, TypeOK, OpenOperation, Settle, Revoke
<1>1. Sourced' /\ OneStream'
  BY DEF Sourced, OneStream
<1>2. RevokedIsSilent'
  BY DEF RevokedIsSilent
<1> QED BY <1>1, <1>2

LEMMA TakeStep ==
    ASSUME CustodyInv, NEW o \in Ops, NEW t \in Targets, Take(o, t)
    PROVE  (Sourced /\ RevokedIsSilent /\ OneStream)'
<1> USE DEF CustodyInv, TypeOK, Take
<1>1. \A u \in Targets : holder'[u] = None => holder[u] = None
  OBVIOUS
<1>2. Sourced'
  BY <1>1 DEF Sourced
<1> QED BY <1>2 DEF RevokedIsSilent, OneStream

\* What is retired does not sound.
LEMMA RetireStep ==
    ASSUME CustodyInv, NEW o \in Ops, NEW t \in Targets, Retire(o, t)
    PROVE  (Sourced /\ RevokedIsSilent /\ OneStream)'
<1> USE DEF CustodyInv, TypeOK, Retire
<1>1. Sourced' /\ OneStream'
  BY DEF Sourced, OneStream
<1>2. RevokedIsSilent'
  BY DEF RevokedIsSilent
<1> QED BY <1>1, <1>2

LEMMA SoundStep ==
    ASSUME CustodyInv, NEW o \in Ops, NEW t \in Targets, Sound(o, t)
    PROVE  (Sourced /\ RevokedIsSilent /\ OneStream)'
<1> USE DEF CustodyInv, TypeOK, Sound
<1>1. \A u \in Targets : owner'[u] = IF u = t THEN "radio" ELSE owner[u]
  OBVIOUS
<1>2. \A u \in Targets : owner[u] # "radio"
  BY DEF Sourced
<1>3. Sourced'
  BY <1>1, <1>2 DEF Sourced
<1>4. RevokedIsSilent'
  BY DEF RevokedIsSilent, Unresolved
<1>5. OneStream'
  BY <1>1, <1>2 DEF OneStream
<1> QED BY <1>3, <1>4, <1>5

LEMMA SilenceStep ==
    ASSUME CustodyInv, NEW t \in Targets, Quiet(t) \/ Silence(t)
    PROVE  (Sourced /\ RevokedIsSilent /\ OneStream)'
<1> USE DEF CustodyInv, TypeOK, Quiet, Silence
<1>1. \A u \in Targets : owner'[u] = IF u = t THEN "quiet" ELSE owner[u]
  OBVIOUS
<1>2. holder' = holder /\ status' = status /\ holder[t] # None
  BY DEF Sourced
<1>3. \/ sounding' = sounding
      \/ sounding' = {} /\ \A u \in Targets : owner'[u] # "radio"
  <2>1. CASE Quiet(t)
    BY <2>1
  <2>2. CASE Silence(t)
    <3>1. \A u \in Targets : owner[u] = "radio" => u = t
      BY <2>2 DEF OneStream
    <3> QED BY <1>1, <2>2, <3>1
  <2> QED BY <2>1, <2>2
<1>4. Sourced'
  BY <1>1, <1>2, <1>3 DEF Sourced
<1>5. RevokedIsSilent' /\ OneStream'
  BY <1>1, <1>2, <1>3 DEF RevokedIsSilent, OneStream
<1> QED BY <1>4, <1>5

LEMMA ReturnStep ==
    ASSUME CustodyInv, NEW t \in Targets, Return(t)
    PROVE  (Sourced /\ RevokedIsSilent /\ OneStream)'
<1> USE DEF CustodyInv, TypeOK, Return
<1>1. \A u \in Targets : /\ owner'[u] = IF u = t THEN "spotify" ELSE owner[u]
                         /\ holder'[u] = IF u = t THEN None ELSE holder[u]
  OBVIOUS
<1>2. Sourced'
  BY <1>1 DEF Sourced
<1>3. RevokedIsSilent' /\ OneStream'
  BY <1>1 DEF RevokedIsSilent, OneStream
<1> QED BY <1>2, <1>3

\* After a restart nothing sounds, and the receivers keep their holders.
LEMMA RestartStep ==
    ASSUME CustodyInv, Restart
    PROVE  (Sourced /\ RevokedIsSilent /\ OneStream)'
<1> USE DEF CustodyInv, TypeOK, Restart
<1>1. \A t \in Targets : owner'[t] # "radio" /\ holder'[t] = holder[t] /\ (owner[t] = "spotify" => owner'[t] = "spotify")
  OBVIOUS
<1>2. Sourced'
  BY <1>1 DEF Sourced
<1> QED BY <1>1, <1>2 DEF RevokedIsSilent, OneStream

LEMMA CustodyAlways == Spec => []CustodyInv
<1>1. TypeOK' /\ CustodyInv /\ [Next]_custodyVars => CustodyInv'
  <2> SUFFICES ASSUME TypeOK', CustodyInv, [Next]_custodyVars
               PROVE  (Sourced /\ RevokedIsSilent /\ OneStream)'
    BY DEF CustodyInv
  <2>1. CASE UNCHANGED custodyVars
    BY <2>1 DEF custodyVars, CustodyInv, Sourced, RevokedIsSilent, OneStream
  <2>2. CASE Next
    BY <2>2, CommandStep, TakeStep, RetireStep, SoundStep, SilenceStep, ReturnStep, RestartStep
       DEF Next, Operate
  <2> QED BY <2>1, <2>2
<1> QED BY <1>1, CustodyInit, TypeOKAlways, PTL DEF Spec

\* Whatever implements this custody never sounds the radio on a receiver that
\* Spotify may have back: a sounding receiver is held.
THEOREM SoundIsHeldAlways == Spec => []SoundIsHeld
<1>1. CustodyInv => SoundIsHeld
  BY DEF CustodyInv, Sourced, SoundIsHeld
<1> QED BY <1>1, CustodyAlways, PTL

\* And an operation that an explicit play revoked is silent from then on.
THEOREM RevokedIsSilentAlways == Spec => []RevokedIsSilent
<1>1. CustodyInv => RevokedIsSilent
  BY DEF CustodyInv
<1> QED BY <1>1, CustodyAlways, PTL

\* The one stream never sounds on two receivers.
THEOREM OneStreamAlways == Spec => []OneStream
<1>1. CustodyInv => OneStream
  BY DEF CustodyInv
<1> QED BY <1>1, CustodyAlways, PTL
=============================================================================
