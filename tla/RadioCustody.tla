---------------------------- MODULE RadioCustody ----------------------------
(***************************************************************************)
(* What the radio promises about the custody of receivers, whatever its    *)
(* threads, journals and peers do.  At most one operation is unresolved at *)
(* a time.  A receiver is taken from Spotify by the operation that opened, *)
(* becomes quiet, and sounds the radio only from there and only for an     *)
(* operation that is still unresolved; Spotify gets it back only from a    *)
(* revoked holder, and never while the radio sounds.  A revoked operation  *)
(* never sounds again; a receiver that Spotify did not come back for may,  *)
(* under the hold it is still kept by, for a later one.  A restart         *)
(* silences the radio and may find that what was reported as failed took   *)
(* effect; it is ready again only if nothing is unresolved.                *)
(***************************************************************************)
EXTENDS Naturals

CONSTANTS
    Ops,       \* operations
    None,      \* no operation holds the receiver
    Targets    \* receivers

VARIABLES
    ready,     \* the radio accepts commands
    status,    \* of each operation
    holder,    \* the operation whose hold a receiver is under
    owner,     \* what a receiver plays, or is kept quiet for
    sounding,  \* the operation whose station sounds, if one does
    revoked    \* operations whose hold was retired for Spotify

custodyVars == <<ready, status, holder, owner, sounding, revoked>>

Status == {"idle", "open", "settled", "revoking", "revoked"}
Owner == {"spotify", "quiet", "radio"}

Init ==
    /\ ready = TRUE
    /\ status = [o \in Ops |-> "idle"]
    /\ holder = [t \in Targets |-> None]
    /\ owner = [t \in Targets |-> "spotify"]
    /\ sounding = {}
    /\ revoked = {}

Unresolved(o) == status[o] \in {"open", "revoking"}

(* A command is journaled, and later ends with an outcome that is known.     *)
OpenOperation(o) ==
    /\ status[o] = "idle" /\ \A p \in Ops : ~Unresolved(p)
    /\ status' = [status EXCEPT ![o] = "open"]
    /\ UNCHANGED <<holder, owner, sounding, revoked>>
Settle(o) ==
    /\ status[o] = "open"
    /\ status' = [status EXCEPT ![o] = "settled"]
    /\ UNCHANGED <<holder, owner, sounding, revoked>>

(* The one receiver of an operation is taken, silenced, sounds, and is       *)
(* silenced again.                                                           *)
Take(o, t) ==
    /\ holder[t] = None /\ status[o] = "open" /\ \A u \in Targets : holder[u] # o
    /\ holder' = [holder EXCEPT ![t] = o]
    /\ UNCHANGED <<status, owner, sounding, revoked>>
Quiet(t) ==
    /\ owner[t] = "spotify" /\ holder[t] # None /\ holder[t] \notin revoked
    /\ owner' = [owner EXCEPT ![t] = "quiet"]
    /\ UNCHANGED <<status, holder, sounding, revoked>>
Sound(o, t) ==
    /\ owner[t] = "quiet" /\ Unresolved(o) /\ sounding = {}
    /\ owner' = [owner EXCEPT ![t] = "radio"]
    /\ sounding' = {o}
    /\ UNCHANGED <<status, holder, revoked>>
Silence(t) ==
    /\ owner[t] = "radio"
    /\ owner' = [owner EXCEPT ![t] = "quiet"]
    /\ sounding' = {}
    /\ UNCHANGED <<status, holder, revoked>>

(* An explicit play revokes the hold of a silent receiver, through any       *)
(* operation that ran under it, and Spotify returns.                         *)
Revoke(o) ==
    /\ status[o] \in {"open", "settled"}
    /\ status' = [status EXCEPT ![o] = "revoking"]
    /\ UNCHANGED <<holder, owner, sounding, revoked>>
Retire(o, t) ==
    /\ status[o] = "revoking" /\ holder[t] # None /\ owner[t] # "radio" /\ o \notin sounding
    /\ status' = [status EXCEPT ![o] = "revoked"]
    /\ revoked' = revoked \cup {holder[t]}
    /\ UNCHANGED <<holder, owner, sounding>>
Return(t) ==
    /\ holder[t] \in revoked /\ owner[t] # "radio"
    /\ holder' = [holder EXCEPT ![t] = None]
    /\ owner' = [owner EXCEPT ![t] = "spotify"]
    /\ UNCHANGED <<status, sounding, revoked>>

(* A restart.  Each operation stands where it was or one step further.       *)
Found(s) ==
    CASE s = "idle" -> {"idle", "open"}
      [] s = "open" -> {"open", "settled", "revoking"}
      [] s = "settled" -> {"settled", "revoking"}
      [] s = "revoking" -> {"revoking", "revoked"}
      [] s = "revoked" -> {"revoked"}
Restart ==
    /\ status' \in [Ops -> Status] /\ \A o \in Ops : status'[o] \in Found(status[o])
    /\ owner' = [t \in Targets |-> IF owner[t] = "radio" THEN "quiet" ELSE owner[t]]
    /\ sounding' = {}
    /\ revoked \subseteq revoked' /\ revoked' \subseteq revoked \cup ({holder[t] : t \in Targets} \ {None})
    /\ revoked' # revoked => \E o \in Ops : status[o] = "revoking" /\ status'[o] = "revoked"
    /\ ready' \in BOOLEAN /\ (ready' => \A o \in Ops : ~Unresolved(o)')
    /\ UNCHANGED holder

Operate ==
    \/ \E o \in Ops : OpenOperation(o) \/ Settle(o) \/ Revoke(o)
    \/ \E o \in Ops, t \in Targets : Take(o, t) \/ Sound(o, t) \/ Retire(o, t)
    \/ \E t \in Targets : Quiet(t) \/ Silence(t) \/ Return(t)
Next == (ready /\ UNCHANGED ready /\ Operate) \/ Restart

Spec == Init /\ [][Next]_custodyVars

-----------------------------------------------------------------------------
(* What follows from the promise. *)

TypeOK ==
    /\ ready \in BOOLEAN
    /\ status \in [Ops -> Status]
    /\ holder \in [Targets -> Ops \cup {None}]
    /\ owner \in [Targets -> Owner]
    /\ sounding \subseteq Ops
    /\ revoked \subseteq Ops

(* At most one command is open, so no two of them fight over receivers; a    *)
(* radio that finds more after a restart stays off.                          *)
OneOpen == ready => \A o, p \in Ops : status[o] = "open" /\ status[p] = "open" => o = p

(* The radio sounds only on a held receiver: Spotify, which returns where no *)
(* hold is left, never sounds with it.                                       *)
SoundIsHeld == \A t \in Targets : owner[t] = "radio" => holder[t] # None

(* What sounds was asked for and not taken back: an operation that an        *)
(* explicit play revoked is silent from then on.                             *)
RevokedIsSilent == \A o \in sounding : status[o] \notin {"idle", "revoked"}

(* There is one stream: it never sounds on two receivers.                    *)
OneStream == \A t, u \in Targets : owner[t] = "radio" /\ owner[u] = "radio" => t = u
=============================================================================
