--------------------------- MODULE CurvyShielding ---------------------------
(***************************************************************************)
(* The direct shield of the Curvy pool: the bridge asks the Safe, through  *)
(* its module, to send one float into the vault as a prepared note.  The   *)
(* call is signed by the node's own key, whose nonces the node's connector *)
(* hands out too without either side seeing the other's.  The note is      *)
(* journalled before anything is sent; a contested nonce is waited out and *)
(* the aggregator asked about the note before the call is signed again.    *)
(*                                                                         *)
(* One transaction can wait at each nonce, and nonces are mined in order.  *)
(* The nonce and the note are both read from the blocks Blokli has seen.   *)
(***************************************************************************)
EXTENDS Integers, Sequences, FiniteSets

CONSTANTS
    NonceRetries,   \* NONCE_RETRIES
    MaxNotes,       \* bound on the floats asked for
    MaxNonce,       \* bound on the transactions of the node's key
    MaxShields,     \* bound on the calls of direct_shield
    MaxEvictions    \* bound on the transactions dropped before they are mined

ASSUME ShieldAssumption ==
    /\ NonceRetries \in Nat \ {0}
    /\ {MaxNotes, MaxNonce, MaxShields, MaxEvictions} \subseteq Nat

VARIABLES
    mined,      \* the key's transactions on chain, by nonce from 1
    mempool,    \* what waits at each nonce: a note, the node's own business, or nothing
    seen,       \* how many of the mined transactions Blokli has seen
    shielded,   \* durable: the notes booked as funding
    inFlight,   \* durable: direct_shield_in_flight
    notes,      \* notes prepared so far
    shield,     \* the call under the chain lock
    shields, evictions,
    overlooked  \* history: notes whose execution was seen after their status was read and before the nonce was

chainSide  == <<mined, mempool, seen, evictions>>
shieldVars == <<chainSide, shielded, inFlight, notes, shield, shields, overlooked>>

PreparedNote  == 1..MaxNotes
Nothing       == 0
OwnBusiness   == MaxNotes + 1
Nonce         == 1..MaxNonce
None          == 0

Off == [at |-> "off", nonce |-> 0, left |-> 0]

ShieldTypeOK ==
    /\ mined \in Seq([tx : PreparedNote \cup {OwnBusiness}, done : BOOLEAN]) /\ Len(mined) <= MaxNonce
    /\ mempool \in [Nonce -> 0..OwnBusiness]
    /\ seen \in 0..Len(mined)
    /\ shielded \subseteq PreparedNote /\ inFlight \in 0..notes
    /\ shield \in [at : {"off", "status", "count", "send", "confirm", "settle", "landed", "observe"},
                   nonce : 0..MaxNonce, left : 0..NonceRetries]

ShieldInit ==
    /\ mined = <<>> /\ mempool = [n \in Nonce |-> Nothing] /\ seen = 0 /\ evictions = 0
    /\ shielded = {} /\ inFlight = None /\ notes = 0
    /\ shield = Off /\ shields = 0 /\ overlooked = {}

-----------------------------------------------------------------------------
(* The chain and the node's own transactions. *)

\* The node's connector sends at a nonce of its own choosing, if nothing waits there.
NodeSends(n) ==
    /\ n > Len(mined) /\ mempool[n] = Nothing
    /\ mempool' = [mempool EXCEPT ![n] = OwnBusiness]
    /\ UNCHANGED <<mined, seen, evictions>>

\* The next nonce is mined; the Safe reports a failed inner call without reverting.
MineNext ==
    /\ Len(mined) < MaxNonce /\ mempool[Len(mined) + 1] # Nothing
    /\ \E done \in BOOLEAN : mined' = Append(mined, [tx |-> mempool[Len(mined) + 1], done |-> done])
    /\ mempool' = [mempool EXCEPT ![Len(mined) + 1] = Nothing]
    /\ UNCHANGED <<seen, evictions>>

Evict(n) ==
    /\ mempool[n] # Nothing /\ evictions < MaxEvictions
    /\ evictions' = evictions + 1
    /\ mempool' = [mempool EXCEPT ![n] = Nothing]
    /\ UNCHANGED <<mined, seen>>

See == seen < Len(mined) /\ seen' = seen + 1 /\ UNCHANGED <<mined, mempool, evictions>>

ChainMoves ==
    /\ (\E n \in Nonce : NodeSends(n) \/ Evict(n)) \/ MineNext \/ See
    /\ UNCHANGED <<shielded, inFlight, notes, shield, shields, overlooked>>

Executions(k) == {i \in 1..Len(mined) : mined[i].tx = k /\ mined[i].done}

\* note_status: whether the aggregator knows the note, as far as Blokli has seen.
NoteKnown(k) == \E i \in Executions(k) : i <= seen

-----------------------------------------------------------------------------
(* direct_shield and submit_reconciling_nonce_conflicts. *)

Goto(place) == shield' = [shield EXCEPT !.at = place]

\* A shield in flight is resumed; only without one is a note prepared, and journalled at once.
DirectShield ==
    /\ shield.at = "off" /\ shields < MaxShields
    /\ shields' = shields + 1
    /\ \/ inFlight # None /\ UNCHANGED <<inFlight, notes>>
       \/ inFlight = None /\ notes < MaxNotes /\ notes' = notes + 1 /\ inFlight' = notes + 1
    /\ Goto("status")
    /\ UNCHANGED <<chainSide, shielded, overlooked>>

\* The call ends in an error and leaves the note journalled, or the process stops.
GiveUp == shield.at # "off" /\ shield' = Off
          /\ UNCHANGED <<chainSide, shielded, inFlight, notes, shields, overlooked>>

BookNote ==
    /\ shielded' = shielded \cup {inFlight} /\ inFlight' = None
    /\ shield' = Off

\* A note the aggregator knows was shielded by an earlier attempt.
CheckStatus ==
    /\ shield.at = "status"
    /\ \/ NoteKnown(inFlight) /\ BookNote
       \/ /\ ~NoteKnown(inFlight)
          /\ shield' = [shield EXCEPT !.at = "count", !.left = NonceRetries]
          /\ UNCHANGED <<shielded, inFlight>>
    /\ UNCHANGED <<chainSide, notes, shields, overlooked>>

\* The latest count, not the pending one.
QueryCount ==
    /\ shield.at = "count" /\ seen < MaxNonce
    /\ shield' = [shield EXCEPT !.at = "send", !.nonce = seen + 1]
    /\ overlooked' = overlooked \cup {k \in {inFlight} : NoteKnown(k) /\ shield.left = NonceRetries}
    /\ UNCHANGED <<chainSide, shielded, inFlight, notes, shields>>

\* Nonce too low, already known, or underpriced: never an outbid.
Contested(n) == n <= Len(mined) \/ mempool[n] # Nothing

SendCall ==
    /\ shield.at = "send"
    /\ \/ Contested(shield.nonce) /\ Goto("settle") /\ UNCHANGED mempool
       \/ /\ ~Contested(shield.nonce)
          /\ mempool' = [mempool EXCEPT ![shield.nonce] = inFlight]
          /\ Goto("confirm")
    /\ UNCHANGED <<mined, seen, evictions, shielded, inFlight, notes, shields, overlooked>>

\* The module call is mined, which does not say that its inner call went through.
Confirm ==
    /\ shield.at = "confirm"
    /\ shield.nonce <= Len(mined) /\ mined[shield.nonce].tx = inFlight
    /\ Goto("observe")
    /\ UNCHANGED <<chainSide, shielded, inFlight, notes, shields, overlooked>>

\* A slip: the note is asked for while its copy may still wait at the nonce.
MinedOrNot(n) == TRUE

MinedBy(n) == seen >= n

SettleNonce == shield.at = "settle" /\ MinedBy(shield.nonce) /\ Goto("landed")
          /\ UNCHANGED <<chainSide, shielded, inFlight, notes, shields, overlooked>>

\* The contested nonce is decided: an earlier copy executed, or the call is signed anew.
CheckLanded ==
    /\ shield.at = "landed"
    /\ \/ NoteKnown(inFlight) /\ Goto("observe")
       \/ /\ ~NoteKnown(inFlight) /\ shield.left > 1
          /\ shield' = [shield EXCEPT !.at = "count", !.left = @ - 1]
       \/ ~NoteKnown(inFlight) /\ shield.left = 1 /\ shield' = Off
    /\ UNCHANGED <<chainSide, shielded, inFlight, notes, shields, overlooked>>

\* observe_direct_shield
Observe ==
    /\ shield.at = "observe" /\ NoteKnown(inFlight)
    /\ BookNote
    /\ UNCHANGED <<chainSide, notes, shields, overlooked>>

ShieldNext ==
    \/ ChainMoves
    \/ DirectShield \/ GiveUp \/ CheckStatus \/ QueryCount \/ SendCall \/ Confirm
    \/ SettleNonce \/ CheckLanded \/ Observe

ShieldSpec == ShieldInit /\ [][ShieldNext]_shieldVars

-----------------------------------------------------------------------------
(* Properties. *)

\* The Safe pays for each note once (StoredDirectShield, "does not shield twice"; module.rs, "Once the nonce
\* is final, a copy that did not land by then never will"): across retries, lost confirmations and restarts
\* a note is executed at most once, every execution is booked or still journalled, and only executed notes
\* are booked.  The exception is an earlier copy that took effect between a call's reading of the note's
\* status and its first reading of the nonce: the fresh nonce hides the conflict that would have shown it.
ShieldedOnce ==
    \A k \in PreparedNote :
        /\ k \notin overlooked => Cardinality(Executions(k)) <= 1
        /\ Executions(k) # {} => k \in shielded \/ k = inFlight
        /\ k \in shielded => Executions(k) # {}
=============================================================================
