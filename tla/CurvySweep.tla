----------------------------- MODULE CurvySweep -----------------------------
(***************************************************************************)
(* Withdrawals of the notes of one allocation by the Exit:                 *)
(* CurvyDepositPool::withdraw_deposit with the strategy's removal of the   *)
(* recovered key behind it, and the SDK bridge that spends the notes chunk *)
(* by chunk.  Two sweepers may overlap, the flush and the replay; they     *)
(* share the bridge's chain lock.  Proofs travel as in CurvyChain, and a   *)
(* relayer that still tracks a request over the same notes answers a new   *)
(* one with it.                                                            *)
(*                                                                         *)
(* Unlike an aggregation a withdrawal is not settled from its journal: a  *)
(* sweep that fails in part begins again, in the same call or the next,    *)
(* with whatever nullifiers the index then shows.  Which error texts count *)
(* as lag is left open, and so is how far the index lags.  The watcher     *)
(* finds a note at any time, also one that was removed before.             *)
(***************************************************************************)
EXTENDS Integers, Sequences, FiniteSets

CONSTANTS
    Sweeper,        \* tasks that sweep
    Owned,          \* the notes of the allocation, records whose ids are below 1
    Blank,          \* those without an amount, which earlier versions stored
    WithdrawalMode, \* the CurvySubmission modes configured: "relayer", "operator"
    InputLimit,     \* MAX_WITHDRAWAL_INPUTS
    MaxPosts,       \* bound on the proofs submitted
    MaxReverts,     \* bound on the reorganisations
    MaxRestarts     \* bound on the restarts

ASSUME SweepAssumption ==
    /\ \A note \in Owned : note.id \in Int /\ note.id < 1
    /\ Blank \subseteq Owned /\ WithdrawalMode \subseteq {"relayer", "operator"}
    /\ InputLimit \in Nat \ {0} /\ {MaxPosts, MaxReverts, MaxRestarts} \subseteq Nat

VARIABLES
    mode,           \* config.submission
    sent,           \* the proofs submitted, each with its inputs
    carried, refused, untracked, included, sealed, undone,    \* what CurvyChain says of them
    stored,         \* OWNED_NOTES_TABLE: the committed notes of the allocation
    intents,        \* SdkState.relay_intents: the proofs journalled
    keyKept,        \* the recovery store holds the key of the allocation
    sweep,          \* where each sweeper stands
    restarts,
    sighted,        \* history: the notes ever stored
    revived,        \* history: notes whose withdrawal was reorganised away
    unread          \* history: notes the sweep that dropped the key had not read

relayVars == <<sent, carried, refused, untracked, included, sealed, undone>>
pastVars  == <<restarts, sighted, revived, unread>>
localVars == <<mode, stored, intents, keyKept, sweep, pastVars>>
sweepVars == <<relayVars, localVars>>

Carrier == INSTANCE CurvyChain
    WITH MaxProofs <- MaxPosts, MaxReorgs <- MaxReverts, made <- sent, held <- carried, failed <- refused, forgotten <- untracked,
         landed <- included, final <- sealed, reorgs <- undone

NoSweep == [at |-> "idle", notes |-> {}, again |-> FALSE, todo |-> {}, proof |-> 0]

SweepTypeOK ==
    /\ mode \in WithdrawalMode
    /\ stored \subseteq sighted /\ sighted \subseteq Owned /\ revived \subseteq Owned /\ unread \subseteq Owned
    /\ intents \subseteq 1..Len(sent)
    /\ sweep \in [Sweeper -> [at : {"idle", "read", "wait", "withdraw", "chunk", "posted", "inclusion", "clean", "drop"},
                              notes : SUBSET Owned, again : BOOLEAN, todo : SUBSET Owned, proof : 0..MaxPosts]]

SweepInit ==
    /\ mode \in WithdrawalMode
    /\ Carrier!ChainInit
    /\ stored \in {{}, Blank} /\ sighted = stored
    /\ intents = {} /\ keyKept = TRUE
    /\ sweep = [s \in Sweeper |-> NoSweep]
    /\ restarts = 0 /\ revived = {} /\ unread = {}

Goes(s, next) == sweep' = [sweep EXCEPT ![s] = next]
Ends(s)       == Goes(s, NoSweep)

\* The chain lock is held from the first chunk to the last.
Locked == \E s \in Sweeper : sweep[s].at \in {"chunk", "posted", "inclusion"}

-----------------------------------------------------------------------------
(* The pool's part: read, reconcile, wait for a commitment, read again. *)

BeginSweep(s) ==
    /\ sweep[s].at = "idle" /\ keyKept
    /\ Goes(s, [NoSweep EXCEPT !.at = "read"])
    /\ UNCHANGED <<relayVars, mode, stored, intents, keyKept, pastVars>>

\* The notes are read, and those whose nullifier the index shows leave the store.
ReadNotes(s) ==
    /\ sweep[s].at = "read"
    /\ \E shown \in SUBSET (stored \cap Carrier!Spent) :
        /\ stored' = stored \ shown
        /\ IF stored' # {} THEN Goes(s, [sweep[s] EXCEPT !.at = "withdraw", !.notes = stored'])
           ELSE IF sweep[s].again THEN Ends(s)
           ELSE Goes(s, [sweep[s] EXCEPT !.at = "wait"])
    /\ UNCHANGED <<relayVars, mode, intents, keyKept, pastVars>>

\* A note is correlated, or the wait ends without one.
AwaitCommitment(s) ==
    /\ sweep[s].at = "wait"
    /\ Goes(s, [sweep[s] EXCEPT !.at = "read", !.again = TRUE])
    /\ UNCHANGED <<relayVars, mode, stored, intents, keyKept, pastVars>>

\* The index or the state cannot be read or written, or the watcher stopped.
SweepErrs(s) ==
    /\ sweep[s].at \in {"read", "wait", "clean"}
    /\ Ends(s)
    /\ UNCHANGED <<relayVars, mode, stored, intents, keyKept, pastVars>>

\* The lock is taken; notes without an amount are not withdrawn.
SelectNotes(s) ==
    /\ sweep[s].at = "withdraw" /\ ~Locked
    /\ Goes(s, [sweep[s] EXCEPT !.at = "chunk", !.todo = sweep[s].notes \ Blank])
    /\ UNCHANGED <<relayVars, mode, stored, intents, keyKept, pastVars>>

-----------------------------------------------------------------------------
(* The bridge's part: each chunk is proved, submitted and awaited. *)

ChunkOf(s) == {n \in sweep[s].todo : Cardinality({m \in sweep[s].todo : m.id < n.id}) < InputLimit}

\* The sweep fails, or waits and tries again with the notes it has read.
Fails(s) == Ends(s) \/ Goes(s, [sweep[s] EXCEPT !.at = "withdraw", !.todo = {}, !.proof = 0])

\* The chain, its tree, the prover or the journal fails.
ProofFails(s) ==
    /\ sweep[s].at = "chunk" /\ sweep[s].todo # {}
    /\ Fails(s)
    /\ UNCHANGED <<relayVars, mode, stored, intents, keyKept, pastVars>>

\* Requests over the same notes that the relayer tracks and has not given up.
Holding(notes) ==
    {k \in (carried \cup Carrier!OnChain) \ untracked : mode = "relayer" /\ sent[k].inputs = notes}

\* The intent is journalled, then the proof sent.  It may arrive or not; over notes that an earlier
\* request holds, it is not taken up.
PostChunk(s) ==
    LET k == Len(sent) + 1 IN
    /\ sweep[s].at = "chunk" /\ sweep[s].todo # {}
    /\ k <= MaxPosts
    /\ sent' = Append(sent, [inputs |-> ChunkOf(s)])
    /\ carried' \in IF Holding(ChunkOf(s)) # {} THEN {carried} ELSE {carried, carried \cup {k}}
    /\ intents' = IF mode = "relayer" THEN intents \cup {k} ELSE intents
    /\ Goes(s, [sweep[s] EXCEPT !.at = "posted", !.proof = k])
    /\ UNCHANGED <<refused, untracked, included, sealed, undone, mode, stored, keyKept, pastVars>>

\* The submission is known: by its answer, by its intent, or by a conflict with the one that holds the notes.
Accepted(s) ==
    /\ sweep[s].at = "posted"
    /\ \E k \in Holding(ChunkOf(s)) \cup ({sweep[s].proof} \cap (carried \cup Carrier!OnChain)) :
          Goes(s, [sweep[s] EXCEPT !.at = "inclusion", !.proof = k])
    /\ UNCHANGED <<relayVars, mode, stored, intents, keyKept, pastVars>>

\* The answer was lost and the relayer does not know the intent, or has forgotten it: it is cleared.
NotTracked(s) ==
    /\ sweep[s].at = "posted" /\ mode = "relayer"
    /\ sweep[s].proof \notin (carried \cup Carrier!OnChain) \ untracked
    /\ intents' = intents \ {sweep[s].proof}
    /\ Fails(s)
    /\ UNCHANGED <<relayVars, mode, stored, keyKept, pastVars>>

\* The answer was lost and the relayer cannot be asked, or the operator's transaction failed or was lost.
Unanswered(s) ==
    /\ sweep[s].at = "posted"
    /\ Fails(s)
    /\ UNCHANGED <<relayVars, mode, stored, intents, keyKept, pastVars>>

\* The chunk is on chain.  The intent cleared is this submission's own, the last one while the lock is held.
ChunkSpent(s) ==
    /\ sweep[s].at = "inclusion" /\ sweep[s].proof \in Carrier!OnChain
    /\ intents' = IF mode = "relayer" THEN intents \ {Len(sent)} ELSE intents
    /\ Goes(s, [sweep[s] EXCEPT !.at = "chunk", !.todo = @ \ ChunkOf(s), !.proof = 0])
    /\ UNCHANGED <<relayVars, mode, stored, keyKept, pastVars>>

\* Failed, forgotten or too late: the intent stays, and nothing is told of the chunks before.
ChunkLost(s) ==
    /\ sweep[s].at = "inclusion"
    /\ Fails(s)
    /\ UNCHANGED <<relayVars, mode, stored, intents, keyKept, pastVars>>

\* A slip: what was spent is told even when a later chunk fails.
SomeSpent(s) == sweep[s].todo # sweep[s].notes \ Blank

AllSpent(s) == sweep[s].todo = {}

ChunksDone(s) ==
    /\ sweep[s].at = "chunk" /\ AllSpent(s)
    /\ Goes(s, [sweep[s] EXCEPT !.at = "clean"])
    /\ UNCHANGED <<relayVars, mode, stored, intents, keyKept, pastVars>>

-----------------------------------------------------------------------------
(* Success: spent notes and notes without an amount leave the store, then the key does. *)

RemoveSpent(s) ==
    /\ sweep[s].at = "clean"
    /\ stored' = stored \ (sweep[s].notes \ sweep[s].todo)
    /\ Goes(s, [sweep[s] EXCEPT !.at = "drop"])
    /\ UNCHANGED <<relayVars, mode, intents, keyKept, pastVars>>

\* The strategy removes the key; a removal that fails is only logged.
DropKey(s) ==
    /\ sweep[s].at = "drop"
    /\ keyKept' \in {FALSE, keyKept}
    /\ unread' = IF keyKept /\ ~keyKept' THEN sighted \ sweep[s].notes ELSE unread
    /\ Ends(s)
    /\ UNCHANGED <<relayVars, mode, stored, intents, restarts, sighted, revived>>

-----------------------------------------------------------------------------
\* The watcher correlates a commitment, for the first time or in a replay.
Find(n) ==
    /\ n \in Owned \ (stored \cup Blank)
    /\ stored' = stored \cup {n}
    /\ sighted' = sighted \cup {n}
    /\ unread' = IF keyKept THEN unread ELSE unread \cup ({n} \ sighted)
    /\ UNCHANGED <<relayVars, mode, intents, keyKept, sweep, restarts, revived>>

\* The process ends and starts again: calls and lock are gone, what is journalled or stored is not.
RestartExit ==
    /\ restarts < MaxRestarts
    /\ restarts' = restarts + 1
    /\ sweep' = [s \in Sweeper |-> NoSweep]
    /\ UNCHANGED <<relayVars, mode, stored, intents, keyKept, sighted, revived, unread>>

\* The chain and the relayer move.  No step here waits for finality.
Travels ==
    /\ \/ \E k \in 1..Len(sent) : Carrier!Land(k) \/ Carrier!Abandon(k) \/ (mode = "relayer" /\ Carrier!Forget(k))
       \/ Carrier!Reorganise
    /\ revived' = revived \cup (Carrier!Spent \ Carrier!Spent')
    /\ UNCHANGED <<mode, stored, intents, keyKept, sweep, restarts, sighted, unread>>

SweepNext ==
    \/ \E s \in Sweeper :
        \/ BeginSweep(s) \/ ReadNotes(s) \/ AwaitCommitment(s) \/ SweepErrs(s)
        \/ SelectNotes(s) \/ ProofFails(s) \/ PostChunk(s) \/ Accepted(s) \/ NotTracked(s) \/ Unanswered(s)
        \/ ChunkSpent(s) \/ ChunkLost(s) \/ ChunksDone(s)
        \/ RemoveSpent(s) \/ DropKey(s)
    \/ \E n \in Owned : Find(n)
    \/ RestartExit
    \/ Travels

SweepSpec == SweepInit /\ [][SweepNext]_sweepVars

-----------------------------------------------------------------------------
\* No funds are left behind by what a sweep says.  A note leaves the store only when it is spent or has no
\* amount, and once the key is dropped every note is, save those found after the sweep that dropped it had
\* read the store.  A withdrawal that may still land after its answer was lost is found by its intent
\* unless the relayer forgot it.  A reorganisation undoes all three: a withdrawal is believed as soon as it
\* is on chain.
SweepsKeepNotes ==
    LET gone == Carrier!Spent \cup Blank \cup revived IN
    /\ sighted \ stored \subseteq gone
    /\ ~keyKept => sighted \subseteq gone \cup unread
    /\ mode = "relayer" => \A k \in carried \ (Carrier!OnChain \cup untracked) :
                              k \in intents \/ sent[k].inputs \subseteq revived
=============================================================================
