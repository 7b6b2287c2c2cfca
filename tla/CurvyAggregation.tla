-------------------------- MODULE CurvyAggregation --------------------------
(***************************************************************************)
(* Allocations of the Curvy pool: CurvyDepositPool::allocate, its retries, *)
(* and below it the SDK bridge that pays a batch chunk by chunk with       *)
(* aggregation proofs.  The bridge writes every attempt to a journal       *)
(* before it sends it, and settles the journal before it spends anything   *)
(* else: an attempt whose outputs the chain knows is booked, one that is   *)
(* refused, forgotten or stalled is replaced by a proof over the same      *)
(* inputs, and the inputs are released only when nothing can land.         *)
(*                                                                         *)
(* Callers share the bridge through its chain lock, held from the first    *)
(* await of an adapter call to its last; a retrying call lets it go while  *)
(* it waits.  Every await on the relayer, the chain or the prover is a     *)
(* step of its own, and the process may end between any two steps.         *)
(* funding, pending, journal and record are durable; one step writes them  *)
(* in one transaction, as save_update does.  An allocation is worth one    *)
(* unit; fees, which only make replacements differ in their change, are    *)
(* left out.                                                               *)
(***************************************************************************)
EXTENDS CurvyChain, FiniteSetsExt

CONSTANTS
    Caller,         \* flush tasks that call the pool
    Deposits,       \* allocations, by PixAddressId
    Batches,        \* batches a caller may ask for, sequences of distinct deposits
    Submissions,    \* the CurvySubmission modes configured: "relayer", "operator"
    ChunkSize,      \* MAX_ALLOCATIONS_PER_PROOF
    MaxAttempts,    \* MAX_RELAY_AGGREGATION_ATTEMPTS
    MaxStalls,      \* MAX_RELAY_TIMEOUTS_WITHOUT_PROGRESS
    Float,          \* units one shield brings in
    MaxFloats,      \* bound on the shields
    MaxCalls,       \* bound on the calls
    MaxCrashes      \* bound on the restarts

Nobody == "nobody"

\* The guard on a destination keeps a deposit from being buffered twice for one flush.
ASSUME AggregationAssumption ==
    /\ Submissions \subseteq {"relayer", "operator"}
    /\ Batches \subseteq Seq(Deposits)
    /\ \A b \in Batches : \A i, j \in 1..Len(b) : b[i] = b[j] => i = j
    /\ Nobody \notin Caller
    /\ {ChunkSize, MaxAttempts, MaxStalls} \subseteq Nat \ {0}
    /\ {Float, MaxFloats, MaxCalls, MaxCrashes} \subseteq Nat

VARIABLES
    submission,     \* config.submission
    funding,        \* SdkState.funding: notes the bridge may spend
    pending,        \* SdkState.pending: proofs whose emitted notes are not committed
    journal,        \* relay_aggregations or operator_aggregations
    record,         \* the allocation table
    call,           \* the pool calls
    holder,         \* the caller that holds the chain lock, if any
    work,           \* where the adapter call under the lock stands
    floats,         \* shields so far
    calls, crashes, \* calls and restarts so far
    booked          \* history: the proofs booked

bridgeVars == <<submission, funding, pending, journal, record, call, holder, work, floats, calls, crashes, booked>>
aggVars    == <<chainVars, bridgeVars>>

Relayed == submission = "relayer"

Note    == [id : (1 - MaxFloats)..MaxProofs, amount : 0..Float]
Attempt == [proof : Proof, attempted : BOOLEAN, request : 0..MaxProofs, rebuild : BOOLEAN, stalls : 0..MaxStalls]
Work    == [at : {"none", "reconcile", "post", "await", "broadcast", "paid", "ready"}, stage : {"fund", "allocate", "chunk"},
            todo : SUBSET Deposits, submitted : BOOLEAN, rebuilt : BOOLEAN, was : BOOLEAN, watched : 0..MaxProofs]
Idle    == [at |-> "none", stage |-> "fund", todo |-> {}, submitted |-> FALSE, rebuilt |-> FALSE, was |-> FALSE,
            watched |-> 0]

Call    == [status : {"idle", "waiting"}, batch : Batches \cup {<<>>}, funded : BOOLEAN,
            verdict : {"none", "ok", "free", "unknown"}, from : {"fund", "allocate", "chunk"}, seen : 0..MaxProofs]
NoCall  == [status |-> "idle", batch |-> <<>>, funded |-> FALSE, verdict |-> "none", from |-> "fund", seen |-> 0]

AggTypeOK ==
    /\ submission \in Submissions
    /\ funding \subseteq Note
    /\ pending \subseteq Proof
    /\ journal \in Seq(Attempt) /\ Len(journal) <= MaxAttempts
    /\ record \in [Deposits -> {"none", "prepared", "completed"}]
    /\ call \in [Caller -> Call]
    /\ holder \in Caller \cup {Nobody}
    /\ work \in Work
    /\ (holder = Nobody) = (work = Idle)
    /\ booked \subseteq Proof

AggInit ==
    /\ ChainInit
    /\ submission \in Submissions
    /\ funding = {} /\ pending = {} /\ journal = <<>>
    /\ record = [d \in Deposits |-> "none"]
    /\ call = [c \in Caller |-> NoCall]
    /\ holder = Nobody /\ work = Idle
    /\ floats = 0 /\ calls = 0 /\ crashes = 0 /\ booked = {}

-----------------------------------------------------------------------------
(* How an adapter call ends. *)

\* The verdict the caller acts on, where it was reached, and the proofs made by then.
EndCall(v) == call' = [call EXCEPT ![holder] = [@ EXCEPT !.status = "idle", !.verdict = v, !.from = work.stage,
                                                        !.seen = Len(made)]]

Leave == holder' = Nobody /\ work' = Idle

\* An error whose text is no pre-submission refusal and no lag: the pool gives the call up, its outcome unknown.
Fault == EndCall("unknown") /\ Leave

\* A lagging tree or an unreachable service: retried until the deadline, with the lock released meanwhile.
Lag ==
    /\ \/ call' = [call EXCEPT ![holder].status = "waiting"]
       \/ EndCall("unknown")
    /\ Leave

\* A slip: no error is taken for one that follows a submission.
TaggedNever == FALSE

\* What allocate_all tags as following a submission: all it reconciles, and a chunk after the first,
\* but nothing ensure_funded does.
Tagged == CASE work.stage = "fund"     -> FALSE
            [] work.stage = "allocate" -> TRUE
            [] work.stage = "chunk"    -> work.submitted \/ journal # <<>>

\* A refusal before submission: moved_no_funds, unless the bridge tagged it.
Refuse == EndCall(IF Tagged THEN "unknown" ELSE "free") /\ Leave

-----------------------------------------------------------------------------
(* Settling the journal. *)

Last    == journal[Len(journal)]
Inputs  == made[Last.proof].inputs
Paid    == made[Last.proof].ids
Attempts == {journal[i].proof : i \in 1..Len(journal)}

Update(i, attempt) == journal' = [journal EXCEPT ![i] = attempt]

\* The attempts whose outputs the chain knows, at most one by the nullifiers.  The index may lag, so
\* one that landed may also be found unknown.
Known   == {i \in 1..Len(journal) : journal[i].proof \in OnChain /\ (Relayed => journal[i].attempted)}
Winner  == CHOOSE i \in Known : \A j \in Known : i <= j

\* The winner may be booked: with competitors around only once its outputs are final.
Settleable(k) == Len(journal) = 1 \/ k \in Finalized

\* finish_*_aggregation(Some(winner))
Book(k) ==
    /\ funding' = (funding \ made[k].inputs) \cup {n \in {made[k].change} : n.amount > 0}
    /\ pending' = pending \cup {k}
    /\ record' = [d \in Deposits |-> IF d \in made[k].ids THEN "completed" ELSE record[d]]
    /\ journal' = <<>>
    /\ booked' = booked \cup {k}

\* finish_*_aggregation(None): the inputs are free again, the allocations forgotten.
Release ==
    /\ record' = [d \in Deposits |-> IF d \in Paid THEN "none" ELSE record[d]]
    /\ journal' = <<>>
    /\ UNCHANGED <<funding, pending, booked>>

books == <<funding, pending, record, booked>>

\* The adapter call goes on where its reconciliation was asked for.
Settled == work' = [work EXCEPT !.at = IF work.stage = "chunk" THEN "paid" ELSE "ready", !.rebuilt = FALSE]
Onward  == Settled /\ UNCHANGED <<call, holder>>

\* Book the winner and go on, or wait for its finality.
Settle(k) ==
    \/ Settleable(k) /\ Book(k) /\ Onward
    \/ Len(journal) > 1 /\ Lag /\ UNCHANGED <<books, journal>>

-----------------------------------------------------------------------------
(* reconcile_relay_aggregation and reconcile_operator_aggregation. *)

Reconciling == holder # Nobody /\ work.at = "reconcile"

NothingJournalled == Reconciling /\ journal = <<>> /\ Onward /\ UNCHANGED <<books, journal, made>>

\* ensure_funded reconciles the relayer's journal only.
OperatorWaits == Reconciling /\ journal # <<>> /\ ~Relayed /\ work.stage = "fund"
                 /\ Onward /\ UNCHANGED <<books, journal, made>>

Reconcilable == Reconciling /\ journal # <<>> /\ (Relayed \/ work.stage # "fund")

WinnerKnown == Reconcilable /\ Known # {} /\ Settle(journal[Winner].proof) /\ UNCHANGED made

\* A relayed journal asks for a replacement when its last attempt is marked; an operator's always does.
Replacing == Reconcilable /\ (Relayed => Last.rebuild)

\* A slip: the bound is met one replacement late.
ExhaustedLate == Len(journal) > MaxAttempts

Exhausted == Len(journal) >= MaxAttempts

TooManyAttempts ==
    /\ Replacing /\ Exhausted
    /\ Fault /\ UNCHANGED <<books, journal, made>>

Value(notes) == MapThenSumSet(LAMBDA n : n.amount, notes)

\* build_pix_aggregation: the number of the new proof is the number of its change note.
Prove(inputs, ids) ==
    /\ Len(made) < MaxProofs
    /\ made' = Append(made, [inputs |-> inputs, ids |-> ids,
                             change |-> [id |-> Len(made) + 1, amount |-> Value(inputs) - Cardinality(ids)]])

Fresh(k) == [proof |-> k, attempted |-> FALSE, request |-> 0, rebuild |-> FALSE, stalls |-> 0]

\* The proof is journalled with its allocations before anything is sent.
Journalled(inputs, ids) ==
    /\ Prove(inputs, ids)
    /\ journal' = Append(journal, Fresh(Len(made) + 1))
    /\ record' = [d \in Deposits |-> IF d \in ids THEN "prepared" ELSE record[d]]
    /\ work' = [work EXCEPT !.at = IF Relayed THEN "reconcile" ELSE "broadcast", !.rebuilt = Len(journal) > 0]
    /\ UNCHANGED <<funding, pending, booked, call, holder>>

\* The prover refuses, or its tree lags.
ProverFails == (Refuse \/ Lag) /\ UNCHANGED <<books, journal, made>>

Replace ==
    /\ Replacing /\ ~Exhausted
    /\ Journalled(Inputs, Paid) \/ ProverFails

-----------------------------------------------------------------------------
(* The relayer's answers. *)

\* The last attempt needs a fresh proof; the loop goes round for it, but once in an invocation.
Rebuild(attempt) ==
    /\ Update(Len(journal), [attempt EXCEPT !.rebuild = TRUE])
    /\ IF work.rebuilt THEN Lag
                       ELSE work' = [work EXCEPT !.at = "reconcile"] /\ UNCHANGED <<call, holder>>

Looking == Reconciling /\ Relayed /\ journal # <<>> /\ ~Last.rebuild

Tracked(k) == k \in (held \cup failed) \ forgotten

\* status and by_intent: the request as last answered, or the attempt's own intent.
Resume(k) ==
    /\ Update(Len(journal), [Last EXCEPT !.request = k])
    /\ work' = [work EXCEPT !.at = "await", !.watched = k]
    /\ UNCHANGED <<call, holder>>

\* A submission the relayer tracks, by request id or else by intent, is resumed.
Asked == IF Last.request # 0 /\ Tracked(Last.request) THEN Last.request ELSE Last.proof

LookupFinds == Looking /\ Last.attempted /\ Tracked(Asked) /\ Resume(Asked) /\ UNCHANGED <<books, made>>

\* Lost requests and refusals permit a replacement; neither proves the proof cannot land.
LookupReplaces ==
    /\ Looking /\ Last.attempted
    /\ \/ Rebuild(Last)
       \/ Lag /\ UNCHANGED journal
    /\ UNCHANGED <<books, made>>

\* The relayer does not hold the intent, or the attempt was never sent: it is marked, then posted.
Send ==
    /\ Looking /\ Last.request = 0
    /\ Last.attempted => ~Tracked(Last.proof)
    /\ Update(Len(journal), [Last EXCEPT !.attempted = TRUE])
    /\ work' = [work EXCEPT !.at = "post", !.was = Last.attempted]
    /\ UNCHANGED <<books, made, call, holder>>

Posting == holder # Nobody /\ work.at = "post"

\* Accepted, with the response received or lost.
PostAccepted ==
    /\ Posting
    /\ \A k \in held \ forgotten : ~Competing(k, Last.proof)
    /\ held' = held \cup {Last.proof} /\ failed' = failed \ {Last.proof} /\ forgotten' = forgotten \ {Last.proof}
    /\ \/ Resume(Last.proof)
       \/ Lag /\ UNCHANGED journal
    /\ UNCHANGED <<books, made, landed, final, reorgs>>

\* 409: the submission that already holds the spend.
PostConflicts ==
    /\ Posting
    /\ \E k \in held \ forgotten : Competing(k, Last.proof) /\ Resume(k)
    /\ UNCHANGED <<books, chainVars>>

PostLost == Posting /\ Lag /\ UNCHANGED <<books, journal, chainVars>>

\* A slip: the earlier copy of a proof that is posted again is forgotten.
AnyRefusal == Len(journal) = 1

\* Only the rejection of the only POST of the only attempt frees the inputs.
FirstRefusal == ~work.was /\ Len(journal) = 1

PostRejected ==
    /\ Posting
    /\ \/ FirstRefusal /\ Release /\ Lag
       \/ /\ ~FirstRefusal /\ work.was /\ Rebuild(Last)
          /\ UNCHANGED books
       \/ /\ ~FirstRefusal /\ ~work.was
          /\ journal' = SubSeq(journal, 1, Len(journal) - 1)
          /\ IF work.rebuilt THEN Lag ELSE work' = [work EXCEPT !.at = "reconcile"] /\ UNCHANGED <<call, holder>>
          /\ UNCHANGED books
    /\ UNCHANGED chainVars

Awaiting == holder # Nobody /\ work.at = "await"

\* Included: the winner is whichever attempt's outputs the chain knows, if it knows any yet.
Included ==
    /\ Awaiting /\ work.watched \in OnChain \ forgotten
    /\ \/ Known # {} /\ Settle(journal[Winner].proof)
       \/ Fault /\ UNCHANGED <<books, journal>>
    /\ UNCHANGED made

\* Failed: nothing can land if this was the only attempt.
SoleAttempt == Len(journal) = 1

Failed ==
    /\ Awaiting /\ work.watched \in failed \ forgotten
    /\ Fault
    /\ \/ SoleAttempt /\ Release
       \/ ~SoleAttempt /\ Update(Len(journal), [Last EXCEPT !.rebuild = TRUE]) /\ UNCHANGED books
    /\ UNCHANGED made

\* The request is lost or refused while it is awaited, or the relayer cannot be reached.
AwaitReplaces ==
    /\ Awaiting
    /\ Rebuild(Last) \/ (Lag /\ UNCHANGED journal)
    /\ UNCHANGED <<books, made>>

\* Nothing terminal within the deadline; enough waits without progress permit a replacement.
TimedOut ==
    /\ Awaiting /\ work.watched \in held \ OnChain
    /\ \E progressed \in BOOLEAN :
          LET stalls == IF progressed THEN 1 ELSE IF Last.stalls < MaxStalls THEN Last.stalls + 1 ELSE MaxStalls
          IN Update(Len(journal), [Last EXCEPT !.stalls = stalls, !.rebuild = stalls >= MaxStalls])
    /\ Fault
    /\ UNCHANGED <<books, made>>

-----------------------------------------------------------------------------
(* The operator's own transaction. *)

Broadcasting == holder # Nobody /\ work.at = "broadcast"

\* Confirmed: the first attempt is booked at once, a later one when it is final.
BroadcastLands ==
    /\ Broadcasting
    /\ \A n \in Inputs : Exists(n) /\ n \notin Spent
    /\ held' = held \cup {Last.proof}
    /\ landed' = Append(landed, Last.proof)
    /\ \/ Len(journal) = 1 /\ Book(Last.proof) /\ Onward
       \/ Len(journal) > 1 /\ Lag /\ UNCHANGED <<books, journal>>
    /\ UNCHANGED <<made, failed, forgotten, final, reorgs>>

\* The SDK cannot tell whether the transaction went out.
BroadcastUncertain ==
    /\ Broadcasting
    /\ held' \in {held, held \cup {Last.proof}}
    /\ Lag
    /\ UNCHANGED <<books, journal, made, failed, forgotten, landed, final, reorgs>>

\* The SDK knows that the attempt did not land: it is dropped, and the last one out frees the inputs.
BroadcastFails ==
    /\ Broadcasting
    /\ \/ SoleAttempt /\ Release
       \/ ~SoleAttempt /\ journal' = SubSeq(journal, 1, Len(journal) - 1) /\ UNCHANGED books
    /\ Lag
    /\ UNCHANGED chainVars

-----------------------------------------------------------------------------
(* Between reconciliations: ensure_funded, allocate_all and its chunks. *)

Ready(stage) == holder # Nobody /\ work.at = "ready" /\ work.stage = stage

\* recover_pending: a relayer commits by itself; an operator's commit may fail, which ends the adapter call.
Commits     == pending' = {}
CommitFails == ~Relayed /\ pending # {} /\ Lag /\ UNCHANGED <<funding, pending, record, booked, journal, made>>

\* shield: an empty pool is shielded anew, which may fail; see CurvyShielding.
Fund ==
    /\ Ready("fund")
    /\ \/ /\ Commits
          /\ \/ funding # {} /\ UNCHANGED <<funding, floats>>
             \/ /\ funding = {} /\ floats < MaxFloats
                /\ funding' = {[id |-> -floats, amount |-> Float]} /\ floats' = floats + 1
          /\ call' = [call EXCEPT ![holder].status = "waiting", ![holder].funded = TRUE]
          /\ Leave
          /\ UNCHANGED <<record, booked, journal, made>>
       \/ funding = {} /\ Lag /\ UNCHANGED <<books, journal, made, floats>>
       \/ CommitFails /\ UNCHANGED floats

\* A slip: a batch that is run again is paid from its start.
EarlierNone == {}

\* allocate_all passes over what is completed; a prepared allocation no attempt names is prepared again.
Earlier == {d \in Deposits : record[d] = "completed"}

BatchOf(c) == {call[c].batch[i] : i \in 1..Len(call[c].batch)}

Classify ==
    /\ Ready("allocate")
    /\ \/ /\ Commits
          /\ \E committed \in {FALSE, ~Relayed /\ pending # {}} :
             work' = [work EXCEPT !.stage = "chunk",
                          !.todo = BatchOf(holder) \ Earlier,
                          !.submitted = (BatchOf(holder) \cap Earlier # {}) \/ committed]
          /\ UNCHANGED <<funding, record, booked, journal, made, call, holder>>
       \/ CommitFails

\* The first of what is left of the batch.
Left  == {i \in 1..Len(call[holder].batch) : call[holder].batch[i] \in work.todo}
Chunk == {call[holder].batch[i] : i \in {j \in Left : Cardinality({l \in Left : l < j}) < ChunkSize}}

\* The largest note if it covers the chunk, the two largest otherwise.
Larger(m, n) == m.amount > n.amount \/ (m.amount = n.amount /\ m.id > n.id)
Largest(k)   == {n \in funding : Cardinality({m \in funding : Larger(m, n)}) < k}
Selected     == IF \E n \in Largest(1) : n.amount >= Cardinality(Chunk) THEN Largest(1) ELSE Largest(2)

Allocate ==
    /\ Ready("chunk") /\ work.todo # {}
    /\ IF Selected = {} \/ Value(Selected) < Cardinality(Chunk)
       THEN Refuse /\ UNCHANGED <<books, journal, made>>
       ELSE Journalled(Selected, Chunk) \/ ProverFails

\* The chunk's proof is booked: whatever fails from here on follows a submission.
NextChunk ==
    /\ holder # Nobody /\ work.at = "paid"
    /\ \/ /\ Commits
          /\ work' = [work EXCEPT !.at = "ready", !.submitted = TRUE,
                                  !.todo = @ \ Chunk]
          /\ UNCHANGED <<funding, record, booked, journal, made, call, holder>>
       \/ CommitFails

Finish == Ready("chunk") /\ work.todo = {} /\ EndCall("ok") /\ Leave /\ UNCHANGED <<books, journal, made>>

-----------------------------------------------------------------------------
(* Calls and restarts. *)

\* A flush hands a batch to the pool; the verdicts of earlier calls are done with.
Request(c, batch) ==
    /\ call[c].status = "idle" /\ calls < MaxCalls
    /\ calls' = calls + 1
    /\ call' = [call EXCEPT ![c] = [NoCall EXCEPT !.status = "waiting", !.batch = batch]]
    /\ UNCHANGED <<submission, books, journal, holder, work, floats, crashes, chainVars>>

\* ensure_funded until it succeeded once, then allocate, each under the chain lock.
Enter(c) ==
    /\ holder = Nobody /\ call[c].status = "waiting"
    /\ holder' = c
    /\ work' = [Idle EXCEPT !.at = "reconcile", !.stage = IF call[c].funded THEN "allocate" ELSE "fund"]
    /\ UNCHANGED <<submission, books, journal, call, floats, calls, crashes, chainVars>>

\* The process ends and starts again with what is on disk.
Crash ==
    /\ crashes < MaxCrashes /\ \E c \in Caller : call[c].status = "waiting"
    /\ crashes' = crashes + 1
    /\ call' = [c \in Caller |-> NoCall]
    /\ Leave
    /\ UNCHANGED <<submission, books, journal, floats, calls, chainVars>>

Settling ==
    /\ \/ NothingJournalled \/ OperatorWaits \/ WinnerKnown \/ TooManyAttempts \/ Replace
       \/ LookupFinds \/ LookupReplaces \/ Send
       \/ Included \/ Failed \/ AwaitReplaces \/ TimedOut
       \/ Classify \/ Allocate \/ NextChunk \/ Finish
    /\ UNCHANGED <<held, failed, forgotten, landed, final, reorgs, floats>>

Sending ==
    /\ PostAccepted \/ PostConflicts \/ PostLost \/ PostRejected
       \/ BroadcastLands \/ BroadcastUncertain \/ BroadcastFails
    /\ UNCHANGED floats

AggNext ==
    \/ \E c \in Caller : (\E b \in Batches : Request(c, b)) \/ Enter(c)
    \/ (Settling \/ Sending) /\ UNCHANGED <<submission, calls, crashes>>
    \/ Fund /\ UNCHANGED <<submission, calls, crashes, held, failed, forgotten, landed, final, reorgs>>
    \/ Crash
    \/ ChainStep /\ UNCHANGED bridgeVars

AggSpec == AggInit /\ [][AggNext]_aggVars

-----------------------------------------------------------------------------
(* Properties. *)

\* What the bridge believes never parts with what the chain may still do (finish_relay_aggregation,
\* finish_operator_aggregation): a proof on chain is booked or still journalled, a proof that competes
\* with a booked one can no longer land, and a proof that may land and is not booked is still journalled
\* unless a final competitor rules it out.
BooksFollowChain ==
    /\ OnChain \subseteq booked \cup Attempts
    /\ \A j \in booked, k \in held \cup OnChain : Competing(j, k) => j \in Finalized
    /\ \A k \in held \ (booked \cup Attempts) : \E j \in Finalized : Competing(j, k)

\* The verdict a flush acts on is true (CurvyDepositPoolError::moved_no_funds, tag_after_submission): a call
\* that succeeded paid its whole batch, and when one is taken to have moved no funds, no proof made before
\* for any of its deposits is on its way or on chain. The exception is a refusal met in ensure_funded, whose
\* reconciliation shield() does not tag.
VerdictsTrue ==
    \A c \in Caller :
        /\ call[c].verdict = "ok" => \A d \in BatchOf(c) : record[d] = "completed"
        /\ call[c].verdict = "free" /\ call[c].from # "fund" =>
              \A k \in 1..call[c].seen : made[k].ids \cap BatchOf(c) # {} => ~Live(k)

\* The allocations on chain and in the record, as the pool promises them.
Promise == INSTANCE Payout WITH
    paid      <- [d \in Deposits |-> Cardinality({k \in OnChain : d \in made[k].ids})],
    completed <- {d \in Deposits : record[d] = "completed"}

\* The journal, its replacements, retries and crashes implement the promise (allocate_all, "allocate re-runs
\* the whole batch after tree lag"; finish_relay_aggregation): no allocation is on chain twice, however many
\* proofs were made for it, none is recorded before it is paid, and no restart, retry or refusal takes a
\* recorded one back.
AllocationsPaidOnce == Promise!Spec
=============================================================================
