------------------------------- MODULE MCCurvy -------------------------------
(***************************************************************************)
(* The deposit pools on small instances.                                   *)
(***************************************************************************)
EXTENDS DepositPools, TLC

MCBatches == {<<1>>, <<1, 2>>}

\* Swapping the two allocations renames the owners: it is enough to begin with one of them.  What a behaviour is
\* not about begins in one way.
MCInit ==
    /\ PoolsInit
    /\ Only("allocate") \/ submission = CHOOSE s \in Submissions : TRUE
    /\ Only("sweep") \/ (stored = {} /\ mode = CHOOSE s \in WithdrawalMode : TRUE)
    /\ \/ Only("discover") /\ owner[1] = CHOOSE a \in Alloc : TRUE
       \/ /\ ~Only("discover")
          /\ source = CHOOSE s \in Sources : TRUE
          /\ owner = CHOOSE f \in [Notes -> Alloc] : TRUE

MCSpec == MCInit /\ [][PoolsNext]_poolsVars

\* The notes of a sweep, one of them without an amount.
MCOwned == {[id |-> 0], [id |-> -1], [id |-> -2]}
MCBlank == {[id |-> 0]}

\* Callers are alike, the sweepers of the same names as well, and so are the addresses of plain deposits.
MCSymmetry == Permutations(Caller) \cup Permutations(Dest)

Faults == crashes + reorgs

\* Two callers share the lock while nothing crashes, is reorganised or forgotten and two proofs are made; of crash
\* and reorganisation there is one, and with it the proofs of a second call are two at most.
MCTwoCallers ==
    /\ Cardinality({c \in Caller : call[c] # NoCall}) > 1 => Faults = 0 /\ forgotten = {} /\ Len(made) <= 2
    /\ Faults <= 1
    /\ Len(made) > 2 /\ calls > 1 => Faults = 0

\* Two sweepers overlap, or a third proof is sent, while nothing restarts, neither chain nor relayer takes
\* anything back and at most one proof is refused; otherwise there is one restart, one reorganisation or one
\* request forgotten.  The note without an amount is met by one sweeper alone.
MCSweepers ==
    LET faultless == restarts = 0 /\ undone = 0 /\ untracked = {} /\ Cardinality(refused) <= 1 IN
    /\ Cardinality({s \in Sweeper : sweep[s] # NoSweep}) > 1 =>
           faultless /\ Len(sent) <= 2 /\ sighted \cap Blank = {}
    /\ Len(sent) > 2 => faultless
    /\ undone + restarts + Cardinality(untracked) <= 1

\* Notes are alike, whether one allocation owns them or each its own: the first announced may have the name 1.
\* What a waiter for an allocation without notes would show, one for more than there are shows.
MCWatched ==
    /\ announced # <<>> => announced[1] = 1
    /\ \A w \in waiters : w.alloc \in Range(owner)
=============================================================================
