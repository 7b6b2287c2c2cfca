--------------------------- MODULE MCPixRecovery ---------------------------
(***************************************************************************)
(* The Exit half of PIX, the event loop that both halves share and the     *)
(* encrypted store, in one run: each behaviour is about one of them, and   *)
(* the others stay as they begin.                                          *)
(***************************************************************************)
EXTENDS PixRecovery, PixEventLoop, RecoveryStore

VARIABLE subject

allVars == <<vars, loopVars, storeVars, subject>>

MCPeriods == {[deposit |-> d, withdrawal |-> w] : d \in 0..2, w \in 0..2}

Only(s) == subject = s

MCInit ==
    /\ subject \in {"recovery", "loop", "store"}
    /\ IF Only("loop") THEN TRUE ELSE period = CHOOSE p \in Periods : TRUE
    /\ Init /\ LoopInit
    /\ StoreInit /\ (Only("store") \/ salt = 0)

MCNext ==
    /\ UNCHANGED subject
    /\ \/ Only("recovery") /\ Next /\ UNCHANGED <<loopVars, storeVars>>
       \/ Only("loop") /\ LoopNext /\ UNCHANGED <<vars, storeVars>>
       \/ Only("store") /\ StoreNext /\ UNCHANGED <<vars, loopVars>>

\* The fairness of Spec and LoopFairness, each for the behaviours about its subject.
MCFairness ==
    /\ WF_vars(Only("recovery") /\ FlushStep) /\ WF_vars(Only("recovery") /\ ReplayStep)
    /\ WF_vars(Only("recovery") /\ Tick)
    /\ WF_loopVars(Only("loop") /\ Elapse) /\ WF_loopVars(Only("loop") /\ FlushDue)
    /\ WF_loopVars(Only("loop") /\ FinalFlush)
    /\ \A b \in Buffers : WF_loopVars(Only("loop") /\ FlushDone(b))

MCSpec == MCInit /\ [][MCNext]_allVars /\ MCFairness

\* No sweep reaches the pool for a key that is unusable: whether its deposit has landed makes no difference.
MCBadFunds == \A k \in BadKey : funds[k] = "awaited"
=============================================================================
