---------------------------- MODULE DepositPools ----------------------------
(***************************************************************************)
(* The deposit pools and the tasks of the Curvy pool, side by side.  They  *)
(* share nothing that one of them changes and another one reads, so that   *)
(* each behaviour is about one subject and the others stay as they begin.  *)
(***************************************************************************)
EXTENDS CurvyAggregation, CurvyDiscovery, CurvyShielding, CurvySweep, PlainPool

VARIABLE subject

poolsVars == <<aggVars, watchVars, shieldVars, sweepVars, plainVars, subject>>

Only(s) == subject = s

PoolsInit ==
    /\ subject \in {"allocate", "discover", "shield", "sweep", "plain"}
    /\ AggInit /\ WatchInit /\ ShieldInit /\ SweepInit /\ PlainInit

PoolsNext ==
    /\ UNCHANGED subject
    /\ \/ Only("allocate") /\ AggNext    /\ UNCHANGED <<watchVars, shieldVars, sweepVars, plainVars>>
       \/ Only("discover") /\ WatchNext  /\ UNCHANGED <<aggVars, shieldVars, sweepVars, plainVars>>
       \/ Only("shield")   /\ ShieldNext /\ UNCHANGED <<aggVars, watchVars, sweepVars, plainVars>>
       \/ Only("sweep")    /\ SweepNext  /\ UNCHANGED <<aggVars, watchVars, shieldVars, plainVars>>
       \/ Only("plain")    /\ PlainNext  /\ UNCHANGED <<aggVars, watchVars, shieldVars, sweepVars>>

PoolsSpec == PoolsInit /\ [][PoolsNext]_poolsVars

-----------------------------------------------------------------------------
\* What the pools keep stays within its types (save_update, build_pix_aggregation, CurvyDepositPool and
\* PlainDepositPool): no amount is negative, cursors and journals keep their bounds, and a call works exactly
\* while it holds the lock.
PoolsTypeOK == AggTypeOK /\ WatchTypeOK /\ ShieldTypeOK /\ SweepTypeOK /\ PlainTypeOK
=============================================================================
