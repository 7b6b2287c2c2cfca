----------------------------- MODULE Strategies -----------------------------
(***************************************************************************)
(* The strategies and algorithms that do not interact, side by side.  They *)
(* share nothing that one of them changes and another one reads, so that   *)
(* each behaviour is about one subject and the others stay as they begin.  *)
(***************************************************************************)
EXTENDS AutoRedeeming, AutoFunding, ClosureFinalizer, ChannelSelection, StakeSizing

VARIABLE subject

strategiesVars == <<redeemVars, fundVars, finalVars, selectVars, sizeVars, subject>>

Only(s) == subject = s

StrategiesInit ==
    /\ subject \in {"redeem", "fund", "final", "select", "size"}
    /\ RedeemInit /\ FundInit /\ FinalInit /\ SelectInit /\ SizingInit

StrategiesNext ==
    /\ UNCHANGED subject
    /\ \/ Only("redeem") /\ RedeemNext /\ UNCHANGED <<fundVars, finalVars, selectVars, sizeVars>>
       \/ Only("fund")   /\ FundNext   /\ UNCHANGED <<redeemVars, finalVars, selectVars, sizeVars>>
       \/ Only("final")  /\ FinalNext  /\ UNCHANGED <<redeemVars, fundVars, selectVars, sizeVars>>
       \/ Only("select") /\ SelectNext /\ UNCHANGED <<redeemVars, fundVars, finalVars, sizeVars>>
       \/ Only("size")   /\ Resolve    /\ UNCHANGED <<redeemVars, fundVars, finalVars, selectVars>>

StrategiesSpec == StrategiesInit /\ [][StrategiesNext]_strategiesVars

-----------------------------------------------------------------------------
\* The state of every strategy stays within its types: no balance is negative, a funding in flight is one that
\* was submitted, and a selector answers with candidates of its snapshot (auto_funding.rs, auto_redeeming.rs,
\* channel_finalizer.rs, MultiObjectiveSelector).
StrategiesTypeOK == RedeemTypeOK /\ FundTypeOK /\ FinalTypeOK /\ SelectTypeOK /\ SizingTypeOK
=============================================================================
