------------------------- MODULE PixRecoveryProofs -------------------------
(***************************************************************************)
(* Proofs about PixRecovery, for any set of keys, any guard time-to-live   *)
(* and any number of sweeps and crashes; and about RecoveryStore, the      *)
(* database the keys are in, for every set of ids and passwords.           *)
(*                                                                         *)
(* The two safety properties rest on different facts.  A key leaves the    *)
(* store only behind an answer the pool gives about funds it moved         *)
(* (MovesMeanSwept, RemovalEarned).  Sweeps of one key exclude one another *)
(* because a sweep in progress sits in one place only - the buffer, one    *)
(* flush or the replay - and, unless its key is broken, has the guard of   *)
(* that key to itself (PlacesApart, GuardExclusive).                       *)
(***************************************************************************)
EXTENDS PixRecovery, RecoveryStore, SequenceTheorems, TLAPS

\* The replay knows the key it works on, and the sweep it started for it.
ReplayKnows ==
    /\ replay.step \in {"claim", "sweep", "free", "remove"} => replay.key \in Key
    /\ replay.step \in {"sweep", "free"} =>
          replay.item \in Number /\ KeyOf(replay.item) = replay.key

\* A sweep answers success only of funds it moved, and moved funds stay swept.
MovesMeanSwept ==
    \A n \in Number :
        /\ sweeps[n].answer = "ok" => sweeps[n].moved
        /\ sweeps[n].moved => funds[KeyOf(n)] = "swept"

\* The replay gets to the removal of a key only when its deposit has moved.
RemovalEarned == replay.step = "remove" => funds[replay.key] = "swept"

KeepInv == TypeOK /\ ReplayKnows /\ MovesMeanSwept /\ RemovalEarned /\ KeyKeptUntilSwept

\* No replay runs while down, and it has nothing to do before it reads the store.
ReplayFresh ==
    /\ ~up => replay = Idle
    /\ replay.step = "iter" => replay.todo = {}

\* The sweeps whose guard someone will still free.
Flushing == UNION {f.items : f \in {g \in flushes : g.step # "remove"}}
Replayed == IF replay.step \in {"sweep", "free"} THEN {replay.item} ELSE {}
Held     == buffer \cup Flushing \cup Replayed

\* A sweep is in one place only.
PlacesApart ==
    /\ \A f \in flushes : f.items \cap buffer = {}
    /\ \A f, g \in flushes : f # g => f.items \cap g.items = {}
    /\ Replayed \cap buffer = {}
    /\ \A f \in flushes : Replayed \cap f.items = {}

\* A sweep not answered yet is still to be started or is with the pool.
Unanswered ==
    buffer \cup (UNION {f.items : f \in {g \in flushes : g.step \in {"parse", "sweep"}}})
           \cup (IF replay.step = "sweep" THEN {replay.item} ELSE {})

PendingPlaced == \A n \in Number : Sweeping(n) => n \in Unanswered

\* Unless a key is broken its guard stands for one sweep, and is claimed for it.
GuardExclusive ==
    /\ \A m, n \in Held : KeyOf(m) = KeyOf(n) => m = n \/ KeyOf(n) \in broken
    /\ \A n \in Held : guard[KeyOf(n)] > 0 \/ KeyOf(n) \in broken

OverlapInv ==
    TypeOK /\ ReplayKnows /\ ReplayFresh /\ PlacesApart /\ PendingPlaced /\ GuardExclusive
\* The history of the sweeps is only added to: a sweep keeps its number and its key,
\* and a new one is neither answered nor moved.
Extended(S) ==
    /\ sweeps' \in Seq(S)
    /\ Len(sweeps') \in Nat /\ Len(sweeps) <= Len(sweeps')
    /\ \A n \in Number : KeyOf(n)' = KeyOf(n) /\ (sweeps[n].moved => sweeps'[n].moved)
    /\ \A n \in Number' \ Number : ~sweeps'[n].moved /\ sweeps'[n].answer = "none"

-----------------------------------------------------------------------------
(***************************************************************************)
(* Lemmas about the history of sweeps.                                     *)
(***************************************************************************)
LEMMA NumberedSweeps ==
    ASSUME sweeps \in Seq(Sweep)
    PROVE  /\ Len(sweeps) \in Nat /\ DOMAIN sweeps = Number
           /\ \A n \in Number : n \in Nat /\ sweeps[n] \in Sweep /\ KeyOf(n) \in Key
<1>1. Len(sweeps) \in Nat /\ DOMAIN sweeps = Number
  BY LenProperties DEF Number
<1>2. \A n \in Number : sweeps[n] \in Sweep
  BY ElementOfSeq DEF Number
<1> QED
  BY <1>1, <1>2 DEF Number, KeyOf, Sweep

\* A pool's answer, a parse error or a crash changes what became of some sweeps, no more.
LEMMA Rewritten ==
    ASSUME sweeps \in Seq(Sweep),
           sweeps' = [n \in DOMAIN sweeps |-> sweeps'[n]],
           \A n \in Number : /\ sweeps'[n] \in Sweep
                            /\ sweeps'[n].key = sweeps[n].key
                            /\ sweeps'[n].moved = sweeps[n].moved
    PROVE  Extended(Sweep) /\ Len(sweeps') = Len(sweeps)
<1>1. Len(sweeps) \in Nat /\ DOMAIN sweeps = 1..Len(sweeps)
  BY LenProperties
<1>2. sweeps' \in [1..Len(sweeps) -> Sweep]
  BY <1>1 DEF Number
<1>3. sweeps' \in Seq(Sweep)
  BY <1>1, <1>2, SeqDef
<1>4. Len(sweeps') = Len(sweeps)
  BY <1>1, <1>2, <1>3
<1> QED
  BY <1>1, <1>3, <1>4 DEF Extended, KeyOf, Number

LEMMA Appended ==
    ASSUME sweeps \in Seq(Sweep), NEW k \in Key, sweeps' = NewSweep(k)
    PROVE  /\ Extended(Sweep) /\ Len(sweeps') = Len(sweeps) + 1
           /\ \A n \in Number : sweeps'[n] = sweeps[n]
           /\ sweeps'[Len(sweeps) + 1] = [key |-> k, moved |-> FALSE, answer |-> "none"]
           /\ Number' = Number \cup {Len(sweeps) + 1} /\ Len(sweeps) + 1 \notin Number
<1> DEFINE new == [key |-> k, moved |-> FALSE, answer |-> "none"]
<1>1. new \in Sweep
  BY DEF Sweep
<1>2. Len(sweeps) \in Nat
  BY LenProperties
<1>3. /\ sweeps' \in Seq(Sweep) /\ Len(sweeps') = Len(sweeps) + 1
      /\ \A n \in 1..Len(sweeps) : sweeps'[n] = sweeps[n]
      /\ sweeps'[Len(sweeps) + 1] = new
  BY <1>1, AppendProperties DEF NewSweep
<1> QED
  BY <1>2, <1>3 DEF Extended, Number, KeyOf

LEMMA Replaced ==
    ASSUME sweeps \in Seq(Sweep), NEW m \in Number, NEW e \in Sweep,
           sweeps' = [sweeps EXCEPT ![m] = e]
    PROVE  /\ sweeps' \in Seq(Sweep) /\ Len(sweeps') = Len(sweeps)
           /\ \A n \in Number : sweeps'[n] = IF n = m THEN e ELSE sweeps[n]
BY ExceptSeq DEF Number

LEMMA FundsMoved ==
    ASSUME sweeps \in Seq(Sweep), NEW m \in Number,
           sweeps' = [sweeps EXCEPT ![m].moved = TRUE]
    PROVE  /\ Extended(Sweep) /\ Len(sweeps') = Len(sweeps)
           /\ \A n \in Number : sweeps'[n].answer = sweeps[n].answer
           /\ \A n \in Number : n # m => sweeps'[n] = sweeps[n]
<1>1. PICK e \in Sweep : /\ sweeps' = [sweeps EXCEPT ![m] = e]
                         /\ e.key = sweeps[m].key /\ e.answer = sweeps[m].answer
                         /\ e.moved
  <2> DEFINE e == [sweeps[m] EXCEPT !.moved = TRUE]
  <2>1. sweeps[m] \in Sweep
    BY NumberedSweeps
  <2>2. e \in Sweep /\ e.key = sweeps[m].key /\ e.answer = sweeps[m].answer /\ e.moved
    BY <2>1 DEF Sweep
  <2>3. sweeps' = [sweeps EXCEPT ![m] = e]
    OBVIOUS
  <2> HIDE DEF e
  <2> QED
    BY <2>2, <2>3
<1>2. /\ sweeps' \in Seq(Sweep) /\ Len(sweeps') = Len(sweeps)
      /\ \A n \in Number : sweeps'[n] = IF n = m THEN e ELSE sweeps[n]
  BY <1>1, Replaced
<1>3. Len(sweeps) \in Nat
  BY NumberedSweeps
<1> QED
  BY <1>1, <1>2, <1>3 DEF Extended, KeyOf, Number

-----------------------------------------------------------------------------
(***************************************************************************)
(* Every step extends the history, and keeps the state well typed.         *)
(***************************************************************************)
LEMMA HistoryStep ==
    ASSUME TypeOK, ReplayKnows, [Next]_vars
    PROVE  Extended(Sweep) /\ Number \subseteq Number'
<1>1. sweeps \in Seq(Sweep)
  BY DEF TypeOK
<1>2. /\ Len(sweeps) \in Nat /\ DOMAIN sweeps = Number
      /\ \A n \in Number : sweeps[n] \in Sweep
  BY <1>1, NumberedSweeps
<1>3. ASSUME UNCHANGED sweeps PROVE Extended(Sweep)
  BY <1>1, <1>2, <1>3 DEF Extended, KeyOf, Number
<1>4. ASSUME Buffer PROVE Extended(Sweep)
  <2>1. handling.key \in Key
    BY <1>4 DEF Buffer, TypeOK, Quiet
  <2> QED
    BY <1>1, <1>4, <2>1, Appended DEF Buffer
<1>5. ASSUME NEW f \in flushes, Parse(f) PROVE Extended(Sweep)
  <2> DEFINE bad == {n \in f.items : KeyOf(n) \in BadKey}
  <2>1. sweeps' = [n \in DOMAIN sweeps |->
                     IF n \in bad THEN [sweeps[n] EXCEPT !.answer = "error"] ELSE sweeps[n]]
    BY <1>5 DEF Parse
  <2>2. \A n \in Number : /\ sweeps'[n] \in Sweep
                          /\ sweeps'[n].key = sweeps[n].key
                          /\ sweeps'[n].moved = sweeps[n].moved
    BY <1>2, <2>1 DEF Sweep
  <2> QED
    BY <1>1, <2>1, <2>2, Rewritten
<1>6. ASSUME NEW items, NEW succeeded, sweeps' = Answered(items, succeeded)
      PROVE  Extended(Sweep)
  <2>1. \A n \in Number : /\ sweeps'[n] \in Sweep
                          /\ sweeps'[n].key = sweeps[n].key
                          /\ sweeps'[n].moved = sweeps[n].moved
    BY <1>2, <1>6 DEF Sweep, Answered
  <2>2. sweeps' = [n \in DOMAIN sweeps |-> sweeps'[n]]
    BY <1>6 DEF Answered
  <2> QED
    BY <1>1, <2>1, <2>2, Rewritten
<1>7. ASSUME ReplayClaim PROVE Extended(Sweep)
  <2>1. replay.key \in Key
    BY <1>7 DEF ReplayClaim, ReplayKnows
  <2> QED
    BY <1>1, <1>3, <1>7, <2>1, Appended DEF ReplayClaim
<1>8. ASSUME NEW n \in Number, FundsMove(n) PROVE Extended(Sweep)
  BY <1>1, <1>8, FundsMoved DEF FundsMove
<1>9. ASSUME Crash PROVE Extended(Sweep)
  <2>1. \A n \in Number : /\ sweeps'[n] \in Sweep
                          /\ sweeps'[n].key = sweeps[n].key
                          /\ sweeps'[n].moved = sweeps[n].moved
    BY <1>2, <1>9 DEF Sweep, Crash
  <2>2. sweeps' = [n \in DOMAIN sweeps |-> sweeps'[n]]
    BY <1>9 DEF Crash
  <2> QED
    BY <1>1, <2>1, <2>2, Rewritten
<1>10. Extended(Sweep)
  <2>1. ASSUME FlushStep PROVE Extended(Sweep)
    BY <1>3, <1>5, <1>6, <2>1 DEF FlushStep, FlushAnswered, FlushFrees, FlushRemoves
  <2>2. ASSUME ReplayStep PROVE Extended(Sweep)
    BY <1>3, <1>6, <1>7, <2>2 DEF ReplayStep, ReplayReads, ReplayNext, ReplayAnswered,
       ReplayFrees, ReplayRemoves
  <2> QED
    BY <1>3, <1>4, <1>8, <1>9, <2>1, <2>2 DEF Next, vars, Persist, FundsLand, CheckGuard,
       FlushWithdrawals, Start, Tick
<1> QED
  BY <1>2, <1>10 DEF Extended, Number

LEMMA TypeStep ==
    ASSUME TypeOK, ReplayKnows, [Next]_vars
    PROVE  TypeOK'
<1>1. /\ sweeps' \in Seq(Sweep) /\ Number \subseteq Number'
      /\ Len(sweeps) + 1 \in Nat
      /\ \A n \in Number : n \in Nat /\ KeyOf(n) \in Key
  BY HistoryStep, NumberedSweeps DEF Extended, TypeOK
<1>2. \A set : FreeAll(set) \in [Key -> 0..GuardTTL]
  BY RecoveryAssumption DEF FreeAll, TypeOK
<1>3. \A k \in Key : Hold(k) \in [Key -> 0..GuardTTL]
  BY RecoveryAssumption DEF Hold, TypeOK
<1>4. ASSUME NEW k \in Key, Claimed(k), sweeps' = NewSweep(k)
      PROVE  /\ guard' \in [Key -> 0..GuardTTL] /\ broken' \in SUBSET Key
             /\ Len(sweeps) + 1 \in Number'
  BY <1>3, <1>4, Appended DEF Claimed, TypeOK
<1>5. replay.step \in {"iter", "next", "claim", "sweep", "free", "remove"}
      /\ replay.todo \in SUBSET Key /\ replay.item \in Nat /\ replay.key \in Key \cup {NoKey}
  BY DEF TypeOK, Replay
<1>6. Continue \in Replay
  BY <1>5 DEF Continue, TypeOK, Replay
<1>7. \A f \in flushes : f \in Flush /\ f.items \subseteq Number
  BY DEF TypeOK
<1>8. ASSUME NEW f \in flushes, NEW g \in Flush, g.items \subseteq f.items,
             flushes' = Become(f, {g}) \/ flushes' = Become(f, {})
      PROVE  flushes' \subseteq Flush /\ \A h \in flushes' : h.items \subseteq Number'
  BY <1>1, <1>7, <1>8 DEF Become
<1>9. ASSUME UNCHANGED <<buffer, flushes>>
      PROVE  /\ buffer' \in SUBSET Number' /\ flushes' \subseteq Flush
             /\ \A h \in flushes' : h.items \subseteq Number'
  BY <1>1, <1>9 DEF TypeOK
<1>10. ASSUME NEW k \in Key, Persist(k) \/ FundsLand(k) PROVE TypeOK'
  BY <1>1, <1>9, <1>10 DEF Persist, FundsLand, TypeOK
<1>11. ASSUME CheckGuard PROVE TypeOK'
  <2>1. handling' \in [key : Key, step : {"check", "claim"}] \cup {Quiet}
    BY <1>11 DEF CheckGuard, TypeOK, Quiet
  <2> QED
    BY <1>1, <1>9, <1>11, <2>1 DEF CheckGuard, TypeOK
<1>12. ASSUME Buffer PROVE TypeOK'
  <2>1. handling.key \in Key
    BY <1>12 DEF Buffer, TypeOK, Quiet
  <2> QED
    BY <1>1, <1>4, <1>12, <2>1 DEF Buffer, TypeOK
<1>13. ASSUME FlushWithdrawals PROVE TypeOK'
  <2>1. [items |-> buffer, step |-> "parse"] \in Flush
    BY <1>1 DEF Flush, TypeOK
  <2> QED
    BY <1>1, <1>13, <2>1 DEF FlushWithdrawals, TypeOK
<1>14. ASSUME NEW f \in flushes, Parse(f) PROVE TypeOK'
  <2> DEFINE bad == {n \in f.items : KeyOf(n) \in BadKey}
             g == [items |-> f.items \ bad, step |-> "sweep"]
  <2>1. g \in Flush /\ g.items \subseteq f.items
    BY <1>7 DEF Flush
  <2>2. flushes' = Become(f, {g}) \/ flushes' = Become(f, {})
    BY <1>14 DEF Parse
  <2>3. guard' \in [Key -> 0..GuardTTL]
    BY <1>2, <1>14 DEF Parse
  <2>4. flushes' \subseteq Flush /\ \A h \in flushes' : h.items \subseteq Number'
    BY <1>8, <2>1, <2>2
  <2> QED
    BY <1>1, <1>14, <2>3, <2>4 DEF Parse, TypeOK
<1>15. ASSUME NEW f \in flushes, FlushAnswered(f) \/ FlushFrees(f) \/ FlushRemoves(f)
       PROVE  TypeOK'
  <2>1. /\ [f EXCEPT !.step = "free"] \in Flush /\ [f EXCEPT !.step = "free"].items = f.items
        /\ [f EXCEPT !.step = "remove"] \in Flush /\ [f EXCEPT !.step = "remove"].items = f.items
    BY <1>7 DEF Flush
  <2>2. flushes' \subseteq Flush /\ \A h \in flushes' : h.items \subseteq Number'
    BY <1>8, <1>15, <2>1 DEF FlushAnswered, FlushFrees, FlushRemoves
  <2>3. guard' \in [Key -> 0..GuardTTL]
    BY <1>2, <1>15 DEF FlushAnswered, FlushFrees, FlushRemoves, TypeOK
  <2>4. store' \in SUBSET Key
    BY <1>15 DEF FlushAnswered, FlushFrees, FlushRemoves, TypeOK
  <2> QED
    BY <1>1, <1>15, <2>2, <2>3, <2>4 DEF FlushAnswered, FlushFrees, FlushRemoves, TypeOK
<1>16. ASSUME ReplayReads \/ ReplayNext \/ ReplayAnswered PROVE TypeOK'
  <2>1. ASSUME ReplayReads PROVE replay' \in Replay
    BY <1>5, <2>1 DEF ReplayReads, TypeOK, Replay
  <2>2. ASSUME ReplayNext PROVE replay' \in Replay
    <3>1. PICK k \in replay.todo :
             replay' = [replay EXCEPT !.todo = @ \ {k},
                                      !.step = IF Free(k) THEN "claim" ELSE "next",
                                      !.key  = IF Free(k) THEN k ELSE NoKey]
      BY <2>2 DEF ReplayNext
    <3> QED
      BY <1>5, <3>1 DEF TypeOK, Replay
  <2>3. ASSUME ReplayAnswered PROVE replay' \in Replay
    BY <1>5, <2>3 DEF ReplayAnswered, TypeOK, Replay
  <2> QED
    BY <1>1, <1>9, <1>16, <2>1, <2>2, <2>3 DEF ReplayReads, ReplayNext, ReplayAnswered, TypeOK
<1>17. ASSUME ReplayClaim PROVE TypeOK'
  <2>1. replay.key \in Key
    BY <1>17 DEF ReplayClaim, ReplayKnows
  <2>2. guard' \in [Key -> 0..GuardTTL] /\ broken' \in SUBSET Key
    BY <1>3, <1>17, <2>1 DEF ReplayClaim, Claimed, TypeOK
  <2>3. [replay EXCEPT !.step = "sweep", !.item = Len(sweeps) + 1] \in Replay
    BY <1>1, <1>5 DEF TypeOK, Replay
  <2>4. replay' \in Replay
    BY <1>6, <1>17, <2>3 DEF ReplayClaim
  <2> QED
    BY <1>1, <1>9, <1>17, <2>2, <2>4 DEF ReplayClaim, TypeOK
<1>18. ASSUME ReplayFrees \/ ReplayRemoves PROVE TypeOK'
  <2>1. [replay EXCEPT !.step = "remove"] \in Replay
    BY <1>5 DEF TypeOK, Replay
  <2>2. replay' \in Replay /\ guard' \in [Key -> 0..GuardTTL] /\ store' \in SUBSET Key
    BY <1>2, <1>6, <1>18, <2>1 DEF ReplayFrees, ReplayRemoves, TypeOK
  <2> QED
    BY <1>1, <1>9, <1>18, <2>2 DEF ReplayFrees, ReplayRemoves, TypeOK
<1>19. ASSUME NEW n \in Number, FundsMove(n) PROVE TypeOK'
  BY <1>1, <1>9, <1>19 DEF FundsMove, TypeOK
<1>20. ASSUME Start \/ Crash PROVE TypeOK'
  <2>1. Idle \in Replay /\ [Idle EXCEPT !.step = "iter"] \in Replay
    BY DEF Idle, Replay
  <2>2. [k \in Key |-> 0] \in [Key -> 0..GuardTTL]
    BY RecoveryAssumption
  <2>3. CASE Start
    BY <1>1, <1>9, <2>1, <2>3 DEF Start, TypeOK
  <2>4. CASE Crash
    <3>1. crashes' \in 0..MaxCrashes
      BY RecoveryAssumption, <2>4 DEF Crash, TypeOK
    <3> QED
      BY <1>1, <2>1, <2>2, <2>4, <3>1 DEF Crash, TypeOK
  <2> QED
    BY <1>20, <2>3, <2>4
<1>21. ASSUME Tick PROVE TypeOK'
  <2>1. guard' \in [Key -> 0..GuardTTL] /\ broken' \in SUBSET Key
    BY RecoveryAssumption, <1>21 DEF Tick, Down, TypeOK
  <2> QED
    BY <1>1, <1>9, <1>21, <2>1 DEF Tick, TypeOK
<1>22. CASE UNCHANGED vars
  BY <1>22 DEF vars, TypeOK, Number
<1>23. ASSUME FlushStep PROVE TypeOK'
  BY <1>14, <1>15, <1>23 DEF FlushStep
<1>24. ASSUME ReplayStep PROVE TypeOK'
  BY <1>16, <1>17, <1>18, <1>24 DEF ReplayStep
<1> QED
  BY <1>10, <1>11, <1>12, <1>13, <1>19, <1>20, <1>21, <1>22, <1>23, <1>24 DEF Next

LEMMA KnowsStep ==
    ASSUME TypeOK, ReplayKnows, [Next]_vars
    PROVE  ReplayKnows'
<1>1. Extended(Sweep) /\ Number \subseteq Number'
  BY HistoryStep
<1>2. ASSUME UNCHANGED replay PROVE ReplayKnows'
  BY <1>1, <1>2 DEF Extended, ReplayKnows
<1>3. ASSUME replay' = Continue \/ replay' = Idle \/ replay' = [Idle EXCEPT !.step = "iter"]
      PROVE  ReplayKnows'
  <2>1. replay'.step \in {"next", "iter"}
    <3>1. Continue.step = "next"
      BY DEF Continue, TypeOK, Replay
    <3> QED
      BY <1>3, <3>1 DEF Idle
  <2> QED
    BY <2>1 DEF ReplayKnows
<1>4. ASSUME ReplayReads PROVE ReplayKnows'
  <2>1. replay'.step = "next"
    BY <1>4 DEF ReplayReads, TypeOK, Replay
  <2> QED
    BY <2>1 DEF ReplayKnows
<1>5. ASSUME ReplayNext PROVE ReplayKnows'
  <2>1. replay.todo \subseteq Key
    BY DEF TypeOK, Replay
  <2>2. replay'.step = "next" \/ (replay'.step = "claim" /\ replay'.key \in Key)
    <3>1. PICK k \in replay.todo :
             replay' = [replay EXCEPT !.todo = @ \ {k},
                                      !.step = IF Free(k) THEN "claim" ELSE "next",
                                      !.key  = IF Free(k) THEN k ELSE NoKey]
      BY <1>5 DEF ReplayNext
    <3>2. k \in Key
      BY <2>1
    <3>3. replay \in Replay
      BY DEF TypeOK
    <3>4. CASE Free(k)
      <4>1. replay' = [replay EXCEPT !.todo = replay.todo \ {k}, !.step = "claim", !.key = k]
        BY <3>1, <3>4
      <4>2. replay'.step = "claim" /\ replay'.key = k
        BY <3>3, <4>1 DEF Replay
      <4> QED
        BY <3>2, <4>2
    <3>5. CASE ~Free(k)
      BY <3>1, <3>3, <3>5 DEF Replay
    <3> QED
      BY <3>4, <3>5
  <2> QED
    BY <2>2 DEF ReplayKnows
<1>6. ASSUME ReplayClaim PROVE ReplayKnows'
  <2>1. replay.key \in Key /\ sweeps \in Seq(Sweep)
    BY <1>6 DEF ReplayClaim, ReplayKnows, TypeOK
  <2>2. CASE replay.key \in BadKey
    BY <1>3, <1>6, <2>2 DEF ReplayClaim
  <2>3. CASE replay.key \notin BadKey
    <3>1. replay' = [replay EXCEPT !.step = "sweep", !.item = Len(sweeps) + 1]
          /\ sweeps' = NewSweep(replay.key)
      BY <1>6, <2>3 DEF ReplayClaim
    <3>2. Len(sweeps) + 1 \in Number' /\ sweeps'[Len(sweeps) + 1].key = replay.key
      <4>1. /\ sweeps'[Len(sweeps) + 1] = [key |-> replay.key, moved |-> FALSE, answer |-> "none"]
            /\ Number' = Number \cup {Len(sweeps) + 1}
        BY <2>1, <3>1, Appended
      <4> QED
        BY <4>1
    <3>3. replay'.key = replay.key /\ replay'.item = Len(sweeps) + 1
      BY <3>1 DEF TypeOK, Replay
    <3> QED
      BY <2>1, <3>2, <3>3 DEF ReplayKnows, KeyOf
  <2> QED
    BY <2>2, <2>3
<1>7. ASSUME ReplayAnswered PROVE ReplayKnows'
  <2>1. replay'.key = replay.key /\ replay'.item = replay.item
    BY <1>7 DEF ReplayAnswered, TypeOK, Replay
  <2>2. replay.key \in Key /\ replay.item \in Number /\ KeyOf(replay.item) = replay.key
    BY <1>7 DEF ReplayAnswered, ReplayKnows
  <2> QED
    BY <1>1, <2>1, <2>2 DEF Extended, ReplayKnows
<1>8. ASSUME ReplayFrees PROVE ReplayKnows'
  <2>1. CASE replay' = Continue
    BY <1>3, <2>1
  <2>2. CASE replay' = [replay EXCEPT !.step = "remove"]
    <3>1. replay'.key = replay.key /\ replay'.step = "remove"
      BY <2>2 DEF TypeOK, Replay
    <3> QED
      BY <1>8, <3>1 DEF ReplayFrees, ReplayKnows
  <2> QED
    BY <1>8, <2>1, <2>2 DEF ReplayFrees
<1>9. ASSUME ReplayRemoves \/ Start \/ Crash PROVE ReplayKnows'
  BY <1>3, <1>9 DEF ReplayRemoves, Start, Crash
<1> QED
  BY <1>2, <1>4, <1>5, <1>6, <1>7, <1>8, <1>9 DEF Next, vars, FlushStep, ReplayStep, Persist,
     FundsLand, CheckGuard, Buffer, FlushWithdrawals, Parse, FlushAnswered, FlushFrees,
     FlushRemoves, FundsMove, Tick

LEMMA TypedInitially == ASSUME Init PROVE TypeOK /\ ReplayKnows
<1>1. TypeOK
  <2>1. sweeps \in Seq(Sweep)
    BY DEF Init
  <2>2. replay \in Replay
    BY DEF Init, Idle, Replay
  <2>3. handling \in {Quiet} /\ crashes \in 0..MaxCrashes
    BY RecoveryAssumption DEF Init
  <2>4. guard \in [Key -> 0..GuardTTL] /\ funds \in [Key -> {"awaited", "landed", "swept"}]
    BY RecoveryAssumption DEF Init
  <2> QED
    BY <2>1, <2>2, <2>3, <2>4 DEF Init, TypeOK
<1> QED
  BY <1>1 DEF Init, Idle, ReplayKnows

LEMMA Typed == Spec => [](TypeOK /\ ReplayKnows)
<1>1. Init => TypeOK /\ ReplayKnows
  BY TypedInitially
<1>2. TypeOK /\ ReplayKnows /\ [Next]_vars => TypeOK' /\ ReplayKnows'
  BY TypeStep, KnowsStep
<1> QED
  BY <1>1, <1>2, PTL DEF Spec

(***************************************************************************)
(* TypeOK is an invariant of the Exit half, for every set of keys.         *)
(***************************************************************************)
THEOREM RecoveryTyped == Spec => []TypeOK
BY Typed, PTL

-----------------------------------------------------------------------------
(***************************************************************************)
(* A recovered key stays in the store until its deposit has moved.         *)
(***************************************************************************)
LEMMA SweptForGood ==
    ASSUME TypeOK, [Next]_vars, NEW k \in Key, funds[k] = "swept"
    PROVE  funds'[k] = "swept"
BY DEF TypeOK, Next, vars, FlushStep, ReplayStep, Persist, FundsLand, CheckGuard, Buffer,
   FlushWithdrawals, Parse, FlushAnswered, FlushFrees, FlushRemoves, ReplayReads, ReplayNext,
   ReplayClaim, ReplayAnswered, ReplayFrees, ReplayRemoves, FundsMove, Start, Crash, Tick

LEMMA MovesStep ==
    ASSUME KeepInv, [Next]_vars
    PROVE  MovesMeanSwept'
<1>1. /\ Extended(Sweep) /\ sweeps \in Seq(Sweep) /\ DOMAIN sweeps = Number
      /\ \A n \in Number : sweeps[n] \in Sweep /\ KeyOf(n) \in Key
  BY HistoryStep, NumberedSweeps DEF KeepInv, TypeOK
<1>2. SUFFICES ASSUME NEW n \in Number
               PROVE  /\ sweeps'[n].answer = "ok" => sweeps'[n].moved
                      /\ sweeps'[n].moved => funds'[KeyOf(n)] = "swept"
  BY <1>1 DEF Extended, MovesMeanSwept, KeyOf
<1>3. /\ sweeps[n].answer = "ok" => sweeps[n].moved
      /\ sweeps[n].moved => funds[KeyOf(n)] = "swept"
  BY DEF KeepInv, MovesMeanSwept
<1>4. sweeps[n].moved => funds'[KeyOf(n)] = "swept"
  BY <1>1, <1>3, SweptForGood DEF KeepInv
<1> DEFINE Kept == /\ sweeps'[n].answer = "ok" => sweeps'[n].moved
                   /\ sweeps'[n].moved => sweeps[n].moved
<1>5. ASSUME Kept PROVE sweeps'[n].moved => funds'[KeyOf(n)] = "swept"
  BY <1>4, <1>5
<1>6. ASSUME UNCHANGED sweeps PROVE Kept
  BY <1>3, <1>6
<1>7. ASSUME NEW k \in Key, sweeps' = NewSweep(k) PROVE Kept
  <2>1. sweeps'[n] = sweeps[n]
    BY <1>1, <1>7, Appended
  <2> QED
    BY <1>3, <2>1
<1>8. ASSUME NEW f \in flushes, Parse(f) PROVE Kept
  <2>1. \/ sweeps'[n] = sweeps[n]
        \/ sweeps'[n] = [sweeps[n] EXCEPT !.answer = "error"]
    BY <1>1, <1>8 DEF Parse
  <2> QED
    BY <1>1, <1>3, <2>1 DEF Sweep
<1>9. ASSUME NEW items, NEW succeeded \in SUBSET {m \in items : sweeps[m].moved},
             sweeps' = Answered(items, succeeded)
      PROVE  Kept
  <2>1. CASE n \in succeeded
    <3>1. sweeps'[n] = [sweeps[n] EXCEPT !.answer = "ok"] /\ sweeps[n].moved
      BY <1>1, <1>9, <2>1 DEF Answered
    <3> QED
      BY <1>1, <3>1 DEF Sweep
  <2>2. CASE n \notin succeeded
    <3>1. \/ sweeps'[n] = sweeps[n]
          \/ sweeps'[n] = [sweeps[n] EXCEPT !.answer = "error"]
      BY <1>1, <1>9, <2>2 DEF Answered
    <3> QED
      BY <1>1, <1>3, <3>1 DEF Sweep
  <2> QED
    BY <2>1, <2>2
<1>10. ASSUME Crash PROVE Kept
  <2>1. \/ sweeps'[n] = sweeps[n]
        \/ sweeps'[n] = [sweeps[n] EXCEPT !.answer = "lost"]
    BY <1>1, <1>10 DEF Crash
  <2> QED
    BY <1>1, <1>3, <2>1 DEF Sweep
<1>11. ASSUME NEW m \in Number, FundsMove(m)
       PROVE  /\ sweeps'[n].answer = "ok" => sweeps'[n].moved
              /\ sweeps'[n].moved => funds'[KeyOf(n)] = "swept"
  <2>1. /\ sweeps'[n].answer = sweeps[n].answer
        /\ sweeps[n].moved => sweeps'[n].moved
        /\ n # m => sweeps'[n] = sweeps[n]
    BY <1>1, <1>11, FundsMoved DEF FundsMove, Extended
  <2>2. funds'[KeyOf(m)] = "swept"
    BY <1>1, <1>11 DEF FundsMove, KeepInv, TypeOK
  <2> QED
    BY <1>3, <1>4, <2>1, <2>2
<1>12. ASSUME FlushStep PROVE Kept
  <2>1. PICK f \in flushes : Parse(f) \/ FlushAnswered(f) \/ FlushFrees(f) \/ FlushRemoves(f)
    BY <1>12 DEF FlushStep
  <2>2. CASE FlushAnswered(f)
    BY <1>9, <2>2 DEF FlushAnswered
  <2>3. CASE FlushFrees(f) \/ FlushRemoves(f)
    BY <1>6, <2>3 DEF FlushFrees, FlushRemoves
  <2> QED
    BY <1>8, <2>1, <2>2, <2>3
<1>13. ASSUME ReplayStep PROVE Kept
  <2>1. CASE ReplayClaim
    <3>1. replay.key \in Key
      BY <2>1 DEF ReplayClaim, KeepInv, ReplayKnows
    <3> QED
      BY <1>6, <1>7, <2>1, <3>1 DEF ReplayClaim
  <2>2. CASE ReplayAnswered
    BY <1>9, <2>2 DEF ReplayAnswered
  <2> QED
    BY <1>6, <1>13, <2>1, <2>2 DEF ReplayStep, ReplayReads, ReplayNext, ReplayFrees,
       ReplayRemoves
<1>14. ASSUME Buffer PROVE Kept
  <2>1. handling.key \in Key
    BY <1>14 DEF Buffer, KeepInv, TypeOK, Quiet
  <2> QED
    BY <1>7, <1>14, <2>1 DEF Buffer
<1> HIDE DEF Kept
<1>15. Kept \/ \E m \in Number : FundsMove(m)
  BY <1>6, <1>10, <1>12, <1>13, <1>14 DEF Next, vars, Persist, FundsLand, CheckGuard,
     FlushWithdrawals, Start, Tick
<1> QED
  BY <1>5, <1>11, <1>15 DEF Kept

LEMMA EarnedStep ==
    ASSUME KeepInv, [Next]_vars
    PROVE  RemovalEarned'
<1>1. ASSUME UNCHANGED replay PROVE RemovalEarned'
  <2>1. replay.step = "remove" => replay.key \in Key
    BY DEF KeepInv, ReplayKnows
  <2> QED
    BY <1>1, <2>1, SweptForGood DEF KeepInv, RemovalEarned
<1>2. ASSUME replay'.step # "remove" PROVE RemovalEarned'
  BY <1>2 DEF RemovalEarned
<1>3. replay \in Replay /\ Continue.step = "next"
  BY DEF KeepInv, TypeOK, Continue, Replay
<1>4. ASSUME ReplayFrees PROVE RemovalEarned'
  <2>1. CASE replay' = Continue
    BY <1>2, <1>3, <2>1
  <2>2. CASE replay' = [replay EXCEPT !.step = "remove"] /\ sweeps[replay.item].answer = "ok"
    <3>1. replay.item \in Number /\ KeyOf(replay.item) = replay.key
      BY <1>4 DEF ReplayFrees, KeepInv, ReplayKnows
    <3>2. funds[replay.key] = "swept"
      BY <2>2, <3>1 DEF KeepInv, MovesMeanSwept
    <3>3. replay'.key = replay.key
      BY <1>3, <2>2 DEF Replay
    <3> QED
      BY <1>4, <3>2, <3>3 DEF ReplayFrees, RemovalEarned
  <2> QED
    BY <1>4, <2>1, <2>2 DEF ReplayFrees
<1>5. ASSUME ReplayReads \/ ReplayNext \/ ReplayAnswered PROVE RemovalEarned'
  <2>1. CASE ReplayReads
    BY <1>2, <1>3, <2>1 DEF ReplayReads, Replay
  <2>2. CASE ReplayNext
    BY <1>2, <1>3, <2>2 DEF ReplayNext, Replay
  <2>3. CASE ReplayAnswered
    BY <1>2, <1>3, <2>3 DEF ReplayAnswered, Replay
  <2> QED
    BY <1>5, <2>1, <2>2, <2>3
<1>6. ASSUME ReplayClaim PROVE RemovalEarned'
  <2>1. [replay EXCEPT !.step = "sweep", !.item = Len(sweeps) + 1].step = "sweep"
    BY <1>3 DEF Replay
  <2> QED
    BY <1>2, <1>3, <1>6, <2>1 DEF ReplayClaim
<1>7. ASSUME ReplayRemoves \/ Start \/ Crash PROVE RemovalEarned'
  BY <1>2, <1>3, <1>7 DEF ReplayRemoves, Start, Crash, Idle
<1> QED
  BY <1>1, <1>4, <1>5, <1>6, <1>7 DEF Next, vars, FlushStep, ReplayStep, Persist,
     FundsLand, CheckGuard, Buffer, FlushWithdrawals, Parse, FlushAnswered, FlushFrees,
     FlushRemoves, FundsMove, Tick

LEMMA KeptStep ==
    ASSUME KeepInv, [Next]_vars
    PROVE  KeyKeptUntilSwept'
<1>1. SUFFICES ASSUME NEW k \in recovered', funds'[k] # "swept" PROVE k \in store'
  BY DEF KeyKeptUntilSwept
<1>2. CASE k \in recovered
  <2>1. k \in Key
    BY <1>2 DEF KeepInv, TypeOK
  <2>2. funds[k] # "swept" /\ k \in store
    BY <1>1, <1>2, <2>1, SweptForGood DEF KeepInv, KeyKeptUntilSwept
  <2>3. ASSUME NEW f \in flushes, FlushRemoves(f) PROVE k \in store'
    <3>1. \A n \in f.items : n \in Number
      BY DEF KeepInv, TypeOK
    <3>2. k \notin KeysOf(Done(f.items))
      BY <2>2, <3>1 DEF KeysOf, Done, KeepInv, MovesMeanSwept
    <3> QED
      BY <2>2, <2>3, <3>2 DEF FlushRemoves, KeysOf
  <2>4. ASSUME ReplayRemoves PROVE k \in store'
    BY <2>2, <2>4 DEF ReplayRemoves, KeepInv, RemovalEarned
  <2>5. ASSUME FlushStep PROVE k \in store'
    BY <2>2, <2>3, <2>5 DEF FlushStep, Parse, FlushAnswered, FlushFrees
  <2> QED
    BY <2>2, <2>4, <2>5 DEF Next, vars, ReplayStep, Persist, FundsLand, CheckGuard, Buffer,
       FlushWithdrawals, ReplayReads, ReplayNext, ReplayClaim, ReplayAnswered, ReplayFrees,
       FundsMove, Start, Crash, Tick
<1>3. CASE k \notin recovered
  <2>1. Persist(k)
    BY <1>3 DEF Next, vars, FlushStep, ReplayStep, Persist, FundsLand, CheckGuard,
       Buffer, FlushWithdrawals, Parse, FlushAnswered, FlushFrees, FlushRemoves, ReplayReads,
       ReplayNext, ReplayClaim, ReplayAnswered, ReplayFrees, ReplayRemoves, FundsMove, Start,
       Crash, Tick
  <2> QED
    BY <1>3, <2>1 DEF Persist
<1> QED
  BY <1>2, <1>3

(***************************************************************************)
(* Across crashes, races of the two sweepers, failed removals and lost     *)
(* answers, a persisted key is never removed before its funds have moved.  *)
(***************************************************************************)
THEOREM KeysKept == Spec => []KeyKeptUntilSwept
<1>1. Init => MovesMeanSwept /\ RemovalEarned /\ KeyKeptUntilSwept
  <2> SUFFICES ASSUME Init PROVE MovesMeanSwept /\ RemovalEarned /\ KeyKeptUntilSwept
    OBVIOUS
  <2>1. Number = {}
    BY DEF Init, Number
  <2> QED
    BY <2>1 DEF Init, Idle, MovesMeanSwept, RemovalEarned, KeyKeptUntilSwept
<1>2. KeepInv /\ [Next]_vars => MovesMeanSwept' /\ RemovalEarned' /\ KeyKeptUntilSwept'
  BY MovesStep, EarnedStep, KeptStep
<1> QED
  BY <1>1, <1>2, Typed, PTL DEF Spec, KeepInv

-----------------------------------------------------------------------------
(***************************************************************************)
(* The replay takes up every key it read.                                  *)
(***************************************************************************)
LEMMA FreshStep ==
    ASSUME TypeOK, ReplayFresh, [Next]_vars
    PROVE  ReplayFresh'
<1>1. replay \in Replay /\ Continue.step = "next"
  BY DEF TypeOK, Continue, Replay
<1>2. ASSUME UNCHANGED <<up, replay>> PROVE ReplayFresh'
  BY <1>2 DEF ReplayFresh
<1>3. ASSUME ReplayStep PROVE ReplayFresh'
  <2>1. up' = up /\ up
    <3>1. up' = up
      BY <1>3 DEF ReplayStep, ReplayReads, ReplayNext, ReplayClaim, ReplayAnswered,
         ReplayFrees, ReplayRemoves
    <3>2. replay.step # "next" \/ replay.todo # {}
      BY <1>3 DEF ReplayStep, ReplayReads, ReplayNext, ReplayClaim, ReplayAnswered,
         ReplayFrees, ReplayRemoves
    <3> QED
      BY <3>1, <3>2 DEF ReplayFresh, Idle
  <2>2. replay'.step # "iter"
    <3>1. CASE ReplayReads
      BY <1>1, <3>1 DEF ReplayReads, Replay
    <3>2. CASE ReplayNext
      BY <1>1, <3>2 DEF ReplayNext, Replay
    <3>3. CASE ReplayClaim
      <4>1. [replay EXCEPT !.step = "sweep", !.item = Len(sweeps) + 1].step = "sweep"
        BY <1>1 DEF Replay
      <4> QED
        BY <1>1, <3>3, <4>1 DEF ReplayClaim
    <3>4. CASE ReplayAnswered
      BY <1>1, <3>4 DEF ReplayAnswered, Replay
    <3>5. CASE ReplayFrees
      BY <1>1, <3>5 DEF ReplayFrees, Replay
    <3>6. CASE ReplayRemoves
      BY <1>1, <3>6 DEF ReplayRemoves
    <3> QED
      BY <1>3, <3>1, <3>2, <3>3, <3>4, <3>5, <3>6 DEF ReplayStep
  <2> QED
    BY <2>1, <2>2 DEF ReplayFresh, TypeOK
<1>4. ASSUME Start \/ Crash PROVE ReplayFresh'
  BY <1>4 DEF Start, Crash, ReplayFresh, Idle
<1> QED
  BY <1>2, <1>3, <1>4 DEF Next, vars, FlushStep, Persist, FundsLand, CheckGuard, Buffer,
     FlushWithdrawals, Parse, FlushAnswered, FlushFrees, FlushRemoves, FundsMove, Tick

(***************************************************************************)
(* A failed sweep, an unusable key or a guard held by another never makes  *)
(* the replay lose a key it still has to do.                               *)
(***************************************************************************)
THEOREM ReplayKeepsKeys == Spec => ReplayNeverDropsKey
<1> DEFINE Kept == \A k \in replay.todo : up' => k \in replay'.todo \/ guard[k] > 0 \/ replay'.key = k
<1>1. Init => ReplayFresh
  BY DEF Init, ReplayFresh, Idle
<1>2. TypeOK /\ ReplayFresh /\ [Next]_vars => ReplayFresh'
  BY FreshStep
<1>3. TypeOK /\ ReplayFresh /\ [Next]_vars => [Kept]_vars
  <2> SUFFICES ASSUME TypeOK, ReplayFresh, [Next]_vars, NEW k \in replay.todo, up'
               PROVE  k \in replay'.todo \/ guard[k] > 0 \/ replay'.key = k
    OBVIOUS
  <2>1. replay \in Replay /\ Continue.todo = replay.todo /\ guard[k] \in Nat
    BY DEF TypeOK, Continue, Replay
  <2>2. CASE ReplayReads \/ Start
    BY <2>2 DEF ReplayReads, Start, ReplayFresh, Idle
  <2>3. CASE ReplayNext
    <3>1. PICK j \in replay.todo :
             replay' = [replay EXCEPT !.todo = @ \ {j},
                                      !.step = IF Free(j) THEN "claim" ELSE "next",
                                      !.key  = IF Free(j) THEN j ELSE NoKey]
      BY <2>3 DEF ReplayNext
    <3>2. /\ replay'.todo = replay.todo \ {j}
          /\ replay'.key = IF Free(j) THEN j ELSE NoKey
      BY <2>1, <3>1 DEF Replay
    <3> QED
      BY <2>1, <3>2 DEF Free
  <2>4. CASE ReplayClaim
    <3>1. [replay EXCEPT !.step = "sweep", !.item = Len(sweeps) + 1].todo = replay.todo
      BY <2>1 DEF Replay
    <3> QED
      BY <2>1, <2>4, <3>1 DEF ReplayClaim
  <2>5. CASE ReplayAnswered
    BY <2>1, <2>5 DEF ReplayAnswered, Replay
  <2>6. CASE ReplayFrees
    BY <2>1, <2>6 DEF ReplayFrees, Replay
  <2>7. CASE ReplayRemoves
    BY <2>1, <2>7 DEF ReplayRemoves
  <2> QED
    BY <2>2, <2>3, <2>4, <2>5, <2>6, <2>7 DEF Next, vars, FlushStep, ReplayStep, Persist,
       FundsLand, CheckGuard, Buffer, FlushWithdrawals, Parse, FlushAnswered, FlushFrees,
       FlushRemoves, FundsMove, Crash, Tick
<1> QED
  BY <1>1, <1>2, <1>3, Typed, PTL DEF Spec, ReplayNeverDropsKey

-----------------------------------------------------------------------------
(***************************************************************************)
(* Where a sweep is.  A flush only ever narrows down, and the replay works *)
(* on one sweep at a time, so that the places of a sweep stay apart.       *)
(***************************************************************************)
LEMMA PlacesTyped ==
    ASSUME TypeOK, ReplayKnows
    PROVE  /\ Held \subseteq Number /\ Unanswered \subseteq Held
           /\ \A n \in Held : n \in Nat /\ KeyOf(n) \in Key
<1>1. buffer \subseteq Number /\ \A f \in flushes : f.items \subseteq Number
  BY DEF TypeOK
<1>2. Replayed \subseteq Number
  BY DEF Replayed, ReplayKnows
<1>3. Held \subseteq Number
  BY <1>1, <1>2 DEF Held, Flushing
<1>4. Unanswered \subseteq Held
  <2>1. \A f \in flushes : f.step \in {"parse", "sweep"} => f.items \subseteq Flushing
    BY DEF Flushing
  <2>2. UNION {f.items : f \in {g \in flushes : g.step \in {"parse", "sweep"}}} \subseteq Flushing
    BY <2>1
  <2>3. (IF replay.step = "sweep" THEN {replay.item} ELSE {}) \subseteq Replayed
    BY DEF Replayed
  <2> QED
    BY <2>2, <2>3 DEF Unanswered, Held
<1> QED
  BY <1>3, <1>4, NumberedSweeps DEF TypeOK

\* A key someone is responsible for is the key of a sweep that is held.
LEMMA ResponsibleHolds ==
    ASSUME TypeOK, ReplayKnows, NEW k
    PROVE  Responsible(k) <=> \E n \in Held : KeyOf(n) = k
<1>1. ASSUME Responsible(k) PROVE \E n \in Held : KeyOf(n) = k
  BY <1>1 DEF Responsible, KeysOf, Held, Flushing, Replayed, ReplayKnows
<1>2. ASSUME NEW n \in Held, KeyOf(n) = k PROVE Responsible(k)
  BY <1>2 DEF Responsible, KeysOf, Held, Flushing, Replayed, ReplayKnows
<1> QED
  BY <1>1, <1>2

LEMMA ApartNarrows ==
    ASSUME PlacesApart, NEW f \in flushes, NEW g, g.items \subseteq f.items,
           flushes' = Become(f, {g}) \/ flushes' = Become(f, {}),
           UNCHANGED <<buffer, replay>>
    PROVE  PlacesApart'
<1>1. \A h \in flushes' : h = g \/ (h \in flushes /\ h # f)
  BY DEF Become
<1>2. Replayed' = Replayed /\ buffer' = buffer
  BY DEF Replayed
<1>3. \A h \in flushes' : h.items \cap buffer = {} /\ Replayed \cap h.items = {}
  BY <1>1 DEF PlacesApart
<1>4. ASSUME NEW h \in flushes', NEW i \in flushes', h # i PROVE h.items \cap i.items = {}
  BY <1>1, <1>4 DEF PlacesApart
<1> QED
  BY <1>2, <1>3, <1>4 DEF PlacesApart

LEMMA ApartStep ==
    ASSUME TypeOK, ReplayKnows, PlacesApart, [Next]_vars
    PROVE  PlacesApart'
<1>1. /\ replay \in Replay /\ Continue.step = "next"
      /\ \A f \in flushes : f \in Flush /\ f.items \subseteq Number
      /\ buffer \subseteq Number /\ Replayed \subseteq Number
      /\ Len(sweeps) \in Nat
  BY PlacesTyped, NumberedSweeps DEF TypeOK, Continue, Replay, Held
<1>2. Len(sweeps) + 1 \notin Number
  BY <1>1 DEF Number
<1>3. ASSUME UNCHANGED <<buffer, flushes>>, Replayed' \subseteq Replayed PROVE PlacesApart'
  BY <1>3 DEF PlacesApart
<1>4. ASSUME UNCHANGED <<buffer, flushes, replay>> PROVE PlacesApart'
  BY <1>3, <1>4 DEF Replayed
<1>5. CASE Buffer
  <2>1. flushes' = flushes /\ Replayed' = Replayed /\ buffer' = buffer \cup {Len(sweeps) + 1}
    BY <1>5 DEF Buffer, Replayed
  <2> QED
    BY <1>1, <1>2, <2>1 DEF PlacesApart
<1>6. CASE FlushWithdrawals
  <2>1. /\ Replayed' = Replayed /\ buffer' = {}
        /\ flushes' = flushes \cup {[items |-> buffer, step |-> "parse"]}
    BY <1>6 DEF FlushWithdrawals, Replayed
  <2>2. \A h \in flushes' : h.items = buffer \/ h \in flushes
    BY <2>1
  <2>3. ASSUME NEW h \in flushes', NEW i \in flushes', h # i PROVE h.items \cap i.items = {}
    BY <2>1, <2>3 DEF PlacesApart
  <2> QED
    BY <2>1, <2>2, <2>3 DEF PlacesApart
<1>7. ASSUME NEW f \in flushes, Parse(f) PROVE PlacesApart'
  <2> DEFINE bad == {n \in f.items : KeyOf(n) \in BadKey}
             g == [items |-> f.items \ bad, step |-> "sweep"]
  <2>1. flushes' = Become(f, {g}) \/ flushes' = Become(f, {})
    BY <1>7 DEF Parse
  <2>2. g.items \subseteq f.items /\ UNCHANGED <<buffer, replay>>
    BY <1>7 DEF Parse
  <2> QED
    BY <2>1, <2>2, ApartNarrows
<1>8. ASSUME NEW f \in flushes, FlushAnswered(f) \/ FlushFrees(f) \/ FlushRemoves(f)
      PROVE  PlacesApart'
  <2>1. /\ [f EXCEPT !.step = "free"].items \subseteq f.items
        /\ [f EXCEPT !.step = "remove"].items \subseteq f.items
    BY <1>1 DEF Flush
  <2> QED
    BY <1>8, <2>1, ApartNarrows DEF FlushAnswered, FlushFrees, FlushRemoves
<1>9. CASE ReplayReads \/ ReplayNext \/ ReplayRemoves \/ Start
  <2>1. replay'.step \in {"next", "claim", "iter"}
    <3>1. CASE ReplayReads
      BY <1>1, <3>1 DEF ReplayReads, Replay
    <3>2. CASE ReplayNext
      BY <1>1, <3>2 DEF ReplayNext, Replay
    <3> QED
      BY <1>1, <1>9, <3>1, <3>2 DEF ReplayRemoves, Start, Idle
  <2> QED
    BY <1>3, <1>9, <2>1 DEF ReplayReads, ReplayNext, ReplayRemoves, Start, Replayed
<1>10. CASE ReplayClaim
  <2>1. [replay EXCEPT !.step = "sweep", !.item = Len(sweeps) + 1].item = Len(sweeps) + 1
    BY <1>1 DEF Replay
  <2>2. Replayed' \subseteq {Len(sweeps) + 1} /\ UNCHANGED <<buffer, flushes>>
    BY <1>1, <1>10, <2>1 DEF ReplayClaim, Replayed
  <2> QED
    BY <1>1, <1>2, <2>2 DEF PlacesApart
<1>11. CASE ReplayAnswered
  <2>1. replay'.item = replay.item
    BY <1>1, <1>11 DEF ReplayAnswered, Replay
  <2> QED
    BY <1>3, <1>11, <2>1 DEF ReplayAnswered, Replayed
<1>12. CASE ReplayFrees
  <2>1. replay'.step \in {"next", "remove"}
    BY <1>1, <1>12 DEF ReplayFrees, Replay
  <2> QED
    BY <1>3, <1>12, <2>1 DEF ReplayFrees, Replayed
<1>13. CASE Crash
  BY <1>13 DEF Crash, Idle, PlacesApart, Replayed
<1>14. CASE FlushStep
  BY <1>7, <1>8, <1>14 DEF FlushStep
<1>15. CASE ReplayStep
  BY <1>9, <1>10, <1>11, <1>12, <1>15 DEF ReplayStep
<1> QED
  BY <1>4, <1>5, <1>6, <1>9, <1>13, <1>14, <1>15 DEF Next, vars, Persist, FundsLand, CheckGuard,
     FundsMove, Tick

(***************************************************************************)
(* What a step does to the sweeps that are held.                           *)
(***************************************************************************)
LEMMA FlushNarrows ==
    ASSUME PlacesApart, NEW f \in flushes, f.step # "remove", NEW g,
           g.items \subseteq f.items,
           \/ flushes' = Become(f, {g}) /\ g.step # "remove"
           \/ flushes' = Become(f, {}) /\ g.items = {},
           UNCHANGED <<buffer, replay>>
    PROVE  Held' = Held \ (f.items \ g.items)
<1>1. buffer' = buffer /\ Replayed' = Replayed
  BY DEF Replayed
<1>2. \A n : n \in Flushing' <=> n \in Flushing /\ n \notin f.items \ g.items
  <2> TAKE n
  <2>1. n \in Flushing <=> \E h \in flushes : h.step # "remove" /\ n \in h.items
    BY DEF Flushing
  <2>2. n \in Flushing' <=> \E h \in flushes' : h.step # "remove" /\ n \in h.items
    BY DEF Flushing
  <2>3. \A h \in flushes : h # f => h.items \cap f.items = {}
    BY DEF PlacesApart
  <2> QED
    BY <2>1, <2>2, <2>3 DEF Become
<1> QED
  BY <1>1, <1>2 DEF Held, PlacesApart

LEMMA HeldKept ==
    ASSUME UNCHANGED <<buffer, flushes>>, Replayed' = Replayed
    PROVE  Held' = Held
BY DEF Held, Flushing

\* An exclusive guard stays so while nothing is claimed and the freed sweeps are dropped.
LEMMA ExclusiveFreed ==
    ASSUME TypeOK, ReplayKnows, GuardExclusive, Extended(Sweep),
           NEW items, items \subseteq Held, Held' \subseteq Held \ items,
           guard' = FreeAll(items), UNCHANGED broken
    PROVE  GuardExclusive'
<1>1. \A n \in Held : KeyOf(n)' = KeyOf(n) /\ KeyOf(n) \in Key
  BY PlacesTyped DEF Extended
<1>2. ASSUME NEW n \in Held', KeyOf(n) \notin broken PROVE guard'[KeyOf(n)] > 0
  <2>1. KeyOf(n) \notin KeysOf(items)
    BY <1>2 DEF GuardExclusive, KeysOf
  <2>2. guard'[KeyOf(n)] = guard[KeyOf(n)]
    BY <1>1, <1>2, <2>1 DEF FreeAll
  <2> QED
    BY <1>2, <2>2 DEF GuardExclusive
<1> QED
  BY <1>1, <1>2 DEF GuardExclusive

LEMMA ExclusiveKept ==
    ASSUME TypeOK, ReplayKnows, GuardExclusive, Extended(Sweep),
           Held' \subseteq Held, UNCHANGED <<guard, broken>>
    PROVE  GuardExclusive'
<1>1. \A n \in Held : KeyOf(n)' = KeyOf(n)
  BY PlacesTyped DEF Extended
<1> QED
  BY <1>1 DEF GuardExclusive

\* A claim either breaks the key or finds nobody responsible for it.
LEMMA ExclusiveClaimed ==
    ASSUME TypeOK, ReplayKnows, GuardExclusive, Extended(Sweep),
           NEW k \in Key, Claimed(k), NEW new, Held' \subseteq Held \cup new,
           \A n \in new : n = Len(sweeps) + 1 /\ KeyOf(n)' = k
    PROVE  GuardExclusive'
<1>1. \A n \in Held : n \in Number /\ KeyOf(n)' = KeyOf(n) /\ KeyOf(n) \in Key
  BY PlacesTyped DEF Extended
<1>2. guard \in [Key -> 0..GuardTTL] /\ GuardTTL > 0
  BY RecoveryAssumption DEF TypeOK
<1>3. ASSUME k \notin broken' PROVE \A n \in Held : KeyOf(n) # k
  <2>1. ~(guard[k] > 0)
    BY <1>3 DEF Claimed
  <2>2. Responsible(k) => k \notin broken
    BY <1>3, <2>1 DEF Claimed
  <2>3. \A n \in Held : KeyOf(n) = k => k \in broken
    BY <2>1 DEF GuardExclusive
  <2> QED
    BY <2>2, <2>3, ResponsibleHolds
<1>4. \A j \in Key : j # k => (j \in broken' <=> j \in broken) /\ guard'[j] = guard[j]
  BY <1>2 DEF Claimed, Hold
<1>5. guard'[k] = GuardTTL
  BY <1>2 DEF Claimed, Hold
<1>6. ASSUME NEW m \in Held', NEW n \in Held', KeyOf(m)' = KeyOf(n)', KeyOf(n)' \notin broken'
      PROVE  m = n
  <2>1. CASE m \in Held /\ n \in Held
    BY <1>1, <1>3, <1>4, <1>6, <2>1 DEF GuardExclusive
  <2>2. CASE m \in new \/ n \in new
    BY <1>1, <1>3, <1>6, <2>2
  <2> QED
    BY <2>1, <2>2
<1>7. ASSUME NEW n \in Held', KeyOf(n)' \notin broken' PROVE guard'[KeyOf(n)'] > 0
  <2>1. CASE n \in new \/ KeyOf(n)' = k
    BY <1>2, <1>5, <2>1
  <2>2. CASE n \in Held /\ KeyOf(n)' # k
    <3>1. KeyOf(n) \in Key /\ KeyOf(n) # k /\ KeyOf(n) \notin broken
      BY <1>1, <1>4, <1>7, <2>2
    <3> QED
      BY <1>1, <1>4, <2>2, <3>1 DEF GuardExclusive
  <2> QED
    BY <2>1, <2>2
<1> QED
  BY <1>6, <1>7 DEF GuardExclusive

LEMMA ExclusiveTick ==
    ASSUME TypeOK, ReplayKnows, GuardExclusive, Extended(Sweep), Tick
    PROVE  GuardExclusive'
<1>1. Held' = Held
  BY HeldKept DEF Tick, Replayed
<1>2. \A n \in Held : KeyOf(n)' = KeyOf(n) /\ KeyOf(n) \in Key /\ Responsible(KeyOf(n))
  BY PlacesTyped, ResponsibleHolds DEF Extended
<1>3. broken \subseteq broken'
  BY DEF Tick
<1>4. ASSUME NEW n \in Held, KeyOf(n) \notin broken' PROVE guard'[KeyOf(n)] > 0
  <2>1. guard[KeyOf(n)] \in Nat /\ guard[KeyOf(n)] > 0 /\ guard[KeyOf(n)] # 1
    BY <1>2, <1>3, <1>4 DEF GuardExclusive, Tick, TypeOK
  <2>2. guard'[KeyOf(n)] = Down(guard[KeyOf(n)])
    BY <1>2 DEF Tick
  <2> QED
    BY <2>1, <2>2 DEF Down
<1> QED
  BY <1>1, <1>2, <1>3, <1>4 DEF GuardExclusive

LEMMA ExclusiveStep ==
    ASSUME OverlapInv, [Next]_vars
    PROVE  GuardExclusive'
<1> USE DEF OverlapInv
<1>1. /\ Extended(Sweep) /\ replay \in Replay /\ Continue.step = "next"
      /\ sweeps \in Seq(Sweep)
      /\ \A f \in flushes : f \in Flush
  BY HistoryStep DEF TypeOK, Continue, Replay
<1>2. ASSUME Held' \subseteq Held, UNCHANGED <<guard, broken>> PROVE GuardExclusive'
  BY <1>1, <1>2, ExclusiveKept
<1>3. ASSUME UNCHANGED <<buffer, flushes, replay, guard, broken>> PROVE GuardExclusive'
  BY <1>2, <1>3, HeldKept DEF Replayed
<1>4. CASE Buffer
  <2>1. handling.key \in Key
    BY <1>4 DEF Buffer, TypeOK, Quiet
  <2>2. Held' \subseteq Held \cup {Len(sweeps) + 1} /\ Claimed(handling.key)
    BY <1>4 DEF Buffer, Held, Flushing, Replayed
  <2>3. sweeps'[Len(sweeps) + 1] = [key |-> handling.key, moved |-> FALSE, answer |-> "none"]
    BY <1>1, <1>4, <2>1, Appended DEF Buffer
  <2>4. \A n \in {Len(sweeps) + 1} : n = Len(sweeps) + 1 /\ KeyOf(n)' = handling.key
    BY <2>3 DEF KeyOf
  <2> QED
    BY <1>1, <2>1, <2>2, <2>4, ExclusiveClaimed
<1>5. CASE FlushWithdrawals
  <2>1. Flushing' = Flushing \cup buffer
    <3> DEFINE new == [items |-> buffer, step |-> "parse"]
    <3>1. flushes' = flushes \cup {new} /\ new.items = buffer /\ new.step # "remove"
      BY <1>5 DEF FlushWithdrawals
    <3> HIDE DEF new
    <3> QED
      BY <3>1 DEF Flushing
  <2>2. Held' = Held
    BY <1>5, <2>1 DEF FlushWithdrawals, Held, Replayed
  <2> QED
    BY <1>2, <1>5, <2>2 DEF FlushWithdrawals
<1>6. ASSUME NEW f \in flushes, Parse(f) PROVE GuardExclusive'
  <2> DEFINE bad == {n \in f.items : KeyOf(n) \in BadKey}
             g == [items |-> f.items \ bad, step |-> "sweep"]
  <2>1. bad \subseteq Held
    BY <1>6 DEF Parse, Held, Flushing
  <2>2. /\ g.items \subseteq f.items /\ g.step # "remove" /\ f.items \ g.items = bad
        /\ f.step # "remove" /\ UNCHANGED <<buffer, replay>>
        /\ \/ flushes' = Become(f, {g}) /\ g.step # "remove"
           \/ flushes' = Become(f, {}) /\ g.items = {}
    BY <1>6 DEF Parse
  <2>3. guard' = FreeAll(bad) /\ UNCHANGED broken
    BY <1>6 DEF Parse
  <2> HIDE DEF bad, g
  <2>4. Held' = Held \ bad
    BY <2>2, FlushNarrows
  <2> QED
    BY <1>1, <2>1, <2>3, <2>4, ExclusiveFreed
<1>7. ASSUME NEW f \in flushes, FlushAnswered(f) PROVE GuardExclusive'
  <2> DEFINE g == [f EXCEPT !.step = "free"]
  <2>1. f.step # "remove" /\ g.items = f.items /\ g.step # "remove"
    BY <1>1, <1>7 DEF FlushAnswered, Flush
  <2>2. flushes' = Become(f, {g}) /\ UNCHANGED <<buffer, replay, guard, broken>>
    BY <1>7 DEF FlushAnswered
  <2> HIDE DEF g
  <2>3. Held' = Held \ (f.items \ g.items)
    BY <2>1, <2>2, FlushNarrows
  <2> QED
    BY <1>2, <2>2, <2>3
<1>8. ASSUME NEW f \in flushes, FlushFrees(f) PROVE GuardExclusive'
  <2> DEFINE g == [f EXCEPT !.step = "remove"]
  <2>1. f.step = "free" /\ g.items = f.items /\ g.step = "remove"
    BY <1>1, <1>8 DEF FlushFrees, Flush
  <2>2. /\ flushes' = Become(f, {g}) /\ guard' = FreeAll(f.items)
        /\ UNCHANGED <<buffer, replay, broken>>
    BY <1>8 DEF FlushFrees
  <2> HIDE DEF g
  <2>3. f.items \subseteq Held
    BY <2>1 DEF Held, Flushing
  <2>4. \A n \in Flushing' : n \in Flushing /\ n \notin f.items
    BY <2>1, <2>2 DEF Flushing, Become, PlacesApart
  <2>5. Held' \subseteq Held \ f.items
    BY <2>2, <2>4 DEF Held, Replayed, PlacesApart
  <2> QED
    BY <1>1, <2>2, <2>3, <2>5, ExclusiveFreed
<1>9. ASSUME NEW f \in flushes, FlushRemoves(f) PROVE GuardExclusive'
  <2>1. flushes' \subseteq flushes /\ UNCHANGED <<buffer, replay, guard, broken>>
    BY <1>9 DEF FlushRemoves, Become
  <2>2. Held' \subseteq Held
    BY <2>1 DEF Held, Flushing, Replayed
  <2> QED
    BY <1>2, <2>1, <2>2
<1>10. CASE ReplayReads \/ ReplayNext \/ ReplayRemoves \/ Start
  <2>1. replay'.step \in {"next", "claim", "iter"}
    <3>1. CASE ReplayReads
      BY <1>1, <3>1 DEF ReplayReads, Replay
    <3>2. CASE ReplayNext
      BY <1>1, <3>2 DEF ReplayNext, Replay
    <3> QED
      BY <1>1, <1>10, <3>1, <3>2 DEF ReplayRemoves, Start, Idle
  <2>2. UNCHANGED <<buffer, flushes, guard, broken>>
    BY <1>10 DEF ReplayReads, ReplayNext, ReplayRemoves, Start
  <2>3. Held' \subseteq Held
    BY <2>1, <2>2 DEF Held, Flushing, Replayed
  <2> QED
    BY <1>2, <2>2, <2>3
<1>11. CASE ReplayClaim
  <2>1. replay.key \in Key /\ Claimed(replay.key) /\ UNCHANGED <<buffer, flushes>>
    BY <1>11 DEF ReplayClaim, ReplayKnows
  <2>2. CASE replay.key \in BadKey
    <3>1. replay'.step = "next"
      BY <1>1, <1>11, <2>2 DEF ReplayClaim
    <3> DEFINE new == {}
    <3>2. Held' \subseteq Held \cup new
      BY <2>1, <3>1 DEF Held, Flushing, Replayed
    <3>3. \A n \in new : n = Len(sweeps) + 1 /\ KeyOf(n)' = replay.key
      OBVIOUS
    <3> HIDE DEF new
    <3> QED
      BY <1>1, <2>1, <3>2, <3>3, ExclusiveClaimed
  <2>3. CASE replay.key \notin BadKey
    <3>1. replay' = [replay EXCEPT !.step = "sweep", !.item = Len(sweeps) + 1]
          /\ sweeps' = NewSweep(replay.key)
      BY <1>11, <2>3 DEF ReplayClaim
    <3>2. replay'.item = Len(sweeps) + 1
      BY <1>1, <3>1 DEF Replay
    <3>3. Held' \subseteq Held \cup {Len(sweeps) + 1}
      BY <2>1, <3>2 DEF Held, Flushing, Replayed
    <3>4. sweeps'[Len(sweeps) + 1] = [key |-> replay.key, moved |-> FALSE, answer |-> "none"]
      BY <1>1, <2>1, <3>1, Appended
    <3>5. \A n \in {Len(sweeps) + 1} : n = Len(sweeps) + 1 /\ KeyOf(n)' = replay.key
      BY <3>4 DEF KeyOf
    <3> QED
      BY <1>1, <2>1, <3>3, <3>5, ExclusiveClaimed
  <2> QED
    BY <2>2, <2>3
<1>12. CASE ReplayAnswered
  <2>1. replay'.item = replay.item /\ replay'.step = "free"
    BY <1>1, <1>12 DEF ReplayAnswered, Replay
  <2>2. Held' = Held
    BY <1>12, <2>1, HeldKept DEF ReplayAnswered, Replayed
  <2> QED
    BY <1>2, <1>12, <2>2 DEF ReplayAnswered
<1>13. CASE ReplayFrees
  <2>1. replay'.step \in {"next", "remove"}
    BY <1>1, <1>13 DEF ReplayFrees, Replay
  <2>2. /\ guard' = FreeAll({replay.item}) /\ replay.step = "free"
        /\ UNCHANGED <<buffer, flushes, broken>>
    BY <1>13 DEF ReplayFrees
  <2>3. Replayed = {replay.item} /\ Replayed' = {}
    BY <2>1, <2>2 DEF Replayed
  <2>4. {replay.item} \subseteq Held /\ Held' \subseteq Held \ {replay.item}
    BY <2>2, <2>3 DEF Held, Flushing, PlacesApart
  <2> QED
    BY <1>1, <2>2, <2>4, ExclusiveFreed
<1>14. CASE Crash
  <2>1. Held' = {}
    BY <1>14 DEF Crash, Idle, Held, Flushing, Replayed
  <2> QED
    BY <2>1 DEF GuardExclusive
<1>15. CASE Tick
  BY <1>1, <1>15, ExclusiveTick
<1>16. CASE FlushStep
  BY <1>6, <1>7, <1>8, <1>9, <1>16 DEF FlushStep
<1>17. CASE ReplayStep
  BY <1>10, <1>11, <1>12, <1>13, <1>17 DEF ReplayStep
<1> QED
  BY <1>3, <1>4, <1>5, <1>10, <1>14, <1>15, <1>16, <1>17 DEF Next, vars, Persist, FundsLand,
     CheckGuard, FundsMove

(***************************************************************************)
(* A sweep without an answer stays where it will be answered.              *)
(***************************************************************************)
LEMMA PendingStep ==
    ASSUME OverlapInv, [Next]_vars
    PROVE  PendingPlaced'
<1> USE DEF OverlapInv
<1>1. /\ Extended(Sweep) /\ replay \in Replay /\ sweeps \in Seq(Sweep)
      /\ DOMAIN sweeps = Number /\ \A n \in Number : sweeps[n] \in Sweep
      /\ \A f \in flushes : f \in Flush
  BY HistoryStep, NumberedSweeps DEF TypeOK
<1> DEFINE Opening == UNION {f.items : f \in {g \in flushes : g.step \in {"parse", "sweep"}}}
           InReplay == IF replay.step = "sweep" THEN {replay.item} ELSE {}
<1>2. Unanswered = (buffer \cup Opening) \cup InReplay
  BY DEF Unanswered
<1>3. \A n : n \in Opening <=> \E f \in flushes : f.step \in {"parse", "sweep"} /\ n \in f.items
  OBVIOUS
<1>4. \A n : n \in Opening' <=> \E f \in flushes' : f.step \in {"parse", "sweep"} /\ n \in f.items
  OBVIOUS
<1>5. Unanswered' = (buffer' \cup Opening') \cup InReplay'
  BY DEF Unanswered
<1>6. UNCHANGED flushes => Opening' = Opening
  OBVIOUS
<1>7. UNCHANGED replay => InReplay' = InReplay
  OBVIOUS
<1>8. \A n \in Number : Sweeping(n) => n \in Unanswered
  BY DEF PendingPlaced
<1> HIDE DEF Opening
<1>9. ASSUME \A n \in Number' : sweeps'[n].answer = "none" => n \in Unanswered'
      PROVE  PendingPlaced'
  BY <1>9 DEF PendingPlaced, Sweeping
<1>10. ASSUME UNCHANGED sweeps, Unanswered \subseteq Unanswered' PROVE PendingPlaced'
  BY <1>8, <1>9, <1>10 DEF Sweeping, Number
<1>11. ASSUME NEW k \in Key, sweeps' = NewSweep(k), Unanswered \subseteq Unanswered',
              Len(sweeps) + 1 \in Unanswered'
       PROVE  PendingPlaced'
  <2>1. /\ \A n \in Number : sweeps'[n] = sweeps[n]
        /\ Number' = Number \cup {Len(sweeps) + 1}
    BY <1>1, <1>11, Appended
  <2> QED
    BY <1>8, <1>9, <1>11, <2>1 DEF Sweeping
<1>12. ASSUME Len(sweeps') = Len(sweeps),
              \A n \in Number : sweeps'[n].answer = "none" =>
                  Sweeping(n) /\ (n \in Unanswered => n \in Unanswered')
       PROVE  PendingPlaced'
  BY <1>8, <1>9, <1>12 DEF Number
<1>13. ASSUME UNCHANGED <<buffer, flushes>>, replay.step # "sweep"
       PROVE  Unanswered \subseteq Unanswered'
  BY <1>2, <1>5, <1>6, <1>13
<1>14. ASSUME UNCHANGED <<buffer, flushes, replay>> PROVE Unanswered' = Unanswered
  BY <1>2, <1>5, <1>6, <1>7, <1>14
<1>15. CASE Buffer
  <2>1. handling.key \in Key
    BY <1>15 DEF Buffer, TypeOK, Quiet
  <2>2. Opening' = Opening /\ InReplay' = InReplay /\ buffer' = buffer \cup {Len(sweeps) + 1}
    BY <1>6, <1>7, <1>15 DEF Buffer
  <2>3. Unanswered \subseteq Unanswered' /\ Len(sweeps) + 1 \in Unanswered'
    BY <1>2, <1>5, <2>2
  <2> QED
    BY <1>11, <1>15, <2>1, <2>3 DEF Buffer
<1>16. CASE FlushWithdrawals
  <2> DEFINE new == [items |-> buffer, step |-> "parse"]
  <2>1. flushes' = flushes \cup {new} /\ new.items = buffer /\ new.step = "parse"
        /\ UNCHANGED <<replay, sweeps>>
    BY <1>16 DEF FlushWithdrawals
  <2> HIDE DEF new
  <2>2. \A n : n \in Opening \/ n \in buffer => n \in Opening'
    BY <1>3, <1>4, <2>1
  <2>3. Unanswered \subseteq Unanswered'
    BY <1>2, <1>5, <1>7, <2>1, <2>2
  <2> QED
    BY <1>10, <2>1, <2>3
<1>17. ASSUME NEW f \in flushes, Parse(f) PROVE PendingPlaced'
  <2> DEFINE bad == {n \in f.items : KeyOf(n) \in BadKey}
             g == [items |-> f.items \ bad, step |-> "sweep"]
  <2>1. sweeps' = [n \in DOMAIN sweeps |->
                     IF n \in bad THEN [sweeps[n] EXCEPT !.answer = "error"] ELSE sweeps[n]]
    BY <1>17 DEF Parse
  <2>2. g.items = f.items \ bad /\ g.step = "sweep" /\ UNCHANGED <<buffer, replay>>
        /\ (flushes' = Become(f, {g}) \/ (flushes' = Become(f, {}) /\ f.items \subseteq bad))
    BY <1>17 DEF Parse
  <2>3. Len(sweeps') = Len(sweeps)
    <3>1. \A n \in Number : /\ sweeps'[n] \in Sweep
                            /\ sweeps'[n].key = sweeps[n].key
                            /\ sweeps'[n].moved = sweeps[n].moved
      BY <1>1, <2>1 DEF Sweep
    <3> QED
      BY <1>1, <2>1, <3>1, Rewritten
  <2>4. \A n \in Number : n \in bad => sweeps'[n].answer = "error"
    BY <1>1, <2>1 DEF Sweep
  <2>5. \A n \in Number : n \notin bad => sweeps'[n] = sweeps[n]
    BY <1>1, <2>1
  <2> HIDE DEF bad, g
  <2>6. \A n : n \in Opening /\ n \notin bad => n \in Opening'
    BY <1>3, <1>4, <2>2 DEF Become
  <2>7. \A n : n \in Unanswered /\ n \notin bad => n \in Unanswered'
    BY <1>2, <1>5, <1>7, <2>2, <2>6
  <2> QED
    BY <1>12, <2>3, <2>4, <2>5, <2>7 DEF Sweeping
<1>18. ASSUME NEW items, NEW succeeded, sweeps' = Answered(items, succeeded),
              \A n : n \in Unanswered /\ n \notin items => n \in Unanswered'
       PROVE  PendingPlaced'
  <2>1. \A n \in Number : n \in items => sweeps'[n].answer \in {"ok", "error"}
    BY <1>1, <1>18 DEF Answered, Sweep
  <2>2. \A n \in Number : n \notin items => sweeps'[n] = sweeps[n]
    BY <1>1, <1>18 DEF Answered
  <2>3. Len(sweeps') = Len(sweeps)
    <3>1. \A n \in Number : /\ sweeps'[n] \in Sweep
                            /\ sweeps'[n].key = sweeps[n].key
                            /\ sweeps'[n].moved = sweeps[n].moved
      BY <1>1, <1>18 DEF Sweep, Answered
    <3>2. sweeps' = [n \in DOMAIN sweeps |-> sweeps'[n]]
      BY <1>18 DEF Answered
    <3> QED
      BY <1>1, <3>1, <3>2, Rewritten
  <2> QED
    BY <1>12, <1>18, <2>1, <2>2, <2>3 DEF Sweeping
<1>19. ASSUME NEW f \in flushes, FlushAnswered(f) PROVE PendingPlaced'
  <2>1. flushes' = Become(f, {[f EXCEPT !.step = "free"]}) /\ UNCHANGED <<buffer, replay>>
    BY <1>19 DEF FlushAnswered
  <2>2. \A n : n \in Opening /\ n \notin f.items => n \in Opening'
    BY <1>3, <1>4, <2>1 DEF Become
  <2>3. \A n : n \in Unanswered /\ n \notin f.items => n \in Unanswered'
    BY <1>2, <1>5, <1>7, <2>1, <2>2
  <2> QED
    BY <1>18, <1>19, <2>3 DEF FlushAnswered
<1>20. ASSUME NEW f \in flushes, FlushFrees(f) \/ FlushRemoves(f) PROVE PendingPlaced'
  <2>1. f.step \in {"free", "remove"} /\ UNCHANGED <<buffer, replay, sweeps>>
        /\ flushes \ {f} \subseteq flushes'
    BY <1>20 DEF FlushFrees, FlushRemoves, Become
  <2>2. \A n : n \in Opening => n \in Opening'
    BY <1>3, <1>4, <2>1
  <2>3. Unanswered \subseteq Unanswered'
    BY <1>2, <1>5, <1>7, <2>1, <2>2
  <2> QED
    BY <1>10, <2>1, <2>3
<1>21. CASE ReplayReads \/ ReplayNext \/ ReplayFrees \/ ReplayRemoves \/ Start
  <2>1. replay.step # "sweep" /\ UNCHANGED <<buffer, flushes, sweeps>>
    <3>1. CASE Start
      <4>1. replay.step = "next"
        BY <3>1 DEF Start, ReplayFresh, Idle
      <4> QED
        BY <3>1, <4>1 DEF Start
    <3> QED
      BY <1>21, <3>1 DEF ReplayReads, ReplayNext, ReplayFrees, ReplayRemoves
  <2> QED
    BY <1>10, <1>13, <2>1
<1>22. CASE ReplayClaim
  <2>1. replay.key \in Key /\ replay.step # "sweep" /\ UNCHANGED <<buffer, flushes>>
    BY <1>22 DEF ReplayClaim, ReplayKnows
  <2>2. CASE replay.key \in BadKey
    BY <1>10, <1>13, <1>22, <2>1, <2>2 DEF ReplayClaim
  <2>3. CASE replay.key \notin BadKey
    <3>1. replay' = [replay EXCEPT !.step = "sweep", !.item = Len(sweeps) + 1]
          /\ sweeps' = NewSweep(replay.key)
      BY <1>22, <2>3 DEF ReplayClaim
    <3>2. replay'.item = Len(sweeps) + 1 /\ replay'.step = "sweep"
      BY <1>1, <3>1 DEF Replay
    <3>3. Len(sweeps) + 1 \in Unanswered'
      BY <1>5, <3>2
    <3> QED
      BY <1>11, <1>13, <2>1, <3>1, <3>3
  <2> QED
    BY <2>2, <2>3
<1>23. CASE ReplayAnswered
  <2>1. Opening' = Opening /\ buffer' = buffer /\ replay.step = "sweep"
    BY <1>6, <1>23 DEF ReplayAnswered
  <2>2. \A n : n \in Unanswered /\ n \notin {replay.item} => n \in Unanswered'
    BY <1>2, <1>5, <2>1
  <2> QED
    BY <1>18, <1>23, <2>2 DEF ReplayAnswered
<1>24. ASSUME NEW m \in Number, FundsMove(m) PROVE PendingPlaced'
  <2>1. Len(sweeps') = Len(sweeps) /\ \A n \in Number : sweeps'[n].answer = sweeps[n].answer
    BY <1>1, <1>24, FundsMoved DEF FundsMove
  <2>2. Unanswered' = Unanswered
    BY <1>14, <1>24 DEF FundsMove
  <2> QED
    BY <1>12, <2>1, <2>2 DEF Sweeping
<1>25. CASE Crash
  <2>1. sweeps' = [n \in DOMAIN sweeps |->
                     IF sweeps[n].answer = "none" THEN [sweeps[n] EXCEPT !.answer = "lost"]
                                                  ELSE sweeps[n]]
    BY <1>25 DEF Crash
  <2>2. \A n \in Number : sweeps'[n].answer # "none"
    BY <1>1, <2>1 DEF Sweep
  <2>3. Len(sweeps') = Len(sweeps)
    <3>1. \A n \in Number : /\ sweeps'[n] \in Sweep
                            /\ sweeps'[n].key = sweeps[n].key
                            /\ sweeps'[n].moved = sweeps[n].moved
      BY <1>1, <2>1 DEF Sweep
    <3> QED
      BY <1>1, <2>1, <3>1, Rewritten
  <2> QED
    BY <1>12, <2>2, <2>3
<1>26. ASSUME UNCHANGED <<buffer, flushes, replay, sweeps>> PROVE PendingPlaced'
  BY <1>10, <1>14, <1>26
<1>27. CASE FlushStep
  BY <1>17, <1>19, <1>20, <1>27 DEF FlushStep
<1>28. CASE ReplayStep
  BY <1>21, <1>22, <1>23, <1>28 DEF ReplayStep
<1> QED
  BY <1>15, <1>16, <1>21, <1>24, <1>25, <1>26, <1>27, <1>28 DEF Next, vars, Persist, FundsLand,
     CheckGuard, Tick

LEMMA OverlapInvariant == Spec => []OverlapInv
<1>1. Init => OverlapInv
  <2> SUFFICES ASSUME Init PROVE OverlapInv
    OBVIOUS
  <2>1. TypeOK /\ ReplayKnows
    BY TypedInitially
  <2>2. Number = {} /\ Held = {}
    BY DEF Init, Number, Held, Flushing, Replayed, Idle
  <2> QED
    BY <2>1, <2>2 DEF Init, OverlapInv, ReplayFresh, PlacesApart, PendingPlaced, GuardExclusive,
       Replayed, Idle
<1>2. OverlapInv /\ [Next]_vars => OverlapInv'
  <2> SUFFICES ASSUME OverlapInv, [Next]_vars PROVE OverlapInv'
    OBVIOUS
  <2>1. TypeOK' /\ ReplayKnows' /\ ReplayFresh' /\ PlacesApart'
    BY TypeStep, KnowsStep, FreshStep, ApartStep DEF OverlapInv
  <2> QED
    BY <2>1, PendingStep, ExclusiveStep DEF OverlapInv
<1> QED
  BY <1>1, <1>2, PTL DEF Spec

(***************************************************************************)
(* The guard keeps two sweeps of one key apart unless it lapsed under one  *)
(* of them, or the replay and the event loop both claimed it.              *)
(***************************************************************************)
THEOREM OverlapsExplained == Spec => []SweepsOverlapOnlyIfBroken
<1>1. OverlapInv => SweepsOverlapOnlyIfBroken
  <2> SUFFICES ASSUME OverlapInv, NEW m \in Number, NEW n \in Number, m # n,
                      Sweeping(m), Sweeping(n), KeyOf(m) = KeyOf(n)
               PROVE  KeyOf(n) \in broken
    BY DEF SweepsOverlapOnlyIfBroken
  <2>1. m \in Held /\ n \in Held
    BY PlacesTyped DEF OverlapInv, PendingPlaced
  <2> QED
    BY <2>1 DEF OverlapInv, GuardExclusive
<1> QED
  BY <1>1, OverlapInvariant, PTL

-----------------------------------------------------------------------------
(***************************************************************************)
(* The encrypted store.  What is read back depends on the verifier, the    *)
(* salt and the password of the start agreeing, which no single            *)
(* transaction establishes: the invariant says which of them are in the    *)
(* file at each stage of open.                                             *)
(***************************************************************************)
\* A start past its first transaction has a salt; a verifier is encrypted under the salt of the
\* file; and a store is open under the verifier's password only.
KeysAgree ==
    /\ stage # "closed" => salt # 0
    /\ verifier # Unwritten => verifier.salt = salt /\ salt # 0 /\ verifier.password \in Password
    /\ stage = "open" => verifier = Derived(password)

\* A row neither removed nor damaged is encrypted under the verifier's key, or, if it is older than
\* verifiers, under its own, with the salt of the file; every row, moved or not, holds the secret it
\* was bound to.
RowsAgree ==
    /\ \A i \in Id : inherited[i] # Unwritten => i \in kept /\ salt = Former
    /\ \A i \in kept \ damaged :
          rows[i] = EncryptedUnder(IF inherited[i] = Unwritten THEN verifier ELSE inherited[i], i)
    /\ \A i \in kept \ damaged : inherited[i] = Unwritten => verifier # Unwritten
    /\ \A i \in Id : rows[i] # NoRow => i \in kept \cup damaged /\ rows[i].boundTo = rows[i].secret

StoreInv == StoreTypeOK /\ KeysAgree /\ RowsAgree

-----------------------------------------------------------------------------
\* No salt is drawn under the number 0, so no derived key passes for a missing verifier.
LEMMA DerivedIsWritten ==
    ASSUME salt # 0, NEW p
    PROVE  Derived(p) # Unwritten
BY DEF Derived, Unwritten

\* A row that is there is not taken for a missing one.
LEMMA WrittenRow ==
    ASSUME NEW key \in StoreKey, NEW i \in Id
    PROVE  EncryptedUnder(key, i) \in Row /\ EncryptedUnder(key, i) # NoRow
<1>1. key # Unwritten
  BY StoreAssumption DEF StoreKey, Unwritten
<1>2. EncryptedUnder(key, i).key = key /\ NoRow.key = Unwritten
  BY DEF EncryptedUnder, NoRow
<1>3. EncryptedUnder(key, i) \in Row
  BY DEF EncryptedUnder, Row
<1> QED BY <1>1, <1>2, <1>3

\* The keys of a version before verifiers are keys.
LEMMA FormerKeys == FormerKey \subseteq StoreKey /\ Former \in Nat \ {0} /\ Unwritten \notin FormerKey
BY StoreAssumption DEF FormerKey, StoreKey, Former, Unwritten

\* The file before the first start.
LEMMA StoreInvHoldsFirst ==
    ASSUME Password # {}, StoreInit
    PROVE  StoreInv
<1> USE StoreAssumption
<1>0. /\ inherited \in [Id -> FormerKey \cup {Unwritten}] /\ kept = {i \in Id : inherited[i] # Unwritten}
      /\ kept # {} => salt = Former
      /\ salt \in {0, Former} /\ damaged = {}
  BY DEF StoreInit
<1>1. ASSUME NEW i \in Id
      PROVE  /\ i \in kept => rows[i] = EncryptedUnder(inherited[i], i) /\ inherited[i] \in StoreKey
             /\ i \notin kept => rows[i] = NoRow
  BY <1>0, FormerKeys DEF StoreInit
<1>2. StoreTypeOK
  <2>1. rows \in [Id -> Row \cup {NoRow}]
    BY <1>1, WrittenRow DEF StoreInit
  <2> QED BY <1>0, <2>1, FormerKeys DEF StoreInit, StoreTypeOK
<1>3. KeysAgree
  BY DEF StoreInit, KeysAgree
<1>4. RowsAgree
  <2>1. \A i \in Id : inherited[i] # Unwritten => i \in kept /\ salt = Former
    BY <1>0
  <2>2. \A i \in kept \ damaged : i \in Id /\ inherited[i] # Unwritten
    BY <1>0
  <2>3. \A i \in kept \ damaged :
           rows[i] = EncryptedUnder(IF inherited[i] = Unwritten THEN verifier ELSE inherited[i], i)
    BY <1>1, <2>2
  <2>4. \A i \in Id : rows[i] # NoRow => i \in kept
    BY <1>1
  <2>5. ASSUME NEW i \in Id, rows[i] # NoRow
        PROVE  rows[i].boundTo = rows[i].secret
    <3>1. rows[i] = EncryptedUnder(inherited[i], i)
      BY <1>1, <2>4, <2>5
    <3>2. /\ EncryptedUnder(inherited[i], i).boundTo = i
          /\ EncryptedUnder(inherited[i], i).secret = i
      BY DEF EncryptedUnder
    <3> QED BY <3>1, <3>2
  <2> QED BY <2>1, <2>2, <2>3, <2>4, <2>5 DEF RowsAgree
<1> QED BY <1>2, <1>3, <1>4 DEF StoreInv

\* One transaction, one end of the process or one loss of the file at a time.
LEMMA StoreInvKept ==
    ASSUME StoreInv, [StoreNext]_storeVars
    PROVE  StoreInv'
<1> USE StoreAssumption, FormerKeys DEF StoreInv
<1>1. ASSUME NEW p \in Password, OpenSalted(p)
      PROVE  StoreInv'
  <2>1. opens' \in 1..MaxOpens /\ salt' \in 1..Former /\ (salt = Former => salt' = salt)
    BY <1>1 DEF OpenSalted, StoreTypeOK, Former
  <2>2. StoreTypeOK'
    BY <1>1, <2>1 DEF OpenSalted, StoreTypeOK
  <2>3. KeysAgree'
    BY <1>1, <2>1 DEF OpenSalted, KeysAgree, Unwritten
  <2>4. RowsAgree'
    BY <1>1, <2>1 DEF OpenSalted, RowsAgree
  <2> QED BY <2>2, <2>3, <2>4
<1>2. ASSUME OpenVerified
      PROVE  StoreInv'
  <2>1. salt \in 1..Former
    BY <1>2 DEF OpenVerified, KeysAgree, StoreTypeOK
  <2>2. Derived(password) \in StoreKey /\ Derived(password) # Unwritten
    BY <2>1, DerivedIsWritten DEF Derived, StoreKey, StoreTypeOK
  <2>3. StoreTypeOK'
    BY <1>2, <2>2 DEF OpenVerified, StoreTypeOK
  <2>4. KeysAgree'
    BY <1>2, <2>1, <2>2 DEF OpenVerified, Accepted, KeysAgree, Derived, StoreTypeOK
  <2>5. RowsAgree'
    BY <1>2 DEF OpenVerified, RowsAgree
  <2> QED BY <2>3, <2>4, <2>5
<1>3. ASSUME NEW i \in Id, Insert(i)
      PROVE  StoreInv'
  <2>1. verifier = Derived(password) /\ verifier # Unwritten
    BY <1>3, DerivedIsWritten DEF Insert, KeysAgree
  <2>2. verifier \in StoreKey
    BY <2>1 DEF StoreTypeOK
  <2>3. StoreTypeOK'
    BY <1>3, <2>1, <2>2, WrittenRow DEF Insert, StoreTypeOK
  <2>4. KeysAgree'
    BY <1>3 DEF Insert, KeysAgree, Derived
  <2>5. ASSUME NEW j \in Id
        PROVE  /\ inherited'[j] # Unwritten => j \in kept' /\ salt' = Former
               /\ j \in kept' \ damaged' =>
                     rows'[j] = EncryptedUnder(IF inherited'[j] = Unwritten THEN verifier' ELSE inherited'[j], j)
               /\ rows'[j] # NoRow => j \in kept' \cup damaged' /\ rows'[j].boundTo = rows'[j].secret
    <3>1. UNCHANGED <<inherited, verifier, salt, damaged>> /\ kept' = kept \cup {i}
      BY <1>3 DEF Insert
    <3>2. CASE rows'[j] = rows[j] /\ (j \in kept \/ j # i \/ j \in damaged)
      BY <1>3, <3>1, <3>2 DEF RowsAgree
    <3>3. CASE j = i /\ rows[i] = NoRow
      <4>1. rows'[i] = EncryptedUnder(verifier, i)
        BY <1>3, <2>1, <3>3 DEF Insert, StoreTypeOK
      <4>2. inherited[i] \in StoreKey => EncryptedUnder(inherited[i], i) # NoRow
        BY <1>3, WrittenRow
      <4>3. inherited[i] \in StoreKey \cup {Unwritten}
        BY <1>3 DEF StoreTypeOK
      <4>4. i \notin damaged => inherited[i] = Unwritten
        BY <1>3, <3>3, <4>2, <4>3 DEF RowsAgree
      <4>5. rows'[i].boundTo = rows'[i].secret
        BY <4>1 DEF EncryptedUnder
      <4> QED BY <3>1, <3>3, <4>1, <4>4, <4>5 DEF RowsAgree
    <3>4. \/ rows'[j] = rows[j] /\ (j \in kept \/ j # i \/ j \in damaged)
          \/ j = i /\ rows[i] = NoRow
      BY <1>3 DEF Insert, StoreTypeOK, RowsAgree
    <3> QED BY <3>2, <3>3, <3>4
  <2>6. RowsAgree'
    BY <1>3, <2>1, <2>3, <2>5 DEF Insert, RowsAgree, StoreTypeOK
  <2> QED BY <2>3, <2>4, <2>6
<1>4. ASSUME NEW i \in Id, Remove(i)
      PROVE  StoreInv'
  <2>1. StoreTypeOK'
    BY <1>4 DEF Remove, StoreTypeOK
  <2>2. KeysAgree'
    BY <1>4 DEF Remove, KeysAgree, Derived
  <2>3. RowsAgree'
    BY <1>4 DEF Remove, RowsAgree, StoreTypeOK
  <2> QED BY <2>1, <2>2, <2>3
<1>5. ASSUME CloseStore
      PROVE  StoreInv'
  BY <1>5 DEF CloseStore, StoreTypeOK, KeysAgree, RowsAgree
<1>6. ASSUME NEW i \in Id, DamageRow(i)
      PROVE  StoreInv'
  <2>1. PICK j \in Id : rows' = [rows EXCEPT ![i] = IF i = j THEN [rows[i] EXCEPT !.key = Unwritten]
                                                             ELSE rows[j]]
    BY <1>6 DEF DamageRow
  <2>2. rows[i] \in Row
    BY <1>6 DEF DamageRow, StoreTypeOK
  <2>3. [rows[i] EXCEPT !.key = Unwritten] \in Row
    BY <2>2 DEF Row
  <2>4. [rows[i] EXCEPT !.key = Unwritten].boundTo = [rows[i] EXCEPT !.key = Unwritten].secret
    BY <1>6, <2>2 DEF DamageRow, RowsAgree, Row
  <2>5. StoreTypeOK'
    BY <1>6, <2>1, <2>3 DEF DamageRow, StoreTypeOK
  <2>6. KeysAgree'
    BY <1>6 DEF DamageRow, KeysAgree, Derived
  <2>7. RowsAgree'
    BY <1>6, <2>1, <2>4 DEF DamageRow, RowsAgree, StoreTypeOK
  <2> QED BY <2>5, <2>6, <2>7
<1>7. CASE UNCHANGED storeVars
  BY <1>7 DEF storeVars, StoreTypeOK, KeysAgree, RowsAgree, Derived
<1> QED BY <1>1, <1>2, <1>3, <1>4, <1>5, <1>6, <1>7 DEF StoreNext

\* What the invariant says of the entries.
LEMMA StoreInvReadsBack ==
    ASSUME StoreInv
    PROVE  OpenReadsBack
<1> USE DEF StoreInv
<1> USE FormerKeys
<1>1. ASSUME NEW i \in Promised
      PROVE  /\ i \in Id /\ i \in kept \ damaged
             /\ \E key \in StoreKey : /\ verifier \in {Unwritten, key} /\ key.salt = salt
                                     /\ rows[i] = EncryptedUnder(key, i)
  <2>1. /\ i \in Id /\ i \in kept \ damaged
        /\ verifier = Unwritten \/ inherited[i] \in {Unwritten, verifier}
    BY <1>1 DEF Promised, Forsaken, StoreTypeOK
  <2>2. CASE inherited[i] \in {Unwritten, verifier} /\ verifier # Unwritten
    BY <2>1, <2>2 DEF RowsAgree, KeysAgree, StoreTypeOK
  <2>3. CASE verifier = Unwritten
    <3>1. inherited[i] \in FormerKey /\ salt = Former /\ rows[i] = EncryptedUnder(inherited[i], i)
      BY <2>1, <2>3 DEF RowsAgree, StoreTypeOK
    <3>2. inherited[i].salt = salt
      BY <3>1 DEF FormerKey
    <3> QED BY <2>1, <2>3, <3>1, <3>2
  <2> QED BY <2>1, <2>2, <2>3
<1>2. ASSUME NEW i \in Promised, NEW key \in StoreKey, key.salt = salt, rows[i] = EncryptedUnder(key, i)
      PROVE  key.password \in Password /\ key = Derived(key.password) /\ Reads(key.password, i)
  <2>1. key.password \in Password /\ key = Derived(key.password)
    BY <1>2 DEF StoreKey, Derived
  <2>2. rows[i] # NoRow
    BY <1>1, <1>2, WrittenRow
  <2>3. rows[i].key = key /\ rows[i].boundTo = i
    BY <1>2 DEF EncryptedUnder
  <2> QED BY <2>1, <2>2, <2>3 DEF Reads
<1>3. ASSUME NEW i \in Promised
      PROVE  \E p \in Password : Accepted(Derived(p)) /\ Reads(p, i)
  BY <1>1, <1>2 DEF Accepted
<1>4. ASSUME stage = "open", NEW e \in Entries
      PROVE  e.secret = e.id
  BY <1>4 DEF Entries, Reads, RowsAgree
<1>5. ASSUME stage = "open", NEW i \in Promised
      PROVE  [id |-> i, secret |-> i] \in Entries
  <2>1. PICK key \in StoreKey : /\ verifier \in {Unwritten, key} /\ key.salt = salt
                                /\ rows[i] = EncryptedUnder(key, i)
    BY <1>1
  <2>2. verifier = Derived(password) /\ verifier # Unwritten
    BY <1>5, DerivedIsWritten DEF KeysAgree
  <2>3. key = Derived(key.password) /\ Reads(key.password, i)
    BY <1>2, <2>1
  <2>4. Reads(password, i)
    BY <2>1, <2>2, <2>3 DEF Reads
  <2>5. rows[i].secret = i
    BY <2>1 DEF EncryptedUnder
  <2> QED BY <1>1, <2>4, <2>5 DEF Entries
<1> QED BY <1>3, <1>4, <1>5 DEF OpenReadsBack

\* No sequence of starts, under any passwords and cut short anywhere, makes a store that opens and
\* does not read back the secrets put into it, or one that nobody can open; in a file older than
\* verifiers, those excepted that lie there under another password than the first open adopted.
THEOREM StoreReadsBack == Password # {} /\ StoreSpec => []OpenReadsBack
<1>1. Password # {} /\ StoreInit => StoreInv
  BY StoreInvHoldsFirst
<1>2. StoreInv /\ [StoreNext]_storeVars => StoreInv'
  BY StoreInvKept
<1>3. StoreInv => OpenReadsBack
  BY StoreInvReadsBack
<1> QED BY <1>1, <1>2, <1>3, PTL DEF StoreSpec
=============================================================================
