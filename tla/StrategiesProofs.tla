-------------------------- MODULE StrategiesProofs --------------------------
(***************************************************************************)
(* Proofs about the three small strategies, the sizing of stakes and the   *)
(* selectors, for any channels, prices, snapshots and bounds: when two     *)
(* redemption runs work on one channel, why a run is aborted, when two     *)
(* fundings of one channel are under way, when a closure is never          *)
(* finalized, what a stake pays for, whom the selectors open to first, and *)
(* what their closes leave of a cell.                                      *)
(*                                                                         *)
(* Each strategy's theorem rests on what its guard does keep. A redemption *)
(* run is behind an entry of its own channel unless it was pushed out      *)
(* (Tracked); a funding keeps its guard while nothing raises the channel's *)
(* stake (GuardStands); a due closure nothing has hindered has been        *)
(* waiting no longer than the timer (WaitsForTick). The sizing is          *)
(* arithmetic (CapacityHolds). A selector's answer is a ranking            *)
(* (RankingSorts) cut to size: fill_opens is ordered from where it starts  *)
(* to add (OrderedFrom), and the close loop keeps the floor with every     *)
(* channel it schedules (FloorKept). The types of all of them hold side by *)
(* side (StrategiesInv); a stake's bound is in how often it is raised      *)
(* (Counted).                                                              *)
(***************************************************************************)
EXTENDS Strategies, SumLemmas, FiniteSetTheorems, SequenceTheorems, TLAPS

-----------------------------------------------------------------------------
(***************************************************************************)
(* The closure finalizer.                                                  *)
(***************************************************************************)

\* A channel due that no tick has taken up and nothing has hindered: time has not left its window,
\* the timer was set before it became due, unless it fires right now, and a first scan under way
\* has taken no time since.
Waits(c) ==
    /\ clock - dueAt[c] <= MaxOverdue
    /\ stage = "first_scan" => dueAt[c] = clock /\ Grace = 0
    /\ stage \in {"waiting", "scan"} =>
          \/ sinceTick = interval
          \/ clock - dueAt[c] + (WindowLength - MaxOverdue) <= sinceTick

Excusable == tried \cup queue \cup hindered

WaitsForTick ==
    \A c \in Pending : dueAt[c] <= clock /\ c \notin Excusable /\ interval <= WindowLength => Waits(c)

FinalInv == FinalTypeOK /\ WaitsForTick

LEMMA FinalTypeStep == ASSUME FinalTypeOK, [FinalNext]_finalVars PROVE FinalTypeOK'
<1> USE FinalizerAssumption DEF FinalTypeOK
<1>1. ASSUME NEW c \in Closable, InitiateClosure(c) PROVE FinalTypeOK'
  <2>1. clock + Grace \in 0..Never
    BY DEF Never
  <2> QED
    BY <1>1, <2>1 DEF InitiateClosure
<1>2. ASSUME NEW c \in Closable, TryClose(c) \/ CloseLands(c) PROVE FinalTypeOK'
  BY <1>2 DEF TryClose, CloseLands
<1>3. CASE FinalizerTick
  <2>1. Due \subseteq Closable /\ 0 \in 0..interval
    BY DEF Due, Pending
  <2>2. queue = {}
    BY <1>3 DEF FinalizerTick, TimerFires, Scans
  <2> QED
    BY <1>3, <2>1, <2>2 DEF FinalizerTick, Stage, Scans
<1>4. CASE EndTick
  BY <1>4 DEF EndTick, Stage
<1>5. CASE Pass
  <2>1. interval \in Nat /\ sinceTick' \in 0..interval
    BY <1>5 DEF Pass, Held, TimerFires, Stage, Scans
  <2>2. Pending \subseteq Closable /\ Pending' \subseteq Closable
    BY DEF Pending
  <2>3. hindered' \subseteq Closable
    BY <1>5, <2>2 DEF Pass, Due
  <2> QED
    BY <1>5, <2>1, <2>3 DEF Pass
<1>6. CASE GoDown \/ ComeBack
  BY <1>6 DEF GoDown, ComeBack, Stage, Scans
<1>7. CASE UNCHANGED finalVars
  BY <1>7 DEF finalVars
<1> QED
  BY <1>1, <1>2, <1>3, <1>4, <1>5, <1>6, <1>7 DEF FinalNext

LEMMA WaitsStep == ASSUME FinalInv, [FinalNext]_finalVars PROVE WaitsForTick'
<1>1. /\ clock \in Nat /\ interval \in Nat /\ sinceTick \in Nat /\ sinceTick <= interval
      /\ \A c \in Closable : dueAt[c] \in Nat
      /\ WindowLength \in Nat /\ WindowLength - MaxOverdue \in {0, 1} /\ MaxOverdue \in Nat
      /\ Grace \in Nat /\ (Grace = 0 => WindowLength = MaxOverdue) /\ Pending \subseteq Closable
      /\ stage \in Stage /\ (stage \notin Scans => queue = {})
  BY FinalizerAssumption DEF FinalInv, FinalTypeOK, WindowLength, Pending
<1> SUFFICES ASSUME NEW c \in Pending', dueAt'[c] <= clock', c \notin Excusable',
                    interval' <= WindowLength
             PROVE  Waits(c)'
  BY DEF WaitsForTick, WindowLength
<1>3. interval' = interval
  BY DEF FinalNext, finalVars, InitiateClosure, TryClose, CloseLands, FinalizerTick, EndTick, Pass,
         GoDown, ComeBack
<1>4. ASSUME c \in Pending, dueAt[c] <= clock, c \notin Excusable
      PROVE  Waits(c) /\ c \in Due
  <2>1. Waits(c)
    BY <1>3, <1>4 DEF FinalInv, WaitsForTick
  <2> QED
    BY <1>1, <1>4, <2>1 DEF Waits, Due
<1>6. ASSUME NEW d \in Closable, InitiateClosure(d)
      PROVE  Waits(c)'
  <2>1. /\ c \in Closable /\ c \notin finished
        /\ UNCHANGED <<clock, tried, queue, hindered, sinceTick, stage, interval>>
    BY <1>6 DEF InitiateClosure, Pending, FinalInv, FinalTypeOK
  <2>2. CASE c = d
    <3>1. dueAt'[c] = clock + Grace
      BY <1>6, <2>1, <2>2 DEF InitiateClosure, FinalInv, FinalTypeOK
    <3>2. Grace = 0 /\ dueAt'[c] = clock'
      BY <1>1, <2>1, <3>1
    <3> QED
      BY <1>1, <2>1, <3>2 DEF Waits
  <2>3. CASE c # d
    <3>1. dueAt'[c] = dueAt[c]
      BY <1>6, <2>1, <2>3 DEF InitiateClosure, FinalInv, FinalTypeOK
    <3>2. c \in Pending
      BY <1>6, <2>1, <3>1 DEF InitiateClosure, Pending
    <3> QED
      BY <1>4, <2>1, <3>1, <3>2 DEF Waits, Excusable
  <2> QED
    BY <2>2, <2>3
<1>7. ASSUME NEW d \in Closable, TryClose(d) \/ CloseLands(d)
      PROVE  Waits(c)'
  <2>1. UNCHANGED <<clock, dueAt, sinceTick, stage, interval>> /\ Excusable' = Excusable
    BY <1>7 DEF TryClose, CloseLands, Excusable
  <2>2. c \in Pending
    BY <1>7, <2>1 DEF TryClose, CloseLands, Pending
  <2> QED
    BY <1>4, <2>1, <2>2 DEF Waits
<1>8. CASE FinalizerTick
  <2>1. UNCHANGED <<clock, dueAt, finished>> /\ queue = {} /\ Excusable' = Excusable \cup Due
    BY <1>1, <1>8 DEF FinalizerTick, TimerFires, Scans, Excusable
  <2>2. c \in Pending
    BY <2>1 DEF Pending
  <2> QED
    BY <1>4, <2>1, <2>2
<1>9. CASE EndTick
  <2>1. /\ UNCHANGED <<clock, dueAt, finished, interval>>
        /\ Excusable' = Excusable /\ stage' = "waiting" /\ stage \in Scans
        /\ sinceTick' = IF stage = "first_scan" THEN 0 ELSE sinceTick
    BY <1>9 DEF EndTick, Excusable
  <2>2. c \in Pending /\ dueAt[c] \in Nat
    BY <1>1, <2>1 DEF Pending
  <2>3. Waits(c)
    BY <1>4, <2>1, <2>2
  <2> QED
    BY <1>1, <2>1, <2>2, <2>3 DEF Waits, Scans
<1>10. CASE Pass
  <2>1. UNCHANGED <<dueAt, finished, tried, queue, stage, interval>> /\ clock' = clock + 1
    BY <1>10 DEF Pass
  <2>2. c \in Pending /\ dueAt[c] \in Nat
    BY <1>1, <2>1 DEF Pending
  <2>3. CASE Held
    <3>1. c \notin Due /\ c \notin Due' /\ c \notin Excusable
      BY <1>10, <2>1, <2>3 DEF Pass, Excusable
    <3>2. dueAt[c] = clock + 1
      BY <1>1, <1>4, <2>1, <2>2, <3>1
    <3> QED
      BY <1>1, <2>1, <2>2, <3>1, <3>2 DEF Due
  <2>4. CASE ~Held
    <3>1. stage \in {"waiting", "scan"} /\ sinceTick < interval /\ sinceTick' = sinceTick + 1
      BY <1>1, <1>10, <2>4 DEF Pass, Held, TimerFires, Stage, Scans
    <3>2. Excusable' = Excusable
      BY <1>10, <2>1, <2>4 DEF Pass, Excusable
    <3>3. CASE dueAt[c] <= clock
      <4>1. Waits(c)
        BY <1>4, <2>2, <3>2, <3>3
      <4>2. clock - dueAt[c] + (WindowLength - MaxOverdue) <= sinceTick
        BY <1>1, <3>1, <4>1 DEF Waits
      <4>3. clock' - dueAt[c] <= MaxOverdue
        BY <1>1, <1>3, <2>1, <2>2, <3>1, <4>2
      <4>4. clock' - dueAt[c] + (WindowLength - MaxOverdue) <= sinceTick'
        BY <1>1, <2>1, <2>2, <3>1, <4>2
      <4> QED
        BY <2>1, <3>1, <4>3, <4>4 DEF Waits, WindowLength
    <3>4. CASE dueAt[c] = clock + 1
      <4>1. clock' - dueAt[c] = 0 /\ clock' - dueAt[c] + (WindowLength - MaxOverdue) <= sinceTick'
        BY <1>1, <2>1, <3>1, <3>4
      <4> QED
        BY <1>1, <2>1, <3>1, <4>1 DEF Waits, WindowLength
    <3> QED
      BY <1>1, <2>1, <2>2, <3>3, <3>4
  <2> QED
    BY <2>3, <2>4
<1>11. CASE GoDown \/ ComeBack
  <2>1. UNCHANGED <<clock, dueAt, finished>> /\ Excusable' = Excusable /\ stage' \in {"down", "starting"}
    BY <1>11 DEF GoDown, ComeBack, Excusable
  <2>2. c \in Pending
    BY <2>1 DEF Pending
  <2> QED
    BY <1>4, <2>1, <2>2 DEF Waits
<1>12. CASE UNCHANGED finalVars
  BY <1>4, <1>12 DEF finalVars, Pending, Waits, Excusable
<1> QED
  BY <1>6, <1>7, <1>8, <1>9, <1>10, <1>11, <1>12 DEF FinalNext

LEMMA FinalBegins == ASSUME FinalInit PROVE FinalInv
<1>1. Never \in Nat /\ interval \in Nat
  BY FinalizerAssumption DEF Never, FinalInit
<1>2. FinalTypeOK
  BY <1>1, FinalizerAssumption DEF FinalInit, FinalTypeOK, Stage
<1>3. Pending = {}
  BY DEF FinalInit, Pending
<1> QED
  BY <1>2, <1>3 DEF FinalInv, WaitsForTick

(***************************************************************************)
(* A closure is given up without one attempt only if, while it was due,    *)
(* the node was down, a tick failed to read the channels or slow closes    *)
(* held up the next one, or if the interval is longer than the window.     *)
(***************************************************************************)
THEOREM ForgottenClosures == FinalSpec => []ForgottenExplained
<1>1. FinalInit => FinalInv
  BY FinalBegins
<1>2. FinalInv /\ [FinalNext]_finalVars => FinalInv'
  BY FinalTypeStep, WaitsStep DEF FinalInv
<1>3. FinalInv => ForgottenExplained
  <2> SUFFICES ASSUME FinalInv, NEW c \in Pending, dueAt[c] + MaxOverdue < clock,
                      c \notin Excusable, ~(interval > WindowLength)
               PROVE  FALSE
    BY DEF ForgottenExplained, Excusable
  <2>1. dueAt[c] \in Nat /\ clock \in Nat /\ MaxOverdue \in Nat /\ interval \in Nat
        /\ WindowLength \in Nat
    BY FinalizerAssumption DEF FinalInv, FinalTypeOK, Pending, WindowLength
  <2> QED
    BY <2>1 DEF FinalInv, WaitsForTick, Waits
<1> QED
  BY <1>1, <1>2, <1>3, PTL DEF FinalSpec

-----------------------------------------------------------------------------
(***************************************************************************)
(* Auto redeeming.                                                         *)
(***************************************************************************)

\* A run not pushed out is behind an entry of its own channel, in the cache or
\* about to be inserted.
Tracked ==
    \A r \in Run : Running(r) =>
        r \in untracked \/ \E e \in cache \cup spawned : e.run = r /\ e.chan = runs[r]

\* No entry names a run that has gone on to another channel.
EntriesTrue == \A e \in cache \cup spawned : Running(e.run) => runs[e.run] = e.chan

\* While a handle waits to be inserted its channel has no live entry.
SpawnedAlone ==
    /\ \A e, f \in spawned : e = f
    /\ \A e \in spawned : ~InProgress(e.chan)

CacheFits == IsFiniteSet(cache) /\ Cardinality(cache) <= CacheCapacity

TicketsWon == \A c \in Channel : tickets[c] <= won

RedeemInv ==
    RedeemTypeOK /\ TicketsWon /\ CacheFits /\ Tracked /\ EntriesTrue /\ SpawnedAlone

\* Starting a run takes a name nobody uses, and leaves its handle to be inserted.
LEMMA Started ==
    ASSUME RedeemTypeOK, NEW c \in Channel, StartRun(c), spawned = {}
    PROVE  \/ UNCHANGED <<runs, spawned>>
           \/ \E r \in FreeRuns : /\ ~InProgress(c)
                                  /\ runs' = [runs EXCEPT ![r] = c]
                                  /\ spawned' = {[chan |-> c, run |-> r, live |-> TRUE]}
BY DEF StartRun, Spawn

LEMMA RedeemTypeStep ==
    ASSUME RedeemTypeOK, TicketsWon, [RedeemNext]_redeemVars
    PROVE  RedeemTypeOK'
<1> USE RedeemAssumption
<1>1. /\ runs \in [Run -> Channel \cup {None}] /\ cache \subseteq Entry
      /\ \A e, f \in cache : e.chan = f.chan => e = f
      /\ untracked \subseteq {r \in Run : runs[r] # None}
      /\ spawned \subseteq Entry
  <2>1. spawned \subseteq Entry
    <3>1. CASE spawned = {}
      BY <3>1
    <3>2. ASSUME NEW c \in Channel, NEW r \in Run,
                 spawned = {[chan |-> c, run |-> r, live |-> TRUE]}
          PROVE  spawned \subseteq Entry
      BY <3>2 DEF Entry
    <3> QED
      BY <3>1, <3>2 DEF RedeemTypeOK
  <2> QED
    BY <2>1 DEF RedeemTypeOK
<1> DEFINE SpawnTyped == \/ spawned' = {}
                         \/ \E c \in Channel, r \in Run :
                                spawned' = {[chan |-> c, run |-> r, live |-> TRUE]}
           RunsTyped  == /\ runs' \in [Run -> Channel \cup {None}]
                         /\ untracked' \subseteq {r \in Run : runs'[r] # None}
           CacheTyped == /\ cache' \subseteq Entry
                         /\ \A e, f \in cache' : e.chan = f.chan => e = f
           WorldTyped == /\ redeemCfg' \in [onWinning : BOOLEAN, onClose : BOOLEAN]
                         /\ status' \in [Channel -> {"open", "closing", "over"}]
                         /\ tickets' \in [Channel -> 0..MaxTickets] /\ won' \in 0..MaxTickets
                         /\ news' \subseteq News /\ todo' \subseteq Channel
                         /\ redeemUp' \in BOOLEAN
<1>2. ASSUME SpawnTyped, RunsTyped, CacheTyped, WorldTyped PROVE RedeemTypeOK'
  BY <1>2 DEF RedeemTypeOK
<1>3. ASSUME UNCHANGED <<spawned, runs, untracked, cache>>
      PROVE  SpawnTyped /\ RunsTyped /\ CacheTyped
  BY <1>3 DEF RedeemTypeOK
<1>4. ASSUME UNCHANGED <<redeemCfg, status, tickets, won, news, todo, redeemUp>>
      PROVE  WorldTyped
  BY <1>4 DEF RedeemTypeOK
<1>5. ASSUME NEW ended, Stop(ended) PROVE RunsTyped
  BY <1>1, <1>5 DEF Stop
<1>6. ASSUME NEW c \in Channel, StartRun(c), spawned = {}, UNCHANGED <<untracked, cache>>
      PROVE  SpawnTyped /\ RunsTyped /\ CacheTyped
  <2>1. CASE UNCHANGED <<runs, spawned>>
    BY <1>3, <1>6, <2>1
  <2>2. CASE \E r \in FreeRuns : /\ runs' = [runs EXCEPT ![r] = c]
                                /\ spawned' = {[chan |-> c, run |-> r, live |-> TRUE]}
    <3>1. PICK r \in FreeRuns : /\ runs' = [runs EXCEPT ![r] = c]
                              /\ spawned' = {[chan |-> c, run |-> r, live |-> TRUE]}
      BY <2>2
    <3>2. r \in Run /\ runs[r] = None
      BY DEF FreeRuns, Running
    <3>3. RunsTyped
      BY <1>1, <1>6, <3>1, <3>2
    <3> QED
      BY <1>1, <1>6, <3>1, <3>2, <3>3
  <2> QED
    BY <1>6, <2>1, <2>2, Started
<1> HIDE DEF SpawnTyped, RunsTyped, CacheTyped, WorldTyped
<1>7. ASSUME NEW c \in Channel, TicketWon(c) PROVE RedeemTypeOK'
  <2>1. tickets[c] + 1 \in 0..MaxTickets /\ won + 1 \in 0..MaxTickets
    BY <1>7 DEF TicketWon, RedeemTypeOK, TicketsWon
  <2>2. WorldTyped
    BY <1>7, <2>1 DEF TicketWon, RedeemTypeOK, News, WorldTyped
  <2> QED
    BY <1>2, <1>3, <1>7, <2>2 DEF TicketWon
<1>8. ASSUME NEW c \in Channel, ClosureBegins(c) PROVE RedeemTypeOK'
  <2>1. WorldTyped
    BY <1>8 DEF ClosureBegins, RedeemTypeOK, News, WorldTyped
  <2> QED
    BY <1>2, <1>3, <1>8, <2>1 DEF ClosureBegins
<1>9. ASSUME NEW e \in news, NewsLost(e) PROVE RedeemTypeOK'
  <2>1. WorldTyped
    BY <1>9 DEF NewsLost, RedeemTypeOK, WorldTyped
  <2> QED
    BY <1>2, <1>3, <1>9, <2>1 DEF NewsLost
<1>10. ASSUME NEW c \in Channel, NEW kind, NEW wanted, Handle(kind, c, wanted)
       PROVE  RedeemTypeOK'
  <2>1. WorldTyped
    BY <1>10 DEF Handle, RedeemTypeOK, WorldTyped
  <2>2. SpawnTyped /\ RunsTyped /\ CacheTyped
    BY <1>3, <1>6, <1>10 DEF Handle, LoopFree
  <2> QED
    BY <1>2, <2>1, <2>2
<1>11. CASE RedeemTick
  <2>1. WorldTyped
    BY <1>11 DEF RedeemTick, Redeemable, RedeemTypeOK, WorldTyped
  <2> QED
    BY <1>2, <1>3, <1>11, <2>1 DEF RedeemTick
<1>12. ASSUME NEW c \in Channel, VisitChannel(c) PROVE RedeemTypeOK'
  <2>1. WorldTyped
    BY <1>12 DEF VisitChannel, RedeemTypeOK, WorldTyped
  <2> QED
    BY <1>2, <1>6, <1>12, <2>1 DEF VisitChannel
<1>13. CASE InsertHandle
  <2>1. PICK new \in spawned :
           \/ /\ cache' = (cache \ EntryOf(new.chan)) \cup {new}
              /\ Stop(Holders(EntryOf(new.chan)))
           \/ \E out \in (cache \ EntryOf(new.chan)) \cup {new} :
                 /\ cache' = ((cache \ EntryOf(new.chan)) \cup {new}) \ {out}
                 /\ PushOut(out)
    BY <1>13 DEF InsertHandle
  <2>2. CacheTyped
    BY <1>1, <2>1 DEF EntryOf, CacheTyped
  <2>3. RunsTyped
    <3>1. ASSUME NEW out \in Entry, PushOut(out) PROVE RunsTyped
      BY <1>1, <3>1 DEF PushOut, Running, RunsTyped, Entry
    <3> QED
      BY <1>1, <1>5, <2>1, <3>1
  <2>4. SpawnTyped /\ WorldTyped
    BY <1>4, <1>13 DEF InsertHandle, SpawnTyped
  <2> QED
    BY <1>2, <2>2, <2>3, <2>4
<1>14. CASE DropStrategy
  <2>1. WorldTyped
    BY <1>14 DEF DropStrategy, RedeemTypeOK, WorldTyped
  <2>2. RunsTyped /\ CacheTyped /\ SpawnTyped
    BY <1>5, <1>14 DEF DropStrategy, CacheTyped, SpawnTyped
  <2> QED
    BY <1>2, <2>1, <2>2
<1>15. ASSUME NEW c \in Channel, Expire(c) PROVE RedeemTypeOK'
  <2>1. PICK e \in EntryOf(c) : cache' = (cache \ {e}) \cup {[e EXCEPT !.live = FALSE]}
    BY <1>15 DEF Expire
  <2>2. e \in cache /\ e \in Entry
    BY <1>1 DEF EntryOf
  <2>3. [e EXCEPT !.live = FALSE] \in Entry /\ [e EXCEPT !.live = FALSE].chan = e.chan
    BY <2>2 DEF Entry
  <2>4. CacheTyped
    BY <1>1, <2>1, <2>2, <2>3 DEF CacheTyped
  <2>5. SpawnTyped /\ RunsTyped /\ WorldTyped
    BY <1>4, <1>15 DEF Expire, RedeemTypeOK, SpawnTyped, RunsTyped
  <2> QED
    BY <1>2, <2>4, <2>5
<1>16. ASSUME NEW c \in Channel, DropExpired(c) PROVE RedeemTypeOK'
  <2>1. CacheTyped /\ RunsTyped
    BY <1>1, <1>5, <1>16 DEF DropExpired, CacheTyped
  <2>2. SpawnTyped /\ WorldTyped
    BY <1>4, <1>16 DEF DropExpired, RedeemTypeOK, SpawnTyped
  <2> QED
    BY <1>2, <2>1, <2>2
<1>17. ASSUME NEW r \in Run, Redeem(r) PROVE RedeemTypeOK'
  <2>1. runs[r] \in Channel
    BY <1>1, <1>17 DEF Redeem, Running
  <2>2. tickets[runs[r]] - 1 \in 0..MaxTickets
    BY <1>17, <2>1 DEF Redeem, RedeemTypeOK
  <2>3. WorldTyped
    BY <1>17, <2>1, <2>2 DEF Redeem, RedeemTypeOK, WorldTyped
  <2> QED
    BY <1>2, <1>3, <1>17, <2>3 DEF Redeem
<1>18. ASSUME NEW r \in Run, FinishRun(r) PROVE RedeemTypeOK'
  <2>1. CacheTyped /\ RunsTyped
    BY <1>1, <1>5, <1>18 DEF FinishRun, CacheTyped
  <2>2. SpawnTyped /\ WorldTyped
    BY <1>4, <1>18 DEF FinishRun, RedeemTypeOK, SpawnTyped
  <2> QED
    BY <1>2, <2>1, <2>2
<1>19. ASSUME NEW c \in Channel, ClosureEnds(c) PROVE RedeemTypeOK'
  <2>1. WorldTyped
    BY <1>19 DEF ClosureEnds, RedeemTypeOK, WorldTyped
  <2> QED
    BY <1>2, <1>3, <1>19, <2>1 DEF ClosureEnds
<1>20. CASE UNCHANGED redeemVars
  BY <1>2, <1>3, <1>4, <1>20 DEF redeemVars
<1> QED
  BY <1>7, <1>8, <1>9, <1>10, <1>11, <1>12, <1>13, <1>14, <1>15, <1>16, <1>17, <1>18, <1>19,
     <1>20
     DEF RedeemNext, OnAcknowledgedWinningTicket, OnOwnChannelChanged

\* Entries leave the cache with the runs behind them.
LEMMA StopKeeps ==
    ASSUME RedeemTypeOK, Tracked, EntriesTrue, NEW ended, Stop(ended),
           \A e \in cache' \cup spawned' : e \in cache \cup spawned,
           \A e \in cache \cup spawned : e \in cache' \cup spawned' \/ e.run \in ended
    PROVE  Tracked' /\ EntriesTrue'
<1>1. \A r \in Run : runs'[r] = IF r \in ended THEN None ELSE runs[r]
  BY DEF Stop
<1>2. \A r \in Run : Running(r)' <=> Running(r) /\ r \notin ended
  BY <1>1 DEF Running
<1>3. Tracked'
  BY <1>1, <1>2 DEF Tracked, Stop
<1>4. \A e \in cache \cup spawned : e.run \in Run
  BY DEF RedeemTypeOK, Entry
<1>5. EntriesTrue'
  BY <1>1, <1>2, <1>4 DEF EntriesTrue
<1> QED
  BY <1>3, <1>5

LEMMA StartKeeps ==
    ASSUME RedeemTypeOK, Tracked, EntriesTrue, SpawnedAlone, NEW c \in Channel,
           StartRun(c), spawned = {}, UNCHANGED <<cache, untracked>>
    PROVE  Tracked' /\ EntriesTrue' /\ SpawnedAlone'
<1>1. CASE UNCHANGED <<runs, spawned>>
  BY <1>1 DEF Tracked, EntriesTrue, SpawnedAlone, Running, InProgress, EntryOf
<1>2. ASSUME NEW r \in FreeRuns, ~InProgress(c), runs' = [runs EXCEPT ![r] = c],
             spawned' = {[chan |-> c, run |-> r, live |-> TRUE]}
      PROVE  Tracked' /\ EntriesTrue' /\ SpawnedAlone'
  <2>1. r \in Run /\ \A e \in cache : e.run # r
    BY DEF FreeRuns, Holders
  <2>2. \A q \in Run : runs'[q] = IF q = r THEN c ELSE runs[q]
    BY <1>2, <2>1 DEF RedeemTypeOK
  <2>3. \A e \in cache : e.run \in Run
    BY DEF RedeemTypeOK, Entry
  <2>4. Tracked'
    <3>1. SUFFICES ASSUME NEW q \in Run, runs'[q] # None
                   PROVE  q \in untracked \/
                          \E e \in cache \cup spawned' : e.run = q /\ e.chan = runs'[q]
      BY DEF Tracked, Running
    <3>2. CASE q = r
      <4> DEFINE new == [chan |-> c, run |-> r, live |-> TRUE]
      <4>1. new \in spawned' /\ new.run = q /\ new.chan = runs'[q]
        BY <1>2, <2>2, <3>2
      <4> HIDE DEF new
      <4> QED
        BY <4>1
    <3>3. CASE q # r
      <4>1. runs'[q] = runs[q]
        BY <2>2, <3>3
      <4> QED
        BY <3>1, <4>1 DEF Tracked, Running
    <3> QED
      BY <3>2, <3>3
  <2>5. EntriesTrue'
    BY <1>2, <2>1, <2>2, <2>3 DEF EntriesTrue, Running
  <2>6. SpawnedAlone'
    BY <1>2 DEF SpawnedAlone, InProgress, EntryOf
  <2> QED
    BY <2>4, <2>5, <2>6
<1> QED
  BY <1>1, <1>2, Started

LEMMA FitsShrinks == ASSUME CacheFits, cache' \subseteq cache PROVE CacheFits'
<1>1. /\ IsFiniteSet(cache') /\ Cardinality(cache') <= Cardinality(cache)
      /\ Cardinality(cache) \in Nat /\ Cardinality(cache') \in Nat
  BY FS_Subset, FS_CardinalityType DEF CacheFits
<1> QED
  BY <1>1, RedeemAssumption DEF CacheFits

\* A handle that replaces an old entry of its channel cannot fill the cache.
LEMMA ReplacingFits ==
    ASSUME CacheFits, NEW old \in cache, NEW new
    PROVE  /\ IsFiniteSet((cache \ {old}) \cup {new})
           /\ Cardinality((cache \ {old}) \cup {new}) <= CacheCapacity
<1>1. IsFiniteSet(cache \ {old}) /\ Cardinality(cache \ {old}) = Cardinality(cache) - 1
      /\ Cardinality(cache) \in Nat
  BY FS_RemoveElement, FS_CardinalityType DEF CacheFits
<1>2. /\ IsFiniteSet((cache \ {old}) \cup {new})
      /\ Cardinality((cache \ {old}) \cup {new}) <= Cardinality(cache \ {old}) + 1
  <2>1. Cardinality(cache \ {old}) \in Nat
    BY <1>1, FS_CardinalityType
  <2> QED
    BY <1>1, <2>1, FS_AddElement
<1>3. Cardinality((cache \ {old}) \cup {new}) \in Nat
  BY <1>2, FS_CardinalityType
<1> QED
  BY <1>1, <1>2, <1>3, RedeemAssumption DEF CacheFits

LEMMA InsertKeeps ==
    ASSUME RedeemInv, InsertHandle
    PROVE  CacheFits' /\ Tracked' /\ EntriesTrue' /\ SpawnedAlone'
<1>1. PICK new \in spawned :
         /\ \/ /\ Cardinality((cache \ EntryOf(new.chan)) \cup {new}) <= CacheCapacity
               /\ cache' = (cache \ EntryOf(new.chan)) \cup {new}
               /\ Stop(Holders(EntryOf(new.chan)))
            \/ /\ Cardinality((cache \ EntryOf(new.chan)) \cup {new}) > CacheCapacity
               /\ \E out \in (cache \ EntryOf(new.chan)) \cup {new} :
                     /\ cache' = ((cache \ EntryOf(new.chan)) \cup {new}) \ {out}
                     /\ PushOut(out)
         /\ spawned' = {}
  BY DEF InsertHandle
<1> DEFINE old == EntryOf(new.chan)
           kept == (cache \ old) \cup {new}
<1>2. /\ RedeemTypeOK /\ CacheFits /\ Tracked /\ EntriesTrue
      /\ \A e \in spawned : e = new
      /\ \A e \in cache : e.run \in Run
      /\ IsFiniteSet(cache) /\ Cardinality(cache) \in Nat
  BY FS_CardinalityType DEF RedeemInv, SpawnedAlone, RedeemTypeOK, Entry, CacheFits
<1>3. SpawnedAlone'
  BY <1>1 DEF SpawnedAlone
<1>4. IsFiniteSet(kept) /\ Cardinality(kept) \in Nat
  <2>1. IsFiniteSet(cache \ old)
    BY <1>2, FS_Subset
  <2> QED
    BY <2>1, FS_AddElement, FS_CardinalityType
<1>5. CASE cache' = kept /\ Stop(Holders(old)) /\ Cardinality(kept) <= CacheCapacity
  <2>1. CacheFits'
    BY <1>4, <1>5 DEF CacheFits
  <2>2. /\ \A e \in cache' \cup spawned' : e \in cache \cup spawned
        /\ \A e \in cache \cup spawned : e \in cache' \cup spawned' \/ e.run \in Holders(old)
    BY <1>1, <1>2, <1>5 DEF Holders
  <2> HIDE DEF old
  <2>3. Tracked' /\ EntriesTrue'
    BY <1>2, <1>5, <2>2, StopKeeps
  <2> QED
    BY <1>3, <2>1, <2>3
<1>6. ASSUME Cardinality(kept) > CacheCapacity, NEW out \in kept, cache' = kept \ {out},
             PushOut(out)
      PROVE  CacheFits' /\ Tracked' /\ EntriesTrue'
  <2>1. old = {}
    <3>1. SUFFICES ASSUME NEW e \in old PROVE FALSE
      OBVIOUS
    <3>2. e \in cache /\ old = {e}
      BY <1>2 DEF EntryOf, RedeemTypeOK
    <3>3. Cardinality(kept) <= CacheCapacity
      BY <1>2, <3>2, ReplacingFits
    <3> QED
      BY <1>4, <1>6, <3>3, RedeemAssumption
  <2>2. kept = cache \cup {new}
    BY <2>1
  <2>3. CacheFits'
    <3>1. Cardinality(kept) <= Cardinality(cache) + 1
      BY <1>2, <2>2, FS_AddElement
    <3>2. Cardinality(kept \ {out}) = Cardinality(kept) - 1 /\ IsFiniteSet(kept \ {out})
      BY <1>4, <1>6, FS_RemoveElement
    <3> QED
      BY <1>2, <1>4, <1>6, <3>1, <3>2, RedeemAssumption DEF CacheFits
  <2> HIDE DEF kept
  <2>4. /\ runs' = runs /\ untracked \subseteq untracked'
        /\ out.run \in Run /\ Running(out.run) => out.run \in untracked'
    BY <1>6 DEF PushOut
  <2>5. Tracked'
    BY <1>2, <1>6, <2>2, <2>4 DEF Tracked, Running
  <2>6. EntriesTrue'
    BY <1>1, <1>2, <1>6, <2>2, <2>4 DEF EntriesTrue, Running
  <2> QED
    BY <2>3, <2>5, <2>6
<1> QED
  BY <1>1, <1>3, <1>5, <1>6

LEMMA RedeemStep ==
    ASSUME RedeemInv, [RedeemNext]_redeemVars
    PROVE  TicketsWon' /\ CacheFits' /\ Tracked' /\ EntriesTrue' /\ SpawnedAlone'
<1>1. /\ RedeemTypeOK /\ TicketsWon /\ CacheFits /\ Tracked /\ EntriesTrue /\ SpawnedAlone
      /\ cache \subseteq Entry /\ \A e, f \in cache : e.chan = f.chan => e = f
  BY DEF RedeemInv, RedeemTypeOK
<1>2. TicketsWon'
  <2>1. \A c \in Channel : tickets[c] \in Nat /\ won \in Nat
    BY RedeemAssumption, <1>1 DEF RedeemTypeOK
  <2>2. ASSUME NEW c \in Channel, TicketWon(c) PROVE TicketsWon'
    BY <1>1, <2>1, <2>2 DEF TicketWon, TicketsWon, RedeemTypeOK
  <2>3. ASSUME NEW r \in Run, Redeem(r) PROVE TicketsWon'
    BY <1>1, <2>1, <2>3 DEF Redeem, TicketsWon, RedeemTypeOK
  <2>4. ASSUME UNCHANGED <<tickets, won>> PROVE TicketsWon'
    BY <1>1, <2>4 DEF TicketsWon
  <2> QED
    BY <2>2, <2>3, <2>4 DEF RedeemNext, redeemVars, ClosureBegins, ClosureEnds, NewsLost, Handle,
       OnAcknowledgedWinningTicket, OnOwnChannelChanged, RedeemTick, VisitChannel, InsertHandle,
       DropStrategy, Expire, DropExpired, FinishRun
<1> DEFINE Kept == CacheFits' /\ Tracked' /\ EntriesTrue' /\ SpawnedAlone'
<1>3. ASSUME UNCHANGED <<cache, spawned, runs, untracked>> PROVE Kept
  BY <1>1, <1>3 DEF CacheFits, Tracked, EntriesTrue, SpawnedAlone, Running, InProgress, EntryOf
<1>4. ASSUME NEW c \in Channel, StartRun(c), spawned = {}, UNCHANGED <<cache, untracked>>
      PROVE  Kept
  BY <1>1, <1>4, StartKeeps, FitsShrinks
<1>5. ASSUME NEW ended, Stop(ended), cache' \subseteq cache, spawned' = spawned,
             \A e \in cache \ cache' : e.run \in ended
      PROVE  Kept
  <2>1. Tracked' /\ EntriesTrue'
    BY <1>1, <1>5, StopKeeps
  <2>2. SpawnedAlone'
    BY <1>1, <1>5 DEF SpawnedAlone, InProgress, EntryOf
  <2> QED
    BY <1>1, <1>5, <2>1, <2>2, FitsShrinks
<1>6. ASSUME NEW c \in Channel, NEW kind, NEW wanted, Handle(kind, c, wanted) PROVE Kept
  BY <1>3, <1>4, <1>6 DEF Handle, LoopFree
<1>7. ASSUME NEW c \in Channel, VisitChannel(c) PROVE Kept
  BY <1>4, <1>7 DEF VisitChannel
<1>8. ASSUME InsertHandle PROVE Kept
  BY <1>8, InsertKeeps
<1>9. ASSUME DropStrategy PROVE Kept
  BY <1>5, <1>9 DEF DropStrategy, Holders
<1>10. ASSUME NEW c \in Channel, Expire(c) PROVE Kept
  <2>1. PICK e \in EntryOf(c) : cache' = (cache \ {e}) \cup {[e EXCEPT !.live = FALSE]}
    BY <1>10 DEF Expire
  <2>2. e \in cache /\ e \in Entry /\ UNCHANGED <<spawned, runs, untracked>>
    BY <1>1, <1>10 DEF EntryOf, Expire
  <2> DEFINE aged == [e EXCEPT !.live = FALSE]
  <2>3. aged.chan = e.chan /\ aged.run = e.run /\ ~aged.live
    BY <2>2 DEF Entry
  <2>4. cache' = (cache \ {e}) \cup {aged}
    BY <2>1
  <2> HIDE DEF aged
  <2>5. CacheFits'
    BY <1>1, <2>2, <2>4, ReplacingFits DEF CacheFits
  <2>6. Tracked'
    BY <1>1, <2>2, <2>3, <2>4 DEF Tracked, Running
  <2>7. EntriesTrue'
    BY <1>1, <2>2, <2>3, <2>4 DEF EntriesTrue, Running
  <2>8. SpawnedAlone'
    BY <1>1, <2>2, <2>3, <2>4 DEF SpawnedAlone, InProgress, EntryOf
  <2> QED
    BY <2>5, <2>6, <2>7, <2>8
<1>11. ASSUME NEW c \in Channel, DropExpired(c) PROVE Kept
  <2>1. PICK e \in EntryOf(c) : cache' = cache \ {e} /\ Stop({e.run}) /\ spawned' = spawned
    BY <1>11 DEF DropExpired
  <2> QED
    BY <1>5, <2>1
<1>12. ASSUME NEW r \in Run, FinishRun(r) PROVE Kept
  BY <1>5, <1>12 DEF FinishRun, Holders
<1> HIDE DEF Kept
<1>13. Kept
  BY <1>3, <1>6, <1>7, <1>8, <1>9, <1>10, <1>11, <1>12 DEF RedeemNext, redeemVars, TicketWon,
     ClosureBegins, ClosureEnds, NewsLost, OnAcknowledgedWinningTicket, OnOwnChannelChanged, RedeemTick,
     Redeem
<1> QED
  BY <1>2, <1>13 DEF Kept

LEMMA RedeemBegins == ASSUME RedeemInit PROVE RedeemInv
<1>1. RedeemTypeOK
  BY RedeemAssumption DEF RedeemInit, RedeemTypeOK
<1>2. CacheFits
  BY RedeemAssumption, FS_EmptySet DEF RedeemInit, CacheFits
<1>3. TicketsWon
  BY DEF RedeemInit, TicketsWon
<1> QED
  BY <1>1, <1>2, <1>3 DEF RedeemInit, RedeemInv, Tracked, EntriesTrue, SpawnedAlone, Running

LEMMA RedeemInvariant == RedeemSpec => []RedeemInv
<1>1. RedeemInit => RedeemInv
  BY RedeemBegins
<1>2. RedeemInv /\ [RedeemNext]_redeemVars => RedeemInv'
  BY RedeemTypeStep, RedeemStep DEF RedeemInv
<1> QED
  BY <1>1, <1>2, PTL DEF RedeemSpec

(***************************************************************************)
(* Auto redeeming starts a second run on a channel only beside one that    *)
(* has outlived its entry in the cache.                                    *)
(***************************************************************************)
THEOREM OverlapsLapsed == RedeemSpec => []RunsOverlapOnlyAfterLapse
<1>1. RedeemInv => RunsOverlapOnlyAfterLapse
  <2> SUFFICES ASSUME RedeemInv, NEW r \in Run, NEW q \in Run, r # q, Running(r),
                      runs[r] = runs[q], r \notin untracked, q \notin untracked
               PROVE  Outlived(r) \/ Outlived(q)
    BY DEF RunsOverlapOnlyAfterLapse, Outlived
  <2>1. Running(q)
    BY DEF Running
  <2>2. PICK e \in cache \cup spawned : e.run = r /\ e.chan = runs[r]
    BY DEF RedeemInv, Tracked
  <2>3. PICK f \in cache \cup spawned : f.run = q /\ f.chan = runs[q]
    BY <2>1 DEF RedeemInv, Tracked
  <2>4. ~(e \in cache /\ f \in cache) /\ ~(e \in spawned /\ f \in spawned)
    BY <2>2, <2>3 DEF RedeemInv, RedeemTypeOK, SpawnedAlone
  <2>5. CASE e \in cache /\ f \in spawned
    <3>1. ~e.live
      BY <2>2, <2>3, <2>5 DEF RedeemInv, SpawnedAlone, InProgress, EntryOf
    <3> QED
      BY <2>2, <2>5, <3>1 DEF Outlived, Holders
  <2>6. CASE f \in cache /\ e \in spawned
    <3>1. ~f.live
      BY <2>2, <2>3, <2>6 DEF RedeemInv, SpawnedAlone, InProgress, EntryOf
    <3> QED
      BY <2>3, <2>6, <3>1 DEF Outlived, Holders
  <2> QED
    BY <2>4, <2>5, <2>6
<1> QED
  BY <1>1, RedeemInvariant, PTL

(***************************************************************************)
(* A run that is stopped before its end has timed out, goes down with the  *)
(* strategy, or falls to a run pushed out of the cache earlier.            *)
(***************************************************************************)
THEOREM AbortReasons == RedeemSpec => AbortsExplained
<1> DEFINE Aborted(r) == Running(r) /\ ~Running(r)' /\ ~FinishRun(r)
           Reason(r) == \/ ~redeemUp'
                        \/ r \in Holders({e \in cache : ~e.live})
                        \/ \E q \in untracked : runs[q] = runs[r] /\ FinishRun(q)
<1>1. RedeemInv /\ [RedeemNext]_redeemVars => [\A r \in Run : Aborted(r) => Reason(r)]_redeemVars
  <2> SUFFICES ASSUME RedeemInv, [RedeemNext]_redeemVars, NEW r \in Run, Aborted(r)
               PROVE  Reason(r)
    OBVIOUS
  <2>1. ASSUME NEW ended, Stop(ended) PROVE r \in ended
    BY <2>1 DEF Stop, Running
  <2>2. ASSUME UNCHANGED runs PROVE FALSE
    BY <2>2 DEF Running
  <2>3. ASSUME NEW c \in Channel, StartRun(c), spawned = {} PROVE FALSE
    <3>1. PICK q \in FreeRuns : runs' = [runs EXCEPT ![q] = c]
      BY <2>2, <2>3, Started DEF RedeemInv
    <3>2. q \in Run /\ ~Running(q)
      BY DEF FreeRuns
    <3>3. runs'[r] = runs[r]
      BY <3>1, <3>2 DEF RedeemInv, RedeemTypeOK
    <3> QED
      BY <3>3 DEF Running
  <2>4. ASSUME NEW e \in cache, e.run = r, ~e.live PROVE Reason(r)
    BY <2>4 DEF Holders
  <2>5. CASE InsertHandle
    <3>1. PICK new \in spawned : Stop(Holders(EntryOf(new.chan)))
      BY <2>2, <2>5 DEF InsertHandle, PushOut
    <3>2. PICK e \in EntryOf(new.chan) : e.run = r
      BY <2>1, <3>1 DEF Holders
    <3>3. e \in cache /\ ~e.live
      BY DEF RedeemInv, SpawnedAlone, InProgress, EntryOf
    <3> QED
      BY <2>4, <3>2, <3>3
  <2>6. ASSUME NEW c \in Channel, DropExpired(c) PROVE Reason(r)
    BY <2>1, <2>4, <2>6 DEF DropExpired, EntryOf
  <2>7. ASSUME NEW q \in Run, FinishRun(q) PROVE Reason(r)
    <3>1. q # r /\ Running(q)
      BY <2>7 DEF FinishRun
    <3>2. r \in Holders(EntryOf(runs[q]))
      BY <2>1, <2>7, <3>1 DEF FinishRun
    <3>3. PICK e \in cache : e.chan = runs[q] /\ e.run = r
      BY <3>2 DEF Holders, EntryOf
    <3>4. runs[r] = runs[q]
      BY <3>3 DEF RedeemInv, EntriesTrue
    <3>5. CASE q \in untracked
      BY <2>7, <3>4, <3>5
    <3>6. CASE q \notin untracked
      <4>1. PICK f \in cache \cup spawned : f.run = q /\ f.chan = runs[q]
        BY <3>1, <3>6 DEF RedeemInv, Tracked
      <4>2. f \in spawned
        BY <3>1, <3>3, <4>1 DEF RedeemInv, RedeemTypeOK
      <4>3. ~e.live
        BY <3>3, <4>1, <4>2 DEF RedeemInv, SpawnedAlone, InProgress, EntryOf
      <4> QED
        BY <2>4, <3>3, <4>3
    <3> QED
      BY <3>5, <3>6
  <2>8. CASE DropStrategy
    BY <2>8 DEF DropStrategy
  <2> HIDE DEF Aborted, Reason
  <2> QED
    BY <2>2, <2>3, <2>5, <2>6, <2>7, <2>8 DEF RedeemNext, redeemVars, TicketWon, ClosureBegins,
       ClosureEnds, NewsLost, Handle, OnAcknowledgedWinningTicket, OnOwnChannelChanged, RedeemTick,
       VisitChannel, LoopFree, Expire, Redeem
<1>2. [][\A r \in Run : Aborted(r) => Reason(r)]_redeemVars <=> AbortsExplained
  BY DEF AbortsExplained
<1> QED
  BY <1>1, <1>2, RedeemInvariant, PTL DEF RedeemSpec

-----------------------------------------------------------------------------
(***************************************************************************)
(* Auto funding.                                                           *)
(***************************************************************************)

\* What is under way for a channel and has not been reported failed.
UnderWay(i, c) ==
    fundings[i].chan = c /\ fundings[i].chain = "pending" /\ fundings[i].report # "err"

Untouched(c) == history[c].rises = {}

\* Whoever raised a stake is no longer pending.
RisesLanded ==
    \A c \in Outgoing : \A i \in history[c].rises :
        i = 0 \/ (i \in DOMAIN fundings /\ fundings[i].chain = "landed")

\* Only a funding that landed is confirmed.
ConfirmedLanded == \A i \in DOMAIN fundings : fundings[i].report = "ok" => fundings[i].chain = "landed"

DyingReported == \A i \in DOMAIN fundings : fundings[i].chain = "dead" => fundings[i].report = "err"

RaisersKnown == \A i \in DOMAIN fundings : fundings[i].chain = "landed" => ~Untouched(fundings[i].chan)

\* A channel whose stake was never raised announced no increase, and its
\* snapshot and decrease events say no more than its stake does.
UntouchedSinks ==
    \A c \in Outgoing : Untouched(c) =>
        /\ Event("increased", c) \notin events
        /\ c \in visiting => stake[c] <= seen[c]
        /\ Event("decreased", c) \in events \/ c \in deciding => stake[c] <= Threshold

\* ... and the funding under way for it keeps its guard.
GuardStands ==
    \A c \in Outgoing : Untouched(c) => \A i \in DOMAIN fundings : UnderWay(i, c) =>
        /\ c \in inFlight /\ stake[c] <= Threshold
        /\ c \in visiting => seen[c] <= Threshold

\* ... and is the only one.
OneUnderWay ==
    \A c \in Outgoing : Untouched(c) => \A i, j \in DOMAIN fundings :
        (i < j /\ fundings[i].chan = c /\ fundings[j].chan = c
               /\ fundings[i].chain = "pending" /\ fundings[j].chain = "pending")
            => fundings[i].report = "err"

TakerAlone == deciding # {} => visiting = {}

FundInv ==
    /\ RisesLanded /\ ConfirmedLanded /\ DyingReported /\ RaisersKnown
    /\ UntouchedSinks /\ GuardStands /\ OneUnderWay /\ TakerAlone

History   == [rises : SUBSET Nat, lost : BOOLEAN]
FundTyped ==
    /\ stake \in [Outgoing -> Nat] /\ seen \in [Outgoing -> Nat]
    /\ inFlight \subseteq Outgoing /\ visiting \subseteq Outgoing /\ deciding \subseteq Outgoing
    /\ events \subseteq [kind : {"increased", "decreased"}, chan : Outgoing]
    /\ fundings \in Seq(Funding)
    /\ history \in [Outgoing -> History]

LEMMA NumberedFundings ==
    ASSUME FundTyped
    PROVE  /\ Len(fundings) \in Nat /\ DOMAIN fundings = 1..Len(fundings)
           /\ \A i \in DOMAIN fundings : /\ i \in Nat \ {0} /\ fundings[i] \in Funding
                                         /\ fundings[i].chan \in Outgoing
<1>1. Len(fundings) \in Nat /\ DOMAIN fundings = 1..Len(fundings)
  BY LenProperties DEF FundTyped
<1>2. \A i \in 1..Len(fundings) : fundings[i] \in Funding
  BY ElementOfSeq DEF FundTyped
<1> QED
  BY <1>1, <1>2 DEF Funding

LEMMA FundingReplaced ==
    ASSUME FundTyped, NEW i \in DOMAIN fundings, NEW e \in Funding,
           fundings' = [fundings EXCEPT ![i] = e]
    PROVE  /\ fundings' \in Seq(Funding) /\ DOMAIN fundings' = DOMAIN fundings
           /\ \A j \in DOMAIN fundings : fundings'[j] = IF j = i THEN e ELSE fundings[j]
<1>1. i \in 1..Len(fundings) /\ DOMAIN fundings = 1..Len(fundings)
  BY NumberedFundings
<1> QED
  BY <1>1, ExceptSeq DEF FundTyped

LEMMA FundingAppended ==
    ASSUME FundTyped, NEW e \in Funding, fundings' = Append(fundings, e)
    PROVE  /\ fundings' \in Seq(Funding)
           /\ DOMAIN fundings' = DOMAIN fundings \cup {Len(fundings) + 1}
           /\ \A j \in DOMAIN fundings : fundings'[j] = fundings[j] /\ j < Len(fundings) + 1
           /\ fundings'[Len(fundings) + 1] = e
<1>1. Len(fundings) \in Nat /\ DOMAIN fundings = 1..Len(fundings)
  BY NumberedFundings
<1>2. /\ fundings' \in Seq(Funding) /\ Len(fundings') = Len(fundings) + 1
      /\ \A j \in 1..Len(fundings) : fundings'[j] = fundings[j]
      /\ fundings'[Len(fundings) + 1] = e
  BY AppendProperties DEF FundTyped
<1>3. DOMAIN fundings' = 1..Len(fundings')
  BY <1>2, LenProperties
<1> QED
  BY <1>1, <1>2, <1>3

\* What a raise and a lost event do to the history.
LEMMA HistoryRaised ==
    ASSUME FundTyped, NEW c \in Outgoing, NEW who \in Nat, Raise(c, who)
    PROVE  /\ history' \in [Outgoing -> History]
           /\ \A d \in Outgoing : d # c => history'[d] = history[d]
           /\ history'[c].rises = history[c].rises \cup {who}
<1> DEFINE h == [history[c] EXCEPT !.rises = @ \cup {who}]
<1>1. history[c] \in History
  BY DEF FundTyped
<1>2. h \in History /\ h.rises = history[c].rises \cup {who}
  BY <1>1 DEF History
<1>3. history' = [history EXCEPT ![c] = h]
  BY DEF Raise
<1> HIDE DEF h
<1> QED
  BY <1>2, <1>3 DEF FundTyped

LEMMA HistoryLosses ==
    ASSUME FundTyped, NEW c \in Outgoing, NEW lost \in BOOLEAN,
           history' = [history EXCEPT ![c].lost = lost]
    PROVE  /\ history' \in [Outgoing -> History]
           /\ \A d \in Outgoing : history'[d].rises = history[d].rises
<1> DEFINE h == [history[c] EXCEPT !.lost = lost]
<1>1. history[c] \in History
  BY DEF FundTyped
<1>2. h \in History /\ h.rises = history[c].rises
  BY <1>1 DEF History
<1>3. history' = [history EXCEPT ![c] = h]
  OBVIOUS
<1> HIDE DEF h
<1> QED
  BY <1>2, <1>3 DEF FundTyped

\* How a funding is started, told landed, confirmed or given up.
LEMMA FundingStarted ==
    ASSUME FundTyped, NEW c \in Outgoing, TryFundChannel(c)
    PROVE  \/ UNCHANGED <<inFlight, fundings, history>>
           \/ /\ c \notin inFlight /\ inFlight' = inFlight \cup {c}
              /\ fundings' = Append(fundings, [chan |-> c, chain |-> "pending", report |-> "none"])
              /\ history' \in [Outgoing -> History]
              /\ \A d \in Outgoing : history'[d].rises = history[d].rises
<1>1. ASSUME history' = [history EXCEPT ![c].lost = FALSE]
      PROVE  /\ history' \in [Outgoing -> History]
             /\ \A d \in Outgoing : history'[d].rises = history[d].rises
  BY <1>1, HistoryLosses
<1>2. CASE c \in inFlight \/ Len(fundings) = MaxFundings
  BY <1>2 DEF TryFundChannel
<1>3. CASE ~(c \in inFlight \/ Len(fundings) = MaxFundings)
  <2>1. /\ inFlight' = inFlight \cup {c} /\ history' = [history EXCEPT ![c].lost = FALSE]
        /\ fundings' = Append(fundings, [chan |-> c, chain |-> "pending", report |-> "none"])
    BY <1>3 DEF TryFundChannel, TakeGuard
  <2> QED
    BY <1>1, <1>3, <2>1
<1> QED
  BY <1>2, <1>3

LEMMA FundingLanded ==
    ASSUME FundTyped, NEW i, Lands(i)
    PROVE  /\ i \in DOMAIN fundings /\ fundings[i].chain = "pending"
           /\ \E e \in Funding :
                 /\ fundings' = [fundings EXCEPT ![i] = e]
                 /\ e.chan = fundings[i].chan /\ e.chain = "landed" /\ e.report = fundings[i].report
<1> DEFINE e == [fundings[i] EXCEPT !.chain = "landed"]
<1>1. i \in DOMAIN fundings /\ fundings[i].chain = "pending" /\ fundings[i] \in Funding
  BY NumberedFundings DEF Lands
<1>2. e \in Funding /\ e.chan = fundings[i].chan /\ e.chain = "landed" /\ e.report = fundings[i].report
  BY <1>1 DEF Funding
<1>3. fundings' = [fundings EXCEPT ![i] = e]
  BY DEF Lands
<1> HIDE DEF e
<1> QED
  BY <1>1, <1>2, <1>3

LEMMA FundingConfirmed ==
    ASSUME FundTyped, NEW i, Confirmed(i)
    PROVE  /\ i \in DOMAIN fundings /\ fundings[i].chain = "landed"
           /\ \E e \in Funding :
                 /\ fundings' = [fundings EXCEPT ![i] = e]
                 /\ e.chan = fundings[i].chan /\ e.chain = "landed" /\ e.report = "ok"
<1> DEFINE e == [fundings[i] EXCEPT !.report = "ok"]
<1>1. i \in DOMAIN fundings /\ fundings[i].chain = "landed" /\ fundings[i] \in Funding
  BY NumberedFundings DEF Confirmed
<1>2. e \in Funding /\ e.chan = fundings[i].chan /\ e.chain = "landed" /\ e.report = "ok"
  BY <1>1 DEF Funding
<1>3. fundings' = [fundings EXCEPT ![i] = e]
  BY DEF Confirmed
<1> HIDE DEF e
<1> QED
  BY <1>1, <1>2, <1>3

LEMMA FundingGivenUp ==
    ASSUME FundTyped, NEW i, FundingFailed(i)
    PROVE  /\ i \in DOMAIN fundings /\ fundings[i].report = "none"
           /\ \E e \in Funding :
                 /\ fundings' = [fundings EXCEPT ![i] = e]
                 /\ e.chan = fundings[i].chan /\ e.report = "err"
                 /\ e.chain = fundings[i].chain \/ (e.chain = "dead" /\ fundings[i].chain = "pending")
<1>1. i \in DOMAIN fundings /\ fundings[i].report = "none" /\ fundings[i] \in Funding
  BY NumberedFundings DEF FundingFailed
<1>2. PICK fate \in {fundings[i].chain} \cup {f \in {"dead"} : fundings[i].chain = "pending"} :
         fundings' = [fundings EXCEPT ![i].report = "err", ![i].chain = fate]
  BY DEF FundingFailed
<1> DEFINE e == [fundings[i] EXCEPT !.report = "err", !.chain = fate]
<1>3. fate = fundings[i].chain \/ (fate = "dead" /\ fundings[i].chain = "pending")
  OBVIOUS
<1>4. e \in Funding /\ e.chan = fundings[i].chan /\ e.report = "err" /\ e.chain = fate
  BY <1>1, <1>3 DEF Funding
<1>5. fundings' = [fundings EXCEPT ![i] = e]
  BY <1>2
<1> HIDE DEF e
<1> QED
  BY <1>1, <1>3, <1>4, <1>5

LEMMA FundTypeStep == ASSUME FundTyped, [FundNext]_fundVars PROVE FundTyped'
<1>1. ASSUME NEW c \in Outgoing, NEW who \in Nat, Raise(c, who),
             UNCHANGED <<inFlight, visiting, seen, deciding>>, fundings' \in Seq(Funding)
      PROVE  FundTyped'
  <2>1. history' \in [Outgoing -> History]
    BY <1>1, HistoryRaised
  <2>2. Event("increased", c) \in [kind : {"increased", "decreased"}, chan : Outgoing]
    BY DEF Event
  <2>3. stake' \in [Outgoing -> Nat]
    BY <1>1, FundingAssumption DEF Raise, FundTyped
  <2> QED
    BY <1>1, <2>1, <2>2, <2>3 DEF Raise, FundTyped
<1>2. ASSUME NEW c \in Outgoing, TryFundChannel(c)
      PROVE  /\ inFlight' \subseteq Outgoing /\ fundings' \in Seq(Funding)
             /\ history' \in [Outgoing -> History]
  <2> DEFINE e == [chan |-> c, chain |-> "pending", report |-> "none"]
  <2>1. e \in Funding
    BY DEF Funding
  <2> HIDE DEF e
  <2>2. fundings' = Append(fundings, e) => fundings' \in Seq(Funding)
    BY <2>1, FundingAppended
  <2> USE DEF e
  <2> QED
    BY <1>2, <2>2, FundingStarted DEF FundTyped
<1>3. ASSUME NEW c \in Outgoing, Spend(c) PROVE FundTyped'
  <2>1. stake' \in [Outgoing -> Nat]
    BY <1>3 DEF Spend, FundTyped
  <2>2. Event("decreased", c) \in [kind : {"increased", "decreased"}, chan : Outgoing]
    BY DEF Event
  <2> QED
    BY <1>3, <2>1, <2>2 DEF Spend, FundTyped
<1>4. ASSUME NEW c \in Outgoing, ForeignFunding(c) PROVE FundTyped'
  BY <1>1, <1>4 DEF ForeignFunding, FundTyped
<1>5. ASSUME NEW i \in Num, Lands(i) PROVE FundTyped'
  <2>1. i \in DOMAIN fundings /\ i \in Nat /\ fundings[i].chan \in Outgoing
    BY <1>5, NumberedFundings DEF Lands
  <2>2. fundings' \in Seq(Funding)
    BY <1>5, FundingLanded, FundingReplaced
  <2> QED
    BY <1>1, <1>5, <2>1, <2>2 DEF Lands
<1>6. ASSUME NEW e \in events, FundEventLost(e) PROVE FundTyped'
  <2> DEFINE lost == history[e.chan].lost \/ e.kind = "increased"
  <2>1. e.chan \in Outgoing /\ lost \in BOOLEAN /\ history' = [history EXCEPT ![e.chan].lost = lost]
    BY <1>6 DEF FundEventLost, FundTyped
  <2> HIDE DEF lost
  <2>2. history' \in [Outgoing -> History]
    BY <2>1, HistoryLosses
  <2> QED
    BY <1>6, <2>2 DEF FundEventLost, FundTyped
<1>7. ASSUME FundTick PROVE FundTyped'
  BY <1>7 DEF FundTick, FundTyped
<1>8. ASSUME NEW c \in Outgoing, VisitOutgoing(c) PROVE FundTyped'
  BY <1>2, <1>8 DEF VisitOutgoing, ClearGuard, FundTyped
<1>9. ASSUME NEW c \in Outgoing, OnBalanceDecreased(c) PROVE FundTyped'
  BY <1>9 DEF OnBalanceDecreased, FundTyped
<1>10. ASSUME NEW c \in Outgoing, FundOnDecrease(c) PROVE FundTyped'
  BY <1>2, <1>10 DEF FundOnDecrease, FundTyped
<1>11. ASSUME NEW c \in Outgoing, OnBalanceIncreased(c) PROVE FundTyped'
  BY <1>11 DEF OnBalanceIncreased, ClearGuard, FundTyped
<1>12. ASSUME NEW i \in Num, Confirmed(i) PROVE FundTyped'
  <2>1. fundings' \in Seq(Funding)
    BY <1>12, FundingConfirmed, FundingReplaced
  <2> QED
    BY <1>12, <2>1 DEF Confirmed, FundTyped
<1>13. ASSUME NEW i \in Num, FundingFailed(i) PROVE FundTyped'
  <2>1. fundings' \in Seq(Funding)
    BY <1>13, FundingGivenUp, FundingReplaced
  <2> QED
    BY <1>13, <2>1 DEF FundingFailed, ClearGuard, FundTyped
<1>14. CASE UNCHANGED fundVars
  BY <1>14 DEF fundVars, FundTyped
<1> QED
  BY <1>3, <1>4, <1>5, <1>6, <1>7, <1>8, <1>9, <1>10, <1>11, <1>12, <1>13, <1>14 DEF FundNext

\* The parts that only look at the fundings and at what they raised.
LEMMA FundingsStep ==
    ASSUME FundTyped, FundInv, [FundNext]_fundVars
    PROVE  (RisesLanded /\ ConfirmedLanded /\ DyingReported /\ RaisersKnown)'
<1> DEFINE Kept == (RisesLanded /\ ConfirmedLanded /\ DyingReported /\ RaisersKnown)'
<1>1. /\ RisesLanded /\ ConfirmedLanded /\ DyingReported /\ RaisersKnown
      /\ \A i \in DOMAIN fundings : fundings[i].chan \in Outgoing
  BY NumberedFundings DEF FundInv
<1>2. ASSUME fundings' = fundings,
             \A d \in Outgoing : history'[d].rises = history[d].rises
      PROVE  Kept
  BY <1>1, <1>2 DEF RisesLanded, ConfirmedLanded, DyingReported, RaisersKnown, Untouched
<1>3. ASSUME NEW c \in Outgoing, TryFundChannel(c) PROVE Kept
  <2> DEFINE e == [chan |-> c, chain |-> "pending", report |-> "none"]
  <2>1. e \in Funding /\ e.chain = "pending" /\ e.report = "none"
    BY DEF Funding
  <2> HIDE DEF e
  <2>2. CASE fundings' = Append(fundings, e) /\ \A d \in Outgoing : history'[d].rises = history[d].rises
    <3>1. /\ DOMAIN fundings' = DOMAIN fundings \cup {Len(fundings) + 1}
          /\ \A j \in DOMAIN fundings : fundings'[j] = fundings[j]
          /\ fundings'[Len(fundings) + 1] = e
      BY <2>1, <2>2, FundingAppended
    <3>2. RisesLanded'
      BY <1>1, <2>2, <3>1 DEF RisesLanded
    <3>3. ConfirmedLanded' /\ DyingReported'
      BY <1>1, <2>1, <3>1 DEF ConfirmedLanded, DyingReported
    <3>4. RaisersKnown'
      BY <1>1, <2>1, <2>2, <3>1 DEF RaisersKnown, Untouched
    <3> QED
      BY <3>2, <3>3, <3>4
  <2> USE DEF e
  <2> QED
    BY <1>2, <1>3, <2>2, FundingStarted
<1>4. ASSUME NEW i \in DOMAIN fundings, NEW e \in Funding,
             fundings' = [fundings EXCEPT ![i] = e], e.chan = fundings[i].chan,
             e.report = "ok" => e.chain = "landed",
             e.chain = "dead" => e.report = "err",
             fundings[i].chain = "landed" => e.chain = "landed",
             e.chain = "landed" => \/ fundings[i].chain = "landed"
                                   \/ i \in history'[fundings[i].chan].rises,
             \A d \in Outgoing : history[d].rises \subseteq history'[d].rises,
             \A d \in Outgoing : \A k \in history'[d].rises :
                k \in history[d].rises \/ (k = i /\ e.chain = "landed")
      PROVE  Kept
  <2>1. /\ DOMAIN fundings' = DOMAIN fundings
        /\ \A j \in DOMAIN fundings : fundings'[j] = IF j = i THEN e ELSE fundings[j]
    BY <1>4, FundingReplaced
  <2>2. RisesLanded'
    BY <1>1, <1>4, <2>1 DEF RisesLanded
  <2>3. ConfirmedLanded' /\ DyingReported'
    BY <1>1, <1>4, <2>1 DEF ConfirmedLanded, DyingReported
  <2>4. RaisersKnown'
    BY <1>1, <1>4, <2>1 DEF RaisersKnown, Untouched
  <2> QED
    BY <2>2, <2>3, <2>4
<1>5. ASSUME NEW c \in Outgoing, ForeignFunding(c) PROVE Kept
  <2>1. /\ fundings' = fundings
        /\ \A d \in Outgoing : d # c => history'[d] = history[d]
        /\ history'[c].rises = history[c].rises \cup {0}
    BY <1>5, HistoryRaised DEF ForeignFunding
  <2> QED
    BY <1>1, <2>1 DEF RisesLanded, ConfirmedLanded, DyingReported, RaisersKnown, Untouched
<1>6. ASSUME NEW i \in Num, Lands(i) PROVE Kept
  <2>1. /\ i \in DOMAIN fundings /\ fundings[i].chain = "pending"
        /\ i \in Nat /\ fundings[i].chan \in Outgoing
    BY <1>6, FundingLanded, NumberedFundings
  <2>2. PICK e \in Funding :
           /\ fundings' = [fundings EXCEPT ![i] = e]
           /\ e.chan = fundings[i].chan /\ e.chain = "landed" /\ e.report = fundings[i].report
    BY <1>6, FundingLanded
  <2>3. /\ \A d \in Outgoing : d # fundings[i].chan => history'[d] = history[d]
        /\ history'[fundings[i].chan].rises = history[fundings[i].chan].rises \cup {i}
    BY <1>6, <2>1, HistoryRaised DEF Lands
  <2>4. /\ \A d \in Outgoing : history[d].rises \subseteq history'[d].rises
        /\ \A d \in Outgoing : \A k \in history'[d].rises : k \in history[d].rises \/ k = i
        /\ i \in history'[fundings[i].chan].rises
    BY <2>1, <2>3
  <2> HIDE DEF Kept
  <2> QED
    BY <1>4, <2>1, <2>2, <2>4
<1>7. ASSUME NEW i \in Num, Confirmed(i) PROVE Kept
  <2>1. i \in DOMAIN fundings /\ fundings[i].chain = "landed" /\ history' = history
    BY <1>7, FundingConfirmed DEF Confirmed
  <2>2. PICK e \in Funding :
           /\ fundings' = [fundings EXCEPT ![i] = e]
           /\ e.chan = fundings[i].chan /\ e.chain = "landed" /\ e.report = "ok"
    BY <1>7, FundingConfirmed
  <2> QED
    BY <1>4, <2>1, <2>2
<1>8. ASSUME NEW i \in Num, FundingFailed(i) PROVE Kept
  <2>1. i \in DOMAIN fundings /\ history' = history
    BY <1>8, FundingGivenUp DEF FundingFailed
  <2>2. PICK e \in Funding :
           /\ fundings' = [fundings EXCEPT ![i] = e]
           /\ e.chan = fundings[i].chan /\ e.report = "err"
           /\ e.chain = fundings[i].chain \/ (e.chain = "dead" /\ fundings[i].chain = "pending")
    BY <1>8, FundingGivenUp
  <2> QED
    BY <1>4, <2>1, <2>2
<1>9. ASSUME NEW e \in events, FundEventLost(e) PROVE Kept
  <2> DEFINE lost == history[e.chan].lost \/ e.kind = "increased"
  <2>1. e.chan \in Outgoing /\ lost \in BOOLEAN /\ history' = [history EXCEPT ![e.chan].lost = lost]
    BY <1>9 DEF FundEventLost, FundTyped
  <2> HIDE DEF lost
  <2>2. \A d \in Outgoing : history'[d].rises = history[d].rises
    BY <2>1, HistoryLosses
  <2> QED
    BY <1>2, <1>9, <2>2 DEF FundEventLost
<1>10. ASSUME UNCHANGED <<fundings, history>> PROVE Kept
  BY <1>2, <1>10
<1>11. ASSUME NEW c \in Outgoing, VisitOutgoing(c) PROVE Kept
  BY <1>3, <1>10, <1>11 DEF VisitOutgoing
<1> HIDE DEF Kept
<1>12. ASSUME NEW c \in Outgoing,
              \/ Spend(c) \/ OnBalanceDecreased(c) \/ OnBalanceIncreased(c)
       PROVE  Kept
  BY <1>10, <1>12 DEF Spend, OnBalanceDecreased, OnBalanceIncreased
<1>13. ASSUME NEW c \in Outgoing, FundOnDecrease(c) PROVE Kept
  BY <1>3, <1>13 DEF FundOnDecrease
<1>14. ASSUME FundTick \/ UNCHANGED fundVars PROVE Kept
  BY <1>10, <1>14 DEF FundTick, fundVars
<1>15. Kept
  BY <1>5, <1>6, <1>7, <1>8, <1>9, <1>11, <1>12, <1>13, <1>14 DEF FundNext
<1> QED
  BY <1>15 DEF Kept

\* A raise touches its channel, and nothing undoes a touch.
LEMMA RaisesTouch ==
    ASSUME FundTyped, NEW c \in Outgoing, NEW d \in Outgoing, NEW who \in Nat, Raise(d, who)
    PROVE  /\ history[c].rises \subseteq history'[c].rises
           /\ Untouched(c)' => c # d
<1>1. /\ d # c => history'[c] = history[c]
      /\ history'[d].rises = history[d].rises \cup {who}
  BY HistoryRaised
<1> QED
  BY <1>1 DEF Untouched

LEMMA TouchesStay ==
    ASSUME FundTyped, [FundNext]_fundVars, NEW c \in Outgoing, Untouched(c)'
    PROVE  Untouched(c)
<1>1. ASSUME history[c].rises \subseteq history'[c].rises PROVE Untouched(c)
  BY <1>1 DEF Untouched
<1>2. ASSUME history' = history PROVE Untouched(c)
  BY <1>2 DEF Untouched
<1>3. ASSUME NEW d \in Outgoing, TryFundChannel(d) PROVE Untouched(c)
  BY <1>1, <1>3, FundingStarted
<1>4. ASSUME NEW d \in Outgoing,
             \/ Spend(d) \/ ForeignFunding(d) \/ VisitOutgoing(d) \/ OnBalanceDecreased(d)
             \/ FundOnDecrease(d) \/ OnBalanceIncreased(d)
      PROVE  Untouched(c)
  <2>1. ForeignFunding(d) => Raise(d, 0)
    BY DEF ForeignFunding
  <2> QED
    BY <1>1, <1>2, <1>3, <1>4, <2>1, RaisesTouch
       DEF Spend, VisitOutgoing, OnBalanceDecreased, FundOnDecrease, OnBalanceIncreased
<1>5. ASSUME NEW i \in Num, Lands(i) \/ Confirmed(i) \/ FundingFailed(i) PROVE Untouched(c)
  <2>1. CASE Lands(i)
    <3>1. i \in Nat /\ fundings[i].chan \in Outgoing /\ Raise(fundings[i].chan, i)
      BY <2>1, NumberedFundings DEF Lands
    <3> QED
      BY <1>1, <3>1, RaisesTouch
  <2> QED
    BY <1>2, <1>5, <2>1 DEF Confirmed, FundingFailed
<1>6. ASSUME NEW e \in events, FundEventLost(e) PROVE Untouched(c)
  <2> DEFINE lost == history[e.chan].lost \/ e.kind = "increased"
  <2>1. e.chan \in Outgoing /\ lost \in BOOLEAN /\ history' = [history EXCEPT ![e.chan].lost = lost]
    BY <1>6 DEF FundEventLost, FundTyped
  <2> HIDE DEF lost
  <2> QED
    BY <1>1, <2>1, HistoryLosses
<1>7. CASE FundTick \/ UNCHANGED fundVars
  BY <1>2, <1>7 DEF FundTick, fundVars
<1> QED
  BY <1>4, <1>5, <1>6, <1>7 DEF FundNext

\* While its stake is not raised, what is announced and remembered of a channel
\* is no higher than its stake.
LEMMA SinksStep ==
    ASSUME FundTyped, FundInv, [FundNext]_fundVars
    PROVE  (TakerAlone /\ UntouchedSinks)'
<1>1. TakerAlone'
  BY DEF FundInv, TakerAlone, FundNext, fundVars, Spend, ForeignFunding, VisitOutgoing,
     OnBalanceDecreased, FundOnDecrease, OnBalanceIncreased, Lands, Confirmed, FundingFailed,
     FundEventLost, FundTick, TakerFree
<1> SUFFICES ASSUME NEW c \in Outgoing, Untouched(c)'
             PROVE  /\ Event("increased", c) \notin events'
                    /\ c \in visiting' => stake'[c] <= seen'[c]
                    /\ Event("decreased", c) \in events' \/ c \in deciding' => stake'[c] <= Threshold
  BY <1>1 DEF UntouchedSinks, Event
<1> DEFINE Kept == /\ Event("increased", c) \notin events'
                   /\ c \in visiting' => stake'[c] <= seen'[c]
                   /\ Event("decreased", c) \in events' \/ c \in deciding' => stake'[c] <= Threshold
<1>2. /\ Untouched(c) /\ stake[c] \in Nat /\ seen[c] \in Nat /\ Threshold \in Nat
      /\ Event("increased", c) \notin events
      /\ c \in visiting => stake[c] <= seen[c]
      /\ Event("decreased", c) \in events \/ c \in deciding => stake[c] <= Threshold
  BY TouchesStay, FundingAssumption DEF FundInv, UntouchedSinks, FundTyped
<1>3. ASSUME visiting' \subseteq visiting, deciding' \subseteq deciding, events' \subseteq events,
             UNCHANGED <<stake, seen>>
      PROVE  Kept
  BY <1>2, <1>3
<1>4. ASSUME NEW d \in Outgoing, Spend(d) PROVE Kept
  <2>1. /\ UNCHANGED <<visiting, deciding, seen>> /\ stake'[c] \in Nat /\ stake'[c] <= stake[c]
        /\ d = c => stake'[c] = stake[c] - 1
    BY <1>2, <1>4 DEF Spend, FundTyped
  <2>2. \A e : e \in events' => e \in events \/ (e = Event("decreased", d) /\ stake[d] - 1 <= Threshold)
    BY <1>4 DEF Spend
  <2>3. Event("decreased", d) # Event("increased", c)
        /\ (Event("decreased", d) = Event("decreased", c) => d = c)
    BY DEF Event
  <2> QED
    BY <1>2, <2>1, <2>2, <2>3
<1>5. ASSUME NEW d \in Outgoing, NEW who \in Nat, Raise(d, who), UNCHANGED <<visiting, seen, deciding>>
      PROVE  Kept
  <2>1. d # c
    BY <1>5, RaisesTouch
  <2>2. stake'[c] = stake[c] /\ events' = events \cup {Event("increased", d)}
    BY <1>5, <2>1 DEF Raise, FundTyped
  <2>3. Event("increased", d) # Event("increased", c) /\ Event("increased", d) # Event("decreased", c)
    BY <2>1 DEF Event
  <2> QED
    BY <1>2, <1>5, <2>2, <2>3
<1>6. ASSUME NEW i \in Num, Lands(i) PROVE Kept
  <2>1. i \in Nat /\ fundings[i].chan \in Outgoing
    BY <1>6, NumberedFundings DEF Lands
  <2> QED
    BY <1>5, <1>6, <2>1 DEF Lands
<1>7. ASSUME FundTick PROVE Kept
  BY <1>2, <1>7 DEF FundTick, TakerFree
<1>8. ASSUME NEW d \in Outgoing, OnBalanceDecreased(d) PROVE Kept
  BY <1>2, <1>8 DEF OnBalanceDecreased
<1>9. ASSUME NEW d \in Outgoing, ForeignFunding(d) PROVE Kept
  BY <1>5, <1>9 DEF ForeignFunding
<1> HIDE DEF Kept
<1>10. ASSUME \/ \E d \in Outgoing : VisitOutgoing(d) \/ FundOnDecrease(d) \/ OnBalanceIncreased(d)
              \/ \E i \in Num : Confirmed(i) \/ FundingFailed(i)
              \/ \E e \in events : FundEventLost(e)
              \/ UNCHANGED fundVars
       PROVE  Kept
  BY <1>3, <1>10 DEF VisitOutgoing, FundOnDecrease, OnBalanceIncreased, Confirmed, FundingFailed,
     FundEventLost, fundVars
<1>11. Kept
  BY <1>4, <1>6, <1>7, <1>8, <1>9, <1>10 DEF FundNext
<1> QED
  BY <1>11 DEF Kept

\* Where none is started, a pending funding was pending before.
LEMMA PendingBefore ==
    ASSUME FundTyped,
           UNCHANGED fundings \/ \E k \in Num : Lands(k) \/ Confirmed(k) \/ FundingFailed(k),
           NEW i \in DOMAIN fundings', fundings'[i].chain = "pending"
    PROVE  /\ i \in DOMAIN fundings /\ fundings[i].chain = "pending"
           /\ fundings'[i].chan = fundings[i].chan
           /\ fundings[i].report = "err" => fundings'[i].report = "err"
           /\ FundingFailed(i) => fundings'[i].report = "err"
<1> DEFINE Kept == /\ i \in DOMAIN fundings /\ fundings[i].chain = "pending"
                   /\ fundings'[i].chan = fundings[i].chan
                   /\ fundings[i].report = "err" => fundings'[i].report = "err"
<1>1. ASSUME NEW k \in DOMAIN fundings, NEW e \in Funding, fundings' = [fundings EXCEPT ![k] = e],
             e.chan = fundings[k].chan,
             e.chain = "pending" => fundings[k].chain = "pending",
             e.chain = "pending" /\ fundings[k].report = "err" => e.report = "err"
      PROVE  Kept
  BY <1>1, FundingReplaced
<1>2. ASSUME UNCHANGED fundings PROVE Kept
  BY <1>2
<1>3. ASSUME NEW k \in Num, Lands(k) PROVE Kept
  BY <1>1, <1>3, FundingLanded
<1>4. ASSUME NEW k \in Num, Confirmed(k) PROVE Kept
  BY <1>1, <1>4, FundingConfirmed
<1>5. ASSUME FundingFailed(i) PROVE fundings'[i].report = "err"
  <2>1. i \in DOMAIN fundings
        /\ \E e \in Funding : fundings' = [fundings EXCEPT ![i] = e] /\ e.report = "err"
    BY <1>5, FundingGivenUp
  <2> QED
    BY <2>1, FundingReplaced
<1>6. ASSUME NEW k \in Num, FundingFailed(k) PROVE Kept
  <2>1. k \in DOMAIN fundings
    BY <1>6, FundingGivenUp
  <2>2. PICK e \in Funding :
           /\ fundings' = [fundings EXCEPT ![k] = e]
           /\ e.chan = fundings[k].chan /\ e.report = "err"
           /\ e.chain = fundings[k].chain \/ (e.chain = "dead" /\ fundings[k].chain = "pending")
    BY <1>6, FundingGivenUp
  <2> QED
    BY <1>1, <2>1, <2>2
<1> HIDE DEF Kept
<1>7. Kept
  BY <1>2, <1>3, <1>4, <1>6
<1> QED
  BY <1>5, <1>7 DEF Kept

\* While a stake is not raised, the funding under way for it keeps its guard.
LEMMA GuardStep ==
    ASSUME FundTyped, FundInv, [FundNext]_fundVars
    PROVE  GuardStands'
<1> SUFFICES ASSUME NEW c \in Outgoing, Untouched(c)', NEW i \in DOMAIN fundings', UnderWay(i, c)'
             PROVE  /\ c \in inFlight' /\ stake'[c] <= Threshold
                    /\ c \in visiting' => seen'[c] <= Threshold
  BY DEF GuardStands
<1> DEFINE Kept == /\ c \in inFlight' /\ stake'[c] <= Threshold
                   /\ c \in visiting' => seen'[c] <= Threshold
<1>1. /\ Untouched(c) /\ stake[c] \in Nat /\ seen[c] \in Nat /\ Threshold \in Nat
      /\ Event("increased", c) \notin events
      /\ c \in visiting => stake[c] <= seen[c]
      /\ c \in deciding => stake[c] <= Threshold /\ visiting = {}
  BY TouchesStay, FundingAssumption DEF FundInv, UntouchedSinks, TakerAlone, FundTyped
<1>2. /\ fundings'[i].chan = c /\ fundings'[i].chain = "pending" /\ fundings'[i].report # "err"
  BY DEF UnderWay
<1>3. ASSUME UNCHANGED fundings \/ \E k \in Num : Lands(k) \/ Confirmed(k) \/ FundingFailed(k)
      PROVE  /\ i \in DOMAIN fundings /\ UnderWay(i, c) /\ ~ FundingFailed(i)
             /\ c \in inFlight /\ stake[c] <= Threshold
             /\ c \in visiting => seen[c] <= Threshold
  <2>1. /\ i \in DOMAIN fundings /\ fundings[i].chain = "pending"
        /\ fundings'[i].chan = fundings[i].chan
        /\ fundings[i].report # "err" /\ ~ FundingFailed(i)
    BY <1>2, <1>3, PendingBefore
  <2>2. UnderWay(i, c)
    BY <1>2, <2>1 DEF UnderWay
  <2> QED
    BY <1>1, <2>1, <2>2 DEF FundInv, GuardStands
<1>4. ASSUME NEW d \in Outgoing, Spend(d) PROVE Kept
  <2>1. /\ UNCHANGED <<fundings, inFlight, visiting, seen>>
        /\ stake'[c] \in Int /\ stake'[c] <= stake[c]
    BY <1>1, <1>4 DEF Spend, FundTyped
  <2> QED
    BY <1>1, <1>3, <2>1
<1>5. ASSUME NEW d \in Outgoing, NEW who \in Nat, Raise(d, who),
             UNCHANGED <<inFlight, visiting, seen>>,
             c \in inFlight /\ stake[c] <= Threshold /\ (c \in visiting => seen[c] <= Threshold)
      PROVE  Kept
  <2>1. stake'[c] = stake[c]
    BY <1>5, RaisesTouch DEF Raise, FundTyped
  <2> QED
    BY <1>5, <2>1
<1>6. ASSUME NEW d \in Outgoing, ForeignFunding(d) PROVE Kept
  BY <1>3, <1>5, <1>6 DEF ForeignFunding
<1>7. ASSUME NEW k \in Num, Lands(k) PROVE Kept
  <2>1. k \in Nat /\ fundings[k].chan \in Outgoing
    BY <1>7, NumberedFundings DEF Lands
  <2> QED
    BY <1>3, <1>5, <1>7, <2>1 DEF Lands
<1>8. ASSUME NEW d \in Outgoing, TryFundChannel(d), c = d => stake[c] <= Threshold,
             c = d => c \notin visiting', visiting' \subseteq visiting, UNCHANGED <<stake, seen>>
      PROVE  Kept
  <2> DEFINE e == [chan |-> d, chain |-> "pending", report |-> "none"]
  <2>1. CASE UNCHANGED <<inFlight, fundings>>
    BY <1>3, <1>8, <2>1
  <2>2. CASE inFlight' = inFlight \cup {d} /\ fundings' = Append(fundings, e)
    <3>1. e \in Funding /\ e.chan = d
      BY DEF Funding
    <3> HIDE DEF e
    <3>2. \/ i \in DOMAIN fundings /\ fundings'[i] = fundings[i]
          \/ fundings'[i] = e
      BY <2>2, <3>1, FundingAppended
    <3>3. CASE c = d
      BY <1>8, <2>2, <3>3
    <3>4. CASE c # d
      <4>1. i \in DOMAIN fundings /\ UnderWay(i, c)
        BY <1>2, <3>1, <3>2, <3>4 DEF UnderWay
      <4>2. c \in inFlight /\ stake[c] <= Threshold /\ (c \in visiting => seen[c] <= Threshold)
        BY <1>1, <4>1 DEF FundInv, GuardStands
      <4> QED
        BY <1>8, <2>2, <4>2
    <3> QED
      BY <3>3, <3>4
  <2> QED
    BY <1>8, <2>1, <2>2, FundingStarted
<1>9. ASSUME NEW d \in Outgoing, VisitOutgoing(d) PROVE Kept
  <2>1. /\ d \in visiting /\ visiting' = visiting \ {d} /\ UNCHANGED <<stake, seen>>
    BY <1>9 DEF VisitOutgoing
  <2>2. PICK level \in {seen[d], stake[d]} :
          \/ /\ level > Threshold
             /\ ClearGuard(d)
             /\ UNCHANGED fundings
          \/ UNCHANGED <<inFlight, fundings>>
          \/ level <= Threshold /\ TryFundChannel(d)
    BY <1>9 DEF VisitOutgoing
  <2>3. CASE level > Threshold /\ ClearGuard(d) /\ UNCHANGED fundings
    <3>1. c # d
      BY <1>1, <1>3, <2>1, <2>3
    <3> QED
      BY <1>3, <2>1, <2>3, <3>1 DEF ClearGuard
  <2>4. CASE UNCHANGED <<inFlight, fundings>>
    BY <1>3, <2>1, <2>4
  <2>5. CASE level <= Threshold /\ TryFundChannel(d)
    <3>1. c = d => stake[c] <= Threshold /\ c \notin visiting'
      BY <1>1, <2>1, <2>5
    <3> QED
      BY <1>8, <2>1, <2>5, <3>1
  <2> QED
    BY <2>2, <2>3, <2>4, <2>5
<1>10. ASSUME NEW d \in Outgoing, FundOnDecrease(d) PROVE Kept
  <2>1. /\ d \in deciding /\ TryFundChannel(d) /\ UNCHANGED <<visiting, stake, seen>>
    BY <1>10 DEF FundOnDecrease
  <2> QED
    BY <1>1, <1>8, <2>1
<1>11. ASSUME NEW d \in Outgoing, OnBalanceIncreased(d) PROVE Kept
  <2>1. /\ Event("increased", d) \in events /\ inFlight' = inFlight \ {d}
        /\ UNCHANGED <<fundings, stake, visiting, seen>>
    BY <1>11 DEF OnBalanceIncreased, ClearGuard
  <2>2. c # d
    BY <1>1, <2>1
  <2> QED
    BY <1>3, <2>1, <2>2
<1>12. ASSUME NEW k \in Num, Confirmed(k) PROVE Kept
  BY <1>3, <1>12 DEF Confirmed
<1>13. ASSUME NEW k \in Num, FundingFailed(k) PROVE Kept
  <2>1. /\ i \in DOMAIN fundings /\ UnderWay(i, c) /\ ~ FundingFailed(i)
        /\ c \in inFlight /\ stake[c] <= Threshold /\ (c \in visiting => seen[c] <= Threshold)
    BY <1>3, <1>13
  <2>2. /\ k \in DOMAIN fundings /\ fundings[k].report = "none" /\ fundings[k] \in Funding
        /\ inFlight' = inFlight \ {fundings[k].chan} /\ UNCHANGED <<stake, visiting, seen>>
    BY <1>13, NumberedFundings DEF FundingFailed, ClearGuard
  <2>3. ASSUME fundings[k].chan = c PROVE FALSE
    <3>1. fundings[k].chain = "pending"
      BY <1>1, <2>2, <2>3 DEF FundInv, DyingReported, RaisersKnown, Funding
    <3>2. i # k /\ i \in Nat /\ k \in Nat
      BY <1>13, <2>1, <2>2, NumberedFundings
    <3>3. fundings[i].report = "err" \/ fundings[k].report = "err"
      BY <1>1, <2>1, <2>2, <2>3, <3>1, <3>2 DEF FundInv, OneUnderWay, UnderWay
    <3> QED
      BY <2>1, <2>2, <3>3 DEF UnderWay
  <2> QED
    BY <2>1, <2>2, <2>3
<1>14. ASSUME FundTick PROVE Kept
  BY <1>1, <1>3, <1>14 DEF FundTick
<1>15. ASSUME UNCHANGED <<stake, inFlight, fundings, visiting, seen>> PROVE Kept
  BY <1>3, <1>15
<1> HIDE DEF Kept
<1>16. ASSUME NEW d \in Outgoing, OnBalanceDecreased(d) PROVE Kept
  BY <1>15, <1>16 DEF OnBalanceDecreased
<1>17. ASSUME NEW e \in events, FundEventLost(e) PROVE Kept
  BY <1>15, <1>17 DEF FundEventLost
<1>18. ASSUME UNCHANGED fundVars PROVE Kept
  BY <1>15, <1>18 DEF fundVars
<1>19. Kept
  BY <1>4, <1>6, <1>7, <1>9, <1>10, <1>11, <1>12, <1>13, <1>14, <1>16, <1>17, <1>18 DEF FundNext
<1> QED
  BY <1>19 DEF Kept

\* ... and, as the guard stands, no second one is started beside it.
LEMMA AloneStep ==
    ASSUME FundTyped, FundInv, [FundNext]_fundVars
    PROVE  OneUnderWay'
<1> SUFFICES ASSUME NEW c \in Outgoing, Untouched(c)', NEW i \in DOMAIN fundings', NEW j \in DOMAIN fundings',
                    i < j, fundings'[i].chan = c, fundings'[j].chan = c,
                    fundings'[i].chain = "pending", fundings'[j].chain = "pending"
             PROVE  fundings'[i].report = "err"
  BY DEF OneUnderWay
<1>1. Untouched(c)
  BY TouchesStay
<1>2. ASSUME UNCHANGED fundings \/ \E k \in Num : Lands(k) \/ Confirmed(k) \/ FundingFailed(k)
      PROVE  fundings'[i].report = "err"
  <2>1. /\ i \in DOMAIN fundings /\ fundings[i].chan = c /\ fundings[i].chain = "pending"
        /\ j \in DOMAIN fundings /\ fundings[j].chan = c /\ fundings[j].chain = "pending"
        /\ fundings[i].report = "err" => fundings'[i].report = "err"
    BY <1>2, PendingBefore
  <2> QED
    BY <1>1, <2>1 DEF FundInv, OneUnderWay
<1>3. ASSUME NEW d \in Outgoing, TryFundChannel(d) PROVE fundings'[i].report = "err"
  <2> DEFINE e == [chan |-> d, chain |-> "pending", report |-> "none"]
  <2>1. CASE UNCHANGED fundings
    BY <1>2, <2>1
  <2>2. CASE d \notin inFlight /\ fundings' = Append(fundings, e)
    <3>1. e \in Funding /\ e.chan = d
      BY DEF Funding
    <3> HIDE DEF e
    <3>2. /\ DOMAIN fundings' = DOMAIN fundings \cup {Len(fundings) + 1}
          /\ \A k \in DOMAIN fundings : fundings'[k] = fundings[k] /\ k < Len(fundings) + 1
          /\ fundings'[Len(fundings) + 1] = e
          /\ Len(fundings) \in Nat /\ \A k \in DOMAIN fundings : k \in Nat
      BY <2>2, <3>1, FundingAppended, NumberedFundings
    <3>3. i \in DOMAIN fundings /\ fundings'[i] = fundings[i]
      BY <3>2
    <3>4. CASE j \in DOMAIN fundings
      BY <1>1, <3>2, <3>3, <3>4 DEF FundInv, OneUnderWay
    <3>5. CASE j = Len(fundings) + 1
      <4>1. c = d
        BY <3>1, <3>2, <3>5
      <4>2. ~ UnderWay(i, c)
        BY <1>1, <2>2, <3>3, <4>1 DEF FundInv, GuardStands
      <4> QED
        BY <3>3, <4>2 DEF UnderWay
    <3> QED
      BY <3>2, <3>4, <3>5
  <2> QED
    BY <1>3, <2>1, <2>2, FundingStarted
<1>4. ASSUME NEW d \in Outgoing,
             \/ Spend(d) \/ ForeignFunding(d) \/ VisitOutgoing(d) \/ OnBalanceDecreased(d)
             \/ FundOnDecrease(d) \/ OnBalanceIncreased(d)
      PROVE  fundings'[i].report = "err"
  BY <1>2, <1>3, <1>4 DEF Spend, ForeignFunding, VisitOutgoing, OnBalanceDecreased,
     FundOnDecrease, OnBalanceIncreased
<1>5. ASSUME NEW e \in events, FundEventLost(e) PROVE fundings'[i].report = "err"
  BY <1>2, <1>5 DEF FundEventLost
<1>6. ASSUME FundTick \/ UNCHANGED fundVars PROVE fundings'[i].report = "err"
  BY <1>2, <1>6 DEF FundTick, fundVars
<1> QED
  BY <1>2, <1>4, <1>5, <1>6 DEF FundNext

LEMMA FundBegins == ASSUME FundInit PROVE FundTyped /\ FundInv
<1>1. FundTyped
  BY FundingAssumption DEF FundInit, FundTyped, History
<1>2. DOMAIN fundings = {}
  BY DEF FundInit
<1>3. \A c \in Outgoing : history[c].rises = {}
  BY DEF FundInit
<1>4. RisesLanded /\ ConfirmedLanded /\ DyingReported /\ RaisersKnown /\ GuardStands /\ OneUnderWay
  BY <1>2, <1>3 DEF RisesLanded, ConfirmedLanded, DyingReported, RaisersKnown, GuardStands, OneUnderWay
<1>5. UntouchedSinks /\ TakerAlone
  BY DEF FundInit, UntouchedSinks, TakerAlone
<1> QED
  BY <1>1, <1>4, <1>5 DEF FundInv

\* Two fundings of one channel can both still land only if the first was given
\* up while it was merely slow, or if the stake rose by something that is
\* neither of them (try_fund_channel, run): for any number of channels,
\* fundings, ticks and lost events.
THEOREM DoubleFundings == FundSpec => []DoubleFundingExplained
<1>1. FundInit => FundTyped /\ FundInv
  BY FundBegins
<1>2. FundTyped /\ FundInv /\ [FundNext]_fundVars => (FundTyped /\ FundInv)'
  BY FundTypeStep, FundingsStep, SinksStep, GuardStep, AloneStep DEF FundInv
<1>3. FundTyped /\ FundInv => DoubleFundingExplained
  <2> SUFFICES ASSUME FundTyped, FundInv, NEW i \in DOMAIN fundings, NEW j \in DOMAIN fundings,
                      i < j, fundings[i].chan = fundings[j].chan,
                      fundings[i].chain = "pending", fundings[j].chain = "pending",
                      fundings[i].report # "err"
               PROVE  history[fundings[i].chan].rises \ {i, j} # {}
    BY DEF DoubleFundingExplained
  <2> DEFINE c == fundings[i].chan
  <2>1. c \in Outgoing /\ i # 0 /\ j # 0
    BY NumberedFundings
  <2>2. history[c].rises # {}
    BY <2>1 DEF FundInv, OneUnderWay, Untouched
  <2>3. i \notin history[c].rises /\ j \notin history[c].rises
    BY <2>1 DEF FundInv, RisesLanded
  <2> QED
    BY <2>2, <2>3
<1> QED
  BY <1>1, <1>2, <1>3, PTL DEF FundSpec

\* The fundings that landed, and how often a stake was raised in all.
Landed == {i \in DOMAIN fundings : fundings[i].chain = "landed"}
Raised == Cardinality(Landed) + foreign
Level  == InitialStake + Raised * FundingAmount

\* Every raise of a stake is one of the fundings that landed or somebody else's.
Counted ==
    /\ Len(fundings) <= MaxFundings /\ foreign \in 0..MaxForeign
    /\ safe \in 0..SafeFunds /\ budget \in 0..SafeFunds
    /\ \A c \in Outgoing : stake[c] <= Level /\ seen[c] <= Level
    /\ \A c \in Outgoing : history[c].rises \subseteq 0..MaxFundings

LEMMA LandedFew ==
    ASSUME FundTyped
    PROVE  /\ IsFiniteSet(Landed) /\ Cardinality(Landed) \in Nat
           /\ Cardinality(Landed) <= Len(fundings)
<1>1. Len(fundings) \in Nat /\ Landed \subseteq 1..Len(fundings)
  BY NumberedFundings DEF Landed
<1>2. /\ IsFiniteSet(1..Len(fundings))
      /\ Cardinality(1..Len(fundings)) = Len(fundings)
  BY <1>1, FS_Interval
<1>3. IsFiniteSet(Landed) /\ Cardinality(Landed) <= Cardinality(1..Len(fundings))
  BY <1>1, <1>2, FS_Subset
<1> QED
  BY <1>2, <1>3, FS_CardinalityType

LEMMA Levels ==
    ASSUME FundTyped, Counted
    PROVE  /\ Raised \in Nat /\ Level \in Nat
           /\ Level <= MaxLevel
           /\ Raised' = Raised => Level' = Level
           /\ Raised' = Raised + 1 => Level' = Level + FundingAmount
<1>1. /\ InitialStake \in Nat /\ FundingAmount \in Nat /\ MaxFundings \in Nat /\ MaxForeign \in Nat
  BY FundingAssumption
<1>2. Raised \in Nat /\ Raised <= MaxFundings + MaxForeign
  BY <1>1, LandedFew, NumberedFundings DEF Counted, Raised
<1> DEFINE total == MaxFundings + MaxForeign
           raised == Raised
<1>3. raised \in Nat /\ total \in Nat /\ raised <= total
  BY <1>1, <1>2
<1>4. MaxLevel = InitialStake + total * FundingAmount /\ Level = InitialStake + raised * FundingAmount
  BY DEF MaxLevel, Level
<1> HIDE DEF total, raised
<1>5. /\ raised * FundingAmount \in Nat /\ total * FundingAmount \in Nat
      /\ raised * FundingAmount <= total * FundingAmount
  <2>1. total = raised + (total - raised) /\ total - raised \in Nat
    BY <1>3
  <2>2. total * FundingAmount = raised * FundingAmount + (total - raised) * FundingAmount
    BY <1>1, <1>3, <2>1
  <2>3. (total - raised) * FundingAmount \in Nat /\ raised * FundingAmount \in Nat
    BY <1>1, <1>3, <2>1
  <2> QED
    BY <2>2, <2>3
<1>6. (raised + 1) * FundingAmount = raised * FundingAmount + FundingAmount
  BY <1>1, <1>3
<1>7. Level \in Nat /\ Level <= MaxLevel
  BY <1>1, <1>4, <1>5
<1>8. Raised' = Raised => Level' = Level
  BY DEF Level
<1>9. Raised' = Raised + 1 => Level' = Level + FundingAmount
  <2>1. Level' = InitialStake + Raised' * FundingAmount
    BY DEF Level
  <2> QED
    BY <1>1, <1>4, <1>5, <1>6, <2>1 DEF raised
<1> QED
  BY <1>2, <1>7, <1>8, <1>9

\* A funding that is started, confirmed or given up raises no stake.
LEMMA NotRaised ==
    ASSUME FundTyped, FundTyped', UNCHANGED foreign, DOMAIN fundings \subseteq DOMAIN fundings',
           \A i \in DOMAIN fundings :
                (fundings'[i].chain = "landed") <=> (fundings[i].chain = "landed"),
           \A i \in DOMAIN fundings' \ DOMAIN fundings : fundings'[i].chain # "landed"
    PROVE  Raised' = Raised
<1>1. Landed' = Landed
  BY DEF Landed
<1> QED
  BY <1>1 DEF Raised

LEMMA CountedStep ==
    ASSUME FundTyped, Counted, FundTyped', Raised' = Raised, UNCHANGED foreign,
           Len(fundings') <= MaxFundings, safe' = safe,
           budget' \in 0..SafeFunds,
           \A c \in Outgoing : stake'[c] <= stake[c] /\ (seen'[c] = seen[c] \/ seen'[c] = stake[c]),
           \A c \in Outgoing : history'[c].rises = history[c].rises
    PROVE  Counted'
<1>1. Level' = Level /\ Level \in Nat
  BY Levels
<1>2. \A c \in Outgoing : stake[c] \in Nat /\ stake'[c] \in Nat
  BY DEF FundTyped
<1>3. \A c \in Outgoing : stake'[c] <= Level /\ seen'[c] <= Level
  BY <1>1, <1>2 DEF Counted
<1> QED
  BY <1>1, <1>3 DEF Counted

LEMMA CountedRaise ==
    ASSUME FundTyped, Counted, FundTyped', NEW c \in Outgoing, NEW who \in 0..MaxFundings, Raise(c, who),
           Raised' = Raised + 1, UNCHANGED <<seen, budget>>,
           Len(fundings') <= MaxFundings, safe' \in 0..SafeFunds, foreign' \in 0..MaxForeign
    PROVE  Counted'
<1>1. Level' = Level + FundingAmount /\ Level \in Nat /\ FundingAmount \in Nat /\ MaxFundings \in Nat
  BY Levels, FundingAssumption
<1>2. \A d \in Outgoing : stake[d] \in Nat /\ seen[d] \in Nat
  BY DEF FundTyped
<1>3. \A d \in Outgoing : stake'[d] = stake[d] \/ stake'[d] = stake[d] + FundingAmount
  BY DEF Raise, FundTyped
<1>4. ASSUME NEW d \in Outgoing PROVE stake'[d] <= Level' /\ seen'[d] <= Level'
  <2>1. stake[d] <= Level /\ seen[d] <= Level /\ seen'[d] = seen[d]
    BY DEF Counted
  <2>2. stake[d] \in Nat /\ seen[d] \in Nat /\ (stake'[d] = stake[d] \/ stake'[d] = stake[d] + FundingAmount)
    BY <1>2, <1>3
  <2> QED
    BY <1>1, <2>1, <2>2
<1>5. \A d \in Outgoing : history'[d].rises \subseteq history[d].rises \cup {who}
  BY <1>1, HistoryRaised
<1>6. \A d \in Outgoing : history'[d].rises \subseteq 0..MaxFundings
  BY <1>5 DEF Counted
<1> QED
  BY <1>4, <1>6 DEF Counted

LEMMA CountedNext == ASSUME FundTyped, Counted, [FundNext]_fundVars PROVE Counted'
<1>1. FundTyped'
  BY FundTypeStep
<1>2. /\ Len(fundings) \in Nat /\ DOMAIN fundings = 1..Len(fundings) /\ Len(fundings) <= MaxFundings
      /\ MaxFundings \in Nat /\ FundingAmount \in Nat \ {0} /\ SafeFunds \in Nat /\ MaxForeign \in Nat
      /\ safe \in 0..SafeFunds /\ budget \in 0..SafeFunds /\ foreign \in 0..MaxForeign
  BY NumberedFundings, FundingAssumption DEF Counted
<1>3. ASSUME fundings' = fundings, UNCHANGED <<foreign, safe>>, budget' \in 0..SafeFunds,
             \A c \in Outgoing : stake'[c] <= stake[c] /\ (seen'[c] = seen[c] \/ seen'[c] = stake[c]),
             \A c \in Outgoing : history'[c].rises = history[c].rises
      PROVE  Counted'
  <2>1. Raised' = Raised
    BY <1>3 DEF Raised, Landed
  <2> QED
    BY <1>1, <1>2, <1>3, <2>1, CountedStep
<1>4. \A c \in Outgoing : stake[c] \in Nat /\ stake[c] <= stake[c]
  BY DEF FundTyped
<1>5. ASSUME NEW c \in Outgoing, TryFundChannel(c), UNCHANGED <<stake, seen, safe, foreign>>,
             budget' \in 0..SafeFunds
      PROVE  Counted'
  <2> DEFINE e == [chan |-> c, chain |-> "pending", report |-> "none"]
  <2>1. e \in Funding /\ e.chain # "landed"
    BY DEF Funding
  <2>2. CASE c \in inFlight \/ Len(fundings) = MaxFundings
    BY <1>3, <1>4, <1>5, <2>2 DEF TryFundChannel
  <2>3. CASE ~(c \in inFlight \/ Len(fundings) = MaxFundings)
    <3>1. /\ fundings' = Append(fundings, e)
          /\ history' = [history EXCEPT ![c].lost = FALSE]
      BY <1>5, <2>3 DEF TryFundChannel
    <3> HIDE DEF e
    <3>2. /\ DOMAIN fundings' = DOMAIN fundings \cup {Len(fundings) + 1}
          /\ \A j \in DOMAIN fundings : fundings'[j] = fundings[j]
          /\ fundings'[Len(fundings) + 1] = e
      BY <2>1, <3>1, FundingAppended
    <3>3. Raised' = Raised
      BY <1>1, <1>5, <2>1, <3>2, NotRaised
    <3>4. Len(fundings') = Len(fundings) + 1
      BY <2>1, <3>1, AppendProperties DEF FundTyped
    <3>5. \A d \in Outgoing : history'[d].rises = history[d].rises
      BY <3>1, HistoryLosses
    <3>6. Len(fundings') <= MaxFundings
      <4> DEFINE m == Len(fundings)
                 k == Len(fundings')
      <4>1. m # MaxFundings
        BY <2>3
      <4>2. m \in Nat /\ m <= MaxFundings /\ MaxFundings \in Nat
        BY <1>2
      <4>3. k = m + 1
        BY <3>4
      <4> HIDE DEF m, k
      <4>4. k <= MaxFundings
        BY <4>1, <4>2, <4>3
      <4> QED
        BY <4>4 DEF k
    <3> QED
      BY <1>1, <1>4, <1>5, <3>3, <3>5, <3>6, CountedStep
  <2> QED
    BY <2>2, <2>3
<1>6. ASSUME NEW i \in DOMAIN fundings, NEW e \in Funding, fundings' = [fundings EXCEPT ![i] = e],
             (e.chain = "landed") <=> (fundings[i].chain = "landed"),
             UNCHANGED <<stake, seen, safe, budget, foreign, history>>
      PROVE  Counted'
  <2>1. /\ DOMAIN fundings' = DOMAIN fundings
        /\ \A j \in DOMAIN fundings : fundings'[j] = IF j = i THEN e ELSE fundings[j]
    BY <1>6, FundingReplaced
  <2>2. Raised' = Raised
    BY <1>1, <1>6, <2>1, NotRaised
  <2>3. Len(fundings') = Len(fundings)
    BY <1>2, <1>6, ExceptSeq DEF FundTyped
  <2> QED
    BY <1>1, <1>2, <1>4, <1>6, <2>2, <2>3, CountedStep
<1>7. ASSUME NEW c \in Outgoing, Spend(c) PROVE Counted'
  <2>1. \A d \in Outgoing : stake'[d] <= stake[d]
    BY <1>7 DEF Spend, FundTyped
  <2> QED
    BY <1>2, <1>3, <1>7, <2>1 DEF Spend
<1>8. ASSUME NEW c \in Outgoing, ForeignFunding(c) PROVE Counted'
  <2>1. /\ Landed' = Landed /\ foreign' = foreign + 1 /\ foreign' \in 0..MaxForeign
        /\ Len(fundings') <= MaxFundings /\ safe' \in 0..SafeFunds /\ 0 \in 0..MaxFundings
    BY <1>2, <1>8 DEF ForeignFunding, Landed
  <2>2. Raised' = Raised + 1
    BY <1>2, <2>1, LandedFew DEF Raised
  <2> QED
    BY <1>1, <1>8, <2>1, <2>2, CountedRaise DEF ForeignFunding
<1>9. ASSUME NEW i \in Num, Lands(i) PROVE Counted'
  <2>1. i \in DOMAIN fundings /\ fundings[i].chain = "pending" /\ fundings[i].chan \in Outgoing
    BY <1>9, FundingLanded, NumberedFundings
  <2>2. PICK e \in Funding : fundings' = [fundings EXCEPT ![i] = e] /\ e.chain = "landed"
    BY <1>9, FundingLanded
  <2>3. /\ DOMAIN fundings' = DOMAIN fundings
        /\ \A j \in DOMAIN fundings : fundings'[j] = IF j = i THEN e ELSE fundings[j]
    BY <2>1, <2>2, FundingReplaced
  <2>4. Landed' = Landed \cup {i} /\ i \notin Landed
    BY <2>1, <2>2, <2>3 DEF Landed
  <2>5. Cardinality(Landed') = Cardinality(Landed) + 1
    BY <2>4, LandedFew, FS_AddElement
  <2>6. Raised' = Raised + 1
    <3>1. foreign' = foreign /\ Cardinality(Landed) \in Nat
      BY <1>9, LandedFew DEF Lands
    <3> QED
      BY <1>2, <2>5, <3>1 DEF Raised
  <2>7. Len(fundings') <= MaxFundings
    BY <1>2, <2>1, <2>2, ExceptSeq DEF FundTyped
  <2>8. /\ safe' \in 0..SafeFunds /\ foreign' \in 0..MaxForeign /\ i \in 0..MaxFundings
        /\ Raise(fundings[i].chan, i) /\ UNCHANGED <<seen, budget>>
    BY <1>2, <1>9 DEF Lands, Num
  <2> QED
    BY <1>1, <2>1, <2>6, <2>7, <2>8, CountedRaise
<1>10. ASSUME NEW e \in events, FundEventLost(e) PROVE Counted'
  <2> DEFINE lost == history[e.chan].lost \/ e.kind = "increased"
  <2>1. e.chan \in Outgoing /\ lost \in BOOLEAN /\ history' = [history EXCEPT ![e.chan].lost = lost]
    BY <1>10 DEF FundEventLost, FundTyped
  <2> HIDE DEF lost
  <2>2. \A d \in Outgoing : history'[d].rises = history[d].rises
    BY <2>1, HistoryLosses
  <2> QED
    BY <1>2, <1>3, <1>4, <1>10, <2>2 DEF FundEventLost
<1>11. CASE FundTick
  <2>1. \A c \in Outgoing : seen'[c] = stake[c]
    BY <1>11 DEF FundTick
  <2>2. budget' \in 0..SafeFunds
    BY <1>2, <1>11 DEF FundTick
  <2> QED
    BY <1>3, <1>4, <1>11, <2>1, <2>2 DEF FundTick
<1>12. ASSUME NEW c \in Outgoing, VisitOutgoing(c) PROVE Counted'
  <2>1. UNCHANGED <<stake, seen, safe, foreign>>
    BY <1>12 DEF VisitOutgoing
  <2>2. CASE UNCHANGED <<fundings, budget, history>>
    BY <1>2, <1>3, <1>4, <2>1, <2>2
  <2>3. CASE Affordable /\ TryFundChannel(c) /\ budget' = budget - FundingAmount
    <3>1. budget' \in 0..SafeFunds
      BY <1>2, <2>3 DEF Affordable
    <3> QED
      BY <1>5, <2>1, <2>3, <3>1
  <2> QED
    BY <1>12, <2>2, <2>3 DEF VisitOutgoing
<1>13. ASSUME NEW c \in Outgoing, OnBalanceDecreased(c) \/ OnBalanceIncreased(c) PROVE Counted'
  BY <1>2, <1>3, <1>4, <1>13 DEF OnBalanceDecreased, OnBalanceIncreased
<1>14. ASSUME NEW c \in Outgoing, FundOnDecrease(c) PROVE Counted'
  BY <1>2, <1>5, <1>14 DEF FundOnDecrease
<1>15. ASSUME NEW i \in Num, Confirmed(i) PROVE Counted'
  <2>1. i \in DOMAIN fundings /\ fundings[i].chain = "landed"
    BY <1>15, FundingConfirmed
  <2>2. PICK e \in Funding : fundings' = [fundings EXCEPT ![i] = e] /\ e.chain = "landed"
    BY <1>15, FundingConfirmed
  <2>3. UNCHANGED <<stake, seen, safe, budget, foreign, history>>
    BY <1>15 DEF Confirmed
  <2> QED
    BY <1>6, <2>1, <2>2, <2>3
<1>16. ASSUME NEW i \in Num, FundingFailed(i) PROVE Counted'
  <2>1. i \in DOMAIN fundings
    BY <1>16, FundingGivenUp
  <2>2. PICK e \in Funding : /\ fundings' = [fundings EXCEPT ![i] = e]
                             /\ e.chain = fundings[i].chain \/ (e.chain = "dead" /\ fundings[i].chain = "pending")
    BY <1>16, FundingGivenUp
  <2>3. UNCHANGED <<stake, seen, safe, budget, foreign, history>>
    BY <1>16 DEF FundingFailed
  <2>4. (e.chain = "landed") <=> (fundings[i].chain = "landed")
    BY <2>2
  <2> QED
    BY <1>6, <2>1, <2>2, <2>3, <2>4
<1>17. CASE UNCHANGED fundVars
  BY <1>2, <1>3, <1>4, <1>17 DEF fundVars
<1> QED
  BY <1>7, <1>8, <1>9, <1>10, <1>11, <1>12, <1>13, <1>14, <1>15, <1>16, <1>17 DEF FundNext

LEMMA CountedBegins == ASSUME FundInit PROVE Counted
<1>1. Landed = {}
  BY DEF FundInit, Landed
<1>2. Raised = 0
  BY <1>1, FS_EmptySet DEF FundInit, Raised
<1>3. Level = InitialStake
  BY <1>2, FundingAssumption DEF Level
<1>4. Len(fundings) = 0
  BY EmptySeq DEF FundInit
<1> QED
  BY <1>3, <1>4, FundingAssumption DEF FundInit, Counted

\* Counted, the types are bounded.
LEMMA CountedTypes == ASSUME FundTyped, Counted PROVE FundTypeOK
<1>1. Level <= MaxLevel /\ Level \in Nat /\ MaxLevel \in Nat
  BY Levels, FundingAssumption DEF MaxLevel
<1>2. \A c \in Outgoing : stake[c] \in 0..MaxLevel /\ seen[c] \in 0..MaxLevel
  BY <1>1 DEF FundTyped, Counted
<1>3. \A c \in Outgoing : history[c] \in [rises : SUBSET (0..MaxFundings), lost : BOOLEAN]
  BY DEF FundTyped, History, Counted
<1> QED
  BY <1>2, <1>3 DEF FundTyped, Counted, FundTypeOK

-----------------------------------------------------------------------------
(***************************************************************************)
(* The sizing of stakes.                                                   *)
(***************************************************************************)

\* What truncating and rounding up keep.
LEMMA Division ==
    ASSUME NEW a \in Nat, NEW b \in Nat \ {0}
    PROVE  a \div b \in Nat /\ b * (a \div b) <= a /\ a < b * (a \div b) + b
OBVIOUS

\* The signs of a product.
LEMMA Product ==
    ASSUME NEW a \in Nat, NEW b \in Nat
    PROVE  a * b \in Nat /\ a * b = b * a /\ (a > 0 /\ b > 0 <=> a * b > 0)
OBVIOUS

\* A common factor decides nothing.
LEMMA Cancel ==
    ASSUME NEW a \in Nat, NEW b \in Nat, NEW c \in Nat \ {0}
    PROVE  /\ a * c <= b * c <=> a <= b
           /\ a * c < b * c <=> a < b
OBVIOUS

\* A multiple is divided exactly.
LEMMA Exact ==
    ASSUME NEW a \in Nat, NEW b \in Nat \ {0}
    PROVE  (a * b) \div b = a
OBVIOUS

\* Rounding up pays for the last ticket begun, and for no other.
LEMMA Rounding ==
    ASSUME NEW n \in Nat, NEW d \in Nat \ {0}
    PROVE  /\ CeilDiv(n, d) \in Nat
           /\ n <= CeilDiv(n, d) * d
           /\ CeilDiv(n, d) * d < n + d
BY Division DEF CeilDiv

\* A clamped probability is a fraction above zero.
LEMMA Clamped ==
    ASSUME NEW p \in WinProbs
    PROVE  LET q == ClampedWinProb(p) IN q[1] \in Nat \ {0} /\ q[2] \in Nat \ {0}
<1>1. p[1] \in Int /\ p[2] \in Nat \ {0} /\ Epsilon \in Nat \ {0}
  BY SizingAssumption DEF SizingAssumption
<1>2. CASE p[1] * Epsilon < p[2]  BY <1>1, <1>2 DEF ClampedWinProb
<1>3. CASE p[1] * Epsilon >= p[2] /\ p[1] > p[2]  BY <1>1, <1>3 DEF ClampedWinProb
<1>4. CASE p[1] * Epsilon >= p[2] /\ p[1] <= p[2]
  <2>1. ClampedWinProb(p) = p  BY <1>1, <1>4 DEF ClampedWinProb
  <2>2. p[1] > 0  BY <1>1, <1>4
  <2> QED  BY <1>1, <2>1, <2>2
<1> QED  BY <1>1, <1>2, <1>3, <1>4

\* Only a price above zero gives a ticket a face value.
LEMMA FaceIsNat ==
    ASSUME NEW price \in Nat, NEW p, p[1] \in Nat \ {0}, p[2] \in Nat \ {0}
    PROVE  /\ FaceValue(price, p) \in Nat
           /\ FaceValue(price, p) > 0 => price > 0
<1>1. price * p[2] \in Nat /\ (price = 0 => price * p[2] = 0)  BY Product
<1>2. (price * p[2]) \div p[1] \in Nat /\ ((price * p[2]) = 0 => (price * p[2]) \div p[1] = 0)
  BY <1>1
<1> DEFINE each == (price * p[2]) \div p[1]
<1> HIDE DEF each
<1>3. each \in Nat /\ AssumedHops \in Nat \ {0}  BY <1>2, SizingAssumption DEF SizingAssumption, each
<1>4. AssumedHops * each \in Nat /\ (each = 0 => AssumedHops * each = 0)  BY <1>3
<1> QED  BY <1>1, <1>2, <1>4 DEF FaceValue, each

\* The stake of a capacity, at what the tick has read.
StakeHolds(stakeOf, bytes, e) ==
    LET p    == ClampedWinProb(e.winProb)
        face == FaceValue(e.price, p)
    IN  (bytes > 0 /\ face > 0) =>
            LET winning == stakeOf \div face
                packets == CeilDiv(bytes, Payload)
            IN  /\ stakeOf = winning * face /\ winning >= 1
                /\ winning * p[2] >= packets * p[1]
                /\ (e.buffer = 0 /\ winning > 1) => (winning - 1) * p[2] < packets * p[1]

Economics == [price : Prices, winProb : WinProbs, buffer : Buffers]

\* The face value cancels from the stake, so its truncation changes no count of tickets; the rest is rounding up.
LEMMA CapacityHolds ==
    ASSUME NEW bytes \in Capacities, NEW e \in Economics
    PROVE  StakeHolds(CapacityToBalance(bytes, e), bytes, e)
<1> DEFINE p      == ClampedWinProb(e.winProb)
           face   == FaceValue(e.price, p)
           num    == p[1]
           den    == p[2]
           buffer == IF num = den THEN 0 ELSE e.buffer
           packets == CeilDiv(bytes, Payload)
           base   == AssumedHops * e.price
           target == MeanDrain(packets, e.price) + buffer
           count  == WholeTickets(target, e.price, p)
           cost   == e.price * AssumedHops * den
<1>1. /\ bytes \in Nat /\ e.price \in Nat /\ e.buffer \in Nat /\ e.winProb \in WinProbs
      /\ Payload \in Nat \ {0} /\ AssumedHops \in Nat \ {0}
  BY SizingAssumption DEF SizingAssumption, Economics
<1>2. num \in Nat \ {0} /\ den \in Nat \ {0}
  BY <1>1, Clamped
<1>3. face \in Nat /\ (face > 0 => e.price > 0)
  BY <1>1, <1>2, FaceIsNat
<1>4. packets \in Nat
  BY <1>1, Rounding
<1>5. CapacityToBalance(bytes, e) = IF bytes = 0 \/ face = 0 THEN 0 ELSE count * face
  BY DEF CapacityToBalance
<1>6. buffer \in Nat /\ (e.buffer = 0 => buffer = 0)
  BY <1>1
<1> SUFFICES ASSUME bytes > 0, face > 0
             PROVE  /\ (count * face) \div face = count
                    /\ count >= 1
                    /\ count * den >= packets * num
                    /\ e.buffer = 0 /\ count > 1 => (count - 1) * den < packets * num
  <2> HIDE DEF count, face, packets
  <2> QED  BY <1>1, <1>3, <1>5 DEF StakeHolds, count, face, packets
<1>7. base \in Nat \ {0} /\ cost = base * den /\ cost \in Nat \ {0}
  <2> HIDE DEF num, den, face
  <2>1. e.price \in Nat \ {0}  BY <1>1, <1>3
  <2> QED  BY <1>1, <1>2, <2>1, Product
<1>8. target = packets * base + buffer /\ target \in Nat
  <2> HIDE DEF packets, buffer
  <2> QED  BY <1>1, <1>4, <1>6 DEF MeanDrain
<1> DEFINE rounded == CeilDiv(target * num, cost)
<1>9. count = AtLeast(rounded, 1)
  BY DEF WholeTickets
<1> HIDE DEF num, den, face, packets, buffer, base, cost, target, count
<1>10. /\ rounded \in Nat
       /\ target * num <= rounded * cost
       /\ rounded * cost < target * num + cost
  <2>1. target * num \in Nat  BY <1>2, <1>8
  <2> QED  BY <1>7, <2>1, Rounding
<1> HIDE DEF rounded
<1>11. count \in Nat /\ count >= 1 /\ count >= rounded /\ (count > 1 => count = rounded)
  BY <1>9, <1>10 DEF AtLeast
<1>12. (count * face) \div face = count
  BY <1>3, <1>11, Exact
<1>13. count * den >= packets * num
  <2>1. (packets * num) * base <= target * num  BY <1>2, <1>4, <1>6, <1>7, <1>8
  <2>2. rounded * cost = (rounded * den) * base  BY <1>2, <1>7, <1>10
  <2>3. packets * num \in Nat /\ rounded * den \in Nat  BY <1>2, <1>4, <1>10
  <2>4. (packets * num) * base <= (rounded * den) * base
    <3>1. target * num \in Nat /\ (packets * num) * base \in Nat /\ (rounded * den) * base \in Nat
      BY <1>2, <1>7, <1>8, <2>3
    <3> QED  BY <1>10, <2>1, <2>2, <3>1
  <2>5. packets * num <= rounded * den  BY <1>7, <2>3, <2>4, Cancel
  <2>6. rounded * den <= count * den  BY <1>2, <1>10, <1>11, Cancel
  <2>7. count * den \in Nat  BY <1>2, <1>11
  <2> QED  BY <2>3, <2>5, <2>6, <2>7
<1>14. ASSUME e.buffer = 0, count > 1 PROVE (count - 1) * den < packets * num
  <2>1. target = packets * base /\ count = rounded  BY <1>4, <1>6, <1>7, <1>8, <1>11, <1>14
  <2>2. (count - 1) * cost < target * num
    <3>1. (count - 1) * cost = count * cost - cost  BY <1>7, <1>11
    <3>2. count * cost \in Nat /\ target * num \in Nat  BY <1>2, <1>7, <1>8, <1>11
    <3> QED  BY <1>7, <1>10, <2>1, <3>1, <3>2
  <2>3. (count - 1) * cost = ((count - 1) * den) * base  BY <1>2, <1>7, <1>11
  <2>4. target * num = (packets * num) * base  BY <1>2, <1>4, <1>7, <2>1
  <2>5. (count - 1) * den \in Nat /\ packets * num \in Nat
    <3>1. count - 1 \in Nat  BY <1>11
    <3> QED  BY <1>2, <1>4, <3>1
  <2> QED  BY <1>7, <2>2, <2>3, <2>4, <2>5, Cancel
<1> QED  BY <1>11, <1>12, <1>13, <1>14

\* What was resolved is what the capacities and the economics read give.
SizeInv ==
    /\ economics \in Economics
    /\ funding \in [initial : Capacities, topup : Capacities, lower : Capacities]
    /\ resolved \subseteq {[initial |-> CapacityToBalance(funding.initial, economics),
                            topup   |-> CapacityToBalance(funding.topup, economics),
                            lower   |-> CapacityToBalance(funding.lower, economics),
                            face    |-> FaceValue(economics.price, ClampedWinProb(economics.winProb))]}

\* At any price, winning probability, capacity and buffer a stake is a whole number of tickets, enough to win
\* over the packets it was sized for, and without a buffer not one more (capacity_to_balance, whole_tickets).
THEOREM StakesCarryCapacity == SizingSpec => []StakeCarriesCapacity
<1>1. SizingInit => SizeInv
  BY DEF SizingInit, SizeInv, Economics
<1>2. SizeInv /\ [Resolve]_sizeVars => SizeInv'
  BY DEF SizeInv, Resolve, sizeVars
<1>3. SizeInv => StakeCarriesCapacity
  <2> SUFFICES ASSUME SizeInv, NEW r \in resolved
               PROVE  /\ r.face = FaceValue(economics.price, ClampedWinProb(economics.winProb))
                      /\ StakeHolds(r.initial, funding.initial, economics)
                      /\ StakeHolds(r.topup, funding.topup, economics)
                      /\ StakeHolds(r.lower, funding.lower, economics)
    BY DEF StakeCarriesCapacity, StakeHolds
  <2> HIDE DEF StakeHolds
  <2>1. /\ StakeHolds(CapacityToBalance(funding.initial, economics), funding.initial, economics)
        /\ StakeHolds(CapacityToBalance(funding.topup, economics), funding.topup, economics)
        /\ StakeHolds(CapacityToBalance(funding.lower, economics), funding.lower, economics)
    BY CapacityHolds DEF SizeInv
  <2> QED  BY <2>1 DEF SizeInv
<1> QED  BY <1>1, <1>2, <1>3, PTL DEF SizingSpec

-----------------------------------------------------------------------------
(***************************************************************************)
(* The selectors: rankings.                                                *)
(***************************************************************************)

\* A ranking lists the candidates, each once, and puts them in order.
LEMMA RankingSorts ==
    ASSUME NEW S, Numbered(S), NEW key, \A c \in S : key[c] \in Int
    PROVE  /\ Cardinality(S) \in Nat
           /\ Ranked(S, key) \in [1..Cardinality(S) -> S]
           /\ \A c \in S : \E i \in 1..Cardinality(S) : Ranked(S, key)[i] = c
           /\ \A i, j \in 1..Cardinality(S) :
                  i < j => Precedes(key, Ranked(S, key)[i], Ranked(S, key)[j])
<1> DEFINE n == Cardinality(S)
           rank == [c \in S |-> Cardinality(Ahead(S, key, c)) + 1]
<1>1. IsFiniteSet(S) /\ n \in Nat
  BY FS_CardinalityType DEF Numbered
<1>2. ASSUME NEW c \in S
      PROVE  /\ IsFiniteSet(Ahead(S, key, c)) /\ Cardinality(Ahead(S, key, c)) \in Nat
             /\ Cardinality(Ahead(S, key, c)) < n
  <2>1. Ahead(S, key, c) \in SUBSET (S \ {c})
    BY DEF Ahead, Precedes, Numbered
  <2>2. IsFiniteSet(S \ {c}) /\ Cardinality(S \ {c}) = n - 1
    BY <1>1, FS_RemoveElement
  <2>3. /\ IsFiniteSet(Ahead(S, key, c))
        /\ Cardinality(Ahead(S, key, c)) <= n - 1
    BY <2>1, <2>2, FS_Subset
  <2> QED BY <2>3, <1>1, FS_CardinalityType
<1>3. ASSUME NEW c \in S, NEW d \in S, Precedes(key, c, d)
      PROVE  Cardinality(Ahead(S, key, c)) < Cardinality(Ahead(S, key, d))
  <2>1. Ahead(S, key, c) \in SUBSET (Ahead(S, key, d) \ {c})
    BY <1>3 DEF Ahead, Precedes, Numbered
  <2>2. c \in Ahead(S, key, d)
    BY <1>3 DEF Ahead
  <2>3. /\ IsFiniteSet(Ahead(S, key, d) \ {c})
        /\ Cardinality(Ahead(S, key, d) \ {c}) = Cardinality(Ahead(S, key, d)) - 1
    BY <1>2, <2>2, FS_RemoveElement
  <2>4. Cardinality(Ahead(S, key, c)) <= Cardinality(Ahead(S, key, d)) - 1
    BY <2>1, <2>3, FS_Subset
  <2> QED BY <2>4, <1>2
<1>4. ASSUME NEW c \in S, NEW d \in S
      PROVE  Precedes(key, c, d) \/ Precedes(key, d, c) \/ c = d
  BY DEF Precedes, Numbered
<1>5. ASSUME NEW c \in S, NEW d \in S, c # d PROVE rank[c] # rank[d]
  BY <1>2, <1>3, <1>4, <1>5
<1>6. rank \in [S -> 1..n]
  BY <1>1, <1>2
<1>7. rank \in Surjection(S, 1..n)
  <2>1. rank \in Injection(S, 1..n)
    BY <1>5, <1>6 DEF Injection, IsInjective
  <2>2. IsFiniteSet(1..n) /\ Cardinality(1..n) = n
    BY <1>1, FS_Interval
  <2> HIDE DEF rank
  <2> QED BY <2>1, <2>2, FS_Injection
<1>8. ASSUME NEW i \in 1..n PROVE Ranked(S, key)[i] \in S /\ rank[Ranked(S, key)[i]] = i
  <2>1. \E c \in S : rank[c] = i
    BY <1>7 DEF Surjection
  <2>2. \E c \in S : Cardinality(Ahead(S, key, c)) = i - 1
    BY <2>1, <1>1, <1>2
  <2>3. Ranked(S, key)[i] = CHOOSE c \in S : Cardinality(Ahead(S, key, c)) = i - 1
    BY DEF Ranked
  <2>4. Ranked(S, key)[i] \in S /\ Cardinality(Ahead(S, key, Ranked(S, key)[i])) = i - 1
    BY <2>2, <2>3
  <2> QED BY <2>4, <1>1
<1>9. Ranked(S, key) \in [1..n -> S]
  BY <1>8 DEF Ranked
<1>10. ASSUME NEW c \in S PROVE \E i \in 1..n : Ranked(S, key)[i] = c
  <2>1. rank[c] \in 1..n
    BY <1>6
  <2>2. Ranked(S, key)[rank[c]] \in S /\ rank[Ranked(S, key)[rank[c]]] = rank[c]
    BY <2>1, <1>8
  <2>3. Ranked(S, key)[rank[c]] = c
    BY <2>2, <1>5
  <2> QED BY <2>1, <2>3
<1>11. ASSUME NEW i \in 1..n, NEW j \in 1..n, i < j
       PROVE  Precedes(key, Ranked(S, key)[i], Ranked(S, key)[j])
  <2>1. rank[Ranked(S, key)[i]] = i /\ rank[Ranked(S, key)[j]] = j
    BY <1>8
  <2>2. ~Precedes(key, Ranked(S, key)[j], Ranked(S, key)[i]) /\ Ranked(S, key)[i] # Ranked(S, key)[j]
    <3>1. ASSUME Precedes(key, Ranked(S, key)[j], Ranked(S, key)[i]) PROVE FALSE
      <4>1. Cardinality(Ahead(S, key, Ranked(S, key)[j])) < Cardinality(Ahead(S, key, Ranked(S, key)[i]))
        BY <3>1, <1>3, <1>8
      <4>2. Ranked(S, key)[i] \in S /\ Ranked(S, key)[j] \in S
        BY <1>8
      <4> QED BY <4>1, <4>2, <2>1, <1>2, <1>11
    <3> HIDE DEF rank
    <3> QED BY <3>1, <2>1, <1>11
  <2> QED BY <2>2, <1>4, <1>8
<1> QED
  BY <1>1, <1>9, <1>10, <1>11

\* A ranking as a sequence.
LEMMA RankingIsSeq ==
    ASSUME NEW S, Numbered(S), NEW key, \A c \in S : key[c] \in Int
    PROVE  /\ Ranked(S, key) \in Seq(S) /\ Len(Ranked(S, key)) = Cardinality(S)
           /\ Range(Ranked(S, key)) = S
<1>1. /\ Cardinality(S) \in Nat /\ Ranked(S, key) \in [1..Cardinality(S) -> S]
      /\ \A c \in S : \E i \in 1..Cardinality(S) : Ranked(S, key)[i] = c
  BY RankingSorts
<1>2. Ranked(S, key) \in Seq(S) /\ Len(Ranked(S, key)) = Cardinality(S)
  BY <1>1
<1>3. Range(Ranked(S, key)) = S
  BY <1>1 DEF Range
<1> QED BY <1>2, <1>3

\* Part of numbered candidates are numbered.
LEMMA PartNumbered ==
    ASSUME NEW S, Numbered(S), NEW T, T \subseteq S
    PROVE  Numbered(T)
BY FS_Subset DEF Numbered

\* The first n of a sequence.
LEMMA FirstOf ==
    ASSUME NEW S, NEW s \in Seq(S), NEW n \in Nat
    PROVE  /\ First(s, n) \in Seq(S) /\ Len(First(s, n)) = Smaller(n, Len(s))
           /\ Len(First(s, n)) \in Nat /\ Len(First(s, n)) <= n /\ Len(First(s, n)) <= Len(s)
           /\ \A i \in 1..Len(First(s, n)) : First(s, n)[i] = s[i]
           /\ Range(First(s, n)) = {s[i] : i \in 1..Smaller(n, Len(s))}
<1>1. Smaller(n, Len(s)) \in 0..Len(s) /\ Smaller(n, Len(s)) <= n
  BY DEF Smaller
<1>2. /\ First(s, n) \in Seq(S) /\ Len(First(s, n)) = Smaller(n, Len(s))
      /\ \A i \in 1..Len(First(s, n)) : First(s, n)[i] = s[i]
  BY <1>1 DEF First
<1>3. DOMAIN First(s, n) = 1..Smaller(n, Len(s))
  BY <1>2
<1> QED BY <1>1, <1>2, <1>3 DEF Range

-----------------------------------------------------------------------------
(***************************************************************************)
(* The selectors: whole scores.                                            *)
(***************************************************************************)

\* The candidates of the snapshot, and the numbers of its configuration.
Offered == problem.opens \cup problem.channels

\* What a snapshot offers is numbered.
LEMMA SnapshotNumbers ==
    ASSUME problem \in Problems
    PROVE  /\ Numbered(problem.opens) /\ Numbered(problem.channels)
           /\ \A c \in Offered : Measured(c)
           /\ problem.deficit \in Nat /\ problem.cfg.kFloor \in Nat /\ problem.cfg.openPerTick \in Nat
BY SelectionAssumption DEF Offered

\* A count of channels in a cell is a number, and cells hold only channels.
LEMMA CellsCount ==
    ASSUME problem \in Problems
    PROVE  /\ IsFiniteSet(Placed) /\ Cardinality(Placed) \in Nat
           /\ Placed # {} => Cardinality(Placed) > 0
           /\ \A cell : CellCount(cell) \in Nat
<1>1. IsFiniteSet(problem.channels)
  BY SnapshotNumbers DEF Numbered
<1>2. IsFiniteSet(Placed) /\ Cardinality(Placed) \in Nat
  BY <1>1, FS_Subset, FS_CardinalityType DEF Placed
<1>3. Placed # {} => Cardinality(Placed) > 0
  BY <1>2, FS_EmptySet
<1>4. ASSUME NEW cell PROVE CellCount(cell) \in Nat
  <2>1. IsFiniteSet({c \in Placed : CellOf(c) = cell})
    BY <1>2, FS_Subset
  <2> QED BY <2>1, FS_CardinalityType DEF CellCount
<1> QED BY <1>2, <1>3, <1>4

\* Scores are whole numbers.
LEMMA ScoresWhole ==
    ASSUME problem \in Problems, NEW c \in Offered
    PROVE  FinalScore(c) \in Int /\ CompositeQuality(c) \in Int
<1>1. /\ {c.probe, c.ack, c.ticket, c.edge, c.stake} \subseteq Int \cup {Unmeasured}
  BY SnapshotNumbers DEF Measured
<1>2. /\ problem.cfg.trustProbe \in Int /\ problem.cfg.trustAck \in Int /\ problem.cfg.trustTicket \in Int
      /\ problem.cfg.qualityWeight \in Int /\ problem.cfg.ticketWeight \in Int
      /\ problem.cfg.weights \in [{"latency", "trust", "stake", "anonymity"} -> Int]
  BY SelectionAssumption
<1>3. /\ problem.cfg.weights.latency \in Int /\ problem.cfg.weights.trust \in Int
      /\ problem.cfg.weights.stake \in Int /\ problem.cfg.weights.anonymity \in Int
  BY <1>2
<1>4. ASSUME NEW x \in Int, NEW y \in Int PROVE x * y \in Int /\ (x * y) \div 100 \in Int
  OBVIOUS
<1>5. LatencyScore(c.latency) \in Int
  BY DEF LatencyScore, FromLatency, NeverMeasured
<1>6. /\ OrElse(c.probe, NeverMeasured) \in Int /\ OrElse(c.ack, NeverMeasured) \in Int
      /\ OrElse(c.ticket, 0) \in Int /\ OrElse(c.stake, 0) \in Int /\ OrElse(c.edge, NeverMeasured) \in Int
  BY <1>1 DEF OrElse, NeverMeasured
<1>7. ASSUME NEW x \in Int PROVE x \div 100 \in Int
  OBVIOUS
<1>8. ASSUME NEW x \in Int, NEW y \in Int PROVE x + y \in Int /\ x - y \in Int
  OBVIOUS
<1>9. Trust(c) \in Int
  <2>1. /\ problem.cfg.trustProbe * OrElse(c.probe, NeverMeasured) \in Int
        /\ problem.cfg.trustAck * OrElse(c.ack, NeverMeasured) \in Int
        /\ problem.cfg.trustTicket * OrElse(c.ticket, 0) \in Int
    BY <1>2, <1>6, <1>4
  <2> QED BY <2>1, <1>7, <1>8 DEF Trust
<1>10. Coverage(c) \in Int
  <2>1. CellCount(CellOf(c)) \in Nat /\ Cardinality(Placed) \in Nat
        /\ (Placed # {} => Cardinality(Placed) > 0)
    BY CellsCount
  <2>2. ASSUME NEW x \in Nat, NEW y \in Nat, y > 0 PROVE (100 * x) \div y \in Int
    BY <2>2
  <2> QED BY <2>1, <2>2 DEF Coverage
<1>11. FinalScore(c) \in Int
  <2>1. /\ problem.cfg.weights.latency * LatencyScore(c.latency) \in Int
        /\ problem.cfg.weights.trust * Trust(c) \in Int
        /\ problem.cfg.weights.stake * OrElse(c.stake, 0) \in Int
        /\ problem.cfg.weights.anonymity * Coverage(c) \in Int
    BY <1>3, <1>4, <1>5, <1>6, <1>9, <1>10
  <2> QED BY <2>1, <1>8 DEF FinalScore
<1>12. CompositeQuality(c) \in Int
  <2>1. CASE c.ticket = Unmeasured
    BY <2>1, <1>6 DEF CompositeQuality
  <2>2. CASE c.ticket # Unmeasured
    <3>1. c.ticket \in Int
      BY <1>1, <2>2
    <3>2. /\ problem.cfg.qualityWeight * OrElse(c.edge, NeverMeasured) \in Int
          /\ problem.cfg.ticketWeight * c.ticket \in Int
      BY <1>2, <1>4, <1>6, <3>1
    <3> QED BY <3>2, <2>2, <1>7, <1>8 DEF CompositeQuality
  <2> QED BY <2>1, <2>2
<1> QED BY <1>11, <1>12

-----------------------------------------------------------------------------
(***************************************************************************)
(* The selectors: closing.                                                 *)
(***************************************************************************)

\* What is scheduled after 0, 1, ..., n channels of the ranking.
CloseRuns(f, n, ranked) ==
    f = [i \in 0..n |-> IF i = 0 THEN << >> ELSE CloseStep(f[i - 1], ranked[i])]

\* The loop can be followed as far as the ranking goes.
LEMMA CloseRunExists ==
    ASSUME NEW ranked, NEW n \in Nat
    PROVE  \E f : CloseRuns(f, n, ranked)
<1> DEFINE Bad == {k \in Nat : ~\E f : CloseRuns(f, k, ranked)}
<1>1. SUFFICES ASSUME Bad # {} PROVE FALSE
  OBVIOUS
<1>2. PICK m \in Bad : \A k \in Bad : m <= k
  BY <1>1, LeastNumber
<1>3. m \in Nat /\ ~\E f : CloseRuns(f, m, ranked)
  OBVIOUS
<1>4. m # 0
  <2>1. CloseRuns([i \in 0..0 |-> << >>], 0, ranked)
    BY DEF CloseRuns
  <2> QED BY <2>1, <1>3
<1>5. m - 1 \in Nat /\ m - 1 \notin Bad
  BY <1>2, <1>3, <1>4
<1>6. PICK g : CloseRuns(g, m - 1, ranked)
  BY <1>5
<1> DEFINE f == [i \in 0..m |-> IF i = m THEN CloseStep(g[m - 1], ranked[m]) ELSE g[i]]
<1>7. ASSUME NEW i \in 0..m
      PROVE  f[i] = IF i = 0 THEN << >> ELSE CloseStep(f[i - 1], ranked[i])
  <2>1. CASE i = m
    BY <2>1, <1>3, <1>4
  <2>2. CASE i # m
    <3>1. i \in 0..(m - 1) /\ (i # 0 => i - 1 \in 0..m /\ i - 1 # m)
      BY <2>2, <1>3
    <3>2. f[i] = g[i] /\ (i # 0 => f[i - 1] = g[i - 1])
      BY <3>1, <2>2
    <3> HIDE DEF f
    <3> QED BY <3>1, <3>2, <1>6 DEF CloseRuns
  <2> QED BY <2>1, <2>2
<1>8. f = [i \in 0..m |-> f[i]]
  OBVIOUS
<1> HIDE DEF f
<1>9. CloseRuns(f, m, ranked)
  BY <1>7, <1>8 DEF CloseRuns
<1> QED BY <1>9, <1>3

\* The loop ends where its run does.
LEMMA CloseRun ==
    ASSUME NEW ranked, Len(ranked) \in Nat
    PROVE  \E f : /\ f[0] = << >>
                  /\ \A i \in 1..Len(ranked) : f[i] = CloseStep(f[i - 1], ranked[i])
                  /\ f[Len(ranked)] = Scheduled(ranked)
<1> DEFINE f == CHOOSE g : CloseRuns(g, Len(ranked), ranked)
<1>1. CloseRuns(f, Len(ranked), ranked)
  BY CloseRunExists
<1>2. f[Len(ranked)] = Scheduled(ranked)
  BY DEF CloseRuns, Scheduled
<1> HIDE DEF f
<1>3. f[0] = << >> /\ \A i \in 1..Len(ranked) : f[i] = CloseStep(f[i - 1], ranked[i])
  BY <1>1 DEF CloseRuns
<1> QED BY <1>2, <1>3

\* The scheduled channels of a known cell, and the floor kept by the cells
\* of which none is drained.
Gone(s, cell) == {d \in Range(s) : Known(d) /\ CellOf(d) = cell}

FloorKept(s) ==
    \A c \in Range(s) :
        (Known(c) /\ \A d \in Gone(s, CellOf(c)) : ~Drained(d))
            => CellCount(CellOf(c)) - Cardinality(Gone(s, CellOf(c))) >= problem.cfg.kFloor

\* One more channel scheduled: the loop has looked at its cell.
LEMMA CloseStepKeeps ==
    ASSUME problem \in Problems, NEW s \in Seq(problem.channels), NEW x \in problem.channels, FloorKept(s)
    PROVE  CloseStep(s, x) \in Seq(problem.channels) /\ FloorKept(CloseStep(s, x))
<1>1. SUFFICES ASSUME CloseStep(s, x) = Append(s, x),
                      ~Drained(x) /\ Known(x) => ~(SimulatedCount(x, s) <= problem.cfg.kFloor)
               PROVE  CloseStep(s, x) \in Seq(problem.channels) /\ FloorKept(Append(s, x))
  BY DEF CloseStep
<1> DEFINE t == Append(s, x)
<1>2. t \in Seq(problem.channels) /\ Range(t) = Range(s) \cup {x}
  <2>1. t \in Seq(problem.channels) /\ Len(t) = Len(s) + 1 /\ t[Len(s) + 1] = x
        /\ \A i \in 1..Len(s) : t[i] = s[i]
    OBVIOUS
  <2>2. DOMAIN t = 1..(Len(s) + 1) /\ DOMAIN s = 1..Len(s) /\ Len(s) \in Nat
    BY <2>1
  <2> HIDE DEF t
  <2>3. ASSUME NEW y \in Range(t) PROVE y \in Range(s) \cup {x}
    BY <2>1, <2>2 DEF Range
  <2>4. ASSUME NEW y \in Range(s) \cup {x} PROVE y \in Range(t)
    <3>1. CASE y = x
      BY <3>1, <2>1, <2>2 DEF Range
    <3>2. CASE y \in Range(s)
      <4>1. PICK i \in 1..Len(s) : y = s[i]
        BY <3>2, <2>2 DEF Range
      <4>2. i \in DOMAIN t /\ t[i] = y
        BY <4>1, <2>1, <2>2
      <4> QED BY <4>2 DEF Range
    <3> QED BY <3>1, <3>2
  <2> QED BY <2>1, <2>3, <2>4
<1> HIDE DEF t
<1>3. ASSUME NEW c \in Range(t), Known(c), \A d \in Gone(t, CellOf(c)) : ~Drained(d)
      PROVE  CellCount(CellOf(c)) - Cardinality(Gone(t, CellOf(c))) >= problem.cfg.kFloor
  <2> DEFINE cell == CellOf(c)
  <2>1. IsFiniteSet(Gone(s, cell)) /\ Cardinality(Gone(s, cell)) \in Nat
    <3>1. Gone(s, cell) \subseteq problem.channels
      BY DEF Gone, Range
    <3> QED BY <3>1, SnapshotNumbers, FS_Subset, FS_CardinalityType DEF Numbered
  <2>2. CASE ~(Known(x) /\ CellOf(x) = cell)
    <3>1. Gone(t, cell) = Gone(s, cell)
      BY <2>2, <1>2 DEF Gone
    <3>2. c # x
      BY <2>2, <1>3
    <3> QED BY <3>1, <3>2, <1>2, <1>3 DEF FloorKept
  <2>3. CASE Known(x) /\ CellOf(x) = cell
    <3>1. Gone(t, cell) = Gone(s, cell) \cup {x}
      BY <2>3, <1>2 DEF Gone
    <3>2. ~Drained(x) /\ \A d \in Gone(s, cell) : ~Drained(d)
      BY <3>1, <1>3
    <3>3. {d \in Range(s) : ~Drained(d) /\ Known(d) /\ CellOf(d) = CellOf(x)} = Gone(s, cell)
      BY <3>2, <2>3 DEF Gone
    <3>4. SimulatedCount(x, s) = CellCount(cell) - Cardinality(Gone(s, cell))
      BY <3>3, <2>3 DEF SimulatedCount
    <3>5. ~(CellCount(cell) - Cardinality(Gone(s, cell)) <= problem.cfg.kFloor)
      BY <3>2, <3>4, <2>3, <1>1
    <3>6. CellCount(cell) \in Nat /\ problem.cfg.kFloor \in Nat
      BY CellsCount, SnapshotNumbers
    <3>7. Cardinality(Gone(t, cell)) = IF x \in Gone(s, cell) THEN Cardinality(Gone(s, cell))
                                                            ELSE Cardinality(Gone(s, cell)) + 1
      BY <3>1, <2>1, FS_AddElement
    <3> QED BY <3>5, <3>6, <3>7, <2>1
  <2> QED BY <2>2, <2>3
<1> QED BY <1>1, <1>2, <1>3 DEF FloorKept, t

\* What the multi-objective selector closes.
LEMMA ClosesKeepFloor ==
    ASSUME problem \in Problems
    PROVE  MultiCloses \in Seq(problem.channels) /\ FloorKept(MultiCloses)
<1> DEFINE threshold == Larger(0, problem.cfg.minQuality - problem.cfg.gap)
           closable  == {c \in problem.channels : ShouldClose(c, threshold) /\ ~KFloorVeto(c)}
           ranked    == Ranked(closable, [c \in closable |-> FinalScore(c)])
<1>1. MultiCloses = Scheduled(ranked)
  BY DEF MultiCloses
<1>2. closable \subseteq problem.channels
  OBVIOUS
<1> HIDE DEF closable
<1>3. Numbered(closable)
  BY <1>2, SnapshotNumbers, PartNumbered
<1>4. \A c \in closable : [d \in closable |-> FinalScore(d)][c] \in Int
  BY <1>2, ScoresWhole DEF Offered
<1>5. ranked \in Seq(closable) /\ Len(ranked) \in Nat
  BY <1>3, <1>4, RankingIsSeq, RankingSorts
<1> HIDE DEF ranked
<1>6. PICK f : /\ f[0] = << >>
               /\ \A i \in 1..Len(ranked) : f[i] = CloseStep(f[i - 1], ranked[i])
               /\ f[Len(ranked)] = Scheduled(ranked)
  BY <1>5, CloseRun
<1> DEFINE G == {i \in 0..Len(ranked) : f[i] \in Seq(problem.channels) /\ FloorKept(f[i])}
<1>7. 0 \in G
  <2>1. f[0] \in Seq(problem.channels) /\ Range(f[0]) = {}
    BY <1>6 DEF Range
  <2> QED BY <2>1, <1>5 DEF FloorKept
<1>8. ASSUME NEW i \in 1..Len(ranked), i - 1 \in G PROVE i \in G
  <2>1. ranked[i] \in problem.channels
    BY <1>5, <1>2
  <2>2. f[i] \in Seq(problem.channels) /\ FloorKept(f[i])
    BY <2>1, <1>6, <1>8, CloseStepKeeps
  <2> QED BY <2>2, <1>5
<1> HIDE DEF G
<1>9. 0..Len(ranked) \subseteq G
  BY <1>5, <1>7, <1>8, Upto
<1>10. Len(ranked) \in G
  BY <1>5, <1>9
<1> QED BY <1>1, <1>6, <1>10 DEF G
-----------------------------------------------------------------------------
(***************************************************************************)
(* The selectors: opening.                                                 *)
(***************************************************************************)

\* The number of channels one tick may open.
OpenLimit == Smaller(problem.cfg.openPerTick, problem.deficit)

\* From position p on, s puts a candidate before a better one only to fill a
\* known cell short of the floor.
OrderedFrom(s, p) ==
    \A i, j \in (p + 1)..Len(s) : (i < j /\ FinalScore(s[i]) < FinalScore(s[j]))
        => /\ Known(s[i])
           /\ CellCount(CellOf(s[i])) + Filled(First(s, i - 1), CellOf(s[i])) < problem.cfg.kFloor

\* Rankings of a part of the candidates to open to, by falling score.
LEMMA FallingRanks ==
    ASSUME problem \in Problems, NEW S, S \subseteq problem.opens
    PROVE  /\ Ranked(S, Falling(S)) \in Seq(S) /\ Len(Ranked(S, Falling(S))) \in Nat
           /\ Range(Ranked(S, Falling(S))) = S
           /\ \A i, j \in 1..Len(Ranked(S, Falling(S))) : i < j =>
                  LET c == Ranked(S, Falling(S))[i]
                      d == Ranked(S, Falling(S))[j]
                  IN  /\ FinalScore(c) > FinalScore(d) \/ (FinalScore(c) = FinalScore(d) /\ c.id < d.id)
                      /\ c \in S /\ d \in S
<1>1. Numbered(S)
  BY SnapshotNumbers, PartNumbered
<1>2. \A c \in S : FinalScore(c) \in Int
  BY ScoresWhole DEF Offered
<1>3. \A c \in S : Falling(S)[c] \in Int /\ Falling(S)[c] = -FinalScore(c)
  BY <1>2 DEF Falling
<1>4. /\ Ranked(S, Falling(S)) \in Seq(S) /\ Len(Ranked(S, Falling(S))) = Cardinality(S)
      /\ Range(Ranked(S, Falling(S))) = S
  BY <1>1, <1>3, RankingIsSeq
<1>5. /\ Cardinality(S) \in Nat
      /\ \A i, j \in 1..Cardinality(S) :
             i < j => Precedes(Falling(S), Ranked(S, Falling(S))[i], Ranked(S, Falling(S))[j])
  BY <1>1, <1>3, RankingSorts
<1>6. ASSUME NEW i \in 1..Cardinality(S), NEW j \in 1..Cardinality(S), i < j
      PROVE  LET c == Ranked(S, Falling(S))[i]
                 d == Ranked(S, Falling(S))[j]
             IN  /\ FinalScore(c) > FinalScore(d) \/ (FinalScore(c) = FinalScore(d) /\ c.id < d.id)
                 /\ c \in S /\ d \in S
  <2> DEFINE c == Ranked(S, Falling(S))[i]
             d == Ranked(S, Falling(S))[j]
  <2>1. c \in S /\ d \in S
    BY <1>4
  <2>2. Precedes(Falling(S), c, d)
    BY <1>5, <1>6
  <2> HIDE DEF c, d
  <2>3. FinalScore(c) > FinalScore(d) \/ (FinalScore(c) = FinalScore(d) /\ c.id < d.id)
    BY <2>1, <2>2, <1>2, <1>3 DEF Precedes
  <2> QED BY <2>1, <2>3 DEF c, d
<1> QED BY <1>4, <1>5, <1>6

\* The parts of one call of fill_opens.
Needed(picks, tier) ==
    {c \in tier : /\ Known(c) /\ Lacking(picks, CellOf(c))
                  /\ \A d \in tier : CellOf(d) = CellOf(c) => ~Precedes(Falling(tier), d, c)}
Forced(picks, tier) ==
    First(Ranked(Needed(picks, tier), Falling(Needed(picks, tier))), OpenLimit - Len(picks))
Rest(picks, tier) == tier \ Range(Forced(picks, tier))
Filler(picks, tier) ==
    First(Ranked(Rest(picks, tier), Falling(Rest(picks, tier))),
          OpenLimit - Len(picks) - Len(Forced(picks, tier)))

LEMMA FillOpensParts ==
    ASSUME NEW picks, NEW tier
    PROVE  FillOpens(picks, tier) = picks \o Forced(picks, tier) \o Filler(picks, tier)
BY DEF FillOpens, Forced, Filler, Rest, Needed, OpenLimit

\* What is known of the parts.
LEMMA PartsOfFill ==
    ASSUME problem \in Problems, NEW picks \in Seq(problem.opens), Len(picks) <= OpenLimit,
           NEW tier, tier \subseteq problem.opens
    PROVE  /\ OpenLimit \in Nat
           /\ Forced(picks, tier) \in Seq(Needed(picks, tier))
           /\ Len(picks) + Len(Forced(picks, tier)) <= OpenLimit
           /\ Filler(picks, tier) \in Seq(Rest(picks, tier))
           /\ Len(picks) + Len(Forced(picks, tier)) + Len(Filler(picks, tier)) <= OpenLimit
           /\ Len(picks) + Len(Forced(picks, tier)) + Len(Filler(picks, tier)) < OpenLimit
                  => Range(Filler(picks, tier)) = Rest(picks, tier)
           /\ \A a, b \in 1..Len(Forced(picks, tier)) : b < a
                  => CellOf(Forced(picks, tier)[b]) # CellOf(Forced(picks, tier)[a])
           /\ \A a, b \in 1..Len(Filler(picks, tier)) : a < b
                  => ~(FinalScore(Filler(picks, tier)[a]) < FinalScore(Filler(picks, tier)[b]))
<1> DEFINE F == Forced(picks, tier)
           G == Filler(picks, tier)
           N == Needed(picks, tier)
           R == Rest(picks, tier)
           rn == Ranked(N, Falling(N))
           rr == Ranked(R, Falling(R))
<1>1. OpenLimit \in Nat /\ Len(picks) \in Nat /\ OpenLimit - Len(picks) \in Nat
  BY SnapshotNumbers DEF OpenLimit, Smaller
<1>2. N \subseteq problem.opens /\ R \subseteq problem.opens
  BY DEF Needed, Rest
<1>3. /\ rn \in Seq(N) /\ Len(rn) \in Nat /\ Range(rn) = N
      /\ \A i, j \in 1..Len(rn) : i < j =>
             /\ FinalScore(rn[i]) > FinalScore(rn[j]) \/ (FinalScore(rn[i]) = FinalScore(rn[j]) /\ rn[i].id < rn[j].id)
             /\ rn[i] \in N /\ rn[j] \in N
  BY <1>2, FallingRanks
<1>4. /\ rr \in Seq(R) /\ Len(rr) \in Nat /\ Range(rr) = R
      /\ \A i, j \in 1..Len(rr) : i < j =>
             /\ FinalScore(rr[i]) > FinalScore(rr[j]) \/ (FinalScore(rr[i]) = FinalScore(rr[j]) /\ rr[i].id < rr[j].id)
             /\ rr[i] \in R /\ rr[j] \in R
  BY <1>2, FallingRanks
<1>5. F = First(rn, OpenLimit - Len(picks)) /\ G = First(rr, OpenLimit - Len(picks) - Len(F))
  BY DEF Forced, Filler
<1>6. \A c \in problem.opens : FinalScore(c) \in Int
  BY ScoresWhole DEF Offered
<1> HIDE DEF F, G, N, R, rn, rr
<1>7. /\ F \in Seq(N) /\ Len(F) \in Nat /\ Len(F) <= OpenLimit - Len(picks) /\ Len(F) <= Len(rn)
      /\ \A i \in 1..Len(F) : F[i] = rn[i]
  BY <1>1, <1>3, <1>5, FirstOf
<1>8. OpenLimit - Len(picks) - Len(F) \in Nat
  BY <1>1, <1>7
<1>9. /\ G \in Seq(R) /\ Len(G) \in Nat /\ Len(G) <= OpenLimit - Len(picks) - Len(F) /\ Len(G) <= Len(rr)
      /\ Len(G) = Smaller(OpenLimit - Len(picks) - Len(F), Len(rr))
      /\ \A i \in 1..Len(G) : G[i] = rr[i]
  BY <1>4, <1>5, <1>8, FirstOf
<1>10. ASSUME Len(picks) + Len(F) + Len(G) < OpenLimit PROVE Range(G) = R
  <2>1. Len(G) < OpenLimit - Len(picks) - Len(F)
    BY <1>1, <1>7, <1>9, <1>10
  <2>2. Len(G) = Len(rr)
    BY <2>1, <1>9 DEF Smaller
  <2>3. DOMAIN G = 1..Len(G)
    BY <1>9
  <2>4. DOMAIN rr = 1..Len(rr)
    BY <1>4
  <2>5. Range(G) = Range(rr)
    BY <2>2, <2>3, <2>4, <1>9 DEF Range
  <2> QED BY <2>5, <1>4
<1>11. ASSUME NEW a \in 1..Len(F), NEW b \in 1..Len(F), b < a PROVE CellOf(F[b]) # CellOf(F[a])
  <2>1. F[a] = rn[a] /\ F[b] = rn[b] /\ a \in 1..Len(rn) /\ b \in 1..Len(rn)
    BY <1>3, <1>7
  <2>2. /\ FinalScore(F[b]) > FinalScore(F[a]) \/ (FinalScore(F[b]) = FinalScore(F[a]) /\ F[b].id < F[a].id)
        /\ F[a] \in N /\ F[b] \in N
    BY <2>1, <1>3, <1>11
  <2>3. F[a] \in tier /\ F[b] \in tier
        /\ (CellOf(F[b]) = CellOf(F[a]) => ~Precedes(Falling(tier), F[b], F[a]))
    BY <2>2 DEF N, Needed
  <2>4. Falling(tier)[F[a]] = -FinalScore(F[a]) /\ Falling(tier)[F[b]] = -FinalScore(F[b])
    BY <2>3 DEF Falling
  <2>5. FinalScore(F[a]) \in Int /\ FinalScore(F[b]) \in Int
    BY <2>3, <1>6
  <2> QED BY <2>2, <2>3, <2>4, <2>5 DEF Precedes
<1>12. ASSUME NEW a \in 1..Len(G), NEW b \in 1..Len(G), a < b PROVE ~(FinalScore(G[a]) < FinalScore(G[b]))
  <2>1. G[a] = rr[a] /\ G[b] = rr[b] /\ a \in 1..Len(rr) /\ b \in 1..Len(rr)
    BY <1>4, <1>9
  <2>2. /\ FinalScore(G[a]) > FinalScore(G[b]) \/ FinalScore(G[a]) = FinalScore(G[b])
        /\ G[a] \in R /\ G[b] \in R
    BY <2>1, <1>4, <1>12
  <2>3. FinalScore(G[a]) \in Int /\ FinalScore(G[b]) \in Int
    BY <2>2, <1>2, <1>6
  <2> QED BY <2>2, <2>3
<1>13. /\ Len(picks) + Len(F) <= OpenLimit
       /\ Len(picks) + Len(F) + Len(G) <= OpenLimit
  BY <1>1, <1>7, <1>9
<1>14. /\ F \in Seq(N) /\ G \in Seq(R)
  BY <1>7, <1>9
<1> QED BY <1>1, <1>10, <1>11, <1>12, <1>13, <1>14 DEF F, G, N, R

\* Two sequences in a row.
LEMMA InARow ==
    ASSUME NEW S, NEW s \in Seq(S), NEW t \in Seq(S)
    PROVE  /\ s \o t \in Seq(S) /\ Len(s \o t) = Len(s) + Len(t)
           /\ \A i \in 1..Len(s) : (s \o t)[i] = s[i]
           /\ \A i \in 1..Len(t) : (s \o t)[Len(s) + i] = t[i]
           /\ Len(s) \in Nat /\ Len(t) \in Nat
OBVIOUS

\* Whom a call of fill_opens adds, and in which order.
LEMMA FillOpensDoes ==
    ASSUME problem \in Problems, NEW picks \in Seq(problem.opens), Len(picks) <= OpenLimit,
           NEW tier, tier \subseteq problem.opens
    PROVE  /\ FillOpens(picks, tier) \in Seq(problem.opens)
           /\ Len(picks) <= Len(FillOpens(picks, tier)) /\ Len(FillOpens(picks, tier)) <= OpenLimit
           /\ \A i \in 1..Len(picks) : FillOpens(picks, tier)[i] = picks[i]
           /\ \A i \in (Len(picks) + 1)..Len(FillOpens(picks, tier)) : FillOpens(picks, tier)[i] \in tier
           /\ Len(FillOpens(picks, tier)) < OpenLimit => tier \subseteq Range(FillOpens(picks, tier))
           /\ OrderedFrom(FillOpens(picks, tier), Len(picks))
<1> DEFINE F == Forced(picks, tier)
           G == Filler(picks, tier)
           N == Needed(picks, tier)
           R == Rest(picks, tier)
           r == FillOpens(picks, tier)
           p == Len(picks)
<1>1. /\ OpenLimit \in Nat /\ F \in Seq(N) /\ G \in Seq(R)
      /\ p + Len(F) <= OpenLimit /\ p + Len(F) + Len(G) <= OpenLimit
      /\ p + Len(F) + Len(G) < OpenLimit => Range(G) = R
      /\ \A a, b \in 1..Len(F) : b < a => CellOf(F[b]) # CellOf(F[a])
      /\ \A a, b \in 1..Len(G) : a < b => ~(FinalScore(G[a]) < FinalScore(G[b]))
  BY PartsOfFill
<1>2. r = picks \o F \o G
  BY FillOpensParts
<1>3. N \subseteq tier /\ R \subseteq tier /\ R = tier \ Range(F)
  BY DEF Needed, Rest
<1>4. \A c \in N : Known(c) /\ CellCount(CellOf(c)) + Filled(picks, CellOf(c)) < problem.cfg.kFloor
  BY DEF Needed, Lacking
<1> HIDE DEF F, G, N, R, r
<1>5. /\ F \in Seq(problem.opens) /\ G \in Seq(problem.opens)
      /\ p \in Nat /\ Len(F) \in Nat /\ Len(G) \in Nat
  BY <1>1, <1>3
<1>6. /\ r \in Seq(problem.opens) /\ Len(r) = p + Len(F) + Len(G)
      /\ \A i \in 1..p : r[i] = picks[i]
      /\ \A i \in 1..Len(F) : r[p + i] = F[i]
      /\ \A i \in 1..Len(G) : r[p + Len(F) + i] = G[i]
  <2> DEFINE q == picks \o F
  <2>1. /\ q \in Seq(problem.opens) /\ Len(q) = p + Len(F)
        /\ \A i \in 1..p : q[i] = picks[i]
        /\ \A i \in 1..Len(F) : q[p + i] = F[i]
    BY <1>5, InARow
  <2>2. r = q \o G
    BY <1>2
  <2> HIDE DEF q
  <2>3. /\ r \in Seq(problem.opens) /\ Len(r) = Len(q) + Len(G)
        /\ \A i \in 1..Len(q) : r[i] = q[i]
        /\ \A i \in 1..Len(G) : r[Len(q) + i] = G[i]
    <3>0. q \in Seq(problem.opens) /\ G \in Seq(problem.opens)
      BY <2>1, <1>5
    <3>1. /\ q \o G \in Seq(problem.opens) /\ Len(q \o G) = Len(q) + Len(G)
          /\ \A i \in 1..Len(q) : (q \o G)[i] = q[i]
          /\ \A i \in 1..Len(G) : (q \o G)[Len(q) + i] = G[i]
      BY <3>0, InARow
    <3> QED BY <3>1, <2>2
  <2>4. ASSUME NEW i \in 1..p PROVE r[i] = picks[i]
    BY <2>1, <2>3, <1>5
  <2>5. ASSUME NEW i \in 1..Len(F) PROVE r[p + i] = F[i]
    <3>1. p + i \in 1..Len(q)
      BY <2>1, <1>5
    <3> QED BY <3>1, <2>1, <2>3
  <2> QED BY <2>1, <2>3, <2>4, <2>5
<1>7. ASSUME NEW i \in (p + 1)..Len(r)
      PROVE  \/ i - p \in 1..Len(F) /\ r[i] = F[i - p]
             \/ i - p - Len(F) \in 1..Len(G) /\ r[i] = G[i - p - Len(F)]
  <2>1. CASE i <= p + Len(F)
    <3>1. i - p \in 1..Len(F) /\ p + (i - p) = i
      BY <2>1, <1>5, <1>6
    <3> QED BY <3>1, <1>6
  <2>2. CASE ~(i <= p + Len(F))
    <3>1. i - p - Len(F) \in 1..Len(G) /\ p + Len(F) + (i - p - Len(F)) = i
      BY <2>2, <1>5, <1>6
    <3> QED BY <3>1, <1>6
  <2> QED BY <2>1, <2>2
<1>8. ASSUME NEW i \in (p + 1)..Len(r) PROVE r[i] \in tier
  <2>1. CASE i - p \in 1..Len(F) /\ r[i] = F[i - p]
    BY <2>1, <1>1, <1>3
  <2>2. CASE i - p - Len(F) \in 1..Len(G) /\ r[i] = G[i - p - Len(F)]
    BY <2>2, <1>1, <1>3
  <2> QED BY <2>1, <2>2, <1>7
<1>9. ASSUME Len(r) < OpenLimit, NEW c \in tier PROVE c \in Range(r)
  <2>1. Range(G) = R
    BY <1>1, <1>6, <1>9
  <2>2. DOMAIN r = 1..Len(r) /\ DOMAIN F = 1..Len(F) /\ DOMAIN G = 1..Len(G)
    BY <1>5, <1>6
  <2>3. CASE c \in Range(F)
    <3>1. PICK i \in 1..Len(F) : c = F[i]
      BY <2>2, <2>3 DEF Range
    <3>2. p + i \in DOMAIN r /\ r[p + i] = c
      BY <2>2, <3>1, <1>5, <1>6
    <3> QED BY <3>2 DEF Range
  <2>4. CASE c \notin Range(F)
    <3>1. PICK i \in 1..Len(G) : c = G[i]
      BY <2>1, <2>2, <2>4, <1>3 DEF Range
    <3>2. p + Len(F) + i \in DOMAIN r /\ r[p + Len(F) + i] = c
      BY <2>2, <3>1, <1>5, <1>6
    <3> QED BY <3>2 DEF Range
  <2> QED BY <2>3, <2>4
<1>10. ASSUME NEW i \in (p + 1)..Len(r), NEW j \in (p + 1)..Len(r), i < j, FinalScore(r[i]) < FinalScore(r[j])
       PROVE  /\ Known(r[i])
              /\ CellCount(CellOf(r[i])) + Filled(First(r, i - 1), CellOf(r[i])) < problem.cfg.kFloor
  <2>1. i - p \in 1..Len(F) /\ r[i] = F[i - p]
    <3>1. SUFFICES ASSUME i - p - Len(F) \in 1..Len(G), r[i] = G[i - p - Len(F)] PROVE FALSE
      BY <1>7
    <3>2. j - p - Len(F) \in 1..Len(G) /\ r[j] = G[j - p - Len(F)]
      <4>1. ~(j - p \in 1..Len(F))
        BY <3>1, <1>5, <1>10, <1>6
      <4> QED BY <4>1, <1>7
    <3>3. i - p - Len(F) < j - p - Len(F)
      BY <1>5, <1>6, <1>10
    <3> QED BY <3>1, <3>2, <3>3, <1>1, <1>10
  <2> DEFINE cell == CellOf(r[i])
             before == First(r, i - 1)
  <2>2. r[i] \in N
    BY <2>1, <1>1
  <2>3. i - 1 \in Nat /\ Smaller(i - 1, Len(r)) = i - 1 /\ i - 1 \in p..Len(r)
    BY <1>5, <1>6 DEF Smaller
  <2>4. Range(before) = {r[k] : k \in 1..(i - 1)}
    BY <2>3, <1>6, FirstOf
  <2>5. ASSUME NEW k \in 1..(i - 1) PROVE r[k] \in Range(picks) \/ CellOf(r[k]) # cell
    <3>1. CASE k <= p
      <4>1. k \in 1..p /\ DOMAIN picks = 1..p
        BY <3>1, <2>3, <1>5
      <4>2. r[k] = picks[k]
        BY <4>1, <1>6
      <4> QED BY <4>1, <4>2 DEF Range
    <3>2. CASE ~(k <= p)
      <4>0. k \in Nat /\ k < i /\ p \in Nat /\ i \in Nat /\ Len(F) \in Nat
        BY <2>3, <1>5, <1>6
      <4>1. k - p \in 1..Len(F) /\ k - p < i - p /\ p + (k - p) = k
        BY <3>2, <4>0, <2>1
      <4>2. r[k] = F[k - p]
        BY <4>1, <1>6
      <4> QED BY <4>1, <4>2, <2>1, <1>1
    <3> QED BY <3>1, <3>2
  <2>6. ASSUME NEW c \in Range(picks) PROVE c \in Range(before)
    <3>1. PICK k \in 1..p : c = picks[k]
      BY <1>5 DEF Range
    <3>2. k \in 1..(i - 1) /\ r[k] = c
      BY <3>1, <2>3, <1>5, <1>6
    <3> QED BY <3>2, <2>4
  <2> HIDE DEF before
  <2>7. {c \in Range(before) : CellOf(c) = cell} = {c \in Range(picks) : CellOf(c) = cell}
    BY <2>4, <2>5, <2>6
  <2>8. Filled(before, cell) = Filled(picks, cell)
    BY <2>7 DEF Filled
  <2> QED BY <2>2, <2>8, <1>4 DEF before
<1>11. OrderedFrom(r, p)
  BY <1>10 DEF OrderedFrom
<1>12. p <= Len(r) /\ Len(r) <= OpenLimit
  BY <1>1, <1>5, <1>6
<1> QED BY <1>6, <1>8, <1>9, <1>11, <1>12 DEF r

\* An answer of select_opens in order: OpensInOrder of one answer.
InOrder(s) ==
    \A i \in DOMAIN s :
        LET early  == s[i]
            before == First(s, i - 1)
        IN  /\ early \in Sinks => Capable \subseteq Range(before)
            /\ problem.selector = "multi" =>
                   \A late \in Range(s) \ Range(First(s, i)) :
                       FinalScore(early) < FinalScore(late) /\ (early \in Capable <=> late \in Capable)
                           => /\ Known(early)
                              /\ CellCount(CellOf(early)) + Filled(before, CellOf(early)) < problem.cfg.kFloor

\* What holds the first elements of a sequence.
LEMMA FirstHolds ==
    ASSUME NEW S, NEW s \in Seq(S), NEW i \in 0..Len(s)
    PROVE  /\ Range(First(s, i)) = {s[k] : k \in 1..i}
           /\ \A t \in Seq(S) : (Len(t) >= i /\ \A k \in 1..i : t[k] = s[k]) => First(t, i) = First(s, i)
<1>1. i \in Nat /\ Len(s) \in Nat /\ Smaller(i, Len(s)) = i
  BY DEF Smaller
<1>2. Range(First(s, i)) = {s[k] : k \in 1..i}
  BY <1>1, FirstOf
<1>3. ASSUME NEW t \in Seq(S), Len(t) >= i, \A k \in 1..i : t[k] = s[k]
      PROVE  First(t, i) = First(s, i)
  <2>1. Len(t) \in Nat /\ Smaller(i, Len(t)) = i
    BY <1>1, <1>3 DEF Smaller
  <2>2. /\ First(s, i) \in Seq(S) /\ Len(First(s, i)) = i /\ \A k \in 1..i : First(s, i)[k] = s[k]
    BY <1>1, FirstOf
  <2>3. /\ First(t, i) \in Seq(S) /\ Len(First(t, i)) = i /\ \A k \in 1..i : First(t, i)[k] = t[k]
    BY <1>1, <2>1, FirstOf
  <2>4. \A k \in 1..i : First(t, i)[k] = First(s, i)[k]
    BY <1>3, <2>2, <2>3
  <2> HIDE DEF First
  <2> QED BY <2>2, <2>3, <2>4, SeqEqual
<1> QED BY <1>2, <1>3

\* The default selector: every forwarding-capable candidate, then the sinks.
LEMMA DefaultInOrder ==
    ASSUME problem \in Problems, problem.selector = "default"
    PROVE  DefaultOpens \in Seq(problem.opens) /\ InOrder(DefaultOpens)
<1> DEFINE Worse(S) == [c \in S |-> -CompositeQuality(c)]
           rc == Ranked(Capable, Worse(Capable))
           rs == Ranked(Sinks, Worse(Sinks))
           r  == DefaultOpens
<1>1. r = rc \o rs
  BY DEF DefaultOpens
<1>2. Capable \subseteq problem.opens /\ Sinks \subseteq problem.opens /\ Sinks = problem.opens \ Capable
  BY DEF Capable, Sinks
<1>3. Numbered(Capable) /\ Numbered(Sinks)
  BY <1>2, SnapshotNumbers, PartNumbered
<1>4. ASSUME NEW S, S \subseteq problem.opens, NEW c \in S PROVE Worse(S)[c] \in Int
  <2>1. CompositeQuality(c) \in Int
    BY <1>4, ScoresWhole DEF Offered
  <2> QED BY <2>1
<1> HIDE DEF Worse
<1>5. /\ rc \in Seq(Capable) /\ Range(rc) = Capable
      /\ rs \in Seq(Sinks) /\ Range(rs) = Sinks
  BY <1>2, <1>3, <1>4, RankingIsSeq
<1> HIDE DEF rc, rs, r
<1>6. rc \in Seq(problem.opens) /\ rs \in Seq(problem.opens)
  BY <1>2, <1>5
<1>7. /\ rc \o rs \in Seq(problem.opens) /\ Len(rc \o rs) = Len(rc) + Len(rs)
      /\ \A i \in 1..Len(rc) : (rc \o rs)[i] = rc[i]
      /\ Len(rc) \in Nat /\ Len(rs) \in Nat
  BY <1>6, InARow
<1>8. /\ r \in Seq(problem.opens) /\ Len(r) = Len(rc) + Len(rs)
      /\ \A i \in 1..Len(rc) : r[i] = rc[i]
  BY <1>1, <1>7
<1>9. ASSUME NEW i \in DOMAIN r, r[i] \in Sinks, NEW c \in Capable PROVE c \in Range(First(r, i - 1))
  <2>1. i \in 1..Len(r)
    BY <1>8
  <2>2. ~(i <= Len(rc))
    <3>1. SUFFICES ASSUME i \in 1..Len(rc) PROVE FALSE
      BY <2>1, <1>7
    <3>2. r[i] \in Capable
      BY <3>1, <1>5, <1>8
    <3> QED BY <3>2, <1>2, <1>9
  <2>3. Range(First(r, i - 1)) = {r[k] : k \in 1..(i - 1)}
    <3>1. i - 1 \in 0..Len(r)
      BY <2>1, <1>7, <1>8
    <3> QED BY <3>1, <1>8, FirstHolds
  <2>4. DOMAIN rc = 1..Len(rc)
    BY <1>6
  <2>5. PICK k \in 1..Len(rc) : c = rc[k]
    BY <2>4, <1>5 DEF Range
  <2>6. k \in 1..(i - 1) /\ r[k] = c
    BY <2>1, <2>2, <2>5, <1>7, <1>8
  <2> QED BY <2>3, <2>6
<1>10. InOrder(r)
  BY <1>9 DEF InOrder
<1> QED BY <1>8, <1>10 DEF r

\* The multi-objective selector: fill_opens over the capable, then over the sinks.
LEMMA MultiInOrder ==
    ASSUME problem \in Problems
    PROVE  MultiOpens \in Seq(problem.opens) /\ InOrder(MultiOpens)
<1> DEFINE e == << >>
           q == FillOpens(e, Capable)
           r == FillOpens(q, Sinks)
<1>1. Capable \subseteq problem.opens /\ Sinks \subseteq problem.opens /\ Sinks = problem.opens \ Capable
  BY DEF Capable, Sinks
<1>2. e \in Seq(problem.opens) /\ Len(e) = 0 /\ OpenLimit \in Nat
  BY SnapshotNumbers DEF OpenLimit, Smaller
<1>3. /\ q \in Seq(problem.opens) /\ Len(q) <= OpenLimit
      /\ \A i \in 1..Len(q) : q[i] \in Capable
      /\ Len(q) < OpenLimit => Capable \subseteq Range(q)
      /\ OrderedFrom(q, 0)
  <2> HIDE DEF e
  <2>0. e \in Seq(problem.opens) /\ Len(e) <= OpenLimit /\ Capable \subseteq problem.opens
    BY <1>1, <1>2
  <2>1. /\ q \in Seq(problem.opens) /\ Len(q) <= OpenLimit
        /\ \A i \in (Len(e) + 1)..Len(q) : q[i] \in Capable
        /\ Len(q) < OpenLimit => Capable \subseteq Range(q)
        /\ OrderedFrom(q, Len(e))
    BY <2>0, FillOpensDoes
  <2> HIDE DEF q
  <2> QED BY <2>1, <1>2
<1> HIDE DEF q, e
<1>4. /\ r \in Seq(problem.opens) /\ Len(q) <= Len(r) /\ Len(r) <= OpenLimit
      /\ \A i \in 1..Len(q) : r[i] = q[i]
      /\ \A i \in (Len(q) + 1)..Len(r) : r[i] \in Sinks
      /\ OrderedFrom(r, Len(q))
  BY <1>1, <1>3, FillOpensDoes
<1> HIDE DEF r
<1>5. /\ Len(q) \in Nat /\ Len(r) \in Nat /\ DOMAIN r = 1..Len(r) /\ DOMAIN q = 1..Len(q)
  BY <1>3, <1>4
<1>6. ASSUME NEW i \in 1..Len(r)
      PROVE  /\ i <= Len(q) => r[i] \in Capable
             /\ ~(i <= Len(q)) => r[i] \in Sinks
  BY <1>3, <1>4, <1>5
<1>7. ASSUME NEW i \in 1..Len(r), r[i] \in Sinks, NEW c \in Capable PROVE c \in Range(First(r, i - 1))
  <2>1. ~(i <= Len(q))
    BY <1>1, <1>6, <1>7
  <2>2. c \in Range(q)
    BY <2>1, <1>2, <1>3, <1>4, <1>5
  <2>3. PICK k \in 1..Len(q) : c = q[k]
    BY <2>2, <1>5 DEF Range
  <2>4. k \in 1..(i - 1) /\ r[k] = c
    BY <2>1, <2>3, <1>4, <1>5
  <2>5. i - 1 \in 0..Len(r)
    BY <1>5
  <2>6. Range(First(r, i - 1)) = {r[j] : j \in 1..(i - 1)}
    BY <2>5, <1>4, FirstHolds
  <2> QED BY <2>4, <2>6
<1>8. ASSUME NEW i \in 1..Len(r), NEW late \in Range(r) \ Range(First(r, i)),
             FinalScore(r[i]) < FinalScore(late), r[i] \in Capable <=> late \in Capable
      PROVE  /\ Known(r[i])
             /\ CellCount(CellOf(r[i])) + Filled(First(r, i - 1), CellOf(r[i])) < problem.cfg.kFloor
  <2>1. i \in 0..Len(r) /\ i - 1 \in 0..Len(r)
    BY <1>5
  <2>2. PICK j \in 1..Len(r) : late = r[j]
    BY <1>5 DEF Range
  <2>3. Range(First(r, i)) = {r[k] : k \in 1..i}
    BY <2>1, <1>4, FirstHolds
  <2>4. i < j
    BY <2>2, <2>3, <1>5
  <2>5. CASE ~(i <= Len(q))
    <3>1. i \in (Len(q) + 1)..Len(r) /\ j \in (Len(q) + 1)..Len(r)
      BY <2>4, <2>5, <1>5
    <3> QED BY <3>1, <2>2, <2>4, <1>4, <1>8 DEF OrderedFrom
  <2>6. CASE i <= Len(q)
    <3>1. r[i] \in Capable /\ r[j] \in Capable
      BY <2>2, <2>6, <1>6, <1>8
    <3>2. j <= Len(q)
      BY <3>1, <1>1, <1>6
    <3>3. i \in (0 + 1)..Len(q) /\ j \in (0 + 1)..Len(q) /\ r[i] = q[i] /\ r[j] = q[j]
      BY <2>6, <3>2, <1>4, <1>5
    <3>4. /\ Known(q[i])
          /\ CellCount(CellOf(q[i])) + Filled(First(q, i - 1), CellOf(q[i])) < problem.cfg.kFloor
      BY <3>3, <2>2, <2>4, <1>3, <1>8 DEF OrderedFrom
    <3>5. First(r, i - 1) = First(q, i - 1)
      <4>1. i - 1 \in 0..Len(q) /\ Len(r) >= i - 1 /\ \A k \in 1..(i - 1) : r[k] = q[k]
        BY <2>6, <1>4, <1>5
      <4> QED BY <4>1, <1>3, <1>4, FirstHolds
    <3> QED BY <3>3, <3>4, <3>5
  <2> QED BY <2>5, <2>6
<1>9. InOrder(r)
  BY <1>5, <1>7, <1>8 DEF InOrder
<1> QED BY <1>4, <1>9 DEF r, q, e, MultiOpens

\* What the default selector closes.
LEMMA DefaultClosesListed ==
    ASSUME problem \in Problems
    PROVE  DefaultCloses \in Seq(problem.channels)
<1> DEFINE closable == {c \in problem.channels : ShouldClose(c, problem.cfg.closeBelow)}
           key == [c \in closable |-> c.id]
<1>1. DefaultCloses = Ranked(closable, key)
  BY DEF DefaultCloses
<1>2. closable \subseteq problem.channels
  OBVIOUS
<1> HIDE DEF closable
<1>3. Numbered(closable)
  BY <1>2, SnapshotNumbers, PartNumbered
<1>4. \A c \in closable : key[c] \in Int
  BY <1>3 DEF Numbered
<1> HIDE DEF key
<1>5. Ranked(closable, key) \in Seq(closable)
  BY <1>3, <1>4, RankingIsSeq
<1> QED BY <1>1, <1>2, <1>5

-----------------------------------------------------------------------------
(***************************************************************************)
(* The selectors: the snapshot does not change while it is answered, so    *)
(* neither does anything computed from it.                                 *)
(***************************************************************************)

LEMMA SameCells ==
    ASSUME problem' = problem
    PROVE  /\ Placed' = Placed
           /\ \A cell : CellCount(cell)' = CellCount(cell)
<1>1. Placed' = Placed
  BY DEF Placed
<1> QED BY <1>1 DEF CellCount

LEMMA SameScores ==
    ASSUME problem' = problem, NEW c
    PROVE  FinalScore(c)' = FinalScore(c)
<1>1. Coverage(c)' = Coverage(c)
  BY SameCells DEF Coverage
<1>2. Trust(c)' = Trust(c)
  BY DEF Trust, OrElse, NeverMeasured
<1> QED BY <1>1, <1>2 DEF FinalScore

LEMMA SameTiers ==
    ASSUME problem' = problem
    PROVE  Capable' = Capable /\ Sinks' = Sinks
<1>1. Capable' = Capable
  BY DEF Capable
<1> QED BY <1>1 DEF Sinks

LEMMA SameFloor ==
    ASSUME problem' = problem, NEW s
    PROVE  FloorKept(s)' <=> FloorKept(s)
<1>1. \A cell : CellCount(cell)' = CellCount(cell)
  BY SameCells
<1>2. \A d : Drained(d)' = Drained(d)
  BY DEF Drained
<1> QED BY <1>1, <1>2 DEF FloorKept

LEMMA SameOrder ==
    ASSUME problem' = problem, NEW s
    PROVE  InOrder(s)' <=> InOrder(s)
<1>1. \A cell : CellCount(cell)' = CellCount(cell)
  BY SameCells
<1>2. \A c : FinalScore(c)' = FinalScore(c)
  BY SameScores
<1>3. Capable' = Capable /\ Sinks' = Sinks
  BY SameTiers
<1> QED BY <1>1, <1>2, <1>3 DEF InOrder

\* The two properties, answer by answer.
LEMMA AnswersInOrder == OpensInOrder <=> \A n \in DOMAIN openAnswer : InOrder(openAnswer[n])
BY DEF OpensInOrder, InOrder

LEMMA AnswersKeepFloor ==
    CellsKeepFloor <=> (problem.selector = "multi" => \A n \in DOMAIN closeAnswer : FloorKept(closeAnswer[n]))
BY DEF CellsKeepFloor, FloorKept, Gone

\* And after a step that leaves the snapshot alone.
LEMMA AnswersOrderNext ==
    ASSUME problem' = problem, \A n \in DOMAIN openAnswer' : InOrder(openAnswer'[n])
    PROVE  OpensInOrder'
<1>1. ASSUME NEW n \in DOMAIN openAnswer', NEW s, s = openAnswer'[n] PROVE InOrder(s)'
  BY <1>1, SameOrder
<1> QED BY <1>1 DEF OpensInOrder, InOrder

LEMMA AnswersFloorNext ==
    ASSUME problem' = problem,
           problem.selector = "multi" => \A n \in DOMAIN closeAnswer' : FloorKept(closeAnswer'[n])
    PROVE  CellsKeepFloor'
<1>1. ASSUME problem.selector = "multi", NEW n \in DOMAIN closeAnswer', NEW s, s = closeAnswer'[n]
      PROVE  FloorKept(s)'
  BY <1>1, SameFloor
<1> QED BY <1>1 DEF CellsKeepFloor, FloorKept, Gone

-----------------------------------------------------------------------------
SelectInv == problem \in Problems /\ SelectTypeOK /\ OpensInOrder /\ CellsKeepFloor

LEMMA SelectInvHolds == SelectInit => SelectInv
BY AnswersInOrder, AnswersKeepFloor DEF SelectInit, SelectInv, SelectTypeOK

LEMMA SelectInvStep == ASSUME SelectInv, [SelectNext]_selectVars PROVE SelectInv'
<1>1. problem \in Problems /\ problem' = problem
  BY DEF SelectInv, SelectNext, SelectCloses, SelectOpens, selectVars
<1>2. /\ DefaultCloses \in Seq(problem.channels) /\ MultiCloses \in Seq(problem.channels)
      /\ FloorKept(MultiCloses)
  BY <1>1, DefaultClosesListed, ClosesKeepFloor
<1>3. /\ MultiOpens \in Seq(problem.opens) /\ InOrder(MultiOpens)
      /\ problem.selector = "default" => DefaultOpens \in Seq(problem.opens) /\ InOrder(DefaultOpens)
  BY <1>1, DefaultInOrder, MultiInOrder
<1>4. ASSUME NEW S, NEW s \in Seq(S) PROVE Range(s) \subseteq S
  BY DEF Range
<1>5. CASE SelectCloses
  <2> DEFINE answer == IF problem.selector = "default" THEN DefaultCloses ELSE MultiCloses
  <2>1. closeAnswer' = <<answer>> /\ openAnswer' = openAnswer
    BY <1>5 DEF SelectCloses
  <2>2. Range(answer) \subseteq problem.channels
    BY <1>2, <1>4
  <2>3. problem.selector = "multi" => FloorKept(answer)
    BY <1>2
  <2> HIDE DEF answer
  <2>4. closeAnswer' = << >> \/ (Len(closeAnswer') = 1 /\ Range(closeAnswer'[1]) \subseteq problem.channels)
    BY <2>1, <2>2
  <2>5. \A n \in DOMAIN closeAnswer' : closeAnswer'[n] = answer
    BY <2>1
  <2>6. SelectTypeOK'
    BY <1>1, <2>1, <2>4 DEF SelectInv, SelectTypeOK
  <2>7. CellsKeepFloor'
    BY <1>1, <2>3, <2>5, AnswersFloorNext
  <2>8. OpensInOrder'
    BY <1>1, <2>1, AnswersInOrder, AnswersOrderNext DEF SelectInv
  <2> QED BY <1>1, <2>6, <2>7, <2>8 DEF SelectInv
<1>6. CASE SelectOpens
  <2> DEFINE answer == IF problem.selector = "default" THEN DefaultOpens ELSE MultiOpens
  <2>1. openAnswer' = <<answer>> /\ closeAnswer' = closeAnswer
    BY <1>6 DEF SelectOpens
  <2>2. Range(answer) \subseteq problem.opens
    BY <1>3, <1>4
  <2>3. InOrder(answer)
    BY <1>3
  <2> HIDE DEF answer
  <2>4. openAnswer' = << >> \/ (Len(openAnswer') = 1 /\ Range(openAnswer'[1]) \subseteq problem.opens)
    BY <2>1, <2>2
  <2>5. \A n \in DOMAIN openAnswer' : openAnswer'[n] = answer
    BY <2>1
  <2>6. SelectTypeOK'
    BY <1>1, <2>1, <2>4 DEF SelectInv, SelectTypeOK
  <2>7. OpensInOrder'
    BY <1>1, <2>3, <2>5, AnswersOrderNext
  <2>8. CellsKeepFloor'
    BY <1>1, <2>1, AnswersKeepFloor, AnswersFloorNext DEF SelectInv
  <2> QED BY <1>1, <2>6, <2>7, <2>8 DEF SelectInv
<1>7. CASE UNCHANGED selectVars
  <2>1. closeAnswer' = closeAnswer /\ openAnswer' = openAnswer
    BY <1>7 DEF selectVars
  <2>2. SelectTypeOK'
    BY <1>1, <2>1 DEF SelectInv, SelectTypeOK
  <2>3. OpensInOrder' /\ CellsKeepFloor'
    BY <1>1, <2>1, AnswersInOrder, AnswersKeepFloor, AnswersOrderNext, AnswersFloorNext DEF SelectInv
  <2> QED BY <1>1, <2>2, <2>3 DEF SelectInv
<1> QED BY <1>5, <1>6, <1>7 DEF SelectNext

LEMMA SelectInvAlways == SelectSpec => []SelectInv
<1>1. SelectInit => SelectInv  BY SelectInvHolds
<1>2. SelectInv /\ [SelectNext]_selectVars => SelectInv'  BY SelectInvStep
<1> QED BY <1>1, <1>2, PTL DEF SelectSpec

\* The selectors answer with channels and candidates of the snapshot (SelectorContext).
THEOREM SelectionTyped == SelectSpec => []SelectTypeOK
<1>1. SelectInv => SelectTypeOK  BY DEF SelectInv
<1> QED BY <1>1, SelectInvAlways, PTL

\* Whatever is offered, a ticket sink is opened to only when no forwarding-capable candidate is left, and
\* within a tier a candidate comes before a better one only for a cell short of the floor (fill_opens,
\* partition_by_forwarding).
THEOREM RanksInOrder == SelectSpec => []OpensInOrder
<1>1. SelectInv => OpensInOrder  BY DEF SelectInv
<1> QED BY <1>1, SelectInvAlways, PTL

\* Whatever is open, closing for quality or staleness leaves each known cell of which no drained channel goes
\* with at least the floor, however many channels one tick closes (select_closes).
THEOREM FloorsOfCells == SelectSpec => []CellsKeepFloor
<1>1. SelectInv => CellsKeepFloor  BY DEF SelectInv
<1> QED BY <1>1, SelectInvAlways, PTL

-----------------------------------------------------------------------------
(***************************************************************************)
(* The strategies side by side.                                            *)
(***************************************************************************)

LEMMA StakeIsNat == ASSUME NEW bytes \in Capacities, NEW e \in Economics PROVE CapacityToBalance(bytes, e) \in Nat
<1> DEFINE p       == ClampedWinProb(e.winProb)
           face    == FaceValue(e.price, p)
           num     == p[1]
           den     == p[2]
           buffer  == IF num = den THEN 0 ELSE e.buffer
           packets == CeilDiv(bytes, Payload)
           base    == AssumedHops * e.price
           target  == MeanDrain(packets, e.price) + buffer
           cost    == e.price * AssumedHops * den
           rounded == CeilDiv(target * num, cost)
           count   == WholeTickets(target, e.price, p)
<1>1. /\ bytes \in Nat /\ e.price \in Nat /\ e.buffer \in Nat /\ e.winProb \in WinProbs
      /\ Payload \in Nat \ {0} /\ AssumedHops \in Nat \ {0}
  BY SizingAssumption DEF SizingAssumption, Economics
<1>2. num \in Nat \ {0} /\ den \in Nat \ {0}
  BY <1>1, Clamped
<1>3. face \in Nat /\ (face > 0 => e.price > 0)
  BY <1>1, <1>2, FaceIsNat
<1>4. packets \in Nat /\ buffer \in Nat
  BY <1>1, Rounding
<1>5. CapacityToBalance(bytes, e) = IF bytes = 0 \/ face = 0 THEN 0 ELSE count * face
  BY DEF CapacityToBalance
<1>6. count = AtLeast(rounded, 1)
  BY DEF WholeTickets
<1> SUFFICES ASSUME face > 0 PROVE count * face \in Nat
  <2> HIDE DEF count, face
  <2> QED  BY <1>3, <1>5
<1>7. base \in Nat \ {0} /\ cost = base * den
  <2> HIDE DEF num, den, face
  <2>1. e.price \in Nat \ {0}  BY <1>1, <1>3
  <2> QED  BY <1>1, <1>2, <2>1, Product
<1>8. cost \in Nat \ {0}
  <2> HIDE DEF den, base, cost
  <2> QED  BY <1>2, <1>7, Product
<1>9. target = packets * base + buffer
  <2> HIDE DEF packets, buffer
  <2> QED  BY <1>1, <1>4 DEF MeanDrain
<1> HIDE DEF num, den, face, packets, buffer, base, cost, target, rounded, count
<1>10. target \in Nat
  BY <1>4, <1>7, <1>9
<1>11. target * num \in Nat
  BY <1>2, <1>10
<1>12. rounded \in Nat
  BY <1>8, <1>11, Rounding DEF rounded
<1>13. count \in Nat
  BY <1>6, <1>12 DEF AtLeast
<1> QED
  BY <1>3, <1>13

LEMMA SizesTyped == ASSUME SizeInv PROVE SizingTypeOK
<1>1. /\ funding.initial \in Capacities /\ funding.topup \in Capacities /\ funding.lower \in Capacities
      /\ economics \in Economics
  BY DEF SizeInv
<1>2. /\ CapacityToBalance(funding.initial, economics) \in Nat
      /\ CapacityToBalance(funding.topup, economics) \in Nat
      /\ CapacityToBalance(funding.lower, economics) \in Nat
  BY <1>1, StakeIsNat
<1>3. FaceValue(economics.price, ClampedWinProb(economics.winProb)) \in Nat
  <2>1. economics.price \in Nat /\ economics.winProb \in WinProbs
    BY <1>1, SizingAssumption DEF SizingAssumption, Economics
  <2> QED
    BY <2>1, Clamped, FaceIsNat
<1> QED
  BY <1>1, <1>2, <1>3 DEF SizeInv, SizingTypeOK, Economics

LEMMA SizesBegin == ASSUME SizingInit PROVE SizeInv
BY DEF SizingInit, SizeInv, Economics

LEMMA SizesStep == ASSUME SizeInv, [Resolve]_sizeVars PROVE SizeInv'
BY DEF SizeInv, Resolve, sizeVars

StrategiesInv == RedeemInv /\ (FundTyped /\ FundInv /\ Counted) /\ FinalInv /\ SelectInv /\ SizeInv

\* A step of the strategies is one of each, or a stutter of it.
LEMMA EachItsStep ==
    ASSUME [StrategiesNext]_strategiesVars
    PROVE  /\ [RedeemNext]_redeemVars /\ [FundNext]_fundVars /\ [FinalNext]_finalVars
           /\ [SelectNext]_selectVars /\ [Resolve]_sizeVars
<1>1. CASE StrategiesNext
  BY <1>1 DEF StrategiesNext
<1>2. CASE UNCHANGED strategiesVars
  BY <1>2 DEF strategiesVars
<1> QED
  BY <1>1, <1>2

\* Whatever the strategies do, their states stay within their types: what a stake rises to is bounded by the
\* fundings that landed, and no budget is overspent (auto_funding.rs, auto_redeeming.rs, closure_finalizer.rs,
\* selector/multi_objective.rs, config.rs).
THEOREM StrategiesTyped == StrategiesSpec => []StrategiesTypeOK
<1>1. StrategiesInit => StrategiesInv
  BY RedeemBegins, FundBegins, CountedBegins, FinalBegins, SelectInvHolds, SizesBegin
     DEF StrategiesInit, StrategiesInv
<1>2. StrategiesInv /\ [StrategiesNext]_strategiesVars => StrategiesInv'
  <2> SUFFICES ASSUME StrategiesInv, [StrategiesNext]_strategiesVars PROVE StrategiesInv'
    OBVIOUS
  <2>1. RedeemInv'
    BY EachItsStep, RedeemTypeStep, RedeemStep DEF StrategiesInv, RedeemInv
  <2>2. FundTyped' /\ Counted'
    BY EachItsStep, FundTypeStep, CountedNext DEF StrategiesInv
  <2>3. FundInv'
    BY EachItsStep, FundingsStep, SinksStep, GuardStep, AloneStep DEF StrategiesInv, FundInv
  <2>4. FinalInv'
    BY EachItsStep, FinalTypeStep, WaitsStep DEF StrategiesInv, FinalInv
  <2>5. SelectInv' /\ SizeInv'
    BY EachItsStep, SelectInvStep, SizesStep DEF StrategiesInv
  <2> QED
    BY <2>1, <2>2, <2>3, <2>4, <2>5 DEF StrategiesInv
<1>3. StrategiesInv => StrategiesTypeOK
  BY CountedTypes, SizesTyped DEF StrategiesInv, StrategiesTypeOK, RedeemInv, FinalInv, SelectInv
<1> QED
  BY <1>1, <1>2, <1>3, PTL DEF StrategiesSpec
=============================================================================
