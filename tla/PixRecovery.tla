---------------------------- MODULE PixRecovery ----------------------------
(***************************************************************************)
(* The Exit half of the PIX strategy: recovered keys persisted and         *)
(* buffered by the event loop, the flush tasks that sweep them through the *)
(* deposit pool, and the task that replays the recovery store at start.    *)
(*                                                                         *)
(* Actors.  The event loop, any number of flush tasks and the replay task  *)
(* run on different threads and share the guard cache and the store.  Each *)
(* looks a guard up and claims it in two calls.  The process may crash at  *)
(* any point: only the store survives.  Funds land when they like.         *)
(*                                                                         *)
(* A sweep is named by the number of its guard claim.  A guard keeps the   *)
(* time left of its time-to-live, 0 meaning absent.  Funds land at most    *)
(* once per key.                                                           *)
(***************************************************************************)
EXTENDS Integers, Sequences, FiniteSets

CONSTANTS
    Key,            \* the allocations whose key is recovered
    BadKey,         \* those whose secret is not valid for the pool's scheme
    GuardTTL,       \* IN_FLIGHT_GUARD_TTL
    MaxSweeps,      \* bound on the sweeps the event loop starts
    MaxCrashes      \* bound on the crashes

ASSUME RecoveryAssumption ==
    /\ BadKey \subseteq Key
    /\ GuardTTL \in Nat \ {0} /\ MaxSweeps \in Nat /\ MaxCrashes \in Nat

VARIABLES
    up,             \* whether the strategy runs
    store,          \* the recovery store: the keys persisted in it
    guard,          \* in_flight_sweeps: Key -> time left
    buffer,         \* withdrawal_buffer, as a set of sweep numbers
    flushes,        \* the running flush_withdrawal_batch tasks
    replay,         \* the replay_pending_recoveries task
    handling,       \* the PrivateKeyRecovered event being handled
    funds,          \* the deposits on chain
    sweeps,         \* history: what became of each sweep
    recovered,      \* history: the keys whose event was persisted
    broken,         \* history: keys whose guard lapsed or was claimed over
    crashes

vars == <<up, store, guard, buffer, flushes, replay, handling, funds, sweeps,
          recovered, broken, crashes>>

Number == 1..Len(sweeps)
NoKey  == "none"
Quiet  == [key |-> NoKey, step |-> "idle"]
Sweep  == [key : Key, moved : BOOLEAN, answer : {"none", "ok", "error", "lost"}]

Flush  == [items : SUBSET Nat, step : {"parse", "sweep", "free", "remove"}]
Replay == [todo : SUBSET Key, step : {"iter", "next", "claim", "sweep", "free", "remove"},
           item : Nat, key : Key \cup {NoKey}]
Idle   == [todo |-> {}, step |-> "next", item |-> 0, key |-> NoKey]

TypeOK ==
    /\ up \in BOOLEAN
    /\ store \in SUBSET Key /\ recovered \in SUBSET Key /\ broken \in SUBSET Key
    /\ guard \in [Key -> 0..GuardTTL]
    /\ sweeps \in Seq(Sweep)
    /\ buffer \in SUBSET Number
    /\ flushes \subseteq Flush /\ \A f \in flushes : f.items \subseteq Number
    /\ replay \in Replay
    /\ handling \in [key : Key, step : {"check", "claim"}] \cup {Quiet}
    /\ funds \in [Key -> {"awaited", "landed", "swept"}]
    /\ crashes \in 0..MaxCrashes

KeyOf(n)    == sweeps[n].key
KeysOf(set) == {KeyOf(n) : n \in set}

\* Whoever will still free the guard of k: the buffer, a flush or the replay.
Responsible(k) ==
    \/ k \in KeysOf(buffer)
    \/ \E f \in flushes : k \in KeysOf(f.items) /\ f.step # "remove"
    \/ replay.key = k /\ replay.step \in {"sweep", "free"}

Init ==
    /\ up = FALSE
    /\ store = {} /\ recovered = {} /\ broken = {}
    /\ guard = [k \in Key |-> 0]
    /\ buffer = {} /\ flushes = {}
    /\ replay = Idle
    /\ handling = Quiet
    /\ funds = [k \in Key |-> "awaited"]
    /\ sweeps = <<>>
    /\ crashes = 0

\* Slip: the guard is looked up but never inserted.
HoldNothing(k) == guard

Hold(k) == [guard EXCEPT ![k] = GuardTTL]

\* A claim of k's guard by a new sweep; one that finds it claimed has lost a race.
Claimed(k) ==
    /\ guard' = Hold(k)
    /\ broken' = IF guard[k] > 0 THEN broken \cup {k}
                 ELSE IF Responsible(k) THEN broken ELSE broken \ {k}

NewSweep(k) == Append(sweeps, [key |-> k, moved |-> FALSE, answer |-> "none"])

-----------------------------------------------------------------------------
(***************************************************************************)
(* The event loop.  A key that cannot be persisted is not swept either.    *)
(***************************************************************************)
Persist(k) ==
    /\ up /\ handling = Quiet
    /\ \/ /\ store' = store \cup {k}
          /\ recovered' = recovered \cup {k}
          /\ handling' = [key |-> k, step |-> "check"]
       \/ UNCHANGED <<store, recovered, handling>>
    /\ UNCHANGED <<up, guard, buffer, flushes, replay, funds, sweeps, broken, crashes>>

Free(k) == guard[k] = 0

CheckGuard ==
    /\ handling.step = "check"
    /\ handling' = IF Free(handling.key) THEN [handling EXCEPT !.step = "claim"] ELSE Quiet
    /\ UNCHANGED <<up, store, guard, buffer, flushes, replay, funds, sweeps, recovered,
                   broken, crashes>>

Buffer ==
    LET k == handling.key IN
    /\ handling.step = "claim"
    /\ Len(sweeps) < MaxSweeps
    /\ Claimed(k)
    /\ sweeps' = NewSweep(k)
    /\ buffer' = buffer \cup {Len(sweeps) + 1}
    /\ handling' = Quiet
    /\ UNCHANGED <<up, store, flushes, replay, funds, recovered, crashes>>

\* The debounce period runs out, or the event stream ends.
FlushWithdrawals ==
    /\ up /\ handling = Quiet
    /\ buffer # {}
    /\ flushes' = flushes \cup {[items |-> buffer, step |-> "parse"]}
    /\ buffer' = {}
    /\ UNCHANGED <<up, store, guard, replay, handling, funds, sweeps, recovered, broken,
                   crashes>>

-----------------------------------------------------------------------------
(***************************************************************************)
(* A flush.  Unusable keys are dropped and their guards freed; the rest go *)
(* to the pool together.  Guards are freed before anything is removed from *)
(* the store.                                                              *)
(***************************************************************************)
Become(f, next) == (flushes \ {f}) \cup next

FreeAll(items) == [k \in Key |-> IF k \in KeysOf(items) THEN 0 ELSE guard[k]]

Parse(f) ==
    LET bad  == {n \in f.items : KeyOf(n) \in BadKey}
        good == f.items \ bad IN
    /\ f.step = "parse"
    /\ guard' = FreeAll(bad)
    /\ sweeps' = [n \in DOMAIN sweeps |->
                    IF n \in bad THEN [sweeps[n] EXCEPT !.answer = "error"] ELSE sweeps[n]]
    /\ flushes' = Become(f, IF good = {} THEN {}
                            ELSE {[items |-> good, step |-> "sweep"]})
    /\ UNCHANGED <<up, store, buffer, replay, handling, funds, recovered, broken, crashes>>

\* The pool's word on each sweep: it reports success only of funds it moved.
Answered(items, succeeded) ==
    [n \in DOMAIN sweeps |->
        IF n \in items
        THEN [sweeps[n] EXCEPT !.answer = IF n \in succeeded THEN "ok" ELSE "error"]
        ELSE sweeps[n]]

FlushAnswered(f) ==
    /\ f.step = "sweep"
    /\ \E succeeded \in SUBSET {n \in f.items : sweeps[n].moved} :
          sweeps' = Answered(f.items, succeeded)
    /\ flushes' = Become(f, {[f EXCEPT !.step = "free"]})
    /\ UNCHANGED <<up, store, guard, buffer, replay, handling, funds, recovered, broken,
                   crashes>>

FlushFrees(f) ==
    /\ f.step = "free"
    /\ guard' = FreeAll(f.items)
    /\ flushes' = Become(f, {[f EXCEPT !.step = "remove"]})
    /\ UNCHANGED <<up, store, buffer, replay, handling, funds, sweeps, recovered, broken,
                   crashes>>

\* Slip: what failed is removed with what was swept.
AllDone(items) == items

Done(items) == {n \in items : sweeps[n].answer = "ok"}

\* A failed removal is only logged: the key stays.
FlushRemoves(f) ==
    /\ f.step = "remove"
    /\ \E failed \in SUBSET Done(f.items) :
          store' = store \ KeysOf(Done(f.items) \ failed)
    /\ flushes' = Become(f, {})
    /\ UNCHANGED <<up, guard, buffer, replay, handling, funds, sweeps, recovered, broken,
                   crashes>>

-----------------------------------------------------------------------------
(***************************************************************************)
(* The replay: the keys the store holds when it first runs, one after the  *)
(* other, each skipped if its guard is held.  An unusable key's guard is   *)
(* not freed.  Entries that cannot be read or decrypted are left out.      *)
(***************************************************************************)
ReplayReads ==
    /\ replay.step = "iter"
    /\ \E readable \in SUBSET store :
          replay' = [replay EXCEPT !.todo = readable, !.step = "next"]
    /\ UNCHANGED <<up, store, guard, buffer, flushes, handling, funds, sweeps, recovered,
                   broken, crashes>>

ReplayNext ==
    /\ replay.step = "next"
    /\ \E k \in replay.todo :
          replay' = [replay EXCEPT !.todo = @ \ {k},
                                   !.step = IF Free(k) THEN "claim" ELSE "next",
                                   !.key  = IF Free(k) THEN k ELSE NoKey]
    /\ UNCHANGED <<up, store, guard, buffer, flushes, handling, funds, sweeps, recovered,
                   broken, crashes>>

\* Slip: one key's failure ends the replay.
GiveUp == Idle

Continue == [replay EXCEPT !.step = "next", !.key = NoKey, !.item = 0]

ReplayClaim ==
    LET k == replay.key IN
    /\ replay.step = "claim"
    /\ Claimed(k)
    /\ IF k \in BadKey
       THEN replay' = Continue /\ UNCHANGED sweeps
       ELSE /\ replay' = [replay EXCEPT !.step = "sweep", !.item = Len(sweeps) + 1]
            /\ sweeps' = NewSweep(k)
    /\ UNCHANGED <<up, store, buffer, flushes, handling, funds, recovered, crashes>>

ReplayAnswered ==
    /\ replay.step = "sweep"
    /\ \E succeeded \in SUBSET {n \in {replay.item} : sweeps[n].moved} :
          sweeps' = Answered({replay.item}, succeeded)
    /\ replay' = [replay EXCEPT !.step = "free"]
    /\ UNCHANGED <<up, store, guard, buffer, flushes, handling, funds, recovered, broken,
                   crashes>>

ReplayFrees ==
    /\ replay.step = "free"
    /\ guard' = FreeAll({replay.item})
    /\ replay' = IF sweeps[replay.item].answer = "ok"
                 THEN [replay EXCEPT !.step = "remove"] ELSE Continue
    /\ UNCHANGED <<up, store, buffer, flushes, handling, funds, sweeps, recovered, broken,
                   crashes>>

ReplayRemoves ==
    /\ replay.step = "remove"
    /\ \/ store' = store \ {replay.key}
       \/ UNCHANGED store
    /\ replay' = Continue
    /\ UNCHANGED <<up, guard, buffer, flushes, handling, funds, sweeps, recovered, broken,
                   crashes>>

-----------------------------------------------------------------------------
\* A deposit is confirmed on chain.
FundsLand(k) ==
    /\ funds[k] = "awaited"
    /\ funds' = [funds EXCEPT ![k] = "landed"]
    /\ UNCHANGED <<up, store, guard, buffer, flushes, replay, handling, sweeps, recovered,
                   broken, crashes>>

InPool == (UNION {f.items : f \in {g \in flushes : g.step = "sweep"}})
          \cup (IF replay.step = "sweep" THEN {replay.item} ELSE {})

\* The pool moves a landed deposit; its success may still be reported as a failure.
FundsMove(n) ==
    /\ n \in InPool
    /\ funds[KeyOf(n)] = "landed"
    /\ funds' = [funds EXCEPT ![KeyOf(n)] = "swept"]
    /\ sweeps' = [sweeps EXCEPT ![n].moved = TRUE]
    /\ UNCHANGED <<up, store, guard, buffer, flushes, replay, handling, recovered, broken,
                   crashes>>

Start ==
    /\ ~up
    /\ up' = TRUE
    /\ replay' = [Idle EXCEPT !.step = "iter"]
    /\ UNCHANGED <<store, guard, buffer, flushes, handling, funds, sweeps, recovered,
                   broken, crashes>>

(***************************************************************************)
(* The process ends, by a crash or by the return of run, which aborts the  *)
(* replay and does not wait for detached flushes.                          *)
(***************************************************************************)
Crash ==
    /\ up /\ crashes < MaxCrashes
    /\ crashes' = crashes + 1
    /\ up' = FALSE
    /\ guard' = [k \in Key |-> 0]
    /\ buffer' = {} /\ flushes' = {} /\ replay' = Idle /\ handling' = Quiet
    /\ sweeps' = [n \in DOMAIN sweeps |->
                    IF sweeps[n].answer = "none" THEN [sweeps[n] EXCEPT !.answer = "lost"]
                                                 ELSE sweeps[n]]
    /\ broken' = {}
    /\ UNCHANGED <<store, funds, recovered>>

\* Slip: a guard's time-to-live never ends.
NeverDown(n) == n

Down(n) == IF n > 0 THEN n - 1 ELSE 0

Tick ==
    /\ guard' = [k \in Key |-> Down(guard[k])]
    /\ broken' = broken \cup {k \in Key : guard[k] = 1 /\ Responsible(k)}
    /\ UNCHANGED <<up, store, buffer, flushes, replay, handling, funds, sweeps, recovered,
                   crashes>>

FlushStep  == \E f \in flushes : Parse(f) \/ FlushAnswered(f) \/ FlushFrees(f) \/ FlushRemoves(f)
ReplayStep == \/ ReplayReads \/ ReplayNext \/ ReplayClaim \/ ReplayAnswered
              \/ ReplayFrees \/ ReplayRemoves

Next ==
    \/ \E k \in Key : Persist(k) \/ FundsLand(k)
    \/ CheckGuard \/ Buffer \/ FlushWithdrawals
    \/ FlushStep
    \/ ReplayStep
    \/ \E n \in Number : FundsMove(n)
    \/ Start \/ Crash \/ Tick

(***************************************************************************)
(* Spawned tasks run, and the pool gives up after its own retry budget, so *)
(* it answers in the end.  Events, deposits and success are not promised.  *)
(***************************************************************************)
Spec == Init /\ [][Next]_vars /\ WF_vars(FlushStep) /\ WF_vars(ReplayStep) /\ WF_vars(Tick)

-----------------------------------------------------------------------------
(***************************************************************************)
(* A recovered key is the only means of moving its deposit: once persisted *)
(* it stays in the store, across crashes, races between the two sweepers   *)
(* and ambiguous failures, until the funds have moved.                     *)
(***************************************************************************)
KeyKeptUntilSwept == \A k \in recovered : funds[k] # "swept" => k \in store

(***************************************************************************)
(* Two sweeps of one key are under way together only if its guard lapsed   *)
(* or was claimed by both of them in a race of the replay with the loop.   *)
(***************************************************************************)
Sweeping(n) == sweeps[n].answer = "none"

SweepsOverlapOnlyIfBroken ==
    \A m, n \in Number :
        m # n /\ Sweeping(m) /\ Sweeping(n) /\ KeyOf(m) = KeyOf(n) => KeyOf(n) \in broken

(***************************************************************************)
(* The replay gets past failing, unusable and guarded keys: every key it   *)
(* read from the store is taken up before it ends.                         *)
(***************************************************************************)
ReplayNeverDropsKey ==
    [][\A k \in replay.todo : up' => k \in replay'.todo \/ guard[k] > 0 \/ replay'.key = k]_vars

(***************************************************************************)
(* No key stays locked out of sweeping by a guard nobody will free.        *)
(***************************************************************************)
LockedOut(k) == guard[k] > 0 /\ ~Responsible(k)

LockoutEnds == \A k \in Key : LockedOut(k) ~> guard[k] = 0 \/ Responsible(k)

(***************************************************************************)
(* The guard keeps the replay and the event loop from sweeping one key at  *)
(* the same time.                                                          *)
(***************************************************************************)
OneSweepAtATime ==
    \A m, n \in Number : m # n /\ Sweeping(m) /\ Sweeping(n) => KeyOf(m) # KeyOf(n)
=============================================================================
