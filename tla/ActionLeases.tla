---------------------------- MODULE ActionLeases ----------------------------
(***************************************************************************)
(* The in-flight slots of the channel lifecycle strategy: the four         *)
(* ActionLeases sets (open, fund, close, finalize), the dispatcher         *)
(* spawn_leased that takes a slot and charges it against the action        *)
(* budget, the transaction tasks it spawns, and the chain events that      *)
(* release a slot whoever holds it.                                        *)
(*                                                                         *)
(* Actors.  The strategy's run loop handles ticks and chain events one     *)
(* after the other, so at most one dispatch is under way and no event or   *)
(* sweep runs inside it.  Transaction tasks and time are concurrent with   *)
(* it: a task may report back, or a lease lapse, between the moment the    *)
(* dispatcher takes a slot and the moment it counts the budget.            *)
(*                                                                         *)
(* Time.  A lease's deadline is kept as the time left until it, so the     *)
(* code's  until > now  reads  left > 0.                                   *)
(***************************************************************************)
EXTENDS Integers, FiniteSets

CONSTANTS
    Kind,           \* the kinds of action: open, fund, close, finalize
    Key,            \* what a slot is taken for: a channel or a destination
    LeaseTimeout,   \* concurrency.action_lease_timeout, in ticks of the clock
    MaxConcurrent,  \* concurrency.max_concurrent_actions
    MaxHolder       \* bound on the LeaseIds one set hands out

ASSUME ConstantsAssumption ==
    /\ IsFiniteSet(Kind) /\ IsFiniteSet(Key)
    /\ LeaseTimeout \in Nat
    /\ MaxConcurrent \in Nat
    /\ MaxHolder \in Nat

VARIABLES
    leases,         \* the four DashMaps: slot -> lease, NoLease when absent
    nextHolder,     \* next_holder of each set
    dispatch,       \* the dispatch between its acquire and its budget check
    tasks           \* the spawned transaction tasks that have not reported

vars == <<leases, nextHolder, dispatch, tasks>>

Slot    == Kind \X Key
Lease   == [holder : Nat, left : 0..LeaseTimeout]
NoLease == [holder |-> -1, left |-> 0]
Idle    == [slot |-> <<>>, holder |-> -1]

(***************************************************************************)
(* A task knows its slot and its LeaseId.  The two other fields record     *)
(* history the code does not keep: how much of the lease it was granted is *)
(* left, and whether a chain event released its slot while it ran.         *)
(***************************************************************************)
Task == [slot : Slot, holder : Nat, left : 0..LeaseTimeout, freed : BOOLEAN]

TypeOK ==
    /\ leases \in [Slot -> Lease \cup {NoLease}]
    /\ nextHolder \in [Kind -> Nat]
    /\ dispatch \in [slot : Slot, holder : Nat] \cup {Idle}
    /\ tasks \in SUBSET Task

Held(s)  == leases[s] # NoLease /\ leases[s].left > 0
InFlight == {s \in Slot : Held(s)}
TotalInFlight == Cardinality(InFlight)

\* Slips in acquire that the properties must catch: a lapsed lease still blocks
\* its slot; a held slot is handed out again.
OccupiedUntilReleased(s) == leases[s] # NoLease
OccupiedNever(s) == FALSE

Occupied(s) == Held(s)

Init ==
    /\ leases = [s \in Slot |-> NoLease]
    /\ nextHolder = [k \in Kind |-> 0]
    /\ dispatch = Idle
    /\ tasks = {}

(***************************************************************************)
(* acquire.  The LeaseId is drawn before the slot is looked at, so a       *)
(* refused attempt consumes one too.                                       *)
(***************************************************************************)
Acquire(s) ==
    LET holder == nextHolder[s[1]] IN
    /\ dispatch = Idle
    /\ holder < MaxHolder
    /\ nextHolder' = [nextHolder EXCEPT ![s[1]] = @ + 1]
    /\ IF Occupied(s)
       THEN UNCHANGED <<leases, dispatch>>
       ELSE /\ leases' = [leases EXCEPT ![s] = [holder |-> holder, left |-> LeaseTimeout]]
            /\ dispatch' = [slot |-> s, holder |-> holder]
    /\ UNCHANGED tasks

\* Slips: a report frees the slot by its key alone; a report frees nothing.
ReleaseByKey(s, holder) == [leases EXCEPT ![s] = NoLease]
ReleaseNever(s, holder) == leases

\* The map of leases once `holder` has given back slot s: a no-op after turnover.
ReleaseOwned(s, holder) ==
    IF leases[s].holder = holder THEN [leases EXCEPT ![s] = NoLease] ELSE leases

\* Slip: the slot just taken is not counted against the budget.
OverBudgetByOne == TotalInFlight > MaxConcurrent + 1

OverBudget == TotalInFlight > MaxConcurrent

\* spawn_leased after its acquire: give the slot back, or run the task under it.
CheckBudget ==
    LET s == dispatch.slot IN
    /\ dispatch # Idle
    /\ dispatch' = Idle
    /\ \/ /\ OverBudget
          /\ leases' = ReleaseOwned(s, dispatch.holder)
          /\ UNCHANGED tasks
       \/ /\ ~OverBudget
          /\ tasks' = tasks \cup {[slot |-> s, holder |-> dispatch.holder,
                                   left |-> leases[s].left, freed |-> FALSE]}
          /\ UNCHANGED leases
    /\ UNCHANGED nextHolder

(***************************************************************************)
(* A task's submit() returns, confirmed or failed.  It may also never      *)
(* return: no fairness is assumed of this action.                          *)
(***************************************************************************)
Report(t) ==
    /\ t \in tasks
    /\ tasks' = tasks \ {t}
    /\ leases' = ReleaseOwned(t.slot, t.holder)
    /\ UNCHANGED <<nextHolder, dispatch>>

\* A chain event on the channel releases its slot, whoever holds it.
EventRelease(s) ==
    /\ dispatch = Idle
    /\ leases[s] # NoLease
    /\ leases' = [leases EXCEPT ![s] = NoLease]
    /\ tasks' = {[t EXCEPT !.freed = @ \/ t.slot = s] : t \in tasks}
    /\ UNCHANGED <<nextHolder, dispatch>>

\* The start of every tick drops the lapsed leases of all four sets.
Sweep ==
    /\ dispatch = Idle
    /\ leases' = [s \in Slot |-> IF Held(s) THEN leases[s] ELSE NoLease]
    /\ UNCHANGED <<nextHolder, dispatch, tasks>>

\* Slip: a deadline in the past counted as a very long lease.
DownPastZero(n) == n - 1

\* What is left of a deadline n away once the clock has moved on.
Down(n) == IF n > 0 THEN n - 1 ELSE 0

Tick ==
    /\ leases' = [s \in Slot |-> [leases[s] EXCEPT !.left = Down(@)]]
    /\ tasks' = {[t EXCEPT !.left = Down(@)] : t \in tasks}
    /\ UNCHANGED <<nextHolder, dispatch>>

Next ==
    \/ \E s \in Slot : Acquire(s) \/ EventRelease(s)
    \/ CheckBudget
    \/ \E t \in tasks : Report(t)
    \/ Sweep
    \/ Tick

(***************************************************************************)
(* Time passes and a dispatch under way runs on; nothing else is promised. *)
(* In particular a task may never report and an event never arrive.        *)
(***************************************************************************)
Spec == Init /\ [][Next]_vars /\ WF_vars(Tick) /\ WF_vars(CheckBudget)

-----------------------------------------------------------------------------
(***************************************************************************)
(* The budget of spawn_leased: between dispatches no more slots are live   *)
(* than max_concurrent_actions, and the dispatch under way adds only the   *)
(* slot it is about to give back or keep.                                  *)
(***************************************************************************)
BudgetRespected ==
    TotalInFlight <= MaxConcurrent + (IF dispatch = Idle THEN 0 ELSE 1)

(***************************************************************************)
(* No slot is stranded: a live lease belongs to the dispatch under way or  *)
(* to a task that is still running and will release it on either outcome.  *)
(***************************************************************************)
Owned(s) ==
    \/ dispatch = [slot |-> s, holder |-> leases[s].holder]
    \/ \E t \in tasks : t.slot = s /\ t.holder = leases[s].holder

NoStrandedSlot == \A s \in Slot : Held(s) => Owned(s)

(***************************************************************************)
(* The point of the slots: two transactions of one kind are under way for  *)
(* one channel only if the earlier overran its lease or a chain event      *)
(* released it.                                                            *)
(***************************************************************************)
OverlapOnlyAfterTurnover ==
    \A t, u \in tasks :
        t.slot = u.slot /\ t.holder < u.holder => t.left = 0 \/ t.freed

(***************************************************************************)
(* A task that overran its lease reports late: it must not free the slot   *)
(* its successor now holds (the hazard LeaseId exists for).                *)
(***************************************************************************)
LateReportSparesSuccessor ==
    [][\A t \in tasks : tasks' = tasks \ {t} =>
          \A s \in Slot : leases[s].holder # t.holder \/ s # t.slot
              => leases'[s] = leases[s]]_vars

(***************************************************************************)
(* No lost confirmation or event suppresses a channel's operation forever: *)
(* every holder's hold on a slot ends, however its task fares.             *)
(***************************************************************************)
NoHoldIsForever ==
    \A s \in Slot : \A h \in 0..(MaxHolder - 1) :
        (Held(s) /\ leases[s].holder = h) ~> ~(Occupied(s) /\ leases[s].holder = h)

=============================================================================
