------------------------- MODULE ActionLeasesProofs -------------------------
(***************************************************************************)
(* Proofs about ActionLeases, for any kinds of action, any set of keys,    *)
(* any lease timeout and any budget: the safety invariants of its run, and *)
(* that a late report never frees a successor's slot.                      *)
(*                                                                         *)
(* The properties are not inductive.  What makes them true is the use of   *)
(* LeaseIds: a set never hands out one twice, every lease in the map has   *)
(* its dispatch or task behind it, and a task whose slot has not been      *)
(* taken over sees in its own clock exactly what the map still grants it.  *)
(***************************************************************************)
EXTENDS ActionLeases, FiniteSetTheorems, TLAPS

\* Every LeaseId in use was handed out by its set, and no later one was.
HoldersIssued ==
    /\ \A s \in Slot : leases[s].holder < nextHolder[s[1]]
    /\ \A t \in tasks : t.holder < nextHolder[t.slot[1]]
    /\ dispatch # Idle => dispatch.holder < nextHolder[dispatch.slot[1]]

TasksDistinct ==
    \A t, u \in tasks : t.slot = u.slot /\ t.holder = u.holder => t = u

\* A lease in the map, live or lapsed, has its dispatch or task behind it.
EveryLeaseOwned == \A s \in Slot : leases[s] # NoLease => Owned(s)

\* The dispatch under way holds its slot, and every earlier task has lost it.
DispatchSucceeds ==
    dispatch # Idle =>
        /\ leases[dispatch.slot].holder = dispatch.holder
        /\ \A t \in tasks : t.slot = dispatch.slot =>
              t.holder < dispatch.holder /\ (t.left = 0 \/ t.freed)

\* A task whose lease has neither lapsed nor been released is still the holder.
TaskStanding ==
    \A t \in tasks :
        t.left = 0 \/ t.freed \/
        (leases[t.slot].holder = t.holder /\ leases[t.slot].left = t.left)

\* What is charged against the budget besides the dispatch under way.
Charged == IF dispatch = Idle THEN InFlight ELSE InFlight \ {dispatch.slot}

BudgetInv == Cardinality(Charged) <= MaxConcurrent

IInv ==
    /\ TypeOK
    /\ HoldersIssued
    /\ TasksDistinct
    /\ EveryLeaseOwned
    /\ DispatchSucceeds
    /\ TaskStanding
    /\ OverlapOnlyAfterTurnover
    /\ BudgetInv

-----------------------------------------------------------------------------
(***************************************************************************)
(* Every step keeps the state well typed.                                  *)
(***************************************************************************)
LEMMA SlotKind == \A s \in Slot : s[1] \in Kind
BY DEF Slot

LEMMA DownType == \A n \in 0..LeaseTimeout : Down(n) \in 0..LeaseTimeout /\ Down(n) <= n
BY ConstantsAssumption DEF Down

LEMMA TypeStep == ASSUME TypeOK, [Next]_vars PROVE TypeOK'
<1> USE DEF TypeOK
<1>1. ASSUME NEW s \in Slot, Acquire(s) PROVE TypeOK'
  <2>1. nextHolder[s[1]] \in Nat
    BY SlotKind
  <2>2. nextHolder' \in [Kind -> Nat]
    BY <1>1, <2>1, SlotKind DEF Acquire
  <2>3. [holder |-> nextHolder[s[1]], left |-> LeaseTimeout] \in Lease
    BY <2>1, ConstantsAssumption DEF Lease
  <2>4. leases' \in [Slot -> Lease \cup {NoLease}]
    BY <1>1, <2>3 DEF Acquire
  <2>5. dispatch' \in [slot : Slot, holder : Nat] \cup {Idle}
    BY <1>1, <2>1 DEF Acquire
  <2> QED
    BY <1>1, <2>2, <2>4, <2>5 DEF Acquire
<1>2. ASSUME CheckBudget PROVE TypeOK'
  <2>1. dispatch \in [slot : Slot, holder : Nat]
    BY <1>2 DEF CheckBudget
  <2>2. leases' \in [Slot -> Lease \cup {NoLease}]
    BY <1>2, <2>1 DEF CheckBudget, ReleaseOwned
  <2>3. leases[dispatch.slot].left \in 0..LeaseTimeout
    BY <2>1, ConstantsAssumption DEF Lease, NoLease
  <2>4. [slot |-> dispatch.slot, holder |-> dispatch.holder,
         left |-> leases[dispatch.slot].left, freed |-> FALSE] \in Task
    BY <2>1, <2>3 DEF Task
  <2>5. tasks' \in SUBSET Task
    BY <1>2, <2>4 DEF CheckBudget
  <2> QED
    BY <1>2, <2>2, <2>5 DEF CheckBudget
<1>3. ASSUME NEW t \in tasks, Report(t) PROVE TypeOK'
  BY <1>3 DEF Report, ReleaseOwned
<1>4. ASSUME NEW s \in Slot, EventRelease(s) PROVE TypeOK'
  <2>1. \A t \in tasks : [t EXCEPT !.freed = @ \/ t.slot = s] \in Task
    BY DEF Task
  <2>2. tasks' \in SUBSET Task
    BY <1>4, <2>1 DEF EventRelease
  <2> QED
    BY <1>4, <2>2 DEF EventRelease
<1>5. ASSUME Sweep PROVE TypeOK'
  BY <1>5 DEF Sweep
<1>6. ASSUME Tick PROVE TypeOK'
  <2>1. \A s \in Slot : [leases[s] EXCEPT !.left = Down(@)] \in Lease \cup {NoLease}
    <3> TAKE s \in Slot
    <3>1. CASE leases[s] \in Lease
      BY <3>1, DownType DEF Lease
    <3>2. CASE leases[s] = NoLease
      BY <3>2 DEF NoLease, Down
    <3> QED
      BY <3>1, <3>2
  <2>2. leases' \in [Slot -> Lease \cup {NoLease}]
    BY <1>6, <2>1 DEF Tick
  <2>3. \A t \in tasks : [t EXCEPT !.left = Down(@)] \in Task
    BY DownType DEF Task
  <2>4. tasks' \in SUBSET Task
    BY <1>6, <2>3 DEF Tick
  <2> QED
    BY <1>6, <2>2, <2>4 DEF Tick
<1>7. CASE UNCHANGED vars
  BY <1>7 DEF vars
<1> QED
  BY <1>1, <1>2, <1>3, <1>4, <1>5, <1>6, <1>7 DEF Next

(***************************************************************************)
(* TypeOK is an invariant of the lease sets, for every instance.           *)
(***************************************************************************)
THEOREM TypeCorrect == Spec => []TypeOK
<1>1. Init => TypeOK
  BY SlotKind DEF Init, TypeOK
<1>2. TypeOK /\ [Next]_vars => TypeOK'
  BY TypeStep
<1> QED
  BY <1>1, <1>2, PTL DEF Spec

-----------------------------------------------------------------------------
LEMMA InFlightFinite == IsFiniteSet(InFlight)
<1>1. IsFiniteSet(Slot)
  BY FS_Product, ConstantsAssumption DEF Slot
<1> QED
  BY <1>1, FS_Subset DEF InFlight

\* A step that charges nothing new stays within the budget.
LEMMA ChargeNothing ==
    ASSUME BudgetInv, TypeOK, TypeOK', Charged' \subseteq Charged PROVE BudgetInv'
<1>1. IsFiniteSet(Charged)
  BY InFlightFinite, FS_Subset DEF Charged
<1>2. Cardinality(Charged) \in Nat /\ Cardinality(Charged') \in Nat
  BY <1>1, FS_Subset, FS_CardinalityType
<1>3. Cardinality(Charged') <= Cardinality(Charged)
  BY <1>1, FS_Subset
<1> QED
  BY <1>2, <1>3, ConstantsAssumption DEF BudgetInv

LEMMA AcquireStep ==
    ASSUME IInv, TypeOK', NEW s \in Slot, Acquire(s) PROVE IInv'
<1> DEFINE h == nextHolder[s[1]]
<1> USE DEF IInv
<1>1. h \in Nat /\ s[1] \in Kind
  BY SlotKind DEF TypeOK
<1>2. \A k \in Kind : nextHolder[k] \in Nat /\ nextHolder'[k] >= nextHolder[k]
  BY <1>1 DEF Acquire, TypeOK
<1>3. dispatch = Idle /\ tasks' = tasks /\ nextHolder'[s[1]] = h + 1
  BY <1>1 DEF Acquire, TypeOK
<1>4. \A t \in tasks : t \in Task
  BY DEF TypeOK
<1>5. CASE Occupied(s)
  <2>1. leases' = leases /\ dispatch' = dispatch
    BY <1>5 DEF Acquire
  <2>2. HoldersIssued'
    BY <1>2, <1>3, <1>4, <2>1, SlotKind DEF HoldersIssued, TypeOK, Lease, NoLease, Task
  <2>3. Charged' = Charged
    BY <2>1 DEF Charged, InFlight, Held
  <2> QED
    BY <1>3, <2>1, <2>2, <2>3, ChargeNothing
       DEF TasksDistinct, EveryLeaseOwned, Owned, DispatchSucceeds, TaskStanding,
           OverlapOnlyAfterTurnover
<1>6. CASE ~Occupied(s)
  <2>1. /\ leases' = [leases EXCEPT ![s] = [holder |-> h, left |-> LeaseTimeout]]
        /\ dispatch' = [slot |-> s, holder |-> h]
        /\ dispatch' # Idle
    BY <1>1, <1>6 DEF Acquire, Idle
  <2>2. leases'[s] = [holder |-> h, left |-> LeaseTimeout]
    BY <2>1 DEF TypeOK
  <2>3. \A r \in Slot : r # s => leases'[r] = leases[r]
    BY <2>1 DEF TypeOK
  <2>4. \A t \in tasks : t.slot = s => t.holder < h /\ (t.left = 0 \/ t.freed)
    BY <1>6, <1>1, <1>4 DEF HoldersIssued, TaskStanding, Occupied, Held, NoLease, Task,
                            TypeOK, Lease
  <2>5. HoldersIssued'
    BY <1>1, <1>2, <1>3, <1>4, <2>1, <2>2, <2>3, SlotKind
       DEF HoldersIssued, TypeOK, Lease, NoLease, Task
  <2>6. EveryLeaseOwned'
    <3> SUFFICES ASSUME NEW r \in Slot, leases'[r] # NoLease
                 PROVE  Owned(r)'
      BY DEF EveryLeaseOwned
    <3>1. CASE r = s
      BY <3>1, <2>1, <2>2 DEF Owned
    <3>2. CASE r # s
      <4>1. leases[r].holder \in Nat /\ Owned(r)
        BY <3>2, <2>3 DEF EveryLeaseOwned, TypeOK, Lease
      <4>2. dispatch.holder # leases[r].holder
        BY <4>1, <1>3 DEF Idle
      <4>3. PICK t \in tasks : t.slot = r /\ t.holder = leases[r].holder
        BY <4>1, <4>2 DEF Owned
      <4> QED
        BY <4>3, <3>2, <2>3, <1>3 DEF Owned
    <3> QED
      BY <3>1, <3>2
  <2>7. DispatchSucceeds'
    BY <1>3, <2>1, <2>2, <2>4 DEF DispatchSucceeds
  <2>8. TaskStanding'
    BY <1>3, <1>4, <2>3, <2>4 DEF TaskStanding, Task
  <2>9. Charged' \subseteq Charged
    BY <1>3, <2>1, <2>3 DEF Charged, InFlight, Held
  <2> QED
    BY <1>3, <2>5, <2>6, <2>7, <2>8, <2>9, ChargeNothing
       DEF TasksDistinct, OverlapOnlyAfterTurnover
<1> QED
  BY <1>5, <1>6

LEMMA CheckBudgetStep ==
    ASSUME IInv, TypeOK', CheckBudget PROVE IInv'
<1> DEFINE s == dispatch.slot
           h == dispatch.holder
<1> USE DEF IInv
<1>1. s \in Slot /\ h \in Nat /\ dispatch # Idle
  BY DEF CheckBudget, TypeOK
<1>2. dispatch' = Idle /\ nextHolder' = nextHolder
  BY DEF CheckBudget
<1>3. leases[s].holder = h
  BY <1>1 DEF DispatchSucceeds
<1>4. CASE OverBudget /\ leases' = ReleaseOwned(s, h) /\ UNCHANGED tasks
  <2>1. leases' = [leases EXCEPT ![s] = NoLease]
    BY <1>3, <1>4 DEF ReleaseOwned
  <2>2. leases'[s] = NoLease /\ \A r \in Slot : r # s => leases'[r] = leases[r]
    BY <1>1, <2>1 DEF TypeOK
  <2>3. HoldersIssued'
    BY <1>1, <1>2, <1>4, <2>2, SlotKind DEF HoldersIssued, TypeOK, NoLease
  <2>4. EveryLeaseOwned'
    BY <1>1, <1>4, <2>2 DEF EveryLeaseOwned, Owned
  <2>5. TaskStanding'
    BY <1>1, <1>4, <2>2 DEF TaskStanding, DispatchSucceeds, TypeOK, Task
  <2>6. Charged' \subseteq Charged
    BY <1>1, <1>2, <2>2 DEF Charged, InFlight, Held
  <2> QED
    BY <1>2, <1>4, <2>3, <2>4, <2>5, <2>6, ChargeNothing
       DEF TasksDistinct, OverlapOnlyAfterTurnover, DispatchSucceeds
<1>5. CASE /\ ~OverBudget
           /\ tasks' = tasks \cup {[slot |-> s, holder |-> h,
                                    left |-> leases[s].left, freed |-> FALSE]}
           /\ UNCHANGED leases
  <2> DEFINE u == [slot |-> s, holder |-> h, left |-> leases[s].left, freed |-> FALSE]
  <2>1. \A t \in tasks : t \in Task
    BY DEF TypeOK
  <2>2. \A t \in tasks : t.slot = s => t.holder < h /\ (t.left = 0 \/ t.freed)
    BY <1>1 DEF DispatchSucceeds
  <2>3. HoldersIssued'
    BY <1>1, <1>2, <1>5 DEF HoldersIssued
  <2>4. TasksDistinct'
    <3> HIDE DEF u
    <3> SUFFICES ASSUME NEW t1 \in tasks', NEW t2 \in tasks',
                        t1.slot = t2.slot, t1.holder = t2.holder
                 PROVE  t1 = t2
      BY DEF TasksDistinct
    <3>1. tasks' = tasks \cup {u} /\ u.slot = s /\ u.holder = h
      BY <1>5 DEF u
    <3>2. \A t \in tasks : t.slot = s => t.holder # h
      BY <1>1, <2>1, <2>2 DEF Task
    <3> QED
      BY <3>1, <3>2 DEF TasksDistinct
  <2>5. EveryLeaseOwned'
    <3> SUFFICES ASSUME NEW r \in Slot, leases[r] # NoLease
                 PROVE  \E t \in tasks' : t.slot = r /\ t.holder = leases[r].holder
      BY <1>5 DEF EveryLeaseOwned, Owned
    <3>1. CASE r = s
      <4>1. u \in tasks' /\ u.slot = s /\ u.holder = leases[s].holder
        BY <1>3, <1>5
      <4> QED
        BY <3>1, <4>1
    <3>2. CASE r # s
      <4>1. dispatch # [slot |-> r, holder |-> leases[r].holder]
        BY <3>2
      <4>2. PICK t \in tasks : t.slot = r /\ t.holder = leases[r].holder
        BY <4>1 DEF EveryLeaseOwned, Owned
      <4> QED
        BY <4>2, <1>5
    <3> QED
      BY <3>1, <3>2
  <2>6. TaskStanding'
    BY <1>1, <1>3, <1>5 DEF TaskStanding
  <2>7. OverlapOnlyAfterTurnover'
    BY <1>1, <1>5, <2>1, <2>2 DEF OverlapOnlyAfterTurnover, Task
  <2>8. BudgetInv'
    <3>1. Cardinality(InFlight) <= MaxConcurrent
      BY <1>5, InFlightFinite, FS_CardinalityType, ConstantsAssumption
         DEF OverBudget, TotalInFlight
    <3>2. Charged' = InFlight
      BY <1>2, <1>5 DEF Charged, InFlight, Held
    <3> QED
      BY <3>1, <3>2 DEF BudgetInv
  <2> QED
    BY <1>2, <2>3, <2>4, <2>5, <2>6, <2>7, <2>8 DEF DispatchSucceeds
<1> QED
  BY <1>4, <1>5 DEF CheckBudget

LEMMA ReportStep ==
    ASSUME IInv, TypeOK', NEW t \in tasks, Report(t) PROVE IInv'
<1> USE DEF IInv
<1>1. t \in Task /\ t.slot \in Slot /\ t.holder \in Nat
  BY DEF TypeOK, Task
<1>2. tasks' = tasks \ {t} /\ nextHolder' = nextHolder /\ dispatch' = dispatch
  BY DEF Report
<1>3. \A r \in Slot : leases'[r] = leases[r] \/
                      (r = t.slot /\ leases[r].holder = t.holder /\ leases'[r] = NoLease)
  BY <1>1 DEF Report, ReleaseOwned, TypeOK
<1>4. \A r \in Slot : leases'[r] = NoLease \/ (leases'[r] = leases[r] /\
                      ~(r = t.slot /\ leases[r].holder = t.holder))
  BY <1>1 DEF Report, ReleaseOwned, TypeOK
<1>5. HoldersIssued'
  BY <1>2, <1>3, SlotKind DEF HoldersIssued, TypeOK, NoLease
<1>6. EveryLeaseOwned'
  BY <1>2, <1>4 DEF EveryLeaseOwned, Owned
<1>7. DispatchSucceeds'
  BY <1>1, <1>2, <1>3 DEF DispatchSucceeds, TypeOK
<1>8. TaskStanding'
  <2>1. \A u \in tasks' : u \in tasks /\ u # t /\ u.slot \in Slot
    BY <1>2 DEF TypeOK, Task
  <2>2. \A u \in tasks' : u.slot = t.slot => u.holder # t.holder
    BY <2>1 DEF TasksDistinct
  <2> QED
    BY <1>3, <2>1, <2>2 DEF TaskStanding
<1>9. Charged' \subseteq Charged
  BY <1>2, <1>3 DEF Charged, InFlight, Held
<1> QED
  BY <1>2, <1>5, <1>6, <1>7, <1>8, <1>9, ChargeNothing
     DEF TasksDistinct, OverlapOnlyAfterTurnover

LEMMA EventReleaseStep ==
    ASSUME IInv, TypeOK', NEW s \in Slot, EventRelease(s) PROVE IInv'
<1> USE DEF IInv
<1> DEFINE freedBy(t) == [t EXCEPT !.freed = @ \/ t.slot = s]
<1>1. /\ dispatch = Idle /\ dispatch' = dispatch /\ nextHolder' = nextHolder
      /\ leases'[s] = NoLease
      /\ \A r \in Slot : r # s => leases'[r] = leases[r]
  BY DEF EventRelease, TypeOK
<1>2. /\ tasks' = {freedBy(t) : t \in tasks}
      /\ \A t \in tasks : /\ t \in Task
                          /\ freedBy(t).slot = t.slot /\ freedBy(t).holder = t.holder
                          /\ freedBy(t).left = t.left
                          /\ t.freed \/ t.slot = s => freedBy(t).freed
  BY DEF EventRelease, TypeOK, Task
<1> HIDE DEF freedBy
<1>3. HoldersIssued'
  BY <1>1, <1>2, SlotKind DEF HoldersIssued, TypeOK, NoLease
<1>4. TasksDistinct'
  BY <1>2 DEF TasksDistinct
<1>5. EveryLeaseOwned'
  BY <1>1, <1>2 DEF EveryLeaseOwned, Owned
<1> DEFINE images == \A u \in tasks' : \E t \in tasks :
                        /\ u.slot = t.slot /\ u.holder = t.holder /\ u.left = t.left
                        /\ t.freed \/ t.slot = s => u.freed
<1>6. images
  BY <1>2
<1>7. TaskStanding' /\ OverlapOnlyAfterTurnover'
  <2>1. ASSUME NEW u \in tasks'
        PROVE  u.left = 0 \/ u.freed \/
               (leases'[u.slot].holder = u.holder /\ leases'[u.slot].left = u.left)
    <3>1. PICK t \in tasks :
             /\ u.slot = t.slot /\ u.holder = t.holder /\ u.left = t.left
             /\ t.freed \/ t.slot = s => u.freed
      BY <1>6
    <3>2. t.slot \in Slot
      BY <1>2 DEF Task
    <3> QED
      BY <1>1, <3>1, <3>2 DEF TaskStanding
  <2>2. ASSUME NEW u \in tasks', NEW v \in tasks', u.slot = v.slot, u.holder < v.holder
        PROVE  u.left = 0 \/ u.freed
    BY <1>6, <2>2 DEF OverlapOnlyAfterTurnover
  <2> QED
    BY <2>1, <2>2 DEF TaskStanding, OverlapOnlyAfterTurnover
<1>8. Charged' \subseteq Charged
  BY <1>1 DEF Charged, InFlight, Held
<1> QED
  BY <1>1, <1>3, <1>4, <1>5, <1>7, <1>8, ChargeNothing DEF DispatchSucceeds

LEMMA SweepStep == ASSUME IInv, TypeOK', Sweep PROVE IInv'
<1> USE DEF IInv
<1>1. /\ dispatch = Idle /\ UNCHANGED <<nextHolder, dispatch, tasks>>
      /\ \A s \in Slot : leases'[s] = IF Held(s) THEN leases[s] ELSE NoLease
  BY DEF Sweep
<1>2. HoldersIssued'
  BY <1>1, SlotKind DEF HoldersIssued, TypeOK, NoLease
<1>3. EveryLeaseOwned'
  BY <1>1 DEF EveryLeaseOwned, Owned
<1>4. TaskStanding'
  <2> SUFFICES ASSUME NEW t \in tasks, t.left # 0, ~t.freed
               PROVE  leases'[t.slot] = leases[t.slot]
    BY <1>1 DEF TaskStanding
  <2>1. t.slot \in Slot /\ t.left \in Nat /\ t.holder \in Nat
    BY DEF TypeOK, Task
  <2>2. leases[t.slot].left > 0 /\ leases[t.slot].holder = t.holder
    BY <2>1 DEF TaskStanding
  <2> QED
    BY <1>1, <2>1, <2>2 DEF Held, NoLease
<1>5. Charged' \subseteq Charged
  BY <1>1 DEF Charged, InFlight, Held
<1> QED
  BY <1>1, <1>2, <1>3, <1>4, <1>5, ChargeNothing
     DEF TasksDistinct, OverlapOnlyAfterTurnover, DispatchSucceeds

LEMMA TickStep == ASSUME IInv, TypeOK', Tick PROVE IInv'
<1> USE DEF IInv
<1> DEFINE aged(t) == [t EXCEPT !.left = Down(@)]
<1>1. /\ UNCHANGED <<nextHolder, dispatch>>
      /\ \A s \in Slot : /\ leases'[s].holder = leases[s].holder
                         /\ leases'[s].left = Down(leases[s].left)
                         /\ (leases'[s] = NoLease) = (leases[s] = NoLease)
  <2>1. \A s \in Slot : leases'[s] = [leases[s] EXCEPT !.left = Down(@)]
    BY DEF Tick
  <2>2. \A s \in Slot : leases[s] \in Lease => leases'[s].holder \in Nat
    BY <2>1 DEF Lease
  <2>3. Down(0) = 0
    BY DEF Down
  <2>4. \A s \in Slot : leases[s] = NoLease => leases'[s] = NoLease
    BY <2>1, <2>3 DEF NoLease
  <2> QED
    BY <2>1, <2>2, <2>4 DEF Tick, TypeOK, Lease, NoLease
<1>2. /\ tasks' = {aged(t) : t \in tasks}
      /\ \A t \in tasks : /\ t \in Task
                          /\ aged(t).slot = t.slot /\ aged(t).holder = t.holder
                          /\ aged(t).left = Down(t.left) /\ aged(t).freed = t.freed
  BY DEF Tick, TypeOK, Task
<1>3. Down(0) = 0
  BY DEF Down
<1> HIDE DEF aged
<1>4. HoldersIssued'
  BY <1>1, <1>2 DEF HoldersIssued
<1>5. TasksDistinct'
  BY <1>2 DEF TasksDistinct
<1>6. EveryLeaseOwned'
  BY <1>1, <1>2 DEF EveryLeaseOwned, Owned
<1>7. DispatchSucceeds'
  BY <1>1, <1>2, <1>3 DEF DispatchSucceeds, TypeOK, Idle
<1>8. TaskStanding'
  BY <1>1, <1>2, <1>3 DEF TaskStanding, Task
<1>9. OverlapOnlyAfterTurnover'
  BY <1>2, <1>3 DEF OverlapOnlyAfterTurnover
<1>10. Charged' \subseteq Charged
  <2>1. \A s \in Slot : leases'[s].left > 0 => leases[s].left > 0
    BY <1>1 DEF Down, TypeOK, Lease, NoLease
  <2> QED
    BY <1>1, <2>1 DEF Charged, InFlight, Held
<1> QED
  BY <1>4, <1>5, <1>6, <1>7, <1>8, <1>9, <1>10, ChargeNothing

(***************************************************************************)
(* Every operation of the lease sets preserves the inductive invariant.    *)
(***************************************************************************)
LEMMA Inductive == ASSUME IInv, [Next]_vars PROVE IInv'
<1>1. TypeOK'
  BY TypeStep DEF IInv
<1>2. CASE UNCHANGED vars
  <2>1. Charged' = Charged
    BY <1>2 DEF vars, Charged, InFlight, Held
  <2> QED
    BY <1>1, <1>2, <2>1
       DEF vars, IInv, HoldersIssued, TasksDistinct, EveryLeaseOwned, Owned,
           DispatchSucceeds, TaskStanding, OverlapOnlyAfterTurnover, BudgetInv
<1> QED
  BY <1>1, <1>2, AcquireStep, CheckBudgetStep, ReportStep, EventReleaseStep, SweepStep,
     TickStep DEF Next

LEMMA Initially == Init => IInv
<1> SUFFICES ASSUME Init PROVE IInv
  OBVIOUS
<1>1. TypeOK
  BY SlotKind DEF Init, TypeOK
<1>2. \A s \in Slot : leases[s] = NoLease
  BY DEF Init
<1>3. HoldersIssued
  BY <1>2, SlotKind DEF Init, HoldersIssued, NoLease
<1>4. Charged = {}
  BY <1>2 DEF Init, Charged, InFlight, Held
<1>5. BudgetInv
  BY <1>4, FS_EmptySet, ConstantsAssumption DEF BudgetInv
<1> QED
  BY <1>1, <1>2, <1>3, <1>5
     DEF IInv, Init, TasksDistinct, EveryLeaseOwned, DispatchSucceeds, TaskStanding,
         OverlapOnlyAfterTurnover

LEMMA Invariance == Spec => []IInv
<1> QED
  BY Initially, Inductive, PTL DEF Spec

-----------------------------------------------------------------------------
(***************************************************************************)
(* max_concurrent_actions bounds the live slots of all four kinds together *)
(* whenever spawn_leased is not between its acquire and its budget check.  *)
(***************************************************************************)
THEOREM BudgetHolds == Spec => []BudgetRespected
<1>1. IInv => BudgetRespected
  <2> SUFFICES ASSUME IInv PROVE BudgetRespected
    OBVIOUS
  <2>1. CASE dispatch = Idle
    BY <2>1, InFlightFinite, FS_CardinalityType, ConstantsAssumption
       DEF IInv, BudgetInv, Charged, BudgetRespected, TotalInFlight
  <2>2. CASE dispatch # Idle
    <3> DEFINE s == dispatch.slot
    <3>1. Cardinality(InFlight) \in Nat
      BY InFlightFinite, FS_CardinalityType
    <3>2. Cardinality(InFlight \ {s}) >= Cardinality(InFlight) - 1
      BY <3>1, InFlightFinite, FS_RemoveElement
    <3>3. Cardinality(InFlight \ {s}) <= MaxConcurrent
      BY <2>2 DEF IInv, BudgetInv, Charged
    <3>4. Cardinality(InFlight \ {s}) \in Nat
      BY InFlightFinite, FS_RemoveElement, FS_CardinalityType
    <3> QED
      BY <2>2, <3>1, <3>2, <3>3, <3>4, ConstantsAssumption DEF BudgetRespected, TotalInFlight
  <2> QED
    BY <2>1, <2>2
<1> QED
  BY <1>1, Invariance, PTL

(***************************************************************************)
(* Every live slot has a dispatch or a running task behind it, which gives *)
(* it back on either outcome: no early return strands a slot.              *)
(***************************************************************************)
THEOREM NothingStranded == Spec => []NoStrandedSlot
<1>1. IInv => NoStrandedSlot
  BY DEF IInv, EveryLeaseOwned, NoStrandedSlot, Held, NoLease
<1> QED
  BY <1>1, Invariance, PTL

(***************************************************************************)
(* Two transactions of one kind run for one channel only once the earlier  *)
(* has overrun its lease or had its slot released by a chain event.        *)
(***************************************************************************)
THEOREM OverlapExplained == Spec => []OverlapOnlyAfterTurnover
<1>1. IInv => OverlapOnlyAfterTurnover
  BY DEF IInv
<1> QED
  BY <1>1, Invariance, PTL

(***************************************************************************)
(* A transaction that reports after its lease turned over leaves every     *)
(* slot but its own alone, its successor's among them.                     *)
(***************************************************************************)
THEOREM LateReportsSafe == Spec => LateReportSparesSuccessor
<1> DEFINE spares == \A t \in tasks : tasks' = tasks \ {t} =>
                        \A s \in Slot : leases[s].holder # t.holder \/ s # t.slot
                            => leases'[s] = leases[s]
<1>1. ASSUME IInv, [Next]_vars PROVE spares \/ UNCHANGED vars
  <2> SUFFICES ASSUME NEW t \in tasks, tasks' = tasks \ {t}, NEW s \in Slot,
                      leases[s].holder # t.holder \/ s # t.slot, Next
               PROVE  leases'[s] = leases[s]
    BY <1>1
  <2>1. t \notin tasks' /\ t \in Task
    BY <1>1 DEF IInv, TypeOK
  <2>2. ASSUME NEW r \in Slot, Acquire(r) PROVE FALSE
    BY <2>1, <2>2 DEF Acquire
  <2>3. ~CheckBudget
    BY <2>1 DEF CheckBudget
  <2>4. ~Sweep
    BY <2>1 DEF Sweep
  <2>5. ASSUME NEW u \in tasks, Report(u) PROVE leases'[s] = leases[s]
    <3>1. u = t
      BY <2>1, <2>5 DEF Report
    <3> QED
      BY <1>1, <2>5, <3>1 DEF Report, ReleaseOwned, IInv, TypeOK
  <2>6. ASSUME NEW u \in tasks', u.slot = t.slot, u.holder = t.holder PROVE FALSE
    BY <1>1, <2>1, <2>6 DEF IInv, TasksDistinct
  <2>7. ASSUME NEW r \in Slot, EventRelease(r) PROVE FALSE
    <3> DEFINE u == [t EXCEPT !.freed = @ \/ t.slot = r]
    <3>1. u \in tasks' /\ u.slot = t.slot /\ u.holder = t.holder
      BY <2>1, <2>7 DEF EventRelease, Task
    <3> QED
      BY <2>6, <3>1
  <2>8. ASSUME Tick PROVE FALSE
    <3> DEFINE u == [t EXCEPT !.left = Down(@)]
    <3>1. u \in tasks' /\ u.slot = t.slot /\ u.holder = t.holder
      BY <2>1, <2>8 DEF Tick, Task
    <3> QED
      BY <2>6, <3>1
  <2> QED
    BY <2>2, <2>3, <2>4, <2>5, <2>7, <2>8 DEF Next
<1> QED
  BY <1>1, Invariance, PTL DEF Spec, LateReportSparesSuccessor

=============================================================================
