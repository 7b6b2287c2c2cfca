---------------------------- MODULE SpendLedger ----------------------------
(***************************************************************************)
(* The rolling ledger behind max_spend_per_window: what the Entry has      *)
(* committed to deposits, oldest first, with expiry by age, coalescing of  *)
(* the oldest two entries beyond a capacity, and refunds by reservation    *)
(* number.                                                                 *)
(*                                                                         *)
(* An entry's timestamp is kept as the time left until it has aged out of  *)
(* the window, so the code's  now - at >= window  reads  left = 0.         *)
(***************************************************************************)
EXTENDS Integers, Sequences, FiniteSetsExt

CONSTANTS
    LedgerCapacity,     \* SPEND_LEDGER_CAPACITY
    SpendWindow         \* spend_window, in ticks of the clock

ASSUME LedgerAssumption ==
    /\ LedgerCapacity \in Nat \ {0}
    /\ SpendWindow \in Nat \ {0}

Entry == [left : 0..SpendWindow, amount : Nat, lo : Nat, hi : Nat]

Ledger == [entries : Seq(Entry), seq : Nat, refunded : SUBSET Nat]

EmptyLedger == [entries |-> <<>>, seq |-> 0, refunded |-> {}]

Answers(entry, seq) == seq \in entry.lo..entry.hi

\* Popping the front while it has aged out leaves the suffix from the first live entry.
LiveEntries(entries) ==
    LET live == {i \in DOMAIN entries : entries[i].left > 0} IN
    IF live = {} THEN <<>> ELSE SubSeq(entries, Min(live), Len(entries))

\* The ledger as `spent` leaves it: expired entries dropped, refunds pruned.
Expire(ledger) ==
    LET live == LiveEntries(ledger.entries) IN
    [ledger EXCEPT
        !.entries = live,
        !.refunded = IF live = <<>> THEN {} ELSE {q \in @ : q >= live[1].lo}]

\* What `spent` returns once it has dropped the expired entries.
Committed(ledger) ==
    MapThenSumSet(LAMBDA i : ledger.entries[i].amount, DOMAIN ledger.entries)

\* The oldest entry merged into its successor, which keeps the newer timestamp.
Fold(oldest, next) ==
    [left |-> next.left, amount |-> next.amount + oldest.amount,
     lo |-> Min({oldest.lo, next.lo}), hi |-> Max({oldest.hi, next.hi})]

Commit(ledger, amount) ==
    LET entry == [left |-> SpendWindow, amount |-> amount,
                  lo |-> ledger.seq, hi |-> ledger.seq]
        all   == Append(ledger.entries, entry) IN
    [ledger EXCEPT
        !.seq = @ + 1,
        !.entries = IF Len(all) <= LedgerCapacity THEN all
                    ELSE IF Len(all) = 1 THEN <<>>
                    ELSE <<Fold(all[1], all[2])>> \o SubSeq(all, 3, Len(all))]

Lessened(entry, amount) == [entry EXCEPT !.amount = @ - amount]

\* Slip: a reservation that has expired is refunded out of the oldest live entry.
ReleaseOldest(ledger, seq, amount) ==
    LET holding == {i \in DOMAIN ledger.entries : Answers(ledger.entries[i], seq)}
        target  == IF holding = {} THEN {1} \cap DOMAIN ledger.entries ELSE holding IN
    IF seq \in ledger.refunded THEN ledger
    ELSE [ledger EXCEPT
            !.refunded = @ \cup {seq},
            !.entries = [i \in DOMAIN @ |->
                           IF i \in target THEN Lessened(@[i], amount) ELSE @[i]]]

\* Reservation ranges are disjoint, so at most one live entry answers for `seq`.
Release(ledger, seq, amount) ==
    IF seq \in ledger.refunded THEN ledger
    ELSE [ledger EXCEPT
            !.refunded = @ \cup {seq},
            !.entries = [i \in DOMAIN @ |->
                           IF Answers(@[i], seq) THEN Lessened(@[i], amount) ELSE @[i]]]

\* One tick of the clock.
Aged(entry) == [entry EXCEPT !.left = IF @ > 0 THEN @ - 1 ELSE 0]

AgeLedger(ledger) == [ledger EXCEPT !.entries = [i \in DOMAIN @ |-> Aged(@[i])]]
=============================================================================
