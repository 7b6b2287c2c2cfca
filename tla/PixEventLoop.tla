---------------------------- MODULE PixEventLoop ----------------------------
(***************************************************************************)
(* The event loop of the PIX strategy and its two debounced buffers, one   *)
(* of deposits and one of withdrawals.  Every event handled arms anew the  *)
(* timer of EVERY buffer that is not empty, whatever the event was about;  *)
(* a timer that runs out hands its buffer to a task; a buffer without a    *)
(* period is handed over by the handler itself; the end of the stream      *)
(* flushes what is left and waits for it.                                  *)
(*                                                                         *)
(* What a flush does is PixDeposit's and PixRecovery's.  Time is counted   *)
(* in steps of the periods, and the loop is late by less than one of them. *)
(***************************************************************************)
EXTENDS Integers

CONSTANTS
    Buffers,        \* "deposit" and "withdrawal"
    Periods,        \* the periods to run: functions from Buffers
    MaxBuffered,    \* bound on the items of a buffer
    MaxDetached     \* bound on the flush tasks that run at once

ASSUME LoopAssumption ==
    /\ \A p \in Periods : p \in [Buffers -> Nat]
    /\ MaxBuffered \in Nat \ {0} /\ MaxDetached \in Nat \ {0}

VARIABLES
    period,         \* deposit_buffer_period, withdrawal_buffer_period
    buffered,       \* items in each buffer
    timer,          \* time left to each deadline, or Unarmed
    detached,       \* flush tasks under way, by buffer
    streaming,      \* the event stream has not ended
    ended           \* run has returned

loopVars == <<period, buffered, timer, detached, streaming, ended>>

Unarmed == -1

LoopTypeOK ==
    /\ period \in Periods
    /\ buffered \in [Buffers -> 0..MaxBuffered]
    /\ \A b \in Buffers : timer[b] \in {Unarmed} \cup (0..period[b])
    /\ detached \in [Buffers -> 0..MaxDetached]
    /\ streaming \in BOOLEAN /\ ended \in BOOLEAN

LoopInit ==
    /\ period \in Periods
    /\ buffered = [b \in Buffers |-> 0]
    /\ timer = [b \in Buffers |-> Unarmed]
    /\ detached = [b \in Buffers |-> 0]
    /\ streaming = TRUE /\ ended = FALSE

-----------------------------------------------------------------------------
(* detach_flush_deposits and detach_flush_withdrawals: the buffers are     *)
(* emptied on the loop, the pool is called by tasks.                       *)
Handover(items, full) ==
    /\ buffered' = [b \in Buffers |-> IF b \in full THEN 0 ELSE items[b]]
    /\ detached' = [b \in Buffers |-> IF b \in full /\ items[b] > 0 THEN detached[b] + 1 ELSE detached[b]]

Room(b) == buffered[b] < MaxBuffered /\ detached[b] < MaxDetached

\* After an event every buffer that is not empty gets its full period again.
Rearm(b) == buffered'[b] > 0

Rearmed == timer' = [b \in Buffers |-> IF Rearm(b) THEN period[b] ELSE timer[b]]

\* An event that buffers an item.
BufferingEvent(b) ==
    /\ streaming /\ Room(b)
    /\ Handover([buffered EXCEPT ![b] = @ + 1], IF period[b] = 0 THEN {b} ELSE {})
    /\ Rearmed
    /\ UNCHANGED <<period, streaming, ended>>

\* Any other: refused, a request for deposit data, an address to track.
OtherEvent ==
    /\ streaming
    /\ UNCHANGED <<period, buffered, detached, streaming, ended>>
    /\ Rearmed

\* Nothing happens for a while.
Elapse ==
    /\ streaming
    /\ \E b \in Buffers : timer[b] # Unarmed
    /\ \A b \in Buffers : timer[b] # 0
    /\ timer' = [b \in Buffers |-> IF timer[b] = Unarmed THEN Unarmed ELSE timer[b] - 1]
    /\ UNCHANGED <<period, buffered, detached, streaming, ended>>

\* A slip: both deadlines are taken to have passed, one buffer is flushed.
DisarmAll(due) == Buffers

\* The timers that ran out are disarmed, and no other.
Disarm(due) == due

FlushDue ==
    LET due == {b \in Buffers : timer[b] = 0} IN
    /\ streaming /\ due # {}
    /\ \A b \in due : detached[b] < MaxDetached
    /\ Handover(buffered, due)
    /\ timer' = [b \in Buffers |-> IF b \in Disarm(due) THEN Unarmed ELSE timer[b]]
    /\ UNCHANGED <<period, streaming, ended>>

\* A detached flush is done with its batch.
FlushDone(b) ==
    /\ detached[b] > 0
    /\ detached' = [detached EXCEPT ![b] = @ - 1]
    /\ UNCHANGED <<period, buffered, timer, streaming, ended>>

\* The stream ends, and with it the loop ...
StreamEnds ==
    /\ streaming
    /\ streaming' = FALSE
    /\ UNCHANGED <<period, buffered, timer, detached, ended>>

\* ... after the deposits, then the withdrawals left were flushed and awaited.
FinalFlush ==
    /\ ~streaming /\ ~ended
    /\ ended' = TRUE
    /\ buffered' = [b \in Buffers |-> 0]
    /\ UNCHANGED <<period, timer, detached, streaming>>

LoopNext ==
    \/ \E b \in Buffers : BufferingEvent(b) \/ FlushDone(b)
    \/ OtherEvent \/ Elapse \/ FlushDue \/ StreamEnds \/ FinalFlush

\* Time passes, the loop serves a deadline that has passed, and flushes end:
\* each has the pool's finite retry budget.  Nothing makes events come.
LoopFairness ==
    /\ WF_loopVars(Elapse) /\ WF_loopVars(FlushDue) /\ WF_loopVars(FinalFlush)
    /\ \A b \in Buffers : WF_loopVars(FlushDone(b))

PixEventHandled == OtherEvent \/ \E b \in Buffers : BufferingEvent(b)

\* Whatever is buffered is flushed in the end, unless PIX events never cease:
\* the debounce has no upper limit, and an event about neither buffer extends
\* both.  No timer is disarmed, left unarmed or lost with items behind it.
FlushComes ==
    \A b \in Buffers :
        ([]<><<PixEventHandled>>_loopVars) \/ (buffered[b] > 0 ~> buffered[b] = 0)

LoopSpec == LoopInit /\ [][LoopNext]_loopVars /\ LoopFairness
=============================================================================
