--------------------------- MODULE ClosureFinalizer ---------------------------
(***************************************************************************)
(* The stand-alone closure finalizer: every tick submits the final close   *)
(* of each outgoing channel whose grace period has ended, but no longer    *)
(* ago than max_closure_overdue.  It keeps no state of its own: a channel  *)
(* is submitted again on every tick until the chain has closed it, and is  *)
(* forgotten once it has been overdue for too long.                        *)
(*                                                                         *)
(* A tick submits its channels one after the other and awaits each         *)
(* submission, for as long as it takes; the timer runs on meanwhile, and   *)
(* fires late if the tick takes longer than the interval.                  *)
(***************************************************************************)
EXTENDS Integers

CONSTANTS
    Closable,       \* outgoing channels
    Grace,          \* the grace period between initiating and finalizing
    MaxOverdue,     \* max_closure_overdue
    Intervals,      \* tick intervals the node may be configured with
    Horizon         \* bound on the clock

ASSUME FinalizerAssumption ==
    /\ Grace \in Nat /\ MaxOverdue \in Nat /\ Horizon \in Nat
    /\ Intervals \subseteq Nat \ {0}

VARIABLES
    clock,
    dueAt,          \* Closable -> when its grace period ends, or Never while open
    finished,       \* channels closed on chain
    submitted,      \* channels with a close transaction that may still land
    interval,       \* the configured interval
    sinceTick,      \* time since the timer was set
    stage,          \* what the run loop is about
    queue,          \* what the tick under way has left to close
    tried,          \* history: channels a tick has tried to close
    hindered        \* history: channels that were due while something kept ticks away, see below

finalVars == <<clock, dueAt, finished, submitted, interval, sinceTick, stage, queue, tried, hindered>>

Never   == Horizon + Grace + 1
Pending == {c \in Closable : dueAt[c] # Never} \ finished

\* The first scan comes before the timer is set, the others after.
Scans == {"first_scan", "scan"}
Stage == {"down", "starting", "waiting"} \cup Scans

\* A slip: both ends of the range are left out.
DueInside == {c \in Pending : clock - MaxOverdue < dueAt[c] /\ dueAt[c] < clock}

\* with_closure_time_range(now - max_closure_overdue ..= now)
Due == {c \in Pending : clock - MaxOverdue <= dueAt[c] /\ dueAt[c] <= clock}

FinalTypeOK ==
    /\ clock \in 0..Horizon
    /\ dueAt \in [Closable -> 0..Never]
    /\ finished \subseteq Closable /\ submitted \subseteq Closable
    /\ interval \in Intervals /\ sinceTick \in 0..interval
    /\ stage \in Stage
    /\ queue \subseteq Closable /\ (stage \notin Scans => queue = {})
    /\ tried \subseteq Closable /\ hindered \subseteq Closable

FinalInit ==
    /\ clock = 0
    /\ dueAt = [c \in Closable |-> Never]
    /\ finished = {} /\ submitted = {} /\ queue = {} /\ tried = {} /\ hindered = {}
    /\ interval \in Intervals /\ sinceTick = 0
    /\ stage = "starting"

InitiateClosure(c) ==
    /\ dueAt[c] = Never
    /\ dueAt' = [dueAt EXCEPT ![c] = clock + Grace]
    /\ UNCHANGED <<clock, finished, submitted, interval, sinceTick, stage, queue, tried, hindered>>

TimerFires == stage = "waiting" /\ sinceTick = interval

\* on_tick, as far as the channels it selects.  If they cannot be read the tick
\* is over, and nothing was tried.
FinalizerTick ==
    /\ stage = "starting" \/ TimerFires
    /\ sinceTick' = 0
    /\ \/ /\ stage' = IF stage = "starting" THEN "first_scan" ELSE "scan"
          /\ queue' = Due
          /\ UNCHANGED hindered
       \/ /\ stage' = "waiting"
          /\ hindered' = hindered \cup Due
          /\ UNCHANGED queue
    /\ UNCHANGED <<clock, dueAt, finished, submitted, interval, tried>>

\* One channel of the tick is submitted, or fails to be and waits for the next
\* tick.  Its confirmation is not awaited.
TryClose(c) ==
    /\ c \in queue
    /\ queue' = queue \ {c}
    /\ tried' = tried \cup {c}
    /\ submitted' \in {submitted, submitted \cup {c}}
    /\ UNCHANGED <<clock, dueAt, finished, interval, sinceTick, stage, hindered>>

\* The tick is over; after the first one, the timer is set.
EndTick ==
    /\ stage \in Scans /\ queue = {}
    /\ stage' = "waiting"
    /\ sinceTick' = IF stage = "first_scan" THEN 0 ELSE sinceTick
    /\ UNCHANGED <<clock, dueAt, finished, submitted, interval, queue, tried, hindered>>

CloseLands(c) ==
    /\ c \in submitted
    /\ submitted' = submitted \ {c}
    /\ \/ finished' = finished \cup {c}
       \/ UNCHANGED finished                                \* reverted or dropped
    /\ UNCHANGED <<clock, dueAt, interval, sinceTick, stage, queue, tried, hindered>>

\* The node is down, or the closes of a tick hold up the next one, or the timer.
Held == stage \in {"down", "first_scan"} \/ (stage = "scan" /\ sinceTick = interval)

\* Time passes, but never past a tick that the loop is free to take.
Pass ==
    /\ clock < Horizon /\ stage # "starting" /\ ~TimerFires
    /\ clock' = clock + 1
    /\ sinceTick' = IF Held THEN sinceTick ELSE sinceTick + 1
    /\ UNCHANGED <<dueAt, finished, submitted, interval, stage, queue, tried>>
    /\ hindered' = IF Held THEN hindered \cup Due \cup Due' ELSE hindered

GoDown ==
    /\ stage # "down"
    /\ stage' = "down" /\ queue' = {}
    /\ hindered' = hindered \cup queue
    /\ UNCHANGED <<clock, dueAt, finished, submitted, interval, sinceTick, tried>>

ComeBack ==
    /\ stage = "down"
    /\ stage' = "starting"
    /\ UNCHANGED <<clock, dueAt, finished, submitted, interval, sinceTick, queue, tried, hindered>>

FinalNext ==
    \/ \E c \in Closable : InitiateClosure(c) \/ TryClose(c) \/ CloseLands(c)
    \/ FinalizerTick \/ EndTick \/ Pass \/ GoDown \/ ComeBack

FinalSpec == FinalInit /\ [][FinalNext]_finalVars

-----------------------------------------------------------------------------
\* The window lasts MaxOverdue + 1 instants, the first of them included.  Without
\* a grace period a tick may already have been taken in the first one.
WindowLength == IF Grace = 0 THEN MaxOverdue ELSE MaxOverdue + 1

\* A channel falls out of the window for ever without one attempt, made or still
\* ahead in the tick under way, only if while it was due the node was down, a
\* tick failed to read the channels, or slow closes held up the next tick; or if
\* ticks come more rarely than the window is long - which no configuration check
\* rules out (on_tick, run).
ForgottenExplained ==
    \A c \in Pending : dueAt[c] + MaxOverdue < clock
        => c \in tried \cup queue \cup hindered \/ interval > WindowLength

=============================================================================
