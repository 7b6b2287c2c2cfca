---------------------------- MODULE AutoRedeeming ----------------------------
(***************************************************************************)
(* The auto-redeeming strategy: at most one redemption run per channel,    *)
(* kept by a cache of abort handles with a capacity and a time-to-live.    *)
(*                                                                         *)
(* Actors.  The strategy's loop handles one tick or event at a time; each  *)
(* redemption run is a task on another thread.  Starting a run takes the   *)
(* loop two steps - spawn, then insert the handle - and the run may end    *)
(* between them.  Ending a run invalidates the entry of its CHANNEL,       *)
(* whoever the entry belongs to.                                           *)
(*                                                                         *)
(* Tickets below minimum_redeem_ticket_value are neither redeemed nor      *)
(* answered by any action, and are left out.                               *)
(***************************************************************************)
EXTENDS Integers, FiniteSets

CONSTANTS
    Channel,        \* incoming channels
    MaxRuns,        \* bound on the runs alive at once; their names are reused
    CacheCapacity,  \* capacity of running_redemptions
    RedeemCfgs,     \* the configurations to run: [onWinning, onClose]
    MaxTickets      \* bound on the winning tickets, all channels together

ASSUME RedeemAssumption ==
    /\ MaxRuns \in Nat /\ CacheCapacity \in Nat /\ MaxTickets \in Nat
    /\ RedeemCfgs \subseteq [onWinning : BOOLEAN, onClose : BOOLEAN]

VARIABLES
    redeemCfg,      \* [onWinning, onClose]: redeem_on_winning, redeem_all_on_close
    status,         \* of each channel: open, closing, or over, see Redeemable
    tickets,        \* winning tickets of each channel not yet redeemed
    won,            \* how many were won so far
    news,           \* chain and ticket events on their way to the loop
    todo,           \* what the tick being handled has left to visit
    spawned,        \* the run spawned whose handle is not inserted yet
    cache,          \* running_redemptions: its entries
    runs,           \* the redemption tasks: the channel each one works on
    untracked,      \* the runs whose entry was pushed out at capacity
    redeemUp        \* the strategy has not been dropped

redeemVars == <<redeemCfg, status, tickets, won, news, todo, spawned, cache,
                runs, untracked, redeemUp>>

Run   == 1..MaxRuns
None  == "none"
Entry == [chan : Channel, run : Run, live : BOOLEAN]
News  == [kind : {"winning", "closing"}, chan : Channel]

RedeemTypeOK ==
    /\ redeemCfg \in [onWinning : BOOLEAN, onClose : BOOLEAN]
    /\ status \in [Channel -> {"open", "closing", "over"}]
    /\ tickets \in [Channel -> 0..MaxTickets] /\ won \in 0..MaxTickets
    /\ news \subseteq News /\ todo \subseteq Channel
    /\ spawned = {} \/ \E c \in Channel, r \in Run : spawned = {[chan |-> c, run |-> r, live |-> TRUE]}
    /\ cache \subseteq Entry
    /\ \A e, f \in cache : e.chan = f.chan => e = f
    /\ runs \in [Run -> Channel \cup {None}]
    /\ untracked \subseteq {r \in Run : runs[r] # None}
    /\ redeemUp \in BOOLEAN

Running(r) == runs[r] # None
EntryOf(c) == {e \in cache : e.chan = c}
Holders(entries) == {e.run : e \in entries}
LoopFree   == redeemUp /\ todo = {} /\ spawned = {}
FreeRuns   == {r \in Run : ~Running(r)} \ Holders(cache)

\* The eviction listener aborts the runs behind the entries that leave the
\* cache, unless they leave it at capacity.
Stop(ended) ==
    /\ runs' = [r \in Run |-> IF r \in ended THEN None ELSE runs[r]]
    /\ untracked' = untracked \ ended

RedeemInit ==
    /\ redeemCfg \in RedeemCfgs
    /\ status = [c \in Channel |-> "open"] /\ news = {} /\ todo = {} /\ spawned = {} /\ cache = {}
    /\ tickets = [c \in Channel |-> 0] /\ won = 0
    /\ runs = [r \in Run |-> None] /\ untracked = {}
    /\ redeemUp = TRUE

-----------------------------------------------------------------------------
(* The world: tickets are won, channels close, events get lost.            *)

TicketWon(c) ==
    /\ won < MaxTickets
    /\ won' = won + 1
    /\ tickets' = [tickets EXCEPT ![c] = @ + 1]
    /\ news' = news \cup {[kind |-> "winning", chan |-> c]}
    /\ UNCHANGED <<redeemCfg, status, todo, spawned, cache, runs, untracked, redeemUp>>

ClosureBegins(c) ==
    /\ status[c] = "open"
    /\ status' = [status EXCEPT ![c] = "closing"]
    /\ news' = news \cup {[kind |-> "closing", chan |-> c]}
    /\ UNCHANGED <<redeemCfg, tickets, won, todo, spawned, cache, runs, untracked, redeemUp>>

\* The closure is over, and so is the half minute of grace it is given.
ClosureEnds(c) ==
    /\ status[c] = "closing"
    /\ status' = [status EXCEPT ![c] = "over"]
    /\ UNCHANGED <<redeemCfg, tickets, won, news, todo, spawned, cache, runs, untracked, redeemUp>>

NewsLost(e) ==
    /\ e \in news
    /\ news' = news \ {e}
    /\ UNCHANGED <<redeemCfg, status, tickets, won, todo, spawned, cache, runs, untracked,
                   redeemUp>>

-----------------------------------------------------------------------------
(* The loop. *)

Spawn(c) ==
    \E r \in FreeRuns :
        /\ \A s \in FreeRuns : r <= s
        /\ runs' = [runs EXCEPT ![r] = c]
        /\ spawned' = {[chan |-> c, run |-> r, live |-> TRUE]}

\* Slips: the cache is not asked; an expired entry still blocks.
InProgressNever(c) == FALSE
InProgressStale(c) == EntryOf(c) # {}

\* enqueue_redemption up to the spawn.  An entry that has outlived its time
\* is not found, though its run goes on until the cache drops it.
InProgress(c) == \E e \in EntryOf(c) : e.live

StartRun(c) ==
    IF InProgress(c) THEN UNCHANGED <<runs, spawned>> ELSE Spawn(c)

\* with_redeemable_channels(30 s): a closure that has been over for longer is left out.
Redeemable == {c \in Channel : status[c] # "over"}

\* on_tick: nothing when runs start on winning tickets; otherwise every
\* incoming redeemable channel, one after the other.
RedeemTick ==
    /\ LoopFree /\ ~redeemCfg.onWinning
    /\ todo' = Redeemable
    /\ UNCHANGED <<redeemCfg, status, tickets, won, news, spawned, cache, runs, untracked,
                   redeemUp>>

VisitChannel(c) ==
    /\ redeemUp /\ spawned = {} /\ c \in todo
    /\ todo' = todo \ {c}
    /\ StartRun(c)
    /\ UNCHANGED <<redeemCfg, status, tickets, won, news, cache, untracked, redeemUp>>

Handle(kind, c, wanted) ==
    /\ LoopFree /\ [kind |-> kind, chan |-> c] \in news
    /\ news' = news \ {[kind |-> kind, chan |-> c]}
    /\ IF wanted THEN StartRun(c) ELSE UNCHANGED <<runs, spawned>>
    /\ UNCHANGED <<redeemCfg, status, tickets, won, todo, cache, untracked, redeemUp>>

\* on_acknowledged_winning_ticket: only when configured to, and not for a
\* ticket that the channel's index has passed already.
OnAcknowledgedWinningTicket(c) ==
    Handle("winning", c, redeemCfg.onWinning /\ tickets[c] > 0)

\* on_own_channel_changed, for an incoming channel that leaves Open.
OnOwnChannelChanged(c) == Handle("closing", c, redeemCfg.onClose)

\* A slip: the listener aborts whatever leaves the cache.
PushOutAborted(e) == Stop({e.run})

PushOut(e) ==
    /\ untracked' = untracked \cup {r \in {e.run} : Running(r)}
    /\ UNCHANGED runs

\* enqueue_redemption after the spawn: the handle replaces an entry of the
\* channel that is past its time; at capacity some entry makes room, the new
\* one included.
InsertHandle ==
    \E new \in spawned :
        LET old  == EntryOf(new.chan)
            kept == (cache \ old) \cup {new}
        IN  /\ \/ /\ Cardinality(kept) <= CacheCapacity
                  /\ cache' = kept
                  /\ Stop(Holders(old))
               \/ /\ Cardinality(kept) > CacheCapacity
                  /\ \E out \in kept :
                        /\ cache' = kept \ {out}
                        /\ PushOut(out)
            /\ spawned' = {}
            /\ UNCHANGED <<redeemCfg, status, tickets, won, news, todo, redeemUp>>

\* Drop: every run whose handle is still in the cache is aborted.
DropStrategy ==
    /\ redeemUp /\ spawned = {}
    /\ redeemUp' = FALSE /\ todo' = {}
    /\ Stop(Holders(cache))
    /\ cache' = {}
    /\ UNCHANGED <<redeemCfg, status, tickets, won, news, spawned>>

-----------------------------------------------------------------------------
(* The cache and the runs. *)

\* REDEMPTION_TIMEOUT has passed: lookups miss the entry from now on ...
Expire(c) ==
    /\ \E e \in EntryOf(c) :
          /\ e.live
          /\ cache' = (cache \ {e}) \cup {[e EXCEPT !.live = FALSE]}
    /\ UNCHANGED <<redeemCfg, status, tickets, won, news, todo, spawned, runs, untracked,
                   redeemUp>>

\* ... and some later maintenance drops it and aborts its run.
DropExpired(c) ==
    \E e \in EntryOf(c) :
        /\ ~e.live
        /\ cache' = cache \ {e}
        /\ Stop({e.run})
        /\ UNCHANGED <<redeemCfg, status, tickets, won, news, todo, spawned, redeemUp>>

\* A ticket of the channel is redeemed on chain.
Redeem(r) ==
    /\ Running(r) /\ tickets[runs[r]] > 0
    /\ tickets' = [tickets EXCEPT ![runs[r]] = @ - 1]
    /\ UNCHANGED <<redeemCfg, status, won, news, todo, spawned, cache, runs, untracked,
                   redeemUp>>

\* The redemption stream ends, done or failed, and the run invalidates the
\* entry of its channel.
FinishRun(r) ==
    LET gone == EntryOf(runs[r])
    IN  /\ Running(r)
        /\ cache' = cache \ gone
        /\ Stop(Holders(gone) \cup {r})
        /\ UNCHANGED <<redeemCfg, status, tickets, won, news, todo, spawned, redeemUp>>

-----------------------------------------------------------------------------
RedeemNext ==
    \/ \E c \in Channel : \/ TicketWon(c) \/ OnAcknowledgedWinningTicket(c)
                          \/ ClosureBegins(c) \/ ClosureEnds(c) \/ OnOwnChannelChanged(c)
                          \/ VisitChannel(c)
                          \/ Expire(c) \/ DropExpired(c)
    \/ \E e \in news : NewsLost(e)
    \/ \E r \in Run : Redeem(r) \/ FinishRun(r)
    \/ RedeemTick \/ InsertHandle \/ DropStrategy

\* The loop and the tasks run, the clock goes on, and a redemption that is
\* started again and again gets to its ticket one day: this much is assumed of
\* the chain.
RedeemFairness ==
    /\ WF_redeemVars(RedeemTick) /\ WF_redeemVars(InsertHandle)
    /\ \A c \in Channel :
        /\ WF_redeemVars(VisitChannel(c)) /\ WF_redeemVars(Expire(c))
        /\ WF_redeemVars(OnAcknowledgedWinningTicket(c))
        /\ WF_redeemVars(OnOwnChannelChanged(c))
        /\ SF_redeemVars(\E r \in Run : runs[r] = c /\ Redeem(r))
    /\ \A r \in Run : WF_redeemVars(FinishRun(r))

RedeemSpec == RedeemInit /\ [][RedeemNext]_redeemVars /\ RedeemFairness

-----------------------------------------------------------------------------
\* Two runs redeem one channel at once only if one of them outlived its entry:
\* the entry was pushed out at capacity, or has expired and is not dropped yet
\* (enqueue_redemption, new_redemption_cache).
Outlived(r) == r \in untracked \/ r \in Holders({e \in cache : ~e.live})

RunsOverlapOnlyAfterLapse ==
    \A r, q \in Run : (r # q /\ Running(r) /\ runs[r] = runs[q]) => Outlived(r) \/ Outlived(q)

\* A run is aborted before its end only for its own timeout, with the strategy
\* itself, or because a run of the channel that was pushed out at capacity
\* invalidated an entry not its own.  (The listener's comment takes the abort
\* on invalidation to be a no-op; the last case is where it is not.)
AbortsExplained ==
    [][\A r \in Run : (Running(r) /\ ~Running(r)' /\ ~FinishRun(r))
            => \/ ~redeemUp'
               \/ r \in Holders({e \in cache : ~e.live})
               \/ \E q \in untracked : runs[q] = runs[r] /\ FinishRun(q)]_redeemVars

\* Where channels are visited periodically, every ticket is redeemed in the
\* end, whatever entry a run that ended early has left behind it - unless the
\* closure of its channel is over first: no tick visits the channel then, and
\* what tickets it has may stay (on_tick).
TicketsRedeemed ==
    \A c \in Channel : (tickets[c] > 0 /\ ~redeemCfg.onWinning /\ redeemUp)
                            ~> (tickets[c] = 0 \/ ~redeemUp \/ c \notin Redeemable)

=============================================================================
