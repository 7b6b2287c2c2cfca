--------------------------- MODULE ChannelSelection ---------------------------
(***************************************************************************)
(* The selectors of the channel lifecycle: which peers to open channels    *)
(* to, and which open channels to close.  Both selectors are functions of  *)
(* one tick's snapshot; the snapshot is the problem, posed by the initial  *)
(* state, and the two answers are computed from it.                        *)
(*                                                                         *)
(* Scores and weights are whole percentages.  Candidates are numbered in   *)
(* the order they are offered, which breaks ties: the sorts are stable.    *)
(***************************************************************************)
EXTENDS Integers, Sequences, FiniteSets, Functions

CONSTANTS
    Problems,       \* the snapshots to answer: [selector, cfg, deficit, elapsed, opens, channels]
    Unmeasured,     \* a signal without a measurement
    UnknownSubnet   \* the subnet bucket of a peer without a usable address

\* The candidates of S each have a number of their own, and whole signals where they have been measured.
Numbered(S) == IsFiniteSet(S) /\ \A c, d \in S : c.id \in Int /\ (c.id = d.id => c = d)
Measured(c) == {c.probe, c.ack, c.ticket, c.edge, c.stake} \subseteq Int \cup {Unmeasured}

ASSUME SelectionAssumption ==
    \A p \in Problems :
        /\ Numbered(p.opens) /\ Numbered(p.channels)
        /\ \A c \in p.opens \cup p.channels : Measured(c)
        /\ {p.deficit, p.cfg.kFloor, p.cfg.openPerTick} \subseteq Nat
        /\ {p.cfg.trustProbe, p.cfg.trustAck, p.cfg.trustTicket, p.cfg.qualityWeight, p.cfg.ticketWeight}
               \subseteq Int
        /\ p.cfg.weights \in [{"latency", "trust", "stake", "anonymity"} -> Int]

VARIABLES
    problem,        \* the SelectorContext of this tick
    closeAnswer,    \* << >> until select_closes has answered, then <<its ranking>>
    openAnswer      \* the same for select_opens

selectVars == <<problem, closeAnswer, openAnswer>>

OrElse(signal, default) == IF signal = Unmeasured THEN default ELSE signal
Larger(i, j)  == IF i >= j THEN i ELSE j
Smaller(i, j) == IF i <= j THEN i ELSE j
First(s, n)   == SubSeq(s, 1, Smaller(n, Len(s)))

SelectTypeOK ==
    /\ closeAnswer = << >> \/ (Len(closeAnswer) = 1 /\ Range(closeAnswer[1]) \subseteq problem.channels)
    /\ openAnswer = << >> \/ (Len(openAnswer) = 1 /\ Range(openAnswer[1]) \subseteq problem.opens)

-----------------------------------------------------------------------------
(* Signals and cells. *)

NeverMeasured == 50                                  \* PeerEdgeInfo::UNMEASURED

FromLatency(ms) ==
    IF ms = Unmeasured THEN "VerySlow"
    ELSE CASE ms <= 50  -> "VeryFast"
           [] ms <= 75  -> "Fast"
           [] ms <= 125 -> "Medium"
           [] ms <= 200 -> "Slow"
           [] OTHER     -> "VerySlow"

\* A peer never timed is not a slow one, though it shares the slow ones' cell.
LatencyScore(ms) ==
    IF ms = Unmeasured THEN NeverMeasured
    ELSE [VeryFast |-> 100, Fast |-> 75, Medium |-> 50, Slow |-> 25, VerySlow |-> 0][FromLatency(ms)]

CellOf(c) == <<FromLatency(c.latency), c.subnet>>

\* Channels whose peer cannot be resolved are in no cell.
Placed          == {c \in problem.channels : c.keyKnown}
CellCount(cell) == Cardinality({c \in Placed : CellOf(c) = cell})
Known(c)        == c.keyKnown /\ c.subnet # UnknownSubnet

\* bucket_coverage of c's cell, as a percentage of the channels in cells.
Coverage(c) ==
    IF Placed = {} \/ ~c.keyKnown THEN 0
    ELSE (100 * CellCount(CellOf(c))) \div Cardinality(Placed)

\* The edge signal alone until a ticket of the peer has been redeemed.
CompositeQuality(c) ==
    LET edge == OrElse(c.edge, NeverMeasured)
    IN  IF c.ticket = Unmeasured THEN edge
        ELSE (problem.cfg.qualityWeight * edge + problem.cfg.ticketWeight * c.ticket) \div 100

Trust(c) ==
    (problem.cfg.trustProbe * OrElse(c.probe, NeverMeasured)
       + problem.cfg.trustAck * OrElse(c.ack, NeverMeasured)
       + problem.cfg.trustTicket * OrElse(c.ticket, 0)) \div 100

FinalScore(c) ==
    LET w == problem.cfg.weights
    IN  w.latency * LatencyScore(c.latency) + w.trust * Trust(c) + w.stake * OrElse(c.stake, 0)
            - w.anonymity * Coverage(c)

\* The candidates of S by rising key, in the order offered where keys are equal.
Precedes(key, d, c) == key[d] < key[c] \/ (key[d] = key[c] /\ d.id < c.id)
Ahead(S, key, c)    == {d \in S : Precedes(key, d, c)}
Ranked(S, key) ==
    [i \in 1..Cardinality(S) |-> CHOOSE c \in S : Cardinality(Ahead(S, key, c)) = i - 1]

-----------------------------------------------------------------------------
(* Closing. *)

Drained(c) == c.balance <= problem.cfg.drainedBelow

\* DefaultSelector::should_close, against the given quality threshold.
ShouldClose(c, threshold) ==
    \/ Drained(c)
    \/ /\ c.keyKnown
       /\ c.lastUpdate > 0                                   \* has_probing_data
       /\ \/ CompositeQuality(c) < threshold
          \/ /\ c.lastUpdate > problem.cfg.unseenFor
             /\ ~problem.cfg.requireObserved \/ c.lastUpdate < problem.elapsed

\* The sole occupant of a known cell stays, unless it is drained.
KFloorVeto(c) == ~Drained(c) /\ Known(c) /\ CellCount(CellOf(c)) <= 1

\* A slip: scheduled channels are not subtracted.
SimulatedNever(c, scheduled) == CellCount(CellOf(c))

\* What the close loop takes to be left of c's cell: scheduled channels that
\* are drained are not subtracted.
SimulatedCount(c, scheduled) ==
    CellCount(CellOf(c))
        - Cardinality({d \in Range(scheduled) : ~Drained(d) /\ Known(d) /\ CellOf(d) = CellOf(c)})

CloseStep(scheduled, c) ==
    IF \/ Len(scheduled) >= problem.cfg.closePerTick
       \/ ~Drained(c) /\ Known(c) /\ SimulatedCount(c, scheduled) <= problem.cfg.kFloor
    THEN scheduled
    ELSE Append(scheduled, c)

\* The close loop over the ranking: what is scheduled after its first n channels.
Scheduled(ranked) ==
    LET after[n \in 0..Len(ranked)] == IF n = 0 THEN << >> ELSE CloseStep(after[n - 1], ranked[n])
    IN  after[Len(ranked)]

MultiCloses ==
    LET threshold == Larger(0, problem.cfg.minQuality - problem.cfg.gap)
        closable  == {c \in problem.channels : ShouldClose(c, threshold) /\ ~KFloorVeto(c)}
    IN  Scheduled(Ranked(closable, [c \in closable |-> FinalScore(c)]))

DefaultCloses ==
    LET closable == {c \in problem.channels : ShouldClose(c, problem.cfg.closeBelow)}
    IN  Ranked(closable, [c \in closable |-> c.id])

-----------------------------------------------------------------------------
(* Opening. *)

\* partition_by_forwarding: peers with too few funded channels of their own
\* are ticket sinks.
Capable == {c \in problem.opens :
                problem.cfg.demote => OrElse(c.outgoing, 0) >= Larger(problem.cfg.minOutgoing, 1)}
Sinks == problem.opens \ Capable

Falling(S) == [c \in S |-> -FinalScore(c)]
Filled(picks, cell) == Cardinality({c \in Range(picks) : CellOf(c) = cell})

\* A slip: picks of an earlier tier are forgotten.
LackingAlone(picks, cell) == CellCount(cell) < problem.cfg.kFloor
Lacking(picks, cell) == CellCount(cell) + Filled(picks, cell) < problem.cfg.kFloor

\* fill_opens: first the best candidate of each known cell below the floor,
\* one per cell, then the others, best first.
FillOpens(picks, tier) ==
    LET room   == Smaller(problem.cfg.openPerTick, problem.deficit) - Len(picks)
        needed == {c \in tier : /\ Known(c) /\ Lacking(picks, CellOf(c))
                                /\ \A d \in tier : CellOf(d) = CellOf(c) => ~Precedes(Falling(tier), d, c)}
        forced == First(Ranked(needed, Falling(needed)), room)
        others == tier \ Range(forced)
    IN  picks \o forced \o First(Ranked(others, Falling(others)), room - Len(forced))

MultiOpens == FillOpens(FillOpens(<< >>, Capable), Sinks)

DefaultOpens ==
    LET Worse(S) == [c \in S |-> -CompositeQuality(c)]
    IN  Ranked(Capable, Worse(Capable)) \o Ranked(Sinks, Worse(Sinks))

-----------------------------------------------------------------------------
SelectInit ==
    /\ problem \in Problems
    /\ closeAnswer = << >> /\ openAnswer = << >>

SelectCloses ==
    /\ closeAnswer = << >>
    /\ closeAnswer' = <<IF problem.selector = "default" THEN DefaultCloses ELSE MultiCloses>>
    /\ UNCHANGED <<problem, openAnswer>>

SelectOpens ==
    /\ openAnswer = << >>
    /\ openAnswer' = <<IF problem.selector = "default" THEN DefaultOpens ELSE MultiOpens>>
    /\ UNCHANGED <<problem, closeAnswer>>

SelectNext == SelectCloses \/ SelectOpens
SelectSpec == SelectInit /\ [][SelectNext]_selectVars

-----------------------------------------------------------------------------
\* Whom the pass puts before whom (fill_opens, partition_by_forwarding).  A ticket sink is opened to only when
\* every forwarding-capable candidate has been given a channel already; within a tier only the anonymity floor
\* may put a candidate before a better one, and then its cell was short of the floor, counting the channels
\* that are open and everyone picked before it, in either tier.
OpensInOrder ==
    \A n \in DOMAIN openAnswer : \A i \in DOMAIN openAnswer[n] :
        LET early  == openAnswer[n][i]
            before == First(openAnswer[n], i - 1)
        IN  /\ early \in Sinks => Capable \subseteq Range(before)
            /\ problem.selector = "multi" =>
                   \A late \in Range(openAnswer[n]) \ Range(First(openAnswer[n], i)) :
                       FinalScore(early) < FinalScore(late) /\ (early \in Capable <=> late \in Capable)
                           => /\ Known(early)
                              /\ CellCount(CellOf(early)) + Filled(before, CellOf(early)) < problem.cfg.kFloor

\* A close for quality or staleness leaves its cell with at least the floor,
\* unless a drained channel of the cell goes in the same tick (select_closes).
CellsKeepFloor ==
    problem.selector = "multi" =>
        \A n \in DOMAIN closeAnswer : \A c \in Range(closeAnswer[n]) :
            LET gone == {d \in Range(closeAnswer[n]) : Known(d) /\ CellOf(d) = CellOf(c)}
            IN  (Known(c) /\ \A d \in gone : ~Drained(d))
                    => CellCount(CellOf(c)) - Cardinality(gone) >= problem.cfg.kFloor

\* What select_closes says of itself: "if closing a channel would leave its
\* cell with zero occupants (among the channels NOT yet scheduled for close),
\* veto it".  A channel that is not drained is never the one that empties it.
SoleOccupantKept ==
    (problem.selector = "multi" /\ problem.cfg.kFloor > 0) =>
        \A n \in DOMAIN closeAnswer : \A i \in DOMAIN closeAnswer[n] :
            LET c == closeAnswer[n][i]
                left == {d \in Placed : CellOf(d) = CellOf(c)} \ Range(First(closeAnswer[n], i))
            IN  ~Drained(c) /\ Known(c) => left # {}

=============================================================================
