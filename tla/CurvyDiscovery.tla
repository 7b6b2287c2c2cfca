--------------------------- MODULE CurvyDiscovery ---------------------------
(***************************************************************************)
(* Discovery of the Curvy pool: the tracker on which notify_deposit waits  *)
(* and the watcher task that reads the note index for it.  Each pass reads *)
(* the announced notes first, to find those whose owner is waited for, and *)
(* then the committed ones up to finality; both cursors, the notes found   *)
(* and their commitment are durable, the waiters are not.  Registering a   *)
(* waiter asks for one pass from genesis, because the cursors may be past  *)
(* its note; a pass that fails keeps that request.                         *)
(*                                                                         *)
(* Two sources are modelled.  "stream" is Blokli: announcements never go   *)
(* away and commitments are final only some blocks later.  "snapshot" is   *)
(* Curvy's indexer: only what is final, and only notes still pending in    *)
(* the pending view, with candidates read beside the committed pages.  The *)
(* index moves between any two reads.  Every note is worth one unit.       *)
(***************************************************************************)
EXTENDS Integers, Sequences, FiniteSets, Functions

CONSTANTS
    Notes,          \* the notes announced, by number
    Alloc,          \* allocations somebody may wait for
    Sources,        \* the note sources configured: "stream", "snapshot"
    PageSize,       \* QUERY_PAGE_SIZE
    MaxWatches,     \* bound on the registrations
    MaxFaults       \* bound on the failed passes and restarts together

ASSUME DiscoveryAssumption ==
    /\ Sources \subseteq {"stream", "snapshot"}
    /\ PageSize \in Nat \ {0}
    /\ {MaxWatches, MaxFaults} \subseteq Nat

VARIABLES
    source,         \* the note source
    owner,          \* the allocation each note belongs to
    announced,      \* the index's announcements, oldest first
    commits,        \* its commitments, oldest first
    settled,        \* how many of them are final
    pendingCursor,  \* durable: announcements judged
    commitCursor,   \* durable: commitments correlated
    found,          \* durable: OWNED_NOTES_TABLE
    correlated,     \* durable: those of them marked committed
    waiters,        \* tracker.waiters
    replay,         \* tracker.replay_history
    pass,           \* the pass under way
    watches, faults,
    overtaken       \* history: correlated without an owner because the index ran ahead of the pass

indexVars   == <<source, owner, announced, commits, settled>>
durableVars == <<pendingCursor, commitCursor, found, correlated>>
watchVars   == <<indexVars, durableVars, waiters, replay, pass, watches, faults, overtaken>>

Waiter == [alloc : Alloc, minimum : 1..Cardinality(Notes)]
Resting == [at |-> "rest", again |-> FALSE, more |-> FALSE, queue |-> <<>>, page |-> <<>>,
            pending |-> 0, commit |-> 0, through |-> 0, seen |-> 0]

WatchTypeOK ==
    /\ source \in Sources /\ owner \in [Notes -> Alloc]
    /\ announced \in Seq(Notes) /\ commits \in Seq(Notes) /\ settled \in 0..Len(commits)
    /\ pendingCursor \in 0..Len(announced) /\ commitCursor \in 0..settled
    /\ correlated \subseteq found /\ found \subseteq Range(announced)
    /\ waiters \subseteq Waiter /\ replay \in BOOLEAN
    /\ pass.at \in {"rest", "pending", "head", "commits", "candidates"}

WatchInit ==
    /\ source \in Sources /\ owner \in [Notes -> Alloc]
    /\ announced = <<>> /\ commits = <<>> /\ settled = 0
    /\ pendingCursor = 0 /\ commitCursor = 0 /\ found = {} /\ correlated = {}
    /\ waiters = {} /\ replay = FALSE /\ pass = Resting
    /\ watches = 0 /\ faults = 0 /\ overtaken = {}

-----------------------------------------------------------------------------
(* The index. *)

Announce(n) == n \notin Range(announced) /\ announced' = Append(announced, n) /\ UNCHANGED <<commits, settled>>

\* A snapshot shows a commitment once it is final.
CommitNote(n) ==
    /\ n \in Range(announced) \ Range(commits)
    /\ commits' = Append(commits, n)
    /\ settled' = IF source = "snapshot" THEN settled + 1 ELSE settled
    /\ UNCHANGED announced

SettleNote == settled < Len(commits) /\ settled' = settled + 1 /\ UNCHANGED <<announced, commits>>

IndexStep ==
    /\ (\E n \in Notes : Announce(n) \/ CommitNote(n)) \/ SettleNote
    /\ UNCHANGED <<source, owner, durableVars, waiters, replay, pass, watches, faults, overtaken>>

\* A page of at most PageSize events after a cursor.
PageAfter(s, cursor) == SubSeq(s, cursor + 1, IF cursor + PageSize < Len(s) THEN cursor + PageSize ELSE Len(s))

\* The pending view of a snapshot: the announcements not committed yet, oldest first.
Uncommitted == {p \in 1..Len(announced) : announced[p] \notin Range(commits)}
PendingView ==
    [i \in 1..Cardinality(Uncommitted) |->
        announced[CHOOSE p \in Uncommitted : Cardinality({q \in Uncommitted : q < p}) = i - 1]]

PositionOf(s, n) == CHOOSE i \in 1..Len(s) : s[i] = n

-----------------------------------------------------------------------------
(* Waiters. *)

Committed(a) == Cardinality({n \in correlated : owner[n] = a})

Watched == {w.alloc : w \in waiters}

\* A registration that is not served at once asks for a pass from genesis.
ReplayFor(w) == TRUE

\* watch
Watch(w) ==
    /\ watches < MaxWatches /\ watches' = watches + 1
    /\ \/ Committed(w.alloc) >= w.minimum /\ UNCHANGED <<waiters, replay>>
       \/ /\ Committed(w.alloc) < w.minimum
          /\ waiters' = waiters \cup {w}
          /\ replay' = ReplayFor(w)
    /\ UNCHANGED <<indexVars, durableVars, pass, faults, overtaken>>

\* The receiver is dropped, at the end of the tracking budget.
Cancel(w) ==
    /\ w \in waiters /\ waiters' = waiters \ {w}
    /\ UNCHANGED <<indexVars, durableVars, replay, pass, watches, faults, overtaken>>

-----------------------------------------------------------------------------
(* A pass of the watcher: run_watcher and catch_up. *)

StartPass ==
    /\ pass.at = "rest" /\ waiters # {}
    /\ replay' = FALSE
    /\ pass' = [Resting EXCEPT !.at = "pending", !.again = replay, !.more = TRUE,
                               !.pending = IF replay THEN 0 ELSE pendingCursor,
                               !.commit = IF replay THEN 0 ELSE commitCursor]
    /\ UNCHANGED <<indexVars, durableVars, waiters, watches, faults, overtaken>>

\* A slip: the request for a pass from genesis is spent by a pass that fails.
RestoreNothing(again) == replay

\* restore_failed_replay
Restored(again) == replay \/ again

\* The index, the detector or the database fails under the pass.
PassFails ==
    /\ pass.at # "rest" /\ faults < MaxFaults /\ faults' = faults + 1
    /\ replay' = Restored(pass.again)
    /\ pass' = Resting
    /\ UNCHANGED <<indexVars, durableVars, waiters, watches, overtaken>>

\* The next page of announcements, or the whole pending view.
FetchPending ==
    /\ pass.at = "pending" /\ pass.queue = <<>> /\ pass.more
    /\ LET view == IF source = "stream" THEN PageAfter(announced, pass.pending)
                   ELSE PendingView
       IN pass' = [pass EXCEPT !.queue = view, !.seen = Len(announced),
                               !.more = (source = "stream") /\ (Len(view) = PageSize)]
    /\ UNCHANGED <<indexVars, durableVars, waiters, replay, watches, faults, overtaken>>

\* process_candidate: owned by a watched allocation, the note is recorded; nobody waiting ends the pass.
ProcessCandidate ==
    /\ pass.at \in {"pending", "candidates"} /\ pass.queue # <<>>
    /\ \/ waiters = {} /\ pass' = Resting /\ UNCHANGED <<pendingCursor, found>>
       \/ LET n == Head(pass.queue) IN
          /\ waiters # {}
          /\ found' = found \cup (IF owner[n] \in Watched THEN {n} ELSE {})
          /\ pendingCursor' = PositionOf(announced, n)
          /\ pass' = [pass EXCEPT !.queue = Tail(@),
                                  !.pending = IF pass.at = "pending" THEN PositionOf(announced, n) ELSE @]
    /\ UNCHANGED <<indexVars, commitCursor, correlated, waiters, replay, watches, faults, overtaken>>

\* The head is read once the announcements are judged.
ReadHead ==
    /\ pass.at = "pending" /\ pass.queue = <<>> /\ ~pass.more
    /\ pass' = [pass EXCEPT !.at = "commits", !.through = settled, !.more = TRUE]
    /\ UNCHANGED <<indexVars, durableVars, waiters, replay, watches, faults, overtaken>>

\* A page of commitments; candidates are asked for beside a page that is not empty.
FetchCommits ==
    /\ pass.at = "commits" /\ pass.page = <<>> /\ pass.more
    /\ LET page == PageAfter(commits, pass.commit)
       IN pass' = [pass EXCEPT !.page = page, !.more = (Len(page) = PageSize),
                               !.at = IF page = <<>> THEN "commits" ELSE "head"]
    /\ UNCHANGED <<indexVars, durableVars, waiters, replay, watches, faults, overtaken>>

\* committed_candidates: bounded to the page, none from a stream.
Candidates == IF source = "stream" THEN <<>> ELSE SubSeq(commits, pass.commit + 1, pass.commit + Len(pass.page))

FetchCandidates ==
    /\ pass.at = "head"
    /\ pass' = [pass EXCEPT !.at = "candidates", !.queue = Candidates]
    /\ UNCHANGED <<indexVars, durableVars, waiters, replay, watches, faults, overtaken>>

\* process_completion: what is owned becomes committed and its waiters are notified; the first
\* commitment that is not final ends the pass.
Complete ==
    /\ pass.at = "candidates" /\ pass.queue = <<>>
    /\ LET n == Head(pass.page)  i == pass.commit + 1 IN
       \/ i > pass.through /\ pass' = Resting /\ UNCHANGED <<commitCursor, correlated, waiters, overtaken>>
       \/ /\ i <= pass.through
          /\ correlated' = correlated \cup ({n} \cap found)
          /\ commitCursor' = i
          /\ LET amount == Cardinality({m \in correlated' : owner[m] = owner[n]})
             IN waiters' = IF n \notin found THEN waiters
                           ELSE {w \in waiters : w.alloc = owner[n] => amount < w.minimum}
          /\ overtaken' = IF n \notin found /\ PositionOf(announced, n) > pass.seen THEN overtaken \cup {n}
                                                                                    ELSE overtaken
          /\ pass' = [pass EXCEPT !.page = Tail(@), !.commit = i,
                                  !.at = IF Tail(pass.page) = <<>> THEN "commits" ELSE "candidates"]
    /\ UNCHANGED <<indexVars, pendingCursor, found, replay, watches, faults>>

EndPass ==
    /\ pass.at = "commits" /\ pass.page = <<>> /\ ~pass.more
    /\ pass' = Resting
    /\ UNCHANGED <<indexVars, durableVars, waiters, replay, watches, faults, overtaken>>

\* The process ends: what is durable stays.
Restart ==
    /\ faults < MaxFaults /\ faults' = faults + 1
    /\ waiters' = {} /\ replay' = FALSE /\ pass' = Resting
    /\ UNCHANGED <<indexVars, durableVars, watches, overtaken>>

WatchNext ==
    \/ IndexStep
    \/ \E w \in Waiter : Watch(w) \/ Cancel(w)
    \/ StartPass \/ PassFails \/ FetchPending \/ ProcessCandidate \/ ReadHead
    \/ FetchCommits \/ FetchCandidates \/ Complete \/ EndPass
    \/ Restart

WatchSpec == WatchInit /\ [][WatchNext]_watchVars

-----------------------------------------------------------------------------
(* Properties. *)

\* No waiter is left behind by the cursors (lifecycle.rs, "a commitment can only ever correlate against an
\* ownership decision that is already durable"): with the watcher at rest and no pass from genesis due, every
\* final commitment the cursor is past was correlated if somebody waits for its owner, and so was every
\* announcement judged.  The exception is a stream that announces a note and finalises its commitment between
\* a pass's last read of announcements and its read of the head.
WaitersKeepNotes ==
    pass.at = "rest" /\ ~replay =>
        \A n \in Range(announced) :
            owner[n] \in Watched =>
                /\ PositionOf(announced, n) <= pendingCursor /\ source = "stream" => n \in found
                /\ n \in Range(SubSeq(commits, 1, commitCursor)) =>
                      n \in correlated \/ (source = "stream" /\ n \in overtaken)
=============================================================================
