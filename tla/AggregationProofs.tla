------------------------- MODULE AggregationProofs -------------------------
(***************************************************************************)
(* The bridge's books agree with the chain whatever the order of its       *)
(* attempts, retries and restarts and of the chain's own steps.  The       *)
(* invariant has three parts: the ledger (proofs, chain, journal and       *)
(* books), what each place of the adapter call under the lock knows of it, *)
(* and the verdicts of the calls.  The lemmas give each way a step may     *)
(* change the ledger, then one lemma per group of actions.  The amounts    *)
(* have an invariant of their own on top of it (MoneyInv).                 *)
(***************************************************************************)
EXTENDS CurvyAggregation, SumLemmas, FiniteSetTheorems, SequenceTheorems, TLAPS

\* The proofs made: each spends something, and a note that a proof makes is spent only once it is booked.
ProofsMade ==
    /\ made \in Seq({made[k] : k \in 1..Len(made)}) /\ Len(made) <= MaxProofs
    /\ \A k \in 1..Len(made) :
         /\ made[k].ids \subseteq Deposits /\ made[k].inputs # {} /\ made[k].change.id = k
         /\ \A n \in made[k].inputs : n.id \in Int /\ n.id > -floats /\ (n.id >= 1 => n.id \in booked)

\* The chain: what landed is held, and spends nothing twice.
ChainSound ==
    /\ landed \in Seq(1..Len(made)) /\ final \in 0..Len(landed)
    /\ held \subseteq 1..Len(made) /\ failed \subseteq 1..Len(made)
    /\ OnChain \subseteq held /\ held \cap failed = {}
    /\ \A i, j \in 1..Len(landed) : i # j => made[landed[i]].inputs \cap made[landed[j]].inputs = {}

\* The attempts of the journal are over the same inputs, which are still in the funding, and pay the same
\* allocations, none of which is recorded as paid.
JournalSound ==
    /\ journal \in Seq(Attempt)
    /\ \A i \in 1..Len(journal) :
        /\ journal[i].proof \in 1..Len(made)
        /\ made[journal[i].proof].inputs \subseteq funding
        /\ made[journal[i].proof].ids \cap Earlier = {}
        /\ journal[i].request # 0 => \E j \in 1..i : journal[j].proof = journal[i].request
        /\ Relayed /\ ~journal[i].attempted => journal[i].proof \notin held
    /\ \A i, j \in 1..Len(journal) :
        /\ made[journal[i].proof].inputs = made[journal[j].proof].inputs
        /\ made[journal[i].proof].ids = made[journal[j].proof].ids
        /\ i # j => journal[i].proof # journal[j].proof

\* A booked competitor over the same inputs, paying the same, is final.
RuledOut(k) == \E j \in booked \cap Finalized : made[j].inputs = made[k].inputs /\ made[j].ids = made[k].ids

\* What is on chain is booked or journalled, what is booked is recorded and its inputs are gone, no two
\* booked proofs share an allocation or an input, and what is held besides is ruled out.
BooksSound ==
    /\ booked \subseteq 1..Len(made) /\ booked \cap Attempts = {}
    /\ record \in [Deposits -> {"none", "prepared", "completed"}]
    /\ floats \in Nat
    /\ \A n \in funding : n.id \in Int /\ n.id > -floats /\ (n.id >= 1 => n.id \in booked)
    /\ OnChain \subseteq booked \cup Attempts
    /\ \A k \in booked : made[k].ids \subseteq Earlier /\ made[k].inputs \cap funding = {}
    /\ \A j, k \in booked : j # k => made[j].ids \cap made[k].ids = {} /\ made[j].inputs \cap made[k].inputs = {}
    /\ \A k \in held \ (booked \cup Attempts) : RuledOut(k)

\* The adapter call under the lock: what each place of it knows of the journal, and in a chunk what of the
\* batch is paid.
WorkSound ==
    /\ work \in Work
    /\ holder # Nobody => holder \in Caller /\ call[holder].status = "waiting"
    /\ work.at \in {"post", "await", "broadcast"} => journal # <<>>
    /\ work.at = "post" => Relayed /\ Last.attempted /\ (~work.was => Last.proof \notin held)
    /\ work.at = "await" => work.watched \in Attempts
    /\ work.at = "broadcast" => ~Relayed /\ Last.proof \notin held \cup failed
    /\ work.at = "ready" /\ work.stage # "fund" => journal = <<>>
    /\ work.at = "paid" => journal = <<>> /\ work.stage = "chunk" /\ Chunk \subseteq Earlier
    /\ work.stage = "chunk" =>
        /\ holder # Nobody /\ BatchOf(holder) \subseteq Earlier \cup work.todo
        /\ work.at \in {"reconcile", "post", "await", "broadcast"} => journal # <<>> /\ Paid = Chunk
        /\ (work.todo \ (IF work.at = "paid" THEN Chunk ELSE {})) \cap Earlier = {}
        /\ work.at = "ready" /\ ~work.submitted => BatchOf(holder) \cap Earlier = {}

\* A proof of which nothing can come any more.
Dead(k) == k \notin held \cup OnChain \cup Attempts

Batched(r) == {r.batch[i] : i \in 1..Len(r.batch)}

TrueVerdict(r) ==
    /\ r.seen <= Len(made)
    /\ r.verdict = "ok" => Batched(r) \subseteq Earlier
    /\ r.verdict = "free" /\ r.from # "fund" =>
            \A k \in 1..r.seen : made[k].ids \cap Batched(r) # {} => Dead(k)

CallsSound == call \in [Caller -> Call] /\ \A c \in Caller : TrueVerdict(call[c])

Ledger == submission \in {"relayer", "operator"} /\ ProofsMade /\ ChainSound /\ JournalSound /\ BooksSound
AggInv == Ledger /\ WorkSound /\ CallsSound

-----------------------------------------------------------------------------
(* Sequences that grow, and the last attempt. *)

LEMMA Appended ==
    ASSUME NEW s, s \in Seq({s[i] : i \in 1..Len(s)}), NEW x, NEW t, t = Append(s, x)
    PROVE  /\ t \in Seq({t[i] : i \in 1..Len(t)}) /\ Len(s) \in Nat /\ Len(t) = Len(s) + 1
           /\ t[Len(s) + 1] = x /\ \A i \in 1..Len(s) : t[i] = s[i]
<1> DEFINE S == {s[i] : i \in 1..Len(s)} \cup {x}
<1>0. Len(s) \in Nat BY LenProperties
<1>1. s \in Seq(S)
  <2>1. \A A, B : A \subseteq B => Seq(A) \subseteq Seq(B) OBVIOUS
  <2> QED BY <2>1
<1>2. x \in S OBVIOUS
<1> HIDE DEF S
<1>3. t \in Seq(S) /\ Len(t) = Len(s) + 1 /\ t[Len(s) + 1] = x /\ \A i \in 1..Len(s) : t[i] = s[i]
  BY <1>1, <1>2, AppendProperties
<1>4. t \in Seq({t[i] : i \in 1..Len(t)})
  <2>1. t \in [1..Len(t) -> S] BY <1>3, LenProperties
  <2>2. t \in [1..Len(t) -> {t[i] : i \in 1..Len(t)}] BY <2>1
  <2>3. Len(t) \in Nat BY <1>3, LenProperties
  <2>4. \A T, f, n : n \in Nat /\ f \in [1..n -> T] => f \in Seq(T) OBVIOUS
  <2> QED BY <2>2, <2>3, <2>4
<1> QED BY <1>0, <1>3, <1>4

\* The last attempt is one of the attempts.
LEMMA LastAttempt ==
    ASSUME JournalSound, journal # <<>>
    PROVE  /\ Len(journal) \in Nat \ {0} /\ Len(journal) \in 1..Len(journal)
           /\ Last \in Attempt /\ Last.proof \in Attempts /\ Last.proof \in 1..Len(made)
           /\ \A k \in Attempts : /\ k \in 1..Len(made) /\ made[k].inputs \subseteq funding
                                  /\ made[k].inputs = Inputs /\ made[k].ids = Paid
           /\ Paid \cap Earlier = {}
<1>1. journal \in Seq(Attempt) BY DEF JournalSound
<1>2. Len(journal) \in Nat \ {0} BY <1>1, EmptySeq, LenProperties
<1>3. Len(journal) \in 1..Len(journal) BY <1>2
<1>4. Last \in Attempt BY <1>1, <1>3, ElementOfSeq DEF Last
<1>5. Last.proof \in Attempts BY <1>3 DEF Last, Attempts
<1>6. \A k \in Attempts : /\ k \in 1..Len(made) /\ made[k].inputs \subseteq funding
                          /\ made[k].inputs = Inputs /\ made[k].ids = Paid
  BY <1>3 DEF JournalSound, Attempts, Inputs, Paid, Last
<1>7. Paid \cap Earlier = {} BY <1>3 DEF JournalSound, Paid, Last
<1> QED BY <1>2, <1>3, <1>4, <1>5, <1>6, <1>7

LEMMA AttemptsInMade == ASSUME JournalSound PROVE Attempts \subseteq 1..Len(made)
  BY DEF JournalSound, Attempts

LEMMA FinalOnChain == ASSUME ChainSound PROVE Finalized \subseteq OnChain
<1>1. Len(landed) \in Nat BY LenProperties DEF ChainSound
<1>2. 1..final \subseteq 1..Len(landed) BY <1>1 DEF ChainSound
<1> QED BY <1>2 DEF Finalized, OnChain

\* On chain, no two proofs spend a note in common.
LEMMA NoneSpentTwice ==
    ASSUME ChainSound, NEW j \in OnChain, NEW k \in OnChain, j # k
    PROVE  made[j].inputs \cap made[k].inputs = {}
  BY DEF ChainSound, OnChain

-----------------------------------------------------------------------------
(* What the chain does. *)

\* A proof lands that a carrier holds: by itself, or with the operator's own transaction.
LEMMA Lands ==
    ASSUME Ledger, NEW k \in 1..Len(made), k \notin failed, k \notin OnChain,
           \A n \in made[k].inputs : n \notin Spent,
           landed' = Append(landed, k), held' = held \cup {k}, UNCHANGED <<made, failed, final>>
    PROVE  ChainSound' /\ OnChain' = OnChain \cup {k} /\ Finalized' = Finalized
<1>0. ChainSound BY DEF Ledger
<1>1. landed \in Seq(1..Len(made)) /\ Len(landed) \in Nat /\ final \in 0..Len(landed)
  BY <1>0, LenProperties DEF ChainSound
<1>2. /\ landed' \in Seq(1..Len(made)) /\ Len(landed') = Len(landed) + 1 /\ landed'[Len(landed) + 1] = k
      /\ \A i \in 1..Len(landed) : landed'[i] = landed[i]
  BY <1>1, AppendProperties
<1>3. \A i \in 1..Len(landed') : i \in 1..Len(landed) \/ i = Len(landed) + 1 BY <1>1, <1>2
<1>4. 1..Len(landed) \subseteq 1..Len(landed') /\ Len(landed) + 1 \in 1..Len(landed') BY <1>1, <1>2
<1>5. OnChain' = OnChain \cup {k} BY <1>2, <1>3, <1>4 DEF OnChain
<1>6. Finalized' = Finalized
  <2>1. 1..final \subseteq 1..Len(landed) BY <1>1
  <2> QED BY <2>1, <1>2 DEF Finalized
<1>7. \A i \in 1..Len(landed) : made[landed[i]].inputs \cap made[k].inputs = {} BY DEF Spent, OnChain
<1>8. ASSUME NEW i \in 1..Len(landed'), NEW j \in 1..Len(landed'), i # j
      PROVE  made[landed'[i]].inputs \cap made[landed'[j]].inputs = {}
  <2>1. CASE i \in 1..Len(landed) /\ j \in 1..Len(landed) BY <2>1, <1>0, <1>2, <1>8 DEF ChainSound
  <2>2. CASE i = Len(landed) + 1 /\ j \in 1..Len(landed) BY <2>2, <1>2, <1>7
  <2>3. CASE j = Len(landed) + 1 /\ i \in 1..Len(landed) BY <2>3, <1>2, <1>7
  <2> QED BY <2>1, <2>2, <2>3, <1>3, <1>8
<1>9. final' \in 0..Len(landed') BY <1>1, <1>2
<1> QED BY <1>0, <1>2, <1>5, <1>6, <1>8, <1>9 DEF ChainSound

-----------------------------------------------------------------------------
(* What a step leaves to the calls, and what the promise sees of it. *)

\* Nothing recorded is taken back, no proof is changed, and what is dead stays dead.
Kept ==
    /\ Earlier \subseteq Earlier' /\ Len(made) <= Len(made')
    /\ \A k \in 1..Len(made) : made'[k] = made[k] /\ (Dead(k) => Dead(k)')

PaidOn   == [d \in Deposits |-> Cardinality({k \in OnChain : d \in made[k].ids})]
Quiet    == PaidOn' = PaidOn /\ Earlier' = Earlier
Promised == Quiet \/ Promise!Next

LEMMA QuietStep ==
    ASSUME OnChain' = OnChain, \A k \in OnChain : made'[k] = made[k], Earlier' = Earlier
    PROVE  Quiet
<1>1. ASSUME NEW d \in Deposits PROVE {k \in OnChain : d \in made[k].ids}' = {k \in OnChain : d \in made[k].ids}
  OBVIOUS
<1>2. PaidOn' = PaidOn BY <1>1 DEF PaidOn
<1> QED BY <1>2 DEF Quiet

\* No allocation is paid by two proofs on chain: two booked proofs share none, attempts compete, and what an
\* attempt pays is not recorded.
LEMMA PaidOnce ==
    ASSUME Ledger, NEW j \in OnChain, NEW k \in OnChain, NEW d, d \in made[j].ids, d \in made[k].ids
    PROVE  j = k
<1> SUFFICES ASSUME j # k PROVE FALSE
  OBVIOUS
<1>1. JournalSound /\ BooksSound /\ ChainSound /\ ProofsMade BY DEF Ledger
<1>2. j \in booked \cup Attempts /\ k \in booked \cup Attempts BY <1>1 DEF BooksSound
<1>3. \A i \in Attempts : made[i].ids \cap Earlier = {} BY <1>1 DEF JournalSound, Attempts
<1>4. \A i \in booked : made[i].ids \subseteq Earlier BY <1>1 DEF BooksSound
<1>5. CASE j \in booked /\ k \in booked BY <1>1, <1>5 DEF BooksSound
<1>6. CASE j \in Attempts /\ k \in Attempts
  <2>1. made[j].inputs = made[k].inputs BY <1>1, <1>6 DEF JournalSound, Attempts
  <2>2. made[j].inputs # {}
    BY <1>1, <1>6, AttemptsInMade DEF ProofsMade
  <2> QED BY <1>1, <2>1, <2>2, NoneSpentTwice
<1> QED BY <1>2, <1>3, <1>4, <1>5, <1>6

LEMMA PaidOnChain ==
    ASSUME Ledger, NEW d \in Deposits
    PROVE  /\ \A k \in OnChain : d \in made[k].ids => {j \in OnChain : d \in made[j].ids} = {k} /\ PaidOn[d] = 1
           /\ (\A k \in OnChain : d \notin made[k].ids) => PaidOn[d] = 0
<1>1. ASSUME NEW k \in OnChain, d \in made[k].ids
      PROVE  {j \in OnChain : d \in made[j].ids} = {k} /\ PaidOn[d] = 1
  <2>1. {j \in OnChain : d \in made[j].ids} = {k} BY <1>1, PaidOnce
  <2>2. Cardinality({k}) = 1 BY FS_Singleton
  <2> QED BY <2>1, <2>2 DEF PaidOn
<1>2. ASSUME \A k \in OnChain : d \notin made[k].ids PROVE PaidOn[d] = 0
  <2>1. {j \in OnChain : d \in made[j].ids} = {} BY <1>2
  <2> QED BY <2>1, FS_EmptySet DEF PaidOn
<1> QED BY <1>1, <1>2

-----------------------------------------------------------------------------
(* What the steps of the bridge do to the ledger. *)

LEMMA Still ==
    ASSUME Ledger, UNCHANGED <<made, held, failed, landed, final, submission, funding, journal, record, floats, booked>>
    PROVE  Ledger' /\ Kept /\ Quiet /\ Attempts' = Attempts
<1>1. OnChain' = OnChain /\ Finalized' = Finalized /\ Earlier' = Earlier /\ Attempts' = Attempts
  BY DEF OnChain, Finalized, Earlier, Attempts
<1>2. ProofsMade' BY DEF Ledger, ProofsMade
<1>3. ChainSound' BY <1>1 DEF Ledger, ChainSound
<1>4. JournalSound' BY <1>1 DEF Ledger, JournalSound, Relayed
<1>5. BooksSound'
  <2>1. \A k \in held \ (booked \cup Attempts) : RuledOut(k) BY DEF Ledger, BooksSound
  <2>2. \A k \in held' \ (booked' \cup Attempts') : RuledOut(k)' BY <1>1, <2>1 DEF RuledOut
  <2> QED BY <1>1, <2>2 DEF Ledger, BooksSound
<1>6. Kept
  <2>1. Len(made) \in Nat BY LenProperties DEF Ledger, ProofsMade
  <2> QED BY <1>1, <2>1 DEF Kept, Dead
<1>7. Quiet BY <1>1, QuietStep
<1> QED BY <1>1, <1>2, <1>3, <1>4, <1>5, <1>6, <1>7 DEF Ledger

\* The last attempt is marked or remembers a request; it may be sent with the same step.
LEMMA Marked ==
    ASSUME Ledger, journal # <<>>, NEW a \in Attempt, a.proof = Last.proof, a.request \in Attempts \cup {0},
           Relayed /\ ~a.attempted => a.proof \notin held',
           journal' = [journal EXCEPT ![Len(journal)] = a],
           held \subseteq held', held' \subseteq held \cup {Last.proof}, failed' \subseteq failed, held' \cap failed' = {},
           UNCHANGED <<made, landed, final, submission, funding, record, floats, booked>>
    PROVE  /\ Ledger' /\ Kept /\ Quiet /\ Attempts' = Attempts
           /\ journal' # <<>> /\ Last' = a /\ Paid' = Paid
<1>0. JournalSound /\ BooksSound /\ ChainSound /\ ProofsMade /\ submission \in {"relayer", "operator"} BY DEF Ledger
<1> DEFINE n == Len(journal)
<1>1. n \in Nat \ {0} /\ n \in 1..n /\ Last.proof \in Attempts /\ Last.proof \in 1..Len(made) /\ journal \in Seq(Attempt)
  BY <1>0, LastAttempt DEF JournalSound
<1>2. /\ journal' \in Seq(Attempt) /\ Len(journal') = n /\ journal'[n] = a
      /\ \A i \in 1..n : i # n => journal'[i] = journal[i]
  BY <1>1, ExceptSeq
<1>3. \A i \in 1..n : journal'[i].proof = journal[i].proof BY <1>2 DEF Last
<1>4. Attempts' = Attempts
  <2>1. Attempts' = {journal'[i].proof : i \in 1..n} BY <1>2 DEF Attempts
  <2>2. Attempts = {journal[i].proof : i \in 1..n} BY DEF Attempts
  <2> HIDE DEF n
  <2>3. {journal'[i].proof : i \in 1..n} = {journal[i].proof : i \in 1..n} BY <1>3
  <2> QED BY <2>1, <2>2, <2>3
<1>5. OnChain' = OnChain /\ Finalized' = Finalized /\ Earlier' = Earlier
  BY DEF OnChain, Finalized, Earlier
<1>6. ProofsMade' BY <1>0 DEF ProofsMade
<1>7. ChainSound' BY <1>0, <1>1, <1>5 DEF ChainSound
<1>8. JournalSound'
  <2>1. ASSUME NEW i \in 1..n
        PROVE  /\ journal'[i].proof \in 1..Len(made')
               /\ made'[journal'[i].proof].inputs \subseteq funding'
               /\ made'[journal'[i].proof].ids \cap Earlier' = {}
    BY <1>0, <1>3, <1>5 DEF JournalSound
  <2>2. ASSUME NEW i \in 1..n, journal'[i].request # 0
        PROVE  \E j \in 1..i : journal'[j].proof = journal'[i].request
    <3>0. 1..i \subseteq 1..n BY <1>1
    <3>1. CASE i = n
      <4>1. a.request \in Attempts BY <2>2, <3>1, <1>2
      <4> QED BY <4>1, <3>1, <1>2, <1>3 DEF Attempts
    <3>2. CASE i # n
      <4>1. PICK j \in 1..i : journal[j].proof = journal[i].request BY <2>2, <3>2, <1>0, <1>2 DEF JournalSound
      <4>2. journal'[j].proof = journal[j].proof /\ journal'[i] = journal[i] BY <1>2, <1>3, <3>0, <3>2
      <4> QED BY <4>1, <4>2
    <3> QED BY <3>1, <3>2
  <2>3. ASSUME NEW i \in 1..n, Relayed', ~journal'[i].attempted PROVE journal'[i].proof \notin held'
    <3>0. Relayed BY <2>3 DEF Relayed
    <3>1. CASE i = n BY <2>3, <3>0, <3>1, <1>2
    <3>2. CASE i # n
      <4>1. journal'[i] = journal[i] /\ journal[i].proof \notin held BY <2>3, <3>0, <3>2, <1>0, <1>2 DEF JournalSound
      <4>2. journal[i].proof # Last.proof BY <3>2, <1>0, <1>1 DEF JournalSound, Last
      <4> QED BY <4>1, <4>2
    <3> QED BY <3>1, <3>2
  <2>4. ASSUME NEW i \in 1..n, NEW j \in 1..n
        PROVE  /\ made'[journal'[i].proof].inputs = made'[journal'[j].proof].inputs
               /\ made'[journal'[i].proof].ids = made'[journal'[j].proof].ids
               /\ i # j => journal'[i].proof # journal'[j].proof
    BY <1>0, <1>3 DEF JournalSound
  <2>5. Len(journal') = n /\ journal' \in Seq(Attempt) BY <1>2
  <2> HIDE DEF n
  <2>6. \A i \in 1..Len(journal') :
            /\ journal'[i].proof \in 1..Len(made')
            /\ made'[journal'[i].proof].inputs \subseteq funding'
            /\ made'[journal'[i].proof].ids \cap Earlier' = {}
            /\ journal'[i].request # 0 => \E j \in 1..i : journal'[j].proof = journal'[i].request
            /\ Relayed' /\ ~journal'[i].attempted => journal'[i].proof \notin held'
    BY <2>1, <2>2, <2>3, <2>5
  <2>7. \A i, j \in 1..Len(journal') :
            /\ made'[journal'[i].proof].inputs = made'[journal'[j].proof].inputs
            /\ made'[journal'[i].proof].ids = made'[journal'[j].proof].ids
            /\ i # j => journal'[i].proof # journal'[j].proof
    BY <2>4, <2>5
  <2> QED BY <2>5, <2>6, <2>7 DEF JournalSound
<1>9. BooksSound'
  <2>1. ASSUME NEW k \in held' \ (booked' \cup Attempts') PROVE RuledOut(k)'
    <3>1. k \in held \ (booked \cup Attempts) BY <2>1, <1>1, <1>4
    <3>2. RuledOut(k) BY <3>1, <1>0 DEF BooksSound
    <3> QED BY <3>2, <1>5 DEF RuledOut
  <2> QED BY <1>0, <1>4, <1>5, <2>1 DEF BooksSound
<1>10. Kept
  <2>1. Len(made) \in Nat BY LenProperties, <1>0 DEF ProofsMade
  <2>2. \A k \in 1..Len(made) : Dead(k) => Dead(k)' BY <1>1, <1>4, <1>5 DEF Dead
  <2> QED BY <1>5, <2>1, <2>2 DEF Kept
<1>11. Quiet BY <1>5, QuietStep
<1>12. Last' = a BY <1>2 DEF Last
<1>13. Paid' = Paid
  <2>1. Paid' = made'[Last'.proof].ids BY DEF Paid
  <2> QED BY <2>1, <1>12 DEF Paid
<1>14. journal' # <<>> BY <1>1, <1>2, EmptySeq
<1> QED BY <1>0, <1>4, <1>6, <1>7, <1>8, <1>9, <1>10, <1>11, <1>12, <1>13, <1>14 DEF Ledger

\* A proof that is booked or journalled pays only what nothing on chain pays.
LEMMA PaysUnpaid ==
    ASSUME Ledger, NEW k \in booked \cup Attempts, k \notin OnChain, \A n \in made[k].inputs : n \notin Spent,
           NEW j \in OnChain, NEW d, d \in made[k].ids
    PROVE  d \notin made[j].ids
<1> SUFFICES ASSUME d \in made[j].ids PROVE FALSE
  OBVIOUS
<1>1. JournalSound /\ BooksSound /\ ProofsMade BY DEF Ledger
<1>2. j \in booked \cup Attempts /\ j # k BY <1>1 DEF BooksSound
<1>3. \A i \in Attempts : made[i].ids \cap Earlier = {} BY <1>1 DEF JournalSound, Attempts
<1>4. \A i \in booked : made[i].ids \subseteq Earlier BY <1>1 DEF BooksSound
<1>5. CASE j \in booked /\ k \in booked BY <1>1, <1>2, <1>5 DEF BooksSound
<1>6. CASE j \in Attempts /\ k \in Attempts
  <2>1. made[j].inputs = made[k].inputs BY <1>1, <1>6 DEF JournalSound, Attempts
  <2>2. made[k].inputs # {} BY <1>1, <1>6, AttemptsInMade DEF ProofsMade
  <2>3. made[j].inputs \subseteq Spent BY DEF Spent
  <2> QED BY <2>1, <2>2, <2>3
<1> QED BY <1>2, <1>3, <1>4, <1>5, <1>6

\* The allocations of a proof that lands are paid with it.
LEMMA LandingPays ==
    ASSUME Ledger, NEW k \in booked \cup Attempts, k \notin OnChain, \A n \in made[k].inputs : n \notin Spent,
           OnChain' = OnChain \cup {k}, UNCHANGED made
    PROVE  /\ made[k].ids \in SUBSET Deposits
           /\ \A d \in made[k].ids : PaidOn[d] = 0
           /\ PaidOn' = [d \in Deposits |-> IF d \in made[k].ids THEN PaidOn[d] + 1 ELSE PaidOn[d]]
<1>1. k \in 1..Len(made) BY AttemptsInMade DEF Ledger, BooksSound
<1>2. made[k].ids \in SUBSET Deposits BY <1>1 DEF Ledger, ProofsMade
<1>3. ASSUME NEW d \in made[k].ids PROVE PaidOn[d] = 0
  BY <1>2, <1>3, PaysUnpaid, PaidOnChain
<1>4. ASSUME NEW d \in Deposits
      PROVE  Cardinality({j \in OnChain' : d \in made'[j].ids}) = IF d \in made[k].ids THEN PaidOn[d] + 1 ELSE PaidOn[d]
  <2>1. CASE d \in made[k].ids
    <3>1. {j \in OnChain' : d \in made'[j].ids} = {k} BY <2>1, PaysUnpaid
    <3>2. Cardinality({j \in OnChain' : d \in made'[j].ids}) = 1 BY <3>1, FS_Singleton
    <3>3. PaidOn[d] = 0 BY <2>1, <1>3
    <3>4. PaidOn[d] + 1 = 1 BY <3>3
    <3> QED BY <3>2, <3>4, <2>1
  <2>2. CASE d \notin made[k].ids
    <3>1. {j \in OnChain' : d \in made'[j].ids} = {j \in OnChain : d \in made[j].ids} BY <2>2
    <3> QED BY <3>1, <2>2 DEF PaidOn
  <2> QED BY <2>1, <2>2
<1>5. PaidOn' = [d \in Deposits |-> IF d \in made[k].ids THEN PaidOn[d] + 1 ELSE PaidOn[d]]
  BY <1>4 DEF PaidOn
<1> QED BY <1>2, <1>3, <1>5

LEMMA Landing ==
    ASSUME Ledger, NEW k \in booked \cup Attempts, k \in held \/ (~Relayed /\ k \in Attempts),
           k \notin failed, k \notin OnChain, \A n \in made[k].inputs : n \notin Spent,
           landed' = Append(landed, k), held' = held \cup {k},
           UNCHANGED <<made, failed, final, submission, funding, journal, record, floats, booked>>
    PROVE  Ledger' /\ Kept /\ Promise!Next /\ Attempts' = Attempts
<1>0. JournalSound /\ BooksSound /\ ChainSound /\ ProofsMade /\ submission \in {"relayer", "operator"} BY DEF Ledger
<1>1. k \in 1..Len(made) BY <1>0, AttemptsInMade DEF BooksSound
<1>2. ChainSound' /\ OnChain' = OnChain \cup {k} /\ Finalized' = Finalized BY <1>1, Lands
<1>3. Earlier' = Earlier /\ Attempts' = Attempts BY DEF Earlier, Attempts
<1>4. ProofsMade' BY <1>0 DEF ProofsMade
<1>5. JournalSound'
  <2>1. ASSUME NEW i \in 1..Len(journal), Relayed, ~journal[i].attempted PROVE journal[i].proof \notin held'
    BY <2>1, <1>0 DEF JournalSound
  <2> QED BY <2>1, <1>0, <1>3 DEF JournalSound, Relayed
<1>6. BooksSound'
  <2>1. ASSUME NEW j \in held' \ (booked' \cup Attempts') PROVE RuledOut(j)'
    <3>1. j \in held \ (booked \cup Attempts) BY <2>1, <1>3
    <3>2. RuledOut(j) BY <3>1, <1>0 DEF BooksSound
    <3> QED BY <3>2, <1>2 DEF RuledOut
  <2> QED BY <1>0, <1>2, <1>3, <2>1 DEF BooksSound
<1>7. Kept
  <2>1. Len(made) \in Nat BY LenProperties, <1>0 DEF ProofsMade
  <2>2. \A j \in 1..Len(made) : Dead(j) => Dead(j)' BY <1>2, <1>3 DEF Dead
  <2> QED BY <1>3, <2>1, <2>2 DEF Kept
<1>8. Promise!Pay(made[k].ids)
  BY <1>2, <1>3, LandingPays DEF Promise!Pay, Promise!PaidWith, PaidOn, Earlier
<1>9. Promise!Next BY <1>8, LandingPays, <1>2 DEF Promise!Next
<1> QED BY <1>0, <1>2, <1>3, <1>4, <1>5, <1>6, <1>7, <1>9 DEF Ledger

\* The chain or a carrier takes something back, or what is on chain becomes final.
LEMMA Receding ==
    ASSUME Ledger, ChainSound', UNCHANGED <<made, submission, funding, journal, record, floats, booked>>,
           held' \subseteq held, OnChain' \subseteq OnChain, Finalized \subseteq Finalized'
    PROVE  Ledger' /\ Kept /\ Earlier' = Earlier /\ Attempts' = Attempts
<1>0. JournalSound /\ BooksSound /\ ProofsMade /\ submission \in {"relayer", "operator"} BY DEF Ledger
<1>1. Earlier' = Earlier /\ Attempts' = Attempts BY DEF Earlier, Attempts
<1>2. ProofsMade' BY <1>0 DEF ProofsMade
<1>3. JournalSound' BY <1>0, <1>1 DEF JournalSound, Relayed
<1>4. BooksSound'
  <2>1. ASSUME NEW j \in held' \ (booked' \cup Attempts') PROVE RuledOut(j)'
    <3>1. RuledOut(j) BY <2>1, <1>0, <1>1 DEF BooksSound
    <3> QED BY <3>1 DEF RuledOut
  <2> QED BY <1>0, <1>1, <2>1 DEF BooksSound
<1>5. Kept
  <2>1. Len(made) \in Nat BY LenProperties, <1>0 DEF ProofsMade
  <2>2. \A j \in 1..Len(made) : Dead(j) => Dead(j)' BY <1>1 DEF Dead
  <2> QED BY <1>1, <2>1, <2>2 DEF Kept
<1> QED BY <1>0, <1>1, <1>2, <1>3, <1>4, <1>5 DEF Ledger

LEMMA ReorganiseKeepsLedger ==
    ASSUME Ledger, Reorganise, UNCHANGED <<submission, funding, journal, record, floats, booked>>
    PROVE  Ledger' /\ Kept /\ Promise!Next /\ Attempts' = Attempts
<1>0. ChainSound BY DEF Ledger
<1>1. /\ final < Len(landed) /\ landed' = SubSeq(landed, 1, Len(landed) - 1)
      /\ UNCHANGED <<made, held, failed, forgotten, final>>
  BY DEF Reorganise
<1>2. landed \in Seq(1..Len(made)) /\ Len(landed) \in Nat /\ final \in 0..Len(landed)
  BY <1>0, LenProperties DEF ChainSound
<1>3. PICK n : n = Len(landed) - 1 OBVIOUS
<1>4. n \in Nat /\ n + 1 \in 1..Len(landed) /\ n \in 0..Len(landed) /\ final \in 0..n BY <1>1, <1>2, <1>3
<1>5. landed' \in Seq(1..Len(made)) /\ Len(landed') = n /\ \A i \in 1..n : landed'[i] = landed[i]
  <2>1. landed' = SubSeq(landed, 1, n) BY <1>1, <1>3
  <2>2. landed \in Seq(1..Len(made)) /\ n \in 0..Len(landed) BY <1>2, <1>4
  <2> QED BY <2>1, <2>2
<1>6. \A i \in 1..Len(landed) : i \in 1..n \/ i = n + 1 BY <1>2, <1>3, <1>4
<1>7. \A i \in 1..n : i \in 1..Len(landed) /\ i # n + 1 BY <1>2, <1>3, <1>4
<1>8. PICK k : k = landed[n + 1] OBVIOUS
<1>9. k \in OnChain /\ OnChain = OnChain' \cup {k} /\ OnChain' \subseteq OnChain
  BY <1>4, <1>5, <1>6, <1>7, <1>8 DEF OnChain
<1>10. k \notin OnChain'
  <2>1. ASSUME NEW i \in 1..n, landed[i] = k PROVE FALSE
    <3>1. made[landed[i]].inputs \cap made[landed[n + 1]].inputs = {} BY <2>1, <1>0, <1>4, <1>7 DEF ChainSound
    <3>2. made[k].inputs = {} BY <3>1, <2>1, <1>8
    <3>3. k \in 1..Len(made) BY <1>0, <1>9 DEF ChainSound
    <3> QED BY <3>2, <3>3 DEF Ledger, ProofsMade
  <2> QED BY <2>1, <1>5 DEF OnChain
<1>11. Finalized' = Finalized
  <2>1. 1..final \subseteq 1..n BY <1>4
  <2> QED BY <2>1, <1>1, <1>5 DEF Finalized
<1>12. ChainSound'
  <2>1. \A i, j \in 1..n : i # j => made[landed'[i]].inputs \cap made[landed'[j]].inputs = {}
    BY <1>0, <1>5, <1>7 DEF ChainSound
  <2>2. /\ held \subseteq 1..Len(made) /\ failed \subseteq 1..Len(made)
        /\ OnChain' \subseteq held /\ held \cap failed = {}
    BY <1>0, <1>9 DEF ChainSound
  <2>3. landed' \in Seq(1..Len(made)) /\ Len(landed') = n /\ final' \in 0..Len(landed')
        /\ UNCHANGED <<made, held, failed>>
    BY <1>1, <1>4, <1>5
  <2> QED BY <2>1, <2>2, <2>3 DEF ChainSound
<1>13. Ledger' /\ Kept /\ Earlier' = Earlier /\ Attempts' = Attempts
  BY <1>1, <1>9, <1>11, <1>12, Receding
<1>14. k \in 1..Len(made) BY <1>0, <1>9 DEF ChainSound
<1>15. made[k].ids \in SUBSET Deposits BY <1>14 DEF Ledger, ProofsMade
<1>16. \A d \in made[k].ids : PaidOn[d] = 1 BY <1>9, <1>15, PaidOnChain
<1>17. ASSUME NEW d \in Deposits
       PROVE  Cardinality({j \in OnChain' : d \in made'[j].ids}) = IF d \in made[k].ids THEN 0 ELSE PaidOn[d]
  <2>1. CASE d \in made[k].ids
    <3>1. {j \in OnChain' : d \in made'[j].ids} = {} BY <2>1, <1>1, <1>9, <1>10, PaidOnce
    <3> QED BY <2>1, <3>1, FS_EmptySet
  <2>2. CASE d \notin made[k].ids
    <3>1. {j \in OnChain' : d \in made'[j].ids} = {j \in OnChain : d \in made[j].ids} BY <2>2, <1>1, <1>9
    <3> QED BY <2>2, <3>1 DEF PaidOn
  <2> QED BY <2>1, <2>2
<1>18. PaidOn' = [d \in Deposits |-> IF d \in made[k].ids THEN 0 ELSE PaidOn[d]] BY <1>17 DEF PaidOn
<1>19. Promise!Revert(made[k].ids) BY <1>13, <1>16, <1>18 DEF Promise!Revert, PaidOn, Earlier
<1>20. Promise!Next BY <1>15, <1>19 DEF Promise!Next
<1> QED BY <1>13, <1>20

\* A held proof may land only while the bridge knows it: one that is ruled out has its inputs spent.
LEMMA LandKeepsLedger ==
    ASSUME Ledger, NEW k \in Proof, Land(k), UNCHANGED <<submission, funding, journal, record, floats, booked>>
    PROVE  Ledger' /\ Kept /\ Promise!Next /\ Attempts' = Attempts
<1>1. /\ k \in held \ OnChain /\ \A n \in made[k].inputs : n \notin Spent
      /\ landed' = Append(landed, k) /\ UNCHANGED <<made, held, failed, forgotten, final, reorgs>>
  BY DEF Land
<1>2. held' = held \cup {k} /\ k \notin failed BY <1>1 DEF Ledger, ChainSound
<1>3. k \in booked \cup Attempts
  <2> SUFFICES ASSUME k \notin booked \cup Attempts PROVE FALSE
    OBVIOUS
  <2>1. PICK j \in booked \cap Finalized : made[j].inputs = made[k].inputs
    BY <1>1 DEF Ledger, BooksSound, RuledOut
  <2>2. made[k].inputs \subseteq Spent BY <2>1, FinalOnChain DEF Ledger, Spent
  <2>3. made[k].inputs # {} BY <1>1 DEF Ledger, ChainSound, ProofsMade
  <2> QED BY <1>1, <2>2, <2>3
<1> QED BY <1>1, <1>2, <1>3, Landing

LEMMA ChainKeepsLedger ==
    ASSUME Ledger, ChainStep, UNCHANGED <<submission, funding, journal, record, floats, booked>>
    PROVE  /\ Ledger' /\ Kept /\ Promised /\ Attempts' = Attempts
           /\ held' \subseteq held /\ held' \cup failed' \subseteq held \cup failed
<1>0. ChainSound /\ ProofsMade BY DEF Ledger
<1>1. ASSUME NEW k \in Proof, Land(k) PROVE held' = held /\ failed' = failed BY <1>1 DEF Land
<1>2. ASSUME NEW k \in Proof, Abandon(k)
      PROVE  Ledger' /\ Kept /\ Quiet /\ Attempts' = Attempts /\ held' \subseteq held /\ held' \cup failed' \subseteq held \cup failed
  <2>1. /\ k \in held \ OnChain /\ held' = held \ {k} /\ failed' = failed \cup {k}
        /\ UNCHANGED <<made, forgotten, landed, final, reorgs>>
    BY <1>2 DEF Abandon
  <2>2. OnChain' = OnChain /\ Finalized' = Finalized BY <2>1 DEF OnChain, Finalized
  <2>3. ChainSound' BY <1>0, <2>1, <2>2 DEF ChainSound
  <2>4. Ledger' /\ Kept /\ Earlier' = Earlier /\ Attempts' = Attempts BY <2>1, <2>2, <2>3, Receding
  <2> QED BY <2>1, <2>2, <2>4, QuietStep
<1>3. ASSUME NEW k \in Proof, Forget(k)
      PROVE  Ledger' /\ Kept /\ Quiet /\ Attempts' = Attempts /\ held' \subseteq held /\ held' \cup failed' \subseteq held \cup failed
  <2>1. UNCHANGED <<made, held, failed, landed, final>> BY <1>3 DEF Forget
  <2> QED BY <2>1, Still
<1>4. ASSUME Finalize
      PROVE  Ledger' /\ Kept /\ Quiet /\ Attempts' = Attempts /\ held' \subseteq held /\ held' \cup failed' \subseteq held \cup failed
  <2>1. final < Len(landed) /\ final' = final + 1 /\ UNCHANGED <<made, held, failed, forgotten, landed, reorgs>>
    BY <1>4 DEF Finalize
  <2>2. final \in 0..Len(landed) /\ Len(landed) \in Nat BY <1>0, LenProperties DEF ChainSound
  <2>3. final' \in 0..Len(landed) /\ 1..final \subseteq 1..final' BY <2>1, <2>2
  <2>4. OnChain' = OnChain /\ Finalized \subseteq Finalized' BY <2>1, <2>3 DEF OnChain, Finalized
  <2>5. ChainSound' BY <1>0, <2>1, <2>3, <2>4 DEF ChainSound
  <2>6. Ledger' /\ Kept /\ Earlier' = Earlier /\ Attempts' = Attempts BY <2>1, <2>4, <2>5, Receding
  <2> QED BY <2>1, <2>4, <2>6, QuietStep
<1>5. ASSUME Reorganise PROVE held' = held /\ failed' = failed BY <1>5 DEF Reorganise
<1> QED BY <1>1, <1>2, <1>3, <1>4, <1>5, LandKeepsLedger, ReorganiseKeepsLedger DEF ChainStep, Promised

\* An empty journal.
LEMMA NothingLeft ==
    ASSUME journal' = <<>>
    PROVE  Attempts' = {} /\ JournalSound'
<1>1. Len(journal') = 0 /\ journal' \in Seq(Attempt) BY EmptySeq
<1> QED BY <1>1 DEF Attempts, JournalSound

\* The winner is booked: it is on chain, and the others are over the same inputs.
LEMMA Booking ==
    ASSUME Ledger, NEW k \in Attempts, Book(k), ChainSound', UNCHANGED <<made, submission, floats>>,
           k \in OnChain', OnChain \subseteq OnChain', OnChain' \subseteq OnChain \cup {k},
           held' \subseteq held \cup {k}, Finalized' = Finalized,
           Len(journal) = 1 \/ k \in Finalized
    PROVE  Ledger' /\ Kept /\ Earlier' = Earlier \cup made[k].ids /\ journal' = <<>>
<1>0. JournalSound /\ BooksSound /\ ChainSound /\ ProofsMade /\ submission \in {"relayer", "operator"} BY DEF Ledger
<1>1. /\ funding' = (funding \ made[k].inputs) \cup {n \in {made[k].change} : n.amount > 0}
      /\ record' = [d \in Deposits |-> IF d \in made[k].ids THEN "completed" ELSE record[d]]
      /\ journal' = <<>> /\ booked' = booked \cup {k}
  BY DEF Book
<1>2. k \in 1..Len(made) /\ Len(made) \in Nat BY <1>0, AttemptsInMade, LenProperties DEF ProofsMade
<1>3. /\ k \notin booked /\ made[k].inputs \subseteq funding /\ made[k].ids \cap Earlier = {}
      /\ made[k].ids \subseteq Deposits /\ made[k].change.id = k
  BY <1>0, <1>2 DEF BooksSound, JournalSound, Attempts, ProofsMade
<1>4. record \in [Deposits -> {"none", "prepared", "completed"}] BY <1>0 DEF BooksSound
<1>5. Earlier' = Earlier \cup made[k].ids BY <1>1, <1>3, <1>4 DEF Earlier
<1>6. JournalSound' /\ Attempts' = {} BY <1>1, NothingLeft
<1>7. ProofsMade' BY <1>0, <1>1 DEF ProofsMade
<1>8. BooksSound'
  <2>1. booked' \subseteq 1..Len(made') /\ booked' \cap Attempts' = {} BY <1>0, <1>1, <1>2, <1>6 DEF BooksSound
  <2>2. record' \in [Deposits -> {"none", "prepared", "completed"}] BY <1>1, <1>4
  <2>3. ASSUME NEW n \in funding' PROVE n.id \in Int /\ n.id > -floats' /\ (n.id >= 1 => n.id \in booked')
    <3>1. CASE n \in funding BY <3>1, <1>0, <1>1 DEF BooksSound
    <3>2. CASE n = made[k].change
      <4>1. n.id = k /\ floats \in Nat /\ floats' = floats BY <3>2, <1>0, <1>3 DEF BooksSound
      <4> QED BY <4>1, <1>1, <1>2
    <3> QED BY <2>3, <3>1, <3>2, <1>1
  <2>4. OnChain' \subseteq booked' \cup Attempts'
    <3>1. ASSUME NEW j \in Attempts, j \in OnChain', j # k PROVE FALSE
      <4>1. made[j].inputs \cap made[k].inputs = {} BY <3>1 DEF ChainSound, OnChain
      <4>2. made[j].inputs = made[k].inputs BY <1>0 DEF JournalSound, Attempts
      <4> QED BY <4>1, <4>2, <1>0, <1>2 DEF ProofsMade
    <3> QED BY <3>1, <1>0, <1>1 DEF BooksSound
  <2>5. ASSUME NEW j \in booked' PROVE made'[j].ids \subseteq Earlier' /\ made'[j].inputs \cap funding' = {}
    <3>1. made[k].change \notin made[j].inputs
      <4>1. j \in 1..Len(made) BY <2>1, <2>5
      <4>2. made[k].change \in made[j].inputs => k \in booked BY <4>1, <1>0, <1>2, <1>3 DEF ProofsMade
      <4> QED BY <4>2, <1>3
    <3>2. CASE j \in booked BY <3>1, <3>2, <1>0, <1>1, <1>5 DEF BooksSound
    <3>3. CASE j = k BY <3>1, <3>3, <1>1, <1>5
    <3> QED BY <2>5, <3>2, <3>3, <1>1
  <2>6. ASSUME NEW i \in booked', NEW j \in booked', i # j
        PROVE  made'[i].ids \cap made'[j].ids = {} /\ made'[i].inputs \cap made'[j].inputs = {}
    <3>1. \A l \in booked : made[l].ids \cap made[k].ids = {} /\ made[l].inputs \cap made[k].inputs = {}
      BY <1>0, <1>3 DEF BooksSound
    <3> QED BY <2>6, <3>1, <1>0, <1>1 DEF BooksSound
  <2>7. ASSUME NEW j \in held' \ (booked' \cup Attempts') PROVE RuledOut(j)'
    <3>1. j \in held /\ j \notin booked /\ j # k BY <2>7, <1>1
    <3>2. CASE j \in Attempts
      <4>1. made[j].inputs = made[k].inputs /\ made[j].ids = made[k].ids BY <3>2, <1>0 DEF JournalSound, Attempts
      <4>2. Len(journal) # 1
        <5>1. \A i, l \in 1..1 : i = l OBVIOUS
        <5> QED BY <5>1, <3>1, <3>2 DEF Attempts
      <4>3. k \in booked' \cap Finalized' BY <4>2, <1>1
      <4> QED BY <4>1, <4>3 DEF RuledOut
    <3>3. CASE j \notin Attempts
      <4>1. RuledOut(j) BY <3>1, <3>3, <1>0 DEF BooksSound
      <4> QED BY <4>1, <1>1 DEF RuledOut
    <3> QED BY <3>2, <3>3
  <2>8. floats' \in Nat BY <1>0 DEF BooksSound
  <2> QED BY <2>1, <2>2, <2>3, <2>4, <2>5, <2>6, <2>7, <2>8 DEF BooksSound
<1>9. Kept
  <2>1. \A j \in 1..Len(made) : Dead(j) => Dead(j)' BY <1>6 DEF Dead
  <2> QED BY <1>2, <1>5, <2>1 DEF Kept
<1> QED BY <1>0, <1>1, <1>5, <1>6, <1>7, <1>8, <1>9 DEF Ledger

\* Booking what the chain already shows: the promise sees its allocations recorded.
LEMMA BookingCompletes ==
    ASSUME Ledger, NEW k \in Attempts, k \in OnChain, Book(k), Settleable(k),
           UNCHANGED <<made, held, failed, landed, final, submission, floats>>
    PROVE  Ledger' /\ Kept /\ Promise!Next /\ Earlier' = Earlier \cup made[k].ids /\ journal' = <<>>
<1>1. OnChain' = OnChain /\ Finalized' = Finalized BY DEF OnChain, Finalized
<1>2. ChainSound' BY <1>1 DEF Ledger, ChainSound
<1>3. Ledger' /\ Kept /\ Earlier' = Earlier \cup made[k].ids /\ journal' = <<>>
  BY <1>1, <1>2, Booking DEF Settleable
<1>4. made[k].ids \in SUBSET Deposits BY AttemptsInMade DEF Ledger, ProofsMade
<1>5. \A d \in made[k].ids : PaidOn[d] = 1 BY <1>4, PaidOnChain
<1>6. PaidOn' = PaidOn
  <2>1. ASSUME NEW d \in Deposits PROVE {j \in OnChain : d \in made[j].ids}' = {j \in OnChain : d \in made[j].ids}
    BY <1>1
  <2> QED BY <2>1 DEF PaidOn
<1>7. PICK S \in SUBSET Deposits : S = made[k].ids BY <1>4
<1>8. Promise!Complete(S) BY <1>3, <1>5, <1>6, <1>7 DEF Promise!Complete, PaidOn, Earlier
<1>9. Promise!Next BY <1>7, <1>8 DEF Promise!Next
<1> QED BY <1>3, <1>9

\* The operator's transaction lands and is booked at once: paid and recorded in one step.
LEMMA ConfirmedBooking ==
    ASSUME Ledger, NEW k \in Attempts, k \notin held \cup failed, \A n \in made[k].inputs : n \notin Spent,
           landed' = Append(landed, k), held' = held \cup {k}, UNCHANGED <<made, failed, final, submission, floats>>,
           Len(journal) = 1, Book(k)
    PROVE  Ledger' /\ Kept /\ Promise!Next /\ Earlier' = Earlier \cup made[k].ids /\ journal' = <<>>
<1>1. k \in 1..Len(made) /\ k \notin OnChain BY AttemptsInMade DEF Ledger, ChainSound
<1>2. ChainSound' /\ OnChain' = OnChain \cup {k} /\ Finalized' = Finalized BY <1>1, Lands
<1>3. Ledger' /\ Kept /\ Earlier' = Earlier \cup made[k].ids /\ journal' = <<>> BY <1>2, Booking
<1>4. k \in booked \cup Attempts OBVIOUS
<1>5. /\ made[k].ids \in SUBSET Deposits
      /\ \A d \in made[k].ids : PaidOn[d] = 0
      /\ PaidOn' = [d \in Deposits |-> IF d \in made[k].ids THEN PaidOn[d] + 1 ELSE PaidOn[d]]
  BY <1>1, <1>2, <1>4, LandingPays
<1>6. PICK S \in SUBSET Deposits : S = made[k].ids BY <1>5
<1>7. Promise!PayAndComplete(S)
  BY <1>3, <1>5, <1>6 DEF Promise!PayAndComplete, Promise!PaidWith, PaidOn, Earlier
<1>8. Promise!Next BY <1>6, <1>7 DEF Promise!Next
<1> QED BY <1>3, <1>8

\* The only attempt is given up where it can no longer land: its inputs and allocations are free again.
LEMMA Releasing ==
    ASSUME Ledger, journal # <<>>, Len(journal) = 1, Last.proof \notin held, Release,
           UNCHANGED <<made, held, failed, landed, final, submission, floats>>
    PROVE  Ledger' /\ Kept /\ Quiet /\ journal' = <<>>
<1>0. JournalSound /\ BooksSound /\ ChainSound /\ ProofsMade /\ submission \in {"relayer", "operator"} BY DEF Ledger
<1>1. /\ record' = [d \in Deposits |-> IF d \in Paid THEN "none" ELSE record[d]]
      /\ journal' = <<>> /\ UNCHANGED <<funding, booked>>
  BY DEF Release
<1>2. Attempts = {Last.proof}
  <2>1. \A i : i \in 1..1 <=> i = 1 OBVIOUS
  <2> QED BY <2>1 DEF Attempts, Last
<1>3. Paid \cap Earlier = {} BY <1>0, LastAttempt
<1>4. record \in [Deposits -> {"none", "prepared", "completed"}] BY <1>0 DEF BooksSound
<1>5. Earlier' = Earlier BY <1>1, <1>3, <1>4 DEF Earlier
<1>6. OnChain' = OnChain /\ Finalized' = Finalized BY DEF OnChain, Finalized
<1>7. JournalSound' /\ Attempts' = {} BY <1>1, NothingLeft
<1>8. ProofsMade' BY <1>0, <1>1 DEF ProofsMade
<1>9. ChainSound' BY <1>0, <1>6 DEF ChainSound
<1>10. BooksSound'
  <2>1. record' \in [Deposits -> {"none", "prepared", "completed"}] BY <1>1, <1>4
  <2>2. OnChain' \subseteq booked' \cup Attempts' BY <1>0, <1>1, <1>2, <1>6 DEF BooksSound, ChainSound
  <2>3. ASSUME NEW j \in held' \ (booked' \cup Attempts') PROVE RuledOut(j)'
    <3>1. RuledOut(j) BY <2>3, <1>0, <1>1, <1>2 DEF BooksSound
    <3> QED BY <3>1, <1>1, <1>6 DEF RuledOut
  <2> QED BY <2>1, <2>2, <2>3, <1>0, <1>1, <1>5, <1>7 DEF BooksSound
<1>11. Kept
  <2>1. Len(made) \in Nat BY LenProperties, <1>0 DEF ProofsMade
  <2>2. \A j \in 1..Len(made) : Dead(j) => Dead(j)' BY <1>6, <1>7 DEF Dead
  <2> QED BY <1>5, <2>1, <2>2 DEF Kept
<1>12. Quiet BY <1>5, <1>6, QuietStep
<1> QED BY <1>0, <1>1, <1>7, <1>8, <1>9, <1>10, <1>11, <1>12 DEF Ledger

\* The last of several attempts is dropped where it was never sent.
LEMMA Dropping ==
    ASSUME Ledger, journal # <<>>, Len(journal) # 1, Last.proof \notin held,
           journal' = SubSeq(journal, 1, Len(journal) - 1),
           UNCHANGED <<made, held, failed, landed, final, submission, funding, record, floats, booked>>
    PROVE  Ledger' /\ Kept /\ Quiet /\ journal' # <<>> /\ Paid' = Paid
<1>0. JournalSound /\ BooksSound /\ ChainSound /\ ProofsMade /\ submission \in {"relayer", "operator"} BY DEF Ledger
<1>1. PICK n : n = Len(journal) - 1 OBVIOUS
<1>2. Len(journal) \in Nat \ {0} /\ journal \in Seq(Attempt) BY <1>0, LastAttempt DEF JournalSound
<1>3. n \in Nat \ {0} /\ n + 1 \in 1..Len(journal) /\ n \in 0..Len(journal) /\ Len(journal) = n + 1 BY <1>1, <1>2
<1>4. journal' \in Seq(Attempt) /\ Len(journal') = n /\ \A i \in 1..n : journal'[i] = journal[i]
  BY <1>1, <1>2, <1>3
<1>5. \A i \in 1..n : i \in 1..Len(journal) BY <1>3
<1>6. \A i \in 1..Len(journal) : i \in 1..n \/ i = Len(journal) BY <1>3
<1>7. Attempts = Attempts' \cup {Last.proof} /\ Attempts' \subseteq Attempts
  BY <1>3, <1>4, <1>5, <1>6 DEF Attempts, Last
<1>8. OnChain' = OnChain /\ Finalized' = Finalized /\ Earlier' = Earlier BY DEF OnChain, Finalized, Earlier
<1>9. ProofsMade' BY <1>0 DEF ProofsMade
<1>10. ChainSound' BY <1>0, <1>8 DEF ChainSound
<1>11. JournalSound'
  <2>1. ASSUME NEW i \in 1..n
        PROVE  /\ journal'[i].proof \in 1..Len(made')
               /\ made'[journal'[i].proof].inputs \subseteq funding'
               /\ made'[journal'[i].proof].ids \cap Earlier' = {}
               /\ Relayed' /\ ~journal'[i].attempted => journal'[i].proof \notin held'
    BY <1>0, <1>4, <1>5, <1>8 DEF JournalSound, Relayed
  <2>2. ASSUME NEW i \in 1..n
        PROVE  journal'[i].request # 0 => \E j \in 1..i : journal'[j].proof = journal'[i].request
    <3> SUFFICES ASSUME journal'[i].request # 0
                 PROVE  \E j \in 1..i : journal'[j].proof = journal'[i].request
      OBVIOUS
    <3>1. PICK j \in 1..i : journal[j].proof = journal[i].request BY <1>0, <1>4, <1>5 DEF JournalSound
    <3>2. j \in 1..n BY <1>3
    <3> QED BY <3>1, <3>2, <1>4
  <2>3. ASSUME NEW i \in 1..n, NEW j \in 1..n
        PROVE  /\ made'[journal'[i].proof].inputs = made'[journal'[j].proof].inputs
               /\ made'[journal'[i].proof].ids = made'[journal'[j].proof].ids
               /\ i # j => journal'[i].proof # journal'[j].proof
    <3>1. /\ made[journal[i].proof].inputs = made[journal[j].proof].inputs
          /\ made[journal[i].proof].ids = made[journal[j].proof].ids
          /\ i # j => journal[i].proof # journal[j].proof
      BY <1>0, <1>4 DEF JournalSound
    <3> QED BY <3>1, <1>4, <1>5
  <2>4. journal' \in Seq(Attempt) /\ Len(journal') = n BY <1>4
  <2>5. \A i \in 1..Len(journal') :
            /\ journal'[i].proof \in 1..Len(made')
            /\ made'[journal'[i].proof].inputs \subseteq funding'
            /\ made'[journal'[i].proof].ids \cap Earlier' = {}
            /\ journal'[i].request # 0 => \E j \in 1..i : journal'[j].proof = journal'[i].request
            /\ Relayed' /\ ~journal'[i].attempted => journal'[i].proof \notin held'
    BY <2>1, <2>2, <2>4
  <2>6. \A i, j \in 1..Len(journal') :
            /\ made'[journal'[i].proof].inputs = made'[journal'[j].proof].inputs
            /\ made'[journal'[i].proof].ids = made'[journal'[j].proof].ids
            /\ i # j => journal'[i].proof # journal'[j].proof
    BY <2>3, <2>4
  <2> QED BY <2>4, <2>5, <2>6 DEF JournalSound
<1>12. BooksSound'
  <2>1. OnChain' \subseteq booked' \cup Attempts' BY <1>0, <1>7, <1>8 DEF BooksSound, ChainSound
  <2>2. ASSUME NEW j \in held' \ (booked' \cup Attempts') PROVE RuledOut(j)'
    <3>1. RuledOut(j) BY <2>2, <1>0, <1>7 DEF BooksSound
    <3> QED BY <3>1, <1>8 DEF RuledOut
  <2> QED BY <2>1, <2>2, <1>0, <1>7, <1>8 DEF BooksSound
<1>13. Kept
  <2>1. Len(made) \in Nat BY LenProperties, <1>0 DEF ProofsMade
  <2>2. \A j \in 1..Len(made) : Dead(j) => Dead(j)' BY <1>7, <1>8 DEF Dead
  <2> QED BY <1>8, <2>1, <2>2 DEF Kept
<1>14. Quiet BY <1>8, QuietStep
<1>15. journal' # <<>> BY <1>3, <1>4, EmptySeq
<1>16. Paid' = Paid
  <2>1. n \in 1..n /\ n \in 1..Len(journal) /\ Len(journal) \in 1..Len(journal) BY <1>3
  <2>2. Last' = journal[n] BY <2>1, <1>4 DEF Last
  <2>3. Paid' = made[journal[n].proof].ids BY <2>2 DEF Paid
  <2> QED BY <2>1, <2>3, <1>0 DEF JournalSound, Paid, Last
<1> QED BY <1>0, <1>9, <1>10, <1>11, <1>12, <1>13, <1>14, <1>15, <1>16 DEF Ledger

\* A new proof is journalled: the first over notes of the funding, or one more over the inputs of the others.
LEMMA Journalling ==
    ASSUME Ledger, NEW inputs, NEW ids, Journalled(inputs, ids),
           inputs # {}, inputs \subseteq funding, ids \subseteq Deposits, ids \cap Earlier = {},
           journal # <<>> => inputs = Inputs /\ ids = Paid,
           UNCHANGED <<held, failed, landed, final, submission, floats>>
    PROVE  /\ Ledger' /\ Kept /\ Quiet
           /\ journal' # <<>> /\ Paid' = ids /\ Last'.proof \notin held \cup failed
<1>0. JournalSound /\ BooksSound /\ ChainSound /\ ProofsMade /\ submission \in {"relayer", "operator"} BY DEF Ledger
<1>1. PICK p : p = [inputs |-> inputs, ids |-> ids,
                    change |-> [id |-> Len(made) + 1, amount |-> Value(inputs) - Cardinality(ids)]]
  OBVIOUS
<1>2. p.inputs = inputs /\ p.ids = ids /\ p.change.id = Len(made) + 1 BY <1>1
<1>3. PICK k : k = Len(made) + 1 OBVIOUS
<1>4. PICK a : a = Fresh(k) OBVIOUS
<1>5. /\ Len(made) < MaxProofs /\ made' = Append(made, p) /\ journal' = Append(journal, a)
      /\ record' = [d \in Deposits |-> IF d \in ids THEN "prepared" ELSE record[d]]
      /\ UNCHANGED <<funding, booked>>
  BY <1>1, <1>3, <1>4 DEF Journalled, Prove
<1>6. /\ made' \in Seq({made'[i] : i \in 1..Len(made')}) /\ Len(made) \in Nat /\ Len(made') = k
      /\ made'[k] = p /\ \A i \in 1..Len(made) : made'[i] = made[i]
  BY <1>0, <1>3, <1>5, Appended DEF ProofsMade
<1>7. MaxProofs \in Nat /\ MaxStalls \in Nat BY ChainAssumption, AggregationAssumption
<1>8. k \in Proof /\ k \notin 1..Len(made) /\ k <= MaxProofs /\ \A i \in 1..k : i \in 1..Len(made) \/ i = k
  BY <1>3, <1>5, <1>6, <1>7 DEF Proof
<1>9. 1..Len(made) \subseteq 1..k /\ k \in 1..k BY <1>3, <1>6
<1>10. a \in Attempt /\ a.proof = k /\ a.request = 0
  <2>1. 0 \in 0..MaxProofs /\ 0 \in 0..MaxStalls BY <1>7
  <2> QED BY <2>1, <1>4, <1>8 DEF Fresh, Attempt
<1>11. PICK n : n = Len(journal) OBVIOUS
<1>12. journal \in Seq(Attempt) /\ n \in Nat BY <1>0, <1>11, LenProperties DEF JournalSound
<1>13. /\ journal' \in Seq(Attempt) /\ Len(journal') = n + 1 /\ journal'[n + 1] = a
       /\ \A i \in 1..n : journal'[i] = journal[i]
  BY <1>5, <1>10, <1>11, <1>12, AppendProperties
<1>14. /\ \A i \in 1..(n + 1) : i \in 1..n \/ i = n + 1
       /\ 1..n \subseteq 1..(n + 1) /\ n + 1 \in 1..(n + 1) /\ n + 1 \notin 1..n
  BY <1>12
<1>15. Attempts' = Attempts \cup {k}
  BY <1>10, <1>11, <1>13, <1>14 DEF Attempts
<1>16. record \in [Deposits -> {"none", "prepared", "completed"}] BY <1>0 DEF BooksSound
<1>17. Earlier' = Earlier BY <1>5, <1>16 DEF Earlier
<1>18. OnChain' = OnChain /\ Finalized' = Finalized BY DEF OnChain, Finalized
<1>19. /\ Attempts \subseteq 1..Len(made) /\ booked \subseteq 1..Len(made) /\ OnChain \subseteq held
       /\ held \subseteq 1..Len(made) /\ failed \subseteq 1..Len(made)
  BY <1>0, AttemptsInMade DEF BooksSound, ChainSound
<1>20. ProofsMade'
  <2>1. ASSUME NEW i \in 1..k
        PROVE  /\ made'[i].ids \subseteq Deposits /\ made'[i].inputs # {} /\ made'[i].change.id = i
               /\ \A m \in made'[i].inputs : m.id \in Int /\ m.id > -floats' /\ (m.id >= 1 => m.id \in booked')
    <3>1. CASE i \in 1..Len(made) BY <3>1, <1>0, <1>5, <1>6 DEF ProofsMade
    <3>2. CASE i = k
      <4>1. \A m \in inputs : m.id \in Int /\ m.id > -floats /\ (m.id >= 1 => m.id \in booked)
        BY <1>0 DEF BooksSound
      <4> QED BY <4>1, <3>2, <1>2, <1>3, <1>5, <1>6
    <3> QED BY <3>1, <3>2, <1>8
  <2> QED BY <2>1, <1>6, <1>8 DEF ProofsMade
<1>21. ChainSound'
  <2>1. landed' \in Seq(1..Len(made'))
    <3>1. \A A, B : A \subseteq B => Seq(A) \subseteq Seq(B) OBVIOUS
    <3> QED BY <3>1, <1>0, <1>6, <1>9 DEF ChainSound
  <2>2. \A i \in 1..Len(landed) : made'[landed[i]] = made[landed[i]]
    BY <1>6, <1>19 DEF OnChain
  <2> QED BY <2>1, <2>2, <1>0, <1>6, <1>9, <1>18, <1>19 DEF ChainSound
<1>22. \A i \in 1..n : journal[i].proof \in 1..Len(made) /\ made'[journal[i].proof] = made[journal[i].proof]
  BY <1>0, <1>6, <1>11 DEF JournalSound
<1>23. \A i \in 1..n : made[journal[i].proof].inputs = inputs /\ made[journal[i].proof].ids = ids
  <2>1. ASSUME NEW i \in 1..n PROVE made[journal[i].proof].inputs = inputs /\ made[journal[i].proof].ids = ids
    <3>1. journal # <<>> BY <1>11, <1>12, EmptySeq
    <3>2. journal[i].proof \in Attempts BY <1>11 DEF Attempts
    <3> QED BY <3>1, <3>2, <1>0, LastAttempt
  <2> QED BY <2>1
<1>24. JournalSound'
  <2>1. ASSUME NEW i \in 1..(n + 1)
        PROVE  /\ journal'[i].proof \in 1..Len(made')
               /\ made'[journal'[i].proof].inputs = inputs
               /\ made'[journal'[i].proof].ids = ids
               /\ Relayed' /\ ~journal'[i].attempted => journal'[i].proof \notin held'
    <3>1. CASE i \in 1..n
      <4>1. journal'[i] = journal[i] BY <3>1, <1>13
      <4>2. Relayed /\ ~journal[i].attempted => journal[i].proof \notin held BY <3>1, <1>0, <1>11 DEF JournalSound
      <4>3. journal[i].proof \in 1..Len(made') BY <3>1, <1>6, <1>9, <1>22
      <4> QED BY <4>1, <4>2, <4>3, <3>1, <1>22, <1>23 DEF Relayed
    <3>2. CASE i = n + 1
      <4>1. journal'[i].proof = k BY <3>2, <1>10, <1>13
      <4> QED BY <4>1, <1>2, <1>6, <1>8, <1>9, <1>19
    <3> QED BY <3>1, <3>2, <1>14
  <2>2. ASSUME NEW i \in 1..(n + 1), journal'[i].request # 0
        PROVE  \E j \in 1..i : journal'[j].proof = journal'[i].request
    <3>1. i \in 1..n BY <2>2, <1>10, <1>13, <1>14
    <3>2. journal'[i] = journal[i] BY <3>1, <1>13
    <3>3. PICK j \in 1..i : journal[j].proof = journal[i].request BY <2>2, <3>1, <3>2, <1>0, <1>11 DEF JournalSound
    <3>4. j \in 1..n BY <3>1, <1>12
    <3> QED BY <3>2, <3>3, <3>4, <1>13
  <2>3. ASSUME NEW i \in 1..(n + 1), NEW j \in 1..(n + 1), i # j PROVE journal'[i].proof # journal'[j].proof
    <3>1. CASE i \in 1..n /\ j \in 1..n BY <2>3, <3>1, <1>0, <1>11, <1>13 DEF JournalSound
    <3>2. CASE i = n + 1 /\ j \in 1..n BY <3>2, <1>8, <1>10, <1>13, <1>22
    <3>3. CASE j = n + 1 /\ i \in 1..n BY <3>3, <1>8, <1>10, <1>13, <1>22
    <3> QED BY <2>3, <3>1, <3>2, <3>3, <1>14
  <2>4. PICK l \in Nat : l = n + 1 BY <1>12
  <2>5. Len(journal') = l /\ journal' \in Seq(Attempt) BY <2>4, <1>13
  <2>6. \A i \in 1..l :
          /\ journal'[i].proof \in 1..Len(made')
          /\ made'[journal'[i].proof].inputs \subseteq funding'
          /\ made'[journal'[i].proof].ids \cap Earlier' = {}
          /\ Relayed' /\ ~journal'[i].attempted => journal'[i].proof \notin held'
    BY <2>1, <2>4, <1>5, <1>17
  <2>7. \A i, j \in 1..l :
          /\ made'[journal'[i].proof].inputs = made'[journal'[j].proof].inputs
          /\ made'[journal'[i].proof].ids = made'[journal'[j].proof].ids
          /\ i # j => journal'[i].proof # journal'[j].proof
    BY <2>1, <2>3, <2>4
  <2>8. \A i \in 1..l : journal'[i].request # 0 => \E j \in 1..i : journal'[j].proof = journal'[i].request
    BY <2>2, <2>4
  <2> QED BY <2>5, <2>6, <2>7, <2>8 DEF JournalSound
<1>25. BooksSound'
  <2>1. ASSUME NEW j \in held' \ (booked' \cup Attempts') PROVE RuledOut(j)'
    <3>1. j \in 1..Len(made) /\ RuledOut(j) BY <2>1, <1>0, <1>5, <1>15, <1>19 DEF BooksSound
    <3>2. \A i \in booked : made'[i] = made[i] BY <1>6, <1>19
    <3> QED BY <3>1, <3>2, <1>5, <1>6, <1>18 DEF RuledOut
  <2>2. record' \in [Deposits -> {"none", "prepared", "completed"}] BY <1>5, <1>16
  <2>3. booked' \subseteq 1..Len(made') /\ booked' \cap Attempts' = {}
    BY <1>0, <1>5, <1>6, <1>8, <1>9, <1>15, <1>19 DEF BooksSound
  <2>4. \A i \in booked : made'[i] = made[i] BY <1>6, <1>19
  <2>5. \A i \in booked' : made'[i].ids \subseteq Earlier' /\ made'[i].inputs \cap funding' = {}
    BY <2>4, <1>0, <1>5, <1>17 DEF BooksSound
  <2>6. \A i, j \in booked' : i # j => made'[i].ids \cap made'[j].ids = {} /\ made'[i].inputs \cap made'[j].inputs = {}
    BY <2>4, <1>0, <1>5 DEF BooksSound
  <2>7. /\ floats' \in Nat /\ OnChain' \subseteq booked' \cup Attempts'
        /\ \A m \in funding' : m.id \in Int /\ m.id > -floats' /\ (m.id >= 1 => m.id \in booked')
    BY <1>0, <1>5, <1>15, <1>18 DEF BooksSound
  <2> QED BY <2>1, <2>2, <2>3, <2>5, <2>6, <2>7 DEF BooksSound
<1>26. Kept
  <2>1. \A j \in 1..Len(made) : Dead(j) => Dead(j)' BY <1>8, <1>15, <1>18 DEF Dead
  <2> QED BY <2>1, <1>3, <1>6, <1>17 DEF Kept
<1>27. Quiet BY <1>6, <1>17, <1>18, <1>19, QuietStep
<1>28. journal' # <<>> BY <1>12, <1>13, EmptySeq
<1>29. Last' = a BY <1>13 DEF Last
<1>30. Paid' = ids
  <2>1. Paid' = made'[Last'.proof].ids BY DEF Paid
  <2> QED BY <2>1, <1>2, <1>6, <1>10, <1>29
<1>31. Last'.proof \notin held \cup failed BY <1>8, <1>10, <1>19, <1>29
<1> QED BY <1>0, <1>20, <1>21, <1>24, <1>25, <1>26, <1>27, <1>28, <1>30, <1>31 DEF Ledger

\* A shield brings a float into an empty pool.
LEMMA Funding ==
    ASSUME Ledger, UNCHANGED <<made, held, failed, landed, final, submission, journal, record, booked>>,
           \/ UNCHANGED <<funding, floats>>
           \/ funding = {} /\ funding' = {[id |-> -floats, amount |-> Float]} /\ floats' = floats + 1
    PROVE  Ledger' /\ Kept /\ Quiet /\ Attempts' = Attempts
<1>1. CASE UNCHANGED <<funding, floats>> BY <1>1, Still
<1>2. CASE funding = {} /\ funding' = {[id |-> -floats, amount |-> Float]} /\ floats' = floats + 1
  <2>0. JournalSound /\ BooksSound /\ ChainSound /\ ProofsMade /\ submission \in {"relayer", "operator"} BY DEF Ledger
  <2>1. OnChain' = OnChain /\ Finalized' = Finalized /\ Earlier' = Earlier /\ Attempts' = Attempts
    BY DEF OnChain, Finalized, Earlier, Attempts
  <2>2. floats \in Nat /\ floats' \in Nat BY <1>2, <2>0 DEF BooksSound
  <2>3. \A i \in Int : i > -floats => i > -floats' BY <1>2, <2>2
  <2>4. ProofsMade' BY <2>0, <2>3 DEF ProofsMade
  <2>5. ChainSound' BY <2>0, <2>1 DEF ChainSound
  <2>6. JournalSound' BY <1>2, <2>0, <2>1 DEF JournalSound, Relayed
  <2>7. BooksSound'
    <3>1. \A n \in funding' : n.id = -floats BY <1>2
    <3>2. -floats \in Int /\ -floats > -floats' /\ ~(-floats >= 1) BY <1>2, <2>2
    <3>3. \A n \in funding' : n.id \in Int /\ n.id > -floats' /\ (n.id >= 1 => n.id \in booked') BY <3>1, <3>2
    <3>4. ASSUME NEW k \in booked PROVE made[k].ids \subseteq Earlier /\ made[k].inputs \cap funding' = {}
      <4>1. k \in 1..Len(made) BY <2>0 DEF BooksSound
      <4>2. \A n \in made[k].inputs : n.id # -floats BY <4>1, <2>0, <2>2 DEF ProofsMade
      <4> QED BY <4>2, <3>1, <2>0 DEF BooksSound
    <3>5. ASSUME NEW j \in held' \ (booked' \cup Attempts') PROVE RuledOut(j)'
      <4>1. RuledOut(j) BY <3>5, <2>0, <2>1 DEF BooksSound
      <4> QED BY <4>1, <2>1 DEF RuledOut
    <3> QED BY <3>3, <3>4, <3>5, <2>0, <2>1, <2>2 DEF BooksSound
  <2>8. Kept
    <3>1. Len(made) \in Nat BY LenProperties, <2>0 DEF ProofsMade
    <3>2. \A j \in 1..Len(made) : Dead(j) => Dead(j)' BY <2>1 DEF Dead
    <3> QED BY <2>1, <3>1, <3>2 DEF Kept
  <2>9. Quiet BY <2>1, QuietStep
  <2> QED BY <2>0, <2>1, <2>4, <2>5, <2>6, <2>7, <2>8, <2>9 DEF Ledger
<1> QED BY <1>1, <1>2

-----------------------------------------------------------------------------
(* The verdicts of the calls. *)

LEMMA VerdictStands ==
    ASSUME Ledger, Ledger', Kept, NEW r, r.seen \in Nat, TrueVerdict(r)
    PROVE  /\ r.seen <= Len(made')
           /\ r.verdict = "ok" => Batched(r) \subseteq Earlier'
           /\ r.verdict = "free" /\ r.from # "fund" =>
                 \A k \in 1..r.seen : made'[k].ids \cap Batched(r) # {} => Dead(k)'
<1>1. Len(made) \in Nat /\ Len(made') \in Nat /\ Len(made) <= Len(made') BY LenProperties DEF Ledger, ProofsMade, Kept
<1>2. r.seen <= Len(made) /\ r.seen <= Len(made') BY <1>1 DEF TrueVerdict
<1>3. ASSUME r.verdict = "free", r.from # "fund", NEW k \in 1..r.seen, made'[k].ids \cap Batched(r) # {}
      PROVE  Dead(k)'
  <2>1. k \in 1..Len(made) BY <1>1, <1>2
  <2>2. made'[k] = made[k] BY <2>1 DEF Kept
  <2>3. Dead(k) BY <2>2, <1>3 DEF TrueVerdict
  <2> QED BY <2>1, <2>3 DEF Kept
<1>4. r.verdict = "ok" => Batched(r) \subseteq Earlier' BY DEF TrueVerdict, Kept
<1> QED BY <1>2, <1>3, <1>4

\* A step keeps the verdicts true where each call keeps its verdict, or has none to act on, or has a true one.
LEMMA CallsStand ==
    ASSUME Ledger, Ledger', Kept, CallsSound, call' \in [Caller -> Call],
           \A c \in Caller :
              \/ \E r \in Call : /\ TrueVerdict(r)
                                 /\ call'[c].verdict = r.verdict /\ call'[c].batch = r.batch
                                 /\ call'[c].from = r.from /\ call'[c].seen = r.seen
              \/ call'[c].verdict \in {"none", "unknown"} /\ call'[c].seen <= Len(made)
    PROVE  CallsSound'
<1>1. Len(made) \in Nat /\ Len(made') \in Nat /\ Len(made) <= Len(made') BY LenProperties DEF Ledger, ProofsMade, Kept
<1>2. MaxProofs \in Nat BY ChainAssumption
<1>3. ASSUME NEW c \in Caller PROVE TrueVerdict(call[c])'
  <2>1. CASE call'[c].verdict \in {"none", "unknown"} /\ call'[c].seen <= Len(made)
    <3>1. call'[c] \in Call OBVIOUS
    <3>2. call'[c].seen \in Nat BY <3>1, <1>2 DEF Call
    <3> QED BY <2>1, <3>2, <1>1 DEF TrueVerdict
  <2>2. CASE \E r \in Call : /\ TrueVerdict(r)
                             /\ call'[c].verdict = r.verdict /\ call'[c].batch = r.batch
                             /\ call'[c].from = r.from /\ call'[c].seen = r.seen
    <3>1. PICK r \in Call : /\ TrueVerdict(r)
                            /\ call'[c].verdict = r.verdict /\ call'[c].batch = r.batch
                            /\ call'[c].from = r.from /\ call'[c].seen = r.seen
      BY <2>2
    <3>2. r.seen \in Nat BY <1>2 DEF Call
    <3>3. /\ r.seen <= Len(made')
          /\ r.verdict = "ok" => Batched(r) \subseteq Earlier'
          /\ r.verdict = "free" /\ r.from # "fund" =>
                \A k \in 1..r.seen : made'[k].ids \cap Batched(r) # {} => Dead(k)'
      BY <3>1, <3>2, VerdictStands
    <3>4. Batched(call[c])' = Batched(r) BY <3>1 DEF Batched
    <3> QED BY <3>1, <3>3, <3>4 DEF TrueVerdict
  <2> QED BY <2>1, <2>2
<1> QED BY <1>3 DEF CallsSound

\* The calls are left alone, or the one under the lock goes back to waiting.
LEMMA CallsKeep ==
    ASSUME Ledger, Ledger', Kept, CallsSound, UNCHANGED call
    PROVE  CallsSound'
<1>1. call' \in [Caller -> Call] /\ \A c \in Caller : call'[c] \in Call /\ TrueVerdict(call'[c])
  BY DEF CallsSound
<1> QED BY <1>1, CallsStand

LEMMA Leaves == ASSUME Leave, Ledger' PROVE WorkSound'
<1>1. 0 \in 0..MaxProofs BY ChainAssumption
<1>2. Idle \in Work BY <1>1 DEF Idle, Work
<1>3. work' = Idle /\ holder' = Nobody BY DEF Leave
<1>4. work'.at = "none" /\ work'.stage = "fund" BY <1>3 DEF Idle
<1> QED BY <1>2, <1>3, <1>4 DEF WorkSound

\* How a call ends: with a verdict, where it was reached, and what was made by then.
LEMMA Ending ==
    ASSUME Ledger, WorkSound, CallsSound, holder # Nobody, NEW v \in {"none", "ok", "free", "unknown"}, EndCall(v)
    PROVE  /\ call' \in [Caller -> Call] /\ holder \in Caller
           /\ \A c \in Caller \ {holder} : call'[c] = call[c]
           /\ call'[holder].verdict = v /\ call'[holder].batch = call[holder].batch
           /\ call'[holder].from = work.stage /\ call'[holder].seen = Len(made)
<1>1. holder \in Caller /\ call \in [Caller -> Call] /\ work \in Work BY DEF WorkSound, CallsSound
<1>2. Len(made) \in 0..MaxProofs
  <2>1. Len(made) \in Nat /\ Len(made) <= MaxProofs BY LenProperties DEF Ledger, ProofsMade
  <2> QED BY <2>1, ChainAssumption
<1>3. PICK e : e = [call[holder] EXCEPT !.status = "idle", !.verdict = v, !.from = work.stage, !.seen = Len(made)]
  OBVIOUS
<1>4. call[holder] \in Call BY <1>1
<1>5. work.stage \in {"fund", "allocate", "chunk"} BY <1>1 DEF Work
<1>6. e \in Call /\ e.verdict = v /\ e.batch = call[holder].batch /\ e.from = work.stage /\ e.seen = Len(made)
  BY <1>2, <1>3, <1>4, <1>5 DEF Call
<1>7. call' = [call EXCEPT ![holder] = e] BY <1>3 DEF EndCall
<1> QED BY <1>1, <1>6, <1>7

LEMMA Faulting ==
    ASSUME Ledger, Ledger', Kept, WorkSound, CallsSound, holder # Nobody, Fault \/ Lag
    PROVE  WorkSound' /\ CallsSound'
<1>1. Leave BY DEF Fault, Lag
<1>2. WorkSound' BY <1>1, Leaves
<1>3. Len(made) \in Nat BY LenProperties DEF Ledger, ProofsMade
<1>4. CASE EndCall("unknown")
  <2>1. /\ call' \in [Caller -> Call] /\ \A c \in Caller \ {holder} : call'[c] = call[c]
        /\ call'[holder].verdict = "unknown" /\ call'[holder].seen = Len(made)
    BY <1>4, Ending
  <2>2. \A c \in Caller : call[c] \in Call /\ TrueVerdict(call[c]) BY DEF CallsSound
  <2>3. CallsSound' BY <2>1, <2>2, <1>3, CallsStand
  <2> QED BY <1>2, <2>3
<1>5. CASE call' = [call EXCEPT ![holder].status = "waiting"]
  <2>1. holder \in Caller /\ call \in [Caller -> Call] BY DEF WorkSound, CallsSound
  <2>2. PICK e : e = [call[holder] EXCEPT !.status = "waiting"] OBVIOUS
  <2>3. /\ e \in Call /\ e.verdict = call[holder].verdict /\ e.batch = call[holder].batch
        /\ e.from = call[holder].from /\ e.seen = call[holder].seen
    BY <2>1, <2>2 DEF Call
  <2>4. call' = [call EXCEPT ![holder] = e] BY <1>5, <2>2
  <2>5. call' \in [Caller -> Call] BY <2>1, <2>3, <2>4
  <2>6. \A c \in Caller : call[c] \in Call /\ TrueVerdict(call[c]) BY DEF CallsSound
  <2>7. \A c \in Caller : /\ call'[c].verdict = call[c].verdict /\ call'[c].batch = call[c].batch
                          /\ call'[c].from = call[c].from /\ call'[c].seen = call[c].seen
    BY <2>1, <2>3, <2>4
  <2>8. CallsSound' BY <2>5, <2>6, <2>7, CallsStand
  <2> QED BY <1>2, <2>8
<1> QED BY <1>4, <1>5 DEF Fault, Lag
\* The adapter call goes on with its chunk: what its new place claims of the journal holds there.
LEMMA GoingOn ==
    ASSUME Ledger', WorkSound, holder # Nobody, work.at # "paid", UNCHANGED <<call, holder>>,
           NEW e \in Work, work' = e, e.stage = work.stage, e.todo = work.todo, e.submitted = work.submitted,
           e.at \in {"post", "await", "broadcast"} => journal' # <<>>,
           e.at = "post" => Relayed' /\ Last'.attempted /\ (~e.was => Last'.proof \notin held'),
           e.at = "await" => e.watched \in Attempts',
           e.at = "broadcast" => ~Relayed' /\ Last'.proof \notin held' \cup failed',
           e.at = "ready" => e.stage # "chunk" /\ (e.stage # "fund" => journal' = <<>>),
           e.at = "paid" => journal' = <<>> /\ e.stage = "chunk" /\ Chunk \subseteq Earlier' /\ Earlier' \subseteq Earlier \cup Chunk,
           e.stage = "chunk" /\ e.at \in {"reconcile", "post", "await", "broadcast"} => journal' # <<>> /\ Paid' = Chunk,
           Earlier \subseteq Earlier', e.at = "paid" \/ e.stage # "chunk" \/ Earlier' = Earlier
    PROVE  WorkSound'
<1>1. Chunk' = Chunk BY DEF Chunk, Left
<1>2. BatchOf(holder)' = BatchOf(holder) BY DEF BatchOf
<1>3. holder' # Nobody => holder' \in Caller /\ call'[holder'].status = "waiting" BY DEF WorkSound
<1>4. ASSUME e.stage = "chunk"
      PROVE  /\ holder' # Nobody /\ BatchOf(holder)' \subseteq Earlier' \cup work'.todo
             /\ (work'.todo \ (IF work'.at = "paid" THEN Chunk' ELSE {})) \cap Earlier' = {}
  <2>1. BatchOf(holder) \subseteq Earlier \cup work.todo /\ work.todo \cap Earlier = {} BY <1>4 DEF WorkSound
  <2>2. CASE e.at = "paid" BY <2>1, <2>2, <1>1, <1>2
  <2>3. CASE e.at # "paid" BY <2>1, <2>3, <1>2, <1>4
  <2> QED BY <2>2, <2>3
<1>5. e.at = "ready" /\ e.stage = "chunk" => FALSE OBVIOUS
<1>6. e.stage = "chunk" /\ e.at \in {"reconcile", "post", "await", "broadcast"} => Paid' = Chunk' BY <1>1
<1> HIDE DEF Chunk, Paid, Last, BatchOf, Attempts, Earlier, Relayed, Work
<1>7. /\ work' \in Work
      /\ work'.at \in {"post", "await", "broadcast"} => journal' # <<>>
      /\ work'.at = "post" => Relayed' /\ Last'.attempted /\ (~work'.was => Last'.proof \notin held')
      /\ work'.at = "await" => work'.watched \in Attempts'
      /\ work'.at = "broadcast" => ~Relayed' /\ Last'.proof \notin held' \cup failed'
      /\ work'.at = "ready" /\ work'.stage # "fund" => journal' = <<>>
      /\ work'.at = "paid" => journal' = <<>> /\ work'.stage = "chunk" /\ Chunk' \subseteq Earlier'
  BY <1>1
<1>8. work'.stage = "chunk" =>
        /\ holder' # Nobody /\ BatchOf(holder)' \subseteq Earlier' \cup work'.todo
        /\ work'.at \in {"reconcile", "post", "await", "broadcast"} => journal' # <<>> /\ Paid' = Chunk'
        /\ (work'.todo \ (IF work'.at = "paid" THEN Chunk' ELSE {})) \cap Earlier' = {}
        /\ work'.at = "ready" /\ ~work'.submitted => BatchOf(holder)' \cap Earlier' = {}
  BY <1>4, <1>5, <1>6
<1> QED BY <1>3, <1>7, <1>8 DEF WorkSound

\* In a chunk, a reconciliation is of the attempts that pay the chunk.
LEMMA AtChunk ==
    ASSUME WorkSound, work.stage = "chunk", work.at \in {"reconcile", "post", "await", "broadcast"}
    PROVE  journal # <<>> /\ Paid = Chunk
  BY DEF WorkSound

\* The journal is settled: the call goes on where its reconciliation was asked for.
LEMMA GoesOn ==
    ASSUME Ledger', WorkSound, holder # Nobody, work.at \in {"reconcile", "await", "broadcast"}, Onward,
           work.stage = "fund" \/ journal' = <<>>,
           work.stage = "chunk" => Earlier' = Earlier \cup Paid,
           Earlier \subseteq Earlier'
    PROVE  WorkSound'
<1>1. PICK e : e = [work EXCEPT !.at = IF work.stage = "chunk" THEN "paid" ELSE "ready", !.rebuilt = FALSE]
  OBVIOUS
<1>2. work \in Work BY DEF WorkSound
<1>3. e \in Work /\ e.stage = work.stage /\ e.todo = work.todo /\ e.submitted = work.submitted BY <1>1, <1>2 DEF Work
<1>4. e.at = IF work.stage = "chunk" THEN "paid" ELSE "ready" BY <1>1, <1>2 DEF Work
<1>5. work' = e /\ UNCHANGED <<call, holder>> BY <1>1 DEF Onward, Settled
<1>6. work.stage = "chunk" => Earlier' = Earlier \cup Chunk BY AtChunk
<1>7. e.at \notin {"post", "await", "broadcast", "reconcile"} /\ work.at # "paid" BY <1>4
<1>8. e.at = "ready" => e.stage # "chunk" /\ (e.stage # "fund" => journal' = <<>>) BY <1>3, <1>4
<1>9. e.at = "paid" => journal' = <<>> /\ e.stage = "chunk" /\ Chunk \subseteq Earlier' /\ Earlier' \subseteq Earlier \cup Chunk
  BY <1>3, <1>4, <1>6
<1>10. e.at = "paid" \/ e.stage # "chunk" \/ Earlier' = Earlier BY <1>3, <1>4
<1> QED BY <1>3, <1>5, <1>7, <1>8, <1>9, <1>10, GoingOn

-----------------------------------------------------------------------------
(* The steps of an adapter call. *)

\* A step that faults or lags, after which the ledger holds.
LEMMA GivesUp ==
    ASSUME AggInv, Ledger', Kept, holder # Nobody, Fault \/ Lag
    PROVE  AggInv'
  BY Faulting DEF AggInv

\* A winner is on chain: the attempts compete, so no other one is.
LEMMA WinnerOnChain ==
    ASSUME Ledger, Known # {}
    PROVE  journal[Winner].proof \in Attempts \cap OnChain
<1>0. JournalSound /\ ChainSound /\ ProofsMade BY DEF Ledger
<1>1. PICK i \in Known : TRUE OBVIOUS
<1>2. ASSUME NEW j \in Known PROVE i = j
  <2> SUFFICES ASSUME i # j PROVE FALSE
    OBVIOUS
  <2>1. i \in 1..Len(journal) /\ j \in 1..Len(journal) /\ journal[i].proof \in OnChain /\ journal[j].proof \in OnChain
    BY DEF Known
  <2>2. /\ journal[i].proof # journal[j].proof /\ journal[i].proof \in 1..Len(made)
        /\ made[journal[i].proof].inputs = made[journal[j].proof].inputs
    BY <2>1, <1>0 DEF JournalSound
  <2>3. made[journal[i].proof].inputs # {} BY <2>2, <1>0 DEF ProofsMade
  <2> QED BY <2>1, <2>2, <2>3, <1>0, NoneSpentTwice
<1>3. i \in Int BY DEF Known
<1>4. \A j \in Known : i <= j BY <1>2, <1>3
<1>5. Winner \in Known BY <1>1, <1>4 DEF Winner
<1> QED BY <1>5 DEF Known, Attempts

LEMMA Settles ==
    ASSUME AggInv, holder # Nobody, work.at \in {"reconcile", "await"}, journal # <<>>, Known # {},
           Settle(journal[Winner].proof), UNCHANGED <<made, held, failed, landed, final, submission, floats>>
    PROVE  AggInv' /\ Promised
<1>0. Ledger /\ WorkSound /\ CallsSound BY DEF AggInv
<1>1. PICK k \in Attempts \cap OnChain : k = journal[Winner].proof BY <1>0, WinnerOnChain
<1>2. CASE Settleable(k) /\ Book(k) /\ Onward
  <2>1. Ledger' /\ Kept /\ Promise!Next /\ Earlier' = Earlier \cup made[k].ids /\ journal' = <<>>
    BY <1>0, <1>2, BookingCompletes
  <2>2. made[k].ids = Paid BY <1>0, LastAttempt DEF Ledger
  <2>3. WorkSound' BY <1>0, <1>2, <2>1, <2>2, GoesOn
  <2>4. CallsSound' BY <1>0, <1>2, <2>1, CallsKeep DEF Onward
  <2> QED BY <2>1, <2>3, <2>4 DEF AggInv, Promised
<1>3. CASE Lag /\ UNCHANGED <<books, journal>>
  <2>1. Ledger' /\ Kept /\ Quiet BY <1>0, <1>3, Still DEF books
  <2> QED BY <1>3, <2>1, GivesUp DEF Promised
<1> QED BY <1>1, <1>2, <1>3 DEF Settle

\* A refusal that is taken to have moved no funds: none of the batch is paid, so no proof for it is left.
LEMMA Refuses ==
    ASSUME AggInv, Ledger', Kept, holder # Nobody, work.at \in {"reconcile", "ready"}, Refuse
    PROVE  AggInv'
<1>0. Ledger /\ WorkSound /\ CallsSound BY DEF AggInv
<1>1. WorkSound' BY Leaves DEF Refuse
<1>2. CASE Tagged
  <2>1. Fault BY <1>2 DEF Refuse, Fault
  <2> QED BY <2>1, GivesUp
<1>3. CASE ~Tagged
  <2>1. EndCall("free") BY <1>3 DEF Refuse
  <2>2. /\ call' \in [Caller -> Call] /\ holder \in Caller
        /\ \A c \in Caller \ {holder} : call'[c] = call[c]
        /\ call'[holder].verdict = "free" /\ call'[holder].batch = call[holder].batch
        /\ call'[holder].from = work.stage /\ call'[holder].seen = Len(made)
    BY <1>0, <2>1, Ending
  <2>3. PICK r \in Call : r = call'[holder] BY <2>2
  <2>4. Len(made) \in Nat BY <1>0, LenProperties DEF Ledger, ProofsMade
  <2>5. ASSUME r.from # "fund", NEW k \in 1..r.seen, made[k].ids \cap Batched(r) # {} PROVE Dead(k)
    <3>1. Batched(r) = BatchOf(holder) BY <2>2, <2>3 DEF Batched, BatchOf
    <3>2. work.stage \in {"fund", "allocate", "chunk"} BY <1>0 DEF WorkSound, Work
    <3>3. work.stage = "chunk" /\ ~work.submitted /\ journal = <<>> BY <3>2, <1>3, <2>2, <2>3, <2>5 DEF Tagged
    <3>4. work.at = "ready" BY <3>3, <1>0 DEF WorkSound
    <3>5. BatchOf(holder) \cap Earlier = {} BY <3>3, <3>4, <1>0 DEF WorkSound
    <3>6. Attempts = {}
      <4>1. Len(journal) = 0 BY <3>3, EmptySeq
      <4> QED BY <4>1 DEF Attempts
    <3>7. \A j \in booked : made[j].ids \subseteq Earlier BY <1>0 DEF Ledger, BooksSound
    <3>8. k \notin booked BY <3>1, <3>5, <3>7, <2>5
    <3>9. ~RuledOut(k) BY <3>1, <3>5, <3>7, <2>5 DEF RuledOut
    <3>10. k \notin held BY <3>6, <3>8, <3>9, <1>0 DEF Ledger, BooksSound
    <3> QED BY <3>6, <3>10, <1>0 DEF Dead, Ledger, ChainSound
  <2>6. TrueVerdict(r) BY <2>2, <2>3, <2>4, <2>5 DEF TrueVerdict
  <2>7. \A c \in Caller : call[c] \in Call /\ TrueVerdict(call[c]) BY <1>0 DEF CallsSound
  <2>8. CallsSound' BY <1>0, <2>2, <2>3, <2>6, <2>7, CallsStand
  <2> QED BY <1>1, <2>8 DEF AggInv
<1> QED BY <1>2, <1>3

LEMMA ProverFailing ==
    ASSUME AggInv, holder # Nobody, work.at \in {"reconcile", "ready"}, ProverFails,
           UNCHANGED <<held, failed, landed, final, submission, floats>>
    PROVE  AggInv' /\ Promised
<1>1. Ledger' /\ Kept /\ Quiet BY Still DEF AggInv, ProverFails, books
<1> QED BY <1>1, Refuses, GivesUp DEF ProverFails, Promised

\* A proof is journalled, and reconciled or broadcast next.
LEMMA Journals ==
    ASSUME AggInv, holder # Nobody, work.at \in {"reconcile", "ready"}, NEW inputs, NEW ids, Journalled(inputs, ids),
           inputs # {}, inputs \subseteq funding, ids \subseteq Deposits, ids \cap Earlier = {},
           journal # <<>> => inputs = Inputs /\ ids = Paid, work.stage = "chunk" => ids = Chunk,
           UNCHANGED <<held, failed, landed, final, submission, floats>>
    PROVE  AggInv' /\ Promised
<1>0. Ledger /\ WorkSound /\ CallsSound BY DEF AggInv
<1>1. /\ Ledger' /\ Kept /\ Quiet
      /\ journal' # <<>> /\ Paid' = ids /\ Last'.proof \notin held \cup failed
  BY <1>0, Journalling
<1> DEFINE at == IF Relayed THEN "reconcile" ELSE "broadcast"
           rebuilt == Len(journal) > 0
<1>2. PICK e : e = [work EXCEPT !.at = at, !.rebuilt = rebuilt] OBVIOUS
<1>3. work' = e /\ UNCHANGED <<call, holder>> BY <1>2 DEF Journalled
<1>4. work \in Work BY <1>0 DEF WorkSound
<1>5. /\ e \in Work /\ e.stage = work.stage /\ e.todo = work.todo /\ e.submitted = work.submitted
      /\ e.at = at
  <2>1. at \in {"reconcile", "broadcast"} /\ rebuilt \in BOOLEAN OBVIOUS
  <2> HIDE DEF at, rebuilt
  <2> QED BY <2>1, <1>2, <1>4 DEF Work
<1>6. Relayed' = Relayed BY DEF Relayed
<1>7. Earlier' = Earlier BY <1>1 DEF Quiet
<1>8. e.at = "broadcast" => ~Relayed' /\ Last'.proof \notin held' \cup failed' BY <1>1, <1>5, <1>6
<1>9. e.at \in {"reconcile", "broadcast"} BY <1>5
<1>10. e.stage = "chunk" => Paid' = Chunk BY <1>1, <1>5
<1>11. WorkSound' BY <1>0, <1>1, <1>3, <1>5, <1>7, <1>8, <1>9, <1>10, GoingOn
<1>12. CallsSound' BY <1>0, <1>1, <1>3, CallsKeep
<1> QED BY <1>1, <1>11, <1>12 DEF AggInv, Promised

\* A submission among the attempts is watched from here on.
LEMMA Resumes ==
    ASSUME AggInv, holder # Nobody, work.at \in {"reconcile", "post"}, journal # <<>>, Last.attempted,
           NEW k \in Attempts, Resume(k),
           held \subseteq held', held' \subseteq held \cup {Last.proof}, failed' \subseteq failed, held' \cap failed' = {},
           UNCHANGED <<made, landed, final, submission, funding, record, floats, booked>>
    PROVE  AggInv' /\ Promised
<1>0. Ledger /\ WorkSound /\ CallsSound BY DEF AggInv
<1>1. Last \in Attempt /\ Last.proof \in Attempts BY <1>0, LastAttempt DEF Ledger
<1>2. k \in Proof
  <2>1. k \in 1..Len(made) /\ Len(made) \in Nat /\ Len(made) <= MaxProofs
    BY <1>0, AttemptsInMade, LenProperties DEF Ledger, ProofsMade
  <2> QED BY <2>1, ChainAssumption DEF Proof
<1>3. PICK a : a = [Last EXCEPT !.request = k] OBVIOUS
<1>4. a \in Attempt /\ a.proof = Last.proof /\ a.request = k /\ a.attempted = Last.attempted
  <2>1. k \in 0..MaxProofs BY <1>2, ChainAssumption DEF Proof
  <2> QED BY <1>1, <1>3, <2>1 DEF Attempt
<1>5. journal' = [journal EXCEPT ![Len(journal)] = a] BY <1>3 DEF Resume, Update
<1>6. a.request \in Attempts \cup {0} /\ (Relayed /\ ~a.attempted => a.proof \notin held') BY <1>4
<1>7. Ledger' /\ Kept /\ Quiet /\ Attempts' = Attempts /\ journal' # <<>> /\ Last' = a /\ Paid' = Paid
  BY <1>0, <1>4, <1>5, <1>6, Marked
<1>8. PICK e : e = [work EXCEPT !.at = "await", !.watched = k] OBVIOUS
<1>9. work' = e /\ UNCHANGED <<call, holder>> BY <1>8 DEF Resume
<1>10. work \in Work /\ k \in 0..MaxProofs BY <1>0, <1>2, ChainAssumption DEF WorkSound, Proof
<1>11. /\ e \in Work /\ e.stage = work.stage /\ e.todo = work.todo /\ e.submitted = work.submitted
       /\ e.at = "await" /\ e.watched = k
  BY <1>8, <1>10 DEF Work
<1>12. e.watched \in Attempts' BY <1>7, <1>11
<1>13. e.stage = "chunk" => Paid' = Chunk BY <1>0, <1>7, <1>11, AtChunk
<1>14. Earlier' = Earlier BY <1>7 DEF Quiet
<1>15. WorkSound' BY <1>0, <1>7, <1>9, <1>11, <1>12, <1>13, <1>14, GoingOn
<1>16. CallsSound' BY <1>0, <1>7, <1>9, CallsKeep
<1> QED BY <1>7, <1>15, <1>16 DEF AggInv, Promised

\* The last attempt keeps its proof, its request and its mark; it may need a replacement, or have waited.
LEMMA Remarked ==
    ASSUME AggInv, journal # <<>>, NEW a \in Attempt, a.proof = Last.proof, a.request = Last.request,
           a.attempted = Last.attempted, Update(Len(journal), a),
           UNCHANGED <<made, held, failed, landed, final, submission, funding, record, floats, booked>>
    PROVE  Ledger' /\ Kept /\ Quiet /\ Attempts' = Attempts /\ journal' # <<>> /\ Last' = a /\ Paid' = Paid
<1>0. Ledger BY DEF AggInv
<1>1. Len(journal) \in Nat \ {0} /\ Len(journal) \in 1..Len(journal) BY <1>0, LastAttempt DEF Ledger
<1>2. a.request \in Attempts \cup {0}
  <2> SUFFICES ASSUME Last.request # 0 PROVE Last.request \in Attempts
    OBVIOUS
  <2>1. PICK j \in 1..Len(journal) : journal[j].proof = Last.request
    BY <1>0, <1>1 DEF Ledger, JournalSound, Last
  <2> QED BY <2>1 DEF Attempts
<1>3. Relayed /\ ~a.attempted => a.proof \notin held' BY <1>0, <1>1 DEF Ledger, JournalSound, Last
<1>4. held' \cap failed' = {} BY <1>0 DEF Ledger, ChainSound
<1>5. journal' = [journal EXCEPT ![Len(journal)] = a] BY DEF Update
<1> QED BY <1>0, <1>2, <1>3, <1>4, <1>5, Marked

\* The call goes round to replace or send the last attempt.
LEMMA GoesRound ==
    ASSUME AggInv, Ledger', Kept, Quiet, holder # Nobody, work.at \in {"reconcile", "post", "await"}, UNCHANGED <<call, holder>>,
           work' = [work EXCEPT !.at = "reconcile"], journal' # <<>>, Paid' = Paid
    PROVE  AggInv'
<1>0. Ledger /\ WorkSound /\ CallsSound BY DEF AggInv
<1>1. PICK e : e = [work EXCEPT !.at = "reconcile"] OBVIOUS
<1>2. work \in Work BY <1>0 DEF WorkSound
<1>3. /\ e \in Work /\ e.stage = work.stage /\ e.todo = work.todo /\ e.submitted = work.submitted /\ e.at = "reconcile"
  BY <1>1, <1>2 DEF Work
<1>4. e.stage = "chunk" => Paid' = Chunk BY <1>0, <1>3, AtChunk
<1>5. Earlier' = Earlier BY DEF Quiet
<1>6. work' = e BY <1>1
<1>7. WorkSound' BY <1>0, <1>3, <1>4, <1>5, <1>6, GoingOn
<1>8. CallsSound' BY <1>0, CallsKeep
<1> QED BY <1>7, <1>8 DEF AggInv

LEMMA Rebuilds ==
    ASSUME AggInv, holder # Nobody, work.at \in {"reconcile", "post", "await"}, journal # <<>>, Rebuild(Last),
           UNCHANGED <<made, held, failed, landed, final, submission, funding, record, floats, booked>>
    PROVE  AggInv' /\ Promised
<1>1. Last \in Attempt BY LastAttempt DEF AggInv, Ledger
<1>2. PICK a : a = [Last EXCEPT !.rebuild = TRUE] OBVIOUS
<1>3. a \in Attempt /\ a.proof = Last.proof /\ a.request = Last.request /\ a.attempted = Last.attempted
  BY <1>1, <1>2 DEF Attempt
<1>4. Update(Len(journal), a) BY <1>2 DEF Rebuild
<1>5. Ledger' /\ Kept /\ Quiet /\ journal' # <<>> /\ Paid' = Paid BY <1>3, <1>4, Remarked
<1>6. CASE Lag BY <1>5, <1>6, GivesUp DEF Promised
<1>7. CASE work' = [work EXCEPT !.at = "reconcile"] /\ UNCHANGED <<call, holder>>
  BY <1>5, <1>7, GoesRound DEF Promised
<1> QED BY <1>6, <1>7 DEF Rebuild

\* A step that lags and writes nothing.
LEMMA Lags ==
    ASSUME AggInv, holder # Nobody, Fault \/ Lag,
           UNCHANGED <<made, held, failed, landed, final, submission, funding, journal, record, floats, booked>>
    PROVE  AggInv' /\ Promised
<1>1. Ledger' /\ Kept /\ Quiet BY Still DEF AggInv
<1> QED BY <1>1, GivesUp DEF Promised

-----------------------------------------------------------------------------
(* Every action keeps the invariant, and is a step of the promise. *)

LEMMA ReconcilingKeeps ==
    ASSUME AggInv, NothingJournalled \/ OperatorWaits \/ WinnerKnown \/ TooManyAttempts \/ Replace,
           UNCHANGED <<held, failed, landed, final, submission, floats>>
    PROVE  AggInv' /\ Promised
<1>0. Ledger /\ WorkSound /\ CallsSound BY DEF AggInv
<1>1. CASE NothingJournalled \/ OperatorWaits
  <2>1. holder # Nobody /\ work.at = "reconcile" /\ Onward
    BY <1>1 DEF NothingJournalled, OperatorWaits, Reconciling
  <2>2. Ledger' /\ Kept /\ Quiet BY <1>0, <1>1, Still DEF NothingJournalled, OperatorWaits, books
  <2>3. Earlier' = Earlier BY <2>2 DEF Quiet
  <2>4. work.stage = "fund" \/ journal' = <<>> BY <1>1 DEF NothingJournalled, OperatorWaits
  <2>5. work.stage # "chunk"
    BY <1>0, <1>1, <2>1, AtChunk DEF NothingJournalled, OperatorWaits
  <2>6. WorkSound' BY <1>0, <2>1, <2>2, <2>3, <2>4, <2>5, GoesOn
  <2>7. CallsSound' BY <1>0, <2>1, <2>2, CallsKeep DEF Onward
  <2> QED BY <2>2, <2>6, <2>7 DEF AggInv, Promised
<1>2. CASE WinnerKnown
  BY <1>2, Settles DEF WinnerKnown, Reconcilable, Reconciling
<1>3. CASE TooManyAttempts
  BY <1>3, Lags DEF TooManyAttempts, Replacing, Reconcilable, Reconciling, books
<1>4. CASE Replace
  <2>1. holder # Nobody /\ work.at = "reconcile" /\ journal # <<>>
    BY <1>4 DEF Replace, Replacing, Reconcilable, Reconciling
  <2>2. CASE ProverFails BY <2>1, <2>2, ProverFailing
  <2>3. CASE Journalled(Inputs, Paid)
    <3>1. Last.proof \in 1..Len(made) /\ Last.proof \in Attempts /\ Inputs \subseteq funding /\ Paid \cap Earlier = {}
      BY <1>0, <2>1, LastAttempt DEF Ledger
    <3>2. Inputs # {} /\ Paid \subseteq Deposits BY <3>1, <1>0 DEF Ledger, ProofsMade, Inputs, Paid
    <3>3. work.stage = "chunk" => Paid = Chunk BY <1>0, <2>1, AtChunk
    <3>4. PICK inputs, ids : inputs = Inputs /\ ids = Paid OBVIOUS
    <3>5. Journalled(inputs, ids) BY <2>3, <3>4
    <3> QED BY <2>1, <3>1, <3>2, <3>3, <3>4, <3>5, Journals
  <2> QED BY <1>4, <2>2, <2>3 DEF Replace
<1> QED BY <1>1, <1>2, <1>3, <1>4

LEMMA LookingKeeps ==
    ASSUME AggInv, LookupFinds \/ LookupReplaces \/ Send,
           UNCHANGED <<held, failed, landed, final, submission, floats>>
    PROVE  AggInv' /\ Promised
<1>0. Ledger /\ WorkSound /\ CallsSound BY DEF AggInv
<1>1. holder # Nobody /\ work.at = "reconcile" /\ journal # <<>> /\ Relayed
  BY DEF LookupFinds, LookupReplaces, Send, Looking, Reconciling
<1>2. Len(journal) \in 1..Len(journal) /\ Last \in Attempt /\ Last.proof \in Attempts BY <1>0, <1>1, LastAttempt DEF Ledger
<1>3. held \cap failed = {} BY <1>0 DEF Ledger, ChainSound
<1>4. CASE LookupFinds
  <2>1. Asked \in Attempts
    <3>1. CASE Last.request # 0 /\ Tracked(Last.request)
      <4>1. PICK j \in 1..Len(journal) : journal[j].proof = Last.request
        BY <3>1, <1>0, <1>2 DEF Ledger, JournalSound, Last
      <4> QED BY <3>1, <4>1 DEF Attempts, Asked
    <3>2. CASE ~(Last.request # 0 /\ Tracked(Last.request)) BY <3>2, <1>2 DEF Asked
    <3> QED BY <3>1, <3>2
  <2>2. PICK k \in Attempts : k = Asked BY <2>1
  <2>3. Last.attempted /\ Resume(k) /\ UNCHANGED <<books, made>> BY <1>4, <2>2 DEF LookupFinds
  <2> QED BY <1>1, <1>3, <2>3, Resumes DEF books
<1>5. CASE LookupReplaces
  <2>1. CASE Rebuild(Last) BY <1>1, <1>5, <2>1, Rebuilds DEF LookupReplaces, books
  <2>2. CASE Lag /\ UNCHANGED journal BY <1>1, <1>5, <2>2, Lags DEF LookupReplaces, books
  <2> QED BY <1>5, <2>1, <2>2 DEF LookupReplaces
<1>6. CASE Send
  <2>1. PICK a : a = [Last EXCEPT !.attempted = TRUE] OBVIOUS
  <2>2. a \in Attempt /\ a.proof = Last.proof /\ a.request = Last.request /\ a.attempted BY <1>2, <2>1 DEF Attempt
  <2>3. journal' = [journal EXCEPT ![Len(journal)] = a] /\ Last.request = 0 BY <1>6, <2>1 DEF Send, Update
  <2>4. UNCHANGED <<made, held, failed, landed, final, submission, funding, record, floats, booked, call, holder>>
    BY <1>6 DEF Send, books
  <2>5. Ledger' /\ Kept /\ Quiet /\ Attempts' = Attempts /\ journal' # <<>> /\ Last' = a /\ Paid' = Paid
    BY <1>0, <1>1, <1>3, <2>2, <2>3, <2>4, Marked
  <2>6. PICK e : e = [work EXCEPT !.at = "post", !.was = Last.attempted] OBVIOUS
  <2>7. work' = e BY <1>6, <2>6 DEF Send
  <2>8. work \in Work /\ Last.attempted \in BOOLEAN BY <1>0, <1>2 DEF WorkSound, Attempt
  <2>9. /\ e \in Work /\ e.stage = work.stage /\ e.todo = work.todo /\ e.submitted = work.submitted
        /\ e.at = "post" /\ e.was = Last.attempted
    BY <2>6, <2>8 DEF Work
  <2>10. ~Last.attempted => Last.proof \notin held
    BY <1>0, <1>1, <1>2 DEF Ledger, JournalSound, Last
  <2>11. Relayed' /\ Last'.attempted /\ (~e.was => Last'.proof \notin held')
    BY <1>1, <2>2, <2>4, <2>5, <2>9, <2>10 DEF Relayed
  <2>12. e.stage = "chunk" => Paid' = Chunk BY <1>0, <1>1, <2>5, <2>9, AtChunk
  <2>13. Earlier' = Earlier BY <2>5 DEF Quiet
  <2>14. WorkSound' BY <1>0, <1>1, <2>4, <2>5, <2>7, <2>9, <2>11, <2>12, <2>13, GoingOn
  <2>15. CallsSound' BY <1>0, <2>4, <2>5, CallsKeep
  <2> QED BY <2>5, <2>14, <2>15 DEF AggInv, Promised
<1> QED BY <1>4, <1>5, <1>6

LEMMA AwaitingKeeps ==
    ASSUME AggInv, Included \/ Failed \/ AwaitReplaces \/ TimedOut,
           UNCHANGED <<held, failed, landed, final, submission, floats>>
    PROVE  AggInv' /\ Promised
<1>0. Ledger /\ WorkSound /\ CallsSound BY DEF AggInv
<1>1. holder # Nobody /\ work.at = "await" BY DEF Included, Failed, AwaitReplaces, TimedOut, Awaiting
<1>2. journal # <<>> /\ work.watched \in Attempts BY <1>0, <1>1 DEF WorkSound
<1>3. Len(journal) \in 1..Len(journal) /\ Last \in Attempt /\ Last.proof \in Attempts BY <1>0, <1>2, LastAttempt DEF Ledger
<1>4. CASE Included
  <2>1. CASE Known # {} /\ Settle(journal[Winner].proof) BY <1>1, <1>2, <1>4, <2>1, Settles DEF Included
  <2>2. CASE Fault /\ UNCHANGED <<books, journal>> BY <1>1, <1>4, <2>2, Lags DEF Included, books
  <2> QED BY <1>4, <2>1, <2>2 DEF Included
<1>5. CASE Failed
  <2>1. Fault /\ UNCHANGED made BY <1>5 DEF Failed
  <2>2. CASE SoleAttempt /\ Release
    <3>1. Len(journal) = 1 BY <2>2 DEF SoleAttempt
    <3>2. work.watched = Last.proof
      <4>1. \A i : i \in 1..1 <=> i = 1 OBVIOUS
      <4> QED BY <4>1, <1>2, <3>1 DEF Attempts, Last
    <3>3. Last.proof \notin held BY <1>0, <1>5, <3>2 DEF Failed, Ledger, ChainSound
    <3>4. Ledger' /\ Kept /\ Quiet BY <1>0, <1>2, <2>1, <2>2, <3>1, <3>3, Releasing
    <3> QED BY <1>1, <2>1, <3>4, GivesUp DEF Promised
  <2>3. CASE ~SoleAttempt /\ Update(Len(journal), [Last EXCEPT !.rebuild = TRUE]) /\ UNCHANGED books
    <3>1. PICK a : a = [Last EXCEPT !.rebuild = TRUE] OBVIOUS
    <3>2. a \in Attempt /\ a.proof = Last.proof /\ a.request = Last.request /\ a.attempted = Last.attempted
      BY <1>3, <3>1 DEF Attempt
    <3>3. Ledger' /\ Kept /\ Quiet BY <1>2, <2>1, <2>3, <3>1, <3>2, Remarked DEF books
    <3> QED BY <1>1, <2>1, <3>3, GivesUp DEF Promised
  <2> QED BY <1>5, <2>2, <2>3 DEF Failed
<1>6. CASE AwaitReplaces
  <2>1. CASE Rebuild(Last) BY <1>1, <1>2, <1>6, <2>1, Rebuilds DEF AwaitReplaces, books
  <2>2. CASE Lag /\ UNCHANGED journal BY <1>1, <1>6, <2>2, Lags DEF AwaitReplaces, books
  <2> QED BY <1>6, <2>1, <2>2 DEF AwaitReplaces
<1>7. CASE TimedOut
  <2>1. Fault /\ UNCHANGED <<books, made>> BY <1>7 DEF TimedOut
  <2>2. PICK stalls, rebuild : /\ stalls \in {1, MaxStalls} \/ (Last.stalls < MaxStalls /\ stalls = Last.stalls + 1)
                               /\ rebuild = (stalls >= MaxStalls)
                               /\ Update(Len(journal), [Last EXCEPT !.stalls = stalls, !.rebuild = rebuild])
    BY <1>7 DEF TimedOut
  <2>3. MaxStalls \in Nat \ {0} /\ Last.stalls \in 0..MaxStalls BY <1>3, AggregationAssumption DEF Attempt
  <2>4. stalls \in 0..MaxStalls /\ rebuild \in BOOLEAN BY <2>2, <2>3
  <2>5. PICK a : a = [Last EXCEPT !.stalls = stalls, !.rebuild = rebuild] OBVIOUS
  <2>6. a \in Attempt /\ a.proof = Last.proof /\ a.request = Last.request /\ a.attempted = Last.attempted
    BY <1>3, <2>4, <2>5 DEF Attempt
  <2>7. Ledger' /\ Kept /\ Quiet BY <1>2, <2>1, <2>2, <2>5, <2>6, Remarked DEF books
  <2> QED BY <1>1, <2>1, <2>7, GivesUp DEF Promised
<1> QED BY <1>4, <1>5, <1>6, <1>7

\* What a commit that fails leaves, which ends the adapter call.
LEMMA CommitFailing ==
    ASSUME AggInv, holder # Nobody, CommitFails, UNCHANGED <<held, failed, landed, final, submission, floats>>
    PROVE  AggInv' /\ Promised
  BY Lags DEF CommitFails

LEMMA BatchDeposits == ASSUME AggInv, holder # Nobody PROVE BatchOf(holder) \subseteq Deposits
<1>1. call[holder] \in Call BY DEF AggInv, WorkSound, CallsSound
<1>2. call[holder].batch \in Batches \cup {<<>>} BY <1>1 DEF Call
<1>3. call[holder].batch \in Seq(Deposits)
  <2>1. <<>> \in Seq(Deposits) OBVIOUS
  <2> QED BY <2>1, <1>2, AggregationAssumption
<1>4. \A s \in Seq(Deposits) : \A i \in 1..Len(s) : s[i] \in Deposits OBVIOUS
<1> QED BY <1>3, <1>4 DEF BatchOf

LEMMA ClassifyKeeps ==
    ASSUME AggInv, Classify, UNCHANGED <<held, failed, landed, final, submission, floats>>
    PROVE  AggInv' /\ Promised
<1>0. Ledger /\ WorkSound /\ CallsSound BY DEF AggInv
<1>1. holder # Nobody /\ work.at = "ready" /\ work.stage = "allocate" BY DEF Classify, Ready
<1>2. CASE CommitFails BY <1>1, <1>2, CommitFailing
<1>3. CASE ~CommitFails
  <2>1. UNCHANGED <<funding, record, booked, journal, made, call, holder>> BY <1>3 DEF Classify
  <2>2. PICK committed \in BOOLEAN :
          work' = [work EXCEPT !.stage = "chunk", !.todo = BatchOf(holder) \ Earlier,
                               !.submitted = (BatchOf(holder) \cap Earlier # {}) \/ committed]
    BY <1>3 DEF Classify
  <2> DEFINE todo == BatchOf(holder) \ Earlier
             submitted == (BatchOf(holder) \cap Earlier # {}) \/ committed
  <2>3. PICK e : e = [work EXCEPT !.stage = "chunk", !.todo = todo, !.submitted = submitted] OBVIOUS
  <2>4. work' = e BY <2>2, <2>3
  <2>5. work \in Work /\ todo \subseteq Deposits /\ submitted \in BOOLEAN BY <1>0, <1>1, BatchDeposits DEF WorkSound
  <2>6. e \in Work /\ e.stage = "chunk" /\ e.at = "ready" /\ e.todo = todo /\ e.submitted = submitted
    <3> HIDE DEF todo, submitted
    <3> QED BY <1>1, <2>3, <2>5 DEF Work
  <2>7. Ledger' /\ Kept /\ Quiet BY <1>0, <2>1, Still
  <2>8. Earlier' = Earlier BY <2>7 DEF Quiet
  <2>9. BatchOf(holder)' = BatchOf(holder) BY <2>1 DEF BatchOf
  <2>10. journal' = <<>> /\ holder' # Nobody /\ holder' \in Caller /\ call'[holder'].status = "waiting"
    BY <1>0, <1>1, <2>1 DEF WorkSound
  <2>11. BatchOf(holder)' \subseteq Earlier' \cup work'.todo /\ work'.todo \cap Earlier' = {}
    BY <2>4, <2>6, <2>8, <2>9
  <2>12. ~work'.submitted => BatchOf(holder)' \cap Earlier' = {} BY <2>4, <2>6, <2>8, <2>9
  <2>13. WorkSound' BY <2>4, <2>6, <2>10, <2>11, <2>12 DEF WorkSound
  <2>14. CallsSound' BY <1>0, <2>1, <2>7, CallsKeep
  <2> QED BY <2>7, <2>13, <2>14 DEF AggInv, Promised
<1> QED BY <1>2, <1>3

LEMMA AllocateKeeps ==
    ASSUME AggInv, Allocate, UNCHANGED <<held, failed, landed, final, submission, floats>>
    PROVE  AggInv' /\ Promised
<1>0. Ledger /\ WorkSound /\ CallsSound BY DEF AggInv
<1>1. holder # Nobody /\ work.at = "ready" /\ work.stage = "chunk" BY DEF Allocate, Ready
<1>2. CASE Refuse /\ UNCHANGED <<books, journal, made>>
  <2>1. Ledger' /\ Kept /\ Quiet BY <1>0, <1>2, Still DEF books
  <2> QED BY <1>1, <1>2, <2>1, Refuses DEF Promised
<1>3. CASE ProverFails BY <1>1, <1>3, ProverFailing
<1>4. CASE Journalled(Selected, Chunk) /\ Selected # {}
  <2>1. Chunk \subseteq work.todo BY DEF Chunk, Left
  <2>2. Chunk \subseteq Deposits /\ Chunk \cap Earlier = {} BY <1>0, <1>1, <2>1 DEF WorkSound, Work
  <2>3. Selected \subseteq funding BY DEF Selected, Largest
  <2>4. journal = <<>> BY <1>0, <1>1 DEF WorkSound
  <2>5. PICK inputs, ids : inputs = Selected /\ ids = Chunk OBVIOUS
  <2>6. Journalled(inputs, ids) BY <1>4, <2>5
  <2> QED BY <1>1, <1>4, <2>2, <2>3, <2>4, <2>5, <2>6, Journals
<1> QED BY <1>2, <1>3, <1>4 DEF Allocate

LEMMA NextChunkKeeps ==
    ASSUME AggInv, NextChunk, UNCHANGED <<held, failed, landed, final, submission, floats>>
    PROVE  AggInv' /\ Promised
<1>0. Ledger /\ WorkSound /\ CallsSound BY DEF AggInv
<1>1. holder # Nobody /\ work.at = "paid" BY DEF NextChunk
<1>2. CASE CommitFails BY <1>1, <1>2, CommitFailing
<1>3. CASE ~CommitFails
  <2>1. UNCHANGED <<funding, record, booked, journal, made, call, holder>> BY <1>3 DEF NextChunk
  <2>2. PICK e : e = [work EXCEPT !.at = "ready", !.submitted = TRUE, !.todo = @ \ Chunk] OBVIOUS
  <2>3. work' = e BY <1>3, <2>2 DEF NextChunk
  <2>4. work \in Work /\ work.stage = "chunk" /\ journal = <<>> /\ Chunk \subseteq Earlier BY <1>0, <1>1 DEF WorkSound
  <2>5. e \in Work /\ e.stage = "chunk" /\ e.at = "ready" /\ e.todo = work.todo \ Chunk /\ e.submitted
    <3> HIDE DEF Chunk
    <3> QED BY <2>2, <2>4 DEF Work
  <2>6. Ledger' /\ Kept /\ Quiet BY <1>0, <2>1, Still
  <2>7. Earlier' = Earlier BY <2>6 DEF Quiet
  <2>8. BatchOf(holder)' = BatchOf(holder) BY <2>1 DEF BatchOf
  <2>9. journal' = <<>> /\ holder' # Nobody /\ holder' \in Caller /\ call'[holder'].status = "waiting"
    BY <1>0, <1>1, <2>1, <2>4 DEF WorkSound
  <2>10. BatchOf(holder) \subseteq Earlier \cup work.todo /\ (work.todo \ Chunk) \cap Earlier = {}
    BY <1>0, <1>1, <2>4 DEF WorkSound
  <2>11. BatchOf(holder)' \subseteq Earlier' \cup work'.todo /\ work'.todo \cap Earlier' = {}
    BY <2>3, <2>4, <2>5, <2>7, <2>8, <2>10
  <2>12. WorkSound' BY <2>3, <2>5, <2>9, <2>11 DEF WorkSound
  <2>13. CallsSound' BY <1>0, <2>1, <2>6, CallsKeep
  <2> QED BY <2>6, <2>12, <2>13 DEF AggInv, Promised
<1> QED BY <1>2, <1>3

LEMMA FinishKeeps ==
    ASSUME AggInv, Finish, UNCHANGED <<held, failed, landed, final, submission, floats>>
    PROVE  AggInv' /\ Promised
<1>0. Ledger /\ WorkSound /\ CallsSound BY DEF AggInv
<1>1. holder # Nobody /\ work.stage = "chunk" /\ work.todo = {} /\ EndCall("ok") /\ Leave
  BY DEF Finish, Ready
<1>2. Ledger' /\ Kept /\ Quiet BY <1>0, Still DEF Finish, books
<1>3. WorkSound' BY <1>1, <1>2, Leaves
<1>4. /\ call' \in [Caller -> Call] /\ holder \in Caller
      /\ \A c \in Caller \ {holder} : call'[c] = call[c]
      /\ call'[holder].verdict = "ok" /\ call'[holder].batch = call[holder].batch /\ call'[holder].seen = Len(made)
  BY <1>0, <1>1, Ending
<1>5. PICK r \in Call : r = call'[holder] BY <1>4
<1>6. Batched(r) \subseteq Earlier
  <2>1. Batched(r) = BatchOf(holder) BY <1>4, <1>5 DEF Batched, BatchOf
  <2> QED BY <2>1, <1>0, <1>1 DEF WorkSound
<1>7. Len(made) \in Nat BY <1>0, LenProperties DEF Ledger, ProofsMade
<1>8. TrueVerdict(r) BY <1>4, <1>5, <1>6, <1>7 DEF TrueVerdict
<1>9. \A c \in Caller : call[c] \in Call /\ TrueVerdict(call[c]) BY <1>0 DEF CallsSound
<1>10. CallsSound' BY <1>0, <1>2, <1>4, <1>5, <1>8, <1>9, CallsStand
<1> QED BY <1>2, <1>3, <1>10 DEF AggInv, Promised

LEMMA FundKeeps ==
    ASSUME AggInv, Fund, UNCHANGED <<held, failed, landed, final, submission>>
    PROVE  AggInv' /\ Promised
<1>0. Ledger /\ WorkSound /\ CallsSound BY DEF AggInv
<1>1. holder # Nobody /\ work.at = "ready" /\ work.stage = "fund" BY DEF Fund, Ready
<1>2. CASE CommitFails /\ UNCHANGED floats BY <1>1, <1>2, CommitFailing
<1>3. CASE Lag /\ UNCHANGED <<books, journal, made, floats>> BY <1>1, <1>3, Lags DEF books
<1>4. CASE /\ \/ funding # {} /\ UNCHANGED <<funding, floats>>
              \/ /\ funding = {} /\ floats < MaxFloats
                 /\ funding' = {[id |-> -floats, amount |-> Float]} /\ floats' = floats + 1
           /\ call' = [call EXCEPT ![holder].status = "waiting", ![holder].funded = TRUE]
           /\ Leave
           /\ UNCHANGED <<record, booked, journal, made>>
  <2>1. Ledger' /\ Kept /\ Quiet BY <1>0, <1>4, Funding
  <2>2. WorkSound' BY <1>4, <2>1, Leaves
  <2>3. holder \in Caller /\ call \in [Caller -> Call] BY <1>0, <1>1 DEF WorkSound, CallsSound
  <2>4. PICK e : e = [call[holder] EXCEPT !.status = "waiting", !.funded = TRUE] OBVIOUS
  <2>5. /\ e \in Call /\ e.verdict = call[holder].verdict /\ e.batch = call[holder].batch
        /\ e.from = call[holder].from /\ e.seen = call[holder].seen
    BY <2>3, <2>4 DEF Call
  <2>6. call' = [call EXCEPT ![holder] = e] BY <1>4, <2>3, <2>4
  <2>7. call' \in [Caller -> Call] BY <2>3, <2>5, <2>6
  <2>8. \A c \in Caller : call[c] \in Call /\ TrueVerdict(call[c]) BY <1>0 DEF CallsSound
  <2>9. \A c \in Caller : /\ call'[c].verdict = call[c].verdict /\ call'[c].batch = call[c].batch
                          /\ call'[c].from = call[c].from /\ call'[c].seen = call[c].seen
    BY <2>3, <2>5, <2>6
  <2>10. CallsSound' BY <1>0, <2>1, <2>7, <2>8, <2>9, CallsStand
  <2> QED BY <2>1, <2>2, <2>10 DEF AggInv, Promised
<1> QED BY <1>2, <1>3, <1>4 DEF Fund

\* A held proof that competes with an attempt is an attempt: what is booked spends other notes.
LEMMA CompetingAttempt ==
    ASSUME Ledger, journal # <<>>, NEW k \in held, Competing(k, Last.proof)
    PROVE  k \in Attempts
<1>1. Inputs \subseteq funding /\ made[k].inputs \cap Inputs # {}
  BY LastAttempt DEF Ledger, Competing, Inputs
<1>2. \A j \in booked : made[j].inputs \cap funding = {} BY DEF Ledger, BooksSound
<1>3. k \notin booked /\ ~RuledOut(k) BY <1>1, <1>2 DEF RuledOut
<1> QED BY <1>3 DEF Ledger, BooksSound

LEMMA PostingKeeps ==
    ASSUME AggInv, PostAccepted \/ PostConflicts \/ PostLost \/ PostRejected, UNCHANGED <<submission, floats>>
    PROVE  AggInv' /\ Promised
<1>0. Ledger /\ WorkSound /\ CallsSound BY DEF AggInv
<1>1. holder # Nobody /\ work.at = "post" BY DEF PostAccepted, PostConflicts, PostLost, PostRejected, Posting
<1>2. journal # <<>> /\ Relayed /\ Last.attempted /\ (~work.was => Last.proof \notin held) BY <1>0, <1>1 DEF WorkSound
<1>3. /\ Len(journal) \in Nat \ {0} /\ Len(journal) \in 1..Len(journal) /\ journal \in Seq(Attempt)
      /\ Last \in Attempt /\ Last.proof \in Attempts
  BY <1>0, <1>2, LastAttempt DEF Ledger, JournalSound
<1>4. CASE PostAccepted
  <2>1. /\ held' = held \cup {Last.proof} /\ failed' = failed \ {Last.proof}
        /\ UNCHANGED <<funding, record, booked, made, landed, final>>
    BY <1>4 DEF PostAccepted, books
  <2>2. held' \cap failed' = {} BY <2>1, <1>0 DEF Ledger, ChainSound
  <2>3. held \subseteq held' /\ held' \subseteq held \cup {Last.proof} /\ failed' \subseteq failed BY <2>1
  <2>4. CASE Resume(Last.proof)
    <3>1. PICK k \in Attempts : k = Last.proof BY <1>3
    <3>2. Resume(k) BY <2>4, <3>1
    <3> QED BY <1>1, <1>2, <2>1, <2>2, <2>3, <3>2, Resumes
  <2>5. CASE Lag /\ UNCHANGED journal
    <3>1. PICK a : a = Last OBVIOUS
    <3>2. journal' = [journal EXCEPT ![Len(journal)] = a] BY <2>5, <3>1, <1>3 DEF Last
    <3>3. a.request \in Attempts \cup {0}
      <4> SUFFICES ASSUME Last.request # 0 PROVE Last.request \in Attempts
        BY <3>1
      <4>1. PICK j \in 1..Len(journal) : journal[j].proof = Last.request
        BY <1>0, <1>3 DEF Ledger, JournalSound, Last
      <4> QED BY <4>1 DEF Attempts
    <3>4. a \in Attempt /\ a.proof = Last.proof /\ a.attempted BY <3>1, <1>2, <1>3
    <3>5. Ledger' /\ Kept /\ Quiet BY <1>0, <1>2, <2>1, <2>2, <2>3, <3>2, <3>3, <3>4, Marked
    <3> QED BY <1>1, <2>5, <3>5, GivesUp DEF Promised
  <2> QED BY <1>4, <2>4, <2>5 DEF PostAccepted
<1>5. CASE PostConflicts
  <2>1. PICK k \in held \ forgotten : Competing(k, Last.proof) /\ Resume(k) BY <1>5 DEF PostConflicts
  <2>2. k \in Attempts BY <2>1, <1>0, <1>2, CompetingAttempt
  <2>3. UNCHANGED <<funding, record, booked, made, held, failed, landed, final>> BY <1>5 DEF PostConflicts, books, chainVars
  <2>4. held \cap failed = {} BY <1>0 DEF Ledger, ChainSound
  <2> QED BY <1>1, <1>2, <2>1, <2>2, <2>3, <2>4, Resumes
<1>6. CASE PostLost BY <1>1, <1>6, Lags DEF PostLost, books, chainVars
<1>7. CASE PostRejected
  <2>1. UNCHANGED <<made, held, failed, landed, final>> BY <1>7 DEF PostRejected, chainVars
  <2>2. CASE FirstRefusal /\ Release /\ Lag
    <3>1. Len(journal) = 1 /\ Last.proof \notin held BY <2>2, <1>2 DEF FirstRefusal
    <3>2. Ledger' /\ Kept /\ Quiet BY <1>0, <1>2, <2>1, <2>2, <3>1, Releasing
    <3> QED BY <1>1, <2>2, <3>2, GivesUp DEF Promised
  <2>3. CASE Rebuild(Last) /\ UNCHANGED books BY <1>1, <1>2, <2>1, <2>3, Rebuilds DEF books
  <2>4. CASE /\ ~FirstRefusal /\ ~work.was
             /\ journal' = SubSeq(journal, 1, Len(journal) - 1)
             /\ IF work.rebuilt THEN Lag ELSE work' = [work EXCEPT !.at = "reconcile"] /\ UNCHANGED <<call, holder>>
             /\ UNCHANGED books
    <3>1. Len(journal) # 1 /\ Last.proof \notin held BY <2>4, <1>2 DEF FirstRefusal
    <3>2. UNCHANGED <<funding, record, booked>> BY <2>4 DEF books
    <3>3. Ledger' /\ Kept /\ Quiet /\ journal' # <<>> /\ Paid' = Paid BY <1>0, <1>2, <2>1, <2>4, <3>1, <3>2, Dropping
    <3>4. CASE Lag BY <1>1, <3>3, <3>4, GivesUp DEF Promised
    <3>5. CASE work' = [work EXCEPT !.at = "reconcile"] /\ UNCHANGED <<call, holder>>
      BY <1>1, <3>3, <3>5, GoesRound DEF Promised
    <3> QED BY <2>4, <3>4, <3>5
  <2> QED BY <1>7, <2>2, <2>3, <2>4 DEF PostRejected
<1> QED BY <1>4, <1>5, <1>6, <1>7

LEMMA BroadcastingKeeps ==
    ASSUME AggInv, BroadcastLands \/ BroadcastUncertain \/ BroadcastFails, UNCHANGED <<submission, floats>>
    PROVE  AggInv' /\ Promised
<1>0. Ledger /\ WorkSound /\ CallsSound BY DEF AggInv
<1>1. holder # Nobody /\ work.at = "broadcast" BY DEF BroadcastLands, BroadcastUncertain, BroadcastFails, Broadcasting
<1>2. journal # <<>> /\ ~Relayed /\ Last.proof \notin held \cup failed BY <1>0, <1>1 DEF WorkSound
<1>3. /\ Len(journal) \in Nat \ {0} /\ Len(journal) \in 1..Len(journal) /\ journal \in Seq(Attempt)
      /\ Last \in Attempt /\ Last.proof \in Attempts
  BY <1>0, <1>2, LastAttempt DEF Ledger, JournalSound
<1>4. CASE BroadcastLands
  <2>1. PICK k \in Attempts : k = Last.proof BY <1>3
  <2>2. /\ \A n \in made[k].inputs : n \notin Spent
        /\ held' = held \cup {k} /\ landed' = Append(landed, k) /\ UNCHANGED <<made, failed, final>>
    BY <1>4, <2>1 DEF BroadcastLands, Inputs
  <2>3. k \notin held \cup failed /\ k \notin OnChain BY <2>1, <1>0, <1>2 DEF Ledger, ChainSound
  <2>4. CASE Len(journal) = 1 /\ Book(Last.proof) /\ Onward
    <3>1. Book(k) BY <2>1, <2>4
    <3>2. Ledger' /\ Kept /\ Promise!Next /\ Earlier' = Earlier \cup made[k].ids /\ journal' = <<>>
      BY <1>0, <2>2, <2>3, <2>4, <3>1, ConfirmedBooking
    <3>3. made[k].ids = Paid BY <2>1 DEF Paid
    <3>4. WorkSound' BY <1>0, <1>1, <2>4, <3>2, <3>3, GoesOn
    <3>5. CallsSound' BY <1>0, <2>4, <3>2, CallsKeep DEF Onward
    <3> QED BY <3>2, <3>4, <3>5 DEF AggInv, Promised
  <2>5. CASE Len(journal) > 1 /\ Lag /\ UNCHANGED <<books, journal>>
    <3>1. UNCHANGED <<funding, journal, record, booked>> BY <2>5 DEF books
    <3>2. k \in booked \cup Attempts OBVIOUS
    <3>3. Ledger' /\ Kept /\ Promise!Next BY <1>0, <1>2, <2>2, <2>3, <3>1, <3>2, Landing
    <3> QED BY <1>1, <2>5, <3>3, GivesUp DEF Promised
  <2> QED BY <1>4, <2>4, <2>5 DEF BroadcastLands
<1>5. CASE BroadcastUncertain
  <2>1. /\ held' \in {held, held \cup {Last.proof}} /\ Lag
        /\ UNCHANGED <<funding, record, booked, journal, made, failed, landed, final>>
    BY <1>5 DEF BroadcastUncertain, books
  <2>2. held' \cap failed' = {} BY <2>1, <1>0, <1>2 DEF Ledger, ChainSound
  <2>3. PICK a : a = Last OBVIOUS
  <2>4. journal' = [journal EXCEPT ![Len(journal)] = a] BY <2>1, <2>3, <1>3 DEF Last
  <2>5. a.request \in Attempts \cup {0}
    <3> SUFFICES ASSUME Last.request # 0 PROVE Last.request \in Attempts
      BY <2>3
    <3>1. PICK j \in 1..Len(journal) : journal[j].proof = Last.request
      BY <1>0, <1>3 DEF Ledger, JournalSound, Last
    <3> QED BY <3>1 DEF Attempts
  <2>6. held \subseteq held' /\ held' \subseteq held \cup {Last.proof} BY <2>1
  <2>7. Ledger' /\ Kept /\ Quiet BY <1>0, <1>2, <1>3, <2>1, <2>2, <2>3, <2>4, <2>5, <2>6, Marked
  <2> QED BY <1>1, <2>1, <2>7, GivesUp DEF Promised
<1>6. CASE BroadcastFails
  <2>1. Lag /\ UNCHANGED <<made, held, failed, landed, final>> BY <1>6 DEF BroadcastFails, chainVars
  <2>2. CASE SoleAttempt /\ Release
    <3>1. Len(journal) = 1 BY <2>2 DEF SoleAttempt
    <3>2. Ledger' /\ Kept /\ Quiet BY <1>0, <1>2, <2>1, <2>2, <3>1, Releasing
    <3> QED BY <1>1, <2>1, <3>2, GivesUp DEF Promised
  <2>3. CASE ~SoleAttempt /\ journal' = SubSeq(journal, 1, Len(journal) - 1) /\ UNCHANGED books
    <3>1. Len(journal) # 1 /\ UNCHANGED <<funding, record, booked>> BY <2>3 DEF SoleAttempt, books
    <3>2. Ledger' /\ Kept /\ Quiet BY <1>0, <1>2, <2>1, <2>3, <3>1, Dropping
    <3> QED BY <1>1, <2>1, <3>2, GivesUp DEF Promised
  <2> QED BY <1>6, <2>2, <2>3 DEF BroadcastFails
<1> QED BY <1>4, <1>5, <1>6

\* The lock and the work under it are left alone, and so is the call that holds it.
LEMMA WorkKeeps ==
    ASSUME WorkSound, UNCHANGED <<submission, journal, made, record, holder, work>>,
           holder # Nobody => call'[holder] = call[holder],
           held' \subseteq held, held' \cup failed' \subseteq held \cup failed
    PROVE  WorkSound'
<1>1. Last' = Last /\ Paid' = Paid /\ Attempts' = Attempts /\ Earlier' = Earlier /\ Relayed' = Relayed
  BY DEF Last, Paid, Attempts, Earlier, Relayed
<1>2. holder # Nobody => BatchOf(holder)' = BatchOf(holder) /\ Chunk' = Chunk BY DEF BatchOf, Chunk, Left
<1>3. CASE holder # Nobody
  <2>1. work'.at = "post" => Relayed' /\ Last'.attempted /\ (~work'.was => Last'.proof \notin held')
    BY <1>1 DEF WorkSound
  <2>2. work'.at = "broadcast" => ~Relayed' /\ Last'.proof \notin held' \cup failed' BY <1>1 DEF WorkSound
  <2> QED BY <1>1, <1>2, <1>3, <2>1, <2>2 DEF WorkSound
<1>4. CASE holder = Nobody
  <2>1. work.stage # "chunk" /\ work.at # "paid" BY <1>4 DEF WorkSound
  <2>2. work'.at = "post" => Relayed' /\ Last'.attempted /\ (~work'.was => Last'.proof \notin held')
    BY <1>1 DEF WorkSound
  <2>3. work'.at = "broadcast" => ~Relayed' /\ Last'.proof \notin held' \cup failed' BY <1>1 DEF WorkSound
  <2> QED BY <1>1, <1>4, <2>1, <2>2, <2>3 DEF WorkSound
<1> QED BY <1>3, <1>4

\* A call that has no verdict yet.
LEMMA NoVerdict == NoCall \in Call /\ NoCall.verdict = "none" /\ NoCall.seen = 0
<1>1. 0 \in 0..MaxProofs BY ChainAssumption
<1> QED BY <1>1 DEF NoCall, Call

LEMMA RequestKeeps ==
    ASSUME AggInv, NEW c \in Caller, NEW b \in Batches, Request(c, b)
    PROVE  AggInv' /\ Promised
<1>0. Ledger /\ WorkSound /\ CallsSound BY DEF AggInv
<1>1. UNCHANGED <<submission, funding, record, booked, journal, holder, work, floats, made, held, failed, landed, final>>
  BY DEF Request, books, chainVars
<1>2. Ledger' /\ Kept /\ Quiet BY <1>0, <1>1, Still
<1>3. PICK e : e = [NoCall EXCEPT !.status = "waiting", !.batch = b] OBVIOUS
<1>4. e \in Call /\ e.verdict = "none" /\ e.seen = 0
  BY <1>3, NoVerdict DEF Call
<1>5. call' = [call EXCEPT ![c] = e] /\ call[c].status = "idle" BY <1>3 DEF Request
<1>6. call \in [Caller -> Call] /\ \A d \in Caller : call[d] \in Call /\ TrueVerdict(call[d]) BY <1>0 DEF CallsSound
<1>7. call' \in [Caller -> Call] BY <1>4, <1>5, <1>6
<1>8. Len(made) \in Nat BY <1>0, LenProperties DEF Ledger, ProofsMade
<1>9. call'[c].verdict = "none" /\ call'[c].seen <= Len(made) BY <1>4, <1>5, <1>6, <1>8
<1>10. \A d \in Caller \ {c} : call'[d] = call[d] BY <1>5, <1>6
<1>11. CallsSound' BY <1>0, <1>2, <1>6, <1>7, <1>9, <1>10, CallsStand
<1>12. holder # Nobody => call'[holder] = call[holder] BY <1>0, <1>5, <1>10 DEF WorkSound
<1>13. WorkSound' BY <1>0, <1>1, <1>12, WorkKeeps
<1> QED BY <1>2, <1>11, <1>13 DEF AggInv, Promised

LEMMA EnterKeeps ==
    ASSUME AggInv, NEW c \in Caller, Enter(c)
    PROVE  AggInv' /\ Promised
<1>0. Ledger /\ WorkSound /\ CallsSound BY DEF AggInv
<1>1. /\ UNCHANGED <<submission, funding, record, booked, journal, call, floats, made, held, failed, landed, final>>
      /\ holder' = c /\ call[c].status = "waiting"
  BY DEF Enter, books, chainVars
<1>2. Ledger' /\ Kept /\ Quiet BY <1>0, <1>1, Still
<1>3. PICK stage \in {"fund", "allocate"} : stage = IF call[c].funded THEN "allocate" ELSE "fund" OBVIOUS
<1>4. PICK e : e = [Idle EXCEPT !.at = "reconcile", !.stage = stage] OBVIOUS
<1>5. 0 \in 0..MaxProofs BY ChainAssumption
<1>6. e \in Work /\ e.at = "reconcile" /\ e.stage = stage BY <1>4, <1>5 DEF Work, Idle
<1>7. work' = e BY <1>3, <1>4 DEF Enter
<1>8. WorkSound' BY <1>1, <1>6, <1>7 DEF WorkSound
<1>9. CallsSound' BY <1>0, <1>1, <1>2, CallsKeep
<1> QED BY <1>2, <1>8, <1>9 DEF AggInv, Promised

LEMMA CrashKeeps ==
    ASSUME AggInv, Crash
    PROVE  AggInv' /\ Promised
<1>0. Ledger /\ WorkSound /\ CallsSound BY DEF AggInv
<1>1. /\ UNCHANGED <<submission, funding, record, booked, journal, floats, made, held, failed, landed, final>>
      /\ Leave /\ call' = [d \in Caller |-> NoCall]
  BY DEF Crash, books, chainVars
<1>2. Ledger' /\ Kept /\ Quiet BY <1>0, <1>1, Still
<1>3. WorkSound' BY <1>1, <1>2, Leaves
<1>4. Len(made) \in Nat BY <1>0, LenProperties DEF Ledger, ProofsMade
<1>5. call' \in [Caller -> Call] /\ \A d \in Caller : call'[d].verdict = "none" /\ call'[d].seen <= Len(made)
  BY <1>1, <1>4, NoVerdict
<1>6. CallsSound' BY <1>0, <1>2, <1>5, CallsStand
<1> QED BY <1>2, <1>3, <1>6 DEF AggInv, Promised

LEMMA ChainKeeps ==
    ASSUME AggInv, ChainStep, UNCHANGED bridgeVars
    PROVE  AggInv' /\ Promised
<1>0. Ledger /\ WorkSound /\ CallsSound BY DEF AggInv
<1>1. UNCHANGED <<submission, funding, journal, record, call, holder, work, floats, booked>> BY DEF bridgeVars
<1>2. UNCHANGED made BY DEF ChainStep, Land, Abandon, Forget, Finalize, Reorganise
<1>3. /\ Ledger' /\ Kept /\ Promised
      /\ held' \subseteq held /\ held' \cup failed' \subseteq held \cup failed
  BY <1>0, <1>1, ChainKeepsLedger
<1>4. WorkSound' BY <1>0, <1>1, <1>2, <1>3, WorkKeeps
<1>5. CallsSound' BY <1>0, <1>1, <1>3, CallsKeep
<1> QED BY <1>3, <1>4, <1>5 DEF AggInv

-----------------------------------------------------------------------------
(* The theorems. *)

LEMMA AggInvHolds == AggInit => AggInv
<1> SUFFICES ASSUME AggInit PROVE AggInv
  OBVIOUS
<1>1. /\ made = <<>> /\ held = {} /\ failed = {} /\ landed = <<>> /\ final = 0
      /\ submission \in Submissions /\ funding = {} /\ journal = <<>> /\ record = [d \in Deposits |-> "none"]
      /\ call = [c \in Caller |-> NoCall] /\ holder = Nobody /\ work = Idle /\ floats = 0 /\ booked = {}
  BY DEF AggInit, ChainInit
<1>2. Len(made) = 0 /\ Len(landed) = 0 /\ Len(journal) = 0 BY <1>1, EmptySeq
<1>3. \A S : <<>> \in Seq(S) OBVIOUS
<1>4. OnChain = {} /\ Attempts = {} /\ 1..0 = {} BY <1>2 DEF OnChain, Attempts
<1>5. ProofsMade BY <1>1, <1>2, <1>3, ChainAssumption DEF ProofsMade
<1>6. ChainSound BY <1>1, <1>2, <1>3, <1>4 DEF ChainSound
<1>7. JournalSound BY <1>1, <1>2, <1>3 DEF JournalSound
<1>8. BooksSound BY <1>1, <1>2, <1>4 DEF BooksSound
<1>9. submission \in {"relayer", "operator"} BY <1>1, AggregationAssumption
<1>10. WorkSound
  <2>1. 0 \in 0..MaxProofs BY ChainAssumption
  <2>2. work \in Work /\ work.at = "none" /\ work.stage = "fund" BY <1>1, <2>1 DEF Idle, Work
  <2> QED BY <1>1, <2>2 DEF WorkSound
<1>11. CallsSound BY <1>1, <1>2, NoVerdict DEF CallsSound, TrueVerdict
<1> QED BY <1>5, <1>6, <1>7, <1>8, <1>9, <1>10, <1>11 DEF AggInv, Ledger

LEMMA AggStep == AggInv /\ [AggNext]_aggVars => AggInv' /\ Promised
<1> SUFFICES ASSUME AggInv, [AggNext]_aggVars PROVE AggInv' /\ Promised
  OBVIOUS
<1>1. ASSUME NEW c \in Caller, (\E b \in Batches : Request(c, b)) \/ Enter(c) PROVE AggInv' /\ Promised
  BY <1>1, RequestKeeps, EnterKeeps
<1>2. CASE Settling /\ UNCHANGED <<submission, calls, crashes>>
  <2>1. UNCHANGED <<held, failed, landed, final, submission, floats>> BY <1>2 DEF Settling
  <2>2. CASE NothingJournalled \/ OperatorWaits \/ WinnerKnown \/ TooManyAttempts \/ Replace
    BY <2>1, <2>2, ReconcilingKeeps
  <2>3. CASE LookupFinds \/ LookupReplaces \/ Send BY <2>1, <2>3, LookingKeeps
  <2>4. CASE Included \/ Failed \/ AwaitReplaces \/ TimedOut BY <2>1, <2>4, AwaitingKeeps
  <2>5. CASE Classify \/ Allocate \/ NextChunk \/ Finish
    BY <2>1, <2>5, ClassifyKeeps, AllocateKeeps, NextChunkKeeps, FinishKeeps
  <2> QED BY <1>2, <2>2, <2>3, <2>4, <2>5 DEF Settling
<1>3. CASE Sending /\ UNCHANGED <<submission, calls, crashes>>
  BY <1>3, PostingKeeps, BroadcastingKeeps DEF Sending
<1>4. CASE Fund /\ UNCHANGED <<submission, calls, crashes, held, failed, forgotten, landed, final, reorgs>>
  BY <1>4, FundKeeps
<1>5. CASE Crash BY <1>5, CrashKeeps
<1>6. CASE ChainStep /\ UNCHANGED bridgeVars BY <1>6, ChainKeeps
<1>7. CASE UNCHANGED aggVars
  <2>1. UNCHANGED <<submission, funding, record, booked, journal, call, holder, work, floats, made, held, failed, landed, final>>
    BY <1>7 DEF aggVars, bridgeVars, chainVars
  <2>2. Ledger' /\ Kept /\ Quiet BY <2>1, Still DEF AggInv
  <2>3. WorkSound' BY <2>1, WorkKeeps DEF AggInv
  <2>4. CallsSound' BY <2>1, <2>2, CallsKeep DEF AggInv
  <2> QED BY <2>2, <2>3, <2>4 DEF AggInv, Promised
<1> QED BY <1>1, <1>2, <1>3, <1>4, <1>5, <1>6, <1>7 DEF AggNext

LEMMA AggInvariant == AggSpec => []AggInv
<1>1. AggInv /\ [AggNext]_aggVars => AggInv' BY AggStep
<1> QED BY <1>1, AggInvHolds, PTL DEF AggSpec

\* What the bridge believes never parts with what the chain may still do (finish_relay_aggregation,
\* finish_operator_aggregation): for every batch, chunk size and number of attempts, what is on chain is
\* booked or journalled, a competitor of a booked proof can no longer land, and nothing else that may land
\* is left unless a final competitor rules it out.
THEOREM BooksFollow == AggSpec => []BooksFollowChain
<1>1. AggInv => BooksFollowChain
  <2> SUFFICES ASSUME AggInv PROVE BooksFollowChain
    OBVIOUS
  <2>1. BooksSound /\ JournalSound /\ ChainSound /\ ProofsMade BY DEF AggInv, Ledger
  <2>2. \A k \in held \ (booked \cup Attempts) : RuledOut(k) BY <2>1 DEF BooksSound
  <2>3. \A k \in Attempts : made[k].inputs \subseteq funding BY <2>1 DEF JournalSound, Attempts
  <2>4. ASSUME NEW j \in booked, NEW k \in held \cup OnChain, Competing(j, k) PROVE j \in Finalized
    <3>1. j # k /\ made[j].inputs \cap made[k].inputs # {} BY <2>4 DEF Competing
    <3>2. k \notin booked BY <3>1, <2>1 DEF BooksSound
    <3>3. k \notin Attempts BY <3>1, <2>1, <2>3 DEF BooksSound
    <3>4. k \in held BY <2>1 DEF ChainSound
    <3>5. PICK i \in booked \cap Finalized : made[i].inputs = made[k].inputs BY <2>2, <3>2, <3>3, <3>4 DEF RuledOut
    <3>6. i = j BY <3>1, <3>5, <2>1 DEF BooksSound
    <3> QED BY <3>5, <3>6
  <2>5. ASSUME NEW k \in held \ (booked \cup Attempts) PROVE \E j \in Finalized : Competing(j, k)
    <3>1. PICK j \in booked \cap Finalized : made[j].inputs = made[k].inputs BY <2>2 DEF RuledOut
    <3>2. made[k].inputs # {} BY <2>1 DEF ChainSound, ProofsMade
    <3> QED BY <3>1, <3>2, <2>5 DEF Competing
  <2>6. OnChain \subseteq booked \cup Attempts BY <2>1 DEF BooksSound
  <2> QED BY <2>4, <2>5, <2>6 DEF BooksFollowChain
<1> QED BY <1>1, AggInvariant, PTL

\* The verdict a flush acts on is true (moved_no_funds, tag_after_submission): what succeeded is recorded as
\* paid, and of what moved no funds no proof is left, refusals met in ensure_funded aside.
THEOREM VerdictsHold == AggSpec => []VerdictsTrue
<1>1. AggInv => VerdictsTrue
  <2> SUFFICES ASSUME AggInv, NEW c \in Caller
               PROVE  /\ call[c].verdict = "ok" => \A d \in BatchOf(c) : record[d] = "completed"
                      /\ call[c].verdict = "free" /\ call[c].from # "fund" =>
                            \A k \in 1..call[c].seen : made[k].ids \cap BatchOf(c) # {} => ~Live(k)
    BY DEF VerdictsTrue
  <2>1. TrueVerdict(call[c]) BY DEF AggInv, CallsSound
  <2>2. Batched(call[c]) = BatchOf(c) BY DEF Batched, BatchOf
  <2>3. \A d \in Earlier : record[d] = "completed" BY DEF Earlier
  <2>4. \A k : Dead(k) => ~Live(k) BY DEF Dead, Live
  <2> QED BY <2>1, <2>2, <2>3, <2>4 DEF TrueVerdict
<1> QED BY <1>1, AggInvariant, PTL

\* The journal, its replacements, retries, crashes and the reorganisations of the chain implement the pool's
\* promise (allocate_all, finish_relay_aggregation): no allocation is on chain twice, none is recorded before
\* it is paid, and what is recorded is not taken back.
THEOREM PaysOnce == AggSpec => AllocationsPaidOnce
<1>1. AggInit => Promise!Init
  <2> SUFFICES ASSUME AggInit PROVE Promise!Init
    OBVIOUS
  <2>1. landed = <<>> /\ record = [d \in Deposits |-> "none"] BY DEF AggInit, ChainInit
  <2>2. OnChain = {} BY <2>1, EmptySeq DEF OnChain
  <2>3. \A d \in Deposits : Cardinality({k \in OnChain : d \in made[k].ids}) = 0 BY <2>2, FS_EmptySet
  <2> QED BY <2>1, <2>3 DEF Promise!Init
<1>2. AggInv /\ [AggNext]_aggVars => [Promise!Next]_(Promise!payoutVars)
  BY AggStep DEF Promised, Quiet, PaidOn, Earlier, Promise!payoutVars
<1> QED BY <1>1, <1>2, AggInvariant, PTL DEF AggSpec, AllocationsPaidOnce, Promise!Spec

-----------------------------------------------------------------------------
(***************************************************************************)
(* What the bridge holds.  Every proof spends notes worth at least what it *)
(* pays, and its change is the difference: no amount is ever negative, no  *)
(* note is worth more than a float, and the journal keeps its bound.       *)
(***************************************************************************)

\* The notes and the proofs over them.
Purse ==
    /\ floats \in 0..MaxFloats
    /\ funding \in SUBSET Note /\ IsFiniteSet(funding) /\ Value(funding) <= Float
    /\ \A k \in 1..Len(made) :
        /\ made[k].inputs \in SUBSET Note /\ IsFiniteSet(made[k].inputs) /\ IsFiniteSet(made[k].ids)
        /\ Cardinality(made[k].ids) <= Value(made[k].inputs) /\ Value(made[k].inputs) <= Float
        /\ made[k].change = [id |-> k, amount |-> Value(made[k].inputs) - Cardinality(made[k].ids)]

Bounded == pending \subseteq 1..Len(made) /\ Len(journal) <= MaxAttempts

\* Who holds the lock works, and nobody else does.
LockHeld == (holder = Nobody => work = Idle) /\ (holder # Nobody => work.at # "none")

MoneyInv == Purse /\ Bounded /\ LockHeld

\* The worth of a set of notes is a sum of their amounts.
LEMMA ValueIsTotal ==
    ASSUME NEW S \in SUBSET Note
    PROVE  Value(S) = Total([n \in Note |-> n.amount], S)
<1> DEFINE w == [n \in Note |-> n.amount]
           Partial(f) == f = [s \in SUBSET S |-> IF s = {} THEN 0
                                                ELSE OneOf(s).amount + f[s \ {OneOf(s)}]]
<1>1. Value(S) = (CHOOSE f : Partial(f))[S]
  BY DEF Value, MapThenSumSet, MapThenFoldSet, OneOf
<1>2. \A f : Partial(f) <=> Sums(f, w, S)
  <2>1. ASSUME NEW s \in SUBSET S, s # {} PROVE w[OneOf(s)] = OneOf(s).amount
    <3>1. OneOf(s) \in Note
      BY <2>1 DEF OneOf
    <3> QED BY <3>1
  <2> HIDE DEF w
  <2> QED BY <2>1 DEF Sums
<1> HIDE DEF Partial, w
<1>3. (CHOOSE f : Partial(f)) = (CHOOSE f : Sums(f, w, S))
  BY <1>2
<1>4. Total(w, S) = (CHOOSE f : Sums(f, w, S))[S]
  BY TotalChoose
<1> QED BY <1>1, <1>3, <1>4 DEF w

\* A part is worth no more than the whole, and what is taken out or put in counts once.
LEMMA ValueOf ==
    ASSUME NEW S \in SUBSET Note, IsFiniteSet(S)
    PROVE  /\ Value(S) \in Nat
           /\ \A T \in SUBSET S : /\ Value(T) \in Nat /\ Value(T) <= Value(S)
                                  /\ Value(S \ T) = Value(S) - Value(T)
           /\ \A n \in Note \ S : Value(S \cup {n}) = Value(S) + n.amount
<1> DEFINE w == [n \in Note |-> n.amount]
<1>1. \A n \in Note : w[n] \in Nat /\ w[n] = n.amount
  BY AggregationAssumption DEF Note
<1>2. \A T \in SUBSET Note : Value(T) = Total(w, T)
  BY ValueIsTotal
<1> HIDE DEF w
<1>3. Value(S) \in Nat
  <2>1. \A n \in S : w[n] \in Nat BY <1>1
  <2>2. Total(w, S) \in Nat BY <2>1, TotalAdd
  <2> QED BY <1>2, <2>2
<1>4. ASSUME NEW T \in SUBSET S
      PROVE  /\ Value(T) \in Nat /\ Value(T) <= Value(S)
             /\ Value(S \ T) = Value(S) - Value(T)
  <2>1. IsFiniteSet(T) /\ IsFiniteSet(S \ T) /\ T \cup (S \ T) = S /\ T \cap (S \ T) = {}
    <3>1. (S \ T) \in SUBSET S OBVIOUS
    <3> QED BY <3>1, FS_Subset
  <2>2. /\ \A n \in T : w[n] \in Nat
        /\ \A n \in S \ T : w[n] \in Nat
        /\ \A n \in T \cup (S \ T) : w[n] \in Nat
    BY <1>1
  <2>3. Total(w, T) \in Nat /\ Total(w, S \ T) \in Nat
    BY <2>1, <2>2, TotalAdd
  <2>4. Total(w, T \cup (S \ T)) = Total(w, T) + Total(w, S \ T)
    BY <2>1, <2>2, TotalAddsSet
  <2>5. /\ Value(S) = Total(w, S) /\ Value(T) = Total(w, T) /\ Value(S \ T) = Total(w, S \ T)
        /\ Total(w, S) = Total(w, T) + Total(w, S \ T)
    <3>1. T \in SUBSET Note /\ S \ T \in SUBSET Note OBVIOUS
    <3> QED BY <3>1, <1>2, <2>1, <2>4
  <2> QED BY <2>3, <2>5
<1>5. ASSUME NEW n \in Note \ S PROVE Value(S \cup {n}) = Value(S) + n.amount
  <2>1. \A t \in S \cup {n} : w[t] \in Nat BY <1>1
  <2>2. Total(w, S \cup {n}) = w[n] + Total(w, S) BY <2>1, TotalAddsOne
  <2>3. Value(S \cup {n}) = Total(w, S \cup {n}) /\ Value(S) = Total(w, S) BY <1>2
  <2> QED BY <1>1, <1>3, <2>2, <2>3
<1> QED BY <1>3, <1>4, <1>5

LEMMA ValueOfFew == Value({}) = 0 /\ \A n \in Note : Value({n}) = n.amount
<1>1. Value({}) = 0
  <2>1. {} \in SUBSET Note OBVIOUS
  <2> QED BY <2>1, ValueIsTotal, TotalOfNone
<1>2. ASSUME NEW n \in Note PROVE Value({n}) = n.amount
  <2>1. {} \in SUBSET Note /\ IsFiniteSet({}) /\ n \in Note \ {} /\ {} \cup {n} = {n} BY FS_EmptySet
  <2>2. Value({} \cup {n}) = Value({}) + n.amount BY <2>1, ValueOf
  <2>3. n.amount \in Nat BY AggregationAssumption DEF Note
  <2> QED BY <1>1, <2>1, <2>2, <2>3
<1> QED BY <1>1, <1>2

-----------------------------------------------------------------------------
(* The four things a step may do to the notes and the proofs. *)

MoneyStays == UNCHANGED <<made, funding, floats>>

Earned(k) ==
    /\ funding' = (funding \ made[k].inputs) \cup {n \in {made[k].change} : n.amount > 0}
    /\ UNCHANGED <<made, floats>>

\* A new proof spends what the bridge holds and covers what it pays, or redoes an earlier one.
Spends(inputs, ids) ==
    /\ Prove(inputs, ids) /\ UNCHANGED <<funding, floats>>
    /\ \/ inputs \subseteq funding /\ IsFiniteSet(ids) /\ Cardinality(ids) <= Value(inputs)
       \/ \E k \in 1..Len(made) : inputs = made[k].inputs /\ ids = made[k].ids

Floated ==
    /\ funding = {} /\ floats < MaxFloats
    /\ funding' = {[id |-> -floats, amount |-> Float]} /\ floats' = floats + 1 /\ UNCHANGED made

Moves ==
    \/ MoneyStays \/ Floated
    \/ \E k \in Attempts : Earned(k)
    \/ \E inputs, ids : Spends(inputs, ids)

\* The notes of the funding that a booked proof leaves and brings.
LEMMA EarningKeepsPurse == ASSUME Ledger, Purse, NEW k \in 1..Len(made), Earned(k), made[k].inputs \subseteq funding
                           PROVE  Purse'
<1> DEFINE c == made[k].change
           rest == funding \ made[k].inputs
<1>1. /\ made[k].inputs \in SUBSET funding /\ IsFiniteSet(made[k].ids)
      /\ Cardinality(made[k].ids) \in Nat /\ Cardinality(made[k].ids) <= Value(made[k].inputs)
      /\ c = [id |-> k, amount |-> Value(made[k].inputs) - Cardinality(made[k].ids)]
  BY FS_CardinalityType DEF Purse
<1>2. /\ funding \in SUBSET Note /\ IsFiniteSet(funding) /\ Value(funding) \in Nat /\ Value(funding) <= Float
      /\ Value(made[k].inputs) \in Nat /\ Value(made[k].inputs) <= Value(funding)
      /\ Value(rest) = Value(funding) - Value(made[k].inputs)
  <2>1. funding \in SUBSET Note /\ IsFiniteSet(funding) /\ Value(funding) <= Float BY DEF Purse
  <2>2. /\ Value(funding) \in Nat
        /\ \A T \in SUBSET funding : /\ Value(T) \in Nat /\ Value(T) <= Value(funding)
                                     /\ Value(funding \ T) = Value(funding) - Value(T)
    BY <2>1, ValueOf
  <2> QED BY <1>1, <2>1, <2>2
<1>3. rest \in SUBSET Note /\ IsFiniteSet(rest) /\ Value(rest) \in Nat
  <2>1. rest \in SUBSET funding OBVIOUS
  <2>2. IsFiniteSet(rest) BY <1>2, <2>1, FS_Subset
  <2>3. rest \in SUBSET Note BY <1>2, <2>1
  <2> HIDE DEF rest
  <2> QED BY <2>2, <2>3, ValueOf
<1>4. c \in Note /\ c.amount \in Nat /\ c.amount <= Value(made[k].inputs)
  <2>1. /\ k \in 1..MaxProofs /\ Len(made) \in Nat /\ MaxFloats \in Nat /\ MaxProofs \in Nat /\ Float \in Nat
        /\ k \in Nat
    BY LenProperties, AggregationAssumption, ChainAssumption DEF Ledger, ProofsMade
  <2>2. k \in (1 - MaxFloats)..MaxProofs BY <2>1
  <2>3. Value(made[k].inputs) - Cardinality(made[k].ids) \in 0..Float BY <1>1, <1>2, <2>1
  <2>4. c.amount = Value(made[k].inputs) - Cardinality(made[k].ids) BY <1>1
  <2> QED BY <1>1, <1>2, <2>1, <2>2, <2>3, <2>4 DEF Note
<1>5. funding' \in SUBSET Note /\ IsFiniteSet(funding') /\ Value(funding') <= Float
  <2>1. CASE funding' = rest BY <2>1, <1>1, <1>2, <1>3, AggregationAssumption
  <2>2. CASE funding' = rest \cup {c} /\ c \notin rest
    <3>1. IsFiniteSet(rest \cup {c})
      <4>1. IsFiniteSet(rest) BY <1>3
      <4> HIDE DEF rest, c
      <4> QED BY <4>1, FS_AddElement
    <3>2. Value(rest \cup {c}) = Value(rest) + c.amount
      <4>1. c \in Note \ rest BY <2>2, <1>4
      <4> HIDE DEF rest, c
      <4> QED BY <4>1, <1>3, ValueOf
    <3>3. Value(rest) + c.amount <= Float
      <4>1. Float \in Nat /\ Value(funding) \in Nat /\ Value(funding) <= Float BY <1>2, AggregationAssumption
      <4>2. /\ Value(rest) \in Nat /\ Value(made[k].inputs) \in Nat /\ c.amount \in Nat
            /\ Value(rest) = Value(funding) - Value(made[k].inputs) /\ c.amount <= Value(made[k].inputs)
        BY <1>2, <1>3, <1>4
      <4> HIDE DEF rest, c
      <4> QED BY <4>1, <4>2
    <3> QED BY <2>2, <3>1, <3>2, <3>3, <1>3, <1>4
  <2>3. funding' = rest \/ (funding' = rest \cup {c} /\ c \notin rest) BY DEF Earned
  <2> QED BY <2>1, <2>2, <2>3
<1> QED BY <1>5 DEF Purse, Earned

\* A new proof is worth what it spends.
LEMMA SpendingKeepsPurse == ASSUME Ledger, Purse, NEW inputs, NEW ids, Spends(inputs, ids) PROVE Purse'
<1> DEFINE x == [inputs |-> inputs, ids |-> ids,
                 change |-> [id |-> Len(made) + 1, amount |-> Value(inputs) - Cardinality(ids)]]
<1>1. /\ inputs \in SUBSET Note /\ IsFiniteSet(inputs) /\ IsFiniteSet(ids)
      /\ Cardinality(ids) <= Value(inputs) /\ Value(inputs) <= Float
  <2>1. CASE inputs \subseteq funding /\ IsFiniteSet(ids) /\ Cardinality(ids) <= Value(inputs)
    <3>1. funding \in SUBSET Note /\ IsFiniteSet(funding) /\ Value(funding) <= Float /\ inputs \in SUBSET funding
      BY <2>1 DEF Purse
    <3>2. Value(funding) \in Nat /\ Value(inputs) \in Nat /\ Value(inputs) <= Value(funding)
      BY <3>1, ValueOf
    <3>3. IsFiniteSet(inputs) BY <3>1, FS_Subset
    <3>4. Value(inputs) <= Float BY <3>1, <3>2, AggregationAssumption
    <3> QED BY <2>1, <3>1, <3>3, <3>4
  <2>2. CASE \E k \in 1..Len(made) : inputs = made[k].inputs /\ ids = made[k].ids
    BY <2>2 DEF Purse
  <2> QED BY <2>1, <2>2 DEF Spends
<1>2. made' = Append(made, x) BY DEF Spends, Prove
<1> HIDE DEF x
<1>3. Len(made) \in Nat /\ Len(made') = Len(made) + 1 /\ made'[Len(made) + 1] = x
      /\ \A i \in 1..Len(made) : made'[i] = made[i]
  BY <1>2, Appended DEF Ledger, ProofsMade
<1>4. ASSUME NEW k \in 1..Len(made')
      PROVE  /\ made'[k].inputs \in SUBSET Note /\ IsFiniteSet(made'[k].inputs) /\ IsFiniteSet(made'[k].ids)
             /\ Cardinality(made'[k].ids) <= Value(made'[k].inputs) /\ Value(made'[k].inputs) <= Float
             /\ made'[k].change = [id |-> k, amount |-> Value(made'[k].inputs) - Cardinality(made'[k].ids)]
  <2>1. CASE k \in 1..Len(made) BY <2>1, <1>3 DEF Purse
  <2>2. CASE k = Len(made) + 1 BY <2>2, <1>1, <1>3 DEF x
  <2> QED BY <1>3, <2>1, <2>2
<1> QED BY <1>4 DEF Purse, Spends

LEMMA FloatKeepsPurse == ASSUME Ledger, Purse, Floated PROVE Purse'
<1> DEFINE n == [id |-> -floats, amount |-> Float]
<1>1. /\ floats \in 0..MaxFloats /\ floats < MaxFloats /\ MaxFloats \in Nat /\ Float \in Nat /\ MaxProofs \in Nat
  BY AggregationAssumption, ChainAssumption DEF Purse, Floated
<1>2. n \in Note /\ n.amount = Float
  <2>1. -floats \in (1 - MaxFloats)..MaxProofs /\ Float \in 0..Float BY <1>1
  <2> QED BY <2>1 DEF Note
<1>3. funding' = {n} /\ floats' = floats + 1 /\ made' = made BY DEF Floated
<1> HIDE DEF n
<1>4. IsFiniteSet({n}) /\ Value({n}) = Float BY <1>2, FS_Singleton, ValueOfFew
<1>5. floats' \in 0..MaxFloats /\ Value(funding') <= Float BY <1>1, <1>3, <1>4
<1> QED BY <1>2, <1>3, <1>4, <1>5 DEF Purse

-----------------------------------------------------------------------------
(* What each action does of it. *)

Orderly == Moves /\ pending' \subseteq 1..Len(made) /\ Len(journal') <= MaxAttempts /\ LockHeld'

LEMMA JournalLengths ==
    ASSUME JournalSound, Bounded
    PROVE  /\ Len(journal) \in Nat /\ Len(journal) <= MaxAttempts /\ Len(<<>>) <= MaxAttempts
           /\ \A a \in Attempt : Len(Append(journal, a)) = Len(journal) + 1
           /\ journal # <<>> => /\ \A a \in Attempt : Len([journal EXCEPT ![Len(journal)] = a]) = Len(journal)
                                /\ Len(SubSeq(journal, 1, Len(journal) - 1)) <= Len(journal)
<1>1. journal \in Seq(Attempt) /\ Len(journal) \in Nat /\ Len(journal) <= MaxAttempts
  BY LenProperties DEF JournalSound, Bounded
<1>2. Len(<<>>) <= MaxAttempts BY AggregationAssumption, EmptySeq
<1>3. \A a \in Attempt : Len(Append(journal, a)) = Len(journal) + 1 BY <1>1, AppendProperties
<1>4. ASSUME journal # <<>>
      PROVE  /\ \A a \in Attempt : Len([journal EXCEPT ![Len(journal)] = a]) = Len(journal)
             /\ Len(SubSeq(journal, 1, Len(journal) - 1)) <= Len(journal)
  <2>1. Len(journal) \in 1..Len(journal) BY <1>1, <1>4, EmptySeq
  <2>2. \A a \in Attempt : Len([journal EXCEPT ![Len(journal)] = a]) = Len(journal) BY <1>1, <2>1, ExceptSeq
  <2> DEFINE m == Len(journal) - 1
  <2>3. m \in 0..Len(journal) /\ m <= Len(journal) BY <1>1, <2>1
  <2> HIDE DEF m
  <2>4. \A i \in 1..m : journal[i] \in Attempt BY <1>1, <2>3, ElementOfSeq
  <2>5. Len(SubSeq(journal, 1, m)) = IF 1 <= m THEN m - 1 + 1 ELSE 0 BY <1>1, <2>3, <2>4, SubSeqProperties
  <2>6. Len(SubSeq(journal, 1, m)) <= Len(journal) BY <1>1, <2>3, <2>5
  <2> QED BY <2>2, <2>6 DEF m
<1> QED BY <1>1, <1>2, <1>3, <1>4

LEMMA LeaveHeld == ASSUME Leave PROVE LockHeld'
  BY DEF Leave, LockHeld, Idle

LEMMA EndsHeld == ASSUME Fault \/ Lag \/ Refuse \/ ProverFails \/ CommitFails PROVE LockHeld'
  BY LeaveHeld DEF Fault, Lag, Refuse, ProverFails, CommitFails

LEMMA AtHeld == ASSUME holder # Nobody, holder' = holder, work'.at # "none" PROVE LockHeld'
  BY DEF LockHeld

LEMMA OnwardHeld == ASSUME WorkSound, holder # Nobody, Onward PROVE LockHeld'
<1>1. work \in Work BY DEF WorkSound
<1>2. work'.at = IF work.stage = "chunk" THEN "paid" ELSE "ready" BY <1>1 DEF Onward, Settled, Work
<1> QED BY <1>2, AtHeld DEF Onward

LEMMA ResumeHeld == ASSUME WorkSound, holder # Nobody, NEW k, Resume(k) PROVE LockHeld'
<1>1. work \in Work BY DEF WorkSound
<1>2. work'.at = "await" BY <1>1 DEF Resume, Work
<1> QED BY <1>2, AtHeld DEF Resume

LEMMA RebuildHeld == ASSUME WorkSound, holder # Nobody, NEW a, Rebuild(a) PROVE LockHeld'
<1>1. work \in Work BY DEF WorkSound
<1>2. [work EXCEPT !.at = "reconcile"].at = "reconcile" BY <1>1 DEF Work
<1> QED BY <1>2, AtHeld, EndsHeld DEF Rebuild

\* Notes, proofs and pending stay, and the journal gets no longer.
LEMMA StaysOrderly ==
    ASSUME Bounded, MoneyStays, pending' \subseteq pending, Len(journal') <= MaxAttempts, LockHeld'
    PROVE  Orderly
  BY DEF Orderly, Moves, Bounded

LEMMA BookOrderly ==
    ASSUME Ledger, Bounded, NEW k \in Attempts, Book(k), UNCHANGED <<made, floats>>, LockHeld'
    PROVE  Orderly
<1>1. k \in 1..Len(made) /\ JournalSound BY AttemptsInMade DEF Ledger
<1>2. Earned(k) BY DEF Book, Earned
<1>3. pending' \subseteq 1..Len(made) BY <1>1 DEF Book, Bounded
<1>4. Len(journal') <= MaxAttempts BY <1>1, JournalLengths DEF Book
<1> QED BY <1>2, <1>3, <1>4 DEF Orderly, Moves

LEMMA SettleOrderly ==
    ASSUME AggInv, Bounded, holder # Nobody, Known # {}, Settle(journal[Winner].proof), UNCHANGED <<made, floats>>
    PROVE  Orderly
<1>1. Ledger /\ WorkSound /\ JournalSound BY DEF AggInv, Ledger
<1>2. journal[Winner].proof \in Attempts BY <1>1, WinnerOnChain
<1>3. CASE Book(journal[Winner].proof) /\ Onward
  BY <1>1, <1>2, <1>3, OnwardHeld, BookOrderly
<1>4. CASE Lag /\ UNCHANGED <<books, journal>>
  <2>1. LockHeld' BY <1>4, EndsHeld
  <2>2. Len(journal') <= MaxAttempts BY <1>4 DEF Bounded
  <2> QED BY <1>4, <2>1, <2>2, StaysOrderly DEF MoneyStays, books
<1> QED BY <1>3, <1>4 DEF Settle

LEMMA JournalledOrderly ==
    ASSUME AggInv, Bounded, holder # Nobody, NEW inputs, NEW ids, Journalled(inputs, ids), Len(journal) < MaxAttempts,
           Spends(inputs, ids)
    PROVE  Orderly
<1>1. work \in Work /\ JournalSound /\ made \in Seq({made[k] : k \in 1..Len(made)}) /\ Len(made) \in Nat
  BY LenProperties DEF AggInv, Ledger, WorkSound, ProofsMade
<1>2. holder' = holder /\ work'.at # "none"
  BY <1>1 DEF Journalled, Work
<1>3. Len(journal') <= MaxAttempts
  <2>1. Len(made) < MaxProofs /\ MaxProofs \in Nat BY ChainAssumption DEF Journalled, Prove
  <2>2. Len(made) + 1 \in Proof /\ 0 \in 0..MaxProofs /\ 0 \in 0..MaxStalls
    BY <1>1, <2>1, AggregationAssumption DEF Proof
  <2>3. Fresh(Len(made) + 1) \in Attempt BY <2>2 DEF Fresh, Attempt
  <2>4. Len(journal') = Len(journal) + 1 /\ Len(journal) \in Nat /\ MaxAttempts \in Nat
    BY <1>1, <2>3, JournalLengths, AggregationAssumption DEF Journalled
  <2> QED BY <2>4
<1>4. LockHeld' BY <1>2, AtHeld
<1>5. pending' \subseteq 1..Len(made) BY DEF Journalled, Bounded
<1> QED BY <1>3, <1>4, <1>5 DEF Orderly, Moves

LEMMA ReconcilingOrderly ==
    ASSUME AggInv, MoneyInv, NothingJournalled \/ OperatorWaits \/ WinnerKnown \/ TooManyAttempts \/ Replace,
           UNCHANGED floats
    PROVE  Orderly
<1>0. Ledger /\ WorkSound /\ JournalSound /\ Bounded /\ Purse BY DEF AggInv, Ledger, MoneyInv
<1>1. holder # Nobody
  BY DEF NothingJournalled, OperatorWaits, WinnerKnown, TooManyAttempts, Replace, Replacing, Reconcilable, Reconciling
<1>2. CASE NothingJournalled \/ OperatorWaits
  <2>1. Onward /\ UNCHANGED <<books, journal, made>> BY <1>2 DEF NothingJournalled, OperatorWaits
  <2>2. Len(journal') <= MaxAttempts BY <1>0, <2>1 DEF Bounded
  <2> QED BY <1>0, <1>1, <2>1, <2>2, OnwardHeld, StaysOrderly DEF MoneyStays, books
<1>3. CASE WinnerKnown BY <1>0, <1>1, <1>3, SettleOrderly DEF WinnerKnown
<1>4. CASE TooManyAttempts \/ ProverFails
  <2>1. LockHeld' /\ UNCHANGED <<books, journal, made>> BY <1>4, EndsHeld DEF TooManyAttempts, ProverFails
  <2>2. Len(journal') <= MaxAttempts BY <1>0, <2>1 DEF Bounded
  <2> QED BY <1>0, <2>1, <2>2, StaysOrderly DEF MoneyStays, books
<1>5. CASE Replace /\ Journalled(Inputs, Paid)
  <2>1. journal # <<>> /\ Len(journal) < MaxAttempts
    BY <1>0, <1>5, JournalLengths, AggregationAssumption DEF Replace, Replacing, Reconcilable, Exhausted
  <2>2. Last.proof \in 1..Len(made) BY <1>0, <2>1, LastAttempt
  <2>3. PICK inputs, ids : inputs = Inputs /\ ids = Paid OBVIOUS
  <2>4. Journalled(inputs, ids) BY <1>5, <2>3
  <2>5. inputs = made[Last.proof].inputs /\ ids = made[Last.proof].ids BY <2>3 DEF Inputs, Paid
  <2>6. Spends(inputs, ids) BY <2>2, <2>4, <2>5 DEF Journalled, Spends
  <2> QED BY <1>0, <1>1, <2>1, <2>4, <2>6, JournalledOrderly
<1> QED BY <1>2, <1>3, <1>4, <1>5 DEF Replace

\* The last attempt with another mark.
LEMMA RemarkOrderly ==
    ASSUME AggInv, MoneyInv, journal # <<>>, NEW a \in Attempt, Update(Len(journal), a), LockHeld',
           UNCHANGED <<books, made, floats>>
    PROVE  Orderly
<1>1. JournalSound /\ Bounded BY DEF AggInv, Ledger, MoneyInv
<1>2. Len(journal') <= MaxAttempts BY <1>1, JournalLengths DEF Update
<1> QED BY <1>1, <1>2, StaysOrderly DEF MoneyStays, books

LEMMA QuietOrderly ==
    ASSUME AggInv, MoneyInv, LockHeld', UNCHANGED <<books, journal, made, floats>>
    PROVE  Orderly
<1>1. Bounded /\ Len(journal') <= MaxAttempts BY DEF MoneyInv, Bounded
<1> QED BY <1>1, StaysOrderly DEF MoneyStays, books

\* Marks of an attempt are marks.
LEMMA MarkedAttempt ==
    ASSUME NEW a \in Attempt
    PROVE  /\ [a EXCEPT !.rebuild = TRUE] \in Attempt /\ [a EXCEPT !.attempted = TRUE] \in Attempt
           /\ \A k \in 0..MaxProofs : [a EXCEPT !.request = k] \in Attempt
           /\ \A s \in 0..MaxStalls, r \in BOOLEAN : [a EXCEPT !.stalls = s, !.rebuild = r] \in Attempt
  BY DEF Attempt

LEMMA ResumeOrderly ==
    ASSUME AggInv, MoneyInv, holder # Nobody, journal # <<>>, NEW k \in 1..Len(made), Resume(k),
           UNCHANGED <<books, made, floats>>
    PROVE  Orderly
<1>1. JournalSound /\ WorkSound /\ ProofsMade BY DEF AggInv, Ledger
<1>2. Last \in Attempt BY <1>1, LastAttempt
<1>3. k \in 0..MaxProofs BY <1>1, LenProperties, ChainAssumption DEF ProofsMade
<1>4. [Last EXCEPT !.request = k] \in Attempt BY <1>2, <1>3, MarkedAttempt
<1>5. LockHeld' BY <1>1, ResumeHeld
<1>6. Update(Len(journal), [Last EXCEPT !.request = k]) BY DEF Resume
<1> QED BY <1>4, <1>5, <1>6, RemarkOrderly

LEMMA RebuildOrderly ==
    ASSUME AggInv, MoneyInv, holder # Nobody, journal # <<>>, Rebuild(Last), UNCHANGED <<books, made, floats>>
    PROVE  Orderly
<1>1. JournalSound /\ WorkSound BY DEF AggInv, Ledger
<1>2. [Last EXCEPT !.rebuild = TRUE] \in Attempt BY <1>1, LastAttempt, MarkedAttempt
<1>3. LockHeld' BY <1>1, RebuildHeld
<1>4. Update(Len(journal), [Last EXCEPT !.rebuild = TRUE]) BY DEF Rebuild
<1> QED BY <1>2, <1>3, <1>4, RemarkOrderly

LEMMA LookingOrderly ==
    ASSUME AggInv, MoneyInv, LookupFinds \/ LookupReplaces \/ Send, UNCHANGED floats
    PROVE  Orderly
<1>0. JournalSound /\ WorkSound /\ ChainSound BY DEF AggInv, Ledger
<1>1. holder # Nobody /\ journal # <<>> BY DEF LookupFinds, LookupReplaces, Send, Looking, Reconciling
<1>2. CASE LookupFinds
  <2>1. Asked \in 1..Len(made)
    <3>1. Last.proof \in 1..Len(made) BY <1>0, <1>1, LastAttempt
    <3>2. \A k : Tracked(k) => k \in 1..Len(made) BY <1>0 DEF Tracked, ChainSound
    <3> QED BY <3>1, <3>2 DEF Asked
  <2> QED BY <1>1, <1>2, <2>1, ResumeOrderly DEF LookupFinds
<1>3. CASE LookupReplaces
  <2>1. CASE Rebuild(Last) BY <1>1, <1>3, <2>1, RebuildOrderly DEF LookupReplaces
  <2>2. CASE Lag /\ UNCHANGED journal BY <1>3, <2>2, EndsHeld, QuietOrderly DEF LookupReplaces
  <2> QED BY <1>3, <2>1, <2>2 DEF LookupReplaces
<1>4. CASE Send
  <2>1. work \in Work BY <1>0 DEF WorkSound
  <2>2. work'.at = "post" /\ holder' = holder BY <1>4, <2>1 DEF Send, Work
  <2>3. LockHeld' BY <1>1, <2>2, AtHeld
  <2>4. [Last EXCEPT !.attempted = TRUE] \in Attempt BY <1>0, <1>1, LastAttempt, MarkedAttempt
  <2> QED BY <1>1, <1>4, <2>3, <2>4, RemarkOrderly DEF Send
<1> QED BY <1>2, <1>3, <1>4

\* The journal is dropped, or its last attempt is.
LEMMA DropsOrderly ==
    ASSUME AggInv, MoneyInv, journal # <<>>, LockHeld', UNCHANGED <<made, floats>>,
           Release \/ (journal' = SubSeq(journal, 1, Len(journal) - 1) /\ UNCHANGED books)
    PROVE  Orderly
<1>1. JournalSound /\ Bounded BY DEF AggInv, Ledger, MoneyInv
<1>2. /\ Len(journal) \in Nat /\ Len(journal) <= MaxAttempts /\ Len(<<>>) <= MaxAttempts
      /\ Len(SubSeq(journal, 1, Len(journal) - 1)) <= Len(journal)
  BY <1>1, JournalLengths
<1>3. MaxAttempts \in Nat /\ Len(SubSeq(journal, 1, Len(journal) - 1)) <= MaxAttempts
  <2>1. MaxAttempts \in Nat BY AggregationAssumption
  <2> DEFINE l == Len(SubSeq(journal, 1, Len(journal) - 1))
  <2>2. l \in Nat
    <3>1. journal \in Seq(Attempt) /\ Len(journal) \in 1..Len(journal) BY <1>1, <1>2, EmptySeq DEF JournalSound
    <3> DEFINE m == Len(journal) - 1
    <3>2. m \in 0..Len(journal) BY <1>2, <3>1
    <3> HIDE DEF m
    <3>3. \A i \in 1..m : journal[i] \in Attempt BY <1>2, <3>1, <3>2, ElementOfSeq
    <3>4. SubSeq(journal, 1, m) \in Seq(Attempt) BY <3>1, <3>2, <3>3, SubSeqProperties
    <3> QED BY <3>4, LenProperties DEF m
  <2> QED BY <1>2, <2>1, <2>2
<1>4. Len(journal') <= MaxAttempts BY <1>2, <1>3 DEF Release
<1>5. MoneyStays /\ pending' \subseteq pending BY DEF MoneyStays, Release, books
<1> QED BY <1>1, <1>4, <1>5, StaysOrderly

LEMMA AwaitingOrderly ==
    ASSUME AggInv, MoneyInv, Included \/ Failed \/ AwaitReplaces \/ TimedOut, UNCHANGED floats
    PROVE  Orderly
<1>0. JournalSound /\ WorkSound /\ Bounded BY DEF AggInv, Ledger, MoneyInv
<1>1. holder # Nobody /\ journal # <<>>
  BY <1>0 DEF Included, Failed, AwaitReplaces, TimedOut, Awaiting, WorkSound
<1>2. Last \in Attempt BY <1>0, <1>1, LastAttempt
<1>3. CASE Included
  <2>1. CASE Known # {} /\ Settle(journal[Winner].proof) BY <1>0, <1>1, <1>3, <2>1, SettleOrderly DEF Included
  <2>2. CASE Fault /\ UNCHANGED <<books, journal>> BY <1>3, <2>2, EndsHeld, QuietOrderly DEF Included
  <2> QED BY <1>3, <2>1, <2>2 DEF Included
<1>4. CASE Failed
  <2>1. LockHeld' /\ UNCHANGED made BY <1>4, EndsHeld DEF Failed
  <2>2. CASE Release BY <1>1, <2>1, <2>2, DropsOrderly
  <2>3. CASE Update(Len(journal), [Last EXCEPT !.rebuild = TRUE]) /\ UNCHANGED books
    BY <1>1, <1>2, <2>1, <2>3, MarkedAttempt, RemarkOrderly
  <2> QED BY <1>4, <2>2, <2>3 DEF Failed
<1>5. CASE AwaitReplaces
  <2>1. CASE Rebuild(Last) BY <1>1, <1>5, <2>1, RebuildOrderly DEF AwaitReplaces
  <2>2. CASE Lag /\ UNCHANGED journal BY <1>5, <2>2, EndsHeld, QuietOrderly DEF AwaitReplaces
  <2> QED BY <1>5, <2>1, <2>2 DEF AwaitReplaces
<1>6. CASE TimedOut
  <2>1. LockHeld' /\ UNCHANGED <<books, made>> BY <1>6, EndsHeld DEF TimedOut
  <2>2. PICK progressed \in BOOLEAN :
          LET stalls == IF progressed THEN 1 ELSE IF Last.stalls < MaxStalls THEN Last.stalls + 1 ELSE MaxStalls
          IN Update(Len(journal), [Last EXCEPT !.stalls = stalls, !.rebuild = stalls >= MaxStalls])
    BY <1>6 DEF TimedOut
  <2> DEFINE stalls == IF progressed THEN 1 ELSE IF Last.stalls < MaxStalls THEN Last.stalls + 1 ELSE MaxStalls
             r == stalls >= MaxStalls
  <2>3. stalls \in 0..MaxStalls /\ r \in BOOLEAN
    <3>1. MaxStalls \in Nat \ {0} /\ Last.stalls \in 0..MaxStalls BY <1>2, AggregationAssumption DEF Attempt
    <3> QED BY <3>1
  <2>4. Update(Len(journal), [Last EXCEPT !.stalls = stalls, !.rebuild = r]) BY <2>2
  <2> HIDE DEF stalls, r
  <2>5. [Last EXCEPT !.stalls = stalls, !.rebuild = r] \in Attempt BY <1>2, <2>3, MarkedAttempt
  <2> QED BY <1>1, <2>1, <2>4, <2>5, RemarkOrderly
<1> QED BY <1>3, <1>4, <1>5, <1>6

LEMMA CommitFailOrderly == ASSUME AggInv, MoneyInv, CommitFails, UNCHANGED floats PROVE Orderly
  BY EndsHeld, QuietOrderly DEF CommitFails, books

LEMMA CommitsOrderly ==
    ASSUME AggInv, MoneyInv, Commits, UNCHANGED <<funding, floats, journal, made>>, LockHeld'
    PROVE  Orderly
<1>1. Bounded /\ Len(journal') <= MaxAttempts BY DEF MoneyInv, Bounded
<1> QED BY <1>1, StaysOrderly DEF MoneyStays, Commits

LEMMA ChunkFinite == ASSUME AggInv, holder # Nobody PROVE IsFiniteSet(Chunk) /\ Cardinality(Chunk) \in Nat
<1> DEFINE b == call[holder].batch
           J == {j \in Left : Cardinality({l \in Left : l < j}) < ChunkSize}
           f == [j \in J |-> b[j]]
<1>1. b \in Batches \cup {<<>>} BY DEF AggInv, WorkSound, CallsSound, Call
<1>2. b \in Seq(Deposits)
  <2>1. <<>> \in Seq(Deposits) OBVIOUS
  <2> QED BY <2>1, <1>1, AggregationAssumption
<1>3. IsFiniteSet(1..Len(b)) BY <1>2, LenProperties, FS_Interval
<1>4. J \in SUBSET (1..Len(b)) BY DEF Left
<1>5. IsFiniteSet(J) BY <1>3, <1>4, FS_Subset
<1>6. Chunk = {f[j] : j \in J} BY DEF Chunk
<1>7. f \in Surjection(J, Chunk) BY <1>6 DEF Surjection
<1> HIDE DEF f, J
<1>8. IsFiniteSet(Chunk) BY <1>5, <1>7, FS_Surjection
<1> QED BY <1>8, FS_CardinalityType

LEMMA AllocateOrderly ==
    ASSUME AggInv, MoneyInv, Allocate, UNCHANGED floats
    PROVE  Orderly
<1>0. WorkSound /\ Purse /\ Bounded BY DEF AggInv, MoneyInv
<1>1. holder # Nobody /\ work.at = "ready" /\ work.stage = "chunk" BY DEF Allocate, Ready
<1>2. CASE Refuse /\ UNCHANGED <<books, journal, made>> BY <1>2, EndsHeld, QuietOrderly
<1>3. CASE ProverFails BY <1>3, EndsHeld, QuietOrderly DEF ProverFails
<1>4. CASE Journalled(Selected, Chunk) /\ ~(Value(Selected) < Cardinality(Chunk))
  <2>1. Selected \in SUBSET funding BY DEF Selected, Largest
  <2>2. PICK inputs, ids : inputs = Selected /\ ids = Chunk OBVIOUS
  <2>3. Journalled(inputs, ids) /\ ~(Value(inputs) < Cardinality(ids)) /\ inputs \in SUBSET funding BY <1>4, <2>1, <2>2
  <2>4. IsFiniteSet(ids) /\ Cardinality(ids) \in Nat BY <1>1, <2>2, ChunkFinite
  <2>5. Value(inputs) \in Nat
    <3>1. funding \in SUBSET Note /\ IsFiniteSet(funding) BY <1>0 DEF Purse
    <3>2. \A T \in SUBSET funding : Value(T) \in Nat BY <3>1, ValueOf
    <3> QED BY <2>3, <3>2
  <2>6. Spends(inputs, ids) BY <2>3, <2>4, <2>5 DEF Journalled, Spends
  <2>7. Len(journal) < MaxAttempts
    <3>1. journal = <<>> BY <1>0, <1>1 DEF WorkSound
    <3> QED BY <3>1, EmptySeq, AggregationAssumption
  <2> QED BY <1>0, <1>1, <2>3, <2>6, <2>7, JournalledOrderly
<1> QED BY <1>2, <1>3, <1>4 DEF Allocate

LEMMA ChunksOrderly ==
    ASSUME AggInv, MoneyInv, Classify \/ NextChunk \/ Finish, UNCHANGED floats
    PROVE  Orderly
<1>0. holder # Nobody /\ work \in Work BY DEF Classify, NextChunk, Finish, Ready, AggInv, WorkSound
<1>1. CASE CommitFails BY <1>1, CommitFailOrderly
<1>2. CASE Classify /\ ~CommitFails
  <2>1. Commits /\ UNCHANGED <<funding, record, booked, journal, made, call, holder>> BY <1>2 DEF Classify
  <2>2. work.at = "ready" BY <1>2 DEF Classify, Ready
  <2>3. work'.at = work.at BY <1>0, <1>2 DEF Classify, Work
  <2>4. LockHeld' BY <1>0, <2>1, <2>2, <2>3, AtHeld
  <2> QED BY <2>1, <2>4, CommitsOrderly
<1>3. CASE NextChunk /\ ~CommitFails
  <2>1. Commits /\ UNCHANGED <<funding, record, booked, journal, made, call, holder>> BY <1>3 DEF NextChunk
  <2>2. work'.at = "ready" BY <1>0, <1>3 DEF NextChunk, Work
  <2>3. LockHeld' BY <1>0, <2>1, <2>2, AtHeld
  <2> QED BY <2>1, <2>3, CommitsOrderly
<1>4. CASE Finish BY <1>4, LeaveHeld, QuietOrderly DEF Finish
<1> QED BY <1>1, <1>2, <1>3, <1>4

LEMMA FundOrderly == ASSUME AggInv, MoneyInv, Fund PROVE Orderly
<1>0. Bounded BY DEF MoneyInv
<1>1. CASE /\ Commits /\ Leave /\ UNCHANGED <<record, booked, journal, made>>
           /\ funding = {} /\ floats < MaxFloats
           /\ funding' = {[id |-> -floats, amount |-> Float]} /\ floats' = floats + 1
  <2>1. Floated BY <1>1 DEF Floated
  <2>2. pending' \subseteq 1..Len(made) /\ Len(journal') <= MaxAttempts BY <1>0, <1>1 DEF Commits, Bounded
  <2> QED BY <1>1, <2>1, <2>2, LeaveHeld DEF Orderly, Moves
<1>2. CASE Commits /\ Leave /\ UNCHANGED <<record, booked, journal, made, funding, floats>>
  BY <1>2, LeaveHeld, CommitsOrderly
<1>3. CASE Lag /\ UNCHANGED <<books, journal, made, floats>> BY <1>3, EndsHeld, QuietOrderly
<1>4. CASE CommitFails /\ UNCHANGED floats BY <1>4, CommitFailOrderly
<1> QED BY <1>1, <1>2, <1>3, <1>4 DEF Fund

LEMMA PostingOrderly ==
    ASSUME AggInv, MoneyInv, PostAccepted \/ PostConflicts \/ PostLost \/ PostRejected, UNCHANGED floats
    PROVE  Orderly
<1>0. JournalSound /\ WorkSound /\ ChainSound BY DEF AggInv, Ledger
<1>1. holder # Nobody /\ journal # <<>> /\ UNCHANGED made
  BY <1>0 DEF PostAccepted, PostConflicts, PostLost, PostRejected, Posting, WorkSound, chainVars
<1>2. CASE Lag /\ UNCHANGED <<books, journal>> BY <1>1, <1>2, EndsHeld, QuietOrderly
<1>3. CASE PostAccepted
  <2>1. Last.proof \in 1..Len(made) BY <1>0, <1>1, LastAttempt
  <2>2. CASE Resume(Last.proof) BY <1>1, <1>3, <2>1, <2>2, ResumeOrderly DEF PostAccepted
  <2> QED BY <1>2, <1>3, <2>2 DEF PostAccepted
<1>4. CASE PostConflicts
  <2>1. PICK k \in held \ forgotten : Resume(k) BY <1>4 DEF PostConflicts
  <2>2. k \in 1..Len(made) BY <1>0 DEF ChainSound
  <2> QED BY <1>1, <1>4, <2>1, <2>2, ResumeOrderly DEF PostConflicts
<1>5. CASE PostRejected
  <2>1. CASE Release /\ Lag BY <1>1, <2>1, EndsHeld, DropsOrderly
  <2>2. CASE Rebuild(Last) /\ UNCHANGED books BY <1>1, <2>2, RebuildOrderly
  <2>3. CASE /\ journal' = SubSeq(journal, 1, Len(journal) - 1) /\ UNCHANGED books
             /\ IF work.rebuilt THEN Lag ELSE work' = [work EXCEPT !.at = "reconcile"] /\ UNCHANGED <<call, holder>>
    <3>1. work \in Work BY <1>0 DEF WorkSound
    <3>2. [work EXCEPT !.at = "reconcile"].at = "reconcile" BY <3>1 DEF Work
    <3>3. LockHeld' BY <1>1, <2>3, <3>2, AtHeld, EndsHeld
    <3> QED BY <1>1, <2>3, <3>3, DropsOrderly
  <2> QED BY <1>5, <2>1, <2>2, <2>3 DEF PostRejected
<1> QED BY <1>2, <1>3, <1>4, <1>5 DEF PostLost

LEMMA BroadcastingOrderly ==
    ASSUME AggInv, MoneyInv, BroadcastLands \/ BroadcastUncertain \/ BroadcastFails, UNCHANGED floats
    PROVE  Orderly
<1>0. Ledger /\ JournalSound /\ WorkSound /\ Bounded BY DEF AggInv, Ledger, MoneyInv
<1>1. holder # Nobody /\ journal # <<>> /\ UNCHANGED made
  BY <1>0 DEF BroadcastLands, BroadcastUncertain, BroadcastFails, Broadcasting, WorkSound, chainVars
<1>2. CASE Lag /\ UNCHANGED <<books, journal>> BY <1>1, <1>2, EndsHeld, QuietOrderly
<1>3. CASE Book(Last.proof) /\ Onward
  BY <1>0, <1>1, <1>3, LastAttempt, OnwardHeld, BookOrderly
<1>4. CASE BroadcastFails
  BY <1>1, <1>4, EndsHeld, DropsOrderly DEF BroadcastFails
<1> QED BY <1>2, <1>3, <1>4 DEF BroadcastLands, BroadcastUncertain

LEMMA CallersOrderly ==
    ASSUME AggInv, MoneyInv,
           \/ \E c \in Caller : (\E b \in Batches : Request(c, b)) \/ Enter(c)
           \/ Crash
           \/ ChainStep /\ UNCHANGED bridgeVars
           \/ UNCHANGED aggVars
    PROVE  Orderly
<1>1. UNCHANGED <<books, journal, made, floats>>
  BY DEF Request, Enter, Crash, ChainStep, Land, Abandon, Forget, Finalize, Reorganise, bridgeVars, aggVars, chainVars,
         books
<1>2. CASE \E c \in Caller : Enter(c)
  <2>1. PICK c \in Caller : Enter(c) BY <1>2
  <2>2. holder' # Nobody /\ work'.at = "reconcile" BY <2>1, AggregationAssumption DEF Enter, Idle
  <2> QED BY <1>1, <2>2, QuietOrderly DEF LockHeld
<1>3. CASE Crash BY <1>1, <1>3, LeaveHeld, QuietOrderly DEF Crash
<1>4. CASE UNCHANGED <<holder, work>> BY <1>1, <1>4, QuietOrderly DEF MoneyInv, LockHeld
<1> QED BY <1>2, <1>3, <1>4 DEF Request, bridgeVars, aggVars

\* Every step is orderly, and orderly steps keep the notes in order.
LEMMA StepsOrderly == ASSUME AggInv, MoneyInv, [AggNext]_aggVars PROVE Orderly
<1>1. CASE Settling
  <2>1. UNCHANGED floats BY <1>1 DEF Settling
  <2> QED BY <1>1, <2>1, ReconcilingOrderly, LookingOrderly, AwaitingOrderly, AllocateOrderly, ChunksOrderly DEF Settling
<1>2. CASE Sending
  <2>1. UNCHANGED floats BY <1>2 DEF Sending
  <2> QED BY <1>2, <2>1, PostingOrderly, BroadcastingOrderly DEF Sending
<1>3. CASE Fund BY <1>3, FundOrderly
<1> QED BY <1>1, <1>2, <1>3, CallersOrderly DEF AggNext

LEMMA OrderlyKeeps == ASSUME AggInv, MoneyInv, Orderly PROVE MoneyInv'
<1>0. Ledger /\ Purse /\ ProofsMade /\ JournalSound BY DEF AggInv, MoneyInv, Ledger
<1>1. Purse' /\ Len(made) \in Nat /\ (made' = made \/ Len(made') = Len(made) + 1)
  <2>1. Len(made) \in Nat BY <1>0, LenProperties DEF ProofsMade
  <2>2. CASE MoneyStays BY <2>1, <2>2, <1>0 DEF MoneyStays, Purse
  <2>3. CASE Floated BY <2>1, <2>3, <1>0, FloatKeepsPurse DEF Floated
  <2>4. CASE \E k \in Attempts : Earned(k)
    <3>1. PICK k \in Attempts : Earned(k) BY <2>4
    <3>2. k \in 1..Len(made) /\ made[k].inputs \subseteq funding BY <1>0 DEF JournalSound, Attempts
    <3> QED BY <2>1, <3>1, <3>2, <1>0, EarningKeepsPurse DEF Earned
  <2>5. CASE \E inputs, ids : Spends(inputs, ids)
    <3>1. PICK inputs, ids : Spends(inputs, ids) BY <2>5
    <3>2. PICK x : made' = Append(made, x) BY <3>1 DEF Spends, Prove
    <3>3. Len(made') = Len(made) + 1 BY <3>2, <1>0, Appended DEF ProofsMade
    <3> QED BY <2>1, <3>1, <3>3, <1>0, SpendingKeepsPurse
  <2> QED BY <2>2, <2>3, <2>4, <2>5 DEF Orderly, Moves
<1>2. Bounded'
  <2>1. 1..Len(made) \subseteq 1..Len(made') BY <1>1
  <2> QED BY <2>1 DEF Orderly, Bounded
<1> QED BY <1>1, <1>2 DEF MoneyInv, Orderly

LEMMA MoneyBegins == ASSUME AggInit PROVE MoneyInv
<1>1. floats \in 0..MaxFloats /\ funding = {} /\ Value({}) <= Float
  BY ValueOfFew, AggregationAssumption DEF AggInit
<1>2. Len(made) = 0 /\ Len(journal) = 0 /\ 0 <= MaxAttempts
  BY EmptySeq, AggregationAssumption DEF AggInit, ChainInit
<1>3. 1..Len(made) = {} BY <1>2
<1> QED BY <1>1, <1>2, <1>3, FS_EmptySet DEF AggInit, MoneyInv, Purse, Bounded, LockHeld, Idle

Configured == submission \in Submissions

LEMMA MoneyStep == ASSUME AggInv, MoneyInv, [AggNext]_aggVars PROVE MoneyInv'
  BY StepsOrderly, OrderlyKeeps

LEMMA StaysConfigured == /\ AggInit => Configured
                         /\ Configured /\ [AggNext]_aggVars => Configured'
  BY DEF Configured, AggInit, AggNext, Request, Enter, Crash, bridgeVars, aggVars

LEMMA BridgeTypes == ASSUME AggInv, MoneyInv, Configured PROVE AggTypeOK
<1>1. 1..Len(made) \subseteq Proof
  BY LenProperties, ChainAssumption DEF AggInv, Ledger, ProofsMade, Proof
<1>2. funding \subseteq Note /\ pending \subseteq Proof /\ booked \subseteq Proof
  BY <1>1 DEF AggInv, Ledger, BooksSound, MoneyInv, Purse, Bounded
<1>3. journal \in Seq(Attempt) /\ Len(journal) <= MaxAttempts
  BY DEF AggInv, Ledger, JournalSound, MoneyInv, Bounded
<1>4. (holder = Nobody) = (work = Idle)
  BY DEF MoneyInv, LockHeld, Idle
<1> QED BY <1>2, <1>3, <1>4 DEF AggTypeOK, AggInv, Ledger, BooksSound, WorkSound, CallsSound, Configured

\* What the bridge keeps is what its types say (build_pix_aggregation, save_update): no change is negative and no
\* note is worth more than a float, whatever is replaced, dropped or booked; the journal never has more than
\* MAX_RELAY_AGGREGATION_ATTEMPTS attempts; and a call works exactly while it holds the chain lock.
THEOREM BridgeTyped == AggSpec => []AggTypeOK
<1>1. AggInv /\ MoneyInv /\ Configured => AggTypeOK BY BridgeTypes
<1>2. AggInv /\ MoneyInv /\ [AggNext]_aggVars => MoneyInv' BY MoneyStep
<1>3. AggSpec => [](MoneyInv /\ Configured)
  BY AggInvariant, MoneyBegins, StaysConfigured, <1>2, PTL DEF AggSpec
<1> QED BY <1>1, <1>3, AggInvariant, PTL
=============================================================================
