----------------------------- MODULE PoolProofs -----------------------------
(***************************************************************************)
(* Proofs about the deposit pools, for any number of notes, nonces,        *)
(* addresses, transfers, retries, waiters and pages: a float is shielded   *)
(* once, a plain deposit is paid once and swept whole, no note that        *)
(* somebody waits for is left behind by the watcher, and a sweep forgets   *)
(* no unspent note, each unless the one race happened that its property    *)
(* names.                                                                  *)
(*                                                                         *)
(* No property is inductive.  A shield is safe because the call that holds *)
(* a nonce for a note knows of every other nonce the note might have       *)
(* (CallKnows); a deposit because an address that was paid at most once    *)
(* holds what its transfers say (Holdings), so that a balance that reads   *)
(* as nothing does exclude a payment; a waiter because in every place of a *)
(* pass the notes behind it are judged and correlated unless a pass from   *)
(* genesis is asked for (PassKnows), and a pass that can fail without      *)
(* asking for one never ran before the durable cursors (CommitBehind); a   *)
(* sweep because each place of it knows what became of the withdrawals it  *)
(* sent (SweepInv).  With the invariants of the bridge they keep the pools *)
(* within their types, side by side (PoolsInv).                            *)
(***************************************************************************)
EXTENDS AggregationProofs, DepositPools, FiniteSetTheorems, SequenceTheorems, TLAPS

-----------------------------------------------------------------------------
(***************************************************************************)
(* The direct shield.                                                      *)
(***************************************************************************)

\* The nonces that executed a note, and those at which a copy of it still waits.
Claims(k) == Executions(k) \cup {n \in Nonce : mempool[n] = k}

\* What waits has not been mined yet.
QueueAhead == \A n \in Nonce : mempool[n] # Nothing => n > Len(mined)

\* A copy was never sent further than one nonce ahead of what Blokli showed, and its note is booked or journalled.
ClaimsAccounted ==
    \A k \in PreparedNote : \A n \in Claims(k) : n <= seen + 1 /\ k \in shielded \cup {inFlight}

OneClaim == \A k \in PreparedNote \ overlooked : \A m, n \in Claims(k) : m = n

CallBounds ==
    /\ shield.at # "off" => inFlight # None
    /\ shield.at \in {"send", "settle", "landed"} => shield.nonce <= seen + 1
    /\ shield.at = "landed" => shield.nonce <= seen

\* What the call relies on: once it has its nonce the note has no other, and it comes for a fresh one only
\* when the note has none.
CallKnows ==
    inFlight \notin overlooked =>
        /\ shield.at \in {"send", "settle", "landed"} => Claims(inFlight) \subseteq {shield.nonce}
        /\ shield.at = "count" /\ shield.left < NonceRetries => Claims(inFlight) = {}

ShieldedExecuted == \A k \in shielded : Executions(k) # {}

ShieldInv ==
    /\ ShieldTypeOK /\ notes \in 0..MaxNotes
    /\ QueueAhead /\ ClaimsAccounted /\ OneClaim /\ CallBounds /\ CallKnows /\ ShieldedExecuted

\* The record of the call, field by field.
LEMMA ShieldFields ==
    ASSUME ShieldTypeOK
    PROVE  /\ shield.at \in {"off", "status", "count", "send", "confirm", "settle", "landed", "observe"}
           /\ shield.nonce \in 0..MaxNonce /\ shield.left \in 0..NonceRetries
           /\ seen \in Nat /\ Len(mined) \in Nat /\ seen <= Len(mined) /\ Len(mined) <= MaxNonce
           /\ MaxNonce \in Nat /\ NonceRetries \in Nat /\ NonceRetries > 0 /\ MaxNotes \in Nat
BY ShieldAssumption DEF ShieldTypeOK

\* Copies are at nonces.
LEMMA ClaimsAreNonces ==
    ASSUME ShieldTypeOK, NEW k \in PreparedNote
    PROVE  /\ Claims(k) \subseteq Nonce /\ Executions(k) \subseteq 1..Len(mined)
           /\ \A n \in Executions(k) : n \in Claims(k)
<1>1. Executions(k) \subseteq 1..Len(mined)
  BY DEF Executions
<1>2. 1..Len(mined) \subseteq Nonce
  BY ShieldFields DEF Nonce
<1> QED
  BY <1>1, <1>2 DEF Claims

\* A step that leaves the call alone and takes no claim but those there were keeps the invariant.
LEMMA ClaimsShrink ==
    ASSUME ShieldInv, ShieldTypeOK', QueueAhead', UNCHANGED <<shielded, inFlight, notes, shield, overlooked>>,
           \A k \in PreparedNote : Claims(k)' \subseteq Claims(k) /\ Executions(k) \subseteq Executions(k)',
           seen <= seen'
    PROVE  ShieldInv'
<1>1. ShieldTypeOK /\ seen \in Nat /\ seen' \in Nat /\ seen <= seen' /\ shielded \subseteq PreparedNote
  BY ShieldFields DEF ShieldInv, ShieldTypeOK
<1>2. ClaimsAccounted'
  <2> SUFFICES ASSUME NEW k \in PreparedNote, NEW n \in Claims(k)'
               PROVE  n <= seen' + 1 /\ k \in shielded' \cup {inFlight'}
    BY DEF ClaimsAccounted
  <2>1. n \in Claims(k) /\ n \in Nat
    BY <1>1, ClaimsAreNonces DEF Nonce
  <2>2. n <= seen + 1
    BY <2>1 DEF ShieldInv, ClaimsAccounted
  <2>3. k \in shielded \cup {inFlight}
    BY <2>1 DEF ShieldInv, ClaimsAccounted
  <2>4. n <= seen' + 1
    <3>1. \A x, y, z \in Nat : x <= y + 1 /\ y <= z => x <= z + 1
      OBVIOUS
    <3> QED
      BY <1>1, <2>1, <2>2, <3>1, Zenon
  <2> QED
    BY <2>3, <2>4
<1>3. OneClaim'
  <2> SUFFICES ASSUME NEW k \in PreparedNote \ overlooked', NEW m \in Claims(k)', NEW n \in Claims(k)'
               PROVE  m = n
    BY DEF OneClaim
  <2> QED
    BY DEF ShieldInv, OneClaim
<1>4. CallBounds'
  BY <1>1, ShieldFields DEF ShieldInv, CallBounds
<1>5. CallKnows'
  <2>1. inFlight \in PreparedNote \/ shield.at = "off"
    BY <1>1, ShieldFields DEF ShieldInv, CallBounds, ShieldTypeOK, None, PreparedNote
  <2>2. CASE inFlight \in PreparedNote
    <3>1. Claims(inFlight)' \subseteq Claims(inFlight)
      <4>1. PICK k \in PreparedNote : k = inFlight
        BY <2>2
      <4>2. Claims(k)' \subseteq Claims(k)
        OBVIOUS
      <4> QED
        BY <4>1, <4>2 DEF Claims, Executions
    <3> QED
      BY <3>1 DEF ShieldInv, CallKnows
  <2> QED
    BY <2>1, <2>2 DEF CallKnows
<1>6. ShieldedExecuted'
  BY <1>1 DEF ShieldInv, ShieldedExecuted
<1> QED
  BY <1>2, <1>3, <1>4, <1>5, <1>6 DEF ShieldInv
\* The chain moves on: what waits may be mined or dropped, and nothing else becomes a copy.
LEMMA ChainKeepsShields == ASSUME ShieldInv, ChainMoves PROVE ShieldInv'
<1> DEFINE Tx == PreparedNote \cup {OwnBusiness}
           NothingLost == /\ \A k \in PreparedNote : /\ Claims(k)' \subseteq Claims(k)
                                                     /\ Executions(k) \subseteq Executions(k)'
                          /\ ShieldTypeOK' /\ QueueAhead' /\ seen <= seen'
<1>1. ShieldTypeOK /\ QueueAhead /\ UNCHANGED <<shielded, inFlight, notes, shield, overlooked>>
  BY DEF ShieldInv, ChainMoves
<1>2. /\ seen \in Nat /\ Len(mined) \in Nat /\ seen <= Len(mined) /\ MaxNonce \in Nat /\ Len(mined) <= MaxNonce
      /\ mined \in Seq([tx : Tx, done : BOOLEAN]) /\ mempool \in [Nonce -> 0..OwnBusiness]
  BY <1>1, ShieldFields DEF ShieldTypeOK
<1>3. MaxNotes \in Nat /\ OwnBusiness = MaxNotes + 1 /\ \A k \in PreparedNote : k # OwnBusiness /\ k # Nothing
  BY ShieldFields, <1>1 DEF OwnBusiness, PreparedNote, Nothing
<1>4. ASSUME NEW n \in Nonce, NodeSends(n) PROVE NothingLost
  <2>1. /\ mempool' = [mempool EXCEPT ![n] = OwnBusiness] /\ UNCHANGED <<mined, seen>>
        /\ n > Len(mined)
    BY <1>4 DEF NodeSends
  <2>2. ASSUME NEW k \in PreparedNote
        PROVE  Claims(k)' \subseteq Claims(k) /\ Executions(k)' = Executions(k)
    <3>1. \A m \in Nonce : mempool'[m] = k => mempool[m] = k
      BY <1>2, <1>3, <2>1
    <3>2. Executions(k)' = Executions(k)
      BY <2>1 DEF Executions
    <3> QED
      BY <3>1, <3>2 DEF Claims
  <2>3. mempool' \in [Nonce -> 0..OwnBusiness]
    BY <1>2, <1>3, <2>1
  <2>4. QueueAhead'
    BY <1>1, <1>2, <2>1 DEF QueueAhead
  <2>5. ShieldTypeOK'
    BY <1>1, <2>1, <2>3 DEF ShieldTypeOK
  <2> QED
    BY <1>2, <2>1, <2>2, <2>4, <2>5
<1>5. ASSUME NEW n \in Nonce, Evict(n) PROVE NothingLost
  <2>1. /\ mempool' = [mempool EXCEPT ![n] = Nothing] /\ UNCHANGED <<mined, seen>>
    BY <1>5 DEF Evict
  <2>2. ASSUME NEW k \in PreparedNote
        PROVE  Claims(k)' \subseteq Claims(k) /\ Executions(k)' = Executions(k)
    <3>1. \A m \in Nonce : mempool'[m] = k => mempool[m] = k
      BY <1>2, <1>3, <2>1
    <3>2. Executions(k)' = Executions(k)
      BY <2>1 DEF Executions
    <3> QED
      BY <3>1, <3>2 DEF Claims
  <2>3. mempool' \in [Nonce -> 0..OwnBusiness]
    BY <1>2, <1>3, <2>1 DEF Nothing
  <2>4. QueueAhead'
    BY <1>1, <1>2, <2>1 DEF QueueAhead
  <2>5. ShieldTypeOK'
    BY <1>1, <2>1, <2>3 DEF ShieldTypeOK
  <2> QED
    BY <1>2, <2>1, <2>2, <2>4, <2>5
<1>6. ASSUME MineNext PROVE NothingLost
  <2> DEFINE p == Len(mined) + 1
  <2>1. p \in Nonce /\ mempool[p] # Nothing /\ UNCHANGED seen
    BY <1>2, <1>6 DEF MineNext, Nonce
  <2>2. mempool' = [mempool EXCEPT ![p] = Nothing]
    BY <1>6 DEF MineNext
  <2>3. PICK done \in BOOLEAN : mined' = Append(mined, [tx |-> mempool[p], done |-> done])
    BY <1>6 DEF MineNext
  <2>4. mempool[p] \in Tx
    BY <1>2, <1>3, <2>1 DEF PreparedNote, Nothing
  <2> DEFINE e == [tx |-> mempool[p], done |-> done]
  <2>5. e \in [tx : Tx, done : BOOLEAN] /\ e.tx = mempool[p]
    BY <2>4
  <2> HIDE DEF e
  <2>6. mined' = Append(mined, e)
    BY <2>3 DEF e
  <2> HIDE DEF p, Tx
  <2>7. /\ mined' \in Seq([tx : Tx, done : BOOLEAN]) /\ Len(mined') = Len(mined) + 1
        /\ \A i \in 1..Len(mined) : mined'[i] = mined[i]
        /\ mined'[Len(mined) + 1] = e
    BY <1>2, <2>5, <2>6, AppendProperties
  <2>8. p = Len(mined) + 1
    BY DEF p
  <2>9. ASSUME NEW k \in PreparedNote
        PROVE  Claims(k)' \subseteq Claims(k) /\ Executions(k) \subseteq Executions(k)'
    <3>1. Executions(k) \subseteq Executions(k)'
      BY <1>2, <2>7 DEF Executions
    <3>2. ASSUME NEW i \in Executions(k)' PROVE i \in Claims(k)
      <4>1. i \in 1..(Len(mined) + 1) /\ mined'[i].tx = k /\ mined'[i].done
        BY <2>7, <3>2 DEF Executions
      <4>2. CASE i \in 1..Len(mined)
        BY <2>7, <4>1, <4>2 DEF Claims, Executions
      <4>3. CASE i = p
        BY <2>1, <2>5, <2>7, <2>8, <4>1, <4>3 DEF Claims
      <4> QED
        BY <1>2, <2>8, <4>1, <4>2, <4>3
    <3>3. ASSUME NEW i \in Nonce, mempool'[i] = k PROVE i \in Claims(k)
      BY <1>2, <1>3, <2>1, <2>2, <3>3 DEF Claims
    <3> QED
      BY <3>1, <3>2, <3>3 DEF Claims
  <2>10. mempool' \in [Nonce -> 0..OwnBusiness]
    <3>1. Nothing \in 0..OwnBusiness
      BY <1>3 DEF Nothing
    <3> QED
      BY <1>2, <2>2, <3>1
  <2>11. QueueAhead'
    BY <1>1, <1>2, <2>2, <2>7, <2>8 DEF QueueAhead, Nonce
  <2>12. Len(mined') <= MaxNonce
    BY <1>2, <2>1, <2>7, <2>8 DEF Nonce
  <2>13. ShieldTypeOK'
    BY <1>1, <1>2, <2>1, <2>7, <2>10, <2>12 DEF ShieldTypeOK, Tx
  <2> QED
    BY <1>2, <2>1, <2>9, <2>11, <2>13
<1>7. ASSUME See PROVE NothingLost
  <2>1. seen < Len(mined) /\ seen' = seen + 1 /\ UNCHANGED <<mined, mempool>>
    BY <1>7 DEF See
  <2>2. \A k \in PreparedNote : Claims(k)' = Claims(k) /\ Executions(k)' = Executions(k)
    BY <2>1 DEF Claims, Executions
  <2>3. QueueAhead'
    BY <1>1, <2>1 DEF QueueAhead
  <2>4. seen' \in 0..Len(mined')
    BY <1>2, <2>1
  <2>5. ShieldTypeOK'
    BY <1>1, <2>1, <2>4 DEF ShieldTypeOK
  <2> QED
    BY <1>2, <2>1, <2>2, <2>3, <2>5
<1> HIDE DEF NothingLost
<1>8. NothingLost
  BY <1>4, <1>5, <1>6, <1>7 DEF ChainMoves
<1> QED
  BY <1>1, <1>8, ClaimsShrink DEF NothingLost
\* The call, by what its steps set of its record.
Places == {"off", "status", "count", "send", "confirm", "settle", "landed", "observe"}
ShieldCall == [at : Places, nonce : 0..MaxNonce, left : 0..NonceRetries]

LEMMA CallTyped ==
    ASSUME shield \in ShieldCall, NEW place \in Places, NEW n \in 0..MaxNonce, NEW l \in 0..NonceRetries
    PROVE  /\ Goto(place) => /\ shield'.at = place /\ shield'.nonce = shield.nonce /\ shield'.left = shield.left
                             /\ shield' \in ShieldCall
           /\ shield' = [shield EXCEPT !.at = place, !.left = l] =>
                  /\ shield'.at = place /\ shield'.nonce = shield.nonce /\ shield'.left = l
                  /\ shield' \in ShieldCall
           /\ shield' = [shield EXCEPT !.at = place, !.nonce = n] =>
                  /\ shield'.at = place /\ shield'.nonce = n /\ shield'.left = shield.left
                  /\ shield' \in ShieldCall
           /\ shield' = Off => shield'.at = "off" /\ shield' \in ShieldCall
<1>1. 0 \in 0..MaxNonce /\ 0 \in 0..NonceRetries
  BY ShieldAssumption
<1>2. Off \in ShieldCall /\ Off.at = "off"
  BY <1>1 DEF Off, ShieldCall, Places
<1> QED
  BY <1>2 DEF ShieldCall, Goto

LEMMA CallKeepsShields ==
    ASSUME ShieldInv,
           \/ DirectShield \/ GiveUp \/ CheckStatus \/ QueryCount \/ SendCall \/ Confirm
           \/ SettleNonce \/ CheckLanded \/ Observe
    PROVE  ShieldInv'
<1>1. /\ shield \in ShieldCall /\ ShieldTypeOK /\ notes \in 0..MaxNotes /\ inFlight \in 0..notes
      /\ shielded \subseteq PreparedNote
  BY DEF ShieldInv, ShieldTypeOK, ShieldCall, Places
<1>2. /\ seen \in Nat /\ Len(mined) \in Nat /\ seen <= Len(mined) /\ MaxNonce \in Nat /\ Len(mined) <= MaxNonce
      /\ NonceRetries \in Nat /\ NonceRetries > 0 /\ MaxNotes \in Nat
      /\ shield.nonce \in 0..MaxNonce /\ shield.left \in 0..NonceRetries /\ 0 \in 0..MaxNonce
  BY <1>1, ShieldFields
<1>3. shield.at # "off" => inFlight \in PreparedNote
  BY <1>1, <1>2 DEF ShieldInv, CallBounds, None, PreparedNote
\* Steps that send nothing.
<1>4. ASSUME UNCHANGED chainSide, shield' \in ShieldCall, notes' \in 0..MaxNotes, inFlight' \in 0..notes',
             shielded' \subseteq PreparedNote, shielded \subseteq shielded', overlooked \subseteq overlooked',
             shielded \cup {inFlight} \subseteq shielded' \cup {inFlight', None},
             \A k \in shielded' \ shielded : Executions(k) # {},
             CallBounds', CallKnows'
      PROVE  ShieldInv'
  <2>1. \A k \in PreparedNote : Claims(k)' = Claims(k) /\ Executions(k)' = Executions(k)
    BY <1>4 DEF chainSide, Claims, Executions
  <2>2. ShieldTypeOK'
    BY <1>1, <1>4 DEF ShieldTypeOK, chainSide, ShieldCall, Places
  <2>3. QueueAhead'
    BY <1>4 DEF ShieldInv, QueueAhead, chainSide
  <2>4. ClaimsAccounted'
    <3> SUFFICES ASSUME NEW k \in PreparedNote, NEW n \in Claims(k)'
                 PROVE  n <= seen' + 1 /\ k \in shielded' \cup {inFlight'}
      BY DEF ClaimsAccounted
    <3>1. n <= seen + 1 /\ k \in shielded \cup {inFlight}
      BY <2>1 DEF ShieldInv, ClaimsAccounted
    <3>2. k # None /\ seen' = seen
      BY <1>2, <1>4 DEF PreparedNote, None, chainSide
    <3> QED
      BY <1>4, <3>1, <3>2
  <2>5. OneClaim'
    BY <1>4, <2>1 DEF ShieldInv, OneClaim
  <2>6. ShieldedExecuted'
    BY <1>1, <1>4, <2>1 DEF ShieldInv, ShieldedExecuted
  <2> QED
    BY <1>4, <2>2, <2>3, <2>4, <2>5, <2>6 DEF ShieldInv
<1> USE DEF CallBounds, CallKnows
<1>5. ASSUME UNCHANGED <<chainSide, inFlight>> PROVE Claims(inFlight)' = Claims(inFlight) /\ seen' = seen
  BY <1>5 DEF chainSide, Claims, Executions
<1>6. CASE DirectShield
  <2>1. shield.at = "off" /\ Goto("status") /\ UNCHANGED <<chainSide, shielded, overlooked>>
    BY <1>6 DEF DirectShield
  <2>2. shield'.at = "status" /\ shield' \in ShieldCall
    BY <1>1, <1>2, <2>1, CallTyped DEF Places
  <2>3. /\ inFlight' # None /\ notes' \in 0..MaxNotes /\ inFlight' \in 0..notes'
        /\ inFlight = None \/ inFlight' = inFlight
    BY <1>1, <1>2, <1>6 DEF DirectShield, None
  <2> QED
    BY <1>1, <1>4, <2>1, <2>2, <2>3
<1>7. CASE GiveUp
  <2>1. shield' = Off /\ UNCHANGED <<chainSide, shielded, inFlight, notes, overlooked>>
    BY <1>7 DEF GiveUp
  <2>2. shield'.at = "off" /\ shield' \in ShieldCall
    BY <1>1, <1>2, <2>1, CallTyped DEF Places
  <2> QED
    BY <1>1, <1>4, <2>1, <2>2
<1>8. ASSUME BookNote, NoteKnown(inFlight), shield.at # "off", UNCHANGED <<chainSide, notes, overlooked>>
      PROVE  ShieldInv'
  <2>1. shielded' = shielded \cup {inFlight} /\ inFlight' = None /\ shield' = Off
    BY <1>8 DEF BookNote
  <2>2. shield'.at = "off" /\ shield' \in ShieldCall
    BY <1>1, <1>2, <2>1, CallTyped DEF Places
  <2>3. inFlight' \in 0..notes'
    BY <1>1, <1>8, <2>1 DEF None
  <2>4. Executions(inFlight) # {}
    BY <1>8 DEF NoteKnown
  <2> QED
    BY <1>1, <1>3, <1>4, <1>8, <2>1, <2>2, <2>3, <2>4
<1>9. CASE CheckStatus
  <2>1. shield.at = "status" /\ UNCHANGED <<chainSide, notes, overlooked>>
    BY <1>9 DEF CheckStatus
  <2>2. CASE NoteKnown(inFlight) /\ BookNote
    BY <1>8, <2>1, <2>2
  <2>3. CASE shield' = [shield EXCEPT !.at = "count", !.left = NonceRetries] /\ UNCHANGED <<shielded, inFlight>>
    <3>1. shield'.at = "count" /\ shield'.left = NonceRetries /\ shield' \in ShieldCall
      <4>1. NonceRetries \in 0..NonceRetries
        BY <1>2
      <4> QED
        BY <1>1, <1>2, <2>3, <4>1, CallTyped DEF Places
    <3>2. CallBounds' /\ CallKnows'
      BY <1>2, <1>3, <2>1, <2>3, <3>1 DEF ShieldInv
    <3> QED
      BY <1>1, <1>4, <2>1, <2>3, <3>1, <3>2
  <2> QED
    BY <1>9, <2>2, <2>3, Zenon DEF CheckStatus
<1>10. CASE QueryCount
  <2>1. /\ shield.at = "count" /\ seen < MaxNonce /\ shield' = [shield EXCEPT !.at = "send", !.nonce = seen + 1]
        /\ UNCHANGED <<chainSide, shielded, inFlight, notes>> /\ overlooked \subseteq overlooked'
        /\ NoteKnown(inFlight) /\ shield.left = NonceRetries => inFlight \in overlooked'
    BY <1>10 DEF QueryCount
  <2>2. PICK n \in 0..MaxNonce : n = seen + 1
    BY <1>2, <2>1
  <2>3. shield' = [shield EXCEPT !.at = "send", !.nonce = n]
    BY <2>1, <2>2
  <2>4. shield'.at = "send" /\ shield'.nonce = n /\ shield' \in ShieldCall
    BY <1>1, <1>2, <2>3, CallTyped DEF Places
  <2>5. ASSUME inFlight \notin overlooked' PROVE Claims(inFlight) \subseteq {n}
    <3>1. inFlight \in PreparedNote /\ inFlight \notin overlooked
      BY <1>3, <2>1, <2>5
    <3>2. CASE shield.left < NonceRetries
      BY <2>1, <3>1, <3>2 DEF ShieldInv
    <3>3. CASE shield.left = NonceRetries
      <4>1. ~NoteKnown(inFlight)
        BY <2>1, <2>5, <3>3
      <4> SUFFICES ASSUME NEW p \in Claims(inFlight) PROVE p = n
        OBVIOUS
      <4>2. p \in Nonce /\ p <= seen + 1
        BY <1>1, <3>1, ClaimsAreNonces DEF ShieldInv, ClaimsAccounted
      <4>3. p > seen
        <5>1. CASE p \in Executions(inFlight)
          BY <1>2, <4>1, <4>2, <5>1 DEF NoteKnown, Nonce
        <5>2. CASE mempool[p] = inFlight
          <6>1. mempool[p] # Nothing
            BY <3>1, <5>2 DEF PreparedNote, Nothing
          <6> QED
            BY <1>2, <4>2, <6>1 DEF ShieldInv, QueueAhead, Nonce
        <5> QED
          BY <5>1, <5>2 DEF Claims
      <4> QED
        BY <1>2, <2>2, <4>2, <4>3 DEF Nonce
    <3> QED
      BY <1>2, <3>2, <3>3
  <2>6. CallBounds' /\ CallKnows'
    <3>1. Claims(inFlight)' = Claims(inFlight) /\ seen' = seen
      BY <1>5, <2>1
    <3> QED
      BY <1>2, <1>3, <2>1, <2>2, <2>4, <2>5, <3>1 DEF PreparedNote, None
  <2> QED
    BY <1>1, <1>4, <2>1, <2>4, <2>6
\* Steps along the call that keep its nonce and what is journalled.
<1>11. ASSUME NEW place \in {"settle", "confirm", "observe", "landed"}, Goto(place),
              UNCHANGED <<chainSide, shielded, inFlight, notes, overlooked>>, shield.at # "off",
              place = "settle" => shield.at = "send",
              place = "landed" => shield.at = "settle" /\ shield.nonce <= seen
       PROVE  ShieldInv'
  <2>1. shield'.at = place /\ shield'.nonce = shield.nonce /\ shield' \in ShieldCall
    BY <1>1, <1>2, <1>11, CallTyped DEF Places
  <2>2. CallBounds' /\ CallKnows'
    <3>1. Claims(inFlight)' = Claims(inFlight) /\ seen' = seen
      BY <1>5, <1>11
    <3> QED
      BY <1>2, <1>3, <1>11, <2>1, <3>1 DEF ShieldInv
  <2> QED
    BY <1>1, <1>4, <1>11, <2>1, <2>2
<1>12. CASE SendCall
  <2>1. shield.at = "send" /\ UNCHANGED <<mined, seen, evictions, shielded, inFlight, notes, overlooked>>
    BY <1>12 DEF SendCall
  <2>2. CASE Contested(shield.nonce) /\ Goto("settle") /\ UNCHANGED mempool
    BY <1>11, <2>1, <2>2 DEF chainSide
  <2>3. ASSUME ~Contested(shield.nonce), mempool' = [mempool EXCEPT ![shield.nonce] = inFlight], Goto("confirm")
        PROVE  ShieldInv'
    <3>1. shield'.at = "confirm" /\ shield' \in ShieldCall
      BY <1>1, <1>2, <2>3, CallTyped DEF Places
    <3>2. PICK p : p = shield.nonce
      OBVIOUS
    <3>3. p > Len(mined) /\ p <= seen + 1 /\ p \in Nonce /\ mempool[p] = Nothing
      BY <1>2, <2>1, <2>3, <3>2 DEF Contested, ShieldInv, Nonce
    <3>4. /\ mempool \in [Nonce -> 0..OwnBusiness] /\ inFlight \in PreparedNote
          /\ mempool' = [mempool EXCEPT ![p] = inFlight]
      BY <1>1, <1>3, <2>1, <2>3, <3>2 DEF ShieldTypeOK
    <3>5. mempool' \in [Nonce -> 0..OwnBusiness]
      <4>1. inFlight \in 0..OwnBusiness
        BY <1>2, <3>4 DEF PreparedNote, OwnBusiness
      <4> QED
        BY <3>4, <4>1
    <3>6. \A k \in PreparedNote : Executions(k)' = Executions(k)
      BY <2>1 DEF Executions
    <3>7. \A k \in PreparedNote : Claims(k)' \subseteq IF k = inFlight THEN Claims(k) \cup {p} ELSE Claims(k)
      BY <3>4, <3>6 DEF Claims
    <3>8. ShieldTypeOK'
      BY <1>1, <2>1, <3>1, <3>5 DEF ShieldTypeOK, ShieldCall, Places
    <3>9. QueueAhead'
      BY <2>1, <3>3, <3>4 DEF ShieldInv, QueueAhead
    <3>10. ClaimsAccounted'
      BY <2>1, <3>3, <3>7 DEF ShieldInv, ClaimsAccounted
    <3>11. OneClaim'
      <4> SUFFICES ASSUME NEW k \in PreparedNote \ overlooked, NEW m \in Claims(k)', NEW n \in Claims(k)'
                   PROVE  m = n
        BY <2>1 DEF OneClaim
      <4>1. CASE k = inFlight
        <5>1. Claims(k) \subseteq {p}
          BY <2>1, <3>2, <4>1 DEF ShieldInv
        <5> QED
          BY <3>7, <5>1
      <4>2. CASE k # inFlight
        BY <3>7, <4>2 DEF ShieldInv, OneClaim
      <4> QED
        BY <4>1, <4>2
    <3>12. ShieldedExecuted'
      BY <1>1, <2>1, <3>6 DEF ShieldInv, ShieldedExecuted
    <3>13. CallBounds' /\ CallKnows'
      BY <1>3, <2>1, <3>1 DEF PreparedNote, None
    <3> QED
      BY <1>1, <2>1, <3>8, <3>9, <3>10, <3>11, <3>12, <3>13 DEF ShieldInv
  <2> QED
    BY <1>12, <2>2, <2>3 DEF SendCall
<1>13. CASE Confirm
  BY <1>11, <1>13 DEF Confirm
<1>14. CASE SettleNonce
  BY <1>2, <1>11, <1>14 DEF SettleNonce, MinedBy
<1>15. CASE CheckLanded
  <2>1. shield.at = "landed" /\ UNCHANGED <<chainSide, shielded, inFlight, notes, overlooked>>
    BY <1>15 DEF CheckLanded
  <2>2. CASE Goto("observe")
    BY <1>11, <2>1, <2>2
  <2>3. ASSUME ~NoteKnown(inFlight), shield.left > 1, shield' = [shield EXCEPT !.at = "count", !.left = @ - 1]
        PROVE  ShieldInv'
    <3>1. PICK l \in 0..NonceRetries : l = shield.left - 1
      BY <1>2, <2>3
    <3>2. shield'.at = "count" /\ shield'.left = l /\ shield' \in ShieldCall
      <4>1. shield' = [shield EXCEPT !.at = "count", !.left = l]
        BY <2>3, <3>1
      <4> QED
        BY <1>1, <1>2, <4>1, CallTyped DEF Places
    <3>3. ASSUME inFlight \notin overlooked PROVE Claims(inFlight) = {}
      <4> SUFFICES ASSUME NEW p \in Claims(inFlight) PROVE FALSE
        OBVIOUS
      <4>1. p = shield.nonce /\ p <= seen /\ p \in Nonce /\ inFlight \in PreparedNote
        BY <1>1, <1>3, <2>1, <3>3, ClaimsAreNonces DEF ShieldInv
      <4>2. CASE p \in Executions(inFlight)
        BY <2>3, <4>1, <4>2 DEF NoteKnown
      <4>3. CASE mempool[p] = inFlight
        <5>1. mempool[p] # Nothing
          BY <4>1, <4>3 DEF PreparedNote, Nothing
        <5> QED
          BY <1>2, <4>1, <5>1 DEF ShieldInv, QueueAhead, Nonce
      <4> QED
        BY <4>2, <4>3 DEF Claims
    <3>4. CallBounds' /\ CallKnows'
      <4>1. Claims(inFlight)' = Claims(inFlight) /\ seen' = seen
        BY <1>5, <2>1
      <4> QED
        BY <1>2, <1>3, <2>1, <3>2, <3>3, <4>1 DEF PreparedNote, None
    <3> QED
      BY <1>1, <1>4, <2>1, <3>2, <3>4
  <2>4. ASSUME shield' = Off PROVE ShieldInv'
    <3>1. shield'.at = "off" /\ shield' \in ShieldCall
      BY <1>1, <1>2, <2>4, CallTyped DEF Places
    <3> QED
      BY <1>1, <1>4, <2>1, <3>1
  <2> QED
    BY <1>15, <2>2, <2>3, <2>4, Zenon DEF CheckLanded
<1>16. CASE Observe
  BY <1>8, <1>16 DEF Observe
<1> QED
  BY <1>6, <1>7, <1>9, <1>10, <1>12, <1>13, <1>14, <1>15, <1>16
LEMMA ShieldInductive == ShieldInit => ShieldInv
<1> SUFFICES ASSUME ShieldInit PROVE ShieldInv
  OBVIOUS
<1>1. /\ mined = <<>> /\ seen = 0 /\ shielded = {} /\ inFlight = 0 /\ notes = 0 /\ shield = Off
      /\ mempool = [n \in Nonce |-> 0]
  BY DEF ShieldInit, None, Nothing
<1>2. MaxNotes \in Nat /\ MaxNonce \in Nat /\ NonceRetries \in Nat
  BY ShieldAssumption
<1>3. Off.at = "off" /\ Off \in ShieldCall
  BY <1>2 DEF Off, ShieldCall, Places
<1>4. \A k \in PreparedNote : Claims(k) = {}
  BY <1>1 DEF Claims, Executions, PreparedNote
<1>5. ShieldTypeOK
  <2>1. mempool \in [Nonce -> 0..OwnBusiness]
    BY <1>1, <1>2 DEF OwnBusiness
  <2> QED
    BY <1>1, <1>2, <1>3, <2>1 DEF ShieldTypeOK, ShieldCall, Places
<1>6. QueueAhead
  BY <1>1 DEF QueueAhead, Nothing
<1> QED
  BY <1>1, <1>2, <1>3, <1>4, <1>5, <1>6
     DEF ShieldInv, ClaimsAccounted, OneClaim, CallBounds, CallKnows, ShieldedExecuted

LEMMA OnceFollows == ShieldInv => ShieldedOnce
<1> SUFFICES ASSUME ShieldInv, NEW k \in PreparedNote
             PROVE  /\ k \notin overlooked => Cardinality(Executions(k)) <= 1
                    /\ Executions(k) # {} => k \in shielded \/ k = inFlight
                    /\ k \in shielded => Executions(k) # {}
  BY DEF ShieldedOnce
<1>1. ShieldTypeOK /\ Executions(k) \subseteq Claims(k)
  BY ClaimsAreNonces DEF ShieldInv
<1>2. ASSUME k \notin overlooked PROVE Cardinality(Executions(k)) <= 1
  <2>1. CASE Executions(k) = {}
    BY <2>1, FS_EmptySet
  <2>2. CASE Executions(k) # {}
    <3>1. PICK n \in Executions(k) : Executions(k) = {n}
      BY <1>1, <1>2, <2>2 DEF ShieldInv, OneClaim
    <3>2. Cardinality({n}) = 1
      BY FS_Singleton
    <3> QED
      BY <3>1, <3>2
  <2> QED
    BY <2>1, <2>2
<1>3. Executions(k) # {} => k \in shielded \/ k = inFlight
  BY <1>1 DEF ShieldInv, ClaimsAccounted
<1> QED
  BY <1>2, <1>3 DEF ShieldInv, ShieldedExecuted

LEMMA ShieldStep == ASSUME ShieldInv, [ShieldNext]_shieldVars PROVE ShieldInv'
<1>1. CASE UNCHANGED shieldVars
  <2>1. UNCHANGED <<mined, mempool, seen, shielded, inFlight, notes, shield, overlooked>>
    BY <1>1 DEF shieldVars, chainSide
  <2> QED
    BY <2>1 DEF ShieldInv, ShieldTypeOK, QueueAhead, ClaimsAccounted, OneClaim, CallBounds, CallKnows,
                ShieldedExecuted, Claims, Executions
<1> QED
  BY <1>1, ChainKeepsShields, CallKeepsShields DEF ShieldNext

\* Whatever is dropped, seen late, retried or interrupted, a note is executed at most once unless a call
\* overlooked an execution between its two readings, and what is booked was executed (direct_shield,
\* submit_reconciling_nonce_conflicts).
THEOREM NotesShieldedOnce == ShieldSpec => []ShieldedOnce
<1>1. ShieldInv /\ [ShieldNext]_shieldVars => ShieldInv'  BY ShieldStep
<1> QED
  BY <1>1, ShieldInductive, OnceFollows, PTL DEF ShieldSpec

-----------------------------------------------------------------------------
(***************************************************************************)
(* The plain pool.                                                         *)
(***************************************************************************)

TransferRecord ==
    [coin : {"wx", "xdai"}, from : Dest \cup {Safe, Node}, to : Dest \cup {Out}, amount : Nat,
     status : {"pending", "landed", "dead"}]

Pays(t, d)   == t.coin = "wx" /\ t.from = Safe /\ t.to = d
Sweeps(t, d) == t.coin = "wx" /\ t.from = d /\ t.to = Out

\* A deposit is worth one unit, a sweep takes something, and everything else is gas.
Expected(t) ==
    \/ \E d \in Dest : Pays(t, d) /\ t.amount = 1
    \/ \E d \in Dest : Sweeps(t, d) /\ t.amount > 0
    \/ t.coin = "xdai" /\ t.from = Node /\ t.to \in Dest

Transfers == transfers \in Seq(TransferRecord) /\ \A i \in 1..Len(transfers) : Expected(transfers[i])

PaidTo(d)  == Of("wx", Safe, d, "landed")
AliveFor(d)  == PaidTo(d) \cup Of("wx", Safe, d, "pending")
Swept(d) == Of("wx", d, Out, "landed")

\* At most one.
Sole(S) == \A i, j \in S : i = j

\* An address paid at most once holds its deposit until a sweep lands, and nothing after.
Holdings ==
    \A d \in Dest : Sole(PaidTo(d)) => /\ wx[d] = IF PaidTo(d) # {} /\ Swept(d) = {} THEN 1 ELSE 0
                                       /\ PaidTo(d) = {} => Swept(d) = {}

DepositFits(d, doing) ==
    /\ doing.at \in {"send", "wait"} => doing.tried
    /\ doing.at = "wait" => doing.tx \in 1..Len(transfers) /\ Pays(transfers[doing.tx], d)
    /\ doing.verdict # "none" => doing.at = "end"
    /\ ~doing.tried => AliveFor(d) = {}
    /\ doing.verdict = "free" => ~doing.tried
    /\ doing.verdict = "ok" => PaidTo(d) # {}
    /\ ~doing.excused => Sole(AliveFor(d))
    /\ ~doing.excused /\ doing.at \in {"afford", "send"} => AliveFor(d) = {}

SweepFits(d, doing) ==
    /\ doing.at \in {"gas", "topup", "send"} => doing.amount > 0
    /\ doing.at \in {"topup", "wait"} => doing.tx \in 1..Len(transfers)
    /\ doing.at = "topup" => transfers[doing.tx].coin = "xdai"
    /\ doing.at = "wait" => Sweeps(transfers[doing.tx], d)
    /\ doing.verdict = "ok" => Swept(d) # {}

PlainInv ==
    /\ PlainTypeOK /\ Transfers /\ Holdings
    /\ \A d \in Dest : DepositFits(d, deposits[d]) /\ SweepFits(d, sweeps[d])

LEMMA Accounts == /\ \A d \in Dest : d # Safe /\ d # Node /\ d # Out
                  /\ Safe # Out /\ Safe # Node /\ Node # Out
<1>1. Safe # Out /\ Safe # Node /\ Node # Out
  BY DEF Safe, Node, Out
<1> QED
  BY <1>1, AddressAssumption

\* What a step of a call does to the transfers: nothing, or it appends one.
Extended(d) ==
    /\ Transfers' /\ Len(transfers) <= Len(transfers') /\ Len(transfers') <= MaxTransfers
    /\ \A i \in 1..Len(transfers) : transfers'[i] = transfers[i]
    /\ \A c \in Dest : PaidTo(c)' = PaidTo(c) /\ Swept(c)' = Swept(c) /\ (c # d => AliveFor(c)' = AliveFor(c))

LEMMA Unsent == ASSUME PlainInv, UNCHANGED transfers, NEW d
                PROVE  Extended(d) /\ AliveFor(d)' = AliveFor(d)
<1>1. Transfers /\ Len(transfers) <= MaxTransfers /\ Len(transfers) \in Nat
  BY DEF PlainInv, PlainTypeOK, Transfers
<1> QED
  BY <1>1 DEF Extended, Transfers, PaidTo, AliveFor, Swept, Of

LEMMA TransferSent ==
    ASSUME PlainInv, NEW t \in TransferRecord, Expected(t), t.status = "pending", Len(transfers) < MaxTransfers,
           transfers' = Append(transfers, t), NEW d, \A c \in Dest : Pays(t, c) => c = d
    PROVE  /\ Extended(d) /\ Len(transfers') = Len(transfers) + 1 /\ transfers'[Len(transfers) + 1] = t
           /\ AliveFor(d)' \subseteq AliveFor(d) \cup {Len(transfers) + 1}
           /\ ~Pays(t, d) => AliveFor(d)' = AliveFor(d)
<1>1. Transfers /\ transfers \in Seq(TransferRecord) /\ Len(transfers) \in Nat /\ MaxTransfers \in Nat
  BY PlainAssumption DEF PlainInv, Transfers
<1>2. /\ transfers' \in Seq(TransferRecord) /\ Len(transfers') = Len(transfers) + 1
      /\ \A i \in 1..Len(transfers) : transfers'[i] = transfers[i]
      /\ transfers'[Len(transfers) + 1] = t
  BY <1>1, AppendProperties
<1>3. Transfers'
  BY <1>1, <1>2 DEF Transfers
<1>4. ASSUME NEW coin, NEW from, NEW to, NEW status
      PROVE  /\ Of(coin, from, to, status) \subseteq Of(coin, from, to, status)'
             /\ Of(coin, from, to, status)' \subseteq Of(coin, from, to, status) \cup {Len(transfers) + 1}
             /\ ~(t.coin = coin /\ t.from = from /\ t.to = to /\ t.status = status)
                   => Of(coin, from, to, status)' = Of(coin, from, to, status)
  BY <1>1, <1>2 DEF Of
<1>5. \A c \in Dest : PaidTo(c)' = PaidTo(c) /\ Swept(c)' = Swept(c)
  BY <1>4 DEF PaidTo, Swept
<1>6. ASSUME NEW c, ~Pays(t, c) PROVE AliveFor(c)' = AliveFor(c)
  BY <1>4, <1>6 DEF PaidTo, AliveFor, Pays
<1>7. AliveFor(d)' \subseteq AliveFor(d) \cup {Len(transfers) + 1}
  BY <1>4 DEF PaidTo, AliveFor
<1> QED
  BY <1>1, <1>2, <1>3, <1>5, <1>6, <1>7 DEF Extended
LEMMA FactsKept ==
    ASSUME PlainInv, NEW d \in Dest, Extended(d), UNCHANGED <<wx, xdai>>
    PROVE  /\ Transfers' /\ Holdings' /\ Len(transfers') <= MaxTransfers
           /\ \A i \in 1..Len(transfers') : transfers'[i].status \in {"pending", "landed", "dead"}
           /\ \A c \in Dest : c # d => DepositFits(c, deposits[c])'  \/ deposits'[c] # deposits[c]
           /\ \A c \in Dest : SweepFits(c, sweeps[c])' \/ sweeps'[c] # sweeps[c]
<1>1. Holdings'
  BY DEF PlainInv, Holdings, Extended
<1>2. \A i \in 1..Len(transfers') : transfers'[i].status \in {"pending", "landed", "dead"}
  <2> SUFFICES ASSUME NEW i \in 1..Len(transfers') PROVE transfers'[i].status \in {"pending", "landed", "dead"}
    OBVIOUS
  <2>1. transfers'[i] \in TransferRecord
    BY ElementOfSeq DEF Extended, Transfers
  <2> QED
    BY <2>1 DEF TransferRecord
<1>3. Len(transfers) \in Nat /\ Len(transfers') \in Nat
  BY DEF PlainInv, Extended, Transfers
<1>4. ASSUME NEW c \in Dest, c # d, deposits'[c] = deposits[c] PROVE DepositFits(c, deposits[c])'
  <2>1. DepositFits(c, deposits[c])
    BY DEF PlainInv
  <2> QED
    BY <1>3, <1>4, <2>1 DEF DepositFits, Extended
<1>5. ASSUME NEW c \in Dest, sweeps'[c] = sweeps[c] PROVE SweepFits(c, sweeps[c])'
  <2>1. SweepFits(c, sweeps[c])
    BY DEF PlainInv
  <2> QED
    BY <1>3, <1>5, <2>1 DEF SweepFits, Extended
<1> QED
  BY <1>1, <1>2, <1>4, <1>5 DEF Extended

\* A step of one deposit: it is enough that its own call fits.
LEMMA DepositStep ==
    ASSUME PlainInv, NEW d \in Dest, NEW doing \in DepositCall, Put(d, doing), Extended(d),
           UNCHANGED <<wx, xdai, sweeps>>, DepositFits(d, doing)'
    PROVE  PlainInv'
<1>1. deposits \in [Dest -> DepositCall]
  BY DEF PlainInv, PlainTypeOK
<1>2. /\ deposits' \in [Dest -> DepositCall] /\ deposits'[d] = doing
      /\ \A c \in Dest : c # d => deposits'[c] = deposits[c]
  BY <1>1 DEF Put
<1>3. PlainTypeOK'
  BY <1>2, FactsKept DEF PlainInv, PlainTypeOK
<1>4. \A c \in Dest : DepositFits(c, deposits[c])' /\ SweepFits(c, sweeps[c])'
  BY <1>2, FactsKept
<1> QED
  BY <1>3, <1>4, FactsKept DEF PlainInv

LEMMA SweepStep ==
    ASSUME PlainInv, NEW d \in Dest, NEW doing \in SweepCall, SetSweep(d, doing), Extended(d), AliveFor(d)' = AliveFor(d),
           UNCHANGED <<wx, xdai, deposits>>, SweepFits(d, doing)'
    PROVE  PlainInv'
<1>1. sweeps \in [Dest -> SweepCall]
  BY DEF PlainInv, PlainTypeOK
<1>2. /\ sweeps' \in [Dest -> SweepCall] /\ sweeps'[d] = doing
      /\ \A c \in Dest : c # d => sweeps'[c] = sweeps[c]
  BY <1>1 DEF SetSweep
<1>3. PlainTypeOK'
  BY <1>2, FactsKept DEF PlainInv, PlainTypeOK
<1>4. DepositFits(d, deposits[d])'
  <2>1. DepositFits(d, deposits[d]) /\ Len(transfers) \in Nat /\ Len(transfers') \in Nat
    BY DEF PlainInv, Transfers, Extended
  <2> QED
    BY <2>1 DEF DepositFits, Extended
<1>5. \A c \in Dest : DepositFits(c, deposits[c])' /\ SweepFits(c, sweeps[c])'
  BY <1>2, <1>4, FactsKept
<1> QED
  BY <1>3, <1>5, FactsKept DEF PlainInv
LEMMA RetriedCall ==
    ASSUME NEW c \in DepositCall, NEW v \in {"free", "unknown"}
    PROVE  /\ Retried(c, v) \in DepositCall
           /\ Retried(c, v).tried = c.tried /\ Retried(c, v).excused = c.excused
           /\ \/ Retried(c, v).at = "check" /\ Retried(c, v).verdict = c.verdict
              \/ Retried(c, v).at = "end" /\ Retried(c, v).verdict = v
<1>1. DepositRetries \in Nat /\ MaxTransfers \in Nat
  BY PlainAssumption
<1>2. CASE c.left > 0
  <2> DEFINE l == c.left - 1
  <2>1. l \in 0..DepositRetries /\ 0 \in 0..MaxTransfers
    BY <1>1, <1>2 DEF DepositCall
  <2>2. Retried(c, v) = [c EXCEPT !.at = "check", !.left = l, !.tx = 0]
    BY <1>2 DEF Retried
  <2> HIDE DEF l
  <2>3. Retried(c, v) \in DepositCall
    BY <2>1, <2>2, Zenon DEF DepositCall
  <2>4. /\ Retried(c, v).tried = c.tried /\ Retried(c, v).excused = c.excused
        /\ Retried(c, v).at = "check" /\ Retried(c, v).verdict = c.verdict
    BY <2>2 DEF DepositCall
  <2> QED
    BY <2>3, <2>4
<1>3. CASE ~(c.left > 0)
  <2>1. Retried(c, v) = [c EXCEPT !.at = "end", !.verdict = v]
    BY <1>3 DEF Retried
  <2>2. v \in {"none", "ok", "free", "unknown"}
    OBVIOUS
  <2>3. Retried(c, v) \in DepositCall
    BY <2>1, <2>2 DEF DepositCall
  <2>4. /\ Retried(c, v).tried = c.tried /\ Retried(c, v).excused = c.excused
        /\ Retried(c, v).at = "end" /\ Retried(c, v).verdict = v
    BY <2>1 DEF DepositCall
  <2> QED
    BY <2>3, <2>4
<1> QED
  BY <1>2, <1>3

\* An attempt that fails, whatever it failed of, fits: what it may have sent is still excused or alone.
LEMMA RetriedFits ==
    ASSUME PlainInv, NEW d \in Dest, NEW v \in {"free", "unknown"}, deposits[d].at # "end",
           v = "free" => ~deposits[d].tried,
           Put(d, Retried(deposits[d], v)), UNCHANGED <<wx, xdai, transfers, sweeps>>
    PROVE  PlainInv'
<1>1. deposits[d] \in DepositCall /\ DepositFits(d, deposits[d])
  BY DEF PlainInv, PlainTypeOK
<1>2. PICK e : e = Retried(deposits[d], v)
  OBVIOUS
<1>3. e \in DepositCall /\ Put(d, e)
  BY <1>1, <1>2, RetriedCall
<1>4. Extended(d) /\ AliveFor(d)' = AliveFor(d)
  BY Unsent
<1>5. DepositFits(d, e)'
  <2>1. /\ e.tried = deposits[d].tried /\ e.excused = deposits[d].excused
        /\ \/ e.at = "check" /\ e.verdict = deposits[d].verdict
           \/ e.at = "end" /\ e.verdict = v
    BY <1>1, <1>2, RetriedCall
  <2>2. deposits[d].verdict = "none"
    BY <1>1 DEF DepositFits
  <2> QED
    BY <1>1, <1>4, <2>1, <2>2 DEF DepositFits, Extended
<1> QED
  BY <1>3, <1>4, <1>5, DepositStep
LEMMA DepositKeepsPayments ==
    ASSUME PlainInv, NEW d \in Dest,
           StartDeposit(d) \/ CheckDest(d) \/ Afford(d) \/ SendDeposit(d) \/ AwaitDeposit(d)
    PROVE  PlainInv'
<1>1. /\ deposits[d] \in DepositCall /\ DepositFits(d, deposits[d]) /\ wx[d] \in Nat /\ Len(transfers) \in Nat
      /\ UNCHANGED <<wx, xdai, sweeps>>
  BY DEF PlainInv, PlainTypeOK, Transfers, StartDeposit, CheckDest, Afford, SendDeposit, AwaitDeposit
<1>2. UNCHANGED transfers => Extended(d) /\ AliveFor(d)' = AliveFor(d)
  BY Unsent
<1>3. CASE StartDeposit(d)
  <2>1. /\ deposits[d].at = "idle" /\ UNCHANGED transfers
        /\ Put(d, [deposits[d] EXCEPT !.at = "check"])
    BY <1>3 DEF StartDeposit
  <2>2. PICK e : e = [deposits[d] EXCEPT !.at = "check"]
    OBVIOUS
  <2>3. /\ e \in DepositCall /\ e.at = "check" /\ e.tried = deposits[d].tried
        /\ e.excused = deposits[d].excused /\ e.verdict = deposits[d].verdict
    BY <1>1, <2>2 DEF DepositCall
  <2>4. DepositFits(d, e)'
    BY <1>1, <1>2, <2>1, <2>3 DEF DepositFits, Extended
  <2> QED
    BY <1>1, <1>2, <2>1, <2>2, <2>3, <2>4, DepositStep
<1>4. CASE CheckDest(d)
  <2>1. deposits[d].at = "check" /\ UNCHANGED transfers
    BY <1>4 DEF CheckDest
  <2>2. ASSUME Funded(d), Put(d, [deposits[d] EXCEPT !.at = "end", !.verdict = "ok"]) PROVE PlainInv'
    <3>1. PICK e : e = [deposits[d] EXCEPT !.at = "end", !.verdict = "ok"]
      OBVIOUS
    <3>2. /\ e \in DepositCall /\ e.at = "end" /\ e.tried = deposits[d].tried
          /\ e.excused = deposits[d].excused /\ e.verdict = "ok"
      BY <1>1, <3>1 DEF DepositCall
    <3>3. PaidTo(d) # {}
      BY <1>1, <2>2 DEF PlainInv, Holdings, Funded, Sole
    <3>4. DepositFits(d, e)'
      BY <1>1, <1>2, <2>1, <3>2, <3>3 DEF DepositFits, Extended
    <3> QED
      BY <1>1, <1>2, <2>1, <2>2, <3>1, <3>2, <3>4, DepositStep
  <2>3. ASSUME NEW b, b = (deposits[d].excused \/ Of("wx", Safe, d, "pending") \cup Of("wx", d, Out, "landed") # {}),
               ~Funded(d), Put(d, [deposits[d] EXCEPT !.at = "afford", !.excused = b])
        PROVE  PlainInv'
    <3>1. PICK e : e = [deposits[d] EXCEPT !.at = "afford", !.excused = b]
      OBVIOUS
    <3>2. b \in BOOLEAN
      BY <2>3
    <3>3. /\ e \in DepositCall /\ e.at = "afford" /\ e.tried = deposits[d].tried
          /\ e.excused = b /\ e.verdict = deposits[d].verdict
      BY <1>1, <3>1, <3>2 DEF DepositCall
    <3>4. ASSUME ~b PROVE AliveFor(d) = {} /\ ~deposits[d].excused
      <4>1. ~deposits[d].excused /\ Of("wx", Safe, d, "pending") = {} /\ Swept(d) = {}
        BY <2>3, <3>4 DEF Swept
      <4>2. Sole(PaidTo(d)) /\ wx[d] = 0
        BY <1>1, <2>3, <4>1 DEF DepositFits, AliveFor, Sole, Funded
      <4>3. PaidTo(d) = {}
        BY <4>1, <4>2 DEF PlainInv, Holdings
      <4> QED
        BY <4>1, <4>3 DEF AliveFor
    <3>5. DepositFits(d, e)'
      BY <1>1, <1>2, <2>1, <3>3, <3>4 DEF DepositFits, Extended, Sole
    <3> QED
      BY <1>1, <1>2, <2>1, <2>3, <3>1, <3>3, <3>5, DepositStep
  <2>4. CASE Put(d, Retried(deposits[d], "unknown"))
    BY <1>1, <2>1, <2>4, RetriedFits
  <2> QED
    BY <1>4, <2>2, <2>3, <2>4 DEF CheckDest
<1>5. CASE Afford(d)
  <2>1. deposits[d].at = "afford" /\ UNCHANGED transfers
    BY <1>5 DEF Afford
  <2>2. ASSUME NEW v, v = IF deposits[d].tried THEN "unknown" ELSE "free", Put(d, Retried(deposits[d], v))
        PROVE  PlainInv'
    BY <1>1, <2>1, <2>2, RetriedFits
  <2>3. ASSUME Put(d, [deposits[d] EXCEPT !.at = "send", !.tried = TRUE]) PROVE PlainInv'
    <3>1. PICK e : e = [deposits[d] EXCEPT !.at = "send", !.tried = TRUE]
      OBVIOUS
    <3>2. /\ e \in DepositCall /\ e.at = "send" /\ e.tried
          /\ e.excused = deposits[d].excused /\ e.verdict = deposits[d].verdict
      BY <1>1, <3>1 DEF DepositCall
    <3>3. DepositFits(d, e)'
      BY <1>1, <1>2, <2>1, <3>2 DEF DepositFits, Extended
    <3> QED
      BY <1>1, <1>2, <2>1, <2>3, <3>1, <3>2, <3>3, DepositStep
  <2>4. CASE Put(d, Retried(deposits[d], "unknown"))
    BY <1>1, <2>1, <2>4, RetriedFits
  <2> QED
    BY <1>5, <2>2, <2>3, <2>4 DEF Afford
<1>6. CASE SendDeposit(d)
  <2>1. deposits[d].at = "send"
    BY <1>6 DEF SendDeposit
  <2>2. CASE Put(d, Retried(deposits[d], "unknown")) /\ UNCHANGED transfers
    BY <1>1, <2>1, <2>2, RetriedFits
  <2>3. ASSUME Len(transfers) < MaxTransfers, transfers' = Append(transfers, Transfer("wx", Safe, d, 1))
        PROVE  /\ Extended(d) /\ Len(transfers') = Len(transfers) + 1
               /\ Pays(transfers'[Len(transfers) + 1], d)
               /\ AliveFor(d)' \subseteq AliveFor(d) \cup {Len(transfers) + 1}
    <3>1. PICK t : t = Transfer("wx", Safe, d, 1)
      OBVIOUS
    <3>2. /\ t \in TransferRecord /\ t.coin = "wx" /\ t.from = Safe /\ t.to = d /\ t.amount = 1
          /\ t.status = "pending"
      BY <3>1 DEF Transfer, TransferRecord
    <3>3. Expected(t) /\ (\A c \in Dest : Pays(t, c) => c = d) /\ Pays(t, d)
      BY <3>2 DEF Expected, Pays
    <3> QED
      BY <2>3, <3>1, <3>2, <3>3, TransferSent
  <2>4. ASSUME NEW e \in DepositCall, Put(d, e), e.excused = deposits[d].excused, e.tried,
               e.at \in {"wait", "check", "end"}, e.verdict # "none" => e.at = "end" /\ e.verdict = "unknown",
               e.at = "wait" => e.tx = Len(transfers) + 1,
               Len(transfers) < MaxTransfers, transfers' = Append(transfers, Transfer("wx", Safe, d, 1))
        PROVE  PlainInv'
    <3>1. DepositFits(d, e)'
      BY <1>1, <2>1, <2>3, <2>4 DEF DepositFits, Sole
    <3> QED
      BY <1>1, <2>3, <2>4, <3>1, DepositStep
  <2>5. deposits[d].tried /\ deposits[d].verdict = "none"
    BY <1>1, <2>1 DEF DepositFits
  <2>6. ASSUME Put(d, Retried(deposits[d], "unknown")), Len(transfers) < MaxTransfers,
               transfers' = Append(transfers, Transfer("wx", Safe, d, 1))
        PROVE  PlainInv'
    <3>1. PICK e : e = Retried(deposits[d], "unknown")
      OBVIOUS
    <3> QED
      BY <1>1, <2>4, <2>5, <2>6, <3>1, RetriedCall
  <2>7. ASSUME Put(d, [deposits[d] EXCEPT !.at = "wait", !.tx = Len(transfers) + 1]), Len(transfers) < MaxTransfers,
               transfers' = Append(transfers, Transfer("wx", Safe, d, 1))
        PROVE  PlainInv'
    <3>1. PICK n : n = Len(transfers) + 1
      OBVIOUS
    <3>2. PICK e : e = [deposits[d] EXCEPT !.at = "wait", !.tx = n]
      OBVIOUS
    <3>3. n \in 0..MaxTransfers
      BY <1>1, <2>7, <3>1, PlainAssumption
    <3>4. /\ e \in DepositCall /\ e.at = "wait" /\ e.tx = n /\ e.tried = deposits[d].tried
          /\ e.excused = deposits[d].excused /\ e.verdict = deposits[d].verdict
      BY <1>1, <3>2, <3>3 DEF DepositCall
    <3> QED
      BY <2>4, <2>5, <2>7, <3>1, <3>2, <3>4
  <2> QED
    BY <1>6, <2>2, <2>6, <2>7 DEF SendDeposit
<1>7. CASE AwaitDeposit(d)
  <2>1. deposits[d].at = "wait" /\ UNCHANGED transfers
    BY <1>7 DEF AwaitDeposit
  <2>2. ASSUME transfers[deposits[d].tx].status = "landed", Put(d, [deposits[d] EXCEPT !.at = "end", !.verdict = "ok"])
        PROVE  PlainInv'
    <3>1. PICK e : e = [deposits[d] EXCEPT !.at = "end", !.verdict = "ok"]
      OBVIOUS
    <3>2. /\ e \in DepositCall /\ e.at = "end" /\ e.tried = deposits[d].tried
          /\ e.excused = deposits[d].excused /\ e.verdict = "ok"
      BY <1>1, <3>1 DEF DepositCall
    <3>3. deposits[d].tx \in PaidTo(d)
      BY <1>1, <2>1, <2>2 DEF DepositFits, Pays, PaidTo, Of
    <3>4. DepositFits(d, e)'
      BY <1>1, <1>2, <2>1, <3>2, <3>3 DEF DepositFits, Extended
    <3> QED
      BY <1>1, <1>2, <2>1, <2>2, <3>1, <3>2, <3>4, DepositStep
  <2>3. CASE Put(d, Retried(deposits[d], "unknown"))
    BY <1>1, <2>1, <2>3, RetriedFits
  <2> QED
    BY <1>7, <2>2, <2>3 DEF AwaitDeposit
<1> QED
  BY <1>3, <1>4, <1>5, <1>6, <1>7
LEMMA SweptAgainCall ==
    ASSUME NEW c \in SweepCall
    PROVE  /\ SweptAgain(c) \in SweepCall
           /\ \/ SweptAgain(c).at = "read" /\ SweptAgain(c).verdict = c.verdict
              \/ SweptAgain(c).at = "end" /\ SweptAgain(c).verdict = "failed"
<1>1. SweepRetries \in Nat /\ MaxTransfers \in Nat
  BY PlainAssumption
<1>2. CASE c.left > 0
  <2> DEFINE l == c.left - 1
  <2>1. l \in 0..SweepRetries /\ 0 \in 0..MaxTransfers
    BY <1>1, <1>2 DEF SweepCall
  <2>2. SweptAgain(c) = [c EXCEPT !.at = "read", !.left = l, !.tx = 0]
    BY <1>2 DEF SweptAgain
  <2> HIDE DEF l
  <2>3. SweptAgain(c) \in SweepCall
    BY <2>1, <2>2, Zenon DEF SweepCall
  <2>4. SweptAgain(c).at = "read" /\ SweptAgain(c).verdict = c.verdict
    BY <2>2 DEF SweepCall
  <2> QED
    BY <2>3, <2>4
<1>3. CASE ~(c.left > 0)
  <2>1. SweptAgain(c) = [c EXCEPT !.at = "end", !.verdict = "failed"]
    BY <1>3 DEF SweptAgain
  <2>2. SweptAgain(c) \in SweepCall
    BY <2>1 DEF SweepCall
  <2>3. SweptAgain(c).at = "end" /\ SweptAgain(c).verdict = "failed"
    BY <2>1 DEF SweepCall
  <2> QED
    BY <2>2, <2>3
<1> QED
  BY <1>2, <1>3

LEMMA SweepKeepsPayments ==
    ASSUME PlainInv, NEW d \in Dest,
           StartSweep(d) \/ ReadBalance(d) \/ FundSweepGas(d) \/ SendSweep(d) \/ AwaitSweep(d)
    PROVE  PlainInv'
<1>1. /\ sweeps[d] \in SweepCall /\ SweepFits(d, sweeps[d]) /\ wx[d] \in Nat /\ Len(transfers) \in Nat
      /\ UNCHANGED <<wx, xdai, deposits>> /\ MaxTransfers \in Nat /\ SweepRetries \in Nat
  BY PlainAssumption
     DEF PlainInv, PlainTypeOK, Transfers, StartSweep, ReadBalance, FundSweepGas, SendSweep, AwaitSweep
<1>2. UNCHANGED transfers => Extended(d) /\ AliveFor(d)' = AliveFor(d)
  BY Unsent
<1>3. ASSUME SetSweep(d, SweptAgain(sweeps[d])), UNCHANGED transfers PROVE PlainInv'
  <2>1. PICK e : e = SweptAgain(sweeps[d])
    OBVIOUS
  <2>2. /\ e \in SweepCall
        /\ \/ e.at = "read" /\ e.verdict = sweeps[d].verdict
           \/ e.at = "end" /\ e.verdict = "failed"
    BY <1>1, <2>1, SweptAgainCall
  <2>3. SweepFits(d, e)'
    BY <1>1, <1>2, <1>3, <2>2 DEF SweepFits, Extended
  <2> QED
    BY <1>1, <1>2, <1>3, <2>1, <2>2, <2>3, SweepStep
<1>4. CASE StartSweep(d)
  <2>1. UNCHANGED transfers /\ SetSweep(d, [sweeps[d] EXCEPT !.at = "read", !.left = SweepRetries, !.verdict = "none"])
    BY <1>4 DEF StartSweep
  <2>2. PICK l \in 0..SweepRetries : l = SweepRetries
    BY <1>1
  <2>3. PICK e : e = [sweeps[d] EXCEPT !.at = "read", !.left = l, !.verdict = "none"]
    OBVIOUS
  <2>4. e \in SweepCall
    BY <1>1, <2>2, <2>3, Zenon DEF SweepCall
  <2>5. e.at = "read" /\ e.verdict = "none"
    BY <1>1, <2>3 DEF SweepCall
  <2>6. SweepFits(d, e)'
    BY <2>5 DEF SweepFits
  <2> QED
    BY <1>1, <1>2, <2>1, <2>2, <2>3, <2>4, <2>6, SweepStep
<1>5. CASE ReadBalance(d)
  <2>1. ASSUME UNCHANGED transfers, wx[d] > 0, SetSweep(d, [sweeps[d] EXCEPT !.at = "gas", !.amount = wx[d]]),
               sweeps[d].at = "read"
        PROVE  PlainInv'
    <3>1. PICK n \in Nat : n = wx[d]
      BY <1>1
    <3>2. PICK e : e = [sweeps[d] EXCEPT !.at = "gas", !.amount = n]
      OBVIOUS
    <3>3. e \in SweepCall
      BY <1>1, <3>2 DEF SweepCall
    <3>4. e.at = "gas" /\ e.amount = n /\ e.verdict = sweeps[d].verdict
      BY <1>1, <3>2 DEF SweepCall
    <3>5. SweepFits(d, e)'
      BY <1>1, <1>2, <2>1, <3>1, <3>4 DEF SweepFits, Extended
    <3> QED
      BY <1>1, <1>2, <2>1, <3>1, <3>2, <3>3, <3>5, SweepStep
  <2> QED
    BY <1>3, <1>5, <2>1 DEF ReadBalance
\* A transfer sent by a sweep, a top-up or the sweep itself.
<1>6. ASSUME NEW t \in TransferRecord, Len(transfers) < MaxTransfers, transfers' = Append(transfers, t),
             t.status = "pending", NEW place \in {"topup", "wait"},
             place = "topup" => t.coin = "xdai" /\ t.from = Node /\ t.to = d,
             place = "wait" => Sweeps(t, d) /\ t.amount > 0,
             SetSweep(d, [sweeps[d] EXCEPT !.at = place, !.tx = Len(transfers) + 1]),
             place = "topup" => sweeps[d].amount > 0
      PROVE  PlainInv'
  <2>1. Expected(t) /\ \A c \in Dest : ~Pays(t, c)
    BY <1>6, Accounts DEF Expected, Pays, Sweeps
  <2>2. /\ Extended(d) /\ Len(transfers') = Len(transfers) + 1 /\ transfers'[Len(transfers) + 1] = t
        /\ AliveFor(d)' = AliveFor(d)
    BY <1>6, <2>1, TransferSent
  <2>3. PICK n \in 0..MaxTransfers : n = Len(transfers) + 1
    BY <1>1, <1>6
  <2>4. PICK e : e = [sweeps[d] EXCEPT !.at = place, !.tx = n]
    OBVIOUS
  <2>5. e \in SweepCall
    BY <1>1, <2>4, Zenon DEF SweepCall
  <2>6. e.at = place /\ e.tx = n /\ e.verdict = sweeps[d].verdict /\ e.amount = sweeps[d].amount
    BY <1>1, <2>4 DEF SweepCall
  <2>7. SweepFits(d, e)'
    BY <1>1, <1>6, <2>2, <2>3, <2>6 DEF SweepFits, Extended
  <2> QED
    BY <1>1, <1>6, <2>2, <2>3, <2>4, <2>5, <2>7, SweepStep
\* The address has the gas it needs.
<1>7. ASSUME UNCHANGED transfers, SetSweep(d, [sweeps[d] EXCEPT !.at = "send"]), sweeps[d].at \in {"gas", "topup"}
      PROVE  PlainInv'
  <2>1. PICK e : e = [sweeps[d] EXCEPT !.at = "send"]
    OBVIOUS
  <2>2. e \in SweepCall
    BY <1>1, <2>1 DEF SweepCall
  <2>3. e.at = "send" /\ e.verdict = sweeps[d].verdict /\ e.amount = sweeps[d].amount
    BY <1>1, <2>1 DEF SweepCall
  <2>4. SweepFits(d, e)'
    BY <1>1, <1>2, <1>7, <2>3 DEF SweepFits, Extended
  <2> QED
    BY <1>1, <1>2, <1>7, <2>1, <2>2, <2>4, SweepStep
<1>8. CASE FundSweepGas(d)
  <2>1. sweeps[d].at = "gas" /\ sweeps[d].amount > 0
    BY <1>1, <1>8 DEF FundSweepGas, SweepFits
  <2>2. ASSUME Len(transfers) < MaxTransfers, transfers' = Append(transfers, Transfer("xdai", Node, d, 1)),
               SetSweep(d, [sweeps[d] EXCEPT !.at = "topup", !.tx = Len(transfers) + 1])
        PROVE  PlainInv'
    <3>1. PICK t : t = Transfer("xdai", Node, d, 1)
      OBVIOUS
    <3>2. /\ t \in TransferRecord /\ t.coin = "xdai" /\ t.from = Node /\ t.to = d /\ t.status = "pending"
      BY <3>1 DEF Transfer, TransferRecord
    <3> QED
      BY <1>6, <2>1, <2>2, <3>1, <3>2
  <2> QED
    BY <1>3, <1>7, <1>8, <2>1, <2>2 DEF FundSweepGas
<1>9. CASE SendSweep(d)
  <2>1. sweeps[d].amount > 0 /\ sweeps[d].amount \in Nat
    BY <1>1, <1>9 DEF SendSweep, SweepFits, SweepCall
  <2>2. PICK t : t = Transfer("wx", d, Out, sweeps[d].amount)
    OBVIOUS
  <2>3. /\ t \in TransferRecord /\ t.coin = "wx" /\ t.from = d /\ t.to = Out /\ t.amount = sweeps[d].amount
        /\ t.status = "pending"
    BY <2>1, <2>2 DEF Transfer, TransferRecord
  <2> QED
    BY <1>6, <1>9, <2>1, <2>2, <2>3 DEF SendSweep, Sweeps
<1>10. CASE AwaitSweep(d)
  <2>1. sweeps[d].at \in {"topup", "wait"} /\ UNCHANGED transfers
    BY <1>10 DEF AwaitSweep
  <2>2. ASSUME transfers[sweeps[d].tx].status = "landed", sweeps[d].at = "wait",
               SetSweep(d, [sweeps[d] EXCEPT !.at = "end", !.verdict = "ok"])
        PROVE  PlainInv'
    <3>1. PICK e : e = [sweeps[d] EXCEPT !.at = "end", !.verdict = "ok"]
      OBVIOUS
    <3>2. e \in SweepCall
      BY <1>1, <3>1 DEF SweepCall
    <3>3. e.at = "end" /\ e.verdict = "ok"
      BY <1>1, <3>1 DEF SweepCall
    <3>4. sweeps[d].tx \in Swept(d)
      BY <1>1, <2>2 DEF SweepFits, Sweeps, Swept, Of
    <3>5. SweepFits(d, e)'
      BY <1>2, <2>1, <3>3, <3>4 DEF SweepFits, Extended
    <3> QED
      BY <1>1, <1>2, <2>1, <2>2, <3>1, <3>2, <3>5, SweepStep
  <2> QED
    BY <1>3, <1>7, <1>10, <2>1, <2>2 DEF AwaitSweep
<1> QED
  BY <1>4, <1>5, <1>8, <1>9, <1>10
\* A pending transfer gets its fate.
LEMMA FateOf ==
    ASSUME PlainInv, NEW i \in 1..Len(transfers), transfers[i].status = "pending", NEW s \in {"landed", "dead"},
           transfers' = [transfers EXCEPT ![i].status = s]
    PROVE  /\ Transfers' /\ Len(transfers') = Len(transfers)
           /\ \A j \in 1..Len(transfers) : /\ transfers'[j].coin = transfers[j].coin
                                           /\ transfers'[j].from = transfers[j].from
                                           /\ transfers'[j].to = transfers[j].to
                                           /\ transfers'[j].amount = transfers[j].amount
                                           /\ transfers'[j].status \in {"pending", "landed", "dead"}
           /\ \A d : /\ PaidTo(d)' = PaidTo(d) \cup {j \in {i} : s = "landed" /\ Pays(transfers[i], d)}
                     /\ Swept(d)' = Swept(d) \cup {j \in {i} : s = "landed" /\ Sweeps(transfers[i], d)}
                     /\ AliveFor(d)' \subseteq AliveFor(d)
                     /\ i \notin PaidTo(d) \cup Swept(d)
<1>1. /\ transfers \in Seq(TransferRecord) /\ transfers[i] \in TransferRecord /\ Len(transfers) \in Nat
      /\ \A j \in 1..Len(transfers) : Expected(transfers[j])
  BY ElementOfSeq DEF PlainInv, Transfers
<1> DEFINE e == [transfers[i] EXCEPT !.status = s]
<1>2. /\ e \in TransferRecord /\ e.coin = transfers[i].coin /\ e.from = transfers[i].from /\ e.to = transfers[i].to
      /\ e.amount = transfers[i].amount /\ e.status = s
  BY <1>1 DEF TransferRecord
<1>3. transfers' = [transfers EXCEPT ![i] = e]
  OBVIOUS
<1> HIDE DEF e
<1>4. /\ transfers' \in Seq(TransferRecord) /\ Len(transfers') = Len(transfers) /\ transfers'[i] = e
      /\ \A j \in 1..Len(transfers) : j # i => transfers'[j] = transfers[j]
  BY <1>1, <1>2, <1>3, ExceptSeq
<1>5. \A j \in 1..Len(transfers) : /\ transfers'[j].coin = transfers[j].coin
                                   /\ transfers'[j].from = transfers[j].from
                                   /\ transfers'[j].to = transfers[j].to
                                   /\ transfers'[j].amount = transfers[j].amount
  BY <1>2, <1>4
<1>6. Transfers'
  <2>1. \A j \in 1..Len(transfers) : Expected(transfers'[j])
    BY <1>1, <1>5 DEF Expected, Pays, Sweeps
  <2> QED
    BY <1>4, <2>1 DEF Transfers
<1>7. \A j \in 1..Len(transfers) : transfers'[j].status \in {"pending", "landed", "dead"}
  <2> SUFFICES ASSUME NEW j \in 1..Len(transfers) PROVE transfers'[j].status \in {"pending", "landed", "dead"}
    OBVIOUS
  <2>1. transfers'[j] \in TransferRecord
    BY <1>4, ElementOfSeq
  <2> QED
    BY <2>1 DEF TransferRecord
<1>8. ASSUME NEW coin, NEW from, NEW to
      PROVE  /\ Of(coin, from, to, "landed")' = Of(coin, from, to, "landed") \cup
                    {j \in {i} : /\ s = "landed" /\ transfers[i].coin = coin /\ transfers[i].from = from
                                 /\ transfers[i].to = to}
             /\ Of(coin, from, to, "pending")' \subseteq Of(coin, from, to, "pending")
             /\ i \notin Of(coin, from, to, "landed")
             /\ s = "landed" /\ i \in Of(coin, from, to, "landed")' => i \in Of(coin, from, to, "pending")
  BY <1>1, <1>2, <1>4, <1>5 DEF Of
<1>9. ASSUME NEW d
      PROVE  /\ PaidTo(d)' = PaidTo(d) \cup {j \in {i} : s = "landed" /\ Pays(transfers[i], d)}
             /\ Swept(d)' = Swept(d) \cup {j \in {i} : s = "landed" /\ Sweeps(transfers[i], d)}
             /\ i \notin PaidTo(d) \cup Swept(d)
  BY <1>8 DEF PaidTo, Swept, Pays, Sweeps
<1>10. ASSUME NEW d PROVE AliveFor(d)' \subseteq AliveFor(d)
  BY <1>8 DEF AliveFor, PaidTo
<1> QED
  BY <1>4, <1>5, <1>6, <1>7, <1>9, <1>10
LEMMA ChainKeepsPayments ==
    ASSUME PlainInv, NEW i \in 1..Len(transfers), LandTransfer(i) \/ DropTransfer(i)
    PROVE  PlainInv'
<1>1. PICK s \in {"landed", "dead"} :
         /\ transfers' = [transfers EXCEPT ![i].status = s] /\ transfers[i].status = "pending"
         /\ s = "landed" => LandTransfer(i)
         /\ s = "dead" => UNCHANGED <<wx, xdai>>
  BY DEF LandTransfer, DropTransfer
<1> DEFINE Same(j) == /\ transfers'[j].coin = transfers[j].coin /\ transfers'[j].from = transfers[j].from
                      /\ transfers'[j].to = transfers[j].to /\ transfers'[j].amount = transfers[j].amount
                      /\ transfers'[j].status \in {"pending", "landed", "dead"}
<1>2. /\ Transfers' /\ Len(transfers') = Len(transfers) /\ \A j \in 1..Len(transfers) : Same(j)
      /\ \A d : /\ PaidTo(d)' = PaidTo(d) \cup {j \in {i} : s = "landed" /\ Pays(transfers[i], d)}
                /\ Swept(d)' = Swept(d) \cup {j \in {i} : s = "landed" /\ Sweeps(transfers[i], d)}
                /\ AliveFor(d)' \subseteq AliveFor(d)
                /\ i \notin PaidTo(d) \cup Swept(d)
  BY <1>1, FateOf
<1>3. /\ UNCHANGED <<deposits, sweeps>> /\ Transfers /\ PlainTypeOK /\ Holdings
      /\ wx \in [Dest \cup {Safe, Out} -> Nat] /\ xdai \in [Dest \cup {Node} -> Nat]
  BY DEF PlainInv, PlainTypeOK, LandTransfer, DropTransfer
<1> DEFINE t == transfers[i]
<1>4. t \in TransferRecord /\ Expected(t) /\ t.amount \in Nat
  <2>1. t \in TransferRecord
    BY <1>3, ElementOfSeq DEF Transfers
  <2>2. t.amount \in Nat
    BY <2>1 DEF TransferRecord
  <2>3. Expected(t)
    BY <1>3 DEF Transfers
  <2> QED
    BY <2>1, <2>2, <2>3
<1>5. \A d \in Dest : DepositFits(d, deposits[d])' /\ SweepFits(d, sweeps[d])'
  <2> SUFFICES ASSUME NEW d \in Dest PROVE DepositFits(d, deposits[d])' /\ SweepFits(d, sweeps[d])'
    OBVIOUS
  <2>1. DepositFits(d, deposits[d]) /\ SweepFits(d, sweeps[d])
    BY DEF PlainInv
  <2>2. PaidTo(d) \subseteq PaidTo(d)' /\ Swept(d) \subseteq Swept(d)' /\ AliveFor(d)' \subseteq AliveFor(d)
    BY <1>2
  <2>3. DepositFits(d, deposits[d])'
    BY <1>2, <1>3, <2>1, <2>2 DEF DepositFits, Pays, Sole
  <2>4. SweepFits(d, sweeps[d])'
    BY <1>2, <1>3, <2>1, <2>2 DEF SweepFits, Sweeps
  <2> QED
    BY <2>3, <2>4
<1> DEFINE Balances == /\ wx' \in [Dest \cup {Safe, Out} -> Nat] /\ xdai' \in [Dest \cup {Node} -> Nat]
                       /\ Holdings'
<1> HIDE DEF t
<1>6. ASSUME s = "dead" PROVE Balances
  <2>1. \A d \in Dest : PaidTo(d)' = PaidTo(d) /\ Swept(d)' = Swept(d)
    BY <1>2, <1>6
  <2> QED
    BY <1>1, <1>3, <1>6, <2>1 DEF Holdings
<1>7. ASSUME s = "landed", NEW d \in Dest, Pays(t, d), t.amount = 1 PROVE Balances
  <2>1. /\ wx[Safe] >= 1 /\ xdai' = [a \in DOMAIN xdai |-> IF a = Safe /\ a \in Dest THEN xdai[a] - 1 ELSE xdai[a]]
        /\ wx' = [wx EXCEPT ![Safe] = @ - 1, ![d] = @ + 1]
    BY <1>1, <1>7 DEF LandTransfer, Covered, Pays, t
  <2>2. xdai' \in [Dest \cup {Node} -> Nat]
    BY <1>3, <2>1, Accounts
  <2>3. /\ wx' \in [Dest \cup {Safe, Out} -> Nat] /\ wx'[d] = wx[d] + 1
        /\ \A c \in Dest : c # d => wx'[c] = wx[c]
    BY <1>3, <2>1, Accounts
  <2>4. \A c \in Dest : /\ Swept(c)' = Swept(c)
                        /\ c # d => PaidTo(c)' = PaidTo(c)
    BY <1>2, <1>7, Accounts DEF Pays, Sweeps, t
  <2>5. PaidTo(d)' = PaidTo(d) \cup {i} /\ i \notin PaidTo(d)
    BY <1>2, <1>7 DEF t
  <2>6. Sole(PaidTo(d)') => PaidTo(d) = {}
    BY <2>5 DEF Sole
  <2>7. PaidTo(d) = {} => wx[d] = 0 /\ Swept(d) = {}
    BY <1>3 DEF Holdings, Sole
  <2>8. Holdings'
    <3> SUFFICES ASSUME NEW c \in Dest, Sole(PaidTo(c)')
                 PROVE  /\ wx'[c] = IF PaidTo(c)' # {} /\ Swept(c)' = {} THEN 1 ELSE 0
                        /\ PaidTo(c)' = {} => Swept(c)' = {}
      BY DEF Holdings, Sole
    <3>1. CASE c = d
      <4>1. PaidTo(d) = {} /\ Swept(d)' = {} /\ PaidTo(d)' # {}
        BY <2>4, <2>5, <2>6, <2>7, <3>1
      <4>2. wx'[d] = 1
        BY <2>3, <2>7, <4>1
      <4> QED
        BY <3>1, <4>1, <4>2
    <3>2. CASE c # d
      BY <1>3, <2>3, <2>4, <3>2 DEF Holdings
    <3> QED
      BY <3>1, <3>2
  <2> QED
    BY <2>2, <2>3, <2>8
<1>8. ASSUME s = "landed", NEW d \in Dest, Sweeps(t, d), t.amount > 0 PROVE Balances
  <2>1. /\ wx[d] >= t.amount /\ xdai[d] >= 1
        /\ xdai' = [a \in DOMAIN xdai |-> IF a = d /\ a \in Dest THEN xdai[a] - 1 ELSE xdai[a]]
        /\ wx' = [wx EXCEPT ![d] = @ - t.amount, ![Out] = @ + t.amount]
    BY <1>1, <1>8 DEF LandTransfer, Covered, Sweeps, t
  <2>2. xdai' \in [Dest \cup {Node} -> Nat]
    BY <1>3, <2>1
  <2>3. /\ wx' \in [Dest \cup {Safe, Out} -> Nat] /\ wx'[d] = wx[d] - t.amount
        /\ \A c \in Dest : c # d => wx'[c] = wx[c]
    <3>1. d # Out /\ d \in DOMAIN wx /\ Out \in DOMAIN wx /\ wx[d] \in Nat /\ wx[Out] \in Nat
      BY <1>3, Accounts
    <3>2. wx[d] - t.amount \in Nat /\ wx[Out] + t.amount \in Nat
      BY <1>4, <2>1, <3>1
    <3>3. /\ wx' \in [Dest \cup {Safe, Out} -> Nat] /\ wx'[d] = wx[d] - t.amount
      BY <1>3, <2>1, <3>1, <3>2
    <3>4. \A c \in Dest : c # d => wx'[c] = wx[c]
      BY <1>3, <2>1, Accounts
    <3> QED
      BY <3>3, <3>4
  <2>4. \A c \in Dest : /\ PaidTo(c)' = PaidTo(c)
                        /\ c # d => Swept(c)' = Swept(c)
    BY <1>2, <1>8, Accounts DEF Pays, Sweeps, t
  <2>5. Swept(d)' # {}
    BY <1>2, <1>8 DEF t
  <2>6. Sole(PaidTo(d)) => PaidTo(d) # {} /\ wx[d] = 1 /\ wx'[d] = 0
    BY <1>3, <1>4, <1>8, <2>1, <2>3 DEF Holdings
  <2>7. Holdings'
    <3> SUFFICES ASSUME NEW c \in Dest, Sole(PaidTo(c)')
                 PROVE  /\ wx'[c] = IF PaidTo(c)' # {} /\ Swept(c)' = {} THEN 1 ELSE 0
                        /\ PaidTo(c)' = {} => Swept(c)' = {}
      BY DEF Holdings, Sole
    <3>1. CASE c = d
      BY <2>4, <2>5, <2>6, <3>1
    <3>2. CASE c # d
      BY <1>3, <2>3, <2>4, <3>2 DEF Holdings
    <3> QED
      BY <3>1, <3>2
  <2> QED
    BY <2>2, <2>3, <2>7
<1>9. ASSUME s = "landed", t.coin = "xdai", t.from = Node, t.to \in Dest PROVE Balances
  <2>1. UNCHANGED wx /\ xdai[Node] >= t.amount
        /\ xdai' = [xdai EXCEPT ![Node] = @ - t.amount, ![t.to] = @ + t.amount]
    BY <1>1, <1>9 DEF LandTransfer, Covered, t
  <2>2. xdai' \in [Dest \cup {Node} -> Nat]
    BY <1>3, <1>4, <1>9, <2>1, Accounts
  <2>3. \A c \in Dest : PaidTo(c)' = PaidTo(c) /\ Swept(c)' = Swept(c)
    BY <1>2, <1>9 DEF Pays, Sweeps, t
  <2> QED
    BY <1>3, <2>1, <2>2, <2>3 DEF Holdings
<1>10. Balances
  BY <1>4, <1>6, <1>7, <1>8, <1>9 DEF Expected
<1>11. PlainTypeOK'
  BY <1>2, <1>3, <1>10 DEF PlainTypeOK
<1> QED
  BY <1>2, <1>5, <1>10, <1>11 DEF PlainInv
LEMMA PlainInductive == PlainInit => PlainInv
<1> SUFFICES ASSUME PlainInit PROVE PlainInv
  OBVIOUS
<1>1. /\ SafeFloat \in Nat /\ NodeGas \in Nat /\ DepositRetries \in Nat /\ SweepRetries \in Nat
      /\ MaxTransfers \in Nat
  BY PlainAssumption
<1>2. transfers = <<>> /\ Transfers /\ \A d \in Dest : PaidTo(d) = {} /\ AliveFor(d) = {} /\ Swept(d) = {}
  BY DEF PlainInit, Transfers, PaidTo, AliveFor, Swept, Of
<1>3. wx \in [Dest \cup {Safe, Out} -> Nat] /\ xdai \in [Dest \cup {Node} -> Nat] /\ \A d \in Dest : wx[d] = 0
  BY <1>1, Accounts DEF PlainInit
<1>4. ASSUME NEW d \in Dest
      PROVE  /\ deposits[d] \in DepositCall /\ deposits[d].at = "idle" /\ deposits[d].verdict = "none"
             /\ sweeps[d] \in SweepCall /\ sweeps[d].at = "idle" /\ sweeps[d].verdict = "none"
  BY <1>1 DEF PlainInit, DepositCall, SweepCall
<1>5. deposits \in [Dest -> DepositCall] /\ sweeps \in [Dest -> SweepCall]
  BY <1>4 DEF PlainInit
<1>6. PlainTypeOK
  BY <1>1, <1>2, <1>3, <1>5 DEF PlainTypeOK
<1>7. Holdings
  BY <1>2, <1>3 DEF Holdings
<1>8. \A d \in Dest : DepositFits(d, deposits[d]) /\ SweepFits(d, sweeps[d])
  BY <1>2, <1>4 DEF DepositFits, SweepFits, Sole
<1> QED
  BY <1>2, <1>6, <1>7, <1>8 DEF PlainInv

LEMMA SoleByCount ==
    ASSUME PlainInv, NEW d \in Dest
    PROVE  Sole(PaidTo(d)) <=> ~(Cardinality(PaidTo(d)) > 1)
<1>1. Len(transfers) \in Nat
  BY DEF PlainInv, Transfers
<1>2. IsFiniteSet(PaidTo(d)) /\ Cardinality(PaidTo(d)) \in Nat
  <2>1. IsFiniteSet(1..Len(transfers))
    <3>1. 1 \in Int /\ Len(transfers) \in Int
      BY <1>1
    <3> QED
      BY <3>1, FS_Interval
  <2>2. PaidTo(d) \subseteq 1..Len(transfers)
    BY DEF PaidTo, Of
  <2>3. PaidTo(d) \in SUBSET (1..Len(transfers))
    BY <2>2
  <2>4. IsFiniteSet(PaidTo(d))
    BY <2>1, <2>3, FS_Subset
  <2> QED
    BY <2>4, FS_CardinalityType
<1>3. ASSUME Sole(PaidTo(d)) PROVE ~(Cardinality(PaidTo(d)) > 1)
  <2>1. CASE PaidTo(d) = {}
    BY <2>1, FS_EmptySet
  <2>2. CASE PaidTo(d) # {}
    <3>1. PICK i \in PaidTo(d) : PaidTo(d) = {i}
      BY <1>3, <2>2 DEF Sole
    <3>2. Cardinality({i}) = 1
      BY FS_Singleton
    <3> QED
      BY <3>1, <3>2
  <2> QED
    BY <2>1, <2>2
<1>4. ASSUME NEW i \in PaidTo(d), NEW j \in PaidTo(d), i # j PROVE Cardinality(PaidTo(d)) > 1
  <2>1. /\ IsFiniteSet(PaidTo(d) \ {i}) /\ Cardinality(PaidTo(d) \ {i}) = Cardinality(PaidTo(d)) - 1
    BY <1>2, FS_RemoveElement
  <2>2. Cardinality(PaidTo(d) \ {i}) # 0
    BY <1>4, <2>1, FS_EmptySet
  <2>3. Cardinality(PaidTo(d) \ {i}) \in Nat
    BY <2>1, FS_CardinalityType
  <2> QED
    BY <1>2, <2>1, <2>2, <2>3
<1> QED
  BY <1>3, <1>4 DEF Sole

LEMMA PaymentsFollow == PlainInv => PaymentsExplained
<1> SUFFICES ASSUME PlainInv, NEW d \in Dest
             PROVE  /\ Cardinality(PaidTo(d)) > 1 => deposits[d].excused
                    /\ deposits[d].verdict = "free" => PaidTo(d) \cup Of("wx", Safe, d, "pending") = {}
                    /\ deposits[d].verdict = "ok" => PaidTo(d) # {}
                    /\ sweeps[d].verdict = "ok" => /\ Swept(d) # {}
                                                   /\ wx[d] > 0 => Cardinality(PaidTo(d)) > 1
  BY DEF PaymentsExplained, PaidTo, Swept
<1>1. DepositFits(d, deposits[d]) /\ SweepFits(d, sweeps[d]) /\ Holdings
  BY DEF PlainInv
<1>2. Cardinality(PaidTo(d)) > 1 => deposits[d].excused
  <2>1. Sole(AliveFor(d)) => Sole(PaidTo(d))
    BY DEF Sole, AliveFor
  <2> QED
    BY <1>1, <2>1, SoleByCount DEF DepositFits
<1>3. deposits[d].verdict = "free" => PaidTo(d) \cup Of("wx", Safe, d, "pending") = {}
  BY <1>1 DEF DepositFits, AliveFor
<1>4. deposits[d].verdict = "ok" => PaidTo(d) # {}
  BY <1>1 DEF DepositFits
<1>5. ASSUME sweeps[d].verdict = "ok"
      PROVE  Swept(d) # {} /\ (wx[d] > 0 => Cardinality(PaidTo(d)) > 1)
  <2>1. Swept(d) # {}
    BY <1>1, <1>5 DEF SweepFits
  <2>2. Sole(PaidTo(d)) => wx[d] = 0
    BY <1>1, <2>1 DEF Holdings
  <2> QED
    BY <2>1, <2>2, SoleByCount
<1> QED
  BY <1>2, <1>3, <1>4, <1>5

LEMMA PlainStep == ASSUME PlainInv, [PlainNext]_plainVars PROVE PlainInv'
<1>1. CASE UNCHANGED plainVars
  <2>1. UNCHANGED <<wx, xdai, transfers, deposits, sweeps>>
    BY <1>1 DEF plainVars
  <2>2. Transfers' = Transfers /\ PlainTypeOK' = PlainTypeOK
    BY <2>1 DEF Transfers, PlainTypeOK
  <2>3. \A d \in Dest : PaidTo(d)' = PaidTo(d) /\ AliveFor(d)' = AliveFor(d) /\ Swept(d)' = Swept(d)
    BY <2>1 DEF PaidTo, AliveFor, Swept, Of
  <2>4. Holdings' /\ \A d \in Dest : DepositFits(d, deposits[d])' /\ SweepFits(d, sweeps[d])'
    BY <2>1, <2>3 DEF PlainInv, Holdings, DepositFits, SweepFits
  <2> QED
    BY <2>2, <2>4 DEF PlainInv
<1>2. CASE PlainNext
  BY <1>2, ChainKeepsPayments, DepositKeepsPayments, SweepKeepsPayments DEF PlainNext
<1> QED
  BY <1>1, <1>2

\* For any addresses, balances and retries: a deposit is paid twice only by a retry that could not see the
\* first payment, a refusal said to have moved no funds sent nothing, a success is funded, and a sweep
\* reported done leaves nothing behind but a second payment (deposit_once, sweep_single).
THEOREM PaymentsAccounted == PlainSpec => []PaymentsExplained
<1>1. PlainInv /\ [PlainNext]_plainVars => PlainInv'  BY PlainStep
<1> QED
  BY <1>1, PlainInductive, PaymentsFollow, PTL DEF PlainSpec

-----------------------------------------------------------------------------
(***************************************************************************)
(* Discovery.                                                              *)
(***************************************************************************)

\* The source that keeps every announcement.
IsStream == source = "stream"

\* The index: announcements are distinct and come before their commitment, and the cursors stay within it.
Index ==
    /\ announced \in Seq(Notes) /\ commits \in Seq(Notes)
    /\ \A i, j \in 1..Len(announced) : announced[i] = announced[j] => i = j
    /\ Range(commits) \subseteq Range(announced)
    /\ settled \in 0..Len(commits) /\ commitCursor \in 0..settled
    /\ source \in {"stream", "snapshot"}
    /\ IsStream => pendingCursor \in 0..Len(announced)

Later  == {"commits", "head", "candidates"}
Stages == {"rest", "pending"} \cup Later

\* Of the queue and the cursor of a pass over the pending view of a snapshot nothing is needed.
PassOf(queue, through) ==
    [at : Stages, again : BOOLEAN, more : BOOLEAN, queue : {queue}, page : Seq(Notes),
     pending : {through}, commit : Nat, through : Nat, seen : Nat]

PassTyped ==
    /\ pass \in PassOf(pass.queue, pass.pending)
    /\ replay \in BOOLEAN
    /\ pass.at \in {"rest", "pending"} => pass.page = <<>>

\* What has been decided of the announcements and commitments up to the cursors of the pass, or the durable
\* ones at rest.
Judged(i)  == owner[announced[i]] \in Watched => announced[i] \in found
JudgedTo   == CASE pass.at = "rest" -> pendingCursor [] pass.at = "pending" -> pass.pending [] OTHER -> pass.seen
NonceSettled(i) == owner[commits[i]] \in Watched => commits[i] \in correlated \/ (IsStream /\ commits[i] \in overtaken)
SettledTo  == IF pass.at = "rest" THEN commitCursor ELSE pass.commit

\* While announcements are judged, the queue is the stretch of the log after the pass's cursor.
PendingStage ==
    pass.at = "pending" /\ IsStream =>
        /\ pass.pending \in Nat /\ pass.queue \in Seq(Notes)
        /\ pass.pending + Len(pass.queue) <= Len(announced)
        /\ \A j \in 1..Len(pass.queue) : pass.queue[j] = announced[pass.pending + j]
        /\ pass.seen <= Len(announced)
        /\ ~pass.more => pass.pending + Len(pass.queue) = pass.seen /\ pendingCursor <= pass.seen
        /\ ~pass.again => pendingCursor <= pass.pending

\* Then the page is the stretch of commitments after it, within the head that was read.
CommitStage ==
    pass.at \in Later =>
        /\ IsStream => pass.queue = <<>> /\ pendingCursor <= pass.seen /\ pass.seen <= Len(announced)
        /\ commitCursor <= pass.through /\ pass.through <= settled
        /\ pass.commit + Len(pass.page) <= Len(commits)
        /\ \A j \in 1..Len(pass.page) : pass.page[j] = commits[pass.commit + j]
        /\ ~pass.more => commitCursor <= pass.commit + Len(pass.page)
        /\ pass.page = <<>> <=> pass.at = "commits"
        /\ pass.at = "candidates" => pass.queue \in Seq(Notes)

\* A pass that is not from genesis never stands before the durable cursor.
CommitBehind ==
    pass.at # "rest" => pass.commit <= Len(commits) /\ (~pass.again => commitCursor <= pass.commit)

\* Without a registration since the pass began, the places passed left no watched note behind.
PassKnows ==
    ~replay =>
        /\ IsStream => \A i \in 1..JudgedTo : Judged(i)
        /\ \A i \in 1..SettledTo : NonceSettled(i)
        /\ ~IsStream /\ pass.at = "candidates" =>
              \A j \in 1..Len(pass.page) :
                  owner[pass.page[j]] \in Watched => pass.page[j] \in found \cup Range(pass.queue)

DiscInv == Index /\ PassTyped /\ PendingStage /\ CommitStage /\ CommitBehind /\ PassKnows

\* A page is the stretch of the log after its cursor, and a page that is not full ends the log.
LEMMA PageFacts ==
    ASSUME NEW s \in Seq(Notes), NEW c \in Nat, c <= Len(s)
    PROVE  /\ PageAfter(s, c) \in Seq(Notes)
           /\ Len(PageAfter(s, c)) <= PageSize
           /\ c + Len(PageAfter(s, c)) <= Len(s)
           /\ Len(PageAfter(s, c)) # PageSize => c + Len(PageAfter(s, c)) = Len(s)
           /\ \A j \in 1..Len(PageAfter(s, c)) : PageAfter(s, c)[j] = s[c + j]
<1> DEFINE last == IF c + PageSize < Len(s) THEN c + PageSize ELSE Len(s)
<1>1. PageSize \in Nat \ {0} /\ Len(s) \in Nat /\ last \in Nat /\ c <= last /\ last <= Len(s)
  BY DiscoveryAssumption, LenProperties DEF DiscoveryAssumption
<1>2. \A i \in (c + 1)..last : s[i] \in Notes
  BY <1>1, ElementOfSeq
<1>3. /\ SubSeq(s, c + 1, last) \in Seq(Notes)
      /\ Len(SubSeq(s, c + 1, last)) = IF c + 1 <= last THEN last - (c + 1) + 1 ELSE 0
      /\ \A i \in 1..(last - (c + 1) + 1) : SubSeq(s, c + 1, last)[i] = s[c + 1 + i - 1]
  BY <1>1, <1>2, SubSeqProperties
<1>4. PageAfter(s, c) = SubSeq(s, c + 1, last)
  BY DEF PageAfter
<1> QED  BY <1>1, <1>3, <1>4

\* Announcements are distinct: a note is found where it stands.
LEMMA Positions ==
    ASSUME Index, NEW i \in 1..Len(announced)
    PROVE  PositionOf(announced, announced[i]) = i
BY DEF Index, PositionOf

\* What a log holds.
LEMMA InRange ==
    ASSUME NEW S, NEW s \in Seq(S)
    PROVE  \A n : n \in Range(s) <=> \E i \in 1..Len(s) : s[i] = n
BY DEF Range

\* The index only grows, so what the cursors passed stays where it was.
LEMMA IndexKeepsDiscovery ==
    ASSUME DiscInv, IndexStep
    PROVE  DiscInv'
<1> USE DEF DiscInv
<1>1. /\ announced' \in Seq(Notes) /\ Len(announced) <= Len(announced')
      /\ \A i \in 1..Len(announced) : announced'[i] = announced[i]
      /\ \A i, j \in 1..Len(announced') : announced'[i] = announced'[j] => i = j
      /\ commits' \in Seq(Notes) /\ Len(commits) <= Len(commits')
      /\ \A i \in 1..Len(commits) : commits'[i] = commits[i]
      /\ Range(commits') \subseteq Range(announced')
      /\ settled <= settled' /\ settled' \in 0..Len(commits')
  <2>1. CASE \E n \in Notes : Announce(n)
    <3> PICK n \in Notes : Announce(n)  BY <2>1
    <3>1. /\ announced' \in Seq(Notes) /\ Len(announced') = Len(announced) + 1
          /\ \A i \in 1..Len(announced) : announced'[i] = announced[i]
          /\ announced'[Len(announced) + 1] = n
      BY AppendProperties DEF Announce, Index
    <3>2. \A i \in 1..Len(announced) : announced[i] # n
      BY InRange DEF Announce, Index
    <3>3. Len(announced) \in Nat /\ commits' = commits /\ settled' = settled /\ Len(commits) \in Nat
      BY LenProperties DEF Announce, Index
    <3>4. Range(announced) \subseteq Range(announced')
      BY <3>1, <3>3, InRange DEF Index
    <3>5. ASSUME NEW i \in 1..Len(announced'), NEW j \in 1..Len(announced'), announced'[i] = announced'[j]
          PROVE  i = j
      <4>1. /\ i \in 1..Len(announced) \/ i = Len(announced) + 1
            /\ j \in 1..Len(announced) \/ j = Len(announced) + 1
        BY <3>1, <3>3
      <4>2. CASE i \in 1..Len(announced) /\ j \in 1..Len(announced)
        BY <4>2, <3>1, <3>5 DEF Index
      <4> QED  BY <4>1, <4>2, <3>1, <3>2, <3>5
    <3>6. /\ commits \in Seq(Notes) /\ Range(commits) \subseteq Range(announced')
          /\ settled \in 0..Len(commits) /\ settled \in Int
      BY <3>3, <3>4 DEF Index
    <3> QED  BY <3>1, <3>3, <3>5, <3>6
  <2>2. CASE \E n \in Notes : CommitNote(n)
    <3> PICK n \in Notes : CommitNote(n)  BY <2>2
    <3>1. /\ commits' \in Seq(Notes) /\ Len(commits') = Len(commits) + 1
          /\ \A i \in 1..Len(commits) : commits'[i] = commits[i]
          /\ commits'[Len(commits) + 1] = n
      BY AppendProperties DEF CommitNote, Index
    <3>2. Len(commits) \in Nat /\ announced' = announced /\ Len(announced) \in Nat
      BY LenProperties DEF CommitNote, Index
    <3>3. Range(commits') \subseteq Range(announced)
      <4> SUFFICES ASSUME NEW m \in Range(commits') PROVE m \in Range(announced)  OBVIOUS
      <4>1. PICK i \in 1..Len(commits') : commits'[i] = m  BY <3>1, InRange
      <4>2. CASE i = Len(commits) + 1  BY <3>1, <4>1, <4>2 DEF CommitNote
      <4>3. CASE i \in 1..Len(commits)  BY <3>1, <4>1, <4>3, InRange DEF Index
      <4> QED  BY <3>1, <3>2, <4>2, <4>3
    <3>4. settled <= settled' /\ settled' \in 0..Len(commits')
      BY <3>1, <3>2 DEF CommitNote, Index
    <3> QED  BY <3>1, <3>2, <3>3, <3>4 DEF Index
  <2>3. CASE SettleNote
    BY <2>3, LenProperties DEF SettleNote, Index
  <2> QED  BY <2>1, <2>2, <2>3 DEF IndexStep
<1>2. UNCHANGED <<source, owner, durableVars, waiters, replay, pass, overtaken>>
  BY DEF IndexStep
<1>3. Len(announced) \in Nat /\ Len(commits) \in Nat /\ Len(announced') \in Nat /\ Len(commits') \in Nat
  BY <1>1, LenProperties DEF Index
<1>4. Index'
  BY <1>1, <1>2, <1>3 DEF Index, durableVars, IsStream
<1>5. PassTyped'
  BY <1>2 DEF PassTyped, PassOf
<1>6. PendingStage'
  <2>1. PendingStage /\ IsStream' = IsStream  BY <1>2 DEF IsStream
  <2> SUFFICES ASSUME pass.at = "pending", IsStream
               PROVE  PendingStage'
    BY <1>2, <2>1 DEF PendingStage
  <2>2. pass.pending \in Nat /\ Len(pass.queue) \in Nat /\ pass.seen \in Nat
    BY <2>1, LenProperties DEF PendingStage, PassTyped, PassOf
  <2>3. \A j \in 1..Len(pass.queue) : pass.pending + j \in 1..Len(announced)
    BY <1>3, <2>1, <2>2 DEF PendingStage
  <2>4. \A j \in 1..Len(pass.queue) : pass.queue[j] = announced'[pass.pending + j]
    BY <1>1, <2>1, <2>3 DEF PendingStage
  <2>5. pass.pending + Len(pass.queue) <= Len(announced') /\ pass.seen <= Len(announced')
    BY <1>1, <1>3, <2>1, <2>2 DEF PendingStage
  <2>6. pass' = pass /\ pendingCursor' = pendingCursor  BY <1>2 DEF durableVars
  <2> QED  BY <2>1, <2>4, <2>5, <2>6 DEF PendingStage
<1>7. CommitStage'
  <2> SUFFICES ASSUME pass.at \in Later PROVE CommitStage'  BY <1>2 DEF CommitStage
  <2>1. CommitStage /\ IsStream' = IsStream  BY <1>2 DEF IsStream
  <2>2. pass.page \in Seq(Notes) /\ pass.commit \in Nat /\ pass.seen \in Nat /\ pass.through \in Nat
    BY DEF PassTyped, PassOf
  <2>3. Len(pass.page) \in Nat /\ settled \in Nat /\ settled' \in Nat
    BY <1>1, <1>3, <2>2, LenProperties DEF Index
  <2>4. \A j \in 1..Len(pass.page) : pass.commit + j \in 1..Len(commits)
    BY <1>3, <2>1, <2>2, <2>3 DEF CommitStage
  <2>5. \A j \in 1..Len(pass.page) : pass.page[j] = commits'[pass.commit + j]
    BY <1>1, <2>1, <2>4 DEF CommitStage
  <2>6. commitCursor <= pass.through /\ pass.through <= settled' /\ commitCursor \in Nat
    BY <1>1, <2>1, <2>2, <2>3 DEF CommitStage, Index
  <2>7. pass.commit + Len(pass.page) <= Len(commits')
    BY <1>1, <1>3, <2>1, <2>2, <2>3 DEF CommitStage
  <2>8. IsStream => pass.queue = <<>> /\ pendingCursor <= pass.seen /\ pass.seen <= Len(announced')
    BY <1>1, <1>3, <2>1, <2>2 DEF CommitStage
  <2> QED  BY <1>2, <2>1, <2>5, <2>6, <2>7, <2>8 DEF CommitStage, durableVars
<1>8. CommitBehind'
  BY <1>1, <1>2, <1>3 DEF CommitBehind, durableVars, PassTyped, PassOf
<1>9. PassKnows'
  <2>1. PassKnows /\ IsStream' = IsStream /\ Watched' = Watched  BY <1>2 DEF IsStream, Watched
  <2>2. IsStream => \A i \in 1..JudgedTo : i \in 1..Len(announced)
    BY <1>3, LenProperties DEF PendingStage, CommitStage, Later, PassTyped, JudgedTo, Index, Stages, PassOf
  <2>3. \A i \in 1..SettledTo : i \in 1..Len(commits)
    BY <1>3 DEF CommitBehind, SettledTo, PassTyped, Index, PassOf
  <2>4. JudgedTo' = JudgedTo /\ SettledTo' = SettledTo
    BY <1>2 DEF JudgedTo, SettledTo, durableVars
  <2>5. ASSUME NEW i \in 1..Len(announced), Judged(i) PROVE Judged(i)'
    BY <1>1, <1>2, <2>1, <2>5 DEF Judged, durableVars
  <2>6. ASSUME NEW i \in 1..Len(commits), NonceSettled(i) PROVE NonceSettled(i)'
    BY <1>1, <1>2, <2>1, <2>6 DEF NonceSettled, durableVars
  <2> QED  BY <1>2, <2>1, <2>2, <2>3, <2>4, <2>5, <2>6 DEF PassKnows, durableVars
<1> QED  BY <1>4, <1>5, <1>6, <1>7, <1>8, <1>9
\* What was judged or correlated stays so while nobody new waits.
LEMMA FactsStay ==
    ASSUME UNCHANGED indexVars, found \subseteq found', correlated \subseteq correlated',
           overtaken \subseteq overtaken', Watched' \subseteq Watched
    PROVE  /\ IsStream' = IsStream
           /\ \A i : Judged(i) => Judged(i)'
           /\ \A i : NonceSettled(i) => NonceSettled(i)'
<1>1. source' = source /\ owner' = owner /\ announced' = announced /\ commits' = commits
  BY DEF indexVars
<1> QED  BY <1>1 DEF IsStream, Judged, NonceSettled

\* The cursors stay within an index that does not move.
LEMMA IndexStays ==
    ASSUME DiscInv, UNCHANGED indexVars, commitCursor' \in 0..settled,
           IsStream => pendingCursor' \in 0..Len(announced)
    PROVE  Index'
BY DEF DiscInv, Index, indexVars, IsStream

\* With the pass over, what the inner places promised holds of the cursors.
LEMMA ReachedAtRest ==
    ASSUME DiscInv, ~pass.again
    PROVE  /\ IsStream => \A i \in 1..pendingCursor : i \in 1..JudgedTo
           /\ \A i \in 1..commitCursor : i \in 1..SettledTo
<1>1. IsStream => pendingCursor <= JudgedTo /\ pendingCursor \in Nat /\ JudgedTo \in Nat
  <2>1. pass.seen \in Nat /\ pass.at \in Stages  BY DEF DiscInv, PassTyped, PassOf
  <2> QED  BY <2>1 DEF DiscInv, Index, PendingStage, CommitStage, JudgedTo, Stages, Later, PassOf
<1>2. commitCursor <= SettledTo /\ commitCursor \in Nat /\ SettledTo \in Nat
  <2>1. pass.commit \in Nat /\ Len(commits) \in Nat  BY LenProperties DEF DiscInv, PassTyped, Index, PassOf
  <2> QED  BY <2>1 DEF DiscInv, Index, CommitBehind, SettledTo
<1> QED  BY <1>1, <1>2

\* A pass that ends leaves to the cursors what its places promised.
LEMMA RestingKeepsDiscovery ==
    ASSUME DiscInv, UNCHANGED <<indexVars, durableVars>>, pass' = Resting, replay' \in BOOLEAN,
           ~replay' /\ Watched' # {} => /\ ~replay /\ Watched' \subseteq Watched /\ overtaken \subseteq overtaken'
                                        /\ /\ IsStream => \A i \in 1..pendingCursor : i \in 1..JudgedTo
                                           /\ \A i \in 1..commitCursor : i \in 1..SettledTo
    PROVE  DiscInv'
<1>1. Index'  BY IndexStays DEF DiscInv, Index, durableVars
<1>2. /\ pass' \in PassOf(pass'.queue, pass'.pending)
      /\ pass'.at = "rest" /\ pass'.page = <<>>
  BY EmptySeq DEF Resting, Stages, PassOf
<1>3. PassTyped'  BY <1>2 DEF PassTyped, PassOf
<1>4. PendingStage' /\ CommitStage' /\ CommitBehind'  BY <1>2 DEF PendingStage, CommitStage, CommitBehind, Later
<1>5. PassKnows'
  <2>1. JudgedTo' = pendingCursor /\ SettledTo' = commitCursor
    BY <1>2 DEF JudgedTo, SettledTo, durableVars
  <2>2. IsStream' = IsStream  BY DEF IsStream, indexVars
  <2>3. CASE Watched' = {}  BY <1>2, <2>3 DEF PassKnows, Judged, NonceSettled
  <2>4. CASE Watched' # {}
    <3> SUFFICES ASSUME ~replay' PROVE PassKnows'  BY DEF PassKnows
    <3>1. /\ PassKnows /\ ~replay
          /\ \A i : Judged(i) => Judged(i)'
          /\ \A i : NonceSettled(i) => NonceSettled(i)'
      BY <2>4, FactsStay DEF DiscInv, durableVars
    <3>2. /\ IsStream => \A i \in 1..pendingCursor : i \in 1..JudgedTo
          /\ \A i \in 1..commitCursor : i \in 1..SettledTo
      BY <2>4
    <3> QED  BY <1>2, <2>1, <2>2, <3>1, <3>2 DEF PassKnows
  <2> QED  BY <2>3, <2>4
<1> QED  BY <1>1, <1>3, <1>4, <1>5 DEF DiscInv

\* A pass that fails gives its request for a pass from genesis back, and a restart leaves nobody waiting.
LEMMA EndsKeepDiscovery ==
    ASSUME DiscInv, PassFails \/ Restart \/ EndPass
    PROVE  DiscInv'
<1>1. CASE PassFails
  <2>1. ~replay' => ~replay /\ ~pass.again  BY <1>1 DEF PassFails, Restored
  <2>2. Watched' = Watched /\ overtaken' = overtaken /\ pass' = Resting /\ UNCHANGED <<indexVars, durableVars>>
    BY <1>1 DEF PassFails, Watched
  <2>3. replay' \in BOOLEAN  BY <1>1 DEF PassFails, Restored, DiscInv, PassTyped, PassOf
  <2> QED  BY <2>1, <2>2, <2>3, ReachedAtRest, RestingKeepsDiscovery
<1>2. CASE Restart
  <2>1. Watched' = {} /\ replay' \in BOOLEAN /\ pass' = Resting /\ UNCHANGED <<indexVars, durableVars>>
    BY <1>2 DEF Restart, Watched
  <2> QED  BY <2>1, RestingKeepsDiscovery
<1>3. CASE EndPass
  <2>1. /\ Watched' = Watched /\ overtaken' = overtaken /\ pass' = Resting /\ UNCHANGED <<indexVars, durableVars>>
        /\ replay' = replay /\ pass.at = "commits" /\ pass.page = <<>> /\ ~pass.more
    BY <1>3 DEF EndPass, Watched
  <2>2. replay \in BOOLEAN /\ Len(pass.page) = 0 /\ pass.seen \in Nat /\ pass.commit \in Nat
    BY <2>1, EmptySeq DEF DiscInv, PassTyped, PassOf
  <2>3. IsStream => \A i \in 1..pendingCursor : i \in 1..JudgedTo
    BY <2>1, <2>2 DEF DiscInv, CommitStage, Later, JudgedTo, Index
  <2>4. \A i \in 1..commitCursor : i \in 1..SettledTo
    BY <2>1, <2>2 DEF DiscInv, CommitStage, Later, SettledTo, Index
  <2> QED  BY <2>1, <2>2, <2>3, <2>4, RestingKeepsDiscovery
<1> QED  BY <1>1, <1>2, <1>3

\* A registration asks for a pass from genesis, and a receiver dropped asks for less.
LEMMA WaitersKeepDiscovery ==
    ASSUME DiscInv, NEW w \in Waiter, Watch(w) \/ Cancel(w)
    PROVE  DiscInv'
<1>1. UNCHANGED <<indexVars, durableVars, pass, overtaken>>
  BY DEF Watch, Cancel
<1>2. Index'  BY <1>1, IndexStays DEF DiscInv, Index, durableVars
<1>3. ~replay' => ~replay /\ Watched' \subseteq Watched
  BY DEF Watch, Cancel, ReplayFor, Watched
<1>4. PassTyped'
  BY <1>1 DEF DiscInv, PassTyped, Watch, Cancel, ReplayFor, PassOf
<1>5. PendingStage' /\ CommitStage' /\ CommitBehind'
  BY <1>1 DEF DiscInv, PendingStage, CommitStage, CommitBehind, indexVars, durableVars, IsStream
<1>6. PassKnows'
  <2> SUFFICES ASSUME ~replay' PROVE PassKnows'  BY DEF PassKnows
  <2>1. /\ PassKnows /\ ~replay /\ IsStream' = IsStream /\ Watched' \subseteq Watched
        /\ \A i : Judged(i) => Judged(i)'
        /\ \A i : NonceSettled(i) => NonceSettled(i)'
    BY <1>1, <1>3, FactsStay DEF DiscInv, durableVars
  <2>2. JudgedTo' = JudgedTo /\ SettledTo' = SettledTo
    BY <1>1 DEF JudgedTo, SettledTo, durableVars
  <2>3. pass' = pass /\ found' = found /\ owner' = owner  BY <1>1 DEF indexVars, durableVars
  <2> QED  BY <2>1, <2>2, <2>3 DEF PassKnows
<1> QED  BY <1>2, <1>4, <1>5, <1>6 DEF DiscInv

\* A pass from genesis promises nothing yet; any other begins at the cursors.
LEMMA StartKeepsDiscovery ==
    ASSUME DiscInv, StartPass
    PROVE  DiscInv'
<1>1. UNCHANGED <<indexVars, durableVars, waiters, overtaken>> /\ replay \in BOOLEAN /\ replay' = FALSE
  BY DEF StartPass, DiscInv, PassTyped, PassOf
<1>2. Index'  BY <1>1, IndexStays DEF DiscInv, Index, durableVars
<1>3. commitCursor \in Nat /\ Len(commits) \in Nat /\ commitCursor <= Len(commits)
      /\ (IsStream => pendingCursor \in Nat /\ pendingCursor <= Len(announced) /\ Len(announced) \in Nat)
  BY LenProperties DEF DiscInv, Index
<1>4. /\ pass' \in PassOf(pass'.queue, pass'.pending)
      /\ pass'.at = "pending" /\ pass'.page = <<>> /\ pass'.queue = <<>> /\ pass'.more = TRUE
      /\ pass'.again = replay /\ pass'.seen = 0
      /\ pass'.pending = (IF replay THEN 0 ELSE pendingCursor)
      /\ pass'.commit = (IF replay THEN 0 ELSE commitCursor)
  BY <1>1, <1>3, EmptySeq DEF Resting, Stages, StartPass, PassOf
<1>5. PassTyped'  BY <1>1, <1>4 DEF PassTyped, PassOf
<1>6. IsStream' = IsStream /\ Watched' = Watched
  BY <1>1 DEF IsStream, Watched, indexVars
<1>7. PendingStage' /\ CommitStage' /\ CommitBehind'
  <2>1. <<>> \in Seq(Notes) /\ Len(<<>>) = 0  BY EmptySeq
  <2> QED  BY <1>1, <1>3, <1>4, <1>6, <2>1
           DEF PendingStage, CommitStage, CommitBehind, Later, indexVars, durableVars
<1>8. PassKnows'
  <2>1. JudgedTo' = (IF replay THEN 0 ELSE pendingCursor) /\ SettledTo' = (IF replay THEN 0 ELSE commitCursor)
    BY <1>4 DEF JudgedTo, SettledTo
  <2>2. CASE replay
    BY <1>4, <2>1, <2>2 DEF PassKnows
  <2>3. CASE ~replay
    <3>1. /\ PassKnows /\ JudgedTo = pendingCursor /\ SettledTo = commitCursor
          /\ \A i : Judged(i) => Judged(i)'
          /\ \A i : NonceSettled(i) => NonceSettled(i)'
      BY <1>1, <1>6, FactsStay DEF DiscInv, JudgedTo, SettledTo, StartPass, durableVars
    <3> QED  BY <1>4, <1>6, <2>1, <2>3, <3>1 DEF PassKnows
  <2> QED  BY <1>1, <2>2, <2>3
<1> QED  BY <1>2, <1>5, <1>7, <1>8 DEF DiscInv

\* A read of the index changes the pass alone.
LEMMA ReadsKeepFacts ==
    ASSUME DiscInv, UNCHANGED <<indexVars, durableVars, waiters, replay, overtaken>>
    PROVE  /\ Index' /\ IsStream' = IsStream
           /\ JudgedTo' = JudgedTo /\ SettledTo' = SettledTo /\ pass'.at # "candidates" => PassKnows'
           /\ \A i : Judged(i) => Judged(i)'
           /\ \A i : NonceSettled(i) => NonceSettled(i)'
<1>1. Index'  BY IndexStays DEF DiscInv, Index, durableVars
<1>2. Watched' = Watched  BY DEF Watched
<1>3. /\ IsStream' = IsStream
      /\ \A i : Judged(i) => Judged(i)'
      /\ \A i : NonceSettled(i) => NonceSettled(i)'
  BY <1>2, FactsStay DEF durableVars
<1> QED  BY <1>1, <1>3 DEF DiscInv, PassKnows

\* The page of announcements is the stretch after the pass's cursor.
LEMMA FetchKeepsDiscovery ==
    ASSUME DiscInv, FetchPending
    PROVE  DiscInv'
<1>1. UNCHANGED <<indexVars, durableVars, waiters, replay, overtaken>>
  BY DEF FetchPending
<1> DEFINE view == IF source = "stream" THEN PageAfter(announced, pass.pending)
                   ELSE PendingView
           more == (source = "stream") /\ (Len(view) = PageSize)
<1>2. pass' = [pass EXCEPT !.queue = view, !.seen = Len(announced), !.more = more]
      /\ pass.at = "pending" /\ pass.queue = <<>>
  BY DEF FetchPending
<1>3. more \in BOOLEAN /\ Len(announced) \in Nat
  BY LenProperties DEF DiscInv, Index
<1>4. IsStream => /\ pass.pending \in Nat /\ pass.pending <= Len(announced)
                  /\ view = PageAfter(announced, pass.pending) /\ more = (Len(view) = PageSize)
  BY <1>2, <1>3, EmptySeq DEF DiscInv, PendingStage, IsStream
<1>5. IsStream => /\ view \in Seq(Notes)
                  /\ pass.pending + Len(view) <= Len(announced)
                  /\ ~more => pass.pending + Len(view) = Len(announced)
                  /\ \A j \in 1..Len(view) : view[j] = announced[pass.pending + j]
  <2> SUFFICES ASSUME IsStream
               PROVE  /\ view \in Seq(Notes)
                      /\ pass.pending + Len(view) <= Len(announced)
                      /\ ~more => pass.pending + Len(view) = Len(announced)
                      /\ \A j \in 1..Len(view) : view[j] = announced[pass.pending + j]
    OBVIOUS
  <2>1. announced \in Seq(Notes) /\ pass.pending \in Nat /\ pass.pending <= Len(announced)
    BY <1>4 DEF DiscInv, Index
  <2>2. /\ PageAfter(announced, pass.pending) \in Seq(Notes)
        /\ pass.pending + Len(PageAfter(announced, pass.pending)) <= Len(announced)
        /\ Len(PageAfter(announced, pass.pending)) # PageSize
             => pass.pending + Len(PageAfter(announced, pass.pending)) = Len(announced)
        /\ \A j \in 1..Len(PageAfter(announced, pass.pending)) :
               PageAfter(announced, pass.pending)[j] = announced[pass.pending + j]
    BY <2>1, PageFacts
  <2>3. view = PageAfter(announced, pass.pending) /\ more = (Len(view) = PageSize)  BY <1>4
  <2> HIDE DEF view, more
  <2> QED  BY <2>2, <2>3
<1> HIDE DEF view, more
<1>6. /\ pass' \in PassOf(view, pass.pending)
      /\ pass'.at = "pending" /\ pass'.page = pass.page /\ pass'.queue = view /\ pass'.more = more
      /\ pass'.again = pass.again /\ pass'.seen = Len(announced) /\ pass'.pending = pass.pending
      /\ pass'.commit = pass.commit
  BY <1>2, <1>3 DEF DiscInv, PassTyped, PassOf
<1>7. PassTyped'
  BY <1>1, <1>2, <1>6 DEF DiscInv, PassTyped, PassOf
<1>8. /\ IsStream' = IsStream /\ announced' = announced /\ commits' = commits
      /\ UNCHANGED <<pendingCursor, commitCursor>>
  BY <1>1 DEF IsStream, indexVars, durableVars
<1>9. PendingStage'
  BY <1>2, <1>3, <1>5, <1>6, <1>8 DEF DiscInv, PendingStage, Index
<1>10. CommitStage' /\ CommitBehind'
  BY <1>2, <1>6, <1>8 DEF DiscInv, CommitStage, CommitBehind, Later
<1>11. JudgedTo' = JudgedTo /\ SettledTo' = SettledTo
  BY <1>2, <1>6 DEF JudgedTo, SettledTo
<1> QED  BY <1>1, <1>6, <1>7, <1>9, <1>10, <1>11, ReadsKeepFacts DEF DiscInv

\* The head is read when all that the pass has seen is judged.
LEMMA HeadKeepsDiscovery ==
    ASSUME DiscInv, ReadHead
    PROVE  DiscInv'
<1>1. UNCHANGED <<indexVars, durableVars, waiters, replay, overtaken>>
  BY DEF ReadHead
<1>2. pass' = [pass EXCEPT !.at = "commits", !.through = settled, !.more = TRUE]
      /\ pass.at = "pending" /\ pass.queue = <<>> /\ ~pass.more
  BY DEF ReadHead
<1>3. settled \in Nat /\ Len(announced) \in Nat /\ Len(commits) \in Nat /\ commitCursor <= settled
  BY LenProperties DEF DiscInv, Index
<1>4. /\ pass' \in PassOf(<<>>, pass.pending)
      /\ pass'.at = "commits" /\ pass'.page = <<>> /\ pass'.queue = <<>> /\ pass'.more = TRUE
      /\ pass'.again = pass.again /\ pass'.seen = pass.seen /\ pass'.pending = pass.pending
      /\ pass'.commit = pass.commit /\ pass'.through = settled
  BY <1>2, <1>3 DEF DiscInv, PassTyped, Stages, Later, PassOf
<1>5. PassTyped'
  BY <1>1, <1>4 DEF DiscInv, PassTyped, PassOf
<1>6. IsStream' = IsStream /\ announced' = announced /\ commits' = commits /\ settled' = settled
      /\ UNCHANGED <<pendingCursor, commitCursor>>
  BY <1>1 DEF IsStream, indexVars, durableVars
<1>7. Len(<<>>) = 0 /\ <<>> \in Seq(Notes) /\ pass.commit \in Nat
  BY EmptySeq DEF DiscInv, PassTyped, PassOf
<1>8. CommitBehind' /\ PendingStage'
  BY <1>2, <1>4, <1>6 DEF DiscInv, CommitBehind, PendingStage
<1>9. IsStream => pass.pending = pass.seen /\ pendingCursor <= pass.seen /\ pass.seen <= Len(announced)
  BY <1>2, <1>7 DEF DiscInv, PendingStage
<1>10. CommitStage'
  <2>1. pass.commit + Len(<<>>) <= Len(commits)
    BY <1>2, <1>3, <1>7 DEF DiscInv, CommitBehind
  <2> QED  BY <1>3, <1>4, <1>6, <1>7, <1>9, <2>1 DEF CommitStage
<1>11. SettledTo' = SettledTo /\ (IsStream => JudgedTo' = JudgedTo)
  BY <1>2, <1>4, <1>9 DEF JudgedTo, SettledTo
<1>12. PassKnows'
  BY <1>1, <1>4, <1>11, ReadsKeepFacts DEF DiscInv, PassKnows
<1> QED  BY <1>1, <1>5, <1>8, <1>10, <1>12, ReadsKeepFacts DEF DiscInv

\* The page of commitments is the stretch after the pass's cursor.
LEMMA CommitsKeepDiscovery ==
    ASSUME DiscInv, FetchCommits
    PROVE  DiscInv'
<1>1. UNCHANGED <<indexVars, durableVars, waiters, replay, overtaken>>
  BY DEF FetchCommits
<1> DEFINE page == PageAfter(commits, pass.commit)
           more == Len(page) = PageSize
           at   == IF page = <<>> THEN "commits" ELSE "head"
<1>2. pass' = [pass EXCEPT !.page = page, !.more = more, !.at = at]
      /\ pass.at = "commits" /\ pass.page = <<>>
  BY DEF FetchCommits
<1>3. commits \in Seq(Notes) /\ Len(commits) \in Nat /\ pass.commit \in Nat /\ pass.commit <= Len(commits)
      /\ commitCursor \in Nat /\ commitCursor <= Len(commits)
  BY <1>2, LenProperties DEF DiscInv, Index, PassTyped, CommitBehind, PassOf
<1>4. /\ page \in Seq(Notes) /\ Len(page) \in Nat
      /\ pass.commit + Len(page) <= Len(commits)
      /\ ~more => pass.commit + Len(page) = Len(commits)
      /\ \A j \in 1..Len(page) : page[j] = commits[pass.commit + j]
  BY <1>3, PageFacts, LenProperties
<1>5. more \in BOOLEAN /\ at \in {"commits", "head"} /\ (page = <<>> <=> at = "commits")
  OBVIOUS
<1> HIDE DEF page, more, at
<1>6. /\ pass' \in PassOf(pass.queue, pass.pending)
      /\ pass'.at = at /\ pass'.page = page /\ pass'.queue = pass.queue /\ pass'.more = more
      /\ pass'.again = pass.again /\ pass'.seen = pass.seen /\ pass'.through = pass.through
      /\ pass'.commit = pass.commit /\ pass'.pending = pass.pending
  BY <1>2, <1>4, <1>5 DEF DiscInv, PassTyped, Stages, Later, PassOf
<1>7. PassTyped'
  BY <1>1, <1>5, <1>6 DEF DiscInv, PassTyped, PassOf
<1>8. IsStream' = IsStream /\ announced' = announced /\ commits' = commits /\ settled' = settled
      /\ UNCHANGED <<pendingCursor, commitCursor>>
  BY <1>1 DEF IsStream, indexVars, durableVars
<1>9. CommitBehind' /\ PendingStage'
  BY <1>2, <1>5, <1>6, <1>8 DEF DiscInv, CommitBehind, PendingStage
<1>10. CommitStage'
  <2>1. ~more => commitCursor <= pass.commit + Len(page)
    BY <1>3, <1>4
  <2> QED  BY <1>2, <1>4, <1>5, <1>6, <1>8, <2>1 DEF DiscInv, CommitStage, Later
<1>11. JudgedTo' = JudgedTo /\ SettledTo' = SettledTo
  BY <1>2, <1>5, <1>6 DEF JudgedTo, SettledTo
<1> QED  BY <1>1, <1>5, <1>6, <1>7, <1>9, <1>10, <1>11, ReadsKeepFacts DEF DiscInv

\* The candidates of a snapshot are the notes of its page.
LEMMA CandidatesKeepDiscovery ==
    ASSUME DiscInv, FetchCandidates
    PROVE  DiscInv'
<1>1. UNCHANGED <<indexVars, durableVars, waiters, replay, overtaken>>
  BY DEF FetchCandidates
<1> DEFINE queue == Candidates
<1>2. pass' = [pass EXCEPT !.at = "candidates", !.queue = queue] /\ pass.at = "head"
  BY DEF FetchCandidates
<1>3. commits \in Seq(Notes) /\ Len(commits) \in Nat /\ pass.commit \in Nat /\ Len(pass.page) \in Nat
      /\ pass.commit + Len(pass.page) <= Len(commits) /\ pass.page # <<>>
      /\ \A j \in 1..Len(pass.page) : pass.page[j] = commits[pass.commit + j]
  BY <1>2, LenProperties DEF DiscInv, Index, PassTyped, CommitStage, Later, PassOf
<1>4. queue \in Seq(Notes) /\ (IsStream => queue = <<>>)
      /\ (~IsStream => \A j \in 1..Len(pass.page) : pass.page[j] \in Range(queue))
  <2>1. CASE IsStream  BY <2>1, EmptySeq DEF Candidates, IsStream
  <2>2. CASE ~IsStream
    <3> DEFINE first == pass.commit + 1  last == pass.commit + Len(pass.page)
    <3>1. queue = SubSeq(commits, first, last)  BY <2>2 DEF Candidates, IsStream
    <3>0. first \in Int /\ last \in Int /\ first <= last + 1 /\ last - first + 1 = Len(pass.page)
          /\ \A i \in first..last : i \in 1..Len(commits)
      BY <1>3
    <3>2. first \in Int /\ last \in Int /\ first <= last + 1 /\ last - first + 1 = Len(pass.page)
          /\ \A i \in first..last : commits[i] \in Notes
      <4>1. \A i \in 1..Len(commits) : commits[i] \in Notes
        BY <1>3, ElementOfSeq
      <4> HIDE DEF first, last
      <4> QED
        BY <3>0, <4>1
    <3>3. /\ SubSeq(commits, first, last) \in Seq(Notes)
          /\ Len(SubSeq(commits, first, last)) = IF first <= last THEN last - first + 1 ELSE 0
          /\ \A i \in 1..(last - first + 1) : SubSeq(commits, first, last)[i] = commits[first + i - 1]
      BY <3>2, SubSeqProperties
    <3>4. \A i \in Nat : first + i - 1 = pass.commit + i  BY <1>3
    <3> HIDE DEF first, last
    <3>5. queue \in Seq(Notes) /\ Len(queue) = Len(pass.page)
      BY <1>3, <3>1, <3>2, <3>3
    <3>6. \A j \in 1..Len(pass.page) : queue[j] = pass.page[j]
      <4> TAKE j \in 1..Len(pass.page)
      <4>1. j \in 1..(last - first + 1) /\ first + j - 1 = pass.commit + j  BY <3>2, <3>4
      <4> QED  BY <1>3, <3>1, <3>3, <4>1
    <3> HIDE DEF queue
    <3> QED  BY <2>2, <3>5, <3>6, InRange
  <2> QED  BY <2>1, <2>2
<1> HIDE DEF queue
<1>5. /\ pass' \in PassOf(queue, pass.pending)
      /\ pass'.at = "candidates" /\ pass'.page = pass.page /\ pass'.queue = queue /\ pass'.more = pass.more
      /\ pass'.again = pass.again /\ pass'.seen = pass.seen /\ pass'.through = pass.through
      /\ pass'.commit = pass.commit /\ pass'.pending = pass.pending
  BY <1>2 DEF DiscInv, PassTyped, Stages, Later, PassOf
<1>6. PassTyped'
  BY <1>1, <1>5 DEF DiscInv, PassTyped, PassOf
<1>7. IsStream' = IsStream /\ announced' = announced /\ commits' = commits /\ settled' = settled
      /\ UNCHANGED <<pendingCursor, commitCursor>>
  BY <1>1 DEF IsStream, indexVars, durableVars
<1>8. CommitBehind' /\ PendingStage'
  BY <1>2, <1>5, <1>7 DEF DiscInv, CommitBehind, PendingStage
<1>9. CommitStage'
  BY <1>2, <1>3, <1>4, <1>5, <1>7 DEF DiscInv, CommitStage, Later
<1>10. JudgedTo' = JudgedTo /\ SettledTo' = SettledTo
  BY <1>2, <1>5 DEF JudgedTo, SettledTo
<1>11. PassKnows'
  BY <1>1, <1>4, <1>5, <1>7, <1>10, ReadsKeepFacts DEF DiscInv, PassKnows
<1> QED  BY <1>1, <1>6, <1>8, <1>9, <1>11, ReadsKeepFacts DEF DiscInv

\* The next announcement is judged and the cursor moved to it, in one step.
LEMMA CandidateKeepsDiscovery ==
    ASSUME DiscInv, ProcessCandidate
    PROVE  DiscInv'
<1>1. UNCHANGED <<indexVars, commitCursor, correlated, waiters, replay, overtaken>>
      /\ pass.at \in {"pending", "candidates"} /\ pass.queue # <<>>
  BY DEF ProcessCandidate
<1>2. CASE waiters = {} /\ pass' = Resting /\ UNCHANGED <<pendingCursor, found>>
  <2>1. Watched' = {} /\ replay' \in BOOLEAN /\ UNCHANGED <<indexVars, durableVars>>
    BY <1>1, <1>2 DEF Watched, durableVars, DiscInv, PassTyped, PassOf
  <2> QED  BY <1>2, <2>1, RestingKeepsDiscovery
<1> DEFINE n     == Head(pass.queue)
           place == PositionOf(announced, n)
           reach == IF pass.at = "pending" THEN place ELSE pass.pending
<1>3. CASE /\ found' = found \cup (IF owner[n] \in Watched THEN {n} ELSE {})
           /\ pendingCursor' = place
           /\ pass' = [pass EXCEPT !.queue = Tail(@), !.pending = reach]
  <2>1. IsStream' = IsStream /\ announced' = announced /\ commits' = commits /\ settled' = settled
        /\ Watched' = Watched /\ commitCursor' = commitCursor /\ owner' = owner /\ replay' = replay
    BY <1>1 DEF IsStream, indexVars, Watched
  <2>2. /\ \A i : Judged(i) => Judged(i)'
        /\ \A i : NonceSettled(i) => NonceSettled(i)'
    BY <1>1, <1>3, <2>1, FactsStay
  <2> DEFINE queue == Tail(pass.queue)
  <2> HIDE DEF place, reach, queue
  <2>3. /\ pass' \in PassOf(queue, reach)
        /\ pass'.at = pass.at /\ pass'.page = pass.page /\ pass'.queue = queue /\ pass'.more = pass.more
        /\ pass'.again = pass.again /\ pass'.seen = pass.seen /\ pass'.through = pass.through
        /\ pass'.commit = pass.commit /\ pass'.pending = reach
    BY <1>3 DEF DiscInv, PassTyped, queue, PassOf
  <2>4. PassTyped'
    BY <1>1, <2>1, <2>3 DEF DiscInv, PassTyped, PassOf
  <2>5. CommitBehind' /\ SettledTo' = SettledTo
    BY <1>1, <2>1, <2>3 DEF DiscInv, CommitBehind, SettledTo
  <2>6. CASE pass.at = "candidates"
    <3>1. ~IsStream /\ pass.queue \in Seq(Notes)
      BY <1>1, <2>6 DEF DiscInv, CommitStage, Later
    <3>2. /\ n \in Notes /\ queue \in Seq(Notes)
          /\ Range(pass.queue) \subseteq {n} \cup Range(queue)
      <4>1. /\ queue \in Seq(Notes) /\ n \in Notes /\ Len(queue) = Len(pass.queue) - 1
            /\ \A j \in 1..Len(queue) : queue[j] = pass.queue[j + 1]
            /\ n = pass.queue[1]
        BY <1>1, <3>1, HeadTailProperties DEF queue
      <4>2. ASSUME NEW i \in 1..Len(pass.queue), i # 1 PROVE pass.queue[i] \in Range(queue)
        <5>1. i - 1 \in 1..Len(queue) /\ (i - 1) + 1 = i  BY <3>1, <4>1, <4>2, LenProperties
        <5>2. queue[i - 1] = pass.queue[i]  BY <4>1, <5>1
        <5> QED  BY <4>1, <5>1, <5>2, InRange
      <4> QED  BY <3>1, <4>1, <4>2, InRange
    <3>3. Index' /\ PendingStage'
      <4>1. Index'
        BY <1>1, <2>1, <3>1, IndexStays DEF DiscInv, Index
      <4> QED  BY <2>3, <2>6, <4>1 DEF PendingStage
    <3>4. CommitStage'
      BY <1>1, <2>1, <2>3, <2>6, <3>1, <3>2 DEF DiscInv, CommitStage, Later
    <3>5. PassKnows'
      <4> SUFFICES ASSUME ~replay PROVE PassKnows'  BY <2>1 DEF PassKnows
      <4>1. \A i \in 1..SettledTo : NonceSettled(i)'  BY <2>2 DEF DiscInv, PassKnows
      <4>2. ASSUME NEW j \in 1..Len(pass.page), owner[pass.page[j]] \in Watched
            PROVE  pass.page[j] \in found' \cup Range(queue)
        BY <1>3, <2>6, <3>1, <3>2, <4>2 DEF DiscInv, PassKnows
      <4> QED  BY <2>1, <2>3, <2>5, <3>1, <4>1, <4>2 DEF PassKnows
    <3> QED  BY <2>4, <2>5, <3>3, <3>4, <3>5 DEF DiscInv
  <2>7. CASE pass.at = "pending" /\ IsStream
    <3>1. /\ pass.pending \in Nat /\ pass.queue \in Seq(Notes)
          /\ pass.pending + Len(pass.queue) <= Len(announced)
          /\ \A j \in 1..Len(pass.queue) : pass.queue[j] = announced[pass.pending + j]
          /\ pass.seen <= Len(announced) /\ pass.seen \in Nat
          /\ ~pass.more => pass.pending + Len(pass.queue) = pass.seen /\ pendingCursor <= pass.seen
          /\ Len(announced) \in Nat /\ Len(pass.queue) \in Nat
      BY <2>7, LenProperties DEF DiscInv, PendingStage, PassTyped, Index, PassOf
    <3>2. /\ queue \in Seq(Notes) /\ Len(queue) = Len(pass.queue) - 1 /\ Len(queue) \in Nat
          /\ \A j \in 1..Len(queue) : queue[j] = pass.queue[j + 1]
          /\ n = pass.queue[1]
      BY <1>1, <3>1, HeadTailProperties, LenProperties DEF queue
    <3>3. pass.pending + 1 \in 1..Len(announced) /\ n = announced[pass.pending + 1]
      BY <3>1, <3>2
    <3>4. place = pass.pending + 1 /\ reach = place
      BY <2>7, <3>3, Positions DEF DiscInv, place, reach
    <3>5. reach = pass.pending + 1 /\ reach \in Nat /\ pendingCursor' = reach /\ pass.pending \in Nat
      BY <1>3, <3>1, <3>4 DEF place
    <3>6. Index'
      BY <1>1, <1>3, <3>3, <3>4, IndexStays DEF DiscInv, Index
    <3>7. PendingStage'
      <4>1. \A j \in 1..Len(queue) : queue[j] = announced[reach + j]
        <5> TAKE j \in 1..Len(queue)
        <5>1. j + 1 \in 1..Len(pass.queue)  BY <3>1, <3>2
        <5>2. j \in Nat  BY <3>2
        <5>3. \A p, r \in Nat : r = p + 1 => p + (j + 1) = r + j  BY <5>2
        <5>4. pass.pending + (j + 1) = reach + j  BY <3>5, <5>3
        <5> QED  BY <3>1, <3>2, <5>1, <5>4
      <4>2. reach + Len(queue) = pass.pending + Len(pass.queue) /\ reach \in Nat
        BY <3>1, <3>2, <3>5
      <4>3. reach <= reach + Len(queue)  BY <3>2, <4>2
      <4> QED  BY <1>3, <2>1, <2>3, <3>1, <3>2, <3>4, <4>1, <4>2, <4>3 DEF PendingStage
    <3>8. CommitStage'
      BY <2>3, <2>7 DEF CommitStage, Later
    <3>9. PassKnows'
      <4> SUFFICES ASSUME ~replay PROVE PassKnows'  BY <2>1 DEF PassKnows
      <4>1. /\ \A i \in 1..SettledTo : NonceSettled(i)'
            /\ \A i \in 1..pass.pending : Judged(i)'
        BY <2>2, <2>7 DEF DiscInv, PassKnows, JudgedTo
      <4>2. ASSUME NEW i \in 1..reach, i = pass.pending + 1 PROVE Judged(i)'
        BY <1>3, <2>1, <3>3, <4>2 DEF Judged
      <4>3. \A i \in 1..reach : Judged(i)'
        <5> TAKE i \in 1..reach
        <5>1. i \in 1..pass.pending \/ i = pass.pending + 1  BY <3>5
        <5> QED  BY <4>1, <4>2, <5>1
      <4>4. JudgedTo' = reach  BY <2>3, <2>7 DEF JudgedTo
      <4> QED  BY <2>1, <2>3, <2>5, <2>7, <4>1, <4>3, <4>4 DEF PassKnows
    <3> QED  BY <2>4, <2>5, <3>6, <3>7, <3>8, <3>9 DEF DiscInv
  <2>8. CASE pass.at = "pending" /\ ~IsStream
    <3>1. Index'
      BY <1>1, <2>1, <2>8, IndexStays DEF DiscInv, Index
    <3>2. PendingStage' /\ CommitStage'
      BY <2>1, <2>3, <2>8 DEF PendingStage, CommitStage, Later
    <3>3. PassKnows'
      BY <2>1, <2>2, <2>3, <2>5, <2>8 DEF DiscInv, PassKnows
    <3> QED  BY <2>4, <2>5, <3>1, <3>2, <3>3 DEF DiscInv
  <2> QED  BY <1>1, <2>6, <2>7, <2>8
<1> QED  BY <1>2, <1>3 DEF ProcessCandidate

\* The next commitment is correlated: its note was judged, unless the index ran ahead of the pass.
LEMMA CompletionKeepsDiscovery ==
    ASSUME DiscInv, Complete
    PROVE  DiscInv'
<1> DEFINE n == Head(pass.page)
           i == pass.commit + 1
           page == Tail(pass.page)
           at   == IF page = <<>> THEN "commits" ELSE "candidates"
<1>1. /\ UNCHANGED <<indexVars, pendingCursor, found, replay>>
      /\ pass.at = "candidates" /\ pass.queue = <<>>
  BY DEF Complete
<1>2. /\ pass.page \in Seq(Notes) /\ pass.page # <<>> /\ Len(pass.page) \in Nat
      /\ \A j \in 1..Len(pass.page) : pass.page[j] = commits[pass.commit + j]
      /\ pass.commit + Len(pass.page) <= Len(commits)
      /\ commitCursor <= pass.through /\ pass.through <= settled
      /\ ~pass.more => commitCursor <= pass.commit + Len(pass.page)
      /\ IsStream => pendingCursor <= pass.seen /\ pass.seen <= Len(announced)
  BY <1>1, LenProperties DEF DiscInv, PassTyped, CommitStage, Later, PassOf
<1>3. /\ pass.commit \in Nat /\ pass.seen \in Nat /\ pass.through \in Nat /\ replay \in BOOLEAN
      /\ commitCursor \in Nat /\ settled \in Nat /\ Len(commits) \in Nat /\ settled <= Len(commits)
      /\ (IsStream => pendingCursor \in Nat) /\ Len(announced) \in Nat
  BY LenProperties DEF DiscInv, PassTyped, Index, PassOf
<1>4. /\ page \in Seq(Notes) /\ Len(page) = Len(pass.page) - 1 /\ Len(page) \in Nat
      /\ \A j \in 1..Len(page) : page[j] = pass.page[j + 1]
      /\ n = pass.page[1] /\ 1 \in 1..Len(pass.page)
  BY <1>2, HeadTailProperties, LenProperties, EmptySeq
<1>5. n = commits[i] /\ i \in 1..Len(commits)
  BY <1>2, <1>3, <1>4
<1>6. CASE i > pass.through /\ pass' = Resting /\ UNCHANGED <<commitCursor, correlated, waiters, overtaken>>
  <2>1. Watched' = Watched /\ UNCHANGED <<indexVars, durableVars>> /\ replay' \in BOOLEAN
    BY <1>1, <1>3, <1>6 DEF Watched, durableVars
  <2>2. IsStream => \A k \in 1..pendingCursor : k \in 1..JudgedTo
    BY <1>1, <1>2, <1>3 DEF JudgedTo
  <2>3. \A k \in 1..commitCursor : k \in 1..SettledTo
    BY <1>1, <1>2, <1>3, <1>6 DEF SettledTo
  <2> QED  BY <1>1, <1>6, <2>1, <2>2, <2>3, RestingKeepsDiscovery
<1>7. CASE /\ i <= pass.through
           /\ correlated' = correlated \cup ({n} \cap found)
           /\ commitCursor' = i
           /\ waiters' \subseteq waiters
           /\ overtaken' = IF n \notin found /\ PositionOf(announced, n) > pass.seen THEN overtaken \cup {n}
                                                                                     ELSE overtaken
           /\ pass' = [pass EXCEPT !.page = page, !.commit = i, !.at = at]
  <2>1. IsStream' = IsStream /\ announced' = announced /\ commits' = commits /\ settled' = settled
        /\ Watched' \subseteq Watched /\ pendingCursor' = pendingCursor /\ owner' = owner /\ replay' = replay
        /\ found' = found
    BY <1>1, <1>7 DEF IsStream, indexVars, Watched
  <2>2. /\ \A k : Judged(k) => Judged(k)'
        /\ \A k : NonceSettled(k) => NonceSettled(k)'
    BY <1>1, <1>7, <2>1, FactsStay
  <2>3. at \in {"commits", "candidates"} /\ (page = <<>> <=> at = "commits") /\ i \in Nat
    BY <1>3
  <2> HIDE DEF n, page, at
  <2>4. /\ pass' \in PassOf(<<>>, pass.pending)
        /\ pass'.at = at /\ pass'.page = page /\ pass'.queue = <<>> /\ pass'.more = pass.more
        /\ pass'.again = pass.again /\ pass'.seen = pass.seen /\ pass'.through = pass.through
        /\ pass'.commit = i /\ pass'.pending = pass.pending
    BY <1>1, <1>4, <1>7, <2>3 DEF DiscInv, PassTyped, Stages, Later, PassOf
  <2>5. PassTyped'
    BY <1>3, <2>1, <2>3, <2>4 DEF PassTyped, PassOf
  <2>6. Index'
    BY <1>1, <1>2, <1>3, <1>7, <2>1, <2>3, IndexStays DEF DiscInv, Index
  <2>7. CommitBehind' /\ PendingStage'
    BY <1>3, <1>5, <1>7, <2>1, <2>3, <2>4 DEF CommitBehind, PendingStage
  <2>8. CommitStage'
    <3>1. i + Len(page) = pass.commit + Len(pass.page) /\ i <= i + Len(page)
      <4>1. Len(page) = Len(pass.page) - 1 /\ Len(page) \in Nat /\ Len(pass.page) \in Nat  BY <1>2, <1>4
      <4>2. i = pass.commit + 1 /\ pass.commit \in Nat  BY <1>2, <1>3
      <4> HIDE DEF page
      <4> QED  BY <4>1, <4>2
    <3>2. \A j \in 1..Len(page) : page[j] = commits[i + j]
      <4> TAKE j \in 1..Len(page)
      <4>1. j \in Nat /\ j + 1 \in 1..Len(pass.page)  BY <1>2, <1>4
      <4>2. pass.commit + (j + 1) = i + j  BY <1>3, <4>1
      <4> QED  BY <1>2, <1>4, <4>1, <4>2
    <3>3. <<>> \in Seq(Notes)  BY EmptySeq
    <3> QED  BY <1>2, <1>7, <2>1, <2>3, <2>4, <3>1, <3>2, <3>3 DEF CommitStage
  <2>9. PassKnows'
    <3> SUFFICES ASSUME ~replay PROVE PassKnows'  BY <2>1 DEF PassKnows
    <3>1. JudgedTo' = pass.seen /\ JudgedTo = pass.seen /\ SettledTo' = i /\ SettledTo = pass.commit
      BY <1>1, <2>3, <2>4 DEF JudgedTo, SettledTo
    <3>2. /\ IsStream => \A k \in 1..pass.seen : Judged(k)
          /\ \A k \in 1..pass.commit : NonceSettled(k)'
          /\ ~IsStream => \A j \in 1..Len(pass.page) : owner[pass.page[j]] \in Watched => pass.page[j] \in found
      <4>1. Range(<<>>) = {}  BY EmptySeq DEF Range
      <4> QED  BY <1>1, <2>2, <3>1, <4>1 DEF DiscInv, PassKnows
    <3>3. owner[n] \in Watched => n \in found \/ (IsStream /\ n \in overtaken')
      <4> SUFFICES ASSUME owner[n] \in Watched, n \notin found PROVE IsStream /\ n \in overtaken'  OBVIOUS
      <4>1. IsStream  BY <1>4, <3>2
      <4>2. PICK k \in 1..Len(announced) : announced[k] = n
        <5>1. n \in Range(commits)  BY <1>5, InRange DEF DiscInv, Index
        <5> QED  BY <5>1, InRange DEF DiscInv, Index
      <4>3. PositionOf(announced, n) = k  BY <4>2, Positions DEF DiscInv
      <4>4. ~(k \in 1..pass.seen)  BY <3>2, <4>1, <4>2 DEF Judged
      <4>5. k > pass.seen  BY <1>3, <4>2, <4>4
      <4> QED  BY <1>7, <4>1, <4>3, <4>5
    <3>4. ASSUME NEW k \in 1..i, k = i PROVE NonceSettled(k)'
      <4>1. commits'[k] = n /\ owner'[n] = owner[n]  BY <1>5, <2>1, <3>4
      <4> QED  BY <1>7, <2>1, <3>3, <4>1 DEF NonceSettled
    <3>5. \A k \in 1..i : NonceSettled(k)'
      <4> TAKE k \in 1..i
      <4>1. k \in 1..pass.commit \/ k = i  BY <1>3
      <4> QED  BY <3>2, <3>4, <4>1
    <3>6. IsStream => \A k \in 1..pass.seen : Judged(k)'
      BY <2>2, <3>2
    <3>7. ~IsStream => \A j \in 1..Len(page) : owner[page[j]] \in Watched => page[j] \in found
      <4> SUFFICES ASSUME ~IsStream, NEW j \in 1..Len(page), owner[page[j]] \in Watched
                   PROVE  page[j] \in found
        OBVIOUS
      <4>1. j + 1 \in 1..Len(pass.page)  BY <1>2, <1>4
      <4> QED  BY <1>4, <3>2, <4>1
    <3> QED  BY <2>1, <2>4, <3>1, <3>5, <3>6, <3>7 DEF PassKnows
  <2> QED  BY <2>5, <2>6, <2>7, <2>8, <2>9 DEF DiscInv
<1> HIDE DEF n, i, page, at
<1> QED  BY <1>6, <1>7 DEF Complete, n, i, page, at

\* DiscInv is an inductive invariant of the watcher.
LEMMA DiscoveryInductive ==
    /\ WatchInit => DiscInv
    /\ DiscInv /\ [WatchNext]_watchVars => DiscInv'
<1>1. ASSUME WatchInit PROVE DiscInv
  <2>1. Len(<<>>) = 0 /\ <<>> \in Seq(Notes) /\ Range(<<>>) = {}  BY EmptySeq DEF Range
  <2>2. Index  BY <1>1, <2>1, DiscoveryAssumption DEF WatchInit, Index, DiscoveryAssumption
  <2>3. /\ pass \in PassOf(pass.queue, pass.pending)
        /\ pass.at = "rest" /\ pass.page = <<>>
    BY <1>1, <2>1 DEF WatchInit, Resting, Stages, PassOf
  <2>4. PassTyped  BY <1>1, <2>3 DEF WatchInit, PassTyped, PassOf
  <2>5. PendingStage /\ CommitStage /\ CommitBehind
    BY <2>3 DEF PendingStage, CommitStage, CommitBehind, Later
  <2>6. PassKnows
    BY <1>1, <2>3 DEF WatchInit, PassKnows, JudgedTo, SettledTo
  <2> QED  BY <2>2, <2>4, <2>5, <2>6 DEF DiscInv
<1>2. ASSUME DiscInv, UNCHANGED watchVars PROVE DiscInv'
  <2>1. UNCHANGED <<source, owner, announced, commits, settled, pendingCursor, commitCursor, found, correlated,
                    waiters, replay, pass, overtaken>>
    BY <1>2 DEF watchVars, indexVars, durableVars
  <2>2. UNCHANGED <<indexVars, durableVars, waiters, replay, overtaken>>  BY <2>1 DEF indexVars, durableVars
  <2>3. PassTyped' /\ PendingStage' /\ CommitStage' /\ CommitBehind'
    BY <1>2, <2>1 DEF DiscInv, PassTyped, PendingStage, CommitStage, CommitBehind, IsStream, PassOf
  <2>4. PassKnows'
    BY <1>2, <2>1 DEF DiscInv, PassKnows, Judged, JudgedTo, NonceSettled, SettledTo, Watched, IsStream
  <2> QED  BY <1>2, <2>2, <2>3, <2>4, ReadsKeepFacts DEF DiscInv
<1>3. ASSUME DiscInv, WatchNext PROVE DiscInv'
  BY <1>3, IndexKeepsDiscovery, WaitersKeepDiscovery, StartKeepsDiscovery, EndsKeepDiscovery, FetchKeepsDiscovery,
     CandidateKeepsDiscovery, HeadKeepsDiscovery, CommitsKeepDiscovery, CandidatesKeepDiscovery,
     CompletionKeepsDiscovery
  DEF WatchNext
<1> QED  BY <1>1, <1>2, <1>3

\* At rest the invariant is the property.
LEMMA WaitersFollow == DiscInv => WaitersKeepNotes
<1> SUFFICES ASSUME DiscInv, pass.at = "rest", ~replay, NEW n \in Range(announced), owner[n] \in Watched
             PROVE  /\ PositionOf(announced, n) <= pendingCursor /\ source = "stream" => n \in found
                    /\ n \in Range(SubSeq(commits, 1, commitCursor)) =>
                          n \in correlated \/ (source = "stream" /\ n \in overtaken)
  BY DEF WaitersKeepNotes
<1>1. /\ IsStream => \A i \in 1..pendingCursor : Judged(i)
      /\ \A i \in 1..commitCursor : NonceSettled(i)
  BY DEF DiscInv, PassKnows, JudgedTo, SettledTo
<1>2. PICK k \in 1..Len(announced) : announced[k] = n  BY InRange DEF DiscInv, Index
<1>3. PositionOf(announced, n) = k  BY <1>2, Positions DEF DiscInv
<1>4. PositionOf(announced, n) <= pendingCursor /\ source = "stream" => n \in found
  BY <1>1, <1>2, <1>3 DEF DiscInv, Index, Judged, IsStream
<1>5. commits \in Seq(Notes) /\ commitCursor \in Nat /\ Len(commits) \in Nat /\ commitCursor <= Len(commits)
  BY LenProperties DEF DiscInv, Index
<1>6. ASSUME n \in Range(SubSeq(commits, 1, commitCursor))
      PROVE  n \in correlated \/ (source = "stream" /\ n \in overtaken)
  <2>1. \A i \in 1..commitCursor : commits[i] \in Notes  BY <1>5, ElementOfSeq
  <2>2. /\ SubSeq(commits, 1, commitCursor) \in Seq(Notes)
        /\ Len(SubSeq(commits, 1, commitCursor)) = IF 1 <= commitCursor THEN commitCursor - 1 + 1 ELSE 0
        /\ \A i \in 1..(commitCursor - 1 + 1) : SubSeq(commits, 1, commitCursor)[i] = commits[1 + i - 1]
    BY <1>5, <2>1, SubSeqProperties
  <2>3. PICK i \in 1..Len(SubSeq(commits, 1, commitCursor)) : SubSeq(commits, 1, commitCursor)[i] = n
    BY <1>6, <2>2, InRange
  <2>4. i \in 1..commitCursor /\ commits[i] = n
    <3>1. i \in 1..commitCursor /\ i \in 1..(commitCursor - 1 + 1) /\ 1 + i - 1 = i  BY <1>5, <2>2, <2>3
    <3> QED  BY <2>2, <2>3, <3>1
  <2> QED  BY <1>1, <2>4 DEF NonceSettled, IsStream
<1> QED  BY <1>4, <1>6

\* Whatever fails, restarts, registers or is dropped under a pass, with the watcher at rest and no pass from
\* genesis due no final commitment of a watched note is behind the cursors uncorrelated, unless a stream's index
\* ran ahead of the pass (run_watcher, catch_up, process_completion, restore_failed_replay).
THEOREM WaitersServed == WatchSpec => []WaitersKeepNotes
<1>1. WatchSpec => []DiscInv  BY DiscoveryInductive, PTL DEF WatchSpec
<1> QED  BY <1>1, WaitersFollow, PTL

-----------------------------------------------------------------------------
(* What the discovery holds. *)

\* A pass works on announced notes, and the durable cursor stays within them.
WatchHolds ==
    /\ source \in Sources /\ owner \in [Notes -> Alloc]
    /\ pendingCursor \in 0..Len(announced)
    /\ correlated \subseteq found /\ found \subseteq Range(announced)
    /\ waiters \subseteq Waiter
    /\ pass.queue \in Seq(Range(announced))

\* The pending view lists announcements: the uncommitted places are numbered by their rank.
LEMMA PendingViewAnnounced == ASSUME Index PROVE PendingView \in Seq(Range(announced))
<1> DEFINE Before(p) == {q \in Uncommitted : q < p}
           n == Cardinality(Uncommitted)
           rank == [p \in Uncommitted |-> Cardinality(Before(p)) + 1]
<1>1. /\ Len(announced) \in Nat /\ Uncommitted \in SUBSET (1..Len(announced))
      /\ \A p \in Uncommitted : p \in Nat
  BY LenProperties DEF Index, Uncommitted
<1>2. IsFiniteSet(Uncommitted) /\ n \in Nat
  <2>1. IsFiniteSet(1..Len(announced))  BY <1>1, FS_Interval
  <2>2. IsFiniteSet(Uncommitted)  BY <1>1, <2>1, FS_Subset
  <2> QED  BY <2>2, FS_CardinalityType
<1>3. ASSUME NEW p \in Uncommitted
      PROVE  IsFiniteSet(Before(p)) /\ Cardinality(Before(p)) \in Nat /\ Cardinality(Before(p)) < n
  <2>1. Before(p) \in SUBSET (Uncommitted \ {p})  BY <1>1
  <2>2. IsFiniteSet(Uncommitted \ {p}) /\ Cardinality(Uncommitted \ {p}) = n - 1
    BY <1>2, FS_RemoveElement
  <2>3. IsFiniteSet(Before(p)) /\ Cardinality(Before(p)) <= n - 1  BY <2>1, <2>2, FS_Subset
  <2> QED  BY <2>3, <1>2, FS_CardinalityType
<1>4. ASSUME NEW p \in Uncommitted, NEW q \in Uncommitted, p < q
      PROVE  Cardinality(Before(p)) < Cardinality(Before(q))
  <2>1. p \in Before(q)  BY <1>4
  <2>2. Before(p) \in SUBSET (Before(q) \ {p})
    <3> SUFFICES ASSUME NEW o \in Before(p) PROVE o \in Before(q) /\ o # p  OBVIOUS
    <3>1. o \in Nat /\ p \in Nat /\ q \in Nat /\ o < p  BY <1>1
    <3> QED  BY <1>4, <3>1
  <2>3. IsFiniteSet(Before(q))  BY <1>3
  <2>4. /\ IsFiniteSet(Before(q) \ {p})
        /\ Cardinality(Before(q) \ {p}) = Cardinality(Before(q)) - 1
    BY <2>1, <2>3, FS_RemoveElement
  <2>5. Cardinality(Before(p)) <= Cardinality(Before(q)) - 1  BY <2>2, <2>4, FS_Subset
  <2>6. Cardinality(Before(p)) \in Nat /\ Cardinality(Before(q)) \in Nat  BY <1>3
  <2> HIDE DEF Before
  <2> QED  BY <2>5, <2>6
<1>5. ASSUME NEW p \in Uncommitted, NEW q \in Uncommitted, p # q PROVE rank[p] # rank[q]
  <2>1. p < q \/ q < p  BY <1>1, <1>5
  <2>2. Cardinality(Before(p)) # Cardinality(Before(q))
    <3>1. Cardinality(Before(p)) \in Nat /\ Cardinality(Before(q)) \in Nat  BY <1>3
    <3>2. Cardinality(Before(p)) < Cardinality(Before(q)) \/ Cardinality(Before(q)) < Cardinality(Before(p))
      BY <2>1, <1>4
    <3> HIDE DEF Before
    <3> QED  BY <3>1, <3>2
  <2>3. Cardinality(Before(p)) \in Nat /\ Cardinality(Before(q)) \in Nat  BY <1>3
  <2>4. rank[p] = Cardinality(Before(p)) + 1 /\ rank[q] = Cardinality(Before(q)) + 1  OBVIOUS
  <2> HIDE DEF rank, Before
  <2> QED  BY <2>2, <2>3, <2>4
<1>6. rank \in [Uncommitted -> 1..n]
  <2>1. ASSUME NEW p \in Uncommitted PROVE Cardinality(Before(p)) + 1 \in 1..n
    <3>1. Cardinality(Before(p)) \in Nat /\ Cardinality(Before(p)) < n /\ n \in Nat  BY <1>2, <1>3
    <3> HIDE DEF Before, n
    <3> QED  BY <3>1
  <2> HIDE DEF Before, n
  <2> QED  BY <2>1
<1>7. rank \in Surjection(Uncommitted, 1..n)
  <2>1. rank \in Injection(Uncommitted, 1..n)  BY <1>5, <1>6 DEF Injection, IsInjective
  <2>2. IsFiniteSet(1..n) /\ Cardinality(1..n) = n  BY <1>2, FS_Interval
  <2>3. IsFiniteSet(Uncommitted)  BY <1>2
  <2>4. Cardinality(Uncommitted) = Cardinality(1..n)  BY <2>2
  <2> HIDE DEF rank, n
  <2> QED  BY <2>1, <2>2, <2>3, <2>4, FS_Injection
<1>8. ASSUME NEW i \in 1..n PROVE PendingView[i] \in Range(announced)
  <2>1. \E p \in Uncommitted : rank[p] = i  BY <1>7 DEF Surjection
  <2>2. \E p \in Uncommitted : Cardinality({q \in Uncommitted : q < p}) = i - 1
    <3> PICK p \in Uncommitted : rank[p] = i  BY <2>1
    <3>1. Cardinality(Before(p)) \in Nat /\ rank[p] = Cardinality(Before(p)) + 1  BY <1>3
    <3>2. Cardinality(Before(p)) = i - 1  BY <3>1
    <3> QED  BY <3>2
  <2>3. PendingView[i] = announced[CHOOSE p \in Uncommitted : Cardinality({q \in Uncommitted : q < p}) = i - 1]
    BY DEF PendingView
  <2>4. (CHOOSE p \in Uncommitted : Cardinality({q \in Uncommitted : q < p}) = i - 1) \in 1..Len(announced)
    BY <2>2, <1>1
  <2> QED  BY <2>3, <2>4, InRange DEF Index
<1>9. PendingView = [i \in 1..n |-> PendingView[i]]  BY DEF PendingView
<1> HIDE DEF n
<1> QED  BY <1>2, <1>8, <1>9

\* Notes stay in the index, and positions are places of it.
LEMMA PlacesOfNotes ==
    ASSUME Index, NEW n \in Range(announced)
    PROVE  PositionOf(announced, n) \in 1..Len(announced)
<1>1. PICK k \in 1..Len(announced) : announced[k] = n  BY InRange DEF Index
<1> QED  BY <1>1, Positions

LEMMA RestHolds == Resting.queue = <<>> /\ \A S : <<>> \in Seq(S)  BY EmptySeq DEF Resting

LEMMA IndexStepHolds ==
    ASSUME DiscInv, WatchHolds, IndexStep
    PROVE  WatchHolds'
<1>1. announced \in Seq(Notes)  BY DEF DiscInv, Index
<1>2. Range(announced) \subseteq Range(announced)' /\ Len(announced) \in Nat /\ Len(announced)' \in Nat
      /\ Len(announced) <= Len(announced)'
  <2>1. CASE UNCHANGED announced  BY <2>1, <1>1, LenProperties
  <2>2. CASE \E n \in Notes : Announce(n)
    <3> PICK n \in Notes : Announce(n)  BY <2>2
    <3>1. /\ announced' \in Seq(Notes) /\ Len(announced') = Len(announced) + 1 /\ Len(announced) \in Nat
          /\ \A i \in 1..Len(announced) : announced'[i] = announced[i]
      BY <1>1, AppendProperties, LenProperties DEF Announce
    <3> QED  BY <1>1, <3>1, InRange
  <2> QED  BY <2>1, <2>2 DEF IndexStep, CommitNote, SettleNote
<1>3. UNCHANGED <<source, owner, pendingCursor, found, correlated, waiters, pass>>
  BY DEF IndexStep, durableVars
<1>4. pass.queue \in Seq(Range(announced)')
  BY <1>2 DEF WatchHolds
<1> QED  BY <1>2, <1>3, <1>4 DEF WatchHolds

LEMMA FetchHolds ==
    ASSUME DiscInv, WatchHolds, FetchPending
    PROVE  WatchHolds'
<1> DEFINE view == IF source = "stream" THEN PageAfter(announced, pass.pending) ELSE PendingView
<1>1. UNCHANGED <<indexVars, durableVars, waiters>> /\ pass'.queue = view
  BY DEF FetchPending, DiscInv, PassTyped, PassOf
<1>2. Index  BY DEF DiscInv
<1>3. ASSUME IsStream PROVE PageAfter(announced, pass.pending) \in Seq(Range(announced))
  <2>1. announced \in Seq(Notes) /\ pass.pending \in Nat /\ pass.pending <= Len(announced)
    BY <1>3, EmptySeq, LenProperties DEF FetchPending, DiscInv, PendingStage, Index
  <2>2. /\ PageAfter(announced, pass.pending) \in Seq(Notes)
        /\ pass.pending + Len(PageAfter(announced, pass.pending)) <= Len(announced)
        /\ \A j \in 1..Len(PageAfter(announced, pass.pending)) :
               PageAfter(announced, pass.pending)[j] = announced[pass.pending + j]
    BY <2>1, PageFacts
  <2> DEFINE page == PageAfter(announced, pass.pending)
  <2> HIDE DEF page
  <2>3. page \in Seq(Notes) /\ Len(page) \in Nat /\ pass.pending + Len(page) <= Len(announced)
        /\ \A j \in 1..Len(page) : page[j] = announced[pass.pending + j]
    BY <2>2, LenProperties DEF page
  <2>4. \A j \in 1..Len(page) : page[j] \in Range(announced)
    <3> TAKE j \in 1..Len(page)
    <3>1. pass.pending + j \in 1..Len(announced)  BY <2>1, <2>3, LenProperties
    <3> QED  BY <2>1, <2>3, <3>1, InRange
  <2>5. page = [j \in 1..Len(page) |-> page[j]]  BY <2>3
  <2> QED  BY <2>3, <2>4, <2>5 DEF page
<1>4. view \in Seq(Range(announced))  BY <1>2, <1>3, PendingViewAnnounced DEF IsStream
<1> QED  BY <1>1, <1>4 DEF WatchHolds, indexVars, durableVars

LEMMA CandidateHolds ==
    ASSUME DiscInv, WatchHolds, ProcessCandidate
    PROVE  WatchHolds'
<1>1. UNCHANGED <<source, owner, announced, correlated, waiters>>
  BY DEF ProcessCandidate, indexVars
<1>2. CASE waiters = {} /\ pass' = Resting /\ UNCHANGED <<pendingCursor, found>>
  BY <1>1, <1>2, RestHolds DEF WatchHolds
<1>3. CASE pass' # Resting \/ waiters # {}
  <2> DEFINE n == Head(pass.queue)
  <2>1. n \in Range(announced) /\ Tail(pass.queue) \in Seq(Range(announced))
    BY HeadTailProperties DEF ProcessCandidate, WatchHolds
  <2>2. pass'.queue = Tail(pass.queue)
        /\ found' = found \cup (IF owner[n] \in Watched THEN {n} ELSE {})
        /\ pendingCursor' = PositionOf(announced, n)
    BY <1>3 DEF ProcessCandidate, DiscInv, PassTyped, PassOf
  <2>3. pendingCursor' \in 0..Len(announced)  BY <2>1, <2>2, PlacesOfNotes DEF DiscInv
  <2> QED  BY <1>1, <2>1, <2>2, <2>3 DEF WatchHolds
<1> QED  BY <1>2, <1>3 DEF ProcessCandidate

LEMMA CandidatesHold ==
    ASSUME DiscInv, WatchHolds, FetchCandidates
    PROVE  WatchHolds'
<1>1. UNCHANGED <<indexVars, durableVars, waiters>> /\ pass'.queue = Candidates
  BY DEF FetchCandidates, DiscInv, PassTyped, PassOf
<1>2. Candidates \in Seq(Range(announced))
  <2> DEFINE last == pass.commit + Len(pass.page)
  <2>1. /\ commits \in Seq(Notes) /\ pass.commit \in Nat /\ last \in Nat /\ last <= Len(commits)
        /\ Len(commits) \in Nat
    BY LenProperties DEF FetchCandidates, DiscInv, Index, PassTyped, PassOf, CommitStage, Later
  <2>2. \A i \in (pass.commit + 1)..last : commits[i] \in Range(announced)
    <3> TAKE i \in (pass.commit + 1)..last
    <3>1. i \in 1..Len(commits)  BY <2>1
    <3> QED  BY <2>1, <3>1, InRange DEF DiscInv, Index
  <2> HIDE DEF last
  <2>3. SubSeq(commits, pass.commit + 1, last) \in Seq(Range(announced))
    BY <2>1, <2>2, SubSeqProperties
  <2> QED  BY <2>3, EmptySeq DEF Candidates, last
<1> QED  BY <1>1, <1>2 DEF WatchHolds, indexVars, durableVars

LEMMA CompletionHolds ==
    ASSUME DiscInv, WatchHolds, Complete
    PROVE  WatchHolds'
<1>1. UNCHANGED <<source, owner, announced, pendingCursor, found>>
  BY DEF Complete, indexVars
<1>2. waiters' \subseteq waiters /\ correlated' \subseteq correlated \cup found
  BY DEF Complete
<1>3. pass'.queue \in Seq(Range(announced))
  <2>1. CASE pass' = Resting  BY <2>1, RestHolds
  <2>2. CASE pass'.queue = pass.queue  BY <2>2 DEF WatchHolds
  <2> QED  BY <2>1, <2>2 DEF Complete, DiscInv, PassTyped, PassOf
<1> QED  BY <1>1, <1>2, <1>3 DEF WatchHolds

LEMMA OthersHold ==
    ASSUME DiscInv, WatchHolds,
           \/ \E w \in Waiter : Watch(w) \/ Cancel(w)
           \/ StartPass \/ PassFails \/ ReadHead \/ FetchCommits \/ EndPass \/ Restart
           \/ UNCHANGED watchVars
    PROVE  WatchHolds'
<1>1. UNCHANGED <<source, owner, announced, pendingCursor, found, correlated>>
  BY DEF Watch, Cancel, StartPass, PassFails, ReadHead, FetchCommits, EndPass, Restart, watchVars, indexVars, durableVars
<1>2. waiters' \subseteq Waiter
  BY DEF Watch, Cancel, StartPass, PassFails, ReadHead, FetchCommits, EndPass, Restart, watchVars, WatchHolds
<1>3. pass'.queue \in {pass.queue, Resting.queue}
  <2>1. pass \in PassOf(pass.queue, pass.pending)  BY DEF DiscInv, PassTyped
  <2>2. [pass EXCEPT !.at = "commits", !.through = settled, !.more = TRUE].queue = pass.queue
    BY <2>1 DEF PassOf
  <2>3. ASSUME FetchCommits PROVE pass'.queue = pass.queue
    BY <2>1, <2>3 DEF FetchCommits, PassOf
  <2>4. ASSUME StartPass PROVE pass'.queue = Resting.queue
    BY <2>4 DEF StartPass, Resting
  <2> QED  BY <2>2, <2>3, <2>4 DEF Watch, Cancel, PassFails, ReadHead, EndPass, Restart, watchVars
<1> QED  BY <1>1, <1>2, <1>3, RestHolds DEF WatchHolds

LEMMA HoldsBegin == ASSUME WatchInit PROVE WatchHolds
<1>1. Len(<<>>) = 0 /\ 0 \in 0..0  BY EmptySeq
<1> QED  BY <1>1, RestHolds DEF WatchInit, WatchHolds, Resting

LEMMA HoldsStep == ASSUME DiscInv, WatchHolds, [WatchNext]_watchVars PROVE WatchHolds'
  BY IndexStepHolds, FetchHolds, CandidateHolds, CandidatesHold, CompletionHolds, OthersHold DEF WatchNext

LEMMA HoldsTyped == ASSUME DiscInv, WatchHolds PROVE WatchTypeOK
  BY DEF DiscInv, Index, WatchHolds, WatchTypeOK, PassTyped, PassOf, Stages, Later

\* What the watcher holds is what its types say: owned notes were announced, correlated ones found, and the
\* cursors stay within what the index shows, wherever a pass fails or the process restarts (run_watcher,
\* catch_up, process_candidate, process_completion).
THEOREM WatchTyped == WatchSpec => []WatchTypeOK
<1>1. WatchInit => WatchHolds  BY HoldsBegin
<1>2. DiscInv /\ WatchHolds /\ [WatchNext]_watchVars => WatchHolds'  BY HoldsStep
<1>3. DiscInv /\ WatchHolds => WatchTypeOK  BY HoldsTyped
<1>4. WatchSpec => [](DiscInv /\ WatchHolds)
  BY <1>1, <1>2, DiscoveryInductive, PTL DEF WatchSpec
<1> QED  BY <1>3, <1>4, PTL

-----------------------------------------------------------------------------
(***************************************************************************)
(* The sweeps of the Exit.  What a sweeper does with a note depends on how *)
(* far its call got; the invariant says, for each of its places, which of  *)
(* its notes have a proof and what became of that proof (CallSpends,       *)
(* CallFollows).                                                           *)
(***************************************************************************)

Standing  == {"idle", "read", "wait", "withdraw", "chunk", "posted", "inclusion", "clean", "drop"}
SweepState == [at : Standing, notes : SUBSET Owned, again : BOOLEAN, todo : SUBSET Owned, proof : 0..MaxPosts]
SentProof == [inputs : SUBSET Owned]

\* The notes that a withdrawal has spent, or had before a reorganisation.
Moved == Carrier!Spent \cup revived

\* What has landed was carried, and no two proofs on chain spend a note in common.
Submitted ==
    /\ sent \in Seq(SentProof) /\ Len(sent) <= MaxPosts
    /\ included \in Seq(1..Len(sent))
    /\ carried \subseteq 1..Len(sent)
    /\ \A i \in 1..Len(included) : included[i] \in carried
    /\ \A i, j \in 1..Len(included) : i # j => sent[included[i]].inputs \cap sent[included[j]].inputs = {}

StillIntended ==
    mode = "relayer" => \A k \in carried \ (Carrier!OnChain \cup untracked) :
                            k \in intents \/ sent[k].inputs \subseteq revived

NothingLost ==
    /\ sighted \ stored \subseteq Moved \cup Blank
    /\ ~keyKept => sighted \subseteq Moved \cup Blank \cup unread

\* A sweeper in the bridge holds the chain lock.
InBridge(doing) == doing.at \in {"chunk", "posted", "inclusion"}
OneAtATime == \A s, q \in Sweeper : InBridge(sweep[s]) /\ InBridge(sweep[q]) => s = q

\* The notes a sweeper has taken off its list are spent, and at the end the list is empty.
CallSpends(doing) ==
    /\ InBridge(doing) \/ doing.at \in {"clean", "drop"} => (doing.notes \ Blank) \ doing.todo \subseteq Moved
    /\ doing.at \in {"clean", "drop"} => doing.todo = {}

FirstOf(todo) == {n \in todo : Cardinality({m \in todo : m.id < n.id}) < InputLimit}

\* The proof a sweeper follows is over the chunk it works on, and when the last proof is carried it is that
\* one: the intent cleared with a chunk is the one of the proof that landed.
CallFollows(doing) ==
    doing.at \in {"posted", "inclusion"} =>
        /\ doing.proof \in 1..Len(sent) /\ sent[doing.proof].inputs = FirstOf(doing.todo)
        /\ doing.at = "posted" => doing.proof = Len(sent)
        /\ mode = "relayer" /\ Len(sent) \in carried =>
             /\ doing.at = "posted" => Holding(FirstOf(doing.todo)) \subseteq {Len(sent)}
             /\ doing.at = "inclusion" => doing.proof = Len(sent)

SweepInv ==
    /\ SweepTypeOK
    /\ Submitted
    /\ StillIntended
    /\ NothingLost
    /\ OneAtATime
    /\ \A s \in Sweeper : CallSpends(sweep[s]) /\ CallFollows(sweep[s])

-----------------------------------------------------------------------------
(* What the conjuncts of the invariant read of the chain. *)

LEMMA OnChainCarried == ASSUME Submitted PROVE Carrier!OnChain \subseteq carried
  BY DEF Submitted, Carrier!OnChain

LEMMA SpentOwned == ASSUME Submitted PROVE Carrier!Spent \subseteq Owned
<1>1. ASSUME NEW k \in Carrier!OnChain PROVE sent[k].inputs \subseteq Owned
  <2>1. k \in 1..Len(sent) BY OnChainCarried DEF Submitted
  <2>2. sent[k] \in SentProof BY <2>1, ElementOfSeq DEF Submitted
  <2> QED BY <2>2 DEF SentProof
<1> QED BY <1>1 DEF Carrier!Spent

\* A step that leaves the proofs and the chain alone.
LEMMA SameChain ==
    ASSUME UNCHANGED <<relayVars, mode, revived>>
    PROVE  /\ Carrier!OnChain' = Carrier!OnChain
           /\ Carrier!Spent' = Carrier!Spent
           /\ Moved' = Moved
           /\ Submitted => Submitted'
           /\ \A ns : Holding(ns)' = Holding(ns)
<1> USE DEF relayVars
<1>1. Carrier!OnChain' = Carrier!OnChain BY DEF Carrier!OnChain
<1>2. Carrier!Spent' = Carrier!Spent BY <1>1 DEF Carrier!Spent
<1>3. Moved' = Moved BY <1>2 DEF Moved
<1>4. Submitted => Submitted' BY DEF Submitted
<1>5. ASSUME NEW ns PROVE Holding(ns)' = Holding(ns) BY <1>1 DEF Holding
<1> QED BY <1>1, <1>2, <1>3, <1>4, <1>5

\* One sweeper goes on and the chain stays: what is known of every sweeper is known of the next place.
LEMMA SweeperStep ==
    ASSUME SweepInv, NEW s \in Sweeper, NEW next \in SweepState, Goes(s, next),
           UNCHANGED <<relayVars, mode, revived>>,
           InBridge(next) => InBridge(sweep[s]) \/ ~Locked,
           CallSpends(next), CallFollows(next)
    PROVE  /\ sweep' \in [Sweeper -> SweepState]
           /\ Submitted'
           /\ OneAtATime'
           /\ \A q \in Sweeper : CallSpends(sweep[q])' /\ CallFollows(sweep[q])'
<1>1. sweep \in [Sweeper -> SweepState] BY DEF SweepInv, SweepTypeOK, SweepState, Standing
<1>2. sweep' = [sweep EXCEPT ![s] = next] BY DEF Goes
<1>3. sweep' \in [Sweeper -> SweepState] BY <1>1, <1>2
<1>4. \A q \in Sweeper : sweep'[q] = IF q = s THEN next ELSE sweep[q] BY <1>1, <1>2
<1>5. Submitted' BY SameChain DEF SweepInv
<1>6. OneAtATime'
  <2>1. ASSUME NEW p \in Sweeper, NEW q \in Sweeper, InBridge(sweep'[p]), InBridge(sweep'[q]) PROVE p = q
    <3>1. CASE p = s /\ q = s BY <3>1
    <3>2. CASE p = s /\ q # s
      <4>1. InBridge(next) /\ InBridge(sweep[q]) BY <2>1, <3>2, <1>4
      <4>2. Locked BY <4>1 DEF InBridge, Locked
      <4> QED BY <2>1, <3>2, <4>1, <4>2 DEF SweepInv, OneAtATime
    <3>3. CASE p # s /\ q = s
      <4>1. InBridge(next) /\ InBridge(sweep[p]) BY <2>1, <3>3, <1>4
      <4>2. Locked BY <4>1 DEF InBridge, Locked
      <4> QED BY <2>1, <3>3, <4>1, <4>2 DEF SweepInv, OneAtATime
    <3>4. CASE p # s /\ q # s BY <2>1, <3>4, <1>4 DEF SweepInv, OneAtATime
    <3> QED BY <3>1, <3>2, <3>3, <3>4
  <2> QED BY <2>1 DEF OneAtATime, InBridge
<1>7. ASSUME NEW q \in Sweeper PROVE CallSpends(sweep[q])' /\ CallFollows(sweep[q])'
  <2>1. PICK doing : doing = sweep'[q] OBVIOUS
  <2>2. CallSpends(doing) /\ CallFollows(doing)
    BY <1>4, <2>1 DEF SweepInv
  <2>3. Moved' = Moved /\ \A ns : Holding(ns)' = Holding(ns) BY SameChain
  <2>4. CallSpends(sweep[q])'
    BY <2>1, <2>2, <2>3 DEF CallSpends, InBridge
  <2>5. FirstOf(sweep[q].todo)' = FirstOf(doing.todo) BY <2>1 DEF FirstOf
  <2>6. Holding(FirstOf(sweep[q].todo))' = Holding(FirstOf(doing.todo))
    BY <2>5, SameChain DEF Holding, relayVars
  <2>7. CallFollows(sweep[q])'
    BY <2>1, <2>2, <2>5, <2>6 DEF CallFollows, relayVars
  <2> QED BY <2>4, <2>7
<1> QED BY <1>3, <1>5, <1>6, <1>7

\* The journal and the store are left alone as well.
LEMMA SweeperOnly ==
    ASSUME SweepInv, NEW s \in Sweeper, NEW next \in SweepState, Goes(s, next),
           UNCHANGED <<relayVars, mode, stored, intents, keyKept, pastVars>>,
           InBridge(next) => InBridge(sweep[s]) \/ ~Locked,
           CallSpends(next), CallFollows(next)
    PROVE  SweepInv'
<1> USE DEF pastVars
<1>1. /\ sweep' \in [Sweeper -> SweepState]
      /\ Submitted'
      /\ OneAtATime'
      /\ \A q \in Sweeper : CallSpends(sweep[q])' /\ CallFollows(sweep[q])'
  BY SweeperStep
<1>2. SweepTypeOK'
  BY <1>1 DEF SweepInv, SweepTypeOK, SweepState, Standing, relayVars
<1>3. Carrier!OnChain' = Carrier!OnChain /\ Moved' = Moved BY SameChain
<1>4. StillIntended' BY <1>3 DEF SweepInv, StillIntended, relayVars
<1>5. NothingLost' BY <1>3 DEF SweepInv, NothingLost
<1> QED BY <1>1, <1>2, <1>4, <1>5 DEF SweepInv

\* A call that is over, or that starts again with the notes it has read.
LEMMA Harmless ==
    ASSUME SweepInv, NEW doing \in SweepState, doing.at \in {"idle", "read", "wait", "withdraw"}
    PROVE  ~InBridge(doing) /\ CallSpends(doing) /\ CallFollows(doing)
  BY DEF InBridge, CallSpends, CallFollows

LEMMA NoSweepTyped == ASSUME SweepInv PROVE NoSweep \in SweepState /\ NoSweep.at = "idle"
<1>1. 0 \in 0..MaxPosts BY SweepAssumption
<1> QED BY <1>1 DEF NoSweep, SweepState, Standing

LEMMA SweepTyped == ASSUME SweepInv, NEW s \in Sweeper PROVE sweep[s] \in SweepState
  BY DEF SweepInv, SweepTypeOK, SweepState, Standing

LEMMA FailsWell ==
    ASSUME SweepInv, NEW s \in Sweeper, Fails(s)
    PROVE  \E next \in SweepState : Goes(s, next) /\ next.at \in {"idle", "withdraw"}
<1>1. CASE Ends(s) BY <1>1, NoSweepTyped DEF Ends
<1>2. CASE Goes(s, [sweep[s] EXCEPT !.at = "withdraw", !.todo = {}, !.proof = 0])
  <2>1. 0 \in 0..MaxPosts BY SweepAssumption
  <2>2. PICK e : e = [sweep[s] EXCEPT !.at = "withdraw", !.todo = {}, !.proof = 0] OBVIOUS
  <2>3. e \in SweepState BY <2>1, <2>2, SweepTyped DEF SweepState, Standing
  <2>4. e.at = "withdraw" BY <2>2, SweepTyped DEF SweepState
  <2> QED BY <1>2, <2>2, <2>3, <2>4
<1> QED BY <1>1, <1>2 DEF Fails

LEMMA FailureKeepsNotes ==
    ASSUME SweepInv, NEW s \in Sweeper, Fails(s),
           UNCHANGED <<relayVars, mode, stored, intents, keyKept, pastVars>>
    PROVE  SweepInv'
<1>1. PICK next \in SweepState : Goes(s, next) /\ next.at \in {"idle", "withdraw"} BY FailsWell
<1> QED BY <1>1, Harmless, SweeperOnly

-----------------------------------------------------------------------------
(* The pool's part. *)

LEMMA BeginKeepsNotes == ASSUME SweepInv, NEW s \in Sweeper, BeginSweep(s) PROVE SweepInv'
<1>1. PICK e : e = [NoSweep EXCEPT !.at = "read"] OBVIOUS
<1>2. e \in SweepState BY <1>1, NoSweepTyped DEF SweepState, Standing
<1>3. e.at = "read" BY <1>1, NoSweepTyped DEF SweepState
<1> QED BY <1>1, <1>2, <1>3, Harmless, SweeperOnly DEF BeginSweep

LEMMA AwaitKeepsNotes == ASSUME SweepInv, NEW s \in Sweeper, AwaitCommitment(s) PROVE SweepInv'
<1>1. PICK e : e = [sweep[s] EXCEPT !.at = "read", !.again = TRUE] OBVIOUS
<1>2. e \in SweepState BY <1>1, SweepTyped DEF SweepState, Standing
<1>3. e.at = "read" BY <1>1, SweepTyped DEF SweepState
<1> QED BY <1>1, <1>2, <1>3, Harmless, SweeperOnly DEF AwaitCommitment

LEMMA ErrorKeepsNotes == ASSUME SweepInv, NEW s \in Sweeper, SweepErrs(s) PROVE SweepInv'
  BY NoSweepTyped, Harmless, SweeperOnly DEF SweepErrs, Ends

LEMMA SelectKeepsNotes == ASSUME SweepInv, NEW s \in Sweeper, SelectNotes(s) PROVE SweepInv'
<1>1. PICK todo : todo = sweep[s].notes \ Blank OBVIOUS
<1>2. todo \in SUBSET Owned BY <1>1, SweepTyped DEF SweepState
<1>3. PICK e : e = [sweep[s] EXCEPT !.at = "chunk", !.todo = todo] OBVIOUS
<1>4. e \in SweepState BY <1>2, <1>3, SweepTyped DEF SweepState, Standing
<1>5. e.at = "chunk" /\ e.todo = todo /\ e.notes = sweep[s].notes BY <1>3, SweepTyped DEF SweepState
<1>6. CallSpends(e) /\ CallFollows(e) BY <1>1, <1>5 DEF CallSpends, CallFollows
<1>7. Goes(s, e) BY <1>1, <1>3 DEF SelectNotes
<1> QED BY <1>4, <1>6, <1>7, SweeperOnly DEF SelectNotes

\* What the index shows is spent: a note that leaves the store has moved.
LEMMA ReadKeepsNotes == ASSUME SweepInv, NEW s \in Sweeper, ReadNotes(s) PROVE SweepInv'
<1>1. PICK shown \in SUBSET (stored \cap Carrier!Spent) :
        /\ stored' = stored \ shown
        /\ IF stored' # {} THEN Goes(s, [sweep[s] EXCEPT !.at = "withdraw", !.notes = stored'])
           ELSE IF sweep[s].again THEN Ends(s)
           ELSE Goes(s, [sweep[s] EXCEPT !.at = "wait"])
  BY DEF ReadNotes
<1>2. PICK rest : rest = stored' OBVIOUS
<1>3. rest \in SUBSET Owned BY <1>1, <1>2 DEF SweepInv, SweepTypeOK
<1>4. \E next \in SweepState : Goes(s, next) /\ next.at \in {"idle", "wait", "withdraw"}
  <2>1. CASE stored' # {}
    <3>1. PICK e : e = [sweep[s] EXCEPT !.at = "withdraw", !.notes = rest] OBVIOUS
    <3>2. e \in SweepState BY <1>3, <3>1, SweepTyped DEF SweepState, Standing
    <3>3. e.at = "withdraw" BY <3>1, SweepTyped DEF SweepState
    <3> QED BY <1>1, <1>2, <2>1, <3>1, <3>2, <3>3
  <2>2. CASE stored' = {} /\ sweep[s].again BY <1>1, <2>2, NoSweepTyped DEF Ends
  <2>3. CASE stored' = {} /\ ~sweep[s].again
    <3>1. PICK e : e = [sweep[s] EXCEPT !.at = "wait"] OBVIOUS
    <3>2. e \in SweepState BY <3>1, SweepTyped DEF SweepState, Standing
    <3>3. e.at = "wait" BY <3>1, SweepTyped DEF SweepState
    <3> QED BY <1>1, <2>3, <3>1, <3>2, <3>3
  <2> QED BY <2>1, <2>2, <2>3
<1>5. PICK next \in SweepState : Goes(s, next) /\ next.at \in {"idle", "wait", "withdraw"} BY <1>4
<1>6. UNCHANGED <<relayVars, mode, intents, keyKept, pastVars>> BY DEF ReadNotes
<1>7. /\ sweep' \in [Sweeper -> SweepState]
      /\ Submitted'
      /\ OneAtATime'
      /\ \A q \in Sweeper : CallSpends(sweep[q])' /\ CallFollows(sweep[q])'
  BY <1>5, <1>6, Harmless, SweeperStep DEF pastVars
<1>8. SweepTypeOK'
  BY <1>1, <1>6, <1>7 DEF SweepInv, SweepTypeOK, SweepState, Standing, relayVars, pastVars
<1>9. Carrier!OnChain' = Carrier!OnChain /\ Moved' = Moved BY <1>6, SameChain DEF pastVars
<1>10. StillIntended' BY <1>6, <1>9 DEF SweepInv, StillIntended, relayVars, pastVars
<1>11. NothingLost' BY <1>1, <1>6, <1>9 DEF SweepInv, NothingLost, pastVars, Moved
<1> QED BY <1>7, <1>8, <1>10, <1>11 DEF SweepInv

-----------------------------------------------------------------------------
(* The bridge's part. *)

LEMMA ChunkIsFirst == ASSUME NEW s PROVE ChunkOf(s) = FirstOf(sweep[s].todo)
  BY DEF ChunkOf, FirstOf

\* A request that holds the notes is carried.
LEMMA HoldingCarried ==
    ASSUME Submitted, NEW ns, NEW k \in Holding(ns)
    PROVE  k \in carried /\ k \in 1..Len(sent) /\ sent[k].inputs = ns /\ mode = "relayer"
  BY OnChainCarried DEF Holding, Submitted

LEMMA AcceptedKeepsNotes == ASSUME SweepInv, NEW s \in Sweeper, Accepted(s) PROVE SweepInv'
<1>1. PICK k \in Holding(ChunkOf(s)) \cup ({sweep[s].proof} \cap (carried \cup Carrier!OnChain)) :
        Goes(s, [sweep[s] EXCEPT !.at = "inclusion", !.proof = k])
  BY DEF Accepted
<1>2. sweep[s].at = "posted" BY DEF Accepted
<1>3. Submitted /\ CallFollows(sweep[s]) /\ CallSpends(sweep[s]) BY DEF SweepInv
<1>4. k \in 1..Len(sent) /\ sent[k].inputs = FirstOf(sweep[s].todo)
  <2>1. CASE k \in Holding(ChunkOf(s)) BY <2>1, <1>3, ChunkIsFirst, HoldingCarried
  <2>2. CASE k = sweep[s].proof BY <2>2, <1>2, <1>3 DEF CallFollows
  <2> QED BY <1>1, <2>1, <2>2
<1>5. mode = "relayer" /\ Len(sent) \in carried => k = Len(sent)
  <2>1. CASE k \in Holding(ChunkOf(s)) BY <2>1, <1>2, <1>3, ChunkIsFirst DEF CallFollows
  <2>2. CASE k = sweep[s].proof BY <2>2, <1>2, <1>3 DEF CallFollows
  <2> QED BY <1>1, <2>1, <2>2
<1>6. PICK e : e = [sweep[s] EXCEPT !.at = "inclusion", !.proof = k] OBVIOUS
<1>7. k \in 0..MaxPosts
  <2>1. Len(sent) \in Nat /\ Len(sent) <= MaxPosts /\ MaxPosts \in Nat
    BY <1>3, LenProperties, SweepAssumption DEF Submitted
  <2> QED BY <2>1, <1>4
<1>8. e \in SweepState BY <1>6, <1>7, SweepTyped DEF SweepState, Standing
<1>9. e.at = "inclusion" /\ e.proof = k /\ e.todo = sweep[s].todo /\ e.notes = sweep[s].notes
  BY <1>6, SweepTyped DEF SweepState
<1>10. CallSpends(e) BY <1>2, <1>3, <1>9 DEF CallSpends, InBridge
<1>11. CallFollows(e) BY <1>4, <1>5, <1>9 DEF CallFollows
<1>12. InBridge(sweep[s]) BY <1>2 DEF InBridge
<1>13. Goes(s, e) BY <1>1, <1>6
<1> QED BY <1>8, <1>10, <1>11, <1>12, <1>13, SweeperOnly DEF Accepted

LEMMA DoneKeepsNotes == ASSUME SweepInv, NEW s \in Sweeper, ChunksDone(s) PROVE SweepInv'
<1>1. PICK e : e = [sweep[s] EXCEPT !.at = "clean"] OBVIOUS
<1>2. e \in SweepState BY <1>1, SweepTyped DEF SweepState, Standing
<1>3. e.at = "clean" /\ e.todo = sweep[s].todo /\ e.notes = sweep[s].notes BY <1>1, SweepTyped DEF SweepState
<1>4. sweep[s].at = "chunk" /\ sweep[s].todo = {} /\ Goes(s, e) BY <1>1 DEF ChunksDone, AllSpent
<1>5. CallSpends(sweep[s]) BY DEF SweepInv
<1>6. CallSpends(e) /\ CallFollows(e) /\ ~InBridge(e)
  BY <1>3, <1>4, <1>5 DEF CallSpends, CallFollows, InBridge
<1> QED BY <1>2, <1>4, <1>6, SweeperOnly DEF ChunksDone

\* The two steps that clear an intent leave the journal complete.
LEMMA Cleared ==
    ASSUME SweepInv, NEW s \in Sweeper, NEW next \in SweepState, Goes(s, next),
           UNCHANGED <<relayVars, mode, stored, keyKept, pastVars>>,
           NEW k, k \notin carried \ (Carrier!OnChain \cup untracked), intents' \in {intents, intents \ {k}},
           InBridge(next) => InBridge(sweep[s]) \/ ~Locked,
           CallSpends(next), CallFollows(next)
    PROVE  SweepInv'
<1> USE DEF pastVars
<1>1. /\ sweep' \in [Sweeper -> SweepState]
      /\ Submitted'
      /\ OneAtATime'
      /\ \A q \in Sweeper : CallSpends(sweep[q])' /\ CallFollows(sweep[q])'
  BY SweeperStep
<1>2. SweepTypeOK'
  BY <1>1 DEF SweepInv, SweepTypeOK, SweepState, Standing, relayVars
<1>3. Carrier!OnChain' = Carrier!OnChain /\ Moved' = Moved BY SameChain
<1>4. StillIntended' BY <1>3 DEF SweepInv, StillIntended, relayVars
<1>5. NothingLost' BY <1>3 DEF SweepInv, NothingLost
<1> QED BY <1>1, <1>2, <1>4, <1>5 DEF SweepInv

LEMMA UntrackedKeepsNotes == ASSUME SweepInv, NEW s \in Sweeper, NotTracked(s) PROVE SweepInv'
<1>1. PICK k : k = sweep[s].proof OBVIOUS
<1>2. k \notin carried \ (Carrier!OnChain \cup untracked) /\ intents' \in {intents, intents \ {k}}
  BY <1>1 DEF NotTracked
<1>3. PICK next \in SweepState : Goes(s, next) /\ next.at \in {"idle", "withdraw"} BY FailsWell DEF NotTracked
<1>4. ~InBridge(next) /\ CallSpends(next) /\ CallFollows(next) BY <1>3, Harmless
<1>5. UNCHANGED <<relayVars, mode, stored, keyKept, pastVars>> BY DEF NotTracked
<1> QED BY <1>2, <1>3, <1>4, <1>5, Cleared

\* A chunk on chain is spent, and the intent cleared is not that of a proof that may still land.
LEMMA SpentKeepsNotes == ASSUME SweepInv, NEW s \in Sweeper, ChunkSpent(s) PROVE SweepInv'
<1>1. sweep[s].at = "inclusion" /\ sweep[s].proof \in Carrier!OnChain BY DEF ChunkSpent
<1>2. Submitted /\ CallSpends(sweep[s]) /\ CallFollows(sweep[s]) BY DEF SweepInv
<1>3. sent[sweep[s].proof].inputs = FirstOf(sweep[s].todo) BY <1>1, <1>2 DEF CallFollows
<1>4. FirstOf(sweep[s].todo) \subseteq Moved BY <1>1, <1>3 DEF Moved, Carrier!Spent
<1>5. PICK todo : todo = sweep[s].todo \ FirstOf(sweep[s].todo) OBVIOUS
<1>6. todo \in SUBSET Owned BY <1>5, SweepTyped DEF SweepState
<1>7. 0 \in 0..MaxPosts BY SweepAssumption
<1>8. PICK e : e = [sweep[s] EXCEPT !.at = "chunk", !.todo = todo, !.proof = 0] OBVIOUS
<1>9. e \in SweepState BY <1>6, <1>7, <1>8, SweepTyped DEF SweepState, Standing
<1>10. e.at = "chunk" /\ e.todo = todo /\ e.notes = sweep[s].notes BY <1>8, SweepTyped DEF SweepState
<1>11. CallSpends(e) /\ CallFollows(e)
  BY <1>1, <1>2, <1>4, <1>5, <1>10 DEF CallSpends, CallFollows, InBridge
<1>12. Goes(s, e) BY <1>5, <1>8, ChunkIsFirst DEF ChunkSpent
<1>13. InBridge(sweep[s]) BY <1>1 DEF InBridge
<1>14. CASE mode = "relayer"
  <2>1. Len(sent) \notin carried \ (Carrier!OnChain \cup untracked)
    BY <1>1, <1>2, <1>14 DEF CallFollows
  <2>2. intents' = intents \ {Len(sent)} BY <1>14 DEF ChunkSpent
  <2> QED BY <2>1, <2>2, <1>9, <1>11, <1>12, <1>13, Cleared DEF ChunkSpent
<1>15. CASE mode # "relayer"
  <2>1. intents' = intents BY <1>15 DEF ChunkSpent
  <2> QED BY <2>1, <1>9, <1>11, <1>12, <1>13, SweeperOnly DEF ChunkSpent
<1> QED BY <1>14, <1>15

\* A new proof: it is in the journal before it is carried, and it is not taken up where an earlier request
\* holds its notes.
LEMMA PostKeepsNotes == ASSUME SweepInv, NEW s \in Sweeper, PostChunk(s) PROVE SweepInv'
<1>0. Submitted /\ CallSpends(sweep[s]) BY DEF SweepInv
<1>1. Len(sent) \in Nat /\ MaxPosts \in Nat
  BY <1>0, LenProperties, SweepAssumption DEF Submitted
<1>2. PICK k : k = Len(sent) + 1 OBVIOUS
<1>3. PICK chunk : chunk = FirstOf(sweep[s].todo) OBVIOUS
<1>4. chunk \in SUBSET Owned BY <1>3, SweepTyped DEF SweepState, FirstOf
<1>5. PICK p : p = [inputs |-> chunk] OBVIOUS
<1>6. p \in SentProof /\ p.inputs = chunk BY <1>4, <1>5 DEF SentProof
<1>7. /\ sweep[s].at = "chunk" /\ k <= MaxPosts
      /\ sent' = Append(sent, p)
      /\ carried' \in IF Holding(chunk) # {} THEN {carried} ELSE {carried, carried \cup {k}}
      /\ intents' = IF mode = "relayer" THEN intents \cup {k} ELSE intents
      /\ Goes(s, [sweep[s] EXCEPT !.at = "posted", !.proof = k])
  BY <1>2, <1>3, <1>5, ChunkIsFirst DEF PostChunk
<1>8. UNCHANGED <<refused, untracked, included, sealed, undone, mode, stored, keyKept, pastVars>>
  BY DEF PostChunk
<1>9. /\ sent' \in Seq(SentProof) /\ Len(sent') = k /\ sent'[k] = p
      /\ \A j \in 1..Len(sent) : sent'[j] = sent[j]
  BY <1>0, <1>1, <1>2, <1>6, <1>7, AppendProperties DEF Submitted
<1>10. 1..Len(sent) \subseteq 1..k /\ k \in 1..k /\ k \notin 1..Len(sent) /\ k \in 0..MaxPosts BY <1>1, <1>2, <1>7
<1>11. carried \subseteq carried' /\ carried' \subseteq carried \cup {k} BY <1>7
<1>12. included \in Seq(1..Len(sent)) /\ carried \subseteq 1..Len(sent) /\ \A i \in 1..Len(included) : included[i] \in carried
  BY <1>0 DEF Submitted
<1>13. Submitted'
  <2>1. included' \in Seq(1..Len(sent'))
    <3>1. \A S, T : S \subseteq T => Seq(S) \subseteq Seq(T) OBVIOUS
    <3> QED BY <3>1, <1>8, <1>9, <1>10, <1>12
  <2>2. \A i \in 1..Len(included) : sent'[included[i]] = sent[included[i]] BY <1>9, <1>12
  <2> QED BY <2>1, <2>2, <1>0, <1>7, <1>8, <1>9, <1>10, <1>11, <1>12 DEF Submitted
<1>14. Carrier!OnChain' = Carrier!OnChain /\ Carrier!OnChain \subseteq carried
  BY <1>0, <1>8, OnChainCarried DEF Carrier!OnChain
<1>15. Carrier!Spent' = Carrier!Spent
  <2>1. \A j \in Carrier!OnChain : sent'[j] = sent[j] BY <1>9, <1>12, <1>14
  <2> QED BY <2>1, <1>14 DEF Carrier!Spent
<1>16. Moved' = Moved BY <1>8, <1>15 DEF Moved, pastVars
<1>17. PICK e : e = [sweep[s] EXCEPT !.at = "posted", !.proof = k] OBVIOUS
<1>18. e \in SweepState BY <1>10, <1>17, SweepTyped DEF SweepState, Standing
<1>19. e.at = "posted" /\ e.proof = k /\ e.todo = sweep[s].todo /\ e.notes = sweep[s].notes
  BY <1>17, SweepTyped DEF SweepState
<1>20. sweep \in [Sweeper -> SweepState] BY DEF SweepInv, SweepTypeOK, SweepState, Standing
<1>21. sweep' = [sweep EXCEPT ![s] = e] BY <1>7, <1>17 DEF Goes
<1>22. \A q \in Sweeper : sweep'[q] = IF q = s THEN e ELSE sweep[q] BY <1>20, <1>21
<1>23. sweep' \in [Sweeper -> SweepState] BY <1>18, <1>20, <1>21
<1>24. SweepTypeOK'
  BY <1>7, <1>8, <1>9, <1>10, <1>23 DEF SweepInv, SweepTypeOK, SweepState, Standing, pastVars
<1>25. StillIntended'
  <2>1. ASSUME mode' = "relayer", NEW j \in carried' \ (Carrier!OnChain' \cup untracked')
        PROVE  j \in intents' \/ sent'[j].inputs \subseteq revived'
    <3>1. CASE j = k BY <2>1, <3>1, <1>7, <1>8
    <3>2. CASE j # k
      <4>1. j \in carried \ (Carrier!OnChain \cup untracked) /\ sent'[j] = sent[j]
        BY <2>1, <3>2, <1>8, <1>9, <1>11, <1>12, <1>14
      <4> QED BY <4>1, <2>1, <1>7, <1>8 DEF SweepInv, StillIntended, pastVars
    <3> QED BY <3>1, <3>2
  <2> QED BY <2>1 DEF StillIntended
<1>26. NothingLost' BY <1>8, <1>16 DEF SweepInv, NothingLost, pastVars
<1>27. \A q \in Sweeper : InBridge(sweep[q]) => q = s
  BY <1>7 DEF SweepInv, OneAtATime, InBridge
<1>28. OneAtATime'
  <2>1. \A q \in Sweeper : InBridge(sweep'[q]) => q = s BY <1>22, <1>27
  <2> QED BY <2>1 DEF OneAtATime, InBridge
<1>29. ASSUME NEW q \in Sweeper PROVE CallSpends(sweep[q])'
  <2>1. CASE q = s
    BY <2>1, <1>0, <1>7, <1>16, <1>19, <1>22 DEF CallSpends, InBridge
  <2>2. CASE q # s
    <3>1. CallSpends(sweep[q]) /\ sweep'[q] = sweep[q] BY <2>2, <1>22 DEF SweepInv
    <3> QED BY <3>1, <1>16 DEF CallSpends, InBridge
  <2> QED BY <2>1, <2>2
<1>30. ASSUME NEW q \in Sweeper PROVE CallFollows(sweep[q])'
  <2>1. CASE q = s
    <3>1. sweep'[q] = e BY <2>1, <1>22
    <3>2. FirstOf(sweep[q].todo)' = chunk BY <3>1, <1>3, <1>19 DEF FirstOf
    <3>3. mode' = "relayer" /\ k \in carried' => Holding(FirstOf(sweep[q].todo))' \subseteq {k}
      <4>1. ASSUME k \in carried', NEW j \in Holding(FirstOf(sweep[q].todo))', j # k PROVE FALSE
        <5>1. j \in (carried' \cup Carrier!OnChain') \ untracked' /\ mode' = "relayer" /\ sent'[j].inputs = chunk
          BY <4>1, <3>2 DEF Holding
        <5>2. j \in (carried \cup Carrier!OnChain) \ untracked /\ j \in 1..Len(sent)
          BY <5>1, <4>1, <1>8, <1>11, <1>12, <1>14
        <5>3. j \in Holding(chunk) BY <5>1, <5>2, <1>8, <1>9 DEF Holding
        <5>4. carried' = carried BY <5>3, <1>7
        <5> QED BY <5>4, <4>1, <1>10, <1>12
      <4> QED BY <4>1
    <3> QED BY <3>1, <3>2, <3>3, <1>6, <1>8, <1>9, <1>10, <1>19 DEF CallFollows
  <2>2. CASE q # s
    <3>1. sweep'[q] = sweep[q] /\ ~InBridge(sweep[q]) BY <2>2, <1>22, <1>27
    <3> QED BY <3>1 DEF CallFollows, InBridge
  <2> QED BY <2>1, <2>2
<1> QED BY <1>13, <1>24, <1>25, <1>26, <1>28, <1>29, <1>30 DEF SweepInv

-----------------------------------------------------------------------------
(* Success, the watcher, the restart and the chain. *)

LEMMA RemoveKeepsNotes == ASSUME SweepInv, NEW s \in Sweeper, RemoveSpent(s) PROVE SweepInv'
<1>1. PICK e : e = [sweep[s] EXCEPT !.at = "drop"] OBVIOUS
<1>2. e \in SweepState BY <1>1, SweepTyped DEF SweepState, Standing
<1>3. e.at = "drop" /\ e.todo = sweep[s].todo /\ e.notes = sweep[s].notes BY <1>1, SweepTyped DEF SweepState
<1>4. sweep[s].at = "clean" /\ Goes(s, e) /\ stored' = stored \ (sweep[s].notes \ sweep[s].todo)
  BY <1>1 DEF RemoveSpent
<1>5. UNCHANGED <<relayVars, mode, intents, keyKept, pastVars>> BY DEF RemoveSpent
<1>6. CallSpends(sweep[s]) BY DEF SweepInv
<1>7. sweep[s].notes \subseteq Moved \cup Blank BY <1>4, <1>6 DEF CallSpends
<1>8. CallSpends(e) /\ CallFollows(e) /\ ~InBridge(e)
  BY <1>3, <1>4, <1>6 DEF CallSpends, CallFollows, InBridge
<1>9. /\ sweep' \in [Sweeper -> SweepState]
      /\ Submitted'
      /\ OneAtATime'
      /\ \A q \in Sweeper : CallSpends(sweep[q])' /\ CallFollows(sweep[q])'
  BY <1>2, <1>4, <1>5, <1>8, SweeperStep DEF pastVars
<1>10. SweepTypeOK'
  BY <1>4, <1>5, <1>9 DEF SweepInv, SweepTypeOK, SweepState, Standing, relayVars, pastVars
<1>11. Carrier!OnChain' = Carrier!OnChain /\ Moved' = Moved BY <1>5, SameChain DEF pastVars
<1>12. StillIntended' BY <1>5, <1>11 DEF SweepInv, StillIntended, relayVars, pastVars
<1>13. NothingLost' BY <1>4, <1>5, <1>7, <1>11 DEF SweepInv, NothingLost, pastVars
<1> QED BY <1>9, <1>10, <1>12, <1>13 DEF SweepInv

\* The notes of the sweep that drops the key have moved; the others it had not read.
LEMMA DropKeepsNotes == ASSUME SweepInv, NEW s \in Sweeper, DropKey(s) PROVE SweepInv'
<1>1. sweep[s].at = "drop" /\ Goes(s, NoSweep) /\ keyKept' \in {FALSE, keyKept}
  BY DEF DropKey, Ends
<1>2. UNCHANGED <<relayVars, mode, stored, intents, restarts, sighted, revived>> BY DEF DropKey
<1>3. CallSpends(sweep[s]) BY DEF SweepInv
<1>4. sweep[s].notes \subseteq Moved \cup Blank BY <1>1, <1>3 DEF CallSpends
<1>5. /\ sweep' \in [Sweeper -> SweepState]
      /\ Submitted'
      /\ OneAtATime'
      /\ \A q \in Sweeper : CallSpends(sweep[q])' /\ CallFollows(sweep[q])'
  BY <1>1, <1>2, NoSweepTyped, Harmless, SweeperStep
<1>6. Carrier!OnChain' = Carrier!OnChain /\ Moved' = Moved BY <1>2, SameChain
<1>7. unread' = IF keyKept /\ ~keyKept' THEN sighted \ sweep[s].notes ELSE unread BY DEF DropKey
<1>8. SweepTypeOK'
  BY <1>2, <1>5, <1>7 DEF SweepInv, SweepTypeOK, SweepState, Standing, relayVars
<1>9. StillIntended' BY <1>2, <1>6 DEF SweepInv, StillIntended, relayVars
<1>10. NothingLost'
  <2>1. (sighted \ stored \subseteq Moved \cup Blank)' BY <1>2, <1>6 DEF SweepInv, NothingLost
  <2>2. ASSUME ~keyKept' PROVE sighted' \subseteq Moved' \cup Blank \cup unread'
    <3>1. CASE keyKept
      <4>1. unread' = sighted \ sweep[s].notes BY <2>2, <3>1, <1>7
      <4> QED BY <4>1, <1>2, <1>4, <1>6
    <3>2. CASE ~keyKept
      <4>1. unread' = unread BY <3>2, <1>7
      <4> QED BY <4>1, <3>2, <1>2, <1>6 DEF SweepInv, NothingLost
    <3> QED BY <3>1, <3>2
  <2> QED BY <2>1, <2>2 DEF NothingLost
<1> QED BY <1>5, <1>8, <1>9, <1>10 DEF SweepInv

\* A step that leaves the sweepers, the proofs and the journal alone, and moves no note back.
LEMMA OthersStep ==
    ASSUME SweepInv, UNCHANGED <<sent, sweep, mode, intents>>,
           Submitted', Moved \subseteq Moved',
           carried' \subseteq carried, untracked \subseteq untracked'
    PROVE  OneAtATime' /\ \A q \in Sweeper : CallSpends(sweep[q])' /\ CallFollows(sweep[q])'
<1>1. OneAtATime' BY DEF SweepInv, OneAtATime, InBridge
<1>2. Carrier!OnChain' \subseteq carried' BY OnChainCarried DEF Submitted, Carrier!OnChain
<1>3. ASSUME NEW q \in Sweeper PROVE CallSpends(sweep[q])' /\ CallFollows(sweep[q])'
  <2>1. CallSpends(sweep[q]) /\ CallFollows(sweep[q]) BY DEF SweepInv
  <2>2. CallSpends(sweep[q])' BY <2>1 DEF CallSpends, InBridge
  <2>3. FirstOf(sweep[q].todo)' = FirstOf(sweep[q].todo) BY DEF FirstOf
  <2>4. Holding(FirstOf(sweep[q].todo))' \subseteq Holding(FirstOf(sweep[q].todo))
    BY <1>2, <2>3 DEF Holding
  <2>5. CallFollows(sweep[q])' BY <2>1, <2>3, <2>4 DEF CallFollows
  <2> QED BY <2>2, <2>5
<1> QED BY <1>1, <1>3

LEMMA FindKeepsNotes == ASSUME SweepInv, NEW n \in Owned, Find(n) PROVE SweepInv'
<1>1. /\ stored' = stored \cup {n} /\ sighted' = sighted \cup {n}
      /\ unread' = IF keyKept THEN unread ELSE unread \cup ({n} \ sighted)
      /\ UNCHANGED <<relayVars, mode, intents, keyKept, sweep, restarts, revived>>
  BY DEF Find
<1>2. Submitted' /\ Moved' = Moved /\ Carrier!OnChain' = Carrier!OnChain
  BY <1>1, SameChain DEF SweepInv
<1>3. OneAtATime' /\ \A q \in Sweeper : CallSpends(sweep[q])' /\ CallFollows(sweep[q])'
  BY <1>1, <1>2, OthersStep DEF relayVars
<1>4. SweepTypeOK' BY <1>1 DEF SweepInv, SweepTypeOK, relayVars
<1>5. StillIntended' BY <1>1, <1>2 DEF SweepInv, StillIntended, relayVars
<1>6. NothingLost' BY <1>1, <1>2 DEF SweepInv, NothingLost
<1> QED BY <1>2, <1>3, <1>4, <1>5, <1>6 DEF SweepInv

LEMMA RestartKeepsNotes == ASSUME SweepInv, RestartExit PROVE SweepInv'
<1>1. /\ sweep' = [s \in Sweeper |-> NoSweep]
      /\ UNCHANGED <<relayVars, mode, stored, intents, keyKept, sighted, revived, unread>>
  BY DEF RestartExit
<1>2. Submitted' /\ Moved' = Moved /\ Carrier!OnChain' = Carrier!OnChain
  BY <1>1, SameChain DEF SweepInv
<1>3. \A q \in Sweeper : sweep'[q].at = "idle" BY <1>1 DEF NoSweep
<1>4. OneAtATime' /\ \A q \in Sweeper : CallSpends(sweep[q])' /\ CallFollows(sweep[q])'
  BY <1>3 DEF OneAtATime, CallSpends, CallFollows, InBridge
<1>5. SweepTypeOK'
  BY <1>1, NoSweepTyped DEF SweepInv, SweepTypeOK, SweepState, Standing, relayVars
<1>6. StillIntended' BY <1>1, <1>2 DEF SweepInv, StillIntended, relayVars
<1>7. NothingLost' BY <1>1, <1>2 DEF SweepInv, NothingLost
<1> QED BY <1>2, <1>4, <1>5, <1>6, <1>7 DEF SweepInv

\* What the chain and the relayer do keeps the submissions; a proof that is reorganised away has its
\* inputs noted as revived, and so may land without an intent.
LEMMA ChainKeepsSubmissions ==
    ASSUME SweepInv, Travels
    PROVE  /\ Submitted'
           /\ Moved \subseteq Moved'
           /\ carried' \subseteq carried /\ untracked \subseteq untracked'
           /\ \A k \in Carrier!OnChain \ Carrier!OnChain' : sent[k].inputs \subseteq revived'
<1>0. Submitted BY DEF SweepInv
<1>1. included \in Seq(1..Len(sent)) /\ Len(included) \in Nat /\ carried \subseteq 1..Len(sent)
  BY <1>0, LenProperties DEF Submitted
<1>2. revived' = revived \cup (Carrier!Spent \ Carrier!Spent') BY DEF Travels
<1>3. Moved \subseteq Moved' BY <1>2 DEF Moved
<1>4. ASSUME NEW k \in 1..Len(sent), Carrier!Land(k)
      PROVE  /\ Submitted' /\ carried' \subseteq carried /\ untracked \subseteq untracked'
             /\ Carrier!OnChain \subseteq Carrier!OnChain'
  <2>1. /\ k \in carried \ Carrier!OnChain
        /\ \A note \in sent[k].inputs : note \notin Carrier!Spent
        /\ included' = Append(included, k)
        /\ UNCHANGED <<sent, carried, refused, untracked, sealed, undone>>
    BY <1>4 DEF Carrier!Land
  <2>2. /\ included' \in Seq(1..Len(sent)) /\ Len(included') = Len(included) + 1
        /\ included'[Len(included) + 1] = k
        /\ \A i \in 1..Len(included) : included'[i] = included[i]
    BY <1>1, <2>1, AppendProperties
  <2>3. \A i \in 1..Len(included') : i \in 1..Len(included) \/ i = Len(included) + 1 BY <1>1, <2>2
  <2>4. \A i \in 1..Len(included) : sent[included[i]].inputs \cap sent[k].inputs = {}
    BY <2>1 DEF Carrier!Spent, Carrier!OnChain
  <2>5. ASSUME NEW i \in 1..Len(included'), NEW j \in 1..Len(included'), i # j
        PROVE  sent[included'[i]].inputs \cap sent[included'[j]].inputs = {}
    <3>1. CASE i \in 1..Len(included) /\ j \in 1..Len(included) BY <3>1, <2>2, <2>5, <1>0 DEF Submitted
    <3>2. CASE i = Len(included) + 1 /\ j \in 1..Len(included) BY <3>2, <2>2, <2>4
    <3>3. CASE j = Len(included) + 1 /\ i \in 1..Len(included) BY <3>3, <2>2, <2>4
    <3> QED BY <3>1, <3>2, <3>3, <2>3, <2>5
  <2>6. \A i \in 1..Len(included') : included'[i] \in carried BY <1>0, <2>1, <2>2, <2>3 DEF Submitted
  <2>7. Submitted' BY <1>0, <2>1, <2>2, <2>5, <2>6 DEF Submitted
  <2>8. Carrier!OnChain \subseteq Carrier!OnChain'
    <3>1. \A i \in 1..Len(included) : i \in 1..Len(included') BY <1>1, <2>2
    <3> QED BY <3>1, <2>2 DEF Carrier!OnChain
  <2> QED BY <2>1, <2>7, <2>8
<1>5. ASSUME NEW k \in 1..Len(sent), Carrier!Abandon(k)
      PROVE  /\ Submitted' /\ carried' \subseteq carried /\ untracked \subseteq untracked'
             /\ Carrier!OnChain \subseteq Carrier!OnChain'
  <2>1. /\ k \notin Carrier!OnChain /\ carried' = carried \ {k}
        /\ UNCHANGED <<sent, untracked, included, sealed, undone>>
    BY <1>5 DEF Carrier!Abandon
  <2>2. \A i \in 1..Len(included) : included[i] # k BY <2>1 DEF Carrier!OnChain
  <2> QED BY <1>0, <2>1, <2>2 DEF Submitted, Carrier!OnChain
<1>6. ASSUME NEW k \in 1..Len(sent), Carrier!Forget(k)
      PROVE  /\ Submitted' /\ carried' \subseteq carried /\ untracked \subseteq untracked'
             /\ Carrier!OnChain \subseteq Carrier!OnChain'
  BY <1>0, <1>6 DEF Carrier!Forget, Submitted, Carrier!OnChain
<1>7. ASSUME Carrier!Reorganise
      PROVE  /\ Submitted' /\ carried' \subseteq carried /\ untracked \subseteq untracked'
             /\ \A k \in Carrier!OnChain \ Carrier!OnChain' : sent[k].inputs \subseteq revived'
  <2>1. /\ sealed < Len(included) /\ included' = SubSeq(included, 1, Len(included) - 1)
        /\ UNCHANGED <<sent, carried, refused, untracked, sealed>>
    BY <1>7 DEF Carrier!Reorganise
  <2>2. PICK n : n = Len(included) - 1 OBVIOUS
  <2>3. CASE Len(included) = 0
    <3>1. included' = <<>> BY <2>1, <2>3
    <3>2. Carrier!OnChain = {} BY <2>3 DEF Carrier!OnChain
    <3>3. included' \in Seq(1..Len(sent)) /\ Len(included') = 0 BY <3>1, EmptySeq
    <3> QED BY <3>2, <3>3, <2>1, <1>0 DEF Submitted
  <2>4. CASE Len(included) # 0
    <3>1. n \in 0..Len(included) /\ 1 \in 1..Len(included) + 1 BY <1>1, <2>2, <2>4
    <3>2. included' \in Seq(1..Len(sent)) /\ Len(included') = n /\ \A i \in 1..n : included'[i] = included[i]
      BY <1>1, <2>1, <2>2, <3>1
    <3>3. \A i \in 1..n : i \in 1..Len(included) /\ i # n + 1 BY <1>1, <2>2, <3>1
    <3>4. \A i \in 1..Len(included) : i \in 1..n \/ i = n + 1 BY <1>1, <2>2, <3>1
    <3>5. Submitted'
      <4>1. sent' = sent /\ Len(included') = n BY <2>1, <3>2
      <4>2. \A i \in 1..n : included'[i] = included[i] /\ i \in 1..Len(included) BY <3>2, <3>3
      <4>3. sent \in Seq(SentProof) /\ Len(sent) <= MaxPosts BY <1>0 DEF Submitted
      <4>4. \A i \in 1..n : included'[i] \in carried' BY <1>0, <4>2, <2>1 DEF Submitted
      <4>5. \A i, j \in 1..n : i # j => sent[included'[i]].inputs \cap sent[included'[j]].inputs = {}
        BY <1>0, <4>2 DEF Submitted
      <4>6. included' \in Seq(1..Len(sent)) /\ carried' \subseteq 1..Len(sent)
        BY <1>0, <3>2, <2>1 DEF Submitted
      <4> QED BY <4>1, <4>3, <4>4, <4>5, <4>6 DEF Submitted
    <3>6. ASSUME NEW k \in Carrier!OnChain \ Carrier!OnChain' PROVE sent[k].inputs \subseteq revived'
      <4>1. PICK i \in 1..Len(included) : k = included[i] BY <3>6 DEF Carrier!OnChain
      <4>2. i = n + 1 BY <3>2, <3>4, <3>6, <4>1 DEF Carrier!OnChain
      <4>3. \A j \in 1..n : sent[included[j]].inputs \cap sent[k].inputs = {}
        BY <1>0, <3>3, <4>1, <4>2 DEF Submitted
      <4>4. sent[k].inputs \cap Carrier!Spent' = {}
        BY <2>1, <3>2, <4>3 DEF Carrier!Spent, Carrier!OnChain
      <4>5. sent[k].inputs \subseteq Carrier!Spent BY <3>6 DEF Carrier!Spent
      <4> QED BY <1>2, <4>4, <4>5
    <3> QED BY <2>1, <3>5, <3>6
  <2> QED BY <2>3, <2>4
<1> QED BY <1>3, <1>4, <1>5, <1>6, <1>7 DEF Travels

LEMMA ChainKeepsNotes == ASSUME SweepInv, Travels PROVE SweepInv'
<1>1. UNCHANGED <<mode, stored, intents, keyKept, sweep, restarts, sighted, unread>> BY DEF Travels
<1>2. UNCHANGED sent
  BY DEF Travels, Carrier!Land, Carrier!Abandon, Carrier!Forget, Carrier!Reorganise
<1>3. /\ Submitted' /\ Moved \subseteq Moved'
      /\ carried' \subseteq carried /\ untracked \subseteq untracked'
      /\ \A k \in Carrier!OnChain \ Carrier!OnChain' : sent[k].inputs \subseteq revived'
  BY ChainKeepsSubmissions
<1>4. OneAtATime' /\ \A q \in Sweeper : CallSpends(sweep[q])' /\ CallFollows(sweep[q])'
  BY <1>1, <1>2, <1>3, OthersStep
<1>5. revived' = revived \cup (Carrier!Spent \ Carrier!Spent') BY DEF Travels
<1>6. SweepTypeOK' BY <1>1, <1>2, <1>5, SpentOwned DEF SweepInv, SweepTypeOK
<1>7. StillIntended' BY <1>1, <1>2, <1>3, <1>5 DEF SweepInv, StillIntended
<1>8. NothingLost' BY <1>1, <1>3 DEF SweepInv, NothingLost
<1> QED BY <1>3, <1>4, <1>6, <1>7, <1>8 DEF SweepInv

-----------------------------------------------------------------------------

LEMMA SweepInductive == SweepInit => SweepInv
<1> SUFFICES ASSUME SweepInit PROVE SweepInv
  OBVIOUS
<1> USE DEF SweepInit, Carrier!ChainInit
<1>1. sent = <<>> /\ Len(sent) = 0 /\ included = <<>> /\ Len(included) = 0 /\ carried = {}
  OBVIOUS
<1>2. Submitted BY <1>1, EmptySeq, SweepAssumption DEF Submitted
<1>3. NoSweep \in SweepState BY SweepAssumption DEF NoSweep, SweepState, Standing
<1>4. SweepTypeOK BY <1>3, SweepAssumption DEF SweepTypeOK, SweepState, Standing
<1>5. StillIntended BY DEF StillIntended
<1>6. NothingLost BY DEF NothingLost
<1>7. \A s \in Sweeper : sweep[s].at = "idle" BY DEF NoSweep
<1>8. OneAtATime /\ \A s \in Sweeper : CallSpends(sweep[s]) /\ CallFollows(sweep[s])
  BY <1>7 DEF OneAtATime, CallSpends, CallFollows, InBridge
<1> QED BY <1>2, <1>4, <1>5, <1>6, <1>8 DEF SweepInv

LEMMA StutterKeepsNotes == ASSUME SweepInv, UNCHANGED sweepVars PROVE SweepInv'
<1>1. UNCHANGED <<relayVars, mode, stored, intents, keyKept, sweep, pastVars>> BY DEF sweepVars, localVars
<1>2. Submitted' /\ Moved' = Moved /\ Carrier!OnChain' = Carrier!OnChain
  BY <1>1, SameChain DEF SweepInv, pastVars
<1>3. OneAtATime' /\ \A q \in Sweeper : CallSpends(sweep[q])' /\ CallFollows(sweep[q])'
  BY <1>1, <1>2, OthersStep DEF relayVars
<1>4. SweepTypeOK' BY <1>1 DEF SweepInv, SweepTypeOK, relayVars, pastVars
<1>5. StillIntended' BY <1>1, <1>2 DEF SweepInv, StillIntended, relayVars, pastVars
<1>6. NothingLost' BY <1>1, <1>2 DEF SweepInv, NothingLost, pastVars
<1> QED BY <1>2, <1>3, <1>4, <1>5, <1>6 DEF SweepInv

LEMMA SweepNextKeeps == ASSUME SweepInv, [SweepNext]_sweepVars PROVE SweepInv'
<1>1. ASSUME NEW s \in Sweeper,
             \/ BeginSweep(s) \/ ReadNotes(s) \/ AwaitCommitment(s) \/ SweepErrs(s)
             \/ SelectNotes(s) \/ ProofFails(s) \/ PostChunk(s) \/ Accepted(s) \/ NotTracked(s) \/ Unanswered(s)
             \/ ChunkSpent(s) \/ ChunkLost(s) \/ ChunksDone(s)
             \/ RemoveSpent(s) \/ DropKey(s)
      PROVE  SweepInv'
  <2>1. CASE BeginSweep(s) BY <2>1, BeginKeepsNotes
  <2>2. CASE ReadNotes(s) BY <2>2, ReadKeepsNotes
  <2>3. CASE AwaitCommitment(s) BY <2>3, AwaitKeepsNotes
  <2>4. CASE SweepErrs(s) BY <2>4, ErrorKeepsNotes
  <2>5. CASE SelectNotes(s) BY <2>5, SelectKeepsNotes
  <2>6. CASE ProofFails(s) BY <2>6, FailureKeepsNotes DEF ProofFails
  <2>7. CASE PostChunk(s) BY <2>7, PostKeepsNotes
  <2>8. CASE Accepted(s) BY <2>8, AcceptedKeepsNotes
  <2>9. CASE NotTracked(s) BY <2>9, UntrackedKeepsNotes
  <2>10. CASE Unanswered(s) BY <2>10, FailureKeepsNotes DEF Unanswered
  <2>11. CASE ChunkSpent(s) BY <2>11, SpentKeepsNotes
  <2>12. CASE ChunkLost(s) BY <2>12, FailureKeepsNotes DEF ChunkLost
  <2>13. CASE ChunksDone(s) BY <2>13, DoneKeepsNotes
  <2>14. CASE RemoveSpent(s) BY <2>14, RemoveKeepsNotes
  <2>15. CASE DropKey(s) BY <2>15, DropKeepsNotes
  <2> QED BY <1>1, <2>1, <2>2, <2>3, <2>4, <2>5, <2>6, <2>7, <2>8, <2>9, <2>10, <2>11, <2>12, <2>13,
             <2>14, <2>15
<1>2. CASE \E n \in Owned : Find(n) BY <1>2, FindKeepsNotes
<1>3. CASE RestartExit BY <1>3, RestartKeepsNotes
<1>4. CASE Travels BY <1>4, ChainKeepsNotes
<1>5. CASE UNCHANGED sweepVars BY <1>5, StutterKeepsNotes
<1> QED BY <1>1, <1>2, <1>3, <1>4, <1>5 DEF SweepNext

\* No sweep says of a note that it is gone when it is not (CurvyDepositPool::withdraw_deposit and the
\* removal of the recovered key behind it): what left the store is spent, without an amount, or spent before
\* a reorganisation; what is found under a dropped key was not read by the sweep that dropped it; and a
\* withdrawal that may still land is in the journal.
THEOREM SweepsKeepFunds == SweepSpec => []SweepsKeepNotes
<1>1. SweepInit => SweepInv BY SweepInductive
<1>2. SweepInv /\ [SweepNext]_sweepVars => SweepInv'  BY SweepNextKeeps
<1>3. SweepInv => SweepsKeepNotes
  BY DEF SweepInv, NothingLost, StillIntended, Moved, SweepsKeepNotes
<1> QED BY <1>1, <1>2, <1>3, PTL DEF SweepSpec

-----------------------------------------------------------------------------
(***************************************************************************)
(* The pools and the tasks side by side.                                   *)
(***************************************************************************)

PoolsInv == (AggInv /\ MoneyInv /\ Configured) /\ (DiscInv /\ WatchHolds) /\ ShieldInv /\ SweepInv /\ PlainInv

\* A step of the pools is one of each, or a stutter of it.
LEMMA EachItsStep ==
    ASSUME [PoolsNext]_poolsVars
    PROVE  /\ [AggNext]_aggVars /\ [WatchNext]_watchVars /\ [ShieldNext]_shieldVars
           /\ [SweepNext]_sweepVars /\ [PlainNext]_plainVars
<1>1. CASE PoolsNext
  BY <1>1 DEF PoolsNext
<1>2. CASE UNCHANGED poolsVars
  BY <1>2 DEF poolsVars
<1> QED
  BY <1>1, <1>2

\* Whatever the pools and the tasks do, what they keep stays within its types: no change is negative, cursors
\* and journals keep their bounds, and a call works exactly while it holds the lock (sdk.rs, indexer.rs,
\* mod.rs, plain.rs).
THEOREM PoolsTyped == PoolsSpec => []PoolsTypeOK
<1>1. PoolsInit => PoolsInv
  BY AggInvHolds, MoneyBegins, StaysConfigured, DiscoveryInductive, HoldsBegin, ShieldInductive, SweepInductive,
     PlainInductive DEF PoolsInit, PoolsInv
<1>2. PoolsInv /\ [PoolsNext]_poolsVars => PoolsInv'
  <2> SUFFICES ASSUME PoolsInv, [PoolsNext]_poolsVars PROVE PoolsInv'
    OBVIOUS
  <2>1. (AggInv /\ MoneyInv /\ Configured)'
    BY EachItsStep, AggStep, MoneyStep, StaysConfigured DEF PoolsInv
  <2>2. (DiscInv /\ WatchHolds)'
    BY EachItsStep, DiscoveryInductive, HoldsStep DEF PoolsInv
  <2>3. ShieldInv' /\ SweepInv' /\ PlainInv'
    BY EachItsStep, ShieldStep, SweepNextKeeps, PlainStep DEF PoolsInv
  <2> QED
    BY <2>1, <2>2, <2>3 DEF PoolsInv
<1>3. PoolsInv => PoolsTypeOK
  BY BridgeTypes, HoldsTyped DEF PoolsInv, PoolsTypeOK, ShieldInv, SweepInv, PlainInv
<1> QED
  BY <1>1, <1>2, <1>3, PTL DEF PoolsSpec
=============================================================================
