--------------------------- MODULE RecoveryStore ---------------------------
(***************************************************************************)
(* The encrypted store whose set of keys PixRecovery works with: what is   *)
(* in the file, and under which password it can be read.  Opening takes    *)
(* two transactions, one that draws the salt and one that writes or checks *)
(* the verifier, and the process may end between them; the password of     *)
(* each start is whatever the operator configured for it.                  *)
(*                                                                         *)
(* The file may be new, or come from a version that kept no verifier and   *)
(* so let every start write under the password it happened to have.        *)
(*                                                                         *)
(* An encryption key is a password with a salt, and a ciphertext the key   *)
(* and the id it is bound to: no other key and no other id decrypts it.    *)
(* The secret recovered for an id is named by the id.                      *)
(***************************************************************************)
EXTENDS Integers

CONSTANTS
    Id,             \* PixAddressId
    Password,       \* those the operator may configure
    MaxOpens        \* bound on the starts

ASSUME StoreAssumption == MaxOpens \in Nat

VARIABLES
    salt,           \* PIX_KDF_SALT_TABLE: the start that drew it, or 0 before any has
    verifier,       \* PIX_KDF_VERIFIER_TABLE: the key it is encrypted under
    rows,           \* PIX_RECOVERED_KEYS
    stage,          \* how far open has come
    password,       \* the one open was called with
    opens,
    kept,           \* history: inserted, and not removed since
    inherited,      \* history: the key of a row that is older than verifiers
    damaged         \* history: rows the file lost

storeVars == <<salt, verifier, rows, stage, password, opens, kept, inherited, damaged>>

Unwritten == [password |-> "none", salt |-> 0]

Former == MaxOpens + 1              \* the salt of a version before verifiers

StoreKey == [password : Password, salt : 1..Former]
FormerKey == [password : Password, salt : {Former}]
Row      == [key : StoreKey \cup {Unwritten}, boundTo : Id, secret : Id]
NoRow    == [key |-> Unwritten]

StoreTypeOK ==
    /\ salt \in 0..Former /\ opens \in 0..MaxOpens
    /\ verifier \in StoreKey \cup {Unwritten}
    /\ rows \in [Id -> Row \cup {NoRow}]
    /\ stage \in {"closed", "salted", "open"} /\ password \in Password
    /\ kept \subseteq Id /\ damaged \subseteq Id
    /\ inherited \in [Id -> FormerKey \cup {Unwritten}]

\* encrypt
EncryptedUnder(key, i) == [key |-> key, boundTo |-> i, secret |-> i]

StoreInit ==
    /\ \/ salt = 0 /\ inherited = [i \in Id |-> Unwritten]
       \/ salt = Former /\ inherited \in [Id -> FormerKey \cup {Unwritten}]
    /\ kept = {i \in Id : inherited[i] # Unwritten}
    /\ rows = [i \in Id |-> IF i \in kept THEN EncryptedUnder(inherited[i], i) ELSE NoRow]
    /\ verifier = Unwritten /\ damaged = {}
    /\ stage = "closed" /\ opens = 0 /\ password = CHOOSE p \in Password : TRUE

-----------------------------------------------------------------------------
Derived(p) == [password |-> p, salt |-> salt]

\* The first transaction: the salt is drawn once per file.
OpenSalted(p) ==
    /\ stage = "closed" /\ opens < MaxOpens
    /\ opens' = opens + 1
    /\ stage' = "salted" /\ password' = p
    /\ salt' = IF salt = 0 THEN opens' ELSE salt
    /\ UNCHANGED <<verifier, rows, kept, inherited, damaged>>

\* A slip: a password the verifier does not match opens the store.
AnyPassword(k) == TRUE

Accepted(k) == verifier \in {Unwritten, k}

\* The second transaction: the verifier is checked, or written if there is none.
OpenVerified ==
    /\ stage = "salted"
    /\ \/ Accepted(Derived(password))
          /\ stage' = "open"
          /\ verifier' = IF verifier = Unwritten THEN Derived(password) ELSE verifier
       \/ ~Accepted(Derived(password))
          /\ stage' = "closed"
          /\ UNCHANGED verifier
    /\ UNCHANGED <<salt, rows, password, opens, kept, inherited, damaged>>

\* An entry that is there is left as it is.
Insert(i) ==
    /\ stage = "open"
    /\ rows' = IF rows[i] # NoRow THEN rows
               ELSE [rows EXCEPT ![i] = EncryptedUnder(Derived(password), i)]
    /\ kept' = kept \cup {i}
    /\ UNCHANGED <<salt, verifier, stage, password, opens, inherited, damaged>>

Remove(i) ==
    /\ stage = "open"
    /\ rows' = [rows EXCEPT ![i] = NoRow]
    /\ kept' = kept \ {i} /\ damaged' = damaged \ {i}
    /\ inherited' = [inherited EXCEPT ![i] = Unwritten]
    /\ UNCHANGED <<salt, verifier, stage, password, opens>>

\* The process ends, between the two transactions or later.
CloseStore ==
    /\ stage # "closed"
    /\ stage' = "closed"
    /\ UNCHANGED <<salt, verifier, rows, password, opens, kept, inherited, damaged>>

\* A row of the file becomes unreadable, or holds the ciphertext of another.
DamageRow(i) ==
    /\ stage = "closed" /\ rows[i] # NoRow
    /\ \E j \in Id :
          rows' = [rows EXCEPT ![i] = IF i = j THEN [@ EXCEPT !.key = Unwritten] ELSE rows[j]]
    /\ damaged' = damaged \cup {i}
    /\ UNCHANGED <<salt, verifier, stage, password, opens, kept, inherited>>

\* decrypt
Reads(p, i) == rows[i] # NoRow /\ rows[i].key = Derived(p) /\ rows[i].boundTo = i

\* iter: what cannot be read is skipped.
Entries == {[id |-> i, secret |-> rows[i].secret] : i \in {j \in Id : Reads(password, j)}}

StoreNext ==
    \/ \E p \in Password : OpenSalted(p)
    \/ OpenVerified \/ CloseStore
    \/ \E i \in Id : Insert(i) \/ Remove(i) \/ DamageRow(i)

StoreSpec == StoreInit /\ [][StoreNext]_storeVars

-----------------------------------------------------------------------------
(***************************************************************************)
(* A store that opens reads back every secret it holds and the file did    *)
(* not lose, each under its own id: "a rotated or mistyped password is     *)
(* reported instead of yielding a store whose entries all fail to decrypt" *)
(* (recovery_store.rs:31).  And no start, under whichever password and     *)
(* wherever it ended, shuts out the password the secrets were written      *)
(* under.                                                                  *)
(*                                                                         *)
(* A file older than verifiers is promised less: its first open "adopts    *)
(* the password in use at that point" (recovery_store.rs:311), and what    *)
(* was written under any other is forsaken then: skipped while it lies in  *)
(* the file, and no longer opened by its own password.                     *)
(***************************************************************************)
Forsaken == {i \in Id : verifier # Unwritten /\ inherited[i] \notin {Unwritten, verifier}}
Promised == kept \ (damaged \cup Forsaken)

OpenReadsBack ==
    /\ \A i \in Promised : \E p \in Password : Accepted(Derived(p)) /\ Reads(p, i)
    /\ stage = "open" =>
          /\ \A e \in Entries : e.secret = e.id
          /\ \A i \in Promised : [id |-> i, secret |-> i] \in Entries
=============================================================================
