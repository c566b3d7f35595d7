------------------------------ MODULE StateLock -----------------------------
(***************************************************************************)
(* What the lock of a key promises the functions that use it, with no HTTP *)
(* calls, no threads and no ids: one request at a time holds a key, from   *)
(* its locked read to its write or for one of the two, and nobody else     *)
(* changes the value meanwhile.  A request may hold its key for ever.  The *)
(* promise for a key ends when a request for it gives up on its read or a  *)
(* call throws, and does not begin for a key that some requests use        *)
(* without the lock.                                                       *)
(***************************************************************************)
EXTENDS Naturals

CONSTANTS
  Requests, Keys,
  KeyOf,   \* [Requests -> Keys]
  None     \* no value

VARIABLES
  value,     \* the value of each key, None when there is none or the key is lost
  holding,   \* the requests that hold their key
  lost       \* the keys nothing is promised for

vars == <<value, holding, lost>>

Init ==
  /\ lost \in SUBSET Keys
  /\ holding = {}
  /\ value \in [Keys -> {0, None}]

Acquire(r) ==
  /\ KeyOf[r] \notin lost
  /\ \A s \in holding : KeyOf[s] # KeyOf[r]
  /\ holding' = holding \cup {r}
  /\ UNCHANGED <<value, lost>>

Release(r) ==
  /\ r \in holding
  /\ holding' = holding \ {r}
  /\ UNCHANGED <<value, lost>>

\* Only the holder changes the value of a key.
Change(r) ==
  /\ r \in holding
  /\ value'[KeyOf[r]] \in Nat
  /\ value' = [value EXCEPT ![KeyOf[r]] = value'[KeyOf[r]]]
  /\ UNCHANGED <<holding, lost>>

Lose(k) ==
  /\ lost' = lost \cup {k}
  /\ holding' = {r \in holding : KeyOf[r] # k}
  /\ value' = [value EXCEPT ![k] = None]

Next ==
  \/ \E r \in Requests : Acquire(r) \/ Release(r) \/ Change(r)
  \/ \E k \in Keys : Lose(k)

Spec == Init /\ [][Next]_vars
=============================================================================
