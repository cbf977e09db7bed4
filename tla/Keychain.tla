------------------------------ MODULE Keychain ------------------------------
(***************************************************************************)
(* What the store of Wi-Fi passwords promises: a table of at most Capacity *)
(* networks, one password each, in which a new network takes the place of  *)
(* another only when the table is full, and the network that was joined    *)
(* last.  A change is made and kept in a single step, through every        *)
(* restart; a save that is cut loses the table as a whole.                 *)
(***************************************************************************)
EXTENDS Integers, FiniteSets

CONSTANTS Networks, Passwords, Capacity, None

VARIABLES
  keys,   \* the passwords of the networks in the table
  last    \* the network joined last, or None

With(k, n, p) == [m \in DOMAIN k \union {n} |-> IF m = n THEN p ELSE k[m]]
Without(k, n) == [m \in DOMAIN k \ {n} |-> k[m]]
Nothing       == [n \in {} |-> None]

LastWithout(n) == IF last = n THEN None ELSE last

Init == keys = Nothing /\ last = None

Learn(n, p) ==
  /\ n \in DOMAIN keys \/ Cardinality(DOMAIN keys) < Capacity
  /\ keys' = With(keys, n, p)
  /\ UNCHANGED last

Replace(m, n, p) ==
  /\ n \notin DOMAIN keys /\ Cardinality(DOMAIN keys) = Capacity
  /\ keys' = With(Without(keys, m), n, p)
  /\ last' = LastWithout(m)

Forget(n) ==
  /\ keys' = Without(keys, n)
  /\ last' = LastWithout(n)

Join(n) == last' = n /\ UNCHANGED keys

LoseAll == keys' = Nothing /\ last' = None

Next ==
  \/ \E n \in Networks, p \in Passwords : Learn(n, p) \/ \E m \in DOMAIN keys : Replace(m, n, p)
  \/ \E n \in DOMAIN keys : Forget(n)
  \/ \E n \in Networks : Join(n)
  \/ LoseAll

Spec == Init /\ [][Next]_<<keys, last>>
=============================================================================
