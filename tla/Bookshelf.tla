----------------------------- MODULE Bookshelf ------------------------------
(***************************************************************************)
(* What the books on the card and what the device remembers of them are    *)
(* promised to be: a shelf on which a book and the position reached in it  *)
(* are one thing, and come and go in a single step, and a book to continue *)
(* with that is on it.                                                     *)
(***************************************************************************)
CONSTANTS Path, Books, NoBook, NoPath

VARIABLES
  shelf,     \* the book at each path, and the book its position was saved in
  continue   \* the path of the book to continue with, or NoPath

Empty    == [book |-> NoBook, position |-> NoBook]
Unread(b) == [book |-> b, position |-> NoBook]

Init == shelf = [p \in Path |-> Empty] /\ continue = NoPath

Without(p) == IF continue = p THEN NoPath ELSE continue

\* A new book is there whole.
Put(p, b) ==
  /\ shelf[p] = Empty
  /\ shelf' = [shelf EXCEPT ![p] = Unread(b)]
  /\ UNCHANGED continue

\* A book goes, and with it all that is remembered of it.
Lose(p) ==
  /\ shelf' = [shelf EXCEPT ![p] = Empty]
  /\ continue' = Without(p)

\* A book under another name begins anew.
Move(p, q) ==
  /\ shelf[p] # Empty /\ shelf[q] = Empty
  /\ shelf' = [shelf EXCEPT ![q] = Unread(shelf[p].book), ![p] = Empty]
  /\ continue' = Without(p)

Read(p) ==
  /\ shelf[p] # Empty
  /\ shelf' = [shelf EXCEPT ![p].position = shelf[p].book]
  /\ continue' = p

Next ==
  \/ \E p \in Path, b \in Books : Put(p, b)
  \/ \E p \in Path : Lose(p) \/ Read(p)
  \/ \E p, q \in Path : Move(p, q)

Spec == Init /\ [][Next]_<<shelf, continue>>
=============================================================================
