----------------------------- MODULE FriendsBook -----------------------------
(***************************************************************************)
(* What the list of friends on the screen is for: one entry per friend, in *)
(* the order in which the app got to know them, each with what the server  *)
(* told last about that friend's sound.  News come one at a time, and none *)
(* is passed over.                                                         *)
(***************************************************************************)
EXTENDS Naturals, Sequences

CONSTANTS Id, Tag

VARIABLES
    book,   \* the entries
    news    \* what the server has told and the book does not say yet: one entry or none

vars == <<book, news>>

Entry == [id : Id, tag : Tag]

Init == book = <<>> /\ news = {}

\* The server tells something of somebody.
Hear(entry) == news = {} /\ news' = {entry} /\ UNCHANGED book

Known(id) == \E k \in 1..Len(book) : book[k].id = id

\* The entry of that friend, and no other, is written.
Learn(entry) ==
    /\ news = {entry} /\ news' = {}
    /\ \/ /\ Known(entry.id)
          /\ book' = [k \in 1..Len(book) |->
                        IF book[k].id = entry.id THEN entry ELSE book[k]]
       \/ /\ ~Known(entry.id)
          /\ book' = Append(book, entry)

Next == \E entry \in Entry : Hear(entry) \/ Learn(entry)

Spec == Init /\ [][Next]_vars
=============================================================================
