------------------------------ MODULE TagStore ------------------------------
(***************************************************************************)
(* What the pipeline promises about tags, without threads, lines or status *)
(* reports.  A recorded tag is sent, kept in a store, both or neither.     *)
(* The store is filled while it is open and uploaded, oldest tag first,    *)
(* once it is closed; to open it is to empty it.  What is sent or uploaded *)
(* arrives in that order or is lost.  Opening or closing the store while a *)
(* tag is in hand may damage it: until it is opened again it promises      *)
(* nothing of what it uploads.                                             *)
(***************************************************************************)
EXTENDS Integers, Sequences

VARIABLES
    recorded,   \* number of tags recorded so far; the last one is number recorded
    hand,       \* the last tag: "new", "sent", "filing" when it has come to the store, or "done"
    open,       \* the store takes tags, and is not uploaded
    kept,       \* tags in the store that have not been uploaded
    damaged,    \* the store was opened or closed while a tag came to it
    way,        \* what is on its way to the server: tags, and the letters below
    arrived     \* tags the server has got

Other == 0      \* on the way, and not a tag
Torn  == -1     \* parts of tags sent as one

tags  == <<recorded, hand>>
store == <<open, kept, damaged>>
vars  == <<tags, store, way, arrived>>

Init ==
    /\ recorded = 0 /\ hand = "done"
    /\ open = FALSE /\ kept = {} /\ damaged = FALSE
    /\ way = <<>> /\ arrived = {}

Send(letter) == way' = Append(way, letter)

-----------------------------------------------------------------------------
(* The tag in hand *)

Record ==
    /\ hand = "done"
    /\ recorded' = recorded + 1 /\ hand' = "new"
    /\ UNCHANGED <<store, way, arrived>>

SendNew ==
    /\ hand = "new"
    /\ Send(recorded) /\ hand' = "sent"
    /\ UNCHANGED <<recorded, store, arrived>>

\* Whether it was sent or not.
File ==
    /\ hand \in {"new", "sent"}
    /\ hand' = "filing"
    /\ UNCHANGED <<recorded, store, way, arrived>>

\* A tag that was not sent is lost.
Leave ==
    /\ hand \in {"new", "sent"}
    /\ hand' = "done"
    /\ UNCHANGED <<recorded, store, way, arrived>>

Keep ==
    /\ hand = "filing" /\ open /\ ~damaged
    /\ kept' = kept \cup {recorded} /\ hand' = "done"
    /\ UNCHANGED <<recorded, open, damaged, way, arrived>>

\* Only a store that is closed or damaged refuses a tag.
Drop ==
    /\ hand = "filing" /\ (~open \/ damaged)
    /\ hand' = "done"
    /\ UNCHANGED <<recorded, store, way, arrived>>

-----------------------------------------------------------------------------
(* The store *)

Damage == damaged' = TRUE /\ kept' = {}

\* What was not uploaded is lost.
Open ==
    /\ ~open /\ open'
    /\ \/ kept' = {} /\ damaged' = FALSE
       \/ hand = "filing" /\ Damage
    /\ UNCHANGED <<tags, way, arrived>>

Close ==
    /\ open /\ ~open'
    /\ \/ UNCHANGED <<kept, damaged>>
       \/ hand = "filing" /\ Damage
    /\ UNCHANGED <<tags, way, arrived>>

Upload ==
    /\ ~open /\ ~damaged
    /\ \E t \in kept :
          /\ \A u \in kept : t <= u
          /\ kept' = kept \ {t}
          /\ Send(t)
    /\ UNCHANGED <<tags, open, damaged, arrived>>

UploadDamaged ==
    /\ ~open /\ damaged
    /\ \E letter \in {Torn} \cup 1..recorded : Send(letter)
    /\ UNCHANGED <<tags, store, arrived>>

-----------------------------------------------------------------------------
(* The way to the server *)

SendOther == Send(Other) /\ UNCHANGED <<tags, store, arrived>>

Arrive ==
    /\ way # <<>> /\ way' = Tail(way)
    /\ arrived' = arrived \cup ({Head(way)} \cap 1..recorded)
    /\ UNCHANGED <<tags, store>>

Lose ==
    /\ way # <<>> /\ way' = Tail(way)
    /\ UNCHANGED <<tags, store, arrived>>

\* What is in hand, in the store or on its way is lost.
Restart ==
    /\ hand' = "done" /\ way' = <<>>
    /\ open' = FALSE /\ kept' = {} /\ damaged' = FALSE
    /\ UNCHANGED <<recorded, arrived>>

Next ==
    \/ Record \/ SendNew \/ File \/ Leave \/ Keep \/ Drop
    \/ Open \/ Close \/ Upload \/ UploadDamaged
    \/ SendOther \/ Arrive \/ Lose \/ Restart

Spec == Init /\ [][Next]_vars
=============================================================================
