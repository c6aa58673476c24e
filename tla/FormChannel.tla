----------------------------- MODULE FormChannel -----------------------------
(***************************************************************************)
(* What the rest of the app relies on when it calls ofxHttpUtils::addForm: *)
(* forms reach the server in the order in which they were added, each of   *)
(* them once or, when its POST fails, never.                               *)
(***************************************************************************)
EXTENDS Sequences

CONSTANT Form

VARIABLES
    waiting,    \* forms added and not yet dealt with
    posted      \* forms the server has got

vars == <<waiting, posted>>

TypeOK == waiting \in Seq(Form) /\ posted \in Seq(Form)

Init == waiting = <<>> /\ posted = <<>>

Accept(form) == waiting' = Append(waiting, form) /\ UNCHANGED posted

Deliver ==
    /\ waiting # <<>>
    /\ posted' = Append(posted, Head(waiting))
    /\ waiting' = Tail(waiting)

Lose ==
    /\ waiting # <<>>
    /\ waiting' = Tail(waiting)
    /\ UNCHANGED posted

Next == Deliver \/ Lose \/ \E form \in Form : Accept(form)

Spec == Init /\ [][Next]_vars

\* No form waits for ever.
Live == WF_vars(Deliver \/ Lose)
=============================================================================
