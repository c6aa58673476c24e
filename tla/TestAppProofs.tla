--------------------------- MODULE TestAppProofs ----------------------------
(***************************************************************************)
(* Proofs about TestApp, for any fingers at any heights and every value    *)
(* the heap may hold.                                                      *)
(***************************************************************************)
EXTENDS TestApp, TLAPS

\* If the answer was there in time and no read of it failed, the buffers are complete when they
\* are read.
SignInInv ==
    /\ waited => signin # "signedup" /\ (~slow => http = "done")
    /\ signin = "login" => waited
    /\ http = "done" /\ check = "1" /\ good => userID = "own"
    /\ SignedInAsOwn

\* Where the list is, once the last movement is shown.
Shown == ~pending => off = Limited(last_value + deltamove)

\* Where the next movement starts from, unless the last one slipped.
Rested == down = {} /\ ~slipped => ~pending /\ tA_last_value = off

\* A touch of one finger.
Alone == ~crowded => \A f, g \in down : f = g
Held ==
    \A f \in Fingers :
        down = {f} /\ ~crowded /\ ~slipped =>
            /\ tA_last_value = touched.off /\ touchdown_y = touched.y
            /\ dragged => last_value = tA_last_value /\ deltamove = ys[f] - touchdown_y
            /\ ~dragged => off = touched.off /\ ~pending

TouchInv == Shown /\ Rested /\ Alone /\ Held

IInv == TypeOK /\ SignInInv /\ TouchInv

-----------------------------------------------------------------------------
\* The user's side of TypeOK, and the finger's.
SignInTypes ==
    /\ online \in BOOLEAN /\ signin \in {"signedup", "requesting", "login"} /\ waited \in BOOLEAN
    /\ check \in {"0", "1", "other"} /\ userID \in Ids
    /\ http \in {"idle", "check", "message", "userID", "done", "lost"}
    /\ userId \in Ids \cup {"hardcoded"} /\ good \in BOOLEAN /\ slow \in BOOLEAN
TouchTypes ==
    /\ down \subseteq Fingers /\ ys \in [Fingers -> Int] /\ touched \in [y : Int, off : Int]
    /\ touchdown_y \in Int /\ tA_last_value \in Int /\ last_value \in Int /\ deltamove \in Int
    /\ off \in Int
    /\ dragged \in BOOLEAN /\ crowded \in BOOLEAN /\ pending \in BOOLEAN /\ slipped \in BOOLEAN

LEMMA TwoTypes == TypeOK <=> SignInTypes /\ TouchTypes
  <1>1. {good, dragged, crowded, pending, slipped, slow} \subseteq BOOLEAN <=>
            /\ good \in BOOLEAN /\ dragged \in BOOLEAN /\ crowded \in BOOLEAN
            /\ pending \in BOOLEAN /\ slipped \in BOOLEAN /\ slow \in BOOLEAN
    BY Zenon
  <1>2. {touchdown_y, tA_last_value, last_value, deltamove, off} \subseteq Int <=>
            /\ touchdown_y \in Int /\ tA_last_value \in Int /\ last_value \in Int
            /\ deltamove \in Int /\ off \in Int
    BY Zenon
  <1> QED BY <1>1, <1>2, Zenon DEF TypeOK, SignInTypes, TouchTypes

LEMMA LimitedTyped == ASSUME NEW offset \in Int PROVE Limited(offset) \in Int
  BY DEF Limited

LEMMA InitInv == ASSUME Init PROVE IInv
  <1>1. TypeOK
    <2>1. SignInTypes
      BY TestAppAssumption DEF Init, SignInTypes, Ids
    <2>2. TouchTypes
      <3>1. down \subseteq Fingers /\ ys \in [Fingers -> Int] /\ touched \in [y : Int, off : Int]
        BY DEF Init
      <3>2. dragged \in BOOLEAN /\ crowded \in BOOLEAN /\ pending \in BOOLEAN /\ slipped \in BOOLEAN
        BY Zenon DEF Init
      <3>3. /\ touchdown_y = 0 /\ tA_last_value = 0 /\ last_value = 0 /\ deltamove = 0
            /\ off = 0
        BY DEF Init
      <3> QED BY <3>1, <3>2, <3>3 DEF TouchTypes
    <2> QED BY <2>1, <2>2, TwoTypes
  <1>2. SignInInv
    BY DEF Init, SignInInv, SignedInAsOwn
  <1>3. TouchInv
    BY DEF Init, TouchInv, Shown, Rested, Alone, Held, Limited
  <1> QED BY <1>1, <1>2, <1>3 DEF IInv

LEMMA NothingReadTyped ==
    ASSUME NEW buffer, NEW empty, NEW b \in NothingRead(buffer, empty)
    PROVE  b = buffer \/ b = empty
  BY DEF NothingRead

LEMMA SignInStep ==
    ASSUME SignInTypes, SignInInv, SignIn
    PROVE  SignInTypes' /\ SignInInv'
  <1> USE DEF SignInTypes, SignInInv, SignedInAsOwn, Ids
  <1>1. CASE Certify
    BY <1>1 DEF Certify
  <1>2. CASE FiveSeconds
    <2>1. slow' \in BOOLEAN /\ (~slow' => http = "done")
      <3>1. slow' = (http # "done")
        BY <1>2 DEF FiveSeconds
      <3> QED BY <3>1, Zenon
    <2> QED BY <1>2, <2>1 DEF FiveSeconds
  <1>3. CASE LoginOffline
    BY <1>3 DEF LoginOffline
  <1>4. CASE LoginOnline
    BY <1>4 DEF LoginOnline
  <1>5. CASE ParseCheck
    <2>1. check' \in {"0", "1", "other"} /\ good' \in BOOLEAN
      BY <1>5, NothingReadTyped DEF ParseCheck
    <2> QED BY <1>5, <2>1 DEF ParseCheck
  <1>6. CASE ParseMessage
    <2>1. good' \in BOOLEAN /\ (good' => good)
      <3>1. CASE good' = FALSE
        BY <3>1, Zenon
      <3>2. CASE good' = good
        BY <3>2, Zenon
      <3> QED BY <1>6, <3>1, <3>2 DEF ParseMessage
    <2> QED BY <1>6, <2>1 DEF ParseMessage
  <1>7. CASE ParseUserID
    <2>1. userID' \in Ids /\ good' \in BOOLEAN /\ (good' => userID' = "own")
      BY <1>7, NothingReadTyped DEF ParseUserID
    <2> QED BY <1>7, <2>1 DEF ParseUserID
  <1>8. CASE NoAnswer
    BY <1>8 DEF NoAnswer
  <1> QED BY <1>1, <1>2, <1>3, <1>4, <1>5, <1>6, <1>7, <1>8 DEF SignIn

LEMMA TouchTypesStep ==
    ASSUME TouchTypes, Touch \/ Update
    PROVE  TouchTypes'
  <1> USE DEF TouchTypes
  <1>1. ASSUME NEW f \in Fingers, touchDown(f) PROVE TouchTypes'
    <2>1. PICK y \in Ys : /\ ys' = [ys EXCEPT ![f] = y] /\ touchdown_y' = y
                          /\ IF down = {} THEN touched' = [y |-> y, off |-> off] /\ dragged' = FALSE
                             ELSE UNCHANGED <<touched, dragged>>
      BY <1>1 DEF touchDown
    <2>2. y \in Int
      BY TestAppAssumption
    <2>3. dragged' \in BOOLEAN
      BY <2>1
    <2>4. crowded' \in BOOLEAN
      BY <1>1 DEF touchDown
    <2>5. touched' \in [y : Int, off : Int] /\ touchdown_y' \in Int /\ ys' \in [Fingers -> Int]
      BY <2>1, <2>2
    <2>6. /\ down' \subseteq Fingers
          /\ UNCHANGED <<tA_last_value, last_value, deltamove, off, pending, slipped>>
      BY <1>1 DEF touchDown
    <2> QED BY <2>3, <2>4, <2>5, <2>6
  <1>2. ASSUME NEW f \in Fingers, touchMoved(f) PROVE TouchTypes'
    BY <1>2, TestAppAssumption DEF touchMoved
  <1>3. ASSUME NEW f \in Fingers, touchUp(f) PROVE TouchTypes'
    <2>1. slipped' \in BOOLEAN
      BY <1>3 DEF touchUp
    <2>2. /\ down' \subseteq Fingers /\ ys' \in [Fingers -> Int] /\ tA_last_value' \in Int
          /\ UNCHANGED <<touchdown_y, last_value, deltamove, off, touched, dragged, crowded, pending>>
      BY <1>3 DEF touchUp
    <2> QED BY <2>1, <2>2
  <1>4. CASE Update
    <2>1. off' \in Int
      <3>1. last_value + deltamove \in Int
        OBVIOUS
      <3> QED BY <1>4, <3>1, LimitedTyped DEF Update
    <2>2. pending' \in BOOLEAN
      BY <1>4 DEF Update
    <2>3. UNCHANGED <<down, ys, touchdown_y, tA_last_value, last_value, deltamove, touched, dragged,
                      crowded, slipped>>
      BY <1>4 DEF Update
    <2> QED BY <2>1, <2>2, <2>3
  <1> QED BY <1>1, <1>2, <1>3, <1>4 DEF Touch

LEMMA TouchStep ==
    ASSUME TouchTypes, TouchInv, Touch \/ Update
    PROVE  TouchInv'
  <1> USE DEF TouchInv, Shown, Rested, Alone, Held, TouchTypes
  <1>1. ASSUME NEW f \in Fingers, touchDown(f) PROVE TouchInv'
    <2>1. PICK y \in Ys : /\ ys' = [ys EXCEPT ![f] = y] /\ touchdown_y' = y
                          /\ IF down = {} THEN touched' = [y |-> y, off |-> off] /\ dragged' = FALSE
                             ELSE UNCHANGED <<touched, dragged>>
      BY <1>1 DEF touchDown
    <2>2. /\ down' = down \cup {f} /\ (crowded' <=> down # {})
          /\ UNCHANGED <<tA_last_value, last_value, deltamove, off, pending, slipped>>
      BY <1>1 DEF touchDown
    <2>3. CASE down = {}
      BY <2>1, <2>2, <2>3
    <2>4. CASE down # {}
      BY <2>2, <2>4
    <2> QED BY <2>3, <2>4
  <1>2. ASSUME NEW f \in Fingers, touchMoved(f) PROVE TouchInv'
    <2>1. PICK y \in Ys : /\ ys' = [ys EXCEPT ![f] = y]
                          /\ last_value' = tA_last_value /\ deltamove' = y - touchdown_y
      BY <1>2 DEF touchMoved
    <2>2. /\ f \in down /\ ys'[f] = y /\ dragged' /\ pending'
          /\ UNCHANGED <<down, touchdown_y, tA_last_value, off, touched, crowded, slipped>>
      BY <1>2, <2>1 DEF touchMoved
    <2> QED BY <2>1, <2>2
  <1>3. ASSUME NEW f \in Fingers, touchUp(f) PROVE TouchInv'
    <2>1. /\ f \in down /\ down' = down \ {f} /\ tA_last_value' = off
          /\ UNCHANGED <<last_value, deltamove, off, pending, crowded>>
      BY <1>3 DEF touchUp
    <2>2. ~slipped' => ~pending'
      BY <1>3 DEF touchUp
    <2>3. ~crowded' => down' = {}
      BY <2>1
    <2> QED BY <2>1, <2>2, <2>3
  <1>4. CASE Update
    <2>1. /\ off' = Limited(last_value + deltamove) /\ ~pending'
          /\ UNCHANGED <<down, ys, touchdown_y, tA_last_value, last_value, deltamove, touched,
                         dragged, crowded, slipped>>
      BY <1>4 DEF Update
    <2> QED BY <2>1
  <1> QED BY <1>1, <1>2, <1>3, <1>4 DEF Touch

LEMMA StepInv == ASSUME IInv, [Next]_vars PROVE IInv'
  <1>1. SignInTypes /\ TouchTypes /\ SignInInv /\ TouchInv
    BY TwoTypes DEF IInv
  <1>2. SUFFICES SignInTypes' /\ TouchTypes' /\ SignInInv' /\ TouchInv'
    BY TwoTypes DEF IInv, TypeOK, SignInTypes, TouchTypes
  <1>3. CASE SignIn
    <2>1. UNCHANGED touchVars
      BY <1>3 DEF SignIn, Certify, FiveSeconds, LoginOffline, LoginOnline, ParseCheck, ParseMessage,
                  ParseUserID, NoAnswer
    <2>2. TouchTypes' /\ TouchInv'
      BY <1>1, <2>1 DEF touchVars, TouchTypes, TouchInv, Shown, Rested, Alone, Held
    <2> QED BY <1>1, <1>3, <2>2, SignInStep
  <1>4. CASE Touch \/ Update
    <2>1. UNCHANGED signInVars
      BY <1>4 DEF Touch, touchDown, touchMoved, touchUp, Update
    <2>2. SignInTypes' /\ SignInInv'
      BY <1>1, <2>1 DEF signInVars, SignInTypes, SignInInv, SignedInAsOwn
    <2> QED BY <1>1, <1>4, <2>2, TouchTypesStep, TouchStep
  <1>5. CASE UNCHANGED vars
    BY <1>1, <1>5
    DEF vars, signInVars, touchVars, SignInTypes, TouchTypes, SignInInv, SignedInAsOwn, TouchInv,
        Shown, Rested, Alone, Held
  <1> QED BY <1>3, <1>4, <1>5 DEF Next

THEOREM TestAppInvariant == Spec => []IInv
  BY InitInv, StepInv, PTL DEF Spec

\* TypeOK
THEOREM TestAppTypeCorrect == Spec => []TypeOK
  <1>1. IInv => TypeOK
    BY DEF IInv
  <1> QED BY <1>1, TestAppInvariant, PTL

\* SignedInAsOwn: whatever the heap held, wherever parseData() is when update() looks, and
\* whichever read of it fails.
THEOREM SignsInAsOwn == Spec => []SignedInAsOwn
  <1>1. IInv => SignedInAsOwn
    BY DEF IInv, SignInInv
  <1> QED BY <1>1, TestAppInvariant, PTL

\* FollowsFinger: for every history of touches, of any number of fingers.
THEOREM ListFollowsFinger == Spec => []FollowsFinger
  <1>1. ASSUME IInv PROVE FollowsFinger
    <2>1. SUFFICES ASSUME NEW f \in Fingers, down = {f}, ~crowded, ~pending, ~slipped
                   PROVE  off = IF dragged THEN Limited(touched.off + ys[f] - touched.y)
                                ELSE touched.off
      BY DEF FollowsFinger
    <2>2. /\ off = Limited(last_value + deltamove)
          /\ tA_last_value = touched.off /\ touchdown_y = touched.y
          /\ dragged => last_value = tA_last_value /\ deltamove = ys[f] - touchdown_y
          /\ ~dragged => off = touched.off
      BY <1>1, <2>1 DEF IInv, TouchInv, Shown, Held
    <2>3. touched.off + (ys[f] - touched.y) = touched.off + ys[f] - touched.y
      BY <1>1 DEF IInv, TypeOK
    <2> QED BY <2>2, <2>3
  <1> QED BY <1>1, TestAppInvariant, PTL

\* RestsWithoutFinger
THEOREM ListRests == Spec => RestsWithoutFinger
  <1>1. ASSUME IInv, [Next]_vars
        PROVE  [down = {} /\ ~pending => off' = off]_vars
    <2>1. CASE Update
      BY <1>1, <2>1 DEF IInv, TouchInv, Shown, Update
    <2>2. CASE SignIn \/ Touch \/ UNCHANGED vars
      BY <2>2 DEF SignIn, Certify, FiveSeconds, LoginOffline, LoginOnline, ParseCheck, ParseMessage,
                  ParseUserID, NoAnswer, Touch, touchDown, touchMoved, touchUp, vars, touchVars
    <2> QED BY <1>1, <2>1, <2>2 DEF Next
  <1> QED BY <1>1, TestAppInvariant, PTL DEF Spec, RestsWithoutFinger
=============================================================================
