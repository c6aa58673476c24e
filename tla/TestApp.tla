------------------------------ MODULE TestApp -------------------------------
(***************************************************************************)
(* testApp between launch and log-in, and the list under the finger.       *)
(*                                                                         *)
(* update() asks the server once whether the user is known, waits for five *)
(* seconds and then looks, in every frame, at the buffer check that the    *)
(* HTTP thread fills in parseData() before it fills userID, line by line   *)
(* of an answer that may end early or have lines too long for the buffers. *)
(* Touches, of several fingers that are not told apart, set what           *)
(* dbConnect::update(), which runs after log-in only, makes the offset of  *)
(* the list of.                                                            *)
(*                                                                         *)
(* TagPipeline has what happens to the forms, and to the status when the   *)
(* app leaves the foreground: here it stays there, and the status is what  *)
(* the check in setup() found.                                             *)
(***************************************************************************)
EXTENDS Integers

CONSTANTS
    BootCheck,  \* values the never-initialised check[0] may hold
    Empties,    \* whether a failed read empties the buffer: {TRUE}, {FALSE} or both
    Fingers,    \* that touch the screen
    Ys,         \* positions of a finger on the screen
    MaxScroll   \* bound: how far the list is dragged upwards

ASSUME TestAppAssumption ==
    /\ BootCheck \subseteq {"0", "1", "other"} /\ Empties \subseteq BOOLEAN
    /\ Ys \subseteq Int /\ MaxScroll \in Nat

VARIABLES
    online,         \* the status at the end of setup() was 1
    signin,         \* "signedup", "requesting", or "login"
    waited,         \* the five seconds are over
    check,          \* check[0]
    userID,         \* the buffer: the id the server sent ("own"), a part of it, nothing, or
                    \* what the heap held
    good,           \* no read of parsingForCertification has failed
    http,           \* where parseData() is: "check", "message", "userID", "done" or "lost"
    userId,         \* Myself.userId_
    down, ys,       \* the fingers on the screen, and where each was seen last; 0 if it is not there
    touchdown_y, tA_last_value,         \* testApp
    last_value, deltamove, off,         \* dbConnect
    touched,        \* history: where the first finger of this touch came down, and the list was
    dragged,        \* history: this touch has moved
    crowded,        \* history: this touch is one of several fingers
    pending,        \* history: there was a movement after the last update()
    slipped,        \* history: the last touch ended before its movement was shown
    slow            \* history: the five seconds were over before the answer was parsed

signInVars == <<online, signin, waited, check, userID, good, http, userId, slow>>
touchVars  == <<down, ys, touchdown_y, tA_last_value, last_value, deltamove, off, touched, dragged,
                crowded, pending, slipped>>
vars == <<signInVars, touchVars>>

Init ==
    /\ online \in BOOLEAN /\ signin = "signedup" /\ waited = FALSE
    /\ check \in BootCheck /\ userID = "heap" /\ good = TRUE /\ http = "idle"
    /\ userId = "heap" /\ slow = FALSE
    /\ down = {} /\ ys = [f \in Fingers |-> 0] /\ touchdown_y = 0 /\ tA_last_value = 0
    /\ last_value = 0 /\ deltamove = 0 /\ off = 0
    /\ touched = [y |-> 0, off |-> 0] /\ dragged = FALSE /\ crowded = FALSE
    /\ pending = FALSE /\ slipped = FALSE

-----------------------------------------------------------------------------
(* Sign-in: update() of the main thread, parseData() of the HTTP thread *)

\* certifyUser(): the form is on its way, the five seconds begin.
Certify ==
    /\ signin = "signedup" /\ signin' = "requesting"
    /\ http' = "check"
    /\ UNCHANGED <<online, waited, check, userID, good, userId, slow, touchVars>>

FiveSeconds ==
    /\ signin = "requesting" /\ ~waited /\ waited' = TRUE
    /\ slow' = (http # "done")
    /\ UNCHANGED <<online, signin, check, userID, good, http, userId, touchVars>>

\* Offline: the hard-coded id.
LoginOffline ==
    /\ signin = "requesting" /\ waited /\ ~online
    /\ signin' = "login" /\ userId' = "hardcoded"
    /\ UNCHANGED <<online, waited, check, userID, good, http, slow, touchVars>>

\* Mutant of LoginOnline: without the five seconds.
LoginOnlineAtOnce ==
    /\ signin = "requesting" /\ online /\ check = "1"
    /\ signin' = "login" /\ userId' = userID
    /\ UNCHANGED <<online, waited, check, userID, good, http, slow, touchVars>>

\* Mutant of LoginOnline: the wrong one of the two buffers.
LoginOnlineCheck ==
    /\ signin = "requesting" /\ waited /\ online /\ check = "1"
    /\ signin' = "login" /\ userId' = check
    /\ UNCHANGED <<online, waited, check, userID, good, http, slow, touchVars>>

\* Online: if check[0] is '1', with the id in userID.  With '0' it keeps asking.
LoginOnline ==
    /\ signin = "requesting" /\ waited /\ online /\ check = "1"
    /\ signin' = "login" /\ userId' = userID
    /\ UNCHANGED <<online, waited, check, userID, good, http, slow, touchVars>>

\* A buffer after a getline() that found nothing to read: emptied or left alone.
NothingRead(buffer, empty) == {IF empties THEN empty ELSE buffer : empties \in Empties}

\* The answer to the form: its second line goes to check, ...
ParseCheck ==
    /\ http = "check" /\ http' = "message"
    /\ \/ check' \in {"0", "1"} /\ good' \in BOOLEAN
       \/ check' \in NothingRead(check, "other") /\ good' = FALSE
    /\ UNCHANGED <<online, signin, waited, userID, userId, slow, touchVars>>

\* ... the next to message, of 20 characters with the final zero, ...
ParseMessage ==
    /\ http = "message"
    /\ http' = IF check = "1" THEN "userID" ELSE "done"
    /\ good' \in {FALSE, good}
    /\ UNCHANGED <<online, signin, waited, check, userID, userId, slow, touchVars>>

\* ... and the last, if there is one, to userID; neither of them once a read has failed, as
\* that of a line too long for its buffer does after filling it.
ParseUserID ==
    /\ http = "userID" /\ http' = "done"
    /\ \/ good /\ userID' = "own" /\ UNCHANGED good
       \/ good /\ userID' = "part" /\ good' = FALSE
       \/ userID' \in NothingRead(userID, "empty") /\ good' = FALSE
    /\ UNCHANGED <<online, signin, waited, check, userId, slow, touchVars>>

\* The POST fails: there is no answer.
NoAnswer ==
    /\ http = "check" /\ http' = "lost"
    /\ UNCHANGED <<online, signin, waited, check, userID, good, userId, slow, touchVars>>

-----------------------------------------------------------------------------
(* Touches and dbConnect::update(), all of the main thread *)

touchDown(f) ==
    /\ f \notin down /\ down' = down \cup {f}
    /\ \E y \in Ys :
          /\ ys' = [ys EXCEPT ![f] = y] /\ touchdown_y' = y
          /\ IF down = {} THEN touched' = [y |-> y, off |-> off] /\ dragged' = FALSE
             ELSE UNCHANGED <<touched, dragged>>
    /\ crowded' = (down # {})
    /\ UNCHANGED <<tA_last_value, last_value, deltamove, off, pending, slipped, signInVars>>

touchMoved(f) ==
    /\ f \in down
    /\ \E y \in Ys \ {ys[f]} :
          /\ tA_last_value + y - touchdown_y >= -MaxScroll
          /\ ys' = [ys EXCEPT ![f] = y]
          /\ last_value' = tA_last_value /\ deltamove' = y - touchdown_y
    /\ dragged' = TRUE /\ pending' = TRUE
    /\ UNCHANGED <<down, touchdown_y, tA_last_value, off, touched, crowded, slipped, signInVars>>

\* Mutant of touchUp: what the movement was computed from is kept.
touchUpKeeps(f) ==
    /\ f \in down /\ down' = down \ {f} /\ ys' = [ys EXCEPT ![f] = 0]
    /\ tA_last_value' = last_value
    /\ slipped' = pending
    /\ UNCHANGED <<touchdown_y, last_value, deltamove, off, touched, dragged, crowded, pending,
                   signInVars>>

\* The offset of the last update() is where the next movement starts from.  A touch the system
\* takes away ends so too: EAGLView follows touchCancelled(), which does nothing, by touchUp().
touchUp(f) ==
    /\ f \in down /\ down' = down \ {f} /\ ys' = [ys EXCEPT ![f] = 0]
    /\ tA_last_value' = off
    /\ slipped' = pending
    /\ UNCHANGED <<touchdown_y, last_value, deltamove, off, touched, dragged, crowded, pending,
                   signInVars>>

\* Not below the top of the list.
Limited(offset) == IF offset > 0 THEN 0 ELSE offset

\* Mutant of Update: the movement is added to the offset.
UpdateAdds ==
    /\ signin = "login"
    /\ off' = (IF off <= -MaxScroll THEN off ELSE Limited(off + deltamove)) /\ pending' = FALSE
    /\ UNCHANGED <<down, ys, touchdown_y, tA_last_value, last_value, deltamove, touched, dragged,
                   crowded, slipped, signInVars>>

\* The end of dbConnect::update().
Update ==
    /\ signin = "login"
    /\ off' = Limited(last_value + deltamove) /\ pending' = FALSE
    /\ UNCHANGED <<down, ys, touchdown_y, tA_last_value, last_value, deltamove, touched, dragged,
                   crowded, slipped, signInVars>>

SignIn ==
    \/ Certify \/ FiveSeconds \/ LoginOffline \/ LoginOnline
    \/ ParseCheck \/ ParseMessage \/ ParseUserID \/ NoAnswer
Touch == \E f \in Fingers : touchDown(f) \/ touchMoved(f) \/ touchUp(f)

Next == SignIn \/ Touch \/ Update

Spec == Init /\ [][Next]_vars

-----------------------------------------------------------------------------
Ids == {"heap", "own", "part", "empty"}

TypeOK ==
    /\ online \in BOOLEAN /\ signin \in {"signedup", "requesting", "login"} /\ waited \in BOOLEAN
    /\ check \in {"0", "1", "other"} /\ userID \in Ids
    /\ http \in {"idle", "check", "message", "userID", "done", "lost"}
    /\ userId \in Ids \cup {"hardcoded"}
    /\ down \subseteq Fingers /\ ys \in [Fingers -> Int] /\ touched \in [y : Int, off : Int]
    /\ {touchdown_y, tA_last_value, last_value, deltamove, off} \subseteq Int
    /\ {good, dragged, crowded, pending, slipped, slow} \subseteq BOOLEAN

\* Online, the user is signed in with the id the server sent, if the answer was there when the
\* five seconds were over and could be read to its end: neither the half-filled buffers nor what
\* the heap held can be taken for an answer then.  With a line missing or too long it can.
\* (testApp::update, dbConnect::parseData)
SignedInAsOwn == signin = "login" /\ online => userId = "own" \/ slow \/ ~good

\* The list moves with the finger from where it was, whatever was dragged before, by how many
\* fingers and however far over the top, unless the last touch ended before its movement was
\* shown.  Several fingers at once make it jump, but not beyond their touch.
\* (touchDown, touchMoved, touchUp, dbConnect::update)
FollowsFinger ==
    \A f \in Fingers :
        down = {f} /\ ~crowded /\ ~pending /\ ~slipped =>
            off = IF dragged THEN Limited(touched.off + ys[f] - touched.y) ELSE touched.off

\* Without a finger on it the list stays where it is, but for a movement not shown yet.
\* (dbConnect::update)
RestsWithoutFinger == [][down = {} /\ ~pending => off' = off]_vars
=============================================================================
