----------------------------- MODULE FriendsView -----------------------------
(***************************************************************************)
(* dbConnect::parseData() on an answer of returnDataFromFriends.php (type  *)
(* '4') and the lines of the friends it keeps in myLinesCollection_.  It   *)
(* runs on the HTTP thread, while draw() reads the lines on the main       *)
(* thread: each line is written in a step of its own, and the properties   *)
(* speak of what draw() may find at any moment.                            *)
(*                                                                         *)
(* Every field of the answer is read by getline(buffer, 20).  A field of   *)
(* 20 characters or more, or the end of a truncated answer, makes the      *)
(* stream fail, and no later field is read.  What such a read leaves in    *)
(* the buffer depends on the C++ library: an empty string or what was      *)
(* there.                                                                  *)
(*                                                                         *)
(* tag stands for dotTag_ and dotLoudness_, which are written together.    *)
(* num_friends and changedTagFalg are left out: nothing reads them.        *)
(***************************************************************************)
EXTENDS Integers, Sequences

CONSTANTS
    Ids,            \* ids of the friends; the server has no user 0
    Tags, Statuses, \* what the server tells of them
    MaxFriends,     \* bound: friends in an answer
    Failing,        \* whether reading an answer may fail half-way
    Empties,        \* whether a failed read empties the buffer: {TRUE}, {FALSE} or both
    Garbage         \* numbers the uninitialised buffers may spell

ASSUME FriendsAssumption ==
    /\ Ids \subseteq Int /\ 0 \notin Ids
    /\ Tags \subseteq Int /\ Statuses \subseteq Int /\ Garbage \subseteq Int
    /\ MaxFriends \in Nat
    /\ Failing \in BOOLEAN /\ Empties \subseteq BOOLEAN

VARIABLES
    lines,      \* myLinesCollection_
    answer,     \* the friends in the answer that is parsed, or was parsed last
    good,       \* number of its fields that can be read, three per friend
    http,       \* where the HTTP thread is: "idle", "friend", "line" or "add"
    i, j,       \* the loop variables, from 1
    isPresent,
    buffer      \* frdUser_id, frdStatus and frdTag, as numbers

vars == <<lines, answer, good, http, i, j, isPresent, buffer>>

Friend == [id : Ids, status : Statuses, tag : Tags]
Answer ==
    UNION {{s \in [1..n -> Friend] : \A k, l \in 1..n : s[k].id = s[l].id => k = l} :
           n \in 0..MaxFriends}

\* ofToInt() of an empty string.
Blank == 0
AnyId     == Ids \cup Garbage \cup {Blank}
AnyTag    == Tags \cup Garbage \cup {Blank}
AnyStatus == Statuses \cup Garbage \cup {Blank}
Buffer == [id : AnyId, status : AnyStatus, tag : AnyTag]
Line   == [id : AnyId, status : AnyStatus, tag : AnyTag, rank : Nat]

Init ==
    /\ lines = <<>> /\ answer = <<>> /\ good = 0
    /\ http = "idle" /\ i = 1 /\ j = 1 /\ isPresent = FALSE
    /\ buffer = [id |-> Blank, status |-> Blank, tag |-> Blank]

-----------------------------------------------------------------------------
\* An answer arrives; the buffers are new local variables.
Arrive ==
    /\ http = "idle"
    /\ answer' \in Answer
    /\ good' \in IF Failing THEN 0..(3 * Len(answer')) ELSE {3 * Len(answer')}
    /\ \E g \in Garbage : buffer' = [id |-> g, status |-> g, tag |-> g]
    /\ i' = 1 /\ http' = "friend"
    /\ UNCHANGED <<lines, j, isPresent>>

\* parsing.getline(): the nth field of the answer, if the stream is still good.
Getline(nth, value, old, empties) ==
    IF nth <= good THEN value ELSE IF empties THEN Blank ELSE old

\* Mutant of ReadFriend: isPresent is declared outside the loop.
ReadFriendOnce ==
    /\ http = "friend" /\ i <= Len(answer)
    /\ \E e \in Empties :
        buffer' = [id     |-> Getline(3 * i - 2, answer[i].id, buffer.id, e),
                   status |-> Getline(3 * i - 1, answer[i].status, buffer.status, e),
                   tag    |-> Getline(3 * i, answer[i].tag, buffer.tag, e)]
    /\ j' = 1
    /\ isPresent' = (isPresent /\ i > 1)
    /\ http' = IF lines # <<>> THEN "line" ELSE "add"
    /\ UNCHANGED <<lines, answer, good, i>>

\* The fields of the next friend, then the look for the friend's line.
ReadFriend ==
    /\ http = "friend" /\ i <= Len(answer)
    /\ \E e \in Empties :
        buffer' = [id     |-> Getline(3 * i - 2, answer[i].id, buffer.id, e),
                   status |-> Getline(3 * i - 1, answer[i].status, buffer.status, e),
                   tag    |-> Getline(3 * i, answer[i].tag, buffer.tag, e)]
    /\ j' = 1 /\ isPresent' = FALSE
    /\ http' = IF lines # <<>> THEN "line" ELSE "add"
    /\ UNCHANGED <<lines, answer, good, i>>

\* Mutant of Refresh: the tag, too, goes to every line.
RefreshAll(line) ==
    [id |-> line.id, rank |-> j + 1, status |-> buffer.status, tag |-> buffer.tag]

\* What becomes of the jth line: rank and status whoever it is of, the tag if it is the
\* friend's.
Refresh(line) ==
    [id |-> line.id, rank |-> j + 1, status |-> buffer.status,
     tag |-> IF line.id = buffer.id THEN buffer.tag ELSE line.tag]

VisitLine ==
    /\ http = "line" /\ j <= Len(lines)
    /\ lines' = [lines EXCEPT ![j] = Refresh(@)]
    /\ isPresent' = (isPresent \/ lines[j].id = buffer.id)
    /\ j' = j + 1
    /\ UNCHANGED <<answer, good, http, i, buffer>>

\* The friend has a line: on to the next friend.
LinesVisited ==
    /\ http = "line" /\ j > Len(lines) /\ isPresent
    /\ http' = "friend" /\ i' = i + 1
    /\ UNCHANGED <<lines, answer, good, j, isPresent, buffer>>

\* Mutant of NewRank: counted from 1.
NewRankLow == Len(lines) + 1

NewRank == Len(lines) + 2

\* The friend has none, whether or not there are others.
AddLine ==
    /\ \/ http = "add"
       \/ http = "line" /\ j > Len(lines) /\ ~isPresent
    /\ lines' = Append(lines, [id |-> buffer.id, status |-> buffer.status,
                               tag |-> buffer.tag, rank |-> NewRank])
    /\ http' = "friend" /\ i' = i + 1
    /\ UNCHANGED <<answer, good, j, isPresent, buffer>>

\* All friends are dealt with, and parseData() returns.
Parsed ==
    /\ http = "friend" /\ i > Len(answer)
    /\ http' = "idle"
    /\ UNCHANGED <<lines, answer, good, i, j, isPresent, buffer>>

Next == Arrive \/ ReadFriend \/ VisitLine \/ LinesVisited \/ AddLine \/ Parsed

Spec == Init /\ [][Next]_vars

-----------------------------------------------------------------------------
TypeOK ==
    /\ lines \in Seq(Line) /\ answer \in Seq(Friend)
    /\ good \in Nat /\ i \in Nat \ {0} /\ j \in Nat \ {0}
    /\ http \in {"idle", "friend", "line", "add"}
    /\ isPresent \in BOOLEAN /\ buffer \in Buffer

\* At no moment does draw() find two lines of one friend, or two lines at one height: the height
\* of a line follows from its rank (t_lines::vPos).  (dbConnect::parseData)
LinesApart ==
    \A k, l \in 1..Len(lines) :
        k < l => lines[k].id # lines[l].id /\ lines[k].rank < lines[l].rank

\* The entry the HTTP thread holds and no line shows yet.
News ==
    IF http = "add" \/ (http = "line" /\ ~isPresent)
    THEN {[id |-> buffer.id, tag |-> buffer.tag]} ELSE {}

Book == INSTANCE FriendsBook WITH
            Id <- AnyId, Tag <- AnyTag, news <- News,
            book <- [k \in 1..Len(lines) |-> [id |-> lines[k].id, tag |-> lines[k].tag]]

\* For the tags the two loops are a book of friends: every friend read from the answer is
\* entered, a line changes its tag only for what the server told of that friend, and no line is
\* removed or changes its place.  (dbConnect::parseData)
ImplementsBook == Book!Spec

\* After an answer that could be read to its end, all its friends are on the screen with the
\* tags it told, whatever became of earlier answers.  (dbConnect::parseData)
AnswerShown ==
    http = "idle" /\ good = 3 * Len(answer) =>
        \A f \in 1..Len(answer) :
            \E k \in 1..Len(lines) : lines[k].id = answer[f].id /\ lines[k].tag = answer[f].tag

\* "if freind is on the dotcollection_ then updates his tag/volume/status" (dbConnect.mm:291):
\* his status, and nobody else's, so a friend listed in the answer is shown with his own.
StatusIsOwn ==
    http = "idle" =>
        \A f \in 1..Len(answer), k \in 1..Len(lines) :
            lines[k].id = answer[f].id => lines[k].status = answer[f].status
=============================================================================
