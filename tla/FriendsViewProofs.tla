-------------------------- MODULE FriendsViewProofs --------------------------
(***************************************************************************)
(* For any friends, answers and failing reads: the lines stay apart, the   *)
(* two loops of parseData() implement FriendsBook, and after an answer the *)
(* list shows what it said.                                                *)
(***************************************************************************)
EXTENDS FriendsView, TLAPS

\* Each line has its own id and the rank of its place.
Distinct == \A k, l \in 1..Len(lines) : lines[k].id = lines[l].id => k = l
Ranked   == \A k \in 1..Len(lines) : lines[k].rank = k + 1

\* isPresent says whether one of the lines visited is the friend's.
Visited ==
    /\ http = "add" => lines = <<>>
    /\ http = "line" =>
        /\ j <= Len(lines) + 1
        /\ isPresent <=> \E k \in 1..(j - 1) : lines[k].id = buffer.id

ViewInv == TypeOK /\ Distinct /\ Ranked /\ Visited

\* Before a line is added, no line is the friend's.
LEMMA NoLineYet ==
    ASSUME ViewInv, AddLine
    PROVE  \A k \in 1..Len(lines) : lines[k].id # buffer.id
  <1> USE DEF ViewInv, Visited
  <1>0. Len(lines) \in Nat /\ j \in Nat
    BY DEF TypeOK
  <1>1. CASE http = "add"
    BY <1>1
  <1>2. CASE http = "line" /\ j > Len(lines) /\ ~isPresent
    <2>1. j = Len(lines) + 1
      BY <1>0, <1>2
    <2>2. j - 1 = Len(lines)
      BY <1>0, <2>1
    <2> QED  BY <1>2, <2>2
  <1> QED  BY <1>1, <1>2 DEF AddLine

\* At first there are no lines.
LEMMA InitView == Init => ViewInv
  <1> SUFFICES ASSUME Init PROVE ViewInv
    OBVIOUS
  <1>1. buffer \in Buffer
    BY DEF Init, Buffer, AnyId, AnyStatus, AnyTag
  <1>2. TypeOK
    <2>1. <<>> \in Seq(Line) /\ <<>> \in Seq(Friend)
      OBVIOUS
    <2>2. /\ lines = <<>> /\ answer = <<>> /\ good = 0 /\ i = 1 /\ j = 1
          /\ http = "idle" /\ isPresent = FALSE
      BY DEF Init
    <2>3. isPresent \in BOOLEAN
      BY <2>2
    <2> QED  BY <1>1, <2>1, <2>2, <2>3 DEF TypeOK
  <1>3. lines = <<>> /\ http = "idle" /\ Len(lines) = 0
    BY DEF Init
  <1> QED  BY <1>2, <1>3 DEF ViewInv, Distinct, Ranked, Visited

\* Reading the fields of a friend, well or badly, gives numbers.
LEMMA ReadBuffer ==
    ASSUME TypeOK, ReadFriend
    PROVE  buffer' \in Buffer
  <1>1. answer[i] \in Friend
    BY DEF TypeOK, ReadFriend
  <1>2. PICK e \in Empties :
          buffer' = [id     |-> Getline(3 * i - 2, answer[i].id, buffer.id, e),
                     status |-> Getline(3 * i - 1, answer[i].status, buffer.status, e),
                     tag    |-> Getline(3 * i, answer[i].tag, buffer.tag, e)]
    BY DEF ReadFriend
  <1>3. /\ answer[i].id \in AnyId /\ buffer.id \in AnyId /\ Blank \in AnyId
        /\ answer[i].status \in AnyStatus /\ buffer.status \in AnyStatus /\ Blank \in AnyStatus
        /\ answer[i].tag \in AnyTag /\ buffer.tag \in AnyTag /\ Blank \in AnyTag
    BY <1>1 DEF TypeOK, Friend, Buffer, AnyId, AnyStatus, AnyTag
  <1>4. /\ Getline(3 * i - 2, answer[i].id, buffer.id, e) \in AnyId
        /\ Getline(3 * i - 1, answer[i].status, buffer.status, e) \in AnyStatus
        /\ Getline(3 * i, answer[i].tag, buffer.tag, e) \in AnyTag
    BY <1>3 DEF Getline
  <1> QED  BY <1>2, <1>4 DEF Buffer

\* A visit rewrites one line, which keeps its id.
LEMMA VisitedLines ==
    ASSUME ViewInv, VisitLine
    PROVE  /\ lines' \in Seq(Line) /\ Len(lines') = Len(lines)
           /\ \A k \in 1..Len(lines) :
                /\ lines'[k].id = lines[k].id
                /\ lines'[k].rank = k + 1
                /\ lines'[k].tag = IF k = j /\ lines[k].id = buffer.id
                                   THEN buffer.tag ELSE lines[k].tag
  <1> USE DEF ViewInv
  <1>1. /\ j \in 1..Len(lines) /\ lines \in Seq(Line) /\ buffer \in Buffer
        /\ lines' = [lines EXCEPT ![j] = Refresh(lines[j])]
    BY DEF VisitLine, TypeOK
  <1>2. lines[j] \in Line
    BY <1>1
  <1>3. /\ Refresh(lines[j]) \in Line
        /\ Refresh(lines[j]).id = lines[j].id
        /\ Refresh(lines[j]).rank = j + 1
        /\ Refresh(lines[j]).tag = IF lines[j].id = buffer.id THEN buffer.tag ELSE lines[j].tag
    <2>1. /\ (IF lines[j].id = buffer.id THEN buffer.tag ELSE lines[j].tag) \in AnyTag
          /\ j + 1 \in Nat /\ lines[j].id \in AnyId /\ buffer.status \in AnyStatus
      BY <1>1, <1>2 DEF Line, Buffer
    <2> QED  BY <2>1 DEF Refresh, Line
  <1>4. lines' \in Seq(Line) /\ Len(lines') = Len(lines)
    BY <1>1, <1>3
  <1>5. \A k \in 1..Len(lines) : lines'[k] = IF k = j THEN Refresh(lines[j]) ELSE lines[k]
    BY <1>1
  <1> QED  BY <1>3, <1>4, <1>5 DEF Ranked

\* The new line comes last; the others stay as they are.
LEMMA AddedLine ==
    ASSUME ViewInv, AddLine
    PROVE  /\ lines' \in Seq(Line) /\ Len(lines') = Len(lines) + 1
           /\ \A k \in 1..Len(lines) : lines'[k] = lines[k]
           /\ lines'[Len(lines) + 1].id = buffer.id
           /\ lines'[Len(lines) + 1].tag = buffer.tag
           /\ lines'[Len(lines) + 1].rank = Len(lines) + 2
  <1> DEFINE new == [id |-> buffer.id, status |-> buffer.status, tag |-> buffer.tag,
                     rank |-> NewRank]
  <1>1. lines \in Seq(Line) /\ new \in Line /\ lines' = Append(lines, new)
    BY DEF ViewInv, TypeOK, AddLine, Buffer, Line, NewRank
  <1>2. new.id = buffer.id /\ new.tag = buffer.tag /\ new.rank = Len(lines) + 2
    BY DEF NewRank
  <1> HIDE DEF new
  <1> QED  BY <1>1, <1>2

\* Every step keeps the invariant.
LEMMA NextKeepsView ==
    ASSUME ViewInv, [Next]_vars
    PROVE  ViewInv'
  <1> USE DEF ViewInv
  <1>1. CASE Arrive
    <2>1. answer' \in Seq(Friend)
      BY <1>1 DEF Arrive, Answer
    <2>2. good' \in Nat
      BY <1>1, <2>1 DEF Arrive
    <2>3. buffer' \in Buffer
      BY <1>1 DEF Arrive, Buffer, AnyId, AnyStatus, AnyTag
    <2> QED
      BY <1>1, <2>1, <2>2, <2>3 DEF Arrive, TypeOK, Distinct, Ranked, Visited
  <1>2. CASE ReadFriend
    <2>1. TypeOK'
      <3>1. buffer' \in Buffer
        BY <1>2, ReadBuffer
      <3>2. /\ lines' = lines /\ answer' = answer /\ good' = good /\ i' = i
            /\ j' = 1 /\ isPresent' = FALSE
            /\ http' \in {"line", "add"}
        BY <1>2 DEF ReadFriend
      <3>3. isPresent' \in BOOLEAN
        BY <3>2
      <3> QED  BY <3>1, <3>2, <3>3 DEF TypeOK
    <2>2. Distinct' /\ Ranked'
      BY <1>2 DEF ReadFriend, Distinct, Ranked
    <2>3. Visited'
      BY <1>2 DEF ReadFriend, Visited, TypeOK
    <2> QED  BY <2>1, <2>2, <2>3
  <1>3. CASE VisitLine
    <2>1. TypeOK'
      BY <1>3, VisitedLines DEF VisitLine, TypeOK
    <2>2. Distinct' /\ Ranked'
      BY <1>3, VisitedLines DEF Distinct, Ranked
    <2>3. /\ http' = "line" /\ j \in Nat \ {0} /\ Len(lines) \in Nat /\ j <= Len(lines)
          /\ j' = j + 1 /\ buffer' = buffer
          /\ isPresent' = (isPresent \/ lines[j].id = buffer.id)
      BY <1>3 DEF VisitLine, TypeOK
    <2>4. isPresent <=> \E k \in 1..(j - 1) : lines[k].id = buffer.id
      BY <1>3 DEF VisitLine, Visited
    <2>5. isPresent' <=> \E k \in 1..j : lines[k].id = buffer.id
      <3>1. \A k \in 1..j : k = j \/ k \in 1..(j - 1)
        BY <2>3
      <3>2. j \in 1..j /\ \A k \in 1..(j - 1) : k \in 1..j
        BY <2>3
      <3> QED  BY <2>3, <2>4, <3>1, <3>2
    <2>6. j' - 1 = j /\ \A k \in 1..j : lines'[k].id = lines[k].id
      BY <1>3, <2>3, VisitedLines
    <2>7. j' <= Len(lines') + 1
      BY <1>3, <2>3, VisitedLines
    <2>8. isPresent' <=> \E k \in 1..(j' - 1) : lines'[k].id = buffer'.id
      BY <2>3, <2>5, <2>6
    <2>9. Visited'
      BY <2>3, <2>7, <2>8 DEF Visited
    <2> QED  BY <2>1, <2>2, <2>9
  <1>4. CASE LinesVisited
    BY <1>4 DEF LinesVisited, TypeOK, Distinct, Ranked, Visited
  <1>5. CASE AddLine
    <2>1. TypeOK'
      BY <1>5, AddedLine DEF AddLine, TypeOK
    <2>2. Ranked'
      <3>1. Len(lines) \in Nat
        BY DEF TypeOK
      <3>2. \A k \in 1..Len(lines') : k = Len(lines) + 1 \/ k \in 1..Len(lines)
        BY <1>5, <3>1, AddedLine
      <3>3. \A k \in 1..Len(lines) : lines'[k].rank = k + 1
        BY <1>5, AddedLine DEF Ranked
      <3>4. lines'[Len(lines) + 1].rank = (Len(lines) + 1) + 1
        BY <1>5, <3>1, AddedLine
      <3> QED  BY <3>2, <3>3, <3>4 DEF Ranked
    <2>3. Distinct'
      <3>1. Len(lines) \in Nat
        BY DEF TypeOK
      <3> QED  BY <1>5, <3>1, AddedLine, NoLineYet DEF Distinct
    <2>4. Visited'
      BY <1>5 DEF AddLine, Visited
    <2> QED  BY <2>1, <2>2, <2>3, <2>4
  <1>6. CASE Parsed
    BY <1>6 DEF Parsed, TypeOK, Distinct, Ranked, Visited
  <1>7. CASE UNCHANGED vars
    BY <1>7 DEF vars, TypeOK, Distinct, Ranked, Visited
  <1> QED  BY <1>1, <1>2, <1>3, <1>4, <1>5, <1>6, <1>7 DEF Next

\* The invariant holds of every reachable state.
LEMMA ViewInvAlways == Spec => []ViewInv
  BY InitView, NextKeepsView, PTL DEF Spec

\* draw() never finds two lines of one friend, nor two lines at one height.
\* (dbConnect::parseData)
THEOREM LinesStayApart == Spec => []LinesApart
  <1>1. ViewInv => LinesApart
    BY DEF ViewInv, TypeOK, Distinct, Ranked, LinesApart
  <1> QED  BY <1>1, ViewInvAlways, PTL

-----------------------------------------------------------------------------
\* The book that the lines stand for.
Entries == [k \in 1..Len(lines) |-> [id |-> lines[k].id, tag |-> lines[k].tag]]

\* The book is a sequence of entries, as long as the lines.
LEMMA EntriesSeq ==
    ASSUME TypeOK
    PROVE  /\ Len(Entries) = Len(lines) /\ Entries \in Seq(Book!Entry)
           /\ \A k \in 1..Len(lines) : Entries[k] = [id |-> lines[k].id, tag |-> lines[k].tag]
  <1>1. Len(lines) \in Nat /\ \A k \in 1..Len(lines) : lines[k] \in Line
    BY DEF TypeOK
  <1> QED  BY <1>1 DEF Entries, Line, Book!Entry

\* What the HTTP thread holds is an entry.
LEMMA HeldEntry ==
    ASSUME TypeOK
    PROVE  [id |-> buffer.id, tag |-> buffer.tag] \in Book!Entry
  BY DEF TypeOK, Buffer, Book!Entry

\* Reading a friend is hearing of him.
LEMMA ReadImplements ==
    ASSUME ViewInv, ReadFriend
    PROVE  Book!Next
  <1> DEFINE entry == [id |-> buffer'.id, tag |-> buffer'.tag]
  <1>1. entry \in Book!Entry
    BY ReadBuffer DEF ViewInv, Buffer, Book!Entry
  <1>2. News = {} /\ News' = {entry} /\ Entries' = Entries
    BY DEF ReadFriend, News, Entries
  <1> QED  BY <1>1, <1>2 DEF Book!Next, Book!Hear, Entries

\* The visit that finds the friend's line learns his tag; any other changes nothing.
LEMMA VisitImplements ==
    ASSUME ViewInv, VisitLine
    PROVE  Book!Next \/ UNCHANGED <<Entries, News>>
  <1> USE DEF ViewInv
  <1> DEFINE entry == [id |-> buffer.id, tag |-> buffer.tag]
  <1>1. j \in 1..Len(lines) /\ Len(lines) \in Nat
    BY DEF VisitLine, TypeOK
  <1>2. CASE lines[j].id = buffer.id
    <2>1. \A k \in 1..Len(lines) : lines[k].id = buffer.id <=> k = j
      BY <1>1, <1>2 DEF Distinct
    <2>2. ~isPresent
      <3>1. \A k \in 1..(j - 1) : k \in 1..Len(lines) /\ k # j
        BY <1>1
      <3> QED  BY <2>1, <3>1 DEF VisitLine, Visited
    <2>3. News = {entry} /\ News' = {}
      BY <1>2, <2>2 DEF VisitLine, News
    <2>4. Book!Known(entry.id)
      BY <1>1, <1>2, EntriesSeq DEF Book!Known, Entries
    <2>5. Entries' = [k \in 1..Len(lines) |->
                        IF lines[k].id = buffer.id THEN [id |-> buffer.id, tag |-> buffer.tag]
                        ELSE [id |-> lines[k].id, tag |-> lines[k].tag]]
      BY <1>2, <2>1, VisitedLines DEF Entries
    <2>6. Entries' = [k \in 1..Len(Entries) |->
                        IF Entries[k].id = entry.id THEN entry ELSE Entries[k]]
      BY <2>5, EntriesSeq
    <2> HIDE DEF entry
    <2> QED  BY <2>3, <2>4, <2>6, HeldEntry
             DEF Book!Next, Book!Learn, Book!Known, Entries, entry
  <1>3. CASE lines[j].id # buffer.id
    <2>1. Entries' = Entries
      BY <1>3, VisitedLines DEF Entries
    <2>2. buffer' = buffer /\ http' = http /\ (isPresent' <=> isPresent)
      BY <1>3 DEF VisitLine, TypeOK
    <2>3. News' = News
      BY <2>2 DEF News
    <2> QED  BY <2>1, <2>3
  <1> QED  BY <1>2, <1>3

\* Adding a line learns of a friend who was not known.
LEMMA AddLineImplements ==
    ASSUME ViewInv, AddLine
    PROVE  Book!Next
  <1> USE DEF ViewInv
  <1> DEFINE entry == [id |-> buffer.id, tag |-> buffer.tag]
  <1>1. ~Book!Known(entry.id)
    BY NoLineYet, EntriesSeq DEF Book!Known, Entries
  <1>2. Len(lines) \in Nat /\ Entries \in Seq(Book!Entry) /\ Len(Entries) = Len(lines)
    BY EntriesSeq DEF TypeOK
  <1>3. Entries' = [k \in 1..(Len(lines) + 1) |-> IF k = Len(lines) + 1 THEN entry ELSE Entries[k]]
    <2>1. Entries' = [k \in 1..(Len(lines) + 1) |-> [id |-> lines'[k].id, tag |-> lines'[k].tag]]
      BY AddedLine DEF Entries
    <2>2. \A k \in 1..(Len(lines) + 1) :
            [id |-> lines'[k].id, tag |-> lines'[k].tag]
              = IF k = Len(lines) + 1 THEN entry ELSE Entries[k]
      BY <1>2, AddedLine, EntriesSeq
    <2> QED  BY <2>1, <2>2
  <1>4. Append(Entries, entry)
          = [k \in 1..(Len(lines) + 1) |-> IF k = Len(lines) + 1 THEN entry ELSE Entries[k]]
    BY <1>2
  <1>5. Entries' = Append(Entries, entry)
    BY <1>3, <1>4
  <1>6. News = {entry} /\ News' = {}
    BY DEF AddLine, News
  <1> HIDE DEF entry
  <1> QED  BY <1>1, <1>5, <1>6, HeldEntry DEF Book!Next, Book!Learn, Book!Known, Entries, entry

\* The loops of parseData() implement the book of friends: each friend read is entered, tags
\* never reach another friend's line, and no line disappears or moves, whatever the answers and
\* the failing reads.  (dbConnect::parseData)
THEOREM ViewImplementsBook == Spec => ImplementsBook
  <1>1. Init => Book!Init
    BY DEF Init, Book!Init, News
  <1>2. ViewInv /\ [Next]_vars => [Book!Next]_(Book!vars)
    <2> SUFFICES ASSUME ViewInv, [Next]_vars PROVE Book!Next \/ UNCHANGED Book!vars
      OBVIOUS
    <2>0. UNCHANGED <<Entries, News>> => UNCHANGED Book!vars
      BY DEF Entries, Book!vars
    <2>1. CASE VisitLine
      BY <2>0, <2>1, VisitImplements
    <2>2. CASE AddLine
      BY <2>2, AddLineImplements
    <2>3. CASE ReadFriend
      BY <2>3, ReadImplements
    <2>4. CASE Arrive \/ LinesVisited \/ Parsed \/ UNCHANGED vars
      <3>1. lines' = lines
        BY <2>4 DEF Arrive, LinesVisited, Parsed, vars
      <3>2. News' = News
        BY <2>4 DEF Arrive, LinesVisited, Parsed, vars, News
      <3> QED  BY <2>0, <3>1, <3>2 DEF Entries
    <2> QED  BY <2>1, <2>2, <2>3, <2>4 DEF Next
  <1> QED  BY <1>1, <1>2, ViewInvAlways, PTL DEF Spec, Book!Spec, ImplementsBook
-----------------------------------------------------------------------------
\* The friends before n have a line with the tag the answer told.
Shown(n) ==
    \A f \in 1..(n - 1) :
        \E k \in 1..Len(lines) : lines[k].id = answer[f].id /\ lines[k].tag = answer[f].tag

\* The answer names nobody twice, and i does not leave it.
Answering ==
    /\ \A f, g \in 1..Len(answer) : answer[f].id = answer[g].id => f = g
    /\ i <= Len(answer) + 1
    /\ http = "idle" => i = Len(answer) + 1
    /\ http \in {"line", "add"} => i <= Len(answer)

\* If all of the answer can be read, the friends before i are shown, the buffers hold the ith,
\* and a line of his that was visited has his tag.
Showing ==
    good = 3 * Len(answer) =>
        /\ Shown(i)
        /\ http \in {"line", "add"} => buffer.id = answer[i].id /\ buffer.tag = answer[i].tag
        /\ http = "line" =>
              \A k \in 1..(j - 1) : k <= Len(lines) /\ lines[k].id = buffer.id => lines[k].tag = buffer.tag

ShownInv == Answering /\ Showing

\* Nothing is shown and nothing is asked for at first.
LEMMA InitShown == Init => ShownInv
  BY DEF Init, ShownInv, Answering, Showing, Shown

\* The next friend is read from fields of the answer that can be read.
LEMMA ReadShows ==
    ASSUME ViewInv, ShownInv, ReadFriend
    PROVE  ShownInv'
  <1> USE DEF ViewInv, ShownInv
  <1>1. /\ lines' = lines /\ answer' = answer /\ good' = good /\ i' = i /\ j' = 1
        /\ http' \in {"line", "add"} /\ i <= Len(answer)
        /\ i \in Nat \ {0} /\ Len(answer) \in Nat /\ good \in Nat
    BY DEF ReadFriend, TypeOK
  <1>2. Answering'
    BY <1>1 DEF Answering
  <1>3. ASSUME good = 3 * Len(answer)
        PROVE  buffer'.id = answer[i].id /\ buffer'.tag = answer[i].tag
    <2>1. 3 * i - 2 <= good /\ 3 * i <= good
      BY <1>1, <1>3
    <2> QED  BY <2>1 DEF ReadFriend, Getline
  <1>4. Showing'
    BY <1>1, <1>3 DEF Showing, Shown
  <1> QED  BY <1>2, <1>4

\* A visit changes the tag of the friend's own line only, and no friend shown before is he.
LEMMA VisitShows ==
    ASSUME ViewInv, ShownInv, VisitLine
    PROVE  ShownInv'
  <1> USE DEF ViewInv, ShownInv
  <1>1. /\ answer' = answer /\ good' = good /\ i' = i /\ j' = j + 1 /\ buffer' = buffer
        /\ http = "line" /\ http' = "line" /\ i <= Len(answer)
        /\ i \in Nat \ {0} /\ j \in Nat \ {0} /\ Len(answer) \in Nat /\ j <= Len(lines)
        /\ Len(lines) \in Nat
    BY DEF VisitLine, TypeOK, Answering
  <1>2. Answering'
    BY <1>1 DEF Answering
  <1>3. ASSUME good = 3 * Len(answer)
        PROVE  /\ Shown(i)'
               /\ \A k \in 1..j : lines'[k].id = buffer.id => lines'[k].tag = buffer.tag
    <2>1. buffer.id = answer[i].id /\ buffer.tag = answer[i].tag /\ Shown(i)
      BY <1>1, <1>3 DEF Showing
    <2>2. ASSUME NEW f \in 1..(i - 1)
          PROVE  \E k \in 1..Len(lines') : lines'[k].id = answer[f].id /\ lines'[k].tag = answer[f].tag
      <3>1. PICK k \in 1..Len(lines) : lines[k].id = answer[f].id /\ lines[k].tag = answer[f].tag
        BY <2>1 DEF Shown
      <3>2. f \in 1..Len(answer) /\ i \in 1..Len(answer) /\ f # i
        BY <1>1
      <3>3. answer[f].id # buffer.id
        BY <2>1, <3>2 DEF Answering
      <3>4. lines'[k].id = answer[f].id /\ lines'[k].tag = answer[f].tag /\ k \in 1..Len(lines')
        BY <3>1, <3>3, VisitedLines
      <3> QED  BY <3>4
    <2>3. Shown(i)'
      BY <1>1, <2>2 DEF Shown
    <2>4. ASSUME NEW k \in 1..j, lines'[k].id = buffer.id
          PROVE  lines'[k].tag = buffer.tag
      <3>1. k \in 1..Len(lines) /\ (k = j \/ k \in 1..(j - 1))
        BY <1>1
      <3>2. lines[k].id = buffer.id
        BY <2>4, <3>1, VisitedLines
      <3>3. k \in 1..(j - 1) => lines[k].tag = buffer.tag
        BY <1>1, <1>3, <3>1, <3>2 DEF Showing
      <3> QED  BY <3>1, <3>2, <3>3, VisitedLines
    <2> QED  BY <2>3, <2>4
  <1>4. j' - 1 = j
    BY <1>1
  <1>5. Showing'
    BY <1>1, <1>3, <1>4, VisitedLines DEF Showing
  <1> QED  BY <1>2, <1>5

\* All lines were visited, and one was the friend's.
LEMMA FoundShows ==
    ASSUME ViewInv, ShownInv, LinesVisited
    PROVE  ShownInv'
  <1> USE DEF ViewInv, ShownInv
  <1>1. /\ lines' = lines /\ answer' = answer /\ good' = good /\ i' = i + 1 /\ j' = j
        /\ http = "line" /\ http' = "friend" /\ i <= Len(answer) /\ isPresent
        /\ i \in Nat \ {0} /\ j \in Nat \ {0} /\ Len(answer) \in Nat /\ Len(lines) \in Nat
        /\ j > Len(lines) /\ j <= Len(lines) + 1
    <2>1. /\ i \in Nat \ {0} /\ j \in Nat \ {0} /\ Len(answer) \in Nat /\ Len(lines) \in Nat
      BY DEF TypeOK
    <2> QED  BY <2>1 DEF LinesVisited, Answering, Visited
  <1>2. Answering'
    BY <1>1 DEF Answering
  <1>3. ASSUME good = 3 * Len(answer)
        PROVE  Shown(i + 1)
    <2>1. PICK k \in 1..(j - 1) : lines[k].id = buffer.id
      BY <1>1 DEF Visited
    <2>2. k \in 1..Len(lines)
      BY <1>1
    <2>3. lines[k].id = answer[i].id /\ lines[k].tag = answer[i].tag /\ Shown(i)
      BY <1>1, <1>3, <2>1, <2>2 DEF Showing
    <2>4. \A f \in 1..((i + 1) - 1) : f = i \/ f \in 1..(i - 1)
      BY <1>1
    <2> QED  BY <2>2, <2>3, <2>4 DEF Shown
  <1>4. Showing'
    BY <1>1, <1>3 DEF Showing, Shown
  <1> QED  BY <1>2, <1>4

\* The friend gets a line; the others keep theirs.
LEMMA AddShows ==
    ASSUME ViewInv, ShownInv, AddLine
    PROVE  ShownInv'
  <1> USE DEF ViewInv, ShownInv
  <1>1. /\ answer' = answer /\ good' = good /\ i' = i + 1
        /\ http \in {"line", "add"} /\ http' = "friend" /\ i <= Len(answer)
        /\ i \in Nat \ {0} /\ Len(answer) \in Nat /\ Len(lines) \in Nat
    BY DEF AddLine, TypeOK, Answering
  <1>2. Answering'
    BY <1>1 DEF Answering
  <1>3. ASSUME good = 3 * Len(answer)
        PROVE  Shown(i)'
    <2>1. buffer.id = answer[i].id /\ buffer.tag = answer[i].tag /\ Shown(i)
      BY <1>1, <1>3 DEF Showing
    <2>2. Len(lines) + 1 \in 1..Len(lines') /\ \A k \in 1..Len(lines) : k \in 1..Len(lines')
      BY <1>1, AddedLine
    <2>3. ASSUME NEW f \in 1..i
          PROVE  \E k \in 1..Len(lines') : lines'[k].id = answer[f].id /\ lines'[k].tag = answer[f].tag
      <3>1. CASE f = i
        BY <2>1, <2>2, <3>1, AddedLine
      <3>2. CASE f \in 1..(i - 1)
        <4>1. PICK k \in 1..Len(lines) : lines[k].id = answer[f].id /\ lines[k].tag = answer[f].tag
          BY <2>1, <3>2 DEF Shown
        <4> QED  BY <2>2, <4>1, AddedLine
      <3> QED  BY <1>1, <3>1, <3>2
    <2>4. i' - 1 = i
      BY <1>1
    <2> QED  BY <1>1, <2>3, <2>4 DEF Shown
  <1>4. Showing'
    BY <1>1, <1>3 DEF Showing, Shown
  <1> QED  BY <1>2, <1>4

\* Every step keeps it.
LEMMA NextShows ==
    ASSUME ViewInv, ShownInv, [Next]_vars
    PROVE  ShownInv'
  <1>1. CASE Arrive
    <2>1. /\ answer' \in Answer /\ i' = 1 /\ http' = "friend"
      BY <1>1 DEF Arrive
    <2>2. PICK n \in 0..MaxFriends :
            /\ answer' \in [1..n -> Friend]
            /\ \A k, l \in 1..n : answer'[k].id = answer'[l].id => k = l
      BY <2>1 DEF Answer
    <2>3. Len(answer') = n /\ n \in Nat
      BY <2>2, FriendsAssumption
    <2>4. Answering'
      BY <2>1, <2>2, <2>3 DEF Answering
    <2>5. Showing'
      BY <2>1 DEF Showing, Shown
    <2> QED  BY <2>4, <2>5 DEF ShownInv
  <1>2. CASE ReadFriend
    BY <1>2, ReadShows
  <1>3. CASE VisitLine
    BY <1>3, VisitShows
  <1>4. CASE LinesVisited
    BY <1>4, FoundShows
  <1>5. CASE AddLine
    BY <1>5, AddShows
  <1>6. CASE Parsed
    BY <1>6 DEF Parsed, ViewInv, TypeOK, ShownInv, Answering, Showing, Shown
  <1>7. CASE UNCHANGED vars
    BY <1>7 DEF vars, ShownInv, Answering, Showing, Shown
  <1> QED  BY <1>1, <1>2, <1>3, <1>4, <1>5, <1>6, <1>7 DEF Next

\* After an answer that could be read to its end every friend in it has a line with the tag it
\* told, whatever became of the answers before.  (dbConnect::parseData)
THEOREM AnswerIsShown == Spec => []AnswerShown
  <1>1. ViewInv /\ ShownInv => AnswerShown
    <2> SUFFICES ASSUME ViewInv, ShownInv, http = "idle", good = 3 * Len(answer)
                 PROVE  \A f \in 1..Len(answer) :
                            \E k \in 1..Len(lines) : /\ lines[k].id = answer[f].id
                                                     /\ lines[k].tag = answer[f].tag
      BY DEF AnswerShown
    <2>1. i = Len(answer) + 1 /\ Len(answer) \in Nat /\ Shown(i)
      BY DEF ShownInv, Answering, Showing, ViewInv, TypeOK
    <2>2. i - 1 = Len(answer)
      BY <2>1
    <2> QED  BY <2>1, <2>2 DEF Shown
  <1> QED  BY <1>1, InitShown, NextShows, ViewInvAlways, PTL DEF Spec
=============================================================================
