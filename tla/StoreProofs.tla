----------------------------- MODULE StoreProofs -----------------------------
(***************************************************************************)
(* The pipeline implements TagStore: for any number of tags, launches,     *)
(* waiting forms and fields from three, if the fields User() leaves        *)
(* uninitialised are zero and t.txt can be opened.                         *)
(***************************************************************************)
EXTENDS RaceProofs, SequenceTheorems

\* The lines from place p on are those of tag t, as far as the file goes.
RowAt(p, t) == \A i \in 1..NFields : p + i - 1 \in Places => Unread[p + i - 1] = FieldOf(t, i)

\* Every line belongs to a tag that begins in the file.
WholeTags ==
    \A p \in Places : \E t \in 1..(nextTag - 1), i \in 1..NFields : i <= p /\ RowAt(p - i + 1, t)

\* Only the tag being written may be incomplete.
EndsWhole ==
    LET last == Unread[Len(Unread)]
    IN  IF fileOpen /\ InMidTag THEN Unread # <<>> /\ last = <<tag, field - 1>>
        ELSE Unread # <<>> => last = Name

\* Tags are in the file in the order in which they were recorded.
OldestFirst ==
    \A p, q \in Places :
        p < q /\ Unread[p] # Name /\ Unread[q] # Name => Unread[p][1] <= Unread[q][1]

InHand == audio # "idle" => tag = nextTag - 1 /\ (audio = "if_online" => ~sent)

StoreInv ==
    /\ ~cut => WholeTags /\ EndsWhole
    /\ OldestFirst
    /\ InHand
-----------------------------------------------------------------------------
(* What the steps do to the file and to the queue *)

\* The main thread never writes to the file.  It opens it, which empties it, closes it, or ends
\* an upload when less than a tag is left.
MainFile ==
    \/ Unread' = Unread /\ UNCHANGED <<fileOpen, cut>>
    \/ ~fileOpen /\ fileOpen' /\ Unread' = <<>> /\ (cut' <=> InMidTag)
    \/ fileOpen /\ ~fileOpen' /\ Unread' = Unread /\ (cut' <=> cut \/ InMidTag)
    \/ ~fileOpen /\ Len(Unread) < NFields - 1 /\ Unread' = <<>> /\ UNCHANGED <<fileOpen, cut>>

\* A step about the file adds no form, and one that adds a form is not about the file; but for
\* the rows of an upload the main thread queues no tag.
MainHandler ==
    \/ MainFile /\ UNCHANGED forms
    \/ /\ Unread' = Unread /\ UNCHANGED <<fileOpen, cut>>
       /\ UNCHANGED forms \/ \E form \in Form : form.kind # "tag" /\ addForm(form)

\* The last "b" the main thread saw tells whether the file is open.
LEMMA StatusChangedFile ==
    ASSUME TypeOK, OpenResults \subseteq {TRUE}, FileInv, LaunchInv, StatusChanged,
           main # "dump", main' \notin {"dump", "con_file"}
    PROVE  MainFile
<1>1. dumped \in BOOLEAN /\ cut \in BOOLEAN
  BY DEF TypeOK
<1>2. FirstCheckDue <=> b = 0
  BY DEF FileInv, FirstCheck, FirstCheckDue
<1>3. FirstCheckDue => getStatus = -1
  BY DEF LaunchInv, getStatus
<1>4. Unread' = IF dumped' THEN <<>> ELSE file'
  BY DEF Unread, FirstCheckDue
<1>5. Unread = IF dumped \/ b = 0 THEN <<>> ELSE file
  BY <1>2 DEF Unread
<1>6. fileOpen \in BOOLEAN /\ (fileOpen <=> b = -1)
  BY DEF FileInv, OpenWhileOffline, TypeOK
<1>7. IF b' = b THEN cut' = cut ELSE (cut' <=> (cut /\ ~fileOpen') \/ InMidTag)
  BY Zenon DEF StatusChanged
<1>8. CASE UNCHANGED <<fileState, file, dumped>> /\ b # 0
  BY <1>4, <1>5, <1>7, <1>8 DEF fileState, MainFile
<1>9. CASE b \in {0, 1} /\ b' = -1 /\ fileOpen' = TRUE /\ file' = <<>> /\ dumped' = FALSE
  <2>1. cut' <=> InMidTag
    BY <1>7, <1>9
  <2>2. ~fileOpen /\ fileOpen' /\ Unread' = <<>>
    BY <1>4, <1>6, <1>9
  <2> QED
    BY <2>1, <2>2, Zenon DEF MainFile
<1>10. CASE b \in {-1, 0} /\ b' = 1 /\ fileOpen' = FALSE /\ dumped' = FALSE /\ file' = file
  <2>1. b' = getStatus
    BY <1>1, StatusChangedCases
  <2>2. b = -1
    BY <1>2, <1>3, <1>10, <2>1
  <2>3. ~dumped
    BY <2>2 DEF FileInv, DumpedIsDone
  <2>4. cut' <=> cut \/ InMidTag
    BY <1>7, <1>10, <2>2
  <2> QED
    <3>1. fileOpen /\ ~fileOpen' /\ Unread' = Unread
      BY <1>4, <1>5, <1>6, <1>10, <2>2, <2>3
    <3> QED
      BY <2>4, <3>1, Zenon DEF MainFile
<1> QED
  BY <1>1, <1>8, <1>9, <1>10, StatusChangedCases

LEMMA MainStep ==
    ASSUME TypeOK, OpenResults \subseteq {TRUE}, FileInv, DumpSeesStableFile, LaunchInv,
           \/ Check \/ Focus
           \/ UpdateCertify \/ UpdateLogin \/ UpdateDump \/ DumpEnd \/ UpdateTimer
    PROVE  MainHandler /\ UNCHANGED <<rows, nextTag, audioVars>>
<1> USE DEF userVars, mainVars, audioVars, serverVars, history, flags, fileState, Goto
<1>1. \A form \in {StatusForm(getStatus), CertifyForm, FriendsForm} :
          form \in Form /\ form.kind # "tag"
  <2>1. /\ StatusForm(getStatus).kind # "tag" /\ CertifyForm.kind # "tag"
        /\ FriendsForm.kind # "tag"
    BY DEF StatusForm, CertifyForm, FriendsForm
  <2> QED
    BY <2>1, StatusFormType, OtherFormType
<1>2. CASE CheckFile \/ FocusFile
  <2>1. /\ StatusChanged /\ main \in {"con_file", "focus_file"} /\ main' \in {"con_get", "idle"}
        /\ UNCHANGED <<forms, rows, nextTag, audioVars>>
    BY <1>2 DEF CheckFile, FocusFile
  <2> QED
    BY <2>1, StatusChangedFile DEF MainHandler
<1>3. CASE CheckGet \/ CheckReport \/ CheckAsk
  <2>1. /\ main \in {"con_get", "con_report", "con_ask"}
        /\ main' \in {"con_report", "con_ask", "idle"}
        /\ UNCHANGED <<file, buf, dumped, fileOpen, cut>>
        /\ UNCHANGED <<rows, nextTag, audioVars>>
    BY <1>3 DEF CheckGet, CheckReport, CheckAsk, AfterGet
  <2>2. UNCHANGED forms \/ \E form \in Form : form.kind # "tag" /\ addForm(form)
    BY <1>1, <1>3 DEF CheckGet, CheckReport, CheckAsk
  <2> QED
    BY <2>1, <2>2, UnreadFrame DEF FirstCheckDue, MainHandler
<1>4. CASE UpdateCertify \/ UpdateLogin \/ UpdateTimer
  <2>1. /\ main = "idle" /\ main' \in {"idle", "con_file"} /\ (main' # "idle" => signin' = "login")
        /\ UNCHANGED <<file, buf, dumped, fileOpen, cut>>
        /\ UNCHANGED <<rows, nextTag, audioVars>>
    BY <1>4 DEF UpdateCertify, UpdateLogin, UpdateTimer, Updates, Starts
  <2>2. UNCHANGED forms \/ \E form \in Form : form.kind # "tag" /\ addForm(form)
    BY <1>1, <1>4 DEF UpdateCertify, UpdateLogin, UpdateTimer
  <2> QED
    BY <2>1, <2>2, UnreadFrame DEF FirstCheckDue, MainHandler
<1>5. CASE GotFocus \/ LostFocus \/ FocusStatus \/ Exit
  <2>1. /\ main \in {"idle", "focus_status"} /\ main' \in {"idle", "focus_status", "focus_file"}
        /\ UNCHANGED <<file, buf, dumped, fileOpen, cut>>
        /\ UNCHANGED <<rows, nextTag, audioVars>>
    BY <1>5 DEF GotFocus, LostFocus, FocusStatus, Exit, Starts
  <2>2. UNCHANGED forms \/ \E form \in Form : form.kind # "tag" /\ addForm(form)
    BY <1>1, <1>5 DEF GotFocus, LostFocus, FocusStatus, Exit
  <2> QED
    BY <2>1, <2>2, UnreadFrame DEF FirstCheckDue, MainHandler
<1>6. CASE UpdateDump
  <2>1. /\ main = "idle" /\ main' = "dump" /\ ~dumped /\ buf' = file
        /\ UNCHANGED <<forms, fileOpen, cut, rows, nextTag, audioVars>>
    BY <1>6 DEF UpdateDump, UploadPending, Updates, Starts, FileInv, DumpedIsDone
  <2> QED
    BY <2>1 DEF Unread, FirstCheckDue, MainHandler
<1>7. CASE DumpEnd
  <2>1. /\ main = "dump" /\ main' = "idle" /\ dumped' /\ ~MoreTags
        /\ UNCHANGED <<forms, fileOpen, cut, rows, nextTag, audioVars>>
    BY <1>7 DEF DumpEnd
  <2>2. Unread = buf /\ Unread' = <<>> /\ ~fileOpen
    BY <2>1 DEF Unread, DumpSeesStableFile
  <2>3. Len(Unread) < NFields - 1
    BY <2>1, <2>2, PipelineAssumption DEF MoreTags, TypeOK, PipelineAssumption
  <2> QED
    BY <2>1, <2>2, <2>3 DEF MainFile, MainHandler
<1> QED
  BY <1>2, <1>3, <1>4, <1>5, <1>6, <1>7 DEF Check, Focus

\* A line goes to the end of the file, or nowhere.
LEMMA WriteStep ==
    ASSUME TypeOK, FileInv, DumpSeesStableFile, WriteTag
    PROVE  /\ audio = "write"
           /\ Unread' = IF fileOpen THEN Append(Unread, FieldOf(tag, field)) ELSE Unread
           /\ \/ audio' = "write" /\ field' = field + 1 /\ field < NFields
              \/ audio' = "idle" /\ field' = field /\ field = NFields
           /\ UNCHANGED <<fileOpen, cut, tag, sent, nextTag, forms, rows>>
<1> USE DEF fileState, mainVars, serverVars, history
<1>1. /\ audio = "write" /\ WriteField(FieldOf(tag, field))
      /\ UNCHANGED <<fileOpen, cut, tag, sent, nextTag, forms, rows, main, signin, buf, dumped>>
  BY DEF WriteTag, WriteField
<1>2. \/ audio' = "write" /\ field' = field + 1 /\ field < NFields
      \/ audio' = "idle" /\ field' = field /\ field = NFields
  BY PipelineAssumption DEF WriteTag, MoreFields, TypeOK, PipelineAssumption
<1>3. CASE fileOpen
  <2>1. Unread = file /\ main # "dump" /\ ~dumped /\ ~FirstCheckDue
    BY <1>3, OpenIsUnread
  <2> QED
    BY <1>1, <1>2, <1>3, <2>1 DEF WriteField, Unread, FirstCheckDue
<1>4. CASE ~fileOpen
  BY <1>1, <1>2, <1>4 DEF WriteField, Unread, FirstCheckDue
<1> QED
  BY <1>3, <1>4
-----------------------------------------------------------------------------
(* The file keeps whole tags, in their order *)

LEMMA EmptiedStore ==
    ASSUME Unread' = <<>>, InHand', ~cut' => ~(fileOpen /\ InMidTag)'
    PROVE  StoreInv'
<1>1. Places' = {}
  BY DEF Places
<1> QED
  BY <1>1 DEF StoreInv, WholeTags, EndsWhole, OldestFirst

LEMMA SameStore ==
    ASSUME StoreInv, Unread' = Unread, InHand', nextTag \in Nat, nextTag' \in {nextTag, nextTag + 1},
           ~cut' =>
               /\ ~cut
               /\ \/ UNCHANGED <<fileOpen, audio, tag, field>>
                  \/ ~(fileOpen /\ InMidTag) /\ ~(fileOpen /\ InMidTag)'
    PROVE  StoreInv'
<1>1. Places' = Places /\ Name' = Name /\ \A p, t : RowAt(p, t)' <=> RowAt(p, t)
  BY DEF Places, RowAt, FieldOf, Name
<1>2. \A t \in 1..(nextTag - 1) : t \in 1..(nextTag' - 1)
  <2>1. CASE nextTag' = nextTag
    BY <2>1
  <2>2. CASE nextTag' = nextTag + 1
    BY <2>2
  <2> QED
    BY <2>1, <2>2
<1>3. WholeTags => WholeTags'
  BY <1>1, <1>2 DEF WholeTags
<1>4. ~cut' => WholeTags' /\ EndsWhole'
  BY <1>1, <1>3 DEF StoreInv, EndsWhole, InMidTag
<1>5. OldestFirst'
  BY <1>1 DEF StoreInv, OldestFirst
<1> QED
  BY <1>4, <1>5 DEF StoreInv

LEMMA MainKeepsStore ==
    ASSUME TypeOK, StoreInv, MainFile, UNCHANGED <<nextTag, audioVars>>
    PROVE  StoreInv'
<1>1. InHand' /\ UNCHANGED <<audio, tag, field>> /\ nextTag \in Nat
  BY DEF audioVars, StoreInv, InHand, TypeOK
<1>2. InMidTag' <=> InMidTag
  BY <1>1 DEF InMidTag
<1>3. CASE Unread' = Unread /\ UNCHANGED <<fileOpen, cut>>
  BY <1>1, <1>3, SameStore
<1>4. CASE ~fileOpen /\ fileOpen' /\ Unread' = <<>> /\ (cut' <=> InMidTag)
  BY <1>1, <1>2, <1>4, EmptiedStore
<1>5. CASE fileOpen /\ ~fileOpen' /\ Unread' = Unread /\ (cut' <=> cut \/ InMidTag)
  BY <1>1, <1>2, <1>5, SameStore
<1>6. CASE ~fileOpen /\ Unread' = <<>> /\ UNCHANGED <<fileOpen, cut>>
  BY <1>1, <1>6, EmptiedStore
<1> QED
  BY <1>3, <1>4, <1>5, <1>6 DEF MainFile

LEMMA AddTagKeepsStore ==
    ASSUME TypeOK, StoreInv, AddTag
    PROVE  StoreInv'
<1> USE DEF mainVars, userVars, fileState, history
<1>1. /\ audio = "idle" /\ audio' = "if_online" /\ tag' = nextTag /\ ~sent' /\ nextTag' = nextTag + 1
      /\ nextTag \in Nat
      /\ UNCHANGED <<fileOpen, cut, main, buf, dumped, signin, file>>
  BY DEF AddTag, TypeOK
<1>2. Unread' = Unread
  BY <1>1 DEF Unread, FirstCheckDue
<1>3. InHand'
  BY <1>1 DEF InHand
<1>4. ~InMidTag /\ ~InMidTag'
  BY <1>1 DEF InMidTag
<1> QED
  BY <1>1, <1>2, <1>3, <1>4, SameStore

LEMMA ReadStatusKeepsStore ==
    ASSUME TypeOK, RaceInv, StoreInv, IfOnline \/ IfOffline
    PROVE  StoreInv'
<1> USE DEF mainVars, userVars, fileState, history
<1>1. /\ audio \in {"if_online", "if_offline"} /\ audio' \in {"if_offline", "write", "idle"}
      /\ nextTag \in Nat /\ field = 1
      /\ UNCHANGED <<fileOpen, cut, main, buf, dumped, signin, file, tag, field, nextTag>>
  BY DEF IfOnline, IfOffline, TypeOK, RaceInv, AudioInv
<1>2. Unread' = Unread
  BY <1>1 DEF Unread, FirstCheckDue
<1>3. InHand'
  BY <1>1 DEF StoreInv, InHand
<1>4. ~InMidTag /\ ~InMidTag'
  BY <1>1 DEF InMidTag
<1> QED
  BY <1>1, <1>2, <1>3, <1>4, SameStore

LEMMA FieldsDiffer ==
    ASSUME NEW t \in Nat \ {0}, NEW i \in 1..NFields
    PROVE  /\ FieldOf(t, i)[2] = i
           /\ IF i = NFields THEN FieldOf(t, i) = Name
              ELSE FieldOf(t, i) = <<t, i>> /\ FieldOf(t, i) # Name
  BY DEF FieldOf, Name

\* Only the tag being written goes on behind the end of the file.
LEMMA RowGoesOn ==
    ASSUME TypeOK, StoreInv, ~cut, fileOpen, audio = "write",
           NEW h \in Places, NEW t \in 1..(nextTag - 1), NEW i \in 1..NFields,
           RowAt(h, t), h + i - 1 = Len(Unread) + 1
    PROVE  t = tag /\ i = field
<1> DEFINE last == Unread[Len(Unread)]
<1>1. Len(Unread) \in Nat /\ Unread # <<>> /\ h \in Nat /\ NFields \in Nat
  BY PipelineAssumption DEF TypeOK, Unread, Places, PipelineAssumption
<1>2. t \in Nat \ {0} /\ i - 1 \in 1..NFields /\ i - 1 # NFields
  BY <1>1 DEF TypeOK, Places
<1>3. h + (i - 1) - 1 = Len(Unread) /\ Len(Unread) \in Places
  BY <1>1, <1>2 DEF Places
<1>4. last = FieldOf(t, i - 1)
  BY <1>2, <1>3 DEF RowAt
<1>5. last = <<t, i - 1>> /\ last # Name
  BY <1>2, <1>4, FieldsDiffer
<1>6. InMidTag /\ last = <<tag, field - 1>>
  BY <1>1, <1>5 DEF StoreInv, EndsWhole
<1> QED
  BY <1>1, <1>5, <1>6 DEF TypeOK

\* The tag being written begins in the file, as many lines back as have been written.
LEMMA TagBegun ==
    ASSUME TypeOK, StoreInv, ~cut, fileOpen, InMidTag, tag \in Nat \ {0}
    PROVE  /\ (Len(Unread) + 2) - field \in Places
           /\ RowAt((Len(Unread) + 2) - field, tag)
<1>1. Len(Unread) \in Nat /\ NFields \in Nat /\ nextTag \in Nat /\ field \in 1..NFields
  BY PipelineAssumption DEF TypeOK, Unread, PipelineAssumption
<1>2. Unread # <<>> /\ Unread[Len(Unread)] = <<tag, field - 1>>
  BY DEF StoreInv, EndsWhole
<1>3. Len(Unread) \in Places
  BY <1>1, <1>2 DEF Places, TypeOK, Unread
<1>4. PICK t \in 1..(nextTag - 1), i \in 1..NFields :
          i <= Len(Unread) /\ RowAt(Len(Unread) - i + 1, t)
  BY <1>3 DEF StoreInv, WholeTags
<1>5. t \in Nat \ {0} /\ (Len(Unread) - i + 1) + i - 1 = Len(Unread)
  BY <1>1, <1>4
<1>6. <<tag, field - 1>> = FieldOf(t, i)
  BY <1>2, <1>3, <1>4, <1>5 DEF RowAt
<1>7. t = tag /\ i = field - 1
  BY <1>1, <1>5, <1>6, FieldsDiffer DEF Name
<1>8. Len(Unread) - i + 1 = (Len(Unread) + 2) - field /\ (Len(Unread) + 2) - field \in Places
  BY <1>1, <1>3, <1>4, <1>7 DEF Places
<1> QED
  BY <1>4, <1>7, <1>8

LEMMA WriteKeepsStore ==
    ASSUME TypeOK, FileInv, DumpSeesStableFile, RaceInv, StoreInv, WriteTag
    PROVE  StoreInv'
<1> DEFINE new == FieldOf(tag, field)
<1>1. /\ audio = "write"
      /\ Unread' = IF fileOpen THEN Append(Unread, new) ELSE Unread
      /\ \/ audio' = "write" /\ field' = field + 1 /\ field < NFields
         \/ audio' = "idle" /\ field' = field /\ field = NFields
      /\ UNCHANGED <<fileOpen, cut, tag, sent, nextTag, forms, rows>>
  BY WriteStep
<1>2. /\ nextTag \in Nat /\ NFields \in Nat /\ field \in 1..NFields /\ tag = nextTag - 1
      /\ tag \in Nat \ {0} /\ fileOpen \in BOOLEAN
  BY <1>1, PipelineAssumption DEF TypeOK, PipelineAssumption, StoreInv, InHand, RaceInv, AudioInv
<1>3. InHand'
  BY <1>1, <1>2 DEF InHand
<1>4. CASE ~fileOpen
  BY <1>1, <1>2, <1>3, <1>4, SameStore
<1>5. CASE fileOpen
  <2>0. PICK last : last = Len(Unread) + 1
    OBVIOUS
  <2>1. Unread \in Seq(Field) /\ Len(Unread) \in Nat /\ last = Len(Unread) + 1
    BY <2>0 DEF TypeOK, Unread
  <2>2. IF field = NFields THEN new = Name ELSE new = <<tag, field>> /\ new # Name
    BY <1>2, FieldsDiffer
  <2>3. Name' = Name /\ \A t, i : FieldOf(t, i)' = FieldOf(t, i)
    BY DEF Name, FieldOf
  <2> HIDE DEF new
  <2>4. Len(Unread') = last /\ Unread'[last] = new /\ \A p \in Places : Unread'[p] = Unread[p]
    BY <1>1, <1>5, <2>1 DEF Places
  <2>5. Places' = Places \cup {last} /\ \A p \in Places : p < last /\ p \in Nat
    BY <2>1, <2>4 DEF Places
  <2>6. OldestFirst'
    <3> SUFFICES ASSUME NEW p \in Places', NEW q \in Places', p < q,
                        Unread'[p] # Name, Unread'[q] # Name
                 PROVE  Unread'[p][1] <= Unread'[q][1]
      BY <2>3 DEF OldestFirst
    <3>1. p \in Places
      BY <2>1, <2>5 DEF Places
    <3>2. CASE q \in Places
      BY <2>4, <3>1, <3>2 DEF StoreInv, OldestFirst
    <3>3. CASE q = last
      BY <1>2, <2>2, <2>4, <3>1, <3>3 DEF RaceInv, UnreadInv, Begun
    <3> QED
      BY <2>5, <3>2, <3>3
  <2>7. ASSUME ~cut' PROVE WholeTags' /\ EndsWhole'
    <3>0. ~cut
      BY <1>1, <2>7
    <3>1. ASSUME NEW h \in Places, NEW t \in 1..(nextTag - 1), RowAt(h, t)
          PROVE  RowAt(h, t)'
      <4> SUFFICES ASSUME NEW i \in 1..NFields, h + i - 1 \in Places'
                   PROVE  Unread'[h + i - 1] = FieldOf(t, i)
        BY <2>3 DEF RowAt
      <4>1. CASE h + i - 1 \in Places
        BY <2>4, <3>1, <4>1 DEF RowAt
      <4>2. CASE h + i - 1 = last
        <5>1. t = tag /\ i = field
          BY <1>1, <1>5, <2>1, <3>0, <3>1, <4>2, RowGoesOn
        <5> QED
          BY <2>4, <4>2, <5>1 DEF new
      <4> QED
        BY <2>5, <4>1, <4>2
    <3>2. \A p \in Places : \E t \in 1..(nextTag - 1), i \in 1..NFields :
              i <= p /\ p - i + 1 \in Places /\ RowAt(p - i + 1, t)
      <4> SUFFICES ASSUME NEW p \in Places
                   PROVE  \E t \in 1..(nextTag - 1), i \in 1..NFields :
                              i <= p /\ p - i + 1 \in Places /\ RowAt(p - i + 1, t)
        OBVIOUS
      <4>1. PICK t \in 1..(nextTag - 1), i \in 1..NFields : i <= p /\ RowAt(p - i + 1, t)
        BY <3>0 DEF StoreInv, WholeTags
      <4>2. p - i + 1 \in Places
        BY <1>2, <2>1, <4>1 DEF Places
      <4> QED
        BY <4>1, <4>2
    <3>3. \A p \in Places : \E t \in 1..(nextTag - 1), i \in 1..NFields :
              i <= p /\ RowAt(p - i + 1, t)'
      BY <3>1, <3>2
    <3>4. \E t \in 1..(nextTag - 1), i \in 1..NFields : i <= last /\ RowAt(last - i + 1, t)'
      <4>1. CASE field = 1
        <5>1. ASSUME NEW t, t = tag PROVE RowAt(last, t)'
          <6> SUFFICES ASSUME NEW i \in 1..NFields, last + i - 1 \in Places'
                       PROVE  Unread'[last + i - 1] = FieldOf(t, i)
            BY <2>3 DEF RowAt
          <6>1. i = 1
            BY <1>2, <2>1, <2>5
          <6> QED
            BY <2>1, <2>4, <4>1, <5>1, <6>1 DEF new
        <5>2. tag \in 1..(nextTag - 1) /\ 1 \in 1..NFields /\ 1 <= last /\ last - 1 + 1 = last
          BY <1>2, <2>1
        <5> QED
          BY <5>1, <5>2
      <4>2. CASE field > 1
        <5>1. (last + 1) - field \in Places /\ RowAt((last + 1) - field, tag)
          BY <1>1, <1>2, <1>5, <2>1, <3>0, <4>2, TagBegun DEF InMidTag
        <5>2. PICK h \in Places : h = (last + 1) - field /\ RowAt(h, tag)
          BY <5>1
        <5>3. tag \in 1..(nextTag - 1) /\ last - field + 1 = h /\ field <= last
          BY <1>2, <2>1, <5>2 DEF Places
        <5>4. \A t \in 1..(nextTag - 1) : t = tag => RowAt(h, t)'
          BY <3>1, <5>2
        <5> QED
          BY <1>2, <5>3, <5>4
      <4> QED
        BY <1>2, <4>1, <4>2
    <3>5. WholeTags'
      <4>1. nextTag' = nextTag
        BY <1>1
      <4> QED
        BY <2>5, <3>3, <3>4, <4>1 DEF WholeTags
    <3>6. EndsWhole'
      <4>1. Unread' # <<>> /\ Unread'[Len(Unread')] = new
        BY <2>1, <2>4
      <4>2. CASE audio' = "write" /\ field' = field + 1 /\ field < NFields
        <5>1. InMidTag' /\ field' - 1 = field
          BY <1>2, <4>2 DEF InMidTag
        <5> QED
          BY <1>1, <1>5, <2>2, <4>1, <4>2, <5>1 DEF EndsWhole
      <4>3. CASE audio' = "idle" /\ field = NFields
        <5>1. ~InMidTag'
          BY <4>3 DEF InMidTag
        <5> QED
          BY <2>2, <2>3, <4>1, <4>3, <5>1 DEF EndsWhole
      <4> QED
        BY <1>1, <4>2, <4>3
    <3> QED
      BY <3>5, <3>6
  <2> QED
    BY <1>3, <2>6, <2>7 DEF StoreInv
<1> QED
  BY <1>2, <1>4, <1>5

\* In a file of whole tags the first one is there from its first line to its last.
LEMMA FirstRow ==
    ASSUME TypeOK, StoreInv, ~cut, 1 \in Places
    PROVE  \E t \in 1..(nextTag - 1) : RowAt(1, t)
<1>1. PICK t \in 1..(nextTag - 1), i \in 1..NFields : i <= 1 /\ RowAt(1 - i + 1, t)
  BY DEF StoreInv, WholeTags
<1>2. 1 - i + 1 = 1
  BY <1>1, PipelineAssumption DEF PipelineAssumption
<1> QED
  BY <1>1, <1>2

\* No other tag begins among its lines.
LEMMA NextRow ==
    ASSUME TypeOK, StoreInv, ~cut, NEW h \in Places, Unread[h][2] = 1
    PROVE  h = 1 \/ h > NFields
<1>1. Len(Unread) \in Nat /\ NFields \in Nat /\ nextTag \in Nat
  BY PipelineAssumption DEF TypeOK, Unread, PipelineAssumption
<1>2. 1 \in Places /\ h \in Nat /\ h >= 1
  BY <1>1 DEF Places
<1>3. PICK t \in 1..(nextTag - 1) : RowAt(1, t)
  BY <1>2, FirstRow
<1>4. CASE h \in 1..NFields
  <2>1. 1 + h - 1 = h
    BY <1>2
  <2>2. Unread[h] = FieldOf(t, h)
    BY <1>3, <1>4, <2>1 DEF RowAt
  <2>3. t \in Nat \ {0}
    BY <1>1
  <2> QED
    BY <1>4, <2>2, <2>3, FieldsDiffer
<1> QED
  BY <1>1, <1>2, <1>4

LEMMA DumpKeepsStore ==
    ASSUME TypeOK, DumpSeesStableFile, StoreInv, DumpTag
    PROVE  StoreInv'
<1> USE DEF mainVars, userVars, audioVars, fileState, history
<1>1. /\ main = "dump" /\ ~fileOpen /\ Unread \in Seq(Field) /\ Unread' \in Seq(Field)
      /\ UNCHANGED <<fileOpen, cut, audio, tag, field, sent, nextTag>>
  BY RestType DEF DumpTag, DumpSeesStableFile, TypeOK, Unread
<1>2. /\ Places' = {p \in Nat \ {0} : p + NFields \in Places}
      /\ \A p \in Places' : Unread'[p] = Unread[p + NFields]
  BY RestOfCopy
<1>3. Len(Unread) \in Nat /\ Len(Unread') \in Nat /\ NFields \in Nat /\ nextTag \in Nat
  BY <1>1, PipelineAssumption DEF PipelineAssumption, TypeOK
<1>4. Name' = Name /\ \A t, i : FieldOf(t, i)' = FieldOf(t, i)
  BY DEF Name, FieldOf
<1>5. InHand'
  BY <1>1 DEF StoreInv, InHand
<1>6. OldestFirst'
  <2> SUFFICES ASSUME NEW p \in Places', NEW q \in Places', p < q,
                      Unread'[p] # Name, Unread'[q] # Name
               PROVE  Unread'[p][1] <= Unread'[q][1]
    BY <1>4 DEF OldestFirst
  <2>1. p + NFields < q + NFields
    BY <1>2, <1>3
  <2> QED
    BY <1>2, <2>1 DEF StoreInv, OldestFirst
<1>7. ASSUME ~cut' PROVE WholeTags'
  <2> SUFFICES ASSUME NEW p \in Places'
               PROVE  \E t \in 1..(nextTag - 1), i \in 1..NFields : i <= p /\ RowAt(p - i + 1, t)'
    BY <1>1 DEF WholeTags
  <2>1. ~cut /\ p + NFields \in Places /\ p \in Nat /\ p >= 1
    BY <1>1, <1>2, <1>7
  <2>2. PICK t \in 1..(nextTag - 1), i \in 1..NFields :
            i <= p + NFields /\ RowAt((p + NFields) - i + 1, t)
    BY <2>1 DEF StoreInv, WholeTags
  <2>3. PICK h : h = (p + NFields) - i + 1
    OBVIOUS
  <2>4. h \in Places /\ h # 1 /\ h + 1 - 1 = h /\ 1 \in 1..NFields
    BY <1>3, <2>1, <2>2, <2>3, PipelineAssumption DEF Places, PipelineAssumption
  <2>5. Unread[h] = FieldOf(t, 1)
    BY <2>2, <2>3, <2>4 DEF RowAt
  <2>6. h > NFields
    BY <1>3, <2>1, <2>4, <2>5, NextRow, FieldsDiffer
  <2>7. i <= p
    BY <1>3, <2>1, <2>3, <2>6
  <2>8. RowAt(p - i + 1, t)'
    <3> SUFFICES ASSUME NEW j \in 1..NFields, (p - i + 1) + j - 1 \in Places'
                 PROVE  Unread'[(p - i + 1) + j - 1] = FieldOf(t, j)
      BY <1>4 DEF RowAt
    <3>1. ((p - i + 1) + j - 1) + NFields = ((p + NFields) - i + 1) + j - 1
      BY <1>3, <2>1
    <3> QED
      BY <1>2, <2>2, <3>1 DEF RowAt
  <2> QED
    BY <2>7, <2>8
<1>8. ASSUME ~cut' PROVE EndsWhole'
  <2> SUFFICES ASSUME Unread' # <<>> PROVE Unread'[Len(Unread')] = Name
    BY <1>1, <1>4 DEF EndsWhole
  <2>1. PICK last : last = Len(Unread')
    OBVIOUS
  <2>2. last \in Places' /\ last + 1 \notin Places'
    BY <1>1, <1>3, <2>1 DEF Places
  <2>3. last + NFields \in Places /\ (last + 1) + NFields \notin Places
    BY <1>2, <1>3, <2>1, <2>2
  <2>4. last + NFields = Len(Unread) /\ Unread # <<>>
    BY <1>1, <1>3, <2>1, <2>3 DEF Places
  <2>5. Unread[Len(Unread)] = Name
    BY <1>1, <1>8, <2>4 DEF StoreInv, EndsWhole
  <2> QED
    BY <1>2, <2>1, <2>2, <2>4, <2>5
<1> QED
  BY <1>5, <1>6, <1>7, <1>8 DEF StoreInv

LEMMA StoreAlways == ASSUME ZeroedHeap, NFields >= 3 PROVE Spec => []StoreInv
<1> USE DEF userVars, mainVars, fileState, flags, serverVars, history
<1>1. Init => StoreInv
  <2> SUFFICES ASSUME Init PROVE StoreInv
    OBVIOUS
  <2>1. Unread = <<>> /\ Places = {} /\ audio = "idle"
    BY DEF Init, Unread, Places, FirstCheckDue
  <2> QED
    BY <2>1 DEF StoreInv, WholeTags, EndsWhole, OldestFirst, InHand, InMidTag
<1>2. /\ TypeOK /\ FileInv /\ DumpSeesStableFile /\ RaceInv /\ StoreInv /\ [Next]_vars
      => StoreInv'
  <2> SUFFICES ASSUME TypeOK, FileInv, DumpSeesStableFile, RaceInv, StoreInv, [Next]_vars
               PROVE  StoreInv'
    OBVIOUS
  <2>1. CASE Check \/ Focus \/ UpdateCertify \/ UpdateLogin \/ UpdateDump \/ DumpEnd \/ UpdateTimer
    BY <2>1, ZeroedHeap, MainStep, MainKeepsStore DEF ZeroedHeap, RaceInv, MainHandler, MainFile
  <2>2. CASE DumpTag
    BY <2>2, DumpKeepsStore
  <2>3. CASE Audio
    BY <2>3, AddTagKeepsStore, ReadStatusKeepsStore, WriteKeepsStore DEF Audio
  <2>4. CASE Http \/ UNCHANGED vars
    <3>1. UNCHANGED <<Unread, fileOpen, cut, audio, tag, field, sent, nextTag>>
      BY <2>4 DEF Http, HttpPost, HttpFail, HttpLoseAnswer, vars, audioVars, Unread, FirstCheckDue
    <3>2. InHand' /\ nextTag \in Nat
      BY <3>1 DEF StoreInv, InHand, TypeOK
    <3> QED
      BY <3>1, <3>2, SameStore
  <2>5. CASE Relaunch
    <3>1. audio' = "idle" /\ main' = "con_file" /\ signin' = "signedup"
      BY <2>5 DEF Relaunch
    <3>2. Unread' = <<>> /\ InHand' /\ ~InMidTag'
      BY <3>1 DEF Unread, FirstCheckDue, InHand, InMidTag
    <3> QED
      BY <3>2, EmptiedStore
  <2> QED
    BY <2>1, <2>2, <2>3, <2>4, <2>5 DEF Next, Update
<1>3. Spec => []FileInv
  BY ZeroedHeap, FileInvariant DEF ZeroedHeap
<1>4. Spec => []RaceInv
  BY ZeroedHeap, NFields >= 3, RaceAlways
<1> QED
  BY <1>1, <1>2, <1>3, <1>4, TypeCorrect, StableFile, PTL DEF Spec

-----------------------------------------------------------------------------
(* The steps as steps of TagStore *)

LEMMA LetterOfTag ==
    ASSUME NEW t \in Nat \ {0}
    PROVE  Letter(TagForm(Row(t))) = t
<1>1. Row(t)[1][1] = t
  BY PipelineAssumption DEF Row, FieldOf, PipelineAssumption
<1> QED
  BY <1>1 DEF Letter, TagForm

LEMMA WayGrows ==
    ASSUME TypeOK, NEW form \in Form, addForm(form)
    PROVE  Way' = Append(Way, Letter(form))
<1> DEFINE letters == {Way[k] : k \in 1..Len(forms)} \cup {Letter(form)}
<1>1. /\ Len(forms) \in Nat /\ Len(forms') = Len(forms) + 1 /\ forms'[Len(forms) + 1] = form
      /\ \A k \in 1..Len(forms) : forms'[k] = forms[k]
  BY DEF TypeOK, addForm
<1>2. /\ Way \in Seq(letters) /\ Len(Way) = Len(forms)
      /\ \A k \in 1..Len(forms) : Way[k] = Letter(forms[k])
  BY <1>1 DEF Way
<1>3. Letter(form)' = Letter(form) /\ \A k : Letter(forms'[k]) = Letter(forms[k])'
  BY DEF Letter, Row, FieldOf, Name
<1>4. Way' = [k \in 1..(Len(forms) + 1) |-> Letter(forms'[k])]
  BY <1>1, <1>3 DEF Way
<1>5. ASSUME NEW k \in 1..(Len(forms) + 1)
      PROVE  Letter(forms'[k]) = IF k = Len(forms) + 1 THEN Letter(form) ELSE Way[k]
  BY <1>1, <1>2
<1>6. Letter(form) \in letters
  OBVIOUS
<1> HIDE DEF letters
<1>7. /\ Append(Way, Letter(form)) \in Seq(letters)
      /\ Len(Append(Way, Letter(form))) = Len(forms) + 1
      /\ \A k \in 1..(Len(forms) + 1) :
            Append(Way, Letter(form))[k] = IF k = Len(forms) + 1 THEN Letter(form) ELSE Way[k]
  BY <1>1, <1>2, <1>6, AppendProperties
<1>8. Append(Way, Letter(form)) = [k \in 1..(Len(forms) + 1) |-> Append(Way, Letter(form))[k]]
  BY <1>7, LenProperties
<1> QED
  BY <1>4, <1>5, <1>7, <1>8

LEMMA WayShrinks ==
    ASSUME TypeOK, forms # <<>>, forms' = Tail(forms)
    PROVE  Way # <<>> /\ Head(Way) = Letter(Head(forms)) /\ Way' = Tail(Way)
<1> DEFINE letters == {Way[k] : k \in 1..Len(forms)}
<1>1. /\ Len(forms) \in Nat \ {0} /\ Len(forms') = Len(forms) - 1 /\ Head(forms) = forms[1]
      /\ \A k \in 1..(Len(forms) - 1) : forms'[k] = forms[k + 1]
  BY DEF TypeOK
<1>2. /\ Way \in Seq(letters) /\ Len(Way) = Len(forms)
      /\ \A k \in 1..Len(forms) : Way[k] = Letter(forms[k])
  BY <1>1 DEF Way
<1>3. \A k : Letter(forms[k])' = Letter(forms'[k])
  BY DEF Letter, Row, FieldOf, Name
<1>4. Way' = [k \in 1..(Len(forms) - 1) |-> Letter(forms'[k])]
  BY <1>1, <1>3 DEF Way
<1>5. \A k \in 1..(Len(forms) - 1) : Letter(forms'[k]) = Way[k + 1]
  BY <1>1, <1>2
<1> HIDE DEF letters
<1>6. Way # <<>>
  BY <1>1, <1>2
<1>7. /\ Tail(Way) \in Seq(letters) /\ Len(Tail(Way)) = Len(forms) - 1
      /\ \A k \in 1..(Len(forms) - 1) : Tail(Way)[k] = Way[k + 1]
  BY <1>1, <1>2, <1>6, HeadTailProperties
<1>8. Tail(Way) = [k \in 1..(Len(forms) - 1) |-> Tail(Way)[k]]
  BY <1>7, LenProperties
<1>9. Head(Way) = Letter(Head(forms))
  <2>1. Head(Way) = Way[1] /\ 1 \in 1..Len(forms)
    BY <1>1, <1>2, <1>6
  <2> QED
    BY <1>1, <1>2, <2>1
<1> QED
  BY <1>4, <1>5, <1>6, <1>7, <1>8, <1>9

LEMMA SameWay == ASSUME UNCHANGED forms PROVE Way' = Way
  BY DEF Way, Letter, Row, FieldOf, Name

LEMMA SameKept == ASSUME Unread' = Unread, UNCHANGED cut PROVE Kept' = Kept
  BY DEF Kept, Heads, Places

LEMMA NothingKept == ASSUME Unread' = <<>> PROVE Kept' = {}
<1>1. Places' = {}
  BY DEF Places
<1> QED
  BY <1>1 DEF Kept, Heads

LEMMA SameArrived == ASSUME UNCHANGED <<rows, nextTag>> PROVE Arrived' = Arrived
  BY DEF Arrived, Row, FieldOf, Name

\* What the main thread does to the file opens or closes the store, or is nothing to it.
LEMMA MainImplements ==
    ASSUME TypeOK, TypeOK', MainHandler, UNCHANGED <<rows, nextTag, audioVars>>
    PROVE  [Store!Next]_Store!vars
<1> USE DEF Store!vars, Store!tags, Store!store
<1>1. Hand' = Hand /\ Arrived' = Arrived /\ nextTag' - 1 = nextTag - 1
  BY SameArrived DEF Hand, audioVars
<1>2. InMidTag => Hand = "filing"
  BY DEF InMidTag, Hand
<1>3. cut \in BOOLEAN /\ cut' \in BOOLEAN /\ fileOpen \in BOOLEAN /\ fileOpen' \in BOOLEAN
  BY DEF TypeOK
<1>4. CASE MainFile /\ UNCHANGED forms
  <2>1. Way' = Way
    BY <1>4, SameWay
  <2>2. CASE Unread' = Unread /\ UNCHANGED <<fileOpen, cut>>
    BY <1>1, <2>1, <2>2, SameKept
  <2>3. CASE ~fileOpen /\ fileOpen' /\ Unread' = <<>> /\ (cut' <=> InMidTag)
    <3>1. Kept' = {}
      BY <2>3, NothingKept
    <3>2. Store!Open
      BY <1>1, <1>2, <1>3, <2>1, <2>3, <3>1 DEF Store!Open, Store!Damage
    <3> QED
      BY <3>2 DEF Store!Next
  <2>4. CASE fileOpen /\ ~fileOpen' /\ Unread' = Unread /\ (cut' <=> cut \/ InMidTag)
    <3>1. \/ Kept' = Kept /\ cut' = cut
          \/ Hand = "filing" /\ cut' = TRUE /\ Kept' = {}
      <4>1. CASE cut' <=> cut
        BY <1>3, <2>4, <4>1, SameKept
      <4>2. CASE ~(cut' <=> cut)
        BY <1>2, <1>3, <2>4, <4>2 DEF Kept
      <4> QED
        BY <4>1, <4>2
    <3>2. Store!Close
      BY <1>1, <2>1, <2>4, <3>1 DEF Store!Close, Store!Damage
    <3> QED
      BY <3>2 DEF Store!Next
  <2>5. CASE ~fileOpen /\ Len(Unread) < NFields - 1 /\ Unread' = <<>> /\ UNCHANGED <<fileOpen, cut>>
    <3>1. Kept' = {}
      BY <2>5, NothingKept
    <3>2. Heads = {}
      BY <2>5, PipelineAssumption DEF Heads, Places, TypeOK, Unread, PipelineAssumption
    <3> QED
      BY <1>1, <2>1, <2>5, <3>1, <3>2 DEF Kept
  <2> QED
    BY <1>4, <2>2, <2>3, <2>4, <2>5 DEF MainFile
<1>5. CASE Unread' = Unread /\ UNCHANGED <<fileOpen, cut>> /\ UNCHANGED forms
  BY <1>1, <1>5, SameKept, SameWay
<1>6. ASSUME Unread' = Unread, UNCHANGED <<fileOpen, cut>>,
             NEW form \in Form, form.kind # "tag", addForm(form)
      PROVE  Store!SendOther
  <2>1. Way' = Append(Way, 0)
    BY <1>6, WayGrows DEF Letter
  <2> QED
    BY <1>1, <1>6, <2>1, SameKept DEF Store!SendOther, Store!Send, Store!Other
<1> QED
  BY <1>4, <1>5, <1>6 DEF MainHandler, Store!Next

LEMMA AddTagImplements ==
    ASSUME TypeOK, NFields >= 3, RaceInv, AddTag
    PROVE  Store!Record
<1> USE DEF mainVars, userVars, fileState, serverVars, history
<1>1. /\ audio = "idle" /\ audio' = "if_online" /\ ~sent' /\ nextTag' = nextTag + 1
      /\ nextTag \in Nat
      /\ UNCHANGED <<fileOpen, cut, main, buf, dumped, signin, file, forms, rows>>
  BY DEF AddTag, TypeOK
<1>2. Unread' = Unread
  BY <1>1 DEF Unread, FirstCheckDue
<1>3. Hand = "done" /\ Hand' = "new" /\ nextTag' - 1 = (nextTag - 1) + 1
  BY <1>1 DEF Hand
<1>4. Arrived' = Arrived
  <2>1. nextTag \in Nat \ {0}
    BY <1>1 DEF RaceInv, AudioInv
  <2>2. Row(nextTag) \notin rows
    <3>1. Key(Row(nextTag)) = {<<nextTag, 1>>, <<nextTag, 2>>}
      BY <2>1, KeyOfRow
    <3>2. ~Begun(<<nextTag, 1>>)
      BY <2>1 DEF Begun
    <3> QED
      BY <3>1, <3>2 DEF RaceInv, SentInv, Sent, Keyed
  <2>3. \A t : Row(t)' = Row(t)
    BY DEF Row, FieldOf, Name
  <2>4. 1..(nextTag' - 1) = 1..(nextTag - 1) \cup {nextTag}
    BY <1>1, <2>1
  <2>5. Arrived' = {t \in 1..(nextTag' - 1) : Row(t) \in rows}
    BY <1>1, <2>3 DEF Arrived
  <2> QED
    BY <2>2, <2>4, <2>5 DEF Arrived
<1> QED
  BY <1>1, <1>2, <1>3, <1>4, SameKept, SameWay DEF Store!Record, Store!store

LEMMA ReadStatusImplements ==
    ASSUME TypeOK, RaceInv, StoreInv, IfOnline \/ IfOffline
    PROVE  [Store!Next]_Store!vars
<1> USE DEF mainVars, userVars, fileState, serverVars, history, Store!vars, Store!tags, Store!store
<1>1. /\ audio \in {"if_online", "if_offline"} /\ tag \in Nat \ {0} /\ tag = nextTag - 1
      /\ UNCHANGED <<fileOpen, cut, main, buf, dumped, signin, file, nextTag, rows>>
  BY DEF IfOnline, IfOffline, TypeOK, RaceInv, AudioInv, StoreInv, InHand
<1>2. Unread' = Unread
  BY <1>1 DEF Unread, FirstCheckDue
<1>3. Kept' = Kept /\ Arrived' = Arrived /\ nextTag' - 1 = nextTag - 1
  BY <1>1, <1>2, SameKept, SameArrived
<1>4. CASE IfOnline
  <2>1. Hand = "new"
    BY <1>4 DEF IfOnline, Hand, StoreInv, InHand
  <2>2. CASE addForm(TagForm(Row(tag))) /\ sent' = TRUE
    <3>1. TagForm(Row(tag)) \in Form
      BY <1>1, RowType, TagFormType
    <3>2. Way' = Append(Way, tag)
      BY <1>1, <2>2, <3>1, WayGrows, LetterOfTag
    <3>3. Hand' = "sent"
      BY <1>4, <2>2 DEF IfOnline, Hand
    <3>4. Store!SendNew
      BY <1>1, <1>3, <2>1, <3>2, <3>3 DEF Store!SendNew, Store!Send
    <3> QED
      BY <3>4 DEF Store!Next
  <2>3. CASE UNCHANGED <<forms, sent>>
    <3>1. Hand' = Hand
      BY <1>4, <2>3 DEF IfOnline, Hand
    <3> QED
      BY <1>1, <1>3, <2>3, <3>1, SameWay
  <2> QED
    BY <1>4, <2>2, <2>3 DEF IfOnline
<1>5. CASE IfOffline
  <2>1. /\ audio = "if_offline" /\ audio' \in {"write", "idle"} /\ UNCHANGED <<forms, sent>>
    BY <1>5 DEF IfOffline
  <2>2. Way' = Way
    BY <2>1, SameWay
  <2>3. CASE audio' = "write"
    <3>1. Hand' = "filing" /\ Hand \in {"new", "sent"}
      BY <2>1, <2>3 DEF Hand
    <3>2. Store!File
      BY <1>1, <1>3, <2>2, <3>1 DEF Store!File
    <3> QED
      BY <3>2 DEF Store!Next
  <2>4. CASE audio' = "idle"
    <3>1. Hand' = "done" /\ Hand \in {"new", "sent"}
      BY <2>1, <2>4 DEF Hand
    <3>2. Store!Leave
      BY <1>1, <1>3, <2>2, <3>1 DEF Store!Leave
    <3> QED
      BY <3>2 DEF Store!Next
  <2> QED
    BY <2>1, <2>3, <2>4
<1> QED
  BY <1>4, <1>5

\* The last line of a tag makes it one more to be uploaded.
LEMMA LastLineKeeps ==
    ASSUME TypeOK, FileInv, DumpSeesStableFile, RaceInv, StoreInv, WriteTag, fileOpen, ~cut
    PROVE  Kept' = IF field = NFields THEN Kept \cup {tag} ELSE Kept
<1>1. /\ audio = "write" /\ Unread' = Append(Unread, FieldOf(tag, field)) /\ cut' = cut
  BY WriteStep
<1>2. /\ nextTag \in Nat /\ NFields \in Nat /\ NFields >= 2 /\ field \in 1..NFields
      /\ tag \in Nat \ {0} /\ Unread \in Seq(Field) /\ Len(Unread) \in Nat
  BY <1>1, PipelineAssumption DEF TypeOK, PipelineAssumption, RaceInv, AudioInv, Unread
<1>3. PICK last : last = Len(Unread) + 1
  OBVIOUS
<1>4. /\ Places = 1..Len(Unread) /\ Places' = Places \cup {last} /\ last \notin Places
      /\ \A p \in Places : p \in Nat /\ Unread'[p] = Unread[p]
  <2>1. Len(Unread') = last /\ \A p \in 1..Len(Unread) : Unread'[p] = Unread[p]
    BY <1>1, <1>2, <1>3
  <2> QED
    BY <1>2, <1>3, <2>1 DEF Places
<1>5. Heads \subseteq Heads'
  BY <1>4 DEF Heads
<1>6. ASSUME NEW q \in Heads', q \notin Heads
      PROVE  field = NFields /\ Unread'[q][1] = tag
  <2>1. q \in Places /\ Unread[q][2] = 1 /\ q + NFields - 1 = last
    BY <1>2, <1>3, <1>4, <1>6 DEF Heads
  <2>2. PICK t \in 1..(nextTag - 1), i \in 1..NFields : i <= q /\ RowAt(q - i + 1, t)
    BY <2>1 DEF StoreInv, WholeTags
  <2>3. t \in Nat \ {0} /\ (q - i + 1) + i - 1 = q
    BY <1>2, <1>4, <2>1, <2>2
  <2>4. Unread[q] = FieldOf(t, i)
    BY <2>1, <2>2, <2>3 DEF RowAt
  <2>5. i = 1 /\ Unread[q] = <<t, 1>>
    BY <1>2, <2>1, <2>3, <2>4, FieldsDiffer
  <2>6. RowAt(q, t)
    BY <1>4, <2>1, <2>2, <2>5
  <2>7. t = tag /\ NFields = field
    BY <1>1, <1>2, <1>3, <2>1, <2>6, RowGoesOn
  <2> QED
    BY <1>4, <2>1, <2>5, <2>7
<1>7. ASSUME field = NFields
      PROVE  \E q \in Heads' : Unread'[q][1] = tag
  <2>1. InMidTag
    BY <1>1, <1>2, <1>7 DEF InMidTag
  <2>2. PICK q : q = (Len(Unread) + 2) - field
    OBVIOUS
  <2>3. q \in Places /\ RowAt(q, tag)
    BY <1>2, <2>1, <2>2, TagBegun
  <2>4. q + 1 - 1 = q /\ 1 \in 1..NFields /\ q + NFields - 1 = last
    BY <1>2, <1>3, <1>4, <1>7, <2>2, <2>3
  <2>5. Unread[q] = <<tag, 1>>
    BY <1>2, <2>3, <2>4, FieldsDiffer DEF RowAt
  <2>6. q \in Heads' /\ Unread'[q] = <<tag, 1>>
    BY <1>4, <2>3, <2>4, <2>5 DEF Heads
  <2> QED
    BY <2>6
<1>8. Kept = {Unread[q][1] : q \in Heads} /\ Kept' = {Unread'[q][1] : q \in Heads'}
  BY <1>1 DEF Kept
<1>9. \A q \in Heads : Unread'[q] = Unread[q]
  BY <1>4 DEF Heads
<1> QED
  BY <1>5, <1>6, <1>7, <1>8, <1>9

LEMMA WriteImplements ==
    ASSUME TypeOK, FileInv, DumpSeesStableFile, RaceInv, StoreInv, WriteTag
    PROVE  [Store!Next]_Store!vars
<1> USE DEF Store!vars, Store!tags, Store!store
<1>1. /\ audio = "write"
      /\ Unread' = IF fileOpen THEN Append(Unread, FieldOf(tag, field)) ELSE Unread
      /\ \/ audio' = "write" /\ field' = field + 1 /\ field < NFields
         \/ audio' = "idle" /\ field' = field /\ field = NFields
      /\ UNCHANGED <<fileOpen, cut, tag, sent, nextTag, forms, rows>>
  BY WriteStep
<1>2. /\ Way' = Way /\ Arrived' = Arrived /\ nextTag' - 1 = nextTag - 1 /\ tag = nextTag - 1
      /\ field \in Nat /\ NFields \in Nat /\ Hand = "filing"
  BY <1>1, SameWay, SameArrived, PipelineAssumption
  DEF TypeOK, PipelineAssumption, StoreInv, InHand, Hand
<1>3. fileOpen /\ ~cut => Kept' = IF field = NFields THEN Kept \cup {tag} ELSE Kept
  BY LastLineKeeps
<1>4. ~(fileOpen /\ ~cut) => Kept' = Kept
  BY <1>1, SameKept DEF Kept
<1>5. CASE audio' = "write"
  <2>1. Hand' = Hand
    BY <1>1, <1>5 DEF Hand
  <2>2. Kept' = Kept
    BY <1>1, <1>2, <1>3, <1>4, <1>5
  <2> QED
    BY <1>1, <1>2, <2>1, <2>2
<1>6. CASE audio' = "idle"
  <2>1. Hand' = "done" /\ field = NFields
    BY <1>1, <1>6 DEF Hand
  <2>2. CASE fileOpen /\ ~cut
    <3>1. Store!Keep
      BY <1>1, <1>2, <1>3, <2>1, <2>2 DEF Store!Keep
    <3> QED
      BY <3>1 DEF Store!Next
  <2>3. CASE ~(fileOpen /\ ~cut)
    <3>1. Store!Drop
      BY <1>1, <1>2, <1>4, <2>1, <2>3 DEF Store!Drop
    <3> QED
      BY <3>1 DEF Store!Next
  <2> QED
    BY <2>2, <2>3
<1> QED
  BY <1>1, <1>5, <1>6

\* An upload begins each tag with the first line that is left.
LEMMA NextTagBegins ==
    ASSUME TypeOK, DumpTag
    PROVE  /\ Unread = buf /\ 1 \in Places /\ NextTag \in Seq(Field) /\ Len(NextTag) = NFields
           /\ \A i \in 1..NFields : i \in Places => NextTag[i] = Unread[i]
           /\ Len(Unread) >= NFields - 1
           /\ forms' = Append(forms, TagForm(NextTag)) /\ TagForm(NextTag) \in Form
<1>1. /\ buf \in Seq(Field) /\ n \in Field /\ Len(buf) \in Nat /\ Len(buf) >= NFields - 1
      /\ NFields \in Nat /\ NFields >= 2
  BY PipelineAssumption DEF TypeOK, DumpTag, MoreTags, PipelineAssumption
<1>2. Unread = buf /\ Places = 1..Len(buf)
  BY DEF DumpTag, Unread, Places
<1> DEFINE s == Append(buf, n)
<1>3. /\ s \in Seq(Field) /\ Len(s) = Len(buf) + 1 /\ \A i \in 1..Len(buf) : s[i] = buf[i]
  BY <1>1
<1>4. NextTag = SubSeq(s, 1, NFields)
  BY DEF NextTag
<1> HIDE DEF s
<1>5. /\ NextTag \in Seq(Field) /\ Len(NextTag) = NFields
      /\ \A i \in 1..NFields : NextTag[i] = s[i]
  BY <1>1, <1>3, <1>4
<1>6. TagForm(NextTag) \in Form
  BY <1>5, TagFormType
<1> QED
  BY <1>1, <1>2, <1>3, <1>5, <1>6 DEF DumpTag, addForm

\* From a file of whole tags it takes whole tags.
LEMMA NextTagWhole ==
    ASSUME TypeOK, DumpSeesStableFile, StoreInv, ~cut, DumpTag,
           NEW t \in 1..(nextTag - 1), RowAt(1, t)
    PROVE  NextTag = Row(t) /\ NFields \in Places
<1>1. /\ 1 \in Places /\ NextTag \in Seq(Field) /\ Len(NextTag) = NFields
      /\ \A i \in 1..NFields : i \in Places => NextTag[i] = Unread[i]
      /\ Len(Unread) >= NFields - 1
  BY NextTagBegins
<1>2. /\ Len(Unread) \in Nat /\ Unread # <<>> /\ NFields \in Nat /\ NFields >= 2
      /\ t \in Nat \ {0} /\ Places = 1..Len(Unread)
  BY <1>1, PipelineAssumption DEF TypeOK, Unread, Places, PipelineAssumption
<1>3. Unread[Len(Unread)] = Name
  BY <1>2 DEF StoreInv, EndsWhole, DumpSeesStableFile, DumpTag
<1>4. \A i \in 1..NFields : i \in Places => Unread[i] = FieldOf(t, i)
  <2> SUFFICES ASSUME NEW i \in 1..NFields, i \in Places PROVE Unread[i] = FieldOf(t, i)
    OBVIOUS
  <2>1. 1 + i - 1 = i
    BY <1>2
  <2> QED
    BY <2>1 DEF RowAt
<1>5. NFields \in Places
  <2>1. CASE Len(Unread) = NFields - 1
    <3>1. NFields - 1 \in 1..NFields /\ NFields - 1 \in Places /\ NFields - 1 # NFields
      BY <1>2, <2>1
    <3> QED
      BY <1>2, <1>3, <1>4, <2>1, <3>1, FieldsDiffer
  <2>2. CASE Len(Unread) >= NFields
    BY <1>2, <2>2
  <2> QED
    BY <1>1, <1>2, <2>1, <2>2
<1>6. \A i \in 1..NFields : NextTag[i] = FieldOf(t, i)
  BY <1>1, <1>2, <1>4, <1>5
<1>7. NextTag = [i \in 1..NFields |-> NextTag[i]]
  BY <1>1, LenProperties
<1> QED
  BY <1>5, <1>6, <1>7 DEF Row

LEMMA DumpImplements ==
    ASSUME TypeOK, NFields >= 3, DumpSeesStableFile, RaceInv, StoreInv, DumpTag
    PROVE  Store!Upload \/ Store!UploadDamaged
<1> USE DEF mainVars, userVars, audioVars, serverVars, fileState, history
<1>1. /\ ~fileOpen /\ nextTag \in Nat /\ NFields \in Nat /\ Unread \in Seq(Field)
      /\ UNCHANGED <<fileOpen, cut, audio, sent, nextTag, rows>>
  BY PipelineAssumption DEF DumpTag, DumpSeesStableFile, TypeOK, Unread, PipelineAssumption
<1>2. Hand' = Hand /\ Arrived' = Arrived /\ nextTag' - 1 = nextTag - 1
  BY <1>1, SameArrived DEF Hand
<1> DEFINE letter == Letter(TagForm(NextTag))
<1>3. Way' = Append(Way, letter)
  BY NextTagBegins, WayGrows DEF addForm
<1>4. 1 \in Places /\ NextTag[1] = Unread[1]
  BY <1>1, NFields >= 3, NextTagBegins
<1>5. letter = IF NextTag = Row(Unread[1][1]) THEN Unread[1][1] ELSE -1
  BY <1>4 DEF Letter, TagForm
<1> HIDE DEF letter
<1>6. CASE cut
  <2>1. letter \in {-1} \cup 1..(nextTag - 1)
    <3> SUFFICES ASSUME NextTag = Row(Unread[1][1]) PROVE Unread[1][1] \in 1..(nextTag - 1)
      BY <1>5
    <3>1. Unread[1] # Name
      BY <1>1, <1>4, NFields >= 3 DEF Row, FieldOf, Name
    <3> QED
      BY <1>4, <3>1 DEF RaceInv, UnreadInv, Begun
  <2>2. Kept' = Kept
    BY <1>1, <1>6 DEF Kept
  <2>3. Store!UploadDamaged
    BY <1>1, <1>2, <1>3, <1>6, <2>1, <2>2
    DEF Store!UploadDamaged, Store!Send, Store!Torn, Store!tags, Store!store
  <2> QED
    BY <2>3
<1>7. CASE ~cut
  <2>1. PICK t \in 1..(nextTag - 1) : RowAt(1, t)
    BY <1>4, <1>7, FirstRow
  <2>2. NextTag = Row(t) /\ NFields \in Places /\ t \in Nat \ {0}
    BY <1>1, <1>7, <2>1, NextTagWhole
  <2>3. Unread[1] = <<t, 1>>
    BY <1>1, <1>4, <2>2, NFields >= 3 DEF Row, FieldOf
  <2>4. letter = t
    BY <1>5, <2>2, <2>3
  <2>5. Kept = {Unread[q][1] : q \in Heads}
    BY <1>7 DEF Kept
  <2>6. 1 \in Heads /\ t \in Kept
    <3>1. 1 + NFields - 1 = NFields
      BY <1>1
    <3>2. 1 \in Heads
      BY <1>4, <2>2, <2>3, <3>1 DEF Heads
    <3> QED
      BY <2>3, <2>5, <3>2
  <2>7. ASSUME NEW q \in Heads, q # 1
        PROVE  /\ q \in Places /\ q \in Nat /\ q > NFields
               /\ t <= Unread[q][1] /\ Unread[q][1] # t
    <3>1. q \in Places /\ q \in Nat /\ q > 1 /\ Unread[q][2] = 1 /\ Unread[q] \in Field
      BY <1>1, <2>7 DEF Heads, Places
    <3>2. Unread[q] # Name /\ Unread[1] # Name
      BY <2>3, <3>1, NFields >= 3 DEF Name
    <3>3. q > NFields
      BY <1>7, <2>7, <3>1, NextRow
    <3>4. t <= Unread[q][1]
      BY <1>4, <2>3, <3>1, <3>2 DEF StoreInv, OldestFirst
    <3>5. Unread[q][1] # t
      <4> SUFFICES ASSUME Unread[q][1] = t PROVE FALSE
        OBVIOUS
      <4>1. Unread[q] = Unread[1]
        BY <2>3, <3>1 DEF Field
      <4> QED
        BY <1>4, <2>7, <3>1, <3>2, <4>1 DEF RaceInv, UnreadInv
    <3> QED
      BY <3>1, <3>3, <3>4, <3>5
  <2>8. \A u \in Kept : t <= u
    BY <2>2, <2>3, <2>5, <2>7
  <2>9. Kept' = Kept \ {t}
    <3>1. /\ Places' = {p \in Nat \ {0} : p + NFields \in Places}
          /\ \A p \in Places' : Unread'[p] = Unread[p + NFields]
      BY RestOfCopy
    <3>2. Kept' = {Unread'[p][1] : p \in Heads'}
      BY <1>1, <1>7 DEF Kept
    <3>3. \A p \in Heads' : p + NFields \in Heads /\ p + NFields # 1 /\ Unread'[p] = Unread[p + NFields]
      <4> SUFFICES ASSUME NEW p \in Heads'
                   PROVE  p + NFields \in Heads /\ p + NFields # 1 /\ Unread'[p] = Unread[p + NFields]
        OBVIOUS
      <4>1. p \in Places' /\ p \in Nat \ {0} /\ Unread'[p][2] = 1 /\ p + NFields - 1 \in Places'
        BY <3>1 DEF Heads
      <4>2. (p + NFields - 1) + NFields = (p + NFields) + NFields - 1
        BY <1>1, <4>1
      <4> QED
        BY <1>1, <3>1, <4>1, <4>2, NFields >= 3 DEF Heads
    <3>4. \A q \in Heads : q # 1 => \E p \in Heads' : Unread'[p] = Unread[q]
      <4> SUFFICES ASSUME NEW q \in Heads, q # 1 PROVE \E p \in Heads' : Unread'[p] = Unread[q]
        OBVIOUS
      <4>1. q \in Places /\ q \in Nat /\ q > NFields
        BY <2>7
      <4>2. PICK p : p = q - NFields
        OBVIOUS
      <4>3. /\ p \in Nat \ {0} /\ p + NFields = q
            /\ p + NFields - 1 \in Nat \ {0} /\ (p + NFields - 1) + NFields = q + NFields - 1
        BY <1>1, <4>1, <4>2, NFields >= 3
      <4>4. p \in Places' /\ p + NFields - 1 \in Places' /\ Unread'[p] = Unread[q]
        BY <3>1, <4>1, <4>3 DEF Heads
      <4> QED
        BY <4>4 DEF Heads
    <3> QED
      BY <2>3, <2>5, <2>7, <3>2, <3>3, <3>4
  <2>10. Store!Upload
    BY <1>1, <1>2, <1>3, <1>7, <2>4, <2>6, <2>8, <2>9 DEF Store!Upload, Store!Send, Store!tags
  <2> QED
    BY <2>10
<1> QED
  BY <1>6, <1>7

\* What the server gets is what was first on the way.
LEMMA HttpImplements ==
    ASSUME TypeOK, Http
    PROVE  Store!Arrive \/ Store!Lose
<1> USE DEF mainVars, userVars, audioVars, serverVars, fileState, history, Store!tags, Store!store
<1>1. /\ forms # <<>> /\ forms' = Tail(forms) /\ nextTag \in Nat
      /\ UNCHANGED <<fileOpen, cut, main, buf, dumped, signin, file, audio, sent, nextTag>>
  BY DEF Http, HttpPost, HttpFail, HttpLoseAnswer, Pop, TypeOK
<1>2. Unread' = Unread
  BY <1>1 DEF Unread, FirstCheckDue
<1>3. Hand' = Hand /\ Kept' = Kept /\ nextTag' - 1 = nextTag - 1
  BY <1>1, <1>2, SameKept DEF Hand
<1>4. Way # <<>> /\ Head(Way) = Letter(Head(forms)) /\ Way' = Tail(Way)
  BY <1>1, WayShrinks
<1>5. CASE UNCHANGED rows
  <2>1. Store!Lose
    BY <1>1, <1>3, <1>4, <1>5, SameArrived DEF Store!Lose
  <2> QED
    BY <2>1
<1>6. CASE Serve(Head(forms))
  <2> DEFINE form == Head(forms)
  <2>1. rows' = rows \cup (IF form.kind = "tag" THEN {form.row} ELSE {})
    BY <1>6 DEF Serve
  <2>2. Arrived' = {t \in 1..(nextTag - 1) : Row(t) \in rows'}
    BY <1>1 DEF Arrived, Row, FieldOf, Name
  <2>3. \A t \in 1..(nextTag - 1) : t = Letter(form) <=> form.kind = "tag" /\ form.row = Row(t)
    <3> SUFFICES ASSUME NEW t \in 1..(nextTag - 1)
                 PROVE  t = Letter(form) <=> form.kind = "tag" /\ form.row = Row(t)
      OBVIOUS
    <3>1. Row(t)[1][1] = t /\ t \in Nat \ {0}
      BY <1>1, PipelineAssumption DEF Row, FieldOf, PipelineAssumption
    <3> QED
      BY <3>1 DEF Letter
  <2> HIDE DEF form
  <2>4. Arrived' = Arrived \cup ({Letter(form)} \cap 1..(nextTag - 1))
    BY <2>1, <2>2, <2>3 DEF Arrived
  <2>5. Store!Arrive
    BY <1>1, <1>3, <1>4, <2>4 DEF Store!Arrive, form
  <2> QED
    BY <2>5
<1> QED
  BY <1>5, <1>6 DEF Http, HttpPost, HttpFail, HttpLoseAnswer

LEMMA RelaunchImplements ==
    ASSUME Relaunch
    PROVE  Store!Restart
<1>1. /\ audio' = "idle" /\ main' = "con_file" /\ signin' = "signedup" /\ forms' = <<>>
      /\ fileOpen' = FALSE /\ cut' = FALSE /\ UNCHANGED <<rows, nextTag>>
  BY DEF Relaunch, UserReboot, serverVars
<1>2. Unread' = <<>>
  BY <1>1 DEF Unread, FirstCheckDue
<1>3. Way' = <<>>
  BY <1>1 DEF Way
<1>4. Hand' = "done" /\ Kept' = {} /\ Arrived' = Arrived /\ nextTag' - 1 = nextTag - 1
  BY <1>1, <1>2, NothingKept, SameArrived DEF Hand
<1> QED
  BY <1>1, <1>3, <1>4 DEF Store!Restart

LEMMA InitImplements ==
    ASSUME Init
    PROVE  Store!Init
<1>1. /\ audio = "idle" /\ main = "con_file" /\ signin = "signedup" /\ forms = <<>>
      /\ fileOpen = FALSE /\ cut = FALSE /\ nextTag = 1 /\ rows = {}
  BY DEF Init, UserBoot
<1>2. Unread = <<>> /\ Way = <<>> /\ Arrived = {} /\ Hand = "done"
  BY <1>1 DEF Unread, FirstCheckDue, Way, Arrived, Hand
<1> QED
  BY <1>1, <1>2 DEF Store!Init, Kept, Heads, Places

\* Whatever the threads, iOS and the network do, for any number of tags, launches, waiting forms
\* and fields from three, tags fare as in a TagStore.
\* (DatabaseManager::newTagEvent, User::status_changed, dbConnect::parse_txt_file_to_tag)
THEOREM PipelineImplementsStore ==
    ASSUME ZeroedHeap, NFields >= 3
    PROVE  Spec => ImplementsStore
<1>1. Init => Store!Init
  BY InitImplements
<1>2. /\ TypeOK /\ TypeOK' /\ FileInv /\ DumpSeesStableFile /\ RaceInv /\ StoreInv
      /\ [Next]_vars
      => [Store!Next]_Store!vars
  <2> SUFFICES ASSUME TypeOK, TypeOK', FileInv, DumpSeesStableFile, RaceInv, StoreInv, [Next]_vars
               PROVE  [Store!Next]_Store!vars
    OBVIOUS
  <2>1. CASE Check \/ Focus \/ UpdateCertify \/ UpdateLogin \/ UpdateDump \/ DumpEnd \/ UpdateTimer
    BY <2>1, ZeroedHeap, MainStep, MainImplements DEF ZeroedHeap, RaceInv
  <2>2. CASE DumpTag
    BY <2>2, NFields >= 3, DumpImplements DEF Store!Next
  <2>3. CASE AddTag
    BY <2>3, NFields >= 3, AddTagImplements DEF Store!Next
  <2>4. CASE IfOnline \/ IfOffline \/ WriteTag
    BY <2>4, ReadStatusImplements, WriteImplements
  <2>5. CASE Http
    BY <2>5, HttpImplements DEF Store!Next
  <2>6. CASE Relaunch
    BY <2>6, RelaunchImplements DEF Store!Next
  <2>7. CASE UNCHANGED vars
    <3>1. /\ UNCHANGED <<fileOpen, cut, audio, sent, nextTag, forms, rows>> /\ Unread' = Unread
      BY <2>7 DEF vars, userVars, mainVars, audioVars, serverVars, history, fileState, Unread,
                  FirstCheckDue
    <3>2. Hand' = Hand
      BY <3>1 DEF Hand
    <3> QED
      BY <3>1, <3>2, SameKept, SameWay, SameArrived DEF Store!vars, Store!tags, Store!store
  <2> QED
    BY <2>1, <2>2, <2>3, <2>4, <2>5, <2>6, <2>7 DEF Next, Update, Audio
<1>3. Spec => []FileInv /\ []RaceInv /\ []StoreInv
  BY ZeroedHeap, NFields >= 3, FileInvariant, RaceAlways, StoreAlways, PTL DEF ZeroedHeap
<1> QED
  BY <1>1, <1>2, <1>3, TypeCorrect, StableFile, PTL DEF Spec, Store!Spec, ImplementsStore

\* A row that is no tag is queued only from a file that was opened or closed in the middle of a
\* tag; however long the app runs, RowsAreTags fails in no other way.
\* (DatabaseManager::newTagEvent, dbConnect::parse_txt_file_to_tag)
THEOREM TornByCutAlone ==
    ASSUME ZeroedHeap, NFields >= 3
    PROVE  Spec => TornOnlyByCut
<1> DEFINE Whole ==
        Len(forms') > Len(forms) /\ ~cut =>
            LET form == forms'[Len(forms')]
            IN  form.kind = "tag" => \E t \in 1..(nextTag - 1) : form.row = Row(t)
<1>1. /\ TypeOK /\ FileInv /\ DumpSeesStableFile /\ RaceInv /\ StoreInv /\ [Next]_vars
      => Whole
  <2> SUFFICES ASSUME TypeOK, FileInv, DumpSeesStableFile, RaceInv, StoreInv, [Next]_vars,
                      Len(forms') > Len(forms), ~cut, forms'[Len(forms')].kind = "tag"
               PROVE  \E t \in 1..(nextTag - 1) : forms'[Len(forms')].row = Row(t)
    OBVIOUS
  <2>1. forms \in Seq(Form) /\ Len(forms) \in Nat /\ nextTag \in Nat /\ forms' # forms
    BY DEF TypeOK
  <2>2. \A form \in Form : addForm(form) => forms'[Len(forms')] = form
    BY <2>1 DEF addForm
  <2>3. CASE Check \/ Focus \/ UpdateCertify \/ UpdateLogin \/ UpdateDump \/ DumpEnd \/ UpdateTimer
    BY <2>1, <2>2, <2>3, ZeroedHeap, MainStep DEF ZeroedHeap, RaceInv, MainHandler
  <2>4. CASE DumpTag
    <3>1. 1 \in Places /\ TagForm(NextTag) \in Form /\ addForm(TagForm(NextTag))
      BY <2>4, NextTagBegins DEF addForm
    <3>2. PICK t \in 1..(nextTag - 1) : RowAt(1, t)
      BY <3>1, FirstRow
    <3>3. NextTag = Row(t)
      BY <2>4, <3>2, NextTagWhole
    <3> QED
      BY <2>2, <3>1, <3>3 DEF TagForm
  <2>5. CASE IfOnline
    <3>1. tag \in 1..(nextTag - 1) /\ addForm(TagForm(Row(tag)))
      BY <2>1, <2>5 DEF IfOnline, RaceInv, AudioInv
    <3>2. TagForm(Row(tag)) \in Form
      BY <2>1, <3>1, RowType, TagFormType
    <3> QED
      BY <2>2, <3>1, <3>2 DEF TagForm
  <2>6. CASE AddTag \/ IfOffline \/ WriteTag \/ UNCHANGED vars
    BY <2>1, <2>6 DEF AddTag, IfOffline, WriteTag, vars
  <2>7. CASE Http
    <3>1. forms # <<>> /\ forms' = Tail(forms)
      BY <2>7 DEF Http, HttpPost, HttpFail, HttpLoseAnswer, Pop
    <3> QED
      BY <2>1, <3>1
  <2>8. CASE Relaunch
    BY <2>1, <2>8 DEF Relaunch
  <2> QED
    BY <2>3, <2>4, <2>5, <2>6, <2>7, <2>8 DEF Next, Update, Audio
<1>2. Spec => []FileInv /\ []RaceInv /\ []StoreInv
  BY ZeroedHeap, NFields >= 3, FileInvariant, RaceAlways, StoreAlways, PTL DEF ZeroedHeap
<1>3. Whole => [Whole]_vars
  OBVIOUS
<1> QED
  BY <1>1, <1>2, TypeCorrect, StableFile, PTL DEF Spec, TornOnlyByCut, Whole
=============================================================================
