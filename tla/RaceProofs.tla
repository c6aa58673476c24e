------------------------------ MODULE RaceProofs ------------------------------
(***************************************************************************)
(* A tag reaches the server twice in one way only, by the double read of   *)
(* the status in newTagEvent(): for any number of tags, launches, waiting  *)
(* forms and fields from three, if the fields User() leaves uninitialised  *)
(* are zero and t.txt can be opened.                                       *)
(***************************************************************************)
EXTENDS TagPipelineProofs

ZeroedHeap == BootFlags \subseteq {FALSE} /\ BootB \subseteq {0} /\ OpenResults \subseteq {TRUE}

\* A row is told from others by its first two fields, of which one at least is not the name.
Key(r) == {r[1], r[2]} \ {Name}

\* Fields of recordings that have begun.
Begun(m) == m[1] \in 1..(nextTag - 1) /\ m[2] \in Nat

\* The tag forms that wait, and the rows that were uploaded.
TagForms == {k \in 1..Len(forms) : forms[k].kind = "tag"}
Sent     == rows \cup {forms[k].row : k \in TagForms}

Keyed(r) == Key(r) # {} /\ \A m \in Key(r) : Begun(m)

\* The row is that of a tag both uploaded and written.
Raced(r, m) == m[1] \in both /\ r = Row(m[1])

\* What was sent is not in the file to be sent again, ...
NotUnread(r) == \A p \in Places : Unread[p] \in Key(r) => Raced(r, Unread[p])

\* ... nor still to be sent or written by the audio thread, unless by the race.
NotAhead(r) ==
    \A m \in Key(r) : m[1] = tag =>
        /\ audio # "if_online"
        /\ audio = "if_offline" => r = Row(tag) /\ sent
        /\ audio = "write" /\ m[2] >= field => Raced(r, m)

\* Two rows have a field in common only by the race.
Apart(r, s) == \A m \in Key(r) \cap Key(s) : Raced(r, m) \/ Raced(s, m)

SentInv == \A r \in Sent : Keyed(r) /\ NotUnread(r) /\ NotAhead(r)

ApartInv ==
    /\ \A k, l \in TagForms : k # l => Apart(forms[k].row, forms[l].row)
    /\ \A k \in TagForms, r \in rows : Apart(forms[k].row, r)

\* No field but the name is in the file twice, and names do not follow one another.
UnreadInv ==
    /\ \A p \in Places : Unread[p] # Name => Begun(Unread[p])
    /\ \A p, q \in Places : Unread[p] = Unread[q] /\ Unread[p] # Name => p = q
    /\ \A p, q \in Places : q = p + 1 /\ Unread[p] = Name => Unread[q] # Name

\* The tag in the hands of newTagEvent() is the last one; of its lines only those already
\* written can be in the file.
AudioInv ==
    /\ nextTag >= 1
    /\ audio # "idle" => tag \in 1..(nextTag - 1)
    /\ audio \in {"if_online", "if_offline"} => field = 1
    /\ audio # "idle" => \A p \in Places : Unread[p][1] = tag => audio = "write" /\ Unread[p][2] < field
    /\ audio = "write" /\ field > 1 /\ fileOpen /\ Unread # <<>> => Unread[Len(Unread)] # Name

\* The first check of a launch is made in the background.
LaunchInv == FirstCheckDue => ~foreground

RaceInv == TwiceOnlyByRace /\ SentInv /\ ApartInv /\ UnreadInv /\ AudioInv /\ LaunchInv

-----------------------------------------------------------------------------
(* Rows, forms and the unread part of the file *)

LEMMA NameOfNobody == Name[1] = 0
  BY DEF Name

LEMMA KeyOfRow ==
    ASSUME NFields >= 3, NEW t \in Nat
    PROVE  Key(Row(t)) \subseteq {<<t, 1>>, <<t, 2>>} /\ (t # 0 => Key(Row(t)) = {<<t, 1>>, <<t, 2>>})
<1>1. Row(t)[1] = <<t, 1>> /\ Row(t)[2] = <<t, 2>>
  BY PipelineAssumption DEF Row, FieldOf, PipelineAssumption
<1>2. t # 0 => <<t, 1>> # Name /\ <<t, 2>> # Name
  BY DEF Name
<1> QED
  BY <1>1, <1>2 DEF Key

\* Tag forms stay what they are when another form is added.
SameTags ==
    /\ TagForms' = TagForms
    /\ \A k \in TagForms : forms'[k].row = forms[k].row

LEMMA OtherFormAdded ==
    ASSUME TypeOK, NEW form \in Form, form.kind # "tag", addForm(form)
    PROVE  SameTags
<1>1. /\ Len(forms) \in Nat /\ Len(forms') = Len(forms) + 1 /\ forms'[Len(forms) + 1] = form
      /\ \A k \in 1..Len(forms) : forms'[k] = forms[k]
  BY DEF TypeOK, addForm
<1> QED
  BY <1>1 DEF SameTags, TagForms

LEMMA SameSent ==
    ASSUME SameTags, UNCHANGED rows
    PROVE  Sent' = Sent
  BY DEF SameTags, Sent

\* Nothing is written to a file that is not to be read.
LEMMA OpenIsUnread ==
    ASSUME FileInv, DumpSeesStableFile, fileOpen
    PROVE  Unread = file /\ main # "dump" /\ ~dumped /\ ~FirstCheckDue
  BY DEF FileInv, FirstCheck, OpenWhileOffline, DumpedIsDone, DumpSeesStableFile, Unread,
         FirstCheckDue

\* Steps of the main thread that read or empty the file, or leave it alone.
LEMMA RaceFrame ==
    ASSUME RaceInv, SameTags, UNCHANGED <<rows, twice, both, nextTag, audioVars>>,
           Unread' = Unread \/ Unread' = <<>>,
           fileOpen' => fileOpen \/ Unread' = <<>>,
           LaunchInv'
    PROVE  RaceInv'
<1> USE DEF audioVars
<1>1. TwiceOnlyByRace'
  BY DEF RaceInv, TwiceOnlyByRace, Row, FieldOf, Name
<1>2. Places' \subseteq Places /\ \A p \in Places' : Unread'[p] = Unread[p]
  BY DEF Places
<1>3. SentInv'
  <2>1. Sent' = Sent
    BY SameSent
  <2>2. \A r, m : Raced(r, m)' <=> Raced(r, m)
    BY DEF Raced, Row, FieldOf, Name
  <2>3. \A r : Key(r)' = Key(r)
    BY DEF Key, Name
  <2>4. \A m : Begun(m)' <=> Begun(m)
    BY DEF Begun
  <2> QED
    BY <1>2, <2>1, <2>2, <2>3, <2>4 DEF RaceInv, SentInv, Keyed, NotUnread, NotAhead, Row
<1>4. ApartInv'
  <2>1. \A r, t : Apart(r, t)' <=> Apart(r, t)
    BY DEF Apart, Key, Name, Raced, Row, FieldOf
  <2> QED
    BY <2>1 DEF RaceInv, ApartInv, SameTags
<1>5. UnreadInv'
  BY <1>2 DEF RaceInv, UnreadInv, Begun, Name
<1>6. AudioInv'
  BY <1>2 DEF RaceInv, AudioInv, Name
<1> QED
  BY <1>1, <1>3, <1>4, <1>5, <1>6 DEF RaceInv

-----------------------------------------------------------------------------
(* The main thread *)

\* status_changed() empties the file or changes nothing for it.
LEMMA StatusChangedUnread ==
    ASSUME TypeOK, OpenResults \subseteq {TRUE}, FileInv, LaunchInv, StatusChanged,
           main # "dump", main' \notin {"dump", "con_file"}
    PROVE  /\ Unread' = Unread \/ Unread' = <<>>
           /\ fileOpen' => fileOpen \/ Unread' = <<>>
<1>1. dumped \in BOOLEAN
  BY DEF TypeOK
<1>2. FirstCheckDue <=> b = 0
  BY DEF FileInv, FirstCheck, FirstCheckDue
<1>3. FirstCheckDue => getStatus = -1
  BY DEF LaunchInv, getStatus
<1>4. Unread' = IF dumped' THEN <<>> ELSE file'
  BY DEF Unread, FirstCheckDue
<1>5. Unread = IF dumped \/ b = 0 THEN <<>> ELSE file
  BY <1>2 DEF Unread
<1>6. CASE UNCHANGED <<fileState, file, dumped>> /\ b # 0
  BY <1>4, <1>5, <1>6 DEF fileState
<1>7. CASE b \in {0, 1} /\ b' = -1 /\ file' = <<>> /\ dumped' = FALSE
  BY <1>4, <1>7
<1>8. CASE /\ b \in {-1, 0} /\ b' = 1 /\ fileOpen' = FALSE
           /\ dumped' = FALSE /\ file' = file
  <2>1. b' = getStatus
    BY <1>1, StatusChangedCases
  <2>2. b = -1
    BY <1>2, <1>3, <1>8, <2>1
  <2>3. ~dumped
    BY <2>2 DEF FileInv, DumpedIsDone
  <2> QED
    BY <1>4, <1>5, <1>8, <2>2, <2>3
<1> QED
  BY <1>1, <1>6, <1>7, <1>8, StatusChangedCases

\* Handlers of the main thread that are not about the file.
LEMMA UnreadFrame ==
    ASSUME UNCHANGED <<file, buf, dumped>>, main # "dump", main' # "dump",
           FirstCheckDue' <=> FirstCheckDue
    PROVE  Unread' = Unread
  BY DEF Unread

\* The step keeps the first check in the background.
LEMMA NotLaunching ==
    ASSUME main' # "con_file" \/ signin' # "signedup"
    PROVE  LaunchInv'
  BY DEF LaunchInv, FirstCheckDue

LEMMA MainKeepsRace ==
    ASSUME TypeOK, OpenResults \subseteq {TRUE}, FileInv, DumpSeesStableFile, RaceInv,
           \/ Check \/ Focus
           \/ UpdateCertify \/ UpdateLogin \/ UpdateDump \/ DumpEnd \/ UpdateTimer
    PROVE  RaceInv'
<1> USE DEF userVars, mainVars, audioVars, serverVars, history, flags, fileState, Goto
<1>0. LaunchInv
  BY DEF RaceInv
<1>1. UNCHANGED forms => SameTags
  BY DEF SameTags, TagForms
<1>2. addForm(StatusForm(getStatus)) \/ addForm(CertifyForm) \/ addForm(FriendsForm) => SameTags
  <2>1. /\ StatusForm(getStatus).kind # "tag" /\ CertifyForm.kind # "tag"
        /\ FriendsForm.kind # "tag"
    BY DEF StatusForm, CertifyForm, FriendsForm
  <2> QED
    BY <2>1, OtherFormAdded, StatusFormType, OtherFormType
<1>3. CASE CheckFile \/ FocusFile
  <2>1. /\ StatusChanged /\ main \in {"con_file", "focus_file"} /\ main' \in {"con_get", "idle"}
        /\ UNCHANGED <<forms, rows, twice, both, nextTag, audioVars>>
    BY <1>3 DEF CheckFile, FocusFile
  <2> QED
    BY <1>0, <1>1, <2>1, StatusChangedUnread, NotLaunching, RaceFrame
<1>4. CASE CheckGet \/ CheckReport \/ CheckAsk
  <2>1. /\ main \in {"con_get", "con_report", "con_ask"}
        /\ main' \in {"con_report", "con_ask", "idle"}
        /\ UNCHANGED <<file, buf, dumped, fileOpen>>
        /\ UNCHANGED <<rows, twice, both, nextTag, audioVars>>
    BY <1>4 DEF CheckGet, CheckReport, CheckAsk, AfterGet
  <2>2. SameTags
    BY <1>1, <1>2, <1>4 DEF CheckGet, CheckReport, CheckAsk
  <2>3. Unread' = Unread
    BY <2>1, UnreadFrame DEF FirstCheckDue
  <2> QED
    BY <2>1, <2>2, <2>3, NotLaunching, RaceFrame
<1>5. CASE UpdateCertify \/ UpdateLogin \/ UpdateTimer
  <2>1. /\ main = "idle" /\ main' \in {"idle", "con_file"} /\ (main' # "idle" => signin' = "login")
        /\ UNCHANGED <<file, buf, dumped, fileOpen>>
        /\ UNCHANGED <<rows, twice, both, nextTag, audioVars>>
    BY <1>5 DEF UpdateCertify, UpdateLogin, UpdateTimer, Updates, Starts
  <2>2. SameTags
    BY <1>1, <1>2, <1>5 DEF UpdateCertify, UpdateLogin, UpdateTimer
  <2>3. Unread' = Unread
    BY <2>1, UnreadFrame DEF FirstCheckDue
  <2> QED
    BY <2>1, <2>2, <2>3, NotLaunching, RaceFrame
<1>6. CASE GotFocus \/ LostFocus \/ FocusStatus \/ Exit
  <2>1. /\ main \in {"idle", "focus_status"} /\ main' \in {"idle", "focus_status", "focus_file"}
        /\ UNCHANGED <<file, buf, dumped, fileOpen>>
        /\ UNCHANGED <<rows, twice, both, nextTag, audioVars>>
    BY <1>6 DEF GotFocus, LostFocus, FocusStatus, Exit, Starts
  <2>2. SameTags
    BY <1>1, <1>2, <1>6 DEF GotFocus, LostFocus, FocusStatus, Exit
  <2>3. Unread' = Unread
    BY <2>1, UnreadFrame DEF FirstCheckDue
  <2> QED
    BY <2>1, <2>2, <2>3, NotLaunching, RaceFrame
<1>7. CASE UpdateDump
  <2>1. /\ main = "idle" /\ main' = "dump" /\ signin = "login" /\ ~dumped /\ buf' = file
        /\ UNCHANGED <<forms, fileOpen, rows, twice, both, nextTag, audioVars>>
    BY <1>7 DEF UpdateDump, UploadPending, Updates, Starts, FileInv, DumpedIsDone
  <2>2. Unread' = Unread
    BY <2>1 DEF Unread, FirstCheckDue
  <2> QED
    BY <1>1, <2>1, <2>2, NotLaunching, RaceFrame
<1>8. CASE DumpEnd
  <2>1. /\ main' = "idle" /\ dumped'
        /\ UNCHANGED <<forms, fileOpen, rows, twice, both, nextTag, audioVars>>
    BY <1>8 DEF DumpEnd
  <2>2. Unread' = <<>>
    BY <2>1 DEF Unread
  <2> QED
    BY <1>1, <2>1, <2>2, NotLaunching, RaceFrame
<1> QED
  BY <1>3, <1>4, <1>5, <1>6, <1>7, <1>8 DEF Check, Focus

-----------------------------------------------------------------------------
(* The audio thread *)

\* A new recording has no field anywhere yet.
LEMMA AddTagKeepsRace ==
    ASSUME TypeOK, RaceInv, AddTag
    PROVE  RaceInv'
<1> USE DEF userVars, mainVars, audioVars, serverVars, history, flags, fileState
<1>1. /\ audio' = "if_online" /\ tag' = nextTag /\ field' = 1 /\ nextTag' = nextTag + 1
      /\ UNCHANGED <<userVars, mainVars, check, forms, serverVars, session, history>>
  BY DEF AddTag
<1>2. Unread' = Unread /\ Places' = Places /\ Sent' = Sent /\ nextTag \in Nat
  BY <1>1 DEF Unread, FirstCheckDue, Places, Sent, TagForms, TypeOK
<1>3. \A m : Begun(m) => Begun(m)' /\ m[1] # tag'
  BY <1>1, <1>2 DEF Begun
<1>4. /\ \A r : Key(r)' = Key(r)
      /\ \A r, m : Raced(r, m)' <=> Raced(r, m)
  BY <1>1 DEF Key, Name, Raced, Row, FieldOf
<1>5. TwiceOnlyByRace'
  BY <1>1 DEF RaceInv, TwiceOnlyByRace, Row, FieldOf, Name
<1>6. SentInv'
  BY <1>1, <1>2, <1>3, <1>4 DEF RaceInv, SentInv, Keyed, NotUnread, NotAhead
<1>7. ApartInv'
  BY <1>1, <1>4 DEF RaceInv, ApartInv, Apart, TagForms
<1>8. UnreadInv'
  BY <1>2, <1>3 DEF RaceInv, UnreadInv, Name
<1>9. AudioInv'
  <2>1. nextTag >= 1
    BY DEF RaceInv, AudioInv
  <2>2. \A p \in Places : Unread[p][1] # tag'
    BY <1>1, <1>2, <1>3, <2>1, NameOfNobody DEF RaceInv, UnreadInv
  <2> QED
    BY <1>1, <1>2, <2>1, <2>2 DEF AudioInv
<1>10. LaunchInv'
  BY <1>1 DEF RaceInv, LaunchInv, FirstCheckDue
<1> QED
  BY <1>5, <1>6, <1>7, <1>8, <1>9, <1>10 DEF RaceInv

\* Uploading a tag: none of its fields is anywhere yet.
LEMMA IfOnlineKeepsRace ==
    ASSUME TypeOK, NFields >= 3, RaceInv, IfOnline
    PROVE  RaceInv'
<1> USE DEF userVars, mainVars, audioVars, serverVars, history, flags, fileState
<1>1. /\ audio = "if_online" /\ audio' = "if_offline" /\ tag \in Nat \ {0}
      /\ UNCHANGED <<userVars, mainVars, check, tag, field, nextTag, serverVars, session, history>>
  BY DEF IfOnline, RaceInv, AudioInv, TypeOK
<1>2. Unread' = Unread /\ Places' = Places
  BY <1>1 DEF Unread, FirstCheckDue, Places
<1>3. /\ \A r : Key(r)' = Key(r)
      /\ \A r, m : Raced(r, m)' <=> Raced(r, m)
      /\ \A m : Begun(m)' <=> Begun(m)
      /\ Row(tag)' = Row(tag)
  BY <1>1 DEF Key, Name, Raced, Row, FieldOf, Begun
<1>4. TwiceOnlyByRace' /\ UnreadInv' /\ LaunchInv'
  BY <1>1, <1>2, <1>3
  DEF RaceInv, TwiceOnlyByRace, UnreadInv, LaunchInv, FirstCheckDue, Row, FieldOf, Name
<1>5. \A p \in Places : Unread[p][1] # tag
  BY <1>1 DEF RaceInv, AudioInv
<1>6. AudioInv'
  BY <1>1, <1>2, <1>5 DEF RaceInv, AudioInv
<1>7. \A r \in Sent : \A m \in Key(r) : m[1] # tag
  BY <1>1 DEF RaceInv, SentInv, NotAhead
<1>8. CASE UNCHANGED forms
  <2>1. Sent' = Sent /\ TagForms' = TagForms
    BY <1>1, <1>8 DEF Sent, TagForms
  <2>2. SentInv'
    BY <1>1, <1>2, <1>3, <1>7, <2>1 DEF RaceInv, SentInv, Keyed, NotUnread, NotAhead
  <2>3. ApartInv'
    BY <1>1, <1>3, <1>8, <2>1 DEF RaceInv, ApartInv, Apart
  <2> QED
    BY <1>4, <1>6, <2>2, <2>3 DEF RaceInv
<1>9. CASE addForm(TagForm(Row(tag))) /\ sent'
  <2> DEFINE row == Row(tag)
             last == Len(forms) + 1
  <2>1. /\ TagForms' = TagForms \cup {last} /\ forms'[last].row = row /\ last \notin TagForms
        /\ \A k \in TagForms : forms'[k] = forms[k]
    <3>1. forms \in Seq(Form) /\ Len(forms) \in Nat /\ TagForm(row).kind = "tag" /\ TagForm(row).row = row
      BY DEF TypeOK, TagForm
    <3>2. forms' = Append(forms, TagForm(row))
      BY <1>9 DEF addForm
    <3> HIDE DEF row
    <3>3. Len(forms') = last /\ forms'[last] = TagForm(row) /\ \A k \in 1..Len(forms) : forms'[k] = forms[k]
      BY <3>1, <3>2
    <3> QED
      BY <3>1, <3>3 DEF TagForms
  <2>2. Sent' = Sent \cup {row}
    BY <1>1, <2>1 DEF Sent
  <2>3. Key(row) = {<<tag, 1>>, <<tag, 2>>}
    BY <1>1, KeyOfRow
  <2>4. Begun(<<tag, 1>>) /\ Begun(<<tag, 2>>)
    BY <1>1 DEF RaceInv, AudioInv, Begun
  <2>5. \A m \in Key(row) : m[1] = tag
    BY <2>3
  <2> HIDE DEF row
  <2>6. row = Row(tag)
    BY DEF row
  <2>7. ASSUME NEW r, r = row PROVE (Keyed(r) /\ NotUnread(r) /\ NotAhead(r))'
    <3>1. Keyed(r)'
      BY <1>3, <2>3, <2>4, <2>6, <2>7 DEF Keyed
    <3>2. NotUnread(r)'
      BY <1>2, <1>3, <1>5, <2>5, <2>7 DEF NotUnread
    <3>3. NotAhead(r)'
      BY <1>1, <1>3, <1>9, <2>6, <2>7 DEF NotAhead
    <3> QED
      BY <3>1, <3>2, <3>3
  <2>8. ASSUME NEW r \in Sent PROVE (Keyed(r) /\ NotUnread(r) /\ NotAhead(r))'
    BY <1>1, <1>2, <1>3, <1>7 DEF RaceInv, SentInv, Keyed, NotUnread, NotAhead
  <2>9. SentInv'
    BY <2>2, <2>7, <2>8 DEF SentInv
  <2>10. \A r \in Sent : Apart(r, row) /\ Apart(row, r)
    BY <1>7, <2>5 DEF Apart
  <2>11. \A r, s : Apart(r, s)' <=> Apart(r, s)
    BY <1>3 DEF Apart
  <2>12. ApartInv'
    BY <1>1, <2>1, <2>10, <2>11 DEF RaceInv, ApartInv, Sent
  <2> QED
    BY <1>4, <1>6, <2>9, <2>12 DEF RaceInv
<1> QED
  BY <1>8, <1>9 DEF IfOnline

\* A tag that was uploaded and is now to be written: the race.
LEMMA IfOfflineKeepsRace ==
    ASSUME TypeOK, RaceInv, IfOffline
    PROVE  RaceInv'
<1> USE DEF userVars, mainVars, audioVars, serverVars, history, flags, fileState
<1>1. /\ audio = "if_offline" /\ audio' \in {"write", "idle"}
      /\ both \subseteq both' /\ (audio' = "write" /\ sent => tag \in both')
      /\ UNCHANGED <<userVars, mainVars, check, tag, field, sent, nextTag, forms, serverVars,
                     session, dumped>>
  BY DEF IfOffline
<1>2. Unread' = Unread /\ Places' = Places /\ Sent' = Sent /\ TagForms' = TagForms
  BY <1>1 DEF Unread, FirstCheckDue, Places, Sent, TagForms
<1>3. /\ \A r : Key(r)' = Key(r)
      /\ \A r, m : Raced(r, m) => Raced(r, m)'
      /\ \A m : Begun(m)' <=> Begun(m)
      /\ Row(tag)' = Row(tag)
  BY <1>1 DEF Key, Name, Raced, Row, FieldOf, Begun
<1>4. TwiceOnlyByRace'
  BY <1>1 DEF RaceInv, TwiceOnlyByRace, Row, FieldOf, Name
<1>5. UnreadInv' /\ LaunchInv'
  BY <1>1, <1>2, <1>3 DEF RaceInv, UnreadInv, LaunchInv, FirstCheckDue, Name
<1>6. SentInv'
  <2> SUFFICES ASSUME NEW r \in Sent PROVE (Keyed(r) /\ NotUnread(r) /\ NotAhead(r))'
    BY <1>2 DEF SentInv
  <2>1. Keyed(r)' /\ NotUnread(r)'
    BY <1>1, <1>2, <1>3 DEF RaceInv, SentInv, Keyed, NotUnread
  <2>2. NotAhead(r)'
    <3> SUFFICES ASSUME NEW m \in Key(r), m[1] = tag PROVE audio' = "write" => Raced(r, m)'
      BY <1>1, <1>3 DEF NotAhead
    <3>1. r = Row(tag) /\ sent
      BY <1>1 DEF RaceInv, SentInv, NotAhead
    <3> QED
      BY <1>1, <1>3, <3>1 DEF Raced, Row, FieldOf, Name
  <2> QED
    BY <2>1, <2>2
<1>7. ApartInv'
  BY <1>1, <1>2, <1>3 DEF RaceInv, ApartInv, Apart
<1>8. AudioInv'
  BY <1>1, <1>2 DEF RaceInv, AudioInv
<1> QED
  BY <1>4, <1>5, <1>6, <1>7, <1>8 DEF RaceInv

\* The next line of the tag: behind it the file ends as AudioInv says.
LEMMA WriteTagKeepsRace ==
    ASSUME TypeOK, NFields >= 3, FileInv, DumpSeesStableFile, RaceInv, WriteTag
    PROVE  RaceInv'
<1> USE DEF userVars, mainVars, audioVars, serverVars, history, flags, fileState
<1> DEFINE new == FieldOf(tag, field)
           last == Len(Unread) + 1
<1>1. /\ audio = "write" /\ tag \in Nat \ {0} /\ Begun(<<tag, field>>) /\ field \in 1..NFields
      /\ UNCHANGED <<fileState, flags, mainVars, check, tag, sent, nextTag, forms, serverVars,
                     session, history>>
  BY DEF WriteTag, WriteField, RaceInv, AudioInv, TypeOK, Begun
<1>2. \/ audio' = "write" /\ field' = field + 1 /\ field < NFields
      \/ audio' = "idle" /\ field' = field
  BY DEF WriteTag, MoreFields
<1>3. /\ Sent' = Sent /\ TagForms' = TagForms
      /\ \A r : Key(r)' = Key(r)
      /\ \A r, m : Raced(r, m)' <=> Raced(r, m)
      /\ \A m : Begun(m)' <=> Begun(m)
  BY <1>1 DEF Sent, TagForms, Key, Name, Raced, Row, FieldOf, Begun
<1>4. TwiceOnlyByRace' /\ LaunchInv'
  BY <1>1 DEF RaceInv, TwiceOnlyByRace, LaunchInv, FirstCheckDue, Row, FieldOf, Name
<1>5. ApartInv'
  BY <1>1, <1>3 DEF RaceInv, ApartInv, Apart
<1>6. ASSUME NEW r \in Sent PROVE Keyed(r)' /\ NotAhead(r)'
  <2>1. Keyed(r)'
    BY <1>3 DEF RaceInv, SentInv, Keyed
  <2>2. NotAhead(r)'
    <3> SUFFICES ASSUME NEW m \in Key(r), m[1] = tag, audio' = "write", m[2] >= field + 1
                 PROVE  Raced(r, m)
      BY <1>1, <1>2, <1>3 DEF NotAhead
    <3>1. m[2] \in Nat
      BY DEF RaceInv, SentInv, Keyed, Begun
    <3>2. m[2] >= field
      BY <1>1, <3>1
    <3> QED
      BY <1>1, <3>2 DEF RaceInv, SentInv, NotAhead
  <2> QED
    BY <2>1, <2>2
<1>7. CASE ~fileOpen
  <2>1. Unread' = Unread /\ Places' = Places
    BY <1>1, <1>7 DEF WriteTag, WriteField, Unread, FirstCheckDue, Places
  <2>2. SentInv'
    BY <1>3, <1>6, <2>1 DEF RaceInv, SentInv, NotUnread
  <2>3. UnreadInv'
    BY <1>3, <2>1 DEF RaceInv, UnreadInv, Name
  <2>4. AudioInv'
    <3>1. ASSUME NEW p \in Places, Unread[p][1] = tag, audio' = "write"
          PROVE  Unread[p][2] < field'
      <4>1. Unread[p][2] < field /\ Unread[p] # Name
        BY <1>1, <3>1, NameOfNobody DEF RaceInv, AudioInv
      <4>2. Unread[p][2] \in Nat
        BY <4>1 DEF RaceInv, UnreadInv, Begun
      <4> QED
        BY <1>1, <1>2, <3>1, <4>1, <4>2
    <3> QED
      BY <1>1, <1>2, <1>7, <2>1, <3>1 DEF RaceInv, AudioInv
  <2> QED
    BY <1>4, <1>5, <2>2, <2>3, <2>4 DEF RaceInv
<1>8. CASE fileOpen
  <2>1. Unread = file /\ main # "dump" /\ ~dumped /\ ~FirstCheckDue /\ file \in Seq(Field)
    BY <1>8, OpenIsUnread DEF TypeOK
  <2>2. Unread' = Append(Unread, new)
    BY <1>1, <1>8, <2>1 DEF WriteTag, WriteField, Unread, FirstCheckDue
  <2>3. IF field = NFields THEN new = Name ELSE new = <<tag, field>> /\ new # Name
    BY <1>1 DEF FieldOf, Name
  <2> HIDE DEF new
  <2>4. /\ Len(Unread) \in Nat /\ Len(Unread') = last /\ Unread'[last] = new
        /\ \A p \in Places : Unread'[p] = Unread[p]
    BY <2>1, <2>2 DEF Places
  <2>5. Places' = Places \cup {last} /\ \A p \in Places : p < last /\ p \in Nat
    BY <2>4 DEF Places
  <2>6. \A p \in Places : Unread[p] = <<tag, field>> => FALSE
    BY <1>1 DEF RaceInv, AudioInv
  <2>7. SentInv'
    <3> SUFFICES ASSUME NEW r \in Sent PROVE NotUnread(r)'
      BY <1>3, <1>6 DEF SentInv
    <3> SUFFICES ASSUME NEW p \in Places', Unread'[p] \in Key(r) PROVE Raced(r, Unread'[p])
      BY <1>3 DEF NotUnread
    <3>1. CASE p \in Places
      BY <2>4, <3>1 DEF RaceInv, SentInv, NotUnread
    <3>2. CASE p = last
      <4>1. new \in Key(r) /\ new # Name
        BY <2>4, <3>2 DEF Key
      <4>2. new = <<tag, field>>
        BY <2>3, <4>1
      <4>3. Raced(r, <<tag, field>>)
        BY <1>1, <4>1, <4>2 DEF RaceInv, SentInv, NotAhead
      <4> QED
        BY <2>4, <3>2, <4>2, <4>3
    <3> QED
      BY <2>5, <3>1, <3>2
  <2>8. UnreadInv'
    <3>1. \A p \in Places' : Unread'[p] # Name => Begun(Unread'[p])
      BY <1>1, <2>3, <2>4, <2>5 DEF RaceInv, UnreadInv
    <3>2. ASSUME NEW p \in Places', NEW q \in Places', Unread'[p] = Unread'[q], Unread'[p] # Name
          PROVE  p = q
      <4>1. CASE p \in Places /\ q \in Places
        BY <2>4, <3>2, <4>1 DEF RaceInv, UnreadInv
      <4>2. CASE p = last \/ q = last
        BY <2>3, <2>4, <2>5, <2>6, <3>2, <4>2
      <4> QED
        BY <2>5, <4>1, <4>2
    <3>3. ASSUME NEW p \in Places', NEW q \in Places', q = p + 1, Unread'[p] = Name, Unread'[q] = Name
          PROVE  FALSE
      <4>1. CASE q \in Places
        <5>1. p \in Places
          BY <2>4, <2>5, <3>3, <4>1 DEF Places
        <5> QED
          BY <2>4, <3>3, <4>1, <5>1 DEF RaceInv, UnreadInv
      <4>2. CASE q = last
        <5>1. p = Len(Unread) /\ p \in Places
          BY <2>4, <2>5, <3>3, <4>2 DEF Places
        <5>2. field = NFields /\ Unread # <<>>
          BY <2>3, <2>4, <3>3, <4>2, <5>1 DEF Places
        <5>3. Unread[p] # Name
          BY <1>1, <1>8, <5>1, <5>2, NFields >= 3 DEF RaceInv, AudioInv
        <5> QED
          BY <2>4, <3>3, <5>1, <5>3
      <4> QED
        BY <2>5, <4>1, <4>2
    <3>4. Name' = Name
      BY DEF Name
    <3> QED
      BY <1>3, <3>1, <3>2, <3>3, <3>4 DEF UnreadInv
  <2>9. AudioInv'
    <3>1. ASSUME NEW p \in Places', Unread'[p][1] = tag, audio' = "write"
          PROVE  Unread'[p][2] < field'
      <4>1. CASE p \in Places
        <5>1. Unread[p][2] < field /\ Unread[p] # Name
          BY <1>1, <2>4, <3>1, <4>1, NameOfNobody DEF RaceInv, AudioInv
        <5>2. Unread[p][2] \in Nat
          BY <4>1, <5>1 DEF RaceInv, UnreadInv, Begun
        <5> QED
          BY <1>1, <1>2, <2>4, <3>1, <4>1, <5>1, <5>2
      <4>2. CASE p = last
        BY <1>1, <1>2, <2>3, <2>4, <3>1, <4>2
      <4> QED
        BY <2>5, <4>1, <4>2
    <3>2. audio' = "write" => Unread'[Len(Unread')] # Name
      BY <1>1, <1>2, <2>3, <2>4
    <3>3. Name' = Name /\ nextTag' >= 1 /\ tag' \in 1..(nextTag' - 1)
      BY <1>1 DEF Name, RaceInv, AudioInv
    <3> QED
      BY <1>1, <1>2, <3>1, <3>2, <3>3 DEF AudioInv
  <2> QED
    BY <1>4, <1>5, <2>7, <2>8, <2>9 DEF RaceInv
<1> QED
  BY <1>7, <1>8

-----------------------------------------------------------------------------
(* The upload of the file *)

\* The copy loses the places of one tag.
LEMMA RestOfCopy ==
    ASSUME TypeOK, DumpTag
    PROVE  /\ Places' = {p \in Nat \ {0} : p + NFields \in Places}
           /\ \A p \in Places' : Unread'[p] = Unread[p + NFields]
<1>1. /\ buf \in Seq(Field) /\ Len(buf) \in Nat /\ NFields \in Nat
      /\ buf' = SubSeq(buf, NFields + 1, Len(buf))
  BY PipelineAssumption DEF TypeOK, DumpTag, PipelineAssumption
<1>2. Unread = buf /\ Unread' = buf' /\ Places = 1..Len(buf)
  BY DEF DumpTag, mainVars, Unread, Places
<1>3. CASE Len(buf) < NFields
  <2>1. buf' = <<>>
    BY <1>1, <1>3
  <2> QED
    BY <1>1, <1>2, <1>3, <2>1 DEF Places
<1>4. CASE Len(buf) >= NFields
  <2>1. NFields + 1 \in 1..(Len(buf) + 1)
    BY <1>1, <1>4
  <2>2. Len(buf') = Len(buf) - NFields
    BY <1>1, <2>1, SliceLength
  <2>3. \A p \in 1..(Len(buf) - NFields) : buf'[p] = buf[NFields + 1 + p - 1]
    BY <1>1, <2>1, SliceElement
  <2> QED
    BY <1>1, <1>2, <2>2, <2>3 DEF Places
<1> QED
  BY <1>1, <1>3, <1>4

\* The first two fields of the row are the first two of the copy, which has them no more then.
LEMMA DumpTagKeepsRace ==
    ASSUME TypeOK, NFields >= 3, DumpSeesStableFile, RaceInv, DumpTag
    PROVE  RaceInv'
<1> USE DEF userVars, mainVars, audioVars, serverVars, history, flags, fileState
<1>1. /\ main = "dump" /\ main' = "dump" /\ ~fileOpen
      /\ UNCHANGED <<userVars, app, signin, a, check, audioVars, nextTag, serverVars, session, history>>
  BY DEF DumpTag, DumpSeesStableFile
<1>2. /\ buf \in Seq(Field) /\ n \in Field /\ Len(buf) \in Nat /\ Len(buf) >= NFields - 1
      /\ NFields \in Nat
  BY PipelineAssumption DEF TypeOK, DumpTag, MoreTags, PipelineAssumption
<1>3. Unread = buf /\ Places = 1..Len(buf) /\ 1 \in Places /\ 2 \in Places
  BY <1>1, <1>2 DEF Unread, Places
<1>4. /\ Places' \subseteq Nat
      /\ \A p \in Places' : p >= 1 /\ p + NFields \in Places /\ Unread'[p] = Unread[p + NFields]
  BY RestOfCopy
<1>5. /\ \A r : Key(r)' = Key(r)
      /\ \A r, m : Raced(r, m)' <=> Raced(r, m)
      /\ \A m : Begun(m)' <=> Begun(m)
      /\ Name' = Name
  BY <1>1 DEF Key, Name, Raced, Row, FieldOf, Begun
<1>6. TwiceOnlyByRace' /\ LaunchInv'
  BY <1>1 DEF RaceInv, TwiceOnlyByRace, LaunchInv, FirstCheckDue, Row, FieldOf, Name
<1>7. UnreadInv'
  <2>1. \A p \in Places' : Unread'[p] # Name => Begun(Unread'[p])
    BY <1>4 DEF RaceInv, UnreadInv
  <2>2. ASSUME NEW p \in Places', NEW q \in Places', Unread'[p] = Unread'[q], Unread'[p] # Name
        PROVE  p = q
    <3>1. p + NFields = q + NFields
      BY <1>4, <2>2 DEF RaceInv, UnreadInv
    <3> QED
      BY <1>2, <1>4, <3>1
  <2>3. ASSUME NEW p \in Places', NEW q \in Places', q = p + 1, Unread'[p] = Name
        PROVE  Unread'[q] # Name
    <3>1. q + NFields = p + NFields + 1
      BY <1>2, <1>4, <2>3
    <3> QED
      BY <1>4, <2>3, <3>1 DEF RaceInv, UnreadInv
  <2> QED
    BY <1>5, <2>1, <2>2, <2>3 DEF UnreadInv
<1>8. AudioInv'
  BY <1>1, <1>4, <1>5 DEF RaceInv, AudioInv
<1>9. PICK row : /\ row[1] = Unread[1] /\ row[2] = Unread[2]
                 /\ forms' = Append(forms, TagForm(row))
  <2>1. NextTag[1] = buf[1] /\ NextTag[2] = buf[2]
    <3>1. /\ Append(buf, n) \in Seq(Field) /\ Len(Append(buf, n)) = Len(buf) + 1
          /\ \A i \in 1..Len(buf) : Append(buf, n)[i] = buf[i]
      BY <1>2
    <3> DEFINE s == Append(buf, n)
    <3> HIDE DEF s
    <3>2. s \in Seq(Field) /\ Len(s) >= NFields /\ s[1] = buf[1] /\ s[2] = buf[2]
      BY <1>2, <3>1 DEF s
    <3>3. SubSeq(s, 1, NFields)[1] = s[1] /\ SubSeq(s, 1, NFields)[2] = s[2]
      BY <1>2, <3>2
    <3> QED
      BY <3>2, <3>3 DEF NextTag, s
  <2> QED
    BY <1>3, <2>1 DEF DumpTag, addForm
<1> DEFINE last == Len(forms) + 1
<1>10. /\ TagForms' = TagForms \cup {last} /\ forms'[last].row = row /\ last \notin TagForms
       /\ \A k \in TagForms : forms'[k] = forms[k]
  <2>1. forms \in Seq(Form) /\ Len(forms) \in Nat /\ TagForm(row).kind = "tag" /\ TagForm(row).row = row
    BY DEF TypeOK, TagForm
  <2>2. Len(forms') = last /\ forms'[last] = TagForm(row) /\ \A k \in 1..Len(forms) : forms'[k] = forms[k]
    BY <1>9, <2>1
  <2> QED
    BY <2>1, <2>2 DEF TagForms
<1>11. Sent' = Sent \cup {row}
  BY <1>1, <1>10 DEF Sent
<1>12. \A m \in Key(row) : (m = Unread[1] \/ m = Unread[2]) /\ m # Name
  BY <1>9 DEF Key
<1>13. Keyed(row)'
  <2>1. Key(row) # {}
    <3>1. 2 = 1 + 1
      OBVIOUS
    <3>2. Unread[1] # Name \/ Unread[2] # Name
      BY <1>3, <3>1 DEF RaceInv, UnreadInv
    <3>3. row[1] \in Key(row) \/ row[2] \in Key(row)
      BY <1>9, <3>2, Zenon DEF Key
    <3> QED
      BY <3>3
  <2> QED
    BY <1>3, <1>5, <1>12, <2>1 DEF Keyed, RaceInv, UnreadInv
<1>14. NotUnread(row)'
  <2> SUFFICES ASSUME NEW p \in Places', Unread'[p] \in Key(row) PROVE FALSE
    BY <1>5 DEF NotUnread
  <2>1. p + NFields = 1 \/ p + NFields = 2
    BY <1>3, <1>4, <1>12 DEF RaceInv, UnreadInv
  <2> QED
    BY <1>2, <1>4, <2>1
<1>15. NotAhead(row)'
  <2> SUFFICES ASSUME NEW m \in Key(row), m[1] = tag, audio # "idle"
               PROVE  audio = "write" /\ ~(m[2] >= field)
    BY <1>1, <1>5 DEF NotAhead
  <2>1. audio = "write" /\ m[2] < field
    BY <1>3, <1>12 DEF RaceInv, AudioInv
  <2>2. m[2] \in Nat /\ field \in Nat
    BY <1>3, <1>12 DEF RaceInv, UnreadInv, Begun, TypeOK
  <2> QED
    BY <2>1, <2>2
<1>16. ASSUME NEW r \in Sent PROVE (Keyed(r) /\ NotUnread(r) /\ NotAhead(r))'
  <2>1. Keyed(r)' /\ NotAhead(r)'
    BY <1>1, <1>5 DEF RaceInv, SentInv, Keyed, NotAhead
  <2>2. NotUnread(r)'
    BY <1>4, <1>5 DEF RaceInv, SentInv, NotUnread
  <2> QED
    BY <2>1, <2>2
<1>17. SentInv'
  BY <1>11, <1>13, <1>14, <1>15, <1>16 DEF SentInv
<1>18. \A r \in Sent : Apart(r, row) /\ Apart(row, r)
  BY <1>3, <1>12 DEF RaceInv, SentInv, NotUnread, Apart
<1>19. \A r, s : Apart(r, s)' <=> Apart(r, s)
  BY <1>5 DEF Apart
<1>20. ApartInv'
  BY <1>1, <1>10, <1>18, <1>19 DEF RaceInv, ApartInv, Sent
<1> QED
  BY <1>6, <1>7, <1>8, <1>17, <1>20 DEF RaceInv

-----------------------------------------------------------------------------
(* The server, and a new process *)

\* A row that is there already has a field in common with itself.
LEMMA HttpKeepsRace ==
    ASSUME TypeOK, RaceInv, Http
    PROVE  RaceInv'
<1> USE DEF userVars, mainVars, audioVars, serverVars, history, flags, fileState
<1>1. /\ forms \in Seq(Form) /\ forms # <<>> /\ forms' = Tail(forms)
      /\ UNCHANGED <<userVars, mainVars, audioVars, nextTag, session, history>>
  BY DEF Http, HttpPost, HttpFail, HttpLoseAnswer, Pop, TypeOK
<1>2. Unread' = Unread /\ Places' = Places
  BY <1>1 DEF Unread, FirstCheckDue, Places
<1>3. /\ \A r : Key(r)' = Key(r)
      /\ \A r, m : Raced(r, m)' <=> Raced(r, m)
      /\ \A m : Begun(m)' <=> Begun(m)
      /\ \A r, s : Apart(r, s)' <=> Apart(r, s)
  BY <1>1 DEF Key, Name, Raced, Row, FieldOf, Begun, Apart
<1>4. /\ Len(forms) \in Nat /\ Len(forms') = Len(forms) - 1 /\ Head(forms) = forms[1]
      /\ \A k \in 1..(Len(forms) - 1) : forms'[k] = forms[k + 1]
  BY <1>1
<1>5. /\ TagForms' \subseteq Nat /\ 1 \in 1..Len(forms)
      /\ \A k \in TagForms' : k + 1 \in TagForms /\ k + 1 # 1 /\ forms'[k] = forms[k + 1]
  <2>1. 1 \in 1..Len(forms)
    BY <1>1, <1>4
  <2> QED
    BY <1>4, <2>1 DEF TagForms
<1>6. \/ UNCHANGED <<rows, twice>>
      \/ /\ 1 \in TagForms /\ rows' = rows \cup {forms[1].row}
         /\ twice' = twice \cup ({forms[1].row} \cap rows)
  <2>1. UNCHANGED <<rows, twice>> \/ Serve(Head(forms))
    BY DEF Http, HttpPost, HttpFail, HttpLoseAnswer
  <2> QED
    BY <1>4, <1>5, <2>1 DEF Serve, TagForms
<1>7. Sent' \subseteq Sent
  BY <1>5, <1>6 DEF Sent
<1>8. SentInv'
  BY <1>1, <1>2, <1>3, <1>7 DEF RaceInv, SentInv, Keyed, NotUnread, NotAhead, Row
<1>9. UnreadInv' /\ AudioInv' /\ LaunchInv'
  BY <1>1, <1>2, <1>3 DEF RaceInv, UnreadInv, AudioInv, LaunchInv, FirstCheckDue, Name
<1>10. ApartInv'
  <2>1. ASSUME NEW k \in TagForms', NEW l \in TagForms', k # l
        PROVE  Apart(forms'[k].row, forms'[l].row)
    <3>1. k + 1 # l + 1
      BY <1>5, <2>1
    <3> QED
      BY <1>5, <3>1 DEF RaceInv, ApartInv
  <2>2. ASSUME NEW k \in TagForms', NEW r \in rows' PROVE Apart(forms'[k].row, r)
    BY <1>5, <1>6 DEF RaceInv, ApartInv
  <2> QED
    BY <1>3, <2>1, <2>2 DEF ApartInv
<1>11. TwiceOnlyByRace'
  <2> SUFFICES ASSUME NEW r \in twice' PROVE r \in {Row(t) : t \in both}
    BY <1>1 DEF TwiceOnlyByRace, Row, FieldOf, Name
  <2>1. CASE r \in twice
    BY <2>1 DEF RaceInv, TwiceOnlyByRace
  <2>2. CASE 1 \in TagForms /\ r = forms[1].row /\ r \in rows
    <3>1. Apart(r, r) /\ Key(r) # {}
      BY <2>2 DEF RaceInv, ApartInv, SentInv, Sent, Keyed
    <3> QED
      BY <3>1 DEF Apart, Raced
  <2> QED
    BY <1>6, <2>1, <2>2
<1> QED
  BY <1>8, <1>9, <1>10, <1>11 DEF RaceInv

\* The queue is gone, and the file will be emptied.
LEMMA RelaunchKeepsRace ==
    ASSUME ZeroedHeap, RaceInv, Relaunch
    PROVE  RaceInv'
<1>1. /\ main' = "con_file" /\ signin' = "signedup" /\ forms' = <<>> /\ audio' = "idle"
      /\ foreground' = FALSE /\ UNCHANGED <<nextTag, rows, twice, both>>
  BY DEF Relaunch, UserReboot, ZeroedHeap, serverVars
<1>2. Unread' = <<>> /\ Places' = {} /\ TagForms' = {} /\ Sent' = rows
  BY <1>1 DEF Unread, FirstCheckDue, Places, TagForms, Sent
<1>3. SentInv'
  BY <1>1, <1>2 DEF RaceInv, SentInv, Sent, Keyed, Key, Name, Begun, NotUnread, NotAhead
<1> QED
  BY <1>1, <1>2, <1>3
  DEF RaceInv, TwiceOnlyByRace, Row, FieldOf, Name, ApartInv, UnreadInv, AudioInv, LaunchInv

LEMMA InitRace ==
    ASSUME ZeroedHeap, Init
    PROVE  RaceInv
<1>1. /\ main = "con_file" /\ signin = "signedup" /\ forms = <<>> /\ audio = "idle"
      /\ foreground = FALSE /\ nextTag = 1 /\ rows = {} /\ twice = {}
  BY DEF Init, UserBoot, ZeroedHeap
<1>2. Unread = <<>> /\ Places = {} /\ TagForms = {} /\ Sent = {}
  BY <1>1 DEF Unread, FirstCheckDue, Places, TagForms, Sent
<1> QED
  BY <1>1, <1>2
  DEF RaceInv, TwiceOnlyByRace, SentInv, ApartInv, UnreadInv, AudioInv, LaunchInv

LEMMA RaceAlways == ASSUME ZeroedHeap, NFields >= 3 PROVE Spec => []RaceInv
<1>1. Init => RaceInv
  BY ZeroedHeap, InitRace
<1>2. TypeOK /\ FileInv /\ DumpSeesStableFile /\ RaceInv /\ [Next]_vars => RaceInv'
  <2> SUFFICES ASSUME TypeOK, FileInv, DumpSeesStableFile, RaceInv, [Next]_vars
               PROVE  RaceInv'
    OBVIOUS
  <2>1. CASE Check \/ Focus \/ UpdateCertify \/ UpdateLogin \/ UpdateDump \/ DumpEnd \/ UpdateTimer
    BY <2>1, ZeroedHeap, MainKeepsRace DEF ZeroedHeap
  <2>2. CASE DumpTag
    BY <2>2, NFields >= 3, DumpTagKeepsRace
  <2>3. CASE Audio
    BY <2>3, NFields >= 3, AddTagKeepsRace, IfOnlineKeepsRace, IfOfflineKeepsRace,
       WriteTagKeepsRace DEF Audio
  <2>4. CASE Http
    BY <2>4, HttpKeepsRace
  <2>5. CASE Relaunch
    BY <2>5, ZeroedHeap, RelaunchKeepsRace
  <2>6. CASE UNCHANGED vars
    <3>1. /\ SameTags /\ LaunchInv' /\ Unread' = Unread
          /\ UNCHANGED <<fileOpen, rows, twice, both, nextTag, audioVars>>
      BY <2>6 DEF vars, userVars, mainVars, audioVars, serverVars, history, flags, fileState,
                  SameTags, TagForms, Unread, FirstCheckDue, LaunchInv, RaceInv
    <3> QED
      BY <3>1, RaceFrame
  <2> QED
    BY <2>1, <2>2, <2>3, <2>4, <2>5, <2>6 DEF Next, Update
<1>3. Spec => []FileInv
  BY ZeroedHeap, FileInvariant DEF ZeroedHeap
<1> QED
  BY <1>1, <1>2, <1>3, TypeCorrect, StableFile, PTL DEF Spec

\* For any number of tags, launches and waiting forms: the server gets a row twice only if
\* newTagEvent() both uploaded and wrote that tag, the status having changed between its two
\* tests.  (DatabaseManager::newTagEvent, parse_txt_file_to_tag)
THEOREM TwiceByRaceAlone ==
    ASSUME ZeroedHeap, NFields >= 3
    PROVE  Spec => []TwiceOnlyByRace
<1>1. RaceInv => TwiceOnlyByRace
  BY DEF RaceInv
<1> QED
  BY <1>1, ZeroedHeap, NFields >= 3, RaceAlways, PTL
=============================================================================
