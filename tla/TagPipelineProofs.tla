-------------------------- MODULE TagPipelineProofs --------------------------
(***************************************************************************)
(* What holds of TagPipeline for every value of its constants: any number  *)
(* of tags, launches, waiting forms and fields per tag, and any contents   *)
(* of the fields User() leaves uninitialised unless a theorem says which.  *)
(***************************************************************************)
EXTENDS TagPipeline, SequenceTheorems, TLAPS

-----------------------------------------------------------------------------
(* The forms and rows the handlers build have their types. *)

LEMMA RowType == ASSUME NEW t \in Nat PROVE Row(t) \in Seq(Field)
  BY PipelineAssumption DEF Row, FieldOf, Name, Field, PipelineAssumption

LEMMA EmptyType == Empty \in Field
  BY PipelineAssumption DEF Empty, Field, PipelineAssumption

LEMMA TagFormType == ASSUME NEW row \in Seq(Field) PROVE TagForm(row) \in Form
  BY DEF TagForm, Form

LEMMA StatusFormType == StatusForm(getStatus) \in Form
<1>1. (signin = "login") \in BOOLEAN
  OBVIOUS
<1> QED
  BY <1>1 DEF StatusForm, Form, getStatus

LEMMA OtherFormType == CertifyForm \in Form /\ FriendsForm \in Form
  BY DEF CertifyForm, FriendsForm, Form

\* What parse_txt_file_to_tag() makes a tag of are fields, its stale n included.
LEMMA NextTagType ==
    ASSUME TypeOK, MoreTags
    PROVE  NextTag \in Seq(Field) /\ NextTag[NFields] \in Field
<1> DEFINE t == Append(buf, n)
<1>1. /\ t \in Seq(Field) /\ Len(t) >= NFields /\ NFields \in Nat /\ NFields >= 2
  BY PipelineAssumption DEF TypeOK, MoreTags, PipelineAssumption
<1>2. NextTag = SubSeq(t, 1, NFields)
  BY DEF NextTag
<1> HIDE DEF t
<1> QED
  BY <1>1, <1>2

\* What it has not read yet are fields as well.
LEMMA RestType ==
    ASSUME TypeOK PROVE SubSeq(buf, NFields + 1, Len(buf)) \in Seq(Field)
  BY PipelineAssumption DEF TypeOK, PipelineAssumption

\* status_changed() keeps the types of the fields of User, whichever branch it takes.
LEMMA StatusChangedType ==
    ASSUME TypeOK, StatusChanged
    PROVE  /\ b' \in Int /\ fileOpen' \in BOOLEAN /\ fileIsOnep' \in BOOLEAN
           /\ txtReady' \in BOOLEAN /\ file' \in Seq(Field) /\ dumped' \in BOOLEAN
           /\ cut' \in BOOLEAN
<1>1. getStatus \in Int
  BY DEF getStatus
<1>0. cut' \in BOOLEAN
  BY Zenon DEF StatusChanged, InMidTag, TypeOK
<1>2. CASE WentOffline(getStatus)
  BY <1>0, <1>1, <1>2, UserAssumption DEF WentOffline, StatusChanged, TypeOK, UserAssumption
<1>3. CASE WentOnline(getStatus)
  BY <1>0, <1>1, <1>3 DEF WentOnline, StatusChanged, TypeOK
<1>4. CASE getStatus = b /\ UNCHANGED <<fileState, file>>
  BY <1>0, <1>4 DEF fileState, StatusChanged, TypeOK
<1> QED
  BY <1>2, <1>3, <1>4 DEF StatusChanged, status_changed

\* What a served form adds to the server's tables has the type of the form.
LEMMA ServeType ==
    ASSUME TypeOK, NEW form \in Form, Serve(form)
    PROVE  rows' \subseteq Seq(Field) /\ twice' \subseteq rows' /\ serverStatus' \in {-1, 0, 1}
  BY DEF Serve, Form, TypeOK

\* Every variable keeps to its type in every run: the base of the other proofs.
THEOREM TypeCorrect == Spec => []TypeOK
<1>1. Init => TypeOK
  <2> SUFFICES ASSUME Init PROVE TypeOK
    OBVIOUS
  <2>1. /\ foreground \in BOOLEAN /\ online \in BOOLEAN /\ b \in Int
        /\ fileOpen \in BOOLEAN /\ fileIsOnep \in BOOLEAN /\ txtReady \in BOOLEAN
    BY UserAssumption DEF Init, UserBoot, UserAssumption
  <2>2. sent \in BOOLEAN /\ dumped \in BOOLEAN /\ cut \in BOOLEAN
    BY DEF Init
  <2>3. a \in {-1, 1} /\ field \in 1..NFields /\ check \in {"none", "yes", "no"}
    BY PipelineAssumption DEF Init, getStatus, PipelineAssumption
  <2>4. n \in Field
    BY EmptyType DEF Init
  <2> QED
    BY <2>1, <2>2, <2>3, <2>4 DEF Init, TypeOK
<1>2. TypeOK /\ [Next]_vars => TypeOK'
  <2> SUFFICES ASSUME TypeOK, [Next]_vars PROVE TypeOK'
    OBVIOUS
  <2> USE DEF TypeOK, userVars, flags, fileState, mainVars, audioVars, serverVars, history
  <2>1. CASE CheckFile
    <3>1. StatusChanged
      BY <2>1 DEF CheckFile
    <3> QED
      BY <2>1, <3>1, StatusChangedType DEF CheckFile, Goto
  <2>2. CASE CheckGet
    BY <2>2 DEF CheckGet, AfterGet, Goto
  <2>3. CASE CheckReport
    <3>1. forms' \in Seq(Form) /\ a' \in {-1, 1}
      <4>1. CASE getStatus # a
        <5>1. forms' = Append(forms, StatusForm(getStatus)) /\ a' = getStatus
          BY <2>3, <4>1 DEF CheckReport, addForm
        <5>2. getStatus \in {-1, 1}
          BY DEF getStatus
        <5> QED
          BY <5>1, <5>2, StatusFormType
      <4>2. CASE getStatus = a
        BY <2>3, <4>2 DEF CheckReport
      <4> QED
        BY <4>1, <4>2
    <3> QED
      BY <2>3, <3>1 DEF CheckReport, Goto
  <2>4. CASE CheckAsk
    BY <2>4, OtherFormType DEF CheckAsk, Goto, addForm
  <2>5. CASE UpdateCertify
    BY <2>5, OtherFormType DEF UpdateCertify, addForm
  <2>6. CASE UpdateLogin
    BY <2>6 DEF UpdateLogin, Goto
  <2>7. CASE UpdateDump
    BY <2>7, EmptyType DEF UpdateDump, Goto
  <2>8. CASE DumpTag
    <3>1. NextTag \in Seq(Field) /\ NextTag[NFields] \in Field
      BY <2>8, NextTagType DEF DumpTag
    <3>2. buf' \in Seq(Field)
      BY <2>8, RestType DEF DumpTag
    <3>3. TagForm(NextTag) \in Form
      BY <3>1, TagFormType
    <3> QED
      BY <2>8, <3>1, <3>2, <3>3 DEF DumpTag, addForm
  <2>9. CASE DumpEnd
    <3>1. txtReady' \in BOOLEAN /\ dumped' \in BOOLEAN
      BY <2>9 DEF DumpEnd
    <3> QED
      BY <2>9, <3>1, EmptyType DEF DumpEnd, Goto
  <2>10. CASE UpdateTimer
    BY <2>10 DEF UpdateTimer, Goto
  <2>11. CASE GotFocus
    <3>1. foreground' \in BOOLEAN
      BY <2>11 DEF GotFocus
    <3> QED
      BY <2>11, <3>1 DEF GotFocus, Goto
  <2>12. CASE LostFocus
    <3>1. foreground' \in BOOLEAN
      BY <2>12 DEF LostFocus
    <3> QED
      BY <2>12, <3>1 DEF LostFocus, Goto
  <2>13. CASE FocusStatus
    BY <2>13, StatusFormType DEF FocusStatus, Goto, addForm
  <2>14. CASE FocusFile
    <3>1. StatusChanged
      BY <2>14 DEF FocusFile
    <3> QED
      BY <2>14, <3>1, StatusChangedType DEF FocusFile, Goto
  <2>15. CASE Exit
    BY <2>15, StatusFormType DEF Exit, addForm
  <2>16. CASE AddTag
    <3>1. sent' \in BOOLEAN
      BY <2>16 DEF AddTag
    <3>2. field' \in 1..NFields /\ nextTag' \in Nat /\ tag' \in Nat
      BY <2>16, PipelineAssumption DEF AddTag, PipelineAssumption
    <3> QED
      BY <2>16, <3>1, <3>2 DEF AddTag
  <2>17. CASE IfOnline
    <3>1. TagForm(Row(tag)) \in Form
      BY RowType, TagFormType
    <3>2. forms' \in Seq(Form)
      <4>1. forms' = Append(forms, TagForm(Row(tag))) \/ forms' = forms
        BY <2>17 DEF IfOnline, addForm
      <4>2. forms \in Seq(Form)
        OBVIOUS
      <4> HIDE DEF TypeOK
      <4> QED
        BY <3>1, <4>1, <4>2
    <3>3. sent' \in BOOLEAN
      BY <2>17 DEF IfOnline
    <3> QED
      BY <2>17, <3>2, <3>3 DEF IfOnline
  <2>18. CASE IfOffline
    BY <2>18 DEF IfOffline
  <2>19. CASE WriteTag
    <3>1. FieldOf(tag, field) \in Field
      BY PipelineAssumption DEF Field, FieldOf, Name, PipelineAssumption
    <3>2. file' \in Seq(Field)
      BY <2>19, <3>1 DEF WriteTag, WriteField
    <3>3. field' \in 1..NFields /\ audio' \in {"idle", "write"}
      BY <2>19, PipelineAssumption DEF WriteTag, MoreFields, PipelineAssumption
    <3> QED
      BY <2>19, <3>2, <3>3 DEF WriteTag, WriteField
  <2>20. CASE HttpPost
    <3>1. Head(forms) \in Form /\ forms' \in Seq(Form)
      BY <2>20 DEF HttpPost, Pop
    <3>2. rows' \subseteq Seq(Field) /\ twice' \subseteq rows' /\ serverStatus' \in {-1, 0, 1}
      BY <2>20, <3>1, ServeType DEF HttpPost
    <3>3. check' \in {"none", "yes", "no"}
      BY <2>20, PipelineAssumption DEF HttpPost, PipelineAssumption
    <3> QED
      BY <2>20, <3>1, <3>2, <3>3 DEF HttpPost
  <2>21. CASE HttpFail
    BY <2>21 DEF HttpFail, Pop
  <2>22. CASE HttpLoseAnswer
    <3>1. Head(forms) \in Form /\ forms' \in Seq(Form)
      BY <2>22 DEF HttpLoseAnswer, Pop
    <3>2. rows' \subseteq Seq(Field) /\ twice' \subseteq rows' /\ serverStatus' \in {-1, 0, 1}
      BY <2>22, <3>1, ServeType DEF HttpLoseAnswer
    <3> QED
      BY <2>22, <3>1, <3>2
      DEF HttpLoseAnswer
  <2>23. CASE Relaunch
    <3>1. /\ foreground' \in BOOLEAN /\ online' \in BOOLEAN /\ b' \in Int
          /\ fileOpen' \in BOOLEAN /\ fileIsOnep' \in BOOLEAN /\ txtReady' \in BOOLEAN
      BY <2>23, UserAssumption DEF Relaunch, UserReboot, UserAssumption
    <3>2. sent' \in BOOLEAN /\ dumped' \in BOOLEAN /\ cut' \in BOOLEAN
      BY <2>23 DEF Relaunch
    <3>3. a' \in {-1, 1} /\ field' \in 1..NFields /\ check' \in {"none", "yes", "no"}
      BY <2>23, PipelineAssumption DEF Relaunch, getStatus, PipelineAssumption
    <3> QED
      BY <2>23, <3>1, <3>2, <3>3, EmptyType DEF Relaunch
  <2>24. CASE UNCHANGED vars
    BY <2>24 DEF vars
  <2> QED
    BY <2>1, <2>2, <2>3, <2>4, <2>5, <2>6, <2>7, <2>8, <2>9, <2>10, <2>11, <2>12,
       <2>13, <2>14, <2>15, <2>16, <2>17, <2>18, <2>19, <2>20, <2>21, <2>22, <2>23, <2>24
    DEF Next, Check, Update, Focus, Audio, Http
<1> QED
  BY <1>1, <1>2, PTL DEF Spec

-----------------------------------------------------------------------------
(* The upload reads a file nobody writes. *)

\* dbConnect::update() goes by fileIsOnep: FALSE there must mean the stream is closed.
KnownClosed == ~fileIsOnep => ~fileOpen

\* Only the main thread opens t.txt, and during the upload it is busy.
DumpKeepsClosed == main = "dump" => ~fileIsOnep

\* What parse_txt_file_to_tag() has not read yet is the end of t.txt.
CopyIsSuffix ==
    main = "dump" =>
        /\ Len(buf) <= Len(file)
        /\ buf = SubSeq(file, Len(file) - Len(buf) + 1, Len(file))

StableInv == KnownClosed /\ DumpKeepsClosed /\ CopyIsSuffix

\* Type, length and elements of the end of a sequence of fields from place m on.
LEMMA SliceType ==
    ASSUME NEW s \in Seq(Field), NEW m \in 1..(Len(s) + 1)
    PROVE  SubSeq(s, m, Len(s)) \in Seq(Field)
  OBVIOUS

LEMMA SliceLength ==
    ASSUME NEW s \in Seq(Field), NEW m \in 1..(Len(s) + 1)
    PROVE  Len(SubSeq(s, m, Len(s))) = Len(s) - m + 1
  OBVIOUS

LEMMA SliceElement ==
    ASSUME NEW s \in Seq(Field), NEW m \in 1..(Len(s) + 1), NEW i \in 1..(Len(s) - m + 1)
    PROVE  SubSeq(s, m, Len(s))[i] = s[m + i - 1]
  OBVIOUS

\* Reading a tag off the front of the copy leaves the end of the file: DumpTag keeps
\* CopyIsSuffix.
LEMMA SliceOfSlice ==
    ASSUME NEW s \in Seq(Field), NEW m \in 1..(Len(s) + 1), NEW k \in 1..(Len(s) - m + 2)
    PROVE  SubSeq(SubSeq(s, m, Len(s)), k, Len(s) - m + 1) = SubSeq(s, m + k - 1, Len(s))
<1> DEFINE t == SubSeq(s, m, Len(s))
           u == SubSeq(t, k, Len(s) - m + 1)
           v == SubSeq(s, m + k - 1, Len(s))
<1>1. t \in Seq(Field) /\ Len(t) = Len(s) - m + 1
  BY SliceType, SliceLength
<1>2. u \in Seq(Field) /\ Len(u) = Len(s) - m + 1 - k + 1
  BY <1>1, SliceType, SliceLength
<1>3. v \in Seq(Field) /\ Len(v) = Len(s) - m + 1 - k + 1
  BY SliceType, SliceLength
<1>4. ASSUME NEW i \in 1..Len(u) PROVE u[i] = v[i]
  <2>1. u[i] = t[k + i - 1]
    BY <1>1, <1>2, SliceElement
  <2>2. t[k + i - 1] = s[m + k + i - 1 - 1]
    BY <1>2, SliceElement
  <2>3. v[i] = s[m + k + i - 1 - 1]
    BY <1>2, SliceElement
  <2> QED
    BY <2>1, <2>2, <2>3
<1> HIDE DEF t, u, v
<1>5. u = v
  BY <1>2, <1>3, <1>4, SeqEqual
<1> QED
  BY <1>5 DEF t, u, v

\* status_changed() keeps fileIsOnep and the stream together.
LEMMA StatusChangedKnown ==
    ASSUME KnownClosed, StatusChanged
    PROVE  KnownClosed'
  BY DEF KnownClosed, StatusChanged, status_changed, WentOffline, WentOnline, fileState

\* Steps that leave the file, the copy and the two flags alone, and start no upload.
LEMMA StableFrame ==
    ASSUME StableInv, UNCHANGED <<fileState, file, buf>>, main' = main \/ main' # "dump"
    PROVE  StableInv'
  BY DEF StableInv, KnownClosed, DumpKeepsClosed, CopyIsSuffix, fileState

\* For every value of the constants, and whatever the fields of User held at start: while
\* t.txt is uploaded it is closed and keeps what is still to be read.
THEOREM StableFile == Spec => []DumpSeesStableFile
<1>1. Init => StableInv
  BY DEF Init, UserBoot, StableInv, KnownClosed, DumpKeepsClosed, CopyIsSuffix
<1>2. TypeOK /\ StableInv /\ [Next]_vars => StableInv'
  <2> SUFFICES ASSUME TypeOK, StableInv, [Next]_vars PROVE StableInv'
    OBVIOUS
  <2> USE DEF userVars, mainVars, Goto
  <2>1. CASE CheckFile
    BY <2>1, StatusChangedKnown DEF CheckFile, StableInv, DumpKeepsClosed, CopyIsSuffix
  <2>2. CASE FocusFile
    BY <2>2, StatusChangedKnown DEF FocusFile, StableInv, DumpKeepsClosed, CopyIsSuffix
  <2>3. CASE CheckGet \/ CheckReport \/ CheckAsk
    BY <2>3, StableFrame DEF CheckGet, CheckReport, CheckAsk, AfterGet
  <2>4. CASE UpdateCertify \/ UpdateLogin \/ UpdateTimer
    BY <2>4, StableFrame DEF UpdateCertify, UpdateLogin, UpdateTimer
  <2>5. CASE UpdateDump
    <3>1. buf' = SubSeq(file, 1, Len(file)) /\ file' = file
      BY <2>5, SubSeqFull DEF UpdateDump, TypeOK
    <3>2. KnownClosed' /\ DumpKeepsClosed'
      BY <2>5 DEF UpdateDump, UploadPending, StableInv, KnownClosed, DumpKeepsClosed, fileState
    <3>3. CopyIsSuffix'
      BY <2>5, <3>1, LenProperties DEF UpdateDump, CopyIsSuffix, TypeOK
    <3> QED
      BY <3>2, <3>3 DEF StableInv
  <2>6. CASE DumpTag
    <3>1. /\ main = "dump" /\ NFields \in Nat /\ Len(buf) >= NFields - 1
          /\ buf' = SubSeq(buf, NFields + 1, Len(buf)) /\ file' = file
      BY <2>6, PipelineAssumption DEF DumpTag, MoreTags, PipelineAssumption
    <3>2. KnownClosed' /\ DumpKeepsClosed'
      BY <2>6 DEF DumpTag, StableInv, KnownClosed, DumpKeepsClosed, fileState
    <3> DEFINE m == Len(file) - Len(buf) + 1
    <3>3. /\ file \in Seq(Field) /\ buf \in Seq(Field) /\ Len(file) \in Nat /\ Len(buf) \in Nat
          /\ Len(buf) <= Len(file) /\ buf = SubSeq(file, m, Len(file))
      BY <3>1 DEF StableInv, CopyIsSuffix, TypeOK
    <3>4. ASSUME NFields <= Len(buf) PROVE CopyIsSuffix'
      <4>1. m \in 1..(Len(file) + 1) /\ NFields + 1 \in 1..(Len(file) - m + 2)
        BY <3>1, <3>3, <3>4
      <4>2. Len(buf) = Len(file) - m + 1
        BY <3>3
      <4>3. SubSeq(SubSeq(file, m, Len(file)), NFields + 1, Len(file) - m + 1)
                = SubSeq(file, m + (NFields + 1) - 1, Len(file))
        <5> HIDE DEF m
        <5> QED
          BY <3>3, <4>1, SliceOfSlice
      <4>4. buf' = SubSeq(file, m + (NFields + 1) - 1, Len(file))
        BY <3>1, <3>3, <4>2, <4>3
      <4>5. NFields + 1 \in 1..(Len(buf) + 1)
        BY <3>1, <3>3, <3>4
      <4>6. Len(buf') = Len(buf) - (NFields + 1) + 1
        BY <3>1, <3>3, <4>5, SliceLength
      <4>7. m + (NFields + 1) - 1 = Len(file) - Len(buf') + 1 /\ Len(buf') <= Len(file)
        <5>1. NFields \in Nat /\ Len(file) \in Nat /\ Len(buf) \in Nat /\ Len(buf) <= Len(file)
          BY <3>1, <3>3
        <5> QED
          BY <4>6, <5>1, Z3
      <4> QED
        BY <3>1, <4>4, <4>7 DEF CopyIsSuffix
    <3>5. ASSUME NFields > Len(buf) PROVE CopyIsSuffix'
      <4>1. buf' = <<>>
        BY <3>1, <3>3, <3>5, SubSeqEmpty
      <4>2. Len(buf') = 0 /\ Len(file') \in Nat
        BY <3>1, <3>3, <4>1
      <4>3. Len(file') - Len(buf') + 1 = Len(file') + 1 /\ Len(buf') <= Len(file')
        BY <4>2
      <4>4. SubSeq(file', Len(file') + 1, Len(file')) = <<>>
        BY <4>2, SubSeqEmpty
      <4> QED
        BY <4>1, <4>3, <4>4 DEF CopyIsSuffix
    <3> QED
      BY <3>1, <3>2, <3>3, <3>4, <3>5 DEF StableInv
  <2>7. CASE DumpEnd
    BY <2>7 DEF DumpEnd, StableInv, KnownClosed, DumpKeepsClosed, CopyIsSuffix
  <2>8. CASE GotFocus \/ LostFocus \/ FocusStatus \/ Exit
    BY <2>8, StableFrame DEF GotFocus, LostFocus, FocusStatus, Exit
  <2>9. CASE AddTag \/ IfOnline \/ IfOffline
    BY <2>9, StableFrame DEF AddTag, IfOnline, IfOffline
  <2>10. CASE WriteTag
    <3>1. /\ UNCHANGED <<fileState, main, buf>>
          /\ file' = IF fileOpen THEN Append(file, FieldOf(tag, field)) ELSE file
      BY <2>10 DEF WriteTag, WriteField
    <3>2. main = "dump" => ~fileOpen
      BY DEF StableInv, KnownClosed, DumpKeepsClosed
    <3> QED
      BY <3>1, <3>2 DEF StableInv, KnownClosed, DumpKeepsClosed, CopyIsSuffix, fileState
  <2>11. CASE HttpPost \/ HttpFail \/ HttpLoseAnswer
    BY <2>11, StableFrame DEF HttpPost, HttpFail, HttpLoseAnswer
  <2>12. CASE Relaunch
    BY <2>12 DEF Relaunch, UserReboot, StableInv, KnownClosed, DumpKeepsClosed, CopyIsSuffix
  <2>13. CASE UNCHANGED vars
    BY <2>13, StableFrame DEF vars
  <2> QED
    BY <2>1, <2>2, <2>3, <2>4, <2>5, <2>6, <2>7, <2>8, <2>9, <2>10, <2>11, <2>12, <2>13
    DEF Next, Check, Update, Focus, Audio, Http
<1>3. StableInv => DumpSeesStableFile
  BY DEF StableInv, KnownClosed, DumpKeepsClosed, CopyIsSuffix, DumpSeesStableFile
<1> QED
  BY <1>1, <1>2, <1>3, TypeCorrect, PTL DEF Spec

-----------------------------------------------------------------------------
(* A check that finds the connection never reports "offline". *)

\* The focus handlers set the foreground flag together with the focus itself.
ActiveIsForeground == app = "active" => foreground

\* Before the first focus event nothing changes the flag that gave a its value.
LaunchedAsRead == app = "launched" /\ a = 1 => foreground

\* A check starts in setup() or update(), and no focus event interrupts it.
Checking == {"con_file", "con_get", "con_report", "con_ask"}
CheckedWhileShown == main \in Checking => app \in {"launched", "active"}

\* The report is on the "else" branch of the check, where the connection is there.
ReportsOnlyConnected == main = "con_report" => online

ReportInv ==
    ActiveIsForeground /\ LaunchedAsRead /\ CheckedWhileShown /\ ReportsOnlyConnected

\* A user who was reported online is not seen offline where the report is made.
LEMMA ReportSeesOnline ==
    ASSUME TypeOK, ReportInv, main = "con_report", a = 1
    PROVE  getStatus = 1
<1>1. app \in {"launched", "active"} /\ online
  BY DEF ReportInv, CheckedWhileShown, Checking, ReportsOnlyConnected
<1>2. foreground
  BY <1>1 DEF ReportInv, ActiveIsForeground, LaunchedAsRead
<1> QED
  BY <1>1, <1>2 DEF getStatus

\* Steps that leave the flags, the focus and a alone, and enter no check.
LEMMA ReportFrame ==
    ASSUME ReportInv, UNCHANGED <<flags, app, a>>, main' = main \/ main' \notin Checking
    PROVE  ReportInv'
  BY DEF ReportInv, ActiveIsForeground, LaunchedAsRead, CheckedWhileShown, Checking,
         ReportsOnlyConnected, flags

\* For every value of the constants: what the test "b != a" of a check compares can only go
\* from offline to online, so the server hears "online" from checks once per launch.
THEOREM ChecksReportOnlineOnce == Spec => ReportsOnlineOnce
<1>1. Init => ReportInv
  BY DEF Init, getStatus, ReportInv, ActiveIsForeground, LaunchedAsRead, CheckedWhileShown,
         Checking, ReportsOnlyConnected
<1>2. TypeOK /\ ReportInv /\ [Next]_vars => ReportInv'
  <2> SUFFICES ASSUME TypeOK, ReportInv, [Next]_vars PROVE ReportInv'
    OBVIOUS
  <2> USE DEF userVars, mainVars, flags, Goto
  <2>1. CASE CheckFile
    BY <2>1 DEF CheckFile, ReportInv, ActiveIsForeground, LaunchedAsRead, CheckedWhileShown,
                Checking, ReportsOnlyConnected
  <2>2. CASE CheckGet
    <3>1. /\ UNCHANGED <<foreground, app, a>> /\ main = "con_get"
          /\ main' \in {"con_report", "idle"} /\ (main' = "con_report" => online')
      BY <2>2 DEF CheckGet, AfterGet
    <3> QED
      BY <3>1 DEF ReportInv, ActiveIsForeground, LaunchedAsRead, CheckedWhileShown, Checking,
                  ReportsOnlyConnected
  <2>3. CASE CheckReport
    <3>1. a' = 1 => foreground
      <4>1. CASE getStatus # a
        BY <2>3, <4>1 DEF CheckReport, getStatus
      <4>2. CASE getStatus = a
        BY <2>3, <4>2 DEF CheckReport, getStatus
      <4> QED
        BY <4>1, <4>2
    <3>2. /\ UNCHANGED <<flags, app>> /\ main = "con_report" /\ main' \in {"con_ask", "idle"}
      BY <2>3 DEF CheckReport
    <3> QED
      BY <3>1, <3>2 DEF ReportInv, ActiveIsForeground, LaunchedAsRead, CheckedWhileShown,
                        Checking, ReportsOnlyConnected
  <2>4. CASE CheckAsk
    BY <2>4, ReportFrame DEF CheckAsk, Checking
  <2>5. CASE UpdateCertify
    BY <2>5, ReportFrame DEF UpdateCertify
  <2>6. CASE UpdateLogin \/ UpdateTimer
    <3>1. /\ UNCHANGED <<flags, app, a>> /\ app \in {"launched", "active"}
          /\ main = "idle" /\ main' \in {"idle", "con_file"}
      BY <2>6 DEF UpdateLogin, UpdateTimer, Updates, Starts
    <3> QED
      BY <3>1 DEF ReportInv, ActiveIsForeground, LaunchedAsRead, CheckedWhileShown, Checking,
                  ReportsOnlyConnected
  <2>7. CASE UpdateDump \/ DumpTag \/ DumpEnd
    BY <2>7, ReportFrame DEF UpdateDump, DumpTag, DumpEnd, Checking
  <2>8. CASE GotFocus
    BY <2>8 DEF GotFocus, ReportInv, ActiveIsForeground, LaunchedAsRead, CheckedWhileShown,
                Checking, ReportsOnlyConnected
  <2>9. CASE LostFocus
    BY <2>9 DEF LostFocus, ReportInv, ActiveIsForeground, LaunchedAsRead, CheckedWhileShown,
                Checking, ReportsOnlyConnected
  <2>10. CASE FocusStatus \/ FocusFile
    BY <2>10, ReportFrame DEF FocusStatus, FocusFile, Checking
  <2>11. CASE Exit
    BY <2>11 DEF Exit, Starts, ReportInv, ActiveIsForeground, LaunchedAsRead,
                 CheckedWhileShown, Checking, ReportsOnlyConnected
  <2>12. CASE Audio
    BY <2>12, ReportFrame DEF Audio, AddTag, IfOnline, IfOffline, WriteTag
  <2>13. CASE Http
    BY <2>13, ReportFrame DEF Http, HttpPost, HttpFail, HttpLoseAnswer
  <2>14. CASE Relaunch
    BY <2>14 DEF Relaunch, getStatus, ReportInv, ActiveIsForeground, LaunchedAsRead,
                 CheckedWhileShown, Checking, ReportsOnlyConnected
  <2>15. CASE UNCHANGED vars
    BY <2>15, ReportFrame DEF vars
  <2> QED
    BY <2>1, <2>2, <2>3, <2>4, <2>5, <2>6, <2>7, <2>8, <2>9, <2>10, <2>11, <2>12, <2>13,
       <2>14, <2>15
    DEF Next, Check, Update, Focus
<1>3. TypeOK /\ ReportInv /\ [Next]_vars => [a = 1 /\ session' = session => a' = 1]_vars
  <2> SUFFICES ASSUME TypeOK, ReportInv, [Next]_vars, a = 1, session' = session
               PROVE  a' = 1
    BY DEF vars
  <2>1. CASE CheckReport
    BY <2>1, ReportSeesOnline DEF CheckReport
  <2>2. CASE Relaunch
    BY <2>2 DEF Relaunch, TypeOK
  <2>3. CASE UNCHANGED a
    BY <2>3
  <2> QED
    BY <2>1, <2>2, <2>3
    DEF Next, vars, mainVars, Check, CheckFile, CheckGet, CheckAsk, Update, UpdateCertify,
        UpdateLogin, UpdateDump, DumpTag, DumpEnd, UpdateTimer, Focus, GotFocus, LostFocus,
        FocusStatus, FocusFile, Exit, Audio, AddTag, IfOnline, IfOffline, WriteTag,
        Http, HttpPost, HttpFail, HttpLoseAnswer
<1> QED
  BY <1>1, <1>2, <1>3, TypeCorrect, PTL DEF Spec, ReportsOnlineOnce

-----------------------------------------------------------------------------
(* What t.txt is worth in a process that starts with b at 0 and can open the file. *)

\* b has a status once setup() is through its check, and 0 before.
FirstCheck ==
    /\ b \in {-1, 0, 1}
    /\ b = 0 <=> main = "con_file" /\ signin = "signedup"

\* The stream is open through the offline periods, and fileIsOnep says so.
OpenWhileOffline ==
    /\ fileOpen <=> b = -1
    /\ b # 0 => (fileIsOnep <=> fileOpen)

\* Back online, the file is uploaded or its upload is asked for.
UploadDue == b = 1 => dumped \/ txtReady

\* Once uploaded, the file is not asked for again before it is opened again.
DumpedIsDone == dumped => b = 1 /\ ~txtReady

FileInv == FirstCheck /\ OpenWhileOffline /\ UploadDue /\ DumpedIsDone

\* The branches of status_changed(), seen from b: the file is opened when b becomes -1.
LEMMA StatusChangedCases ==
    ASSUME OpenResults \subseteq {TRUE}, dumped \in BOOLEAN, FileInv, StatusChanged
    PROVE  /\ b' = getStatus /\ getStatus \in {-1, 1}
           /\ \/ UNCHANGED <<fileState, file, dumped>> /\ b # 0
              \/ b \in {0, 1} /\ b' = -1 /\ fileOpen' = TRUE /\ fileIsOnep' = TRUE
                 /\ file' = <<>> /\ dumped' = FALSE
              \/ b \in {-1, 0} /\ b' = 1 /\ fileOpen' = FALSE /\ fileIsOnep' = FALSE
                 /\ txtReady' = TRUE /\ dumped' = FALSE /\ file' = file
<1>1. getStatus \in {-1, 1} /\ b \in {-1, 0, 1}
  BY DEF getStatus, FileInv, FirstCheck
<1>2. CASE WentOffline(getStatus)
  <2>1. fileOpen' = TRUE /\ fileIsOnep' = TRUE /\ file' = <<>>
    BY <1>2 DEF WentOffline
  <2>2. dumped' = FALSE
    BY <2>1 DEF StatusChanged
  <2> QED
    BY <1>1, <1>2, <2>1, <2>2 DEF WentOffline
<1>3. CASE WentOnline(getStatus)
  <2>1. b \in {-1, 0} /\ b' = 1 /\ getStatus = 1
    BY <1>1, <1>3 DEF WentOnline
  <2>2. ~dumped
    BY <2>1 DEF FileInv, DumpedIsDone
  <2>3. dumped' = FALSE
    BY <2>2 DEF StatusChanged
  <2> QED
    BY <1>3, <2>1, <2>3 DEF WentOnline
<1>4. CASE getStatus = b /\ UNCHANGED <<fileState, file>>
  <2>1. dumped => ~fileOpen
    BY <1>1 DEF FileInv, DumpedIsDone, OpenWhileOffline
  <2>2. UNCHANGED <<b, fileOpen>>
    BY <1>4 DEF fileState
  <2>3. dumped' = dumped
    BY <2>1, <2>2, dumped \in BOOLEAN DEF StatusChanged
  <2>4. b # 0
    BY <1>1, <1>4
  <2> QED
    <3>1. UNCHANGED <<fileState, file, dumped>>
      BY <1>4, <2>3
    <3>2. b' = getStatus
      BY <1>4, <2>2
    <3> QED
      BY <1>1, <2>4, <3>1, <3>2
<1> QED
  BY <1>2, <1>3, <1>4 DEF StatusChanged, status_changed

\* Steps that leave b, the file's flags and the log-in alone, and are no first check.
LEMMA FileFrame ==
    ASSUME FileInv, UNCHANGED <<fileState, signin, dumped>>,
           main' = main \/ (main # "con_file" /\ main' # "con_file")
    PROVE  FileInv'
  BY DEF FileInv, FirstCheck, OpenWhileOffline, UploadDue, DumpedIsDone, fileState

\* What status_changed() does to t.txt keeps the invariant, whoever calls it.
LEMMA FileStatusChanged ==
    ASSUME OpenResults \subseteq {TRUE}, dumped \in BOOLEAN, FileInv, StatusChanged,
           main' # "con_file"
    PROVE  FileInv'
<1> USE DEF FileInv, FirstCheck, OpenWhileOffline, UploadDue, DumpedIsDone
<1>1. CASE UNCHANGED <<fileState, file, dumped>> /\ b # 0
  BY <1>1 DEF fileState
<1>2. CASE b' = -1 /\ fileOpen' = TRUE /\ fileIsOnep' = TRUE /\ dumped' = FALSE
  BY <1>2
<1>3. CASE b' = 1 /\ fileOpen' = FALSE /\ fileIsOnep' = FALSE /\ txtReady' = TRUE
           /\ dumped' = FALSE
  BY <1>3
<1> QED
  BY <1>1, <1>2, <1>3, StatusChangedCases

\* b, the stream and the two flags stay in step: the invariant behind the three theorems.
LEMMA FileInvariant ==
    ASSUME BootB \subseteq {0}, OpenResults \subseteq {TRUE}
    PROVE  Spec => []FileInv
<1>1. Init => FileInv
  BY DEF Init, UserBoot, FileInv, FirstCheck, OpenWhileOffline, UploadDue, DumpedIsDone
<1>2. TypeOK /\ DumpSeesStableFile /\ FileInv /\ [Next]_vars => FileInv'
  <2> SUFFICES ASSUME TypeOK, DumpSeesStableFile, FileInv, [Next]_vars PROVE FileInv'
    OBVIOUS
  <2>0. dumped \in BOOLEAN
    BY DEF TypeOK
  <2> USE DEF userVars, mainVars, history, Goto
  <2>1. CASE CheckFile
    BY <2>0, <2>1, FileStatusChanged DEF CheckFile
  <2>2. CASE FocusFile
    BY <2>0, <2>2, FileStatusChanged DEF FocusFile
  <2>3. CASE CheckGet \/ CheckReport \/ CheckAsk
    BY <2>3, FileFrame DEF CheckGet, CheckReport, CheckAsk, AfterGet
  <2>4. CASE UpdateCertify
    BY <2>4 DEF UpdateCertify, Updates, Starts, FileInv, FirstCheck, OpenWhileOffline,
                UploadDue, DumpedIsDone, fileState
  <2>5. CASE UpdateLogin
    BY <2>5 DEF UpdateLogin, Updates, Starts, FileInv, FirstCheck, OpenWhileOffline,
                UploadDue, DumpedIsDone, fileState
  <2>6. CASE UpdateTimer
    BY <2>6 DEF UpdateTimer, Updates, Starts, FileInv, FirstCheck, OpenWhileOffline,
                UploadDue, DumpedIsDone, fileState
  <2>7. CASE UpdateDump \/ DumpTag
    BY <2>7, FileFrame DEF UpdateDump, Updates, Starts, DumpTag
  <2>8. CASE DumpEnd
    <3>1. /\ UNCHANGED <<b, fileOpen, fileIsOnep, signin>> /\ main = "dump" /\ main' = "idle"
          /\ txtReady' = FALSE /\ dumped' = TRUE
      BY <2>8 DEF DumpEnd
    <3>2. ~fileOpen
      BY <3>1 DEF DumpSeesStableFile
    <3> QED
      BY <3>1, <3>2 DEF FileInv, FirstCheck, OpenWhileOffline, UploadDue, DumpedIsDone
  <2>9. CASE GotFocus \/ LostFocus \/ FocusStatus \/ Exit
    BY <2>9, FileFrame DEF GotFocus, LostFocus, FocusStatus, Exit, Starts
  <2>10. CASE Audio
    BY <2>10, FileFrame DEF Audio, AddTag, IfOnline, IfOffline, WriteTag, WriteField
  <2>11. CASE Http
    BY <2>11, FileFrame DEF Http, HttpPost, HttpFail, HttpLoseAnswer
  <2>12. CASE Relaunch
    BY <2>12 DEF Relaunch, UserReboot, FileInv, FirstCheck, OpenWhileOffline, UploadDue,
                 DumpedIsDone
  <2>13. CASE UNCHANGED vars
    BY <2>13, FileFrame DEF vars
  <2> QED
    BY <2>1, <2>2, <2>3, <2>4, <2>5, <2>6, <2>7, <2>8, <2>9, <2>10, <2>11, <2>12, <2>13
    DEF Next, Check, Update, Focus
<1> QED
  BY <1>1, <1>2, TypeCorrect, StableFile, PTL DEF Spec

\* For any number of tags, launches and waiting forms: t.txt is open exactly while the
\* status that status_changed() saw last is offline.
THEOREM StreamFollowsStatus ==
    ASSUME BootB \subseteq {0}, OpenResults \subseteq {TRUE}
    PROVE  Spec => []FileFollowsB
<1>1. FileInv => FileFollowsB
  BY DEF FileInv, FirstCheck, OpenWhileOffline, FileFollowsB
<1> QED
  BY <1>1, FileInvariant, PTL

\* Under the same hypotheses no launch uploads the same contents of t.txt twice.
THEOREM NoSecondUpload ==
    ASSUME BootB \subseteq {0}, OpenResults \subseteq {TRUE}
    PROVE  Spec => UploadedOnce
<1>1. FileInv /\ [Next]_vars =>
          [main # "dump" /\ main' = "dump" /\ Len(file) >= NFields - 1 => ~dumped]_vars
  <2> SUFFICES ASSUME FileInv, [Next]_vars, main # "dump", main' = "dump" PROVE ~dumped
    BY DEF vars
  <2>1. CASE UpdateDump
    BY <2>1 DEF UpdateDump, UploadPending, FileInv, DumpedIsDone
  <2>2. CASE UNCHANGED main
    BY <2>2
  <2>3. CASE main' # "dump"
    BY <2>3
  <2> QED
    BY <2>1, <2>2, <2>3
    DEF Next, vars, mainVars, Goto, Check, CheckFile, CheckGet, AfterGet, CheckReport, CheckAsk,
        Update, UpdateCertify, UpdateLogin, DumpTag, DumpEnd, UpdateTimer, Focus, GotFocus,
        LostFocus, FocusStatus, FocusFile, Exit, Audio, AddTag, IfOnline, IfOffline, WriteTag,
        Http, HttpPost, HttpFail, HttpLoseAnswer, Relaunch
<1> QED
  BY <1>1, FileInvariant, PTL DEF Spec, UploadedOnce

\* Under the same hypotheses t.txt is emptied after log-in only when it has been uploaded
\* or its upload is due.
THEOREM NoEarlyErase ==
    ASSUME BootB \subseteq {0}, OpenResults \subseteq {TRUE}
    PROVE  Spec => OnlyUploadedFileErased
<1>1. TypeOK /\ FileInv /\ [Next]_vars =>
          [file # <<>> /\ file' = <<>> => dumped \/ txtReady \/ signin # "login"]_vars
  <2> SUFFICES ASSUME TypeOK, FileInv, [Next]_vars, file # <<>>, file' = <<>>
               PROVE  dumped \/ txtReady \/ signin # "login"
    BY DEF vars, userVars
  <2>1. ASSUME StatusChanged PROVE dumped \/ txtReady \/ signin # "login"
    BY <2>1, StatusChangedCases DEF TypeOK, FileInv, FirstCheck, UploadDue
  <2>2. CASE CheckFile \/ FocusFile
    BY <2>1, <2>2 DEF CheckFile, FocusFile
  <2>3. CASE WriteTag
    BY <2>3 DEF WriteTag, WriteField, TypeOK
  <2>4. CASE UNCHANGED file
    BY <2>4
  <2> QED
    BY <2>2, <2>3, <2>4
    DEF Next, vars, userVars, Check, CheckGet, CheckReport, CheckAsk, Update, UpdateCertify,
        UpdateLogin, UpdateDump, DumpTag, DumpEnd, UpdateTimer, Focus, GotFocus, LostFocus,
        FocusStatus, Exit, Audio, AddTag, IfOnline, IfOffline, Http, HttpPost, HttpFail,
        HttpLoseAnswer, Relaunch
<1> QED
  BY <1>1, FileInvariant, TypeCorrect, PTL DEF Spec, OnlyUploadedFileErased

-----------------------------------------------------------------------------
(* What the server hears of an app in the background. *)

\* The last report of this user that waits, or the server if none does, says "offline".
LastReportOffline ==
    \/ StatusForms = {} /\ serverStatus = -1
    \/ \E i \in StatusForms : (\A j \in StatusForms : j <= i) /\ forms[i].status = -1

\* In the background the main thread runs the rest of lostFocus() and nothing else, and once
\* that has posted the status of a logged-in user no other report follows.
BackgroundInv ==
    app = "inactive" =>
        /\ ~foreground
        /\ main \in {"idle", "focus_status", "focus_file"}
        /\ main # "focus_status" /\ signin = "login" => LastReportOffline

\* A report that is added becomes the last one.
LEMMA ReportAdded ==
    ASSUME TypeOK, signin = "login", getStatus = -1, addForm(StatusForm(getStatus))
    PROVE  LastReportOffline'
<1>1. /\ forms \in Seq(Form) /\ forms' = Append(forms, StatusForm(-1))
      /\ StatusForm(-1).kind = "status" /\ StatusForm(-1).own /\ StatusForm(-1).status = -1
  BY DEF TypeOK, addForm, StatusForm
<1> DEFINE last == Len(forms) + 1
<1>2. Len(forms') = last /\ forms'[last] = StatusForm(-1) /\ last \in 1..last
  BY <1>1
<1>3. last \in StatusForms' /\ \A j \in StatusForms' : j <= last
  BY <1>1, <1>2 DEF StatusForms
<1> QED
  BY <1>1, <1>2, <1>3 DEF LastReportOffline

\* A form that is no report of the user's is added behind it.
LEMMA OtherAdded ==
    ASSUME TypeOK, LastReportOffline, NEW form, form.kind # "status",
           forms' = Append(forms, form), serverStatus' = serverStatus
    PROVE  LastReportOffline'
<1>1. /\ Len(forms) \in Nat /\ Len(forms') = Len(forms) + 1
      /\ \A i \in 1..Len(forms) : forms'[i] = forms[i]
      /\ forms'[Len(forms) + 1] = form
  BY DEF TypeOK
<1>2. StatusForms' = StatusForms
  <2>1. ASSUME NEW i \in 1..Len(forms') PROVE i \in StatusForms' <=> i \in StatusForms
    BY <1>1 DEF StatusForms
  <2>2. StatusForms' \subseteq 1..Len(forms') /\ StatusForms \subseteq 1..Len(forms')
    BY <1>1 DEF StatusForms
  <2> QED
    BY <2>1, <2>2
<1>3. \A i \in StatusForms : forms'[i] = forms[i]
  BY <1>1 DEF StatusForms
<1> QED
  BY <1>2, <1>3 DEF LastReportOffline

\* The form in front arrives at the server and is popped.
LEMMA ReportServed ==
    ASSUME TypeOK, LastReportOffline, forms # <<>>, Serve(Head(forms)), Pop
    PROVE  LastReportOffline'
<1>1. /\ Len(forms) \in Nat \ {0} /\ Len(forms') = Len(forms) - 1 /\ Head(forms) = forms[1]
      /\ \A i \in 1..Len(forms') : forms'[i] = forms[i + 1]
  BY DEF TypeOK, Pop
<1>2. \A i \in 1..Len(forms') : i \in StatusForms' <=> i + 1 \in StatusForms
  BY <1>1 DEF StatusForms
<1>3. StatusForms' \subseteq 1..Len(forms') /\ StatusForms \subseteq 1..Len(forms)
  BY DEF StatusForms
<1>4. serverStatus' = IF 1 \in StatusForms THEN forms[1].status ELSE serverStatus
  BY <1>1 DEF Serve, StatusForms
<1>5. CASE StatusForms = {} /\ serverStatus = -1
  BY <1>2, <1>3, <1>4, <1>5 DEF LastReportOffline
<1>6. ASSUME NEW i \in StatusForms, \A j \in StatusForms : j <= i, forms[i].status = -1
      PROVE  LastReportOffline'
  <2>1. i \in 1..Len(forms)
    BY <1>3
  <2>2. CASE i = 1
    <3>1. ASSUME NEW k \in StatusForms' PROVE FALSE
      <4>1. k \in 1..Len(forms') /\ k + 1 \in StatusForms
        BY <1>2, <1>3
      <4>2. k + 1 <= 1 /\ k >= 1 /\ k \in Int
        BY <1>1, <1>6, <2>2, <4>1
      <4> QED
        BY <4>2
    <3> QED
      BY <1>4, <1>6, <2>2, <3>1 DEF LastReportOffline
  <2>3. CASE i # 1
    <3>1. i - 1 \in 1..Len(forms') /\ (i - 1) + 1 = i
      BY <1>1, <2>1, <2>3
    <3>2. i - 1 \in StatusForms' /\ forms'[i - 1].status = -1
      BY <1>1, <1>2, <1>6, <3>1
    <3>3. ASSUME NEW k \in StatusForms' PROVE k <= i - 1
      <4>1. k \in 1..Len(forms') /\ k + 1 <= i
        BY <1>2, <1>3, <1>6
      <4> QED
        BY <1>1, <2>1, <4>1
    <3> QED
      BY <3>2, <3>3 DEF LastReportOffline
  <2> QED
    BY <2>2, <2>3
<1> QED
  BY <1>5, <1>6 DEF LastReportOffline

\* Steps that leave the focus, the log-in and what was reported alone.
LEMMA BackgroundFrame ==
    ASSUME BackgroundInv, UNCHANGED <<foreground, app, signin, forms, serverStatus>>,
           main' = main \/ (main # "focus_status" /\ main' = "idle")
    PROVE  BackgroundInv'
<1>1. LastReportOffline' <=> LastReportOffline
  BY DEF LastReportOffline, StatusForms
<1> QED
  BY <1>1 DEF BackgroundInv

\* Steps that are not taken in the background, and do not lead there.
LEMMA ShownFrame ==
    ASSUME app # "inactive", app' # "inactive"
    PROVE  BackgroundInv'
  BY DEF BackgroundInv

\* For any number of tags, launches and waiting forms, if every POST succeeds: once
\* lostFocus() is through, the last word the server gets about a logged-in user is "offline".
\* (testApp::lostFocus, dbConnect::updateStatus)
THEOREM BackgroundIsReported ==
    ASSUME PostsMayFail = FALSE
    PROVE  Spec => []BackgroundReportedOffline
<1>1. Init => BackgroundInv
  BY DEF Init, BackgroundInv
<1>2. TypeOK /\ BackgroundInv /\ [Next]_vars => BackgroundInv'
  <2> SUFFICES ASSUME TypeOK, BackgroundInv, [Next]_vars PROVE BackgroundInv'
    OBVIOUS
  <2> USE DEF userVars, flags, mainVars, serverVars, Goto
  <2>1. CASE CheckFile \/ CheckGet \/ CheckReport \/ CheckAsk
    <3>1. main \in {"con_file", "con_get", "con_report", "con_ask"} /\ app' = app
      BY <2>1 DEF CheckFile, CheckGet, CheckReport, CheckAsk
    <3> QED
      BY <3>1, ShownFrame DEF BackgroundInv
  <2>2. CASE UpdateCertify \/ UpdateLogin \/ UpdateDump \/ UpdateTimer
    <3>1. app \in {"launched", "active"} /\ app' = app
      BY <2>2 DEF UpdateCertify, UpdateLogin, UpdateDump, UpdateTimer, Updates
    <3> QED
      BY <3>1, ShownFrame
  <2>3. CASE DumpTag \/ DumpEnd
    <3>1. main = "dump" /\ app' = app
      BY <2>3 DEF DumpTag, DumpEnd
    <3> QED
      BY <3>1, ShownFrame DEF BackgroundInv
  <2>4. CASE GotFocus \/ Exit \/ Relaunch
    BY <2>4 DEF GotFocus, Exit, Relaunch, BackgroundInv
  <2>5. CASE LostFocus
    BY <2>5 DEF LostFocus, BackgroundInv
  <2>6. CASE FocusStatus
    <3>1. /\ main = "focus_status" /\ main' = "focus_file" /\ addForm(StatusForm(getStatus))
          /\ UNCHANGED <<foreground, app, signin>>
      BY <2>6 DEF FocusStatus
    <3>2. app = "inactive" => getStatus = -1
      BY DEF BackgroundInv, getStatus
    <3>3. app = "inactive" /\ signin = "login" => LastReportOffline'
      BY <3>1, <3>2, ReportAdded
    <3> QED
      BY <3>1, <3>3 DEF BackgroundInv
  <2>7. CASE FocusFile
    BY <2>7, BackgroundFrame DEF FocusFile
  <2>8. CASE AddTag \/ IfOffline \/ WriteTag
    BY <2>8, BackgroundFrame DEF AddTag, IfOffline, WriteTag
  <2>9. CASE IfOnline
    <3>1. UNCHANGED <<foreground, app, signin, main, serverStatus>>
      BY <2>9 DEF IfOnline
    <3>2. CASE getStatus = 1
      <4>1. forms' = Append(forms, TagForm(Row(tag))) /\ TagForm(Row(tag)).kind # "status"
        BY <2>9, <3>2 DEF IfOnline, addForm, TagForm
      <4>2. LastReportOffline => LastReportOffline'
        BY <3>1, <4>1, OtherAdded
      <4> QED
        BY <3>1, <4>2 DEF BackgroundInv
    <3>3. CASE getStatus # 1
      BY <2>9, <3>1, <3>3, BackgroundFrame DEF IfOnline
    <3> QED
      BY <3>2, <3>3
  <2>10. CASE HttpPost
    <3>1. UNCHANGED <<foreground, app, signin, main>>
      BY <2>10 DEF HttpPost
    <3>2. LastReportOffline => LastReportOffline'
      BY <2>10, ReportServed DEF HttpPost
    <3> QED
      BY <3>1, <3>2 DEF BackgroundInv
  <2>11. CASE HttpFail \/ HttpLoseAnswer
    BY <2>11, PostsMayFail = FALSE DEF HttpFail, HttpLoseAnswer
  <2>12. CASE UNCHANGED vars
    BY <2>12, BackgroundFrame DEF vars
  <2> QED
    BY <2>1, <2>2, <2>3, <2>4, <2>5, <2>6, <2>7, <2>8, <2>9, <2>10, <2>11, <2>12
    DEF Next, Check, Update, Focus, Audio, Http
<1>3. TypeOK /\ BackgroundInv => BackgroundReportedOffline
  <2> SUFFICES ASSUME TypeOK, LastReportOffline PROVE ReportedStatus # 1
    BY DEF BackgroundInv, BackgroundReportedOffline
  <2>1. CASE StatusForms = {} /\ serverStatus = -1
    BY <2>1 DEF ReportedStatus
  <2>2. ASSUME NEW i \in StatusForms, \A j \in StatusForms : j <= i, forms[i].status = -1
        PROVE  ReportedStatus # 1
    <3> DEFINE last == CHOOSE k \in StatusForms : \A j \in StatusForms : j <= k
    <3>1. StatusForms \subseteq Int
      BY SMT DEF StatusForms
    <3>2. \E k \in StatusForms : \A j \in StatusForms : j <= k
      BY <2>2, Zenon
    <3>3. last \in StatusForms /\ \A j \in StatusForms : j <= last
      BY <3>2, Zenon
    <3>4. ReportedStatus = forms[last].status
      BY <2>2, Zenon DEF ReportedStatus
    <3> HIDE DEF last
    <3>5. last = i
      BY <2>2, <3>1, <3>3, SMT
    <3> QED
      BY <2>2, <3>4, <3>5, SMT
  <2> QED
    BY <2>1, <2>2 DEF LastReportOffline
<1> QED
  BY <1>1, <1>2, <1>3, TypeCorrect, PTL DEF Spec

=============================================================================
