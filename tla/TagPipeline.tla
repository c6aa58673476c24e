----------------------------- MODULE TagPipeline -----------------------------
(***************************************************************************)
(* How a recorded tag travels from the audio thread to the server: the     *)
(* User object (module User), DatabaseManager::newTagEvent, the dbConnect  *)
(* handlers that check the connection, report the status and upload t.txt, *)
(* the focus handlers of testApp, its log-in, and the queue of HTTP forms. *)
(*                                                                         *)
(* Three threads share this state without a lock (only the queue of forms  *)
(* has one), so each handler is cut where another thread can see or        *)
(* disturb it:                                                             *)
(*   main   - iOS run loop: setup, update, gotFocus, lostFocus, exit       *)
(*   audio  - libpd callbacks: receiveBang("to_of_addTag") -> newTagEvent  *)
(*   http   - ofxHttpUtils::threadedFunction                               *)
(* iOS may kill the process at any point and the user may launch it again; *)
(* only t.txt and the server survive.                                      *)
(***************************************************************************)
EXTENDS User, FiniteSets

CONSTANTS
    NFields,        \* lines a tag takes in t.txt (5 in the code)
    BootCheck,      \* answers the never-initialised buffer dbConnect::check may spell
    PostsMayFail,   \* whether a POST may end in an exception
    Answers,        \* answers userCertification.php may give
    MaxTags,        \* bound: tags recorded in a behaviour
    MaxForms,       \* bound: no new handler starts while this many forms wait
    MaxSessions     \* bound: launches of the app in a behaviour

ASSUME PipelineAssumption ==
    /\ NFields \in Nat /\ NFields >= 2
    /\ BootCheck \subseteq {"none", "yes", "no"}
    /\ PostsMayFail \in BOOLEAN
    /\ Answers \subseteq {"yes", "no"}
    /\ MaxTags \in Nat
    /\ MaxForms \in Nat
    /\ MaxSessions \in Nat \ {0}

VARIABLES
    app,            \* iOS: "launched" (no focus event yet), "active", "inactive", "exited"
    main,           \* where the main thread is; "idle" between two handlers
    signin,         \* testApp: "signedup" -> "requesting" -> "login"
    check,          \* dbConnect::check, the last answer to a certification
    a,              \* dbConnect::a, the status reported last by a connection check
    buf,            \* what parse_txt_file_to_tag() has not read yet of its copy of t.txt
    n,              \* its local n: the user name it read last
    audio,          \* where the audio thread is in newTagEvent(); "idle" outside
    tag,            \* the recording newTagEvent() handles
    field,          \* number of its field that addTagToFile() writes next
    sent,           \* history: newTagEvent() has uploaded it
    nextTag,        \* number of the next recording
    forms,          \* ofxHttpUtils::forms
    rows,           \* server: rows of its tag table
    twice,          \* server: rows it was sent more than once
    serverStatus,   \* server: the status it holds for this user (0: none yet)
    session,        \* number of the launch
    dumped,         \* history: this session has uploaded the present contents of t.txt
    both,           \* history: tags newTagEvent() has both uploaded and written to t.txt
    cut             \* history: since t.txt was last emptied, the status changed while a tag
                    \* was being written to it

audioVars  == <<audio, tag, field, sent>>
mainVars   == <<app, main, signin, a, buf, n>>
serverVars == <<rows, twice, serverStatus>>
history == <<dumped, both, cut>>
vars == <<userVars, mainVars, check, audioVars, nextTag, forms, serverVars, session, history>>

-----------------------------------------------------------------------------
\* The fields of a tag, in the order addTagToFile() writes them; the last one is the name
\* of the user, the same in every tag.
Field == Nat \X (0..NFields)
Name  == <<0, NFields>>
Empty == <<0, 0>>
FieldOf(t, i) == IF i = NFields THEN Name ELSE <<t, i>>
Row(t) == [i \in 1..NFields |-> FieldOf(t, i)]

\* The forms dbConnect fills in: uploadNewTag, updateStatus, askIfUserIsRegistered,
\* askDataToFriends.  Not "own": it carries the user id from before log-in, when userId_ is
\* uninitialised.
Form == [kind : {"tag", "status", "certify", "friends"}, row : Seq(Field),
         status : {-1, 0, 1}, own : BOOLEAN]

TagForm(row)       == [kind |-> "tag",     row |-> row,  status |-> 0, own |-> TRUE]
StatusForm(status) == [kind |-> "status",  row |-> <<>>, status |-> status,
                       own |-> signin = "login"]
CertifyForm        == [kind |-> "certify", row |-> <<>>, status |-> 0, own |-> TRUE]
FriendsForm        == [kind |-> "friends", row |-> <<>>, status |-> 0, own |-> TRUE]

\* ofxHttpUtils::addForm()
addForm(form) == forms' = Append(forms, form)

Goto(pc) == main' = pc

\* A process starts: testApp is allocated, dbConnect::setup() reads the status into a and
\* starts the HTTP thread, and testApp::setup() ends in checkCon().
Init ==
    /\ UserBoot /\ a = getStatus
    /\ app = "launched" /\ main = "con_file" /\ signin = "signedup"
    /\ check \in BootCheck
    /\ buf = <<>> /\ n = Empty /\ forms = <<>>
    /\ audio = "idle" /\ tag = 0 /\ field = 1 /\ sent = FALSE
    /\ file = <<>> /\ nextTag = 1 /\ session = 1
    /\ rows = {} /\ twice = {} /\ serverStatus = 0
    /\ dumped = FALSE /\ both = {} /\ cut = FALSE

\* A handler of the main thread starts.
Starts == main = "idle" /\ Len(forms) < MaxForms

\* The display link calls testApp::update() only while the app animates.
Updates == Starts /\ app \in {"launched", "active"}

-----------------------------------------------------------------------------
(* Main thread: checkCon() and checkCon_and_askFriends_Inf().  The two differ in the last *)
(* step only, and the second is the one called once the user is in.                       *)

\* The audio thread is between two lines of addTagToFile().
InMidTag == audio = "write" /\ field > 1

StatusChanged ==
    /\ status_changed(getStatus)
    /\ dumped' = (dumped /\ ~fileOpen')
    /\ cut' = IF b' = b THEN cut ELSE (cut /\ ~fileOpen') \/ InMidTag

\* status_changed(getStatus()) comes first, on the status of before the check.
CheckFile ==
    /\ main = "con_file"
    /\ StatusChanged
    /\ Goto("con_get")
    /\ UNCHANGED <<flags, app, signin, a, buf, n, check, audioVars, nextTag, forms, serverVars,
                   session, both>>

\* Mutant of AfterGet: the report is made outside the "else" branch.
AfterGetReport(connected) == "con_report"

\* Where a check goes on after the GET.
AfterGet(connected) == IF connected THEN "con_report" ELSE "idle"

\* The blocking GET of checkconnection.php.
CheckGet ==
    /\ main = "con_get"
    /\ \E connected \in BOOLEAN :
          /\ online' = connected
          /\ Goto(AfterGet(connected))
    /\ UNCHANGED <<foreground, fileState, file, app, signin, a, buf, n, check, audioVars,
                   nextTag, forms, serverVars, session, history>>

\* Connected: report the status if it differs from the one reported last.
CheckReport ==
    /\ main = "con_report"
    /\ IF getStatus # a
       THEN addForm(StatusForm(getStatus)) /\ a' = getStatus
       ELSE UNCHANGED <<forms, a>>
    /\ Goto(IF signin = "login" THEN "con_ask" ELSE "idle")
    /\ UNCHANGED <<userVars, app, signin, buf, n, check, audioVars, nextTag, serverVars,
                   session, history>>

\* askDataToFriends()
CheckAsk ==
    /\ main = "con_ask"
    /\ addForm(FriendsForm)
    /\ Goto("idle")
    /\ UNCHANGED <<userVars, app, signin, a, buf, n, check, audioVars, nextTag, serverVars,
                   session, history>>

-----------------------------------------------------------------------------
(* Main thread: testApp::update() *)

\* First call: certifyUser() posts the hard-coded credentials.
UpdateCertify ==
    /\ Updates /\ signin = "signedup"
    /\ addForm(CertifyForm)
    /\ signin' = "requesting"
    /\ UNCHANGED <<userVars, app, main, a, buf, n, check, audioVars, nextTag, serverVars,
                   session, history>>

\* Mutant of UpdateLogin: no log-in without a connection.
UpdateLoginOnline ==
    /\ Updates /\ signin = "requesting"
    /\ getStatus = 1 /\ check = "yes" /\ Goto("con_file")
    /\ signin' = "login"
    /\ UNCHANGED <<userVars, app, a, buf, n, check, audioVars, nextTag, forms, serverVars,
                   session, history>>

\* Five seconds later: offline, log in with the hard-coded id; online, wait for a "1".
UpdateLogin ==
    /\ Updates /\ signin = "requesting"
    /\ \/ getStatus = -1 /\ UNCHANGED main
       \/ getStatus = 1 /\ check = "yes" /\ Goto("con_file")
    /\ signin' = "login"
    /\ UNCHANGED <<userVars, app, a, buf, n, check, audioVars, nextTag, forms, serverVars,
                   session, history>>

\* Mutant of UploadPending: the state of the file is not looked at.
UploadPendingUngated == txtReady

UploadPending == txtReady /\ ~fileIsOnep

\* dbConnect::update(): the status came back to online, parse_txt_file_to_tag() copies t.txt.
UpdateDump ==
    /\ Updates /\ signin = "login"
    /\ UploadPending
    /\ buf' = file /\ n' = Empty
    /\ Goto("dump")
    /\ UNCHANGED <<userVars, app, signin, a, check, audioVars, nextTag, forms, serverVars,
                   session, history>>

\* The next tag of the copy.  Its loop looks at the stream before each read but the result
\* only before the first, so a missing last field keeps what n held before.
NextTag == SubSeq(Append(buf, n), 1, NFields)

MoreTags == Len(buf) >= NFields - 1

\* One round of its loop: five reads make a tag.
DumpTag ==
    /\ main = "dump" /\ MoreTags
    /\ addForm(TagForm(NextTag))
    /\ n' = NextTag[NFields]
    /\ buf' = SubSeq(buf, NFields + 1, Len(buf))
    /\ UNCHANGED <<userVars, app, main, signin, a, check, audioVars, nextTag, serverVars,
                   session, history>>

\* Mutant of DumpEnd: txt_ready_for_upload is not reset.
DumpEndNoReset ==
    /\ main = "dump" /\ ~MoreTags
    /\ buf' = <<>> /\ n' = Empty
    /\ dumped' = TRUE
    /\ Goto("idle")
    /\ UNCHANGED <<userVars, app, signin, a, check, audioVars, nextTag, forms, serverVars,
                   session, both, cut>>

\* End of the copy: fewer fields than that are dropped.
DumpEnd ==
    /\ main = "dump" /\ ~MoreTags
    /\ buf' = <<>> /\ n' = Empty
    /\ txtReady' = FALSE
    /\ dumped' = TRUE
    /\ Goto("idle")
    /\ UNCHANGED <<flags, b, fileOpen, fileIsOnep, file, app, signin, a, check, audioVars,
                   nextTag, forms, serverVars, session, both, cut>>

\* Mutant of UpdateTimer: the timer is looked at before the pending upload.
UpdateTimerFirst ==
    /\ Updates /\ signin = "login"
    /\ Goto("con_file")
    /\ UNCHANGED <<userVars, app, signin, a, buf, n, check, audioVars, nextTag, forms,
                   serverVars, session, history>>

\* dbConnect::update(): the 10-second timer fires (after a pending upload, never before it).
UpdateTimer ==
    /\ Updates /\ signin = "login"
    /\ ~UploadPending
    /\ Goto("con_file")
    /\ UNCHANGED <<userVars, app, signin, a, buf, n, check, audioVars, nextTag, forms,
                   serverVars, session, history>>

-----------------------------------------------------------------------------
(* Main thread: gotFocus(), lostFocus() and exit() of testApp *)

GotFocus ==
    /\ Starts /\ app \in {"launched", "inactive"}
    /\ app' = "active"
    /\ foreground' = TRUE
    /\ Goto("focus_status")
    /\ UNCHANGED <<online, fileState, file, signin, a, buf, n, check, audioVars, nextTag, forms,
                   serverVars, session, history>>

\* Mutant of LostFocus: appState_foreground_ is not cleared before the status is posted.
LostFocusLate ==
    /\ Starts /\ app = "active"
    /\ app' = "inactive"
    /\ Goto("focus_status")
    /\ UNCHANGED <<userVars, signin, a, buf, n, check, audioVars, nextTag, forms, serverVars,
                   session, history>>

LostFocus ==
    /\ Starts /\ app = "active"
    /\ app' = "inactive"
    /\ foreground' = FALSE
    /\ Goto("focus_status")
    /\ UNCHANGED <<online, fileState, file, signin, a, buf, n, check, audioVars, nextTag, forms,
                   serverVars, session, history>>

\* updateStatus(), whatever was reported before; a is left alone.
FocusStatus ==
    /\ main = "focus_status"
    /\ addForm(StatusForm(getStatus))
    /\ Goto("focus_file")
    /\ UNCHANGED <<userVars, app, signin, a, buf, n, check, audioVars, nextTag, serverVars,
                   session, history>>

FocusFile ==
    /\ main = "focus_file"
    /\ StatusChanged
    /\ Goto("idle")
    /\ UNCHANGED <<flags, app, signin, a, buf, n, check, audioVars, nextTag, forms, serverVars,
                   session, both>>

Exit ==
    /\ Starts /\ app # "exited"
    /\ app' = "exited"
    /\ addForm(StatusForm(getStatus))
    /\ UNCHANGED <<userVars, main, signin, a, buf, n, check, audioVars, nextTag, serverVars,
                   session, history>>

-----------------------------------------------------------------------------
(* Audio thread: DatabaseManager::newTagEvent() reads the status twice *)

AddTag ==
    /\ audio = "idle"
    /\ signin = "login"                     \* start_tag is sent at log-in
    /\ nextTag <= MaxTags
    /\ audio' = "if_online"
    /\ tag' = nextTag /\ field' = 1 /\ sent' = FALSE
    /\ nextTag' = nextTag + 1
    /\ UNCHANGED <<userVars, mainVars, check, forms, serverVars, session, history>>

IfOnline ==
    /\ audio = "if_online"
    /\ IF getStatus = 1
       THEN addForm(TagForm(Row(tag))) /\ sent' = TRUE
       ELSE UNCHANGED <<forms, sent>>
    /\ audio' = "if_offline"
    /\ UNCHANGED <<userVars, mainVars, check, tag, field, nextTag, serverVars, session,
                   history>>

IfOffline ==
    /\ audio = "if_offline"
    /\ audio' = IF getStatus = -1 THEN "write" ELSE "idle"
    /\ both' = both \cup (IF sent /\ getStatus = -1 THEN {tag} ELSE {})
    /\ UNCHANGED <<userVars, mainVars, check, tag, field, sent, nextTag, forms, serverVars,
                   session, dumped, cut>>

\* Mutant of MoreFields: one field too many.
MoreFieldsOff(i) == i <= NFields

MoreFields(i) == i < NFields

WriteTag ==
    /\ audio = "write"
    /\ WriteField(FieldOf(tag, field))
    /\ IF MoreFields(field)
       THEN field' = field + 1 /\ UNCHANGED audio
       ELSE audio' = "idle" /\ UNCHANGED field
    /\ UNCHANGED <<flags, mainVars, check, tag, sent, nextTag, forms, serverVars, session,
                   history>>

-----------------------------------------------------------------------------
(* HTTP thread, and the PHP scripts it talks to *)

\* What the scripts do with a form that arrives.
Serve(form) ==
    /\ rows' = rows \cup (IF form.kind = "tag" THEN {form.row} ELSE {})
    /\ twice' = twice \cup (IF form.kind = "tag" THEN {form.row} \cap rows ELSE {})
    /\ serverStatus' = IF form.kind = "status" /\ form.own THEN form.status ELSE serverStatus

\* Mutant of Pop: left to parseData(), which has no branch for the answer to a tag.
PopInParser == forms' = IF Head(forms).kind = "tag" THEN forms ELSE Tail(forms)

\* The worker pops the front form once doPostForm() is done with it, however it ended.
Pop == forms' = Tail(forms)

\* doPostForm() succeeds; parseData() stores the answer to a certification.
HttpPost ==
    /\ forms # <<>>
    /\ Serve(Head(forms))
    /\ IF Head(forms).kind = "certify" THEN check' \in Answers ELSE UNCHANGED check
    /\ Pop
    /\ UNCHANGED <<userVars, mainVars, audioVars, nextTag, session, history>>

\* doPostForm() catches an exception before the script ran: the form is popped all the same.
HttpFail ==
    /\ PostsMayFail
    /\ forms # <<>>
    /\ Pop
    /\ UNCHANGED <<userVars, mainVars, check, audioVars, nextTag, serverVars, session, history>>

\* The exception comes after the script ran: only the answer is lost.
HttpLoseAnswer ==
    /\ PostsMayFail
    /\ forms # <<>>
    /\ Serve(Head(forms))
    /\ Pop
    /\ UNCHANGED <<userVars, mainVars, check, audioVars, nextTag, session, history>>

-----------------------------------------------------------------------------
\* iOS ends the process, wherever its threads are, and the user launches the app again.
Relaunch ==
    /\ session < MaxSessions
    /\ session' = session + 1
    /\ UserReboot /\ a' = getStatus'
    /\ app' = "launched" /\ main' = "con_file" /\ signin' = "signedup"
    /\ check' \in BootCheck
    /\ buf' = <<>> /\ n' = Empty /\ forms' = <<>>
    /\ audio' = "idle" /\ tag' = 0 /\ field' = 1 /\ sent' = FALSE
    /\ dumped' = FALSE /\ cut' = FALSE
    /\ UNCHANGED <<file, nextTag, serverVars, both>>

Check  == CheckFile \/ CheckGet \/ CheckReport \/ CheckAsk
Update == UpdateCertify \/ UpdateLogin \/ UpdateDump \/ DumpTag \/ DumpEnd \/ UpdateTimer
Focus  == GotFocus \/ LostFocus \/ FocusStatus \/ FocusFile \/ Exit
Audio  == AddTag \/ IfOnline \/ IfOffline \/ WriteTag
Http   == HttpPost \/ HttpFail \/ HttpLoseAnswer

Next == Check \/ Update \/ Focus \/ Audio \/ Http \/ Relaunch

\* A handler that has started finishes; update() is called again and again while the app
\* animates; the HTTP thread keeps polling its queue.  Nothing obliges the user, iOS or the
\* network to do anything.
Fairness ==
    /\ WF_vars(CheckFile) /\ WF_vars(CheckGet) /\ WF_vars(CheckReport) /\ WF_vars(CheckAsk)
    /\ WF_vars(FocusStatus) /\ WF_vars(FocusFile)
    /\ WF_vars(UpdateCertify) /\ WF_vars(UpdateLogin) /\ WF_vars(UpdateDump)
    /\ WF_vars(DumpTag) /\ WF_vars(DumpEnd)
    /\ WF_vars(IfOnline) /\ WF_vars(IfOffline) /\ WF_vars(WriteTag)
    /\ WF_vars(Http)

Spec     == Init /\ [][Next]_vars
FairSpec == Spec /\ Fairness

-----------------------------------------------------------------------------
(* Properties *)

\* Types of the variables: what each field, flag and queue may hold in any run.
TypeOK ==
    /\ foreground \in BOOLEAN /\ online \in BOOLEAN
    /\ b \in Int
    /\ fileOpen \in BOOLEAN /\ fileIsOnep \in BOOLEAN /\ txtReady \in BOOLEAN
    /\ file \in Seq(Field)
    /\ app \in {"launched", "active", "inactive", "exited"}
    /\ main \in {"idle", "con_file", "con_get", "con_report", "con_ask",
                 "focus_status", "focus_file", "dump"}
    /\ signin \in {"signedup", "requesting", "login"}
    /\ check \in {"none", "yes", "no"}
    /\ a \in {-1, 1}
    /\ buf \in Seq(Field) /\ n \in Field
    /\ audio \in {"idle", "if_online", "if_offline", "write"}
    /\ tag \in Nat /\ field \in 1..NFields /\ sent \in BOOLEAN
    /\ nextTag \in Nat
    /\ forms \in Seq(Form)
    /\ rows \subseteq Seq(Field) /\ twice \subseteq rows
    /\ serverStatus \in {-1, 0, 1}
    /\ session \in Nat
    /\ dumped \in BOOLEAN /\ both \subseteq Nat /\ cut \in BOOLEAN

\* While parse_txt_file_to_tag() works through its copy, t.txt is closed and still ends
\* with what is left of the copy: neither the audio thread nor a status change can slip a
\* tag into the file after it was read.  (dbConnect::update and its test of fileIsOnep)
DumpSeesStableFile ==
    main = "dump" =>
        /\ ~fileOpen
        /\ Len(buf) <= Len(file)
        /\ buf = SubSeq(file, Len(file) - Len(buf) + 1, Len(file))

\* t.txt is open exactly when the status that status_changed() saw last is offline: b, the
\* stream and fileIsOnep never drift apart.  Needs a b that starts at 0 and an open that
\* succeeds.  (User::status_changed)
FileFollowsB ==
    /\ fileOpen <=> b = -1
    /\ main # "con_file" \/ signin # "signedup" => (fileIsOnep <=> fileOpen)

\* Once a connection check has reported "online", no later check of this run of the app
\* reports anything: the test "b != a" never sees the user go offline, since an offline
\* status is only ever met on the branch that reports nothing.  (dbConnect::checkCon,
\* dbConnect::checkCon_and_askFriends_Inf)
ReportsOnlineOnce == [][a = 1 /\ session' = session => a' = 1]_vars

\* After log-in, t.txt loses contents only when they have been uploaded, or when going
\* offline overtakes an upload that was already due.  (status_changed against update)
OnlyUploadedFileErased ==
    [][file # <<>> /\ file' = <<>> => dumped \/ txtReady \/ signin # "login"]_vars

\* A run of the app uploads the same tags of t.txt at most once, although the upload
\* never clears the file.  (parse_txt_file_to_tag, status_changed)
UploadedOnce == [][main # "dump" /\ main' = "dump" /\ Len(file) >= NFields - 1 => ~dumped]_vars

\* The server gets a row twice only when the status changed between the two times
\* newTagEvent() reads it: upload, t.txt and relaunch do not repeat a tag in any other way.
\* (DatabaseManager::newTagEvent, parse_txt_file_to_tag)
TwiceOnlyByRace == twice \subseteq {Row(t) : t \in both}

\* The status the server will hold once the forms that wait have arrived.
StatusForms == {i \in 1..Len(forms) : forms[i].kind = "status" /\ forms[i].own}
ReportedStatus ==
    IF StatusForms = {} THEN serverStatus
    ELSE forms[CHOOSE i \in StatusForms : \A j \in StatusForms : j <= i].status

\* In the background a user who has logged in is reported offline: nothing that was queued
\* before, or is done by another thread, makes the server end up with "online".  Needs POSTs
\* that do not fail.  (testApp::lostFocus, dbConnect::updateStatus)
BackgroundReportedOffline ==
    app = "inactive" /\ main = "idle" /\ signin = "login" => ReportedStatus # 1

\* A tag uploaded while online does leave the queue.  (ofxHttpUtils::threadedFunction)
FormsDrain ==
    \A t \in 1..MaxTags :
        (\E i \in 1..Len(forms) : forms[i] = TagForm(Row(t)))
            ~> ~(\E i \in 1..Len(forms) : forms[i] = TagForm(Row(t)))

\* An upload that is due takes place, unless the app leaves the foreground first.
\* (dbConnect::update)
PendingUploadHappens ==
    signin = "login" /\ UploadPending ~> ~UploadPending \/ app \in {"inactive", "exited"}

\* A registered user whose POSTs succeed gets past "LOADING" when the app stays in the
\* foreground.  (testApp::update, certifyUser)
SignsIn == <>[](app = "active") => <>(signin = "login")

-----------------------------------------------------------------------------
(* The pipeline as a store of tags: module TagStore *)

\* What of t.txt may still be uploaded: the rest of the copy during an upload; nothing before
\* the first check, which empties the file, and nothing once it has been uploaded.
FirstCheckDue == main = "con_file" /\ signin = "signedup"
Unread ==
    IF main = "dump" THEN buf
    ELSE IF dumped \/ FirstCheckDue THEN <<>>
    ELSE file
Places == 1..Len(Unread)

\* Where a tag begins all of whose lines are there.
Heads == {p \in Places : Unread[p][2] = 1 /\ p + NFields - 1 \in Places}

\* A form as a letter of TagStore: the tag it carries, or Torn, or Other.
Letter(form) ==
    LET t == form.row[1][1]
    IN  IF form.kind # "tag" THEN 0 ELSE IF form.row = Row(t) THEN t ELSE -1

Hand ==
    IF audio = "idle" THEN "done"
    ELSE IF audio = "write" THEN "filing"
    ELSE IF sent THEN "sent"
    ELSE "new"

Kept    == IF cut THEN {} ELSE {Unread[p][1] : p \in Heads}
Way     == [k \in 1..Len(forms) |-> Letter(forms[k])]
Arrived == {t \in 1..(nextTag - 1) : Row(t) \in rows}

Store == INSTANCE TagStore WITH
    recorded <- nextTag - 1, hand <- Hand, open <- fileOpen, kept <- Kept, damaged <- cut,
    way <- Way, arrived <- Arrived

\* Whatever the three threads, iOS and the network do, tags fare as in a TagStore: a tag that
\* comes to t.txt is kept unless the file is closed or was opened or closed in mid-tag; one that
\* is whole in t.txt is uploaded once and in its turn, unless going offline again overtakes the
\* upload or the process ends; rows put together from parts of tags come only from a file that
\* was opened or closed in the middle of a tag, and to open it between two tags heals it.
\* (DatabaseManager::newTagEvent, User::status_changed, dbConnect::parse_txt_file_to_tag)
ImplementsStore == Store!Spec

\* A row that is no tag is queued only from a file that was opened or closed in the middle of
\* one.  (DatabaseManager::newTagEvent, dbConnect::parse_txt_file_to_tag)
TornOnlyByCut ==
    [][Len(forms') > Len(forms) /\ ~cut =>
           LET form == forms'[Len(forms')]
           IN  form.kind = "tag" => \E t \in 1..(nextTag - 1) : form.row = Row(t)]_vars

-----------------------------------------------------------------------------
(* What comments in the code say of it; the code does otherwise *)

\* user.mm:117: the previous file is erased "if status changes from online->offline".
ErasedOnlyWhenGoingOffline ==
    [][file # <<>> /\ file' = <<>> => b = 1 /\ b' = -1]_vars

\* dbConnect.mm:473: "checks user status and updates the database accordinglly".
OnlineReportedOnline ==
    signin = "login" /\ app = "active" /\ main = "idle" /\ getStatus = 1 => ReportedStatus = 1

\* dbConnect.mm:566: "parses the txt file into several tags and uploads it into the server".
RowsAreTags == \A r \in rows : \E t \in 1..(nextTag - 1) : r = Row(t)
=============================================================================
