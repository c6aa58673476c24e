# Hurly-Burly in TLA+: from a sound to a tag on the friends' screens

Hurly-Burly is an iPhone application (openFrameworks + libpd).  A Pd patch listens to the
microphone, classifies what it hears and, every so often, produces a *tag*: user id, loudness,
sound class, time stamp, user name.  Tags go to a web server, which also tells every user what
the friends are hearing.  While the phone is offline, or the app is in the background, tags are
kept in a text file, `t.txt`, and uploaded later.

This directory models how a recording becomes a class and a tag, how tags, status reports and
log-in travel between the threads of the app, the file and the server, the queue of HTTP forms they
share, and what becomes of the server's answers: the parts of the program in which order,
concurrency and restarts decide whether data are lost, repeated or wrong.

## 1. Inventory of the system

Paths are relative to the repository.

| Component | Code | State it keeps | Operations |
|---|---|---|---|
| `User` | `src/user.mm` | foreground and connection flags, `b` (status seen last), `tempfile`, `fileIsOnep`, `txt_ready_for_upload`; `t.txt` on disk | `getStatus`, `status_changed`, `addTagToFile`, setters |
| `DatabaseManager` | `src/databaseManager.mm` | last values received from Pd | `newTagEvent` (upload or write to the file) |
| `dbConnect` | `src/dbConnect.mm` | `a` (status reported last), `check`, `userID`, timer, the friends' lines, scroll offset | `checkCon`, `checkCon_and_askFriends_Inf`, `updateStatus`, `uploadNewTag`, `parse_txt_file_to_tag`, `parseData`, `update` |
| `testApp` | `src/ios/testApp.mm` | log-in flags | `setup`, `update` (log-in, then the timers), `gotFocus`, `lostFocus`, `exit`, touches |
| `ofxHttpUtils` | `ofxHttpUtils/ofxHttpUtils.cpp` | queue of forms with its lock | `addForm`, `threadedFunction`, `doPostForm` |
| `AppCore` | `src/AppCore.mm` | movement flag, last acceleration | libpd callbacks `receiveBang`, `receiveFloat`, `receiveSymbol` |
| Pd patch | `bin/data/combined_patch_16_april_2013.pd` | clocks, feature windows, pitch statistics, the message under construction | records, meters, classifies; sends tag, loudness, date and finally `to_of_addTag` |
| Pd externals | `pd_externals/timbreID.c`, `featureAccum.c`, `counter.c`, `repack.c` and others | examples and their clusters, frames accumulated, counts | nearest neighbour with its confidence, windows, counting, packing |
| `t_lines` | `src/lines.mm` | one friend's line | drawing, `vPos` |
| iOS / ofxiPhone | `ofxiPhone/src/*.mm` | focus, display link | calls the handlers of `testApp` |
| server | not in the repository | rows of tags, status per user | PHP scripts behind the POSTs |

Vendored code (`ofxMySQL`, `ofxNetwork`, `ofxiPhoneFile`, most of `ofxiPhone`,
`Pd-extended.app`, the externals that extract features), drawing helpers (`dots`, `data`, `drawingFunctions`) and the
unbuilt `testApp_manuallogin.mm` are listed in `PROJECT.json` with the reason they are left out.

### How the components interact

Three threads share the `User` object and `dbConnect`.  Only the queue of forms has a lock.

* **main** (iOS run loop): `testApp::setup`, then `update`/`draw` from the display link, and
  `gotFocus`, `lostFocus`, `exit` from iOS.  It blocks in the GET of a connection check.
* **audio** (libpd): all of the patch runs here, on Pd's clock, one message to its end before the
  next.  Its sends call `AppCore`; at `to_of_addTag`, `AppCore::receiveBang` calls
  `DatabaseManager::newTagEvent`, which reads the status and then queues a form or writes five
  lines to `t.txt`.  `Info.plist` asks for background audio, so this thread keeps running when
  `update()` no longer does.
* **http** (`ofxHttpUtils::threadedFunction`): posts the forms one by one and calls
  `dbConnect::parseData` with each answer.

iOS may end the process at any point.  `t.txt` and the server survive.

### What is hard here

* The status is derived from two flags, written by handlers of the main thread and read by the
  audio thread, twice in one operation (`databaseManager.mm:137,145`).
* `status_changed()` opens, truncates and closes `t.txt`; it is called *before* the GET that
  decides the status (`dbConnect.mm:502,541`), so the file lags one check behind.
* Whether `t.txt` is to be uploaded is remembered in memory only, and the fields that remember it
  are never initialised: `User()` sets none of them (`user.mm:13`), and the object is part of a
  `testApp` allocated with `new`.
* A status report is a form in the same queue as tags; it is posted once, and forgotten if the
  POST fails.  `a` records what checks reported, not what the focus handlers reported.
* The answer to the certification is copied into three buffers on the HTTP thread, while
  `update()` polls the first of them and then reads the third, without a lock.  A line too long for
  its buffer, or the end of the answer, makes every later read fail (`dbConnect.mm:363`).
* The view passes on the touches of several fingers (`EAGLView.mm:84`), and the handlers of
  `testApp` do not tell them apart.
* In the patch four numbers become one message because they arrive in a certain order and count
  (`pd:145`, `pd:331`).  Windows, repacks, a counter and a message box each keep state across
  recordings and are emptied by one `reset`, which sets free what they hold; and a rejected
  recording starts the next before it is sent itself.
* `timbreID` has arrays for as many clusters as it is told of, numbered from 0; the patch numbers its
  two clusters 1 and 2.

`PROJECT.json` lists every hazard at its line, with the properties that cover it.

### What makes each component correct

* `User`: the stream is open exactly through the offline periods (`FileFollowsB`); tags are not
  erased before they were uploaded (`OnlyUploadedFileErased`).
* the patch with `timbreID`: a recording is judged at most once and by nothing but what was heard in
  it (`ImplementsListener`), the message that is parsed is complete and in order
  (`MessageAligned`), every attempt ends in a tag (`EveryAttemptTagged`).
* `AppCore`: a tag carries the loudness and, but for the first of a launch, the movement of its own
  recording (`TagIsOwn`).
* `DatabaseManager` and `dbConnect` together: a tag reaches the server once (`TwiceOnlyByRace` says
  how it may not), or waits in `t.txt` for its turn, and nothing but recorded tags is uploaded
  (`ImplementsStore`, and `TornOnlyByCut` says when not).
* `dbConnect`: the upload reads a file nobody writes (`DumpSeesStableFile`), once
  (`UploadedOnce`), and eventually (`PendingUploadHappens`); having reported online, checks do not
  report again (`ReportsOnlineOnce`).
* `testApp`: a user in the background is reported offline (`BackgroundReportedOffline`); a
  registered user gets in (`SignsIn`), under the id the server sent (`SignedInAsOwn`); the list
  follows a finger alone on it and rests without it (`FollowsFinger`, `RestsWithoutFinger`).
* `ofxHttpUtils`: forms are posted in order, at most once (`ImplementsChannel`), and leave the
  queue whatever happens to them (`FormsDrain`, `PostsServeChannel`); adding one never waits
  for the network (`AddReturns`).
* the friends' lines: one per friend, each with that friend's last tag (`LinesApart`,
  `ImplementsBook`, `AnswerShown`).

## 2. Modules

| Module | Models |
|---|---|
| `User` | `user.mm`: flags, `getStatus`, `status_changed`, one line of `addTagToFile` |
| `TagPipeline` | extends `User` with `newTagEvent`, the checks, the upload, the focus handlers, the log-in, the queue of forms, the server, and relaunches; implements `TagStore` |
| `TagStore` | what the pipeline promises about tags: sent at once or kept, uploaded oldest first, in order, at most once; when a tag may be lost, and how the store may be damaged |
| `FormChannel` | what callers of `addForm` rely on: a channel that keeps the order and may lose, but not repeat |
| `HttpQueue` | `addForm` and `threadedFunction` with the lock, every lock, unlock and half of a `push` or `pop` a step; implements `FormChannel` |
| `FriendsBook` | what the list of friends is for: one entry per friend, with the last news of that friend |
| `FriendsView` | `parseData` on an answer of type '4', one line of the list per step; implements `FriendsBook` for ids and tags |
| `TimbreID` | the object `timbreID` as the patch uses it: reading examples, clustering by hand, nearest neighbour and confidence, as operators |
| `Classifier` | extends `TimbreID` with the accumulation of frames, the pitch statistics, the collection of answers into a message, the reset, and the rules that make a class |
| `Recorder` | extends `Classifier` with the main canvas of the patch, its clocks, and the values `AppCore` and `DatabaseManager` receive; implements `Listener` |
| `Listener` | what the classifier is for: at most one judgement of a recording, by what was heard in it |
| `TestApp` | `update()` at log-in against the buffers the HTTP thread fills, and the touches that move the list |
| `MCTagPipeline`, `MCHttpQueue`, `MCFriendsView`, `MCRecorder`, `MCTestApp` | values of constants for TLC |
| `TagPipelineProofs`, `RaceProofs`, `StoreProofs`, `HttpQueueProofs`, `FriendsViewProofs`, `ClassifierProofs`, `RecorderProofs`, `TestAppProofs` | theorems |

`Recorder` ends where `TagPipeline` begins: its `AddTag` is the call of `newTagEvent()`, which there
is a step in five parts.  `TestApp` looks closely at two steps of `TagPipeline` (`UpdateLogin` and
the answer to the certification) and takes the status as `setup()` found it; focus changes are in
`TagPipeline`.  The other detailed modules meet at `addForm` and at the answers.  `TagPipeline` takes posting and
popping a form as one step; `HttpQueue` justifies it, for its refinement of `FormChannel` says
that nothing can be told from outside about what lies between the two.  `FriendsView` begins where
the answer to a `FriendsForm` arrives.

### State

`foreground`, `online`, `b`, `fileIsOnep` and `txtReady` are the fields of `User`; `fileOpen` is
`tempfile.is_open()`; `file` is the contents of `t.txt` as a sequence of fields.  A field is a
pair of the number of the recording and the number of the line, the user name being the same in
every tag.  `main` and `audio` are the program counters of two threads: the values of `main` name
the next statement of a handler in progress (`con_*` for a connection check, `focus_*` for a focus
handler, `dump` for the upload), `"idle"` is between handlers.  `forms` is the queue; the HTTP
thread has no counter, since posting and popping a form is one step (see section 7).  `buf` and
`n` are local to `parse_txt_file_to_tag()`.  `rows`, `twice` and `serverStatus` are the server's.
`dumped`, `sent`, `both` and `cut` are history variables; no guard reads them.  `cut` says that, since
`t.txt` was last emptied, `status_changed()` opened or closed it while the audio thread was between
two lines of a tag.

`TagStore` sees these variables through the mapping at the end of `TagPipeline`.  `Unread` is the
part of `t.txt` that may still be uploaded: the rest of the copy during an upload, nothing once the
upload is over or as long as the first check of a launch, which empties the file, has not run, and
the whole file otherwise.  A tag in hand is `"filing"` while `addTagToFile()` writes it; a tag is
`Kept` if all its lines are in `Unread`; the store is open when the stream is, and damaged when
`cut`.  On the `Way` each form is the tag it carries, or `Torn` if its row is no tag, or `Other`;
`Arrived` are the tags whose rows the server has.

In `HttpQueue`, `holder` is the owner of the lock of `ofThread`, and `seen[t]` is the state of the
queue from which the unfinished `push()` or `pop()` of thread `t` started: without the lock, writing
it back would undo what others did meanwhile.  A form is named after the call that added it.
`Waiting`, the value of the abstract `waiting`, leaves out the front form between its POST and its
`pop()`.

In `FriendsView`, `lines` is `myLinesCollection_`, `i` and `j` are the loop variables (from 1), and
`buffer` holds the numbers `ofToInt()` makes of the local buffers.  `good` says how many fields of
the answer can be read: the rest lie behind a field of 20 characters or more (only a name can be
so long) or behind the end of a truncated answer.

In `TimbreID` features are abstracted to the distances of a window to the examples, and confidences
are in tenths.  In `Classifier`, `speech` and `music` are `currentFrame` of the two `featureAccum`
objects, `mean` is the object of that name, `qt` and `avg` are the number boxes beside it,
`confs` and `classes` the two `repack 3`, and `box` the message under construction with its
counter and what it has sent.  In `Recorder`, `due` says which of Pd's delays runs, `audio` the
message being handled, and `f2`, `isMoving`, `loudness`, `tag` are the fields of `AppCore` and
`DatabaseManager`.  `heard`, `moved`, `inherited` and `judged` are history variables; the first is what `Listener`
speaks about, the second is movement seen in this attempt and nothing else, and the third says that
`isMoving` was TRUE in the heap and no tag has cleared it since.

In `TestApp`, `check`, `userID` and `http` are two of the buffers and the place of `parseData()`
between them, and `good` says that no read of the answer has failed.  An id is the user's own, a
part of it (the line did not fit), empty (a failed read emptied the buffer, as libraries since C++11
do; `Empties` has both kinds) or what the heap held.  `down` are the fingers on the screen and `ys`
where they are; `touchdown_y`, `tA_last_value`, `last_value` and `deltamove` have the names of the code
and `off` is the offset of the list.
A touch lasts from the first finger to come down to the last to be lifted.  `touched`, `dragged`,
`crowded`, `pending`, `slipped` and `slow` are history variables.

### Actions

Handlers of `TagPipeline` are cut where another thread can see or disturb the state, and nowhere else:

| Action | Code |
|---|---|
| `CheckFile`, `CheckGet`, `CheckReport`, `CheckAsk` | `checkCon()` and `checkCon_and_askFriends_Inf()`: `status_changed`, the GET, the report, the request for the friends |
| `UpdateCertify`, `UpdateLogin` | `testApp::update()` before log-in |
| `UpdateDump`, `DumpTag`, `DumpEnd` | `dbConnect::update()` and `parse_txt_file_to_tag()`, one tag per step |
| `UpdateTimer` | the ten-second timer of `dbConnect::update()` |
| `GotFocus`, `LostFocus`, `FocusStatus`, `FocusFile`, `Exit` | the handlers of the same names: set the flag, post the status, `status_changed` |
| `AddTag`, `IfOnline`, `IfOffline`, `WriteTag` | `newTagEvent()`: entry, the two tests, one step per line of the file |
| `HttpPost`, `HttpFail`, `HttpLoseAnswer` | `doPostForm()`: success, exception before and after the script ran |
| `Relaunch` | the process ends anywhere; a new one runs the constructors and `setup()` |
| `AddCall`, `AddLock`, `AddRead`, `AddWrite`, `AddUnlock` | `addForm()`: the lock, the two halves of `push()`, the unlock |
| `WorkLock`, `WorkTake`, `WorkEmpty`, `Post`, `PostFails`, `WorkRelock`, `WorkRead`, `WorkWrite`, `WorkUnlock` | `threadedFunction()`: `front()`, the POST without the lock, the two halves of `pop()` |
| `Start`, `Metro`, `ReRecord` | start of an attempt: `metro`, the timer, the reset, two delays |
| `Timer`, `Record`, `Loud`, `Silence`, `Analyse` | the delays of 1.5 s and 5 s, the meter, the spigot |
| `Frame`, `AskSpeech`, `FrameMusic`, `AskMusic`, `Analysed` | one frame from right to left: pitch, the window of 10, the window of 30, each with the answer of its `timbreID` |
| `Decide`, `AddTag`, `MessageSent` | the message of four numbers: parsed, sent as tag, and the reset after it |
| `Certify`, `FiveSeconds`, `LoginOffline`, `LoginOnline` | `testApp::update()` before log-in |
| `ParseCheck`, `ParseMessage`, `ParseUserID`, `NoAnswer` | `parseData()` on an answer of type '1', buffer by buffer |
| `touchDown`, `touchMoved`, `touchUp`, `Update` | the handlers of these names for any finger, and the end of `dbConnect::update()`; `EAGLView` follows the empty `touchCancelled()` by `touchUp()`, so a touch taken away is a `touchUp` |
| `Arrive`, `ReadFriend`, `VisitLine`, `LinesVisited`, `AddLine`, `Parsed` | `parseData()`: the loop over the friends, the loop over the lines, the new line |

`parse_txt_file_to_tag()` tests its stream before each read and uses what it read without a test.
So with one field missing at the end it still uploads a tag, completed with what `n` held before
(`NextTag`); with more missing it drops them.

A step of `Recorder` is a message with all it causes, since in Pd nothing comes between; it is cut
where a class is passed on, where an answer of `timbreID` is chosen, and where history is taken.
A confidence of exactly 1 is replaced by 0 (`moses 1`), so the rule of `parsing_and_classification`
for a confidence of 1 never fires; the model has both.

What is abstracted: the text of forms and answers, the time of timers (the 5 s of the log-in and
the 10 s of the checks may be over at any time), drawing, and the id a form carries, of which only
`own` is kept: before log-in `userId_` is uninitialised and a status report does not concern the
user.

### Uninitialised fields

`BootFlags`, `BootReady`, `BootB` and `BootCheck` say what the never-initialised fields may hold
at a launch; `BootMoving` does so for `AppCore::isMoving`, and `BootCheck` in `TestApp` for the first
character of the buffer that is polled.  A run either takes zeros (what a fresh heap page gives) or every value that
matters: all booleans and, for `b`, one value below, between and above the statuses -1 and 1 and
the statuses themselves.

## 3. Properties and runs

| Run | Shows | States |
|---|---|---|
| `pipeline_zeroed` | zeros, two launches, two tags, failing POSTs: `TypeOK`, `FileFollowsB`, `TwiceOnlyByRace`, `OnlyUploadedFileErased`, `UploadedOnce`, `ImplementsStore`, `TornOnlyByCut` | 3.1 M |
| `pipeline_heap` | any heap, opens that fail, no POST lost: `DumpSeesStableFile`, `ReportsOnlineOnce`, `BackgroundReportedOffline` | 0.55 M |
| `pipeline_live` | fairness: `FormsDrain`, `PendingUploadHappens`, `SignsIn` | 0.14 M |
| `queue` | two callers, two calls each, POSTs that fail or never end: `TypeOK`, `Protected`, `ImplementsChannel`, `PostsServeChannel`, `AddReturns` | 15 k |
| `friends` | answers readable up to any field: `LinesApart`, `AnswerShown`, `ImplementsBook` | 0.13 M |
| `recorder` | any pitch in any frame, any answer of the two objects, examples that may be missing, a phone that moves or not: `TypeOK`, `MessageAligned`, `TagIsOwn`, `ImplementsListener`, `EveryAttemptTagged` | 1.3 M |
| `signin` | buffers half filled when `update()` reads them, answers with lines missing or too long, touches of two fingers between any two frames: `TypeOK`, `SignedInAsOwn`, `FollowsFinger`, `RestsWithoutFinger` | 4.3 M |

The comment above each property says what it means and which code it is
about.

Five runs show that the code does not do what a comment in it says:

| Run | Comment | What happens |
|---|---|---|
| `finding_erased` | `user.mm:117`, erased on online->offline | a launch erases the tags a killed run left, without any change of status |
| `finding_reported` | `dbConnect.mm:473`, updates the database accordingly | after connection lost, background, foreground and connection found, the user stays offline on the server |
| `finding_rows` | `dbConnect.mm:566`, parses the file into several tags | an open or close between two lines of a tag makes rows that are no recorded tag |
| `finding_status` | `dbConnect.mm:291`, updates the friend's tag, volume and status | the status goes to every line, so all show that of the last friend in the answer |
| `finding_pitch` | patch, line 526, receives the quantity of pitches | a recording without a pitch is classified by the number and the mean of the pitches of an earlier one |

Some more things the code does follow from the models and contradict no comment:

* Offline but with `t.txt` closed is possible: a failed GET turns the user offline, and the file is
  opened by the next check.  Tags recorded in between go into a closed stream.
* With an uninitialised `b` below 0 the file is not overwritten after an upload, and its tags are
  uploaded again; this is why `pipeline_zeroed` starts from zeros, and what the hypothesis on `b` is for.
* After a name of 20 characters or more, or a truncated answer, user 0 gets a line.
* An answer to the certification that is parsed after the five seconds may sign the user in with an
  id that is not there yet: `check` is filled two buffers before `userID`.  `SignedInAsOwn` excepts
  it by `slow`.
* A certification whose message line is of 20 characters or more, or that ends before the id, signs
  an online user in with what `userID` held, or as user 0: `check` is '1' already, and nobody looks
  whether the later reads failed (`dbConnect.mm:363`).  `SignedInAsOwn` excepts it by `good`.
* `isMoving` is never initialised (`AppCore.h:48`).  With TRUE in the heap the first tag of a launch
  is that of a moving phone although it lay still.  `TagIsOwn` excepts that tag by `inherited`; with
  FALSE there `TagsMoveOnlyIfMoved` excepts none.
* With two fingers on it the list jumps: the one that came down last moves the start of both, each
  moves the list from its own height, and the first to be lifted moves the start again.
  `FollowsFinger` excepts such a touch by `crowded`, and says that the next one is right again.
* With the examples of one object missing, messages are completed by the zeros a reset sets free, so
  the app goes on sending classes nothing was heard for; `MessageAligned` then only promises four
  numbers, and the properties about own values except it by `Deaf`.
* The list can be dragged out of sight at the bottom: the lower limit (`dbConnect.mm:51`) is computed
  and not used.

### Bounds

* `NFields = 3` (5 in the code): the least value at which a tag has a beginning, a middle and an
  end, and at which "one field missing" (uploaded) differs from "several missing" (dropped).
* `MaxTags = 2`: enough for a tag torn apart, a tag written next to a torn one, and a tag sent
  twice.  `pipeline_heap` has one: its properties are about the file as a whole and about reports.
* `MaxForms`: no new handler of the main thread starts while so many forms wait.  Handlers in
  progress and the audio thread still queue theirs, so queues are longer than the bound;
  `pipeline_heap`, which asks about what waits in the queue, has 3.
* `MaxSessions = 2`: one relaunch, since only `t.txt` and the server survive it.
* `MaxAdds = 2` by each of two threads: a form is already there before, added during, and added
  after the POST of another.  The theorems have no bound.
* `Ids`, `MaxFriends = 2`: with the blank user 0 there are up to three lines, so a line is visited
  before, at and after the one that is looked for, and an answer has a first and a last friend.
  There is no bound on the number of answers: the lines are finitely many because the ids are.

`CHECK_DEADLOCK FALSE` (pipeline only): the app may have been quit and everything else may be done.

* `Window = 1` (10 in the code): three windows of speech make one of music, and a recording has
  three frames, each with a pitch or not.  The proofs cover every `Window`.
* `Examples = 2`, `Split = 1` (649/445 and 445/224): an example in each cluster, either may be the
  nearest or both; `Distances = {0, 8, 10}` gives the confidences 0, 0.2 and 1, on either side of and
  at each bound of the rules.
* `Pitches`: none, 30 and 80, on both sides of the 40 that separates music.  `Loudness = {20, 50}` is
  on both sides of the 30 that is silence, `Acceleration = {0, 1}` moves the phone or not.
* `Files`: any subset of the two files of examples.  `finding_pitch` needs both.
* `Fingers`: two, alike (`SYMMETRY`); a third would do nothing to the other two that the second does
  not do to the first.  The proofs have any set.
* `Ys = {0, 1, 3}`, `MaxScroll = 3`: drags up and down of different lengths, one after the other, over
  the top of the list and beyond the screen.

### Fairness

`FairSpec` is fair to the steps that finish a handler already begun, to `update()` while the app
is shown (the display link calls it 60 times a second), and to the HTTP thread, which polls its
queue every 10 ms and pops the front form however the POST ended.  Nothing is assumed of the user,
of iOS, of the patch or of the outcome of a POST or GET.  `UpdateTimer`, though periodic in the
code, needs no fairness: no property waits for it.  A POST that hangs forever (no timeout is set)
is excluded by the fairness of `Http`; `AddReturns`, in run `queue`, is about such a POST.

In `Recorder`, `FairSpec` is fair to `Clock`, all that Pd does without the user: its delays run on
the audio thread, which iOS calls for every block of samples, in the background too.  `Start`, the
message of the app at log-in, and `Timer` are left to chance: the property starts after the one and
does not wait for the other.

In `HttpQueue` the lock is strongly fair: whoever keeps asking gets it, since the worker releases it
in every round and then sleeps 10 ms, and the callers hold it for one `push()`.  Nothing is fair to
`Post` and `PostFails`: that POSTs end is the hypothesis of `PostsServeChannel`.

## 4. What is proved

### The pipeline

`TagPipelineProofs`, `RaceProofs` and `StoreProofs` hold, for every value of the constants (any number of tags, launches, forms
and fields per tag):

| Theorem | Statement |
|---|---|
| `TypeCorrect` | `Spec => []TypeOK` |
| `StableFile` | `Spec => []DumpSeesStableFile` |
| `ChecksReportOnlineOnce` | `Spec => ReportsOnlineOnce` |
| `StreamFollowsStatus` | `Spec => []FileFollowsB`, if `b` starts at 0 and opens succeed |
| `NoSecondUpload` | `Spec => UploadedOnce`, under the same hypotheses |
| `NoEarlyErase` | `Spec => OnlyUploadedFileErased`, under the same hypotheses |
| `BackgroundIsReported` | `Spec => []BackgroundReportedOffline`, if no POST fails |
| `TwiceByRaceAlone` | `Spec => []TwiceOnlyByRace`, from a heap of zeros, if opens succeed and a tag has three fields or more |
| `PipelineImplementsStore` | `Spec => ImplementsStore`, under the hypotheses of `TwiceByRaceAlone` |
| `TornByCutAlone` | `Spec => TornOnlyByCut`, under the same hypotheses |

They rest on `UserAssumption` and `PipelineAssumption`, which only give the constants their types.

The hypotheses are needed, and TLC finds the counterexamples when one is dropped: with an open that
fails, the next upload repeats the tags of the last one, for the file was not emptied; with two
fields in a tag, the rows of torn tags may coincide, and `TwiceOnlyByRace` fails; with a `b`
below 0, see section 3.

* `StableFile`.  The property says the copy is the end of the file; it is not inductive, because
  nothing in it keeps the audio thread from writing.  `StableInv` adds that `fileIsOnep = FALSE`
  implies a closed stream and that it stays `FALSE` during the upload: only the main thread opens
  the file, and it is busy.  `SliceOfSlice` carries the step that reads one tag.
* `ChecksReportOnlineOnce`.  A report of "offline" after one of "online" would need
  `getStatus = -1` on the branch of a successful GET, hence an app in the background.
  `ReportInv` says a check runs only while the app is shown, that an active app has its flag set,
  and that before the first focus event the flag is still the one `a` was computed from.
* `StreamFollowsStatus`, `NoSecondUpload` and `NoEarlyErase` share `FileInv`: `b` is 0 until the
  first check and a status afterwards; the stream is open iff `b = -1`; with `b = 1` the file has
  been uploaded or is due; once uploaded it is not asked for again before it is opened again.
* `BackgroundIsReported`.  `BackgroundInv` says that in the background the main thread is nowhere but
  in the rest of `lostFocus()`, and that after its report the last status form of the user in the
  queue, or else the server, says "offline".  The queue may hold anything before that form; what is
  added behind it (tags of the audio thread) is no report.
* `TwiceByRaceAlone`.  Rows may be torn, so they are not counted by recording but told from each other
  by their first two fields, one of which is never the user name (hence three fields: with two, a torn
  row may hold nothing but names).  `RaceInv` says of every row that waits or was uploaded that
  these fields are in no other row, not in the part of `t.txt` still to be uploaded (`Unread`), and
  not ahead of the audio thread, unless the tag is in `both`; and that the file holds no field of a
  tag twice and no two names in a row.  `Unread` is empty before the first check of a launch, because
  that check finds the flags at zero and truncates the file: this is where the heap of zeros comes
  in.  `RaceInv` was checked by TLC on the instance of `pipeline_zeroed` before it was proved.

* `PipelineImplementsStore` and `TornByCutAlone` share `StoreInv`, which speaks of `Unread`.  As long as
  the file is not `cut`, every line belongs to a tag that begins in the file (`WholeTags`), and the
  last line ends a tag, unless the audio thread is in the middle of one, which it continues
  (`EndsWhole`): so the first line is the beginning of a tag, five reads are that tag, and what is
  left begins with a tag again.  Whatever happened, lines are in the order of recording
  (`OldestFirst`), which makes the tag at the front the oldest that is kept.  `InHand` says that the
  audio thread has the tag recorded last.  The invariants of the earlier theorems do the rest: `FileInv`
  says when an open finds the file uploaded or due, `RaceInv` that no field is there twice, so that a
  tag uploaded is a tag no longer kept.  `MainFile` sums up what the main thread can do to the file:
  leave it alone, open it, which empties it, close it, or end an upload when less than a tag is left.

  In the refinement `AddTag` is `Record`, `IfOnline` is `SendNew` if the user is online, `IfOffline`
  is `File` if the user is offline and `Leave` if he is online, which loses a tag that was not sent;
  the last `WriteTag` is `Keep` if the stream is open and the file not cut, and only otherwise
  `Drop`; an opening or closing `CheckFile` or `FocusFile` is `Open` or `Close`, with damage exactly
  when the audio thread is in mid-tag; `DumpTag` is `Upload` or `UploadDamaged`; posts are `Arrive`,
  failed ones `Lose`, `Relaunch` is `Restart`; the rest are stutters or `SendOther`.  `HttpPost` and
  `HttpLoseAnswer` are the same step: whether the answer comes back is nothing a tag can tell.
  Three fields are needed as in `TwiceByRaceAlone`: with two, half a tag would pass for a row.
  `StoreInv` was checked by TLC on the instance of `pipeline_zeroed` before it was proved.

Every invariant and every action property the runs check is thus proved, as are the refinements; the
liveness properties are beyond the prover and checked by TLC alone.

### The queue

| Theorem | Statement |
|---|---|
| `QueueTypeCorrect` | `Spec => []TypeOK` |
| `QueueProtected` | `Spec => []Protected` |
| `QueueImplementsChannel` | `Spec => ImplementsChannel` |

For any set of callers and any number of calls, from `QueueAssumption` (the names of the threads
differ).  `Protected` is inductive together with the types and `InBounds` (a call in progress is
one of the counted ones).  Its last two parts are what the refinement needs: a write goes back to
the very queue that was read, and from the POST to the `pop()` the form posted is still in front,
because callers only append.  Then `AddWrite` is `Accept`, `Post` is `Deliver`, `PostFails` is
`Lose`, and every other step is a stutter.

### The friends' lines

| Theorem | Statement |
|---|---|
| `LinesStayApart` | `Spec => []LinesApart` |
| `ViewImplementsBook` | `Spec => ImplementsBook` |
| `AnswerIsShown` | `Spec => []AnswerShown` |

For any ids, answers, failing reads and garbage, from `FriendsAssumption`.  `ViewInv` adds what the
inner loop knows: `isPresent` iff one of the lines before `j` is the friend's.  With distinct ids it
follows that the visit which finds the line is the first and only one to enter the news, and that a
line is added only if no line is the friend's.  For `AnswerIsShown`, which looks back over a whole
answer, `ShownInv` says that the friends before the `i`-th have their lines and tags, and where the
two loops are with the `i`-th; the other friends of an answer are different ones, so a later one
takes nothing from an earlier.

### The classifier and the recorder

| Theorem | Statement |
|---|---|
| `NearestDecides` | the id `timbreID` sends is the cluster of the first of the nearest examples |
| `RecorderTypeCorrect` | `Spec => []TypeOK` |
| `MessageStaysAligned` | `Spec => []MessageAligned` |
| `TagsAreOwn` | `Spec => []TagIsOwn` |
| `TagsMoveOnlyIfMoved` | the movement part of `TagIsOwn` without its exception for the first tag, if the heap holds FALSE in `isMoving` |
| `RecorderImplementsListener` | `Spec => ImplementsListener` |

For any window, examples, split, pitches, distances, loudness and acceleration, from
`ClassifierAssumption` and `RecorderAssumption`.  `NearestDecides` is about the numbering of clusters:
a vote for cluster 2 falls outside the array of votes, the winner among the others has no vote, and
the rule for ties then returns the cluster of the nearest example after all.

The others rest on `IInv`, that is `TypeOK`, `PhaseInv` and, with the examples there, `MoveInv`.
`PhaseInv` ties the state of the collecting objects to the place of the audio thread: when `k`
windows of a recording are full exactly `k` have been asked about, their answers are in the repacks and in
`heard`, the message is empty until the third and has two numbers after it; when the patch is idle
everything is as after a reset, or holds a message already sent.  Without one file of examples the
message may keep two numbers until the next reset completes it.  `MoveInv` says when `isMoving` can
be set at all: by the attempt that runs, by the one a rejection has just started, or by the heap until
the first tag, which clears it.  The
mapping to `Listener` is `heard`, `decision` and `Deaf`; `Decide` and `Silence` are `Judge`, `AddTag`
is `Report`, the start of an attempt is `Listen`.

### Log-in and the list

| Theorem | Statement |
|---|---|
| `TestAppTypeCorrect` | `Spec => []TypeOK` |
| `SignsInAsOwn` | `Spec => []SignedInAsOwn` |
| `ListFollowsFinger` | `Spec => []FollowsFinger` |
| `ListRests` | `Spec => RestsWithoutFinger` |

For any initial buffers, fingers, positions and `MaxScroll`, from `TestAppAssumption`.  `userID` is
the server's once the answer was parsed to its end with '1' in `check` and all its reads `good`; so
online, and not `slow`, `LoginOnline` copies it.  The list is where `last_value + deltamove` puts it.
Whatever several fingers did, the last `touchUp` of a touch leaves `tA_last_value` at the offset
(`Rested`), which the next touch starts from unless the last one slipped; as long as that touch has one
finger (`Alone`), nobody else changes `touchdown_y` or `tA_last_value` (`Held`).

## 5. Plan

Done: `User` and `TagPipeline`, `HttpQueue` with `FormChannel`, `FriendsView` with `FriendsBook`,
`TimbreID`, `Classifier` and `Recorder` with `Listener`, `TestApp`, `TagStore` as what `TagPipeline`
implements, and their proofs.  What is left:

* One specification of the whole way, in which `Listener` hands its tags to `TagStore`.

## 6. Not modelled

* The signal processing of the patch and of the externals behind it (`sigmund~`, `tabletool`,
  `tabdump`, the spectral features, the meter): floating point without control state.  The model
  takes its results, a pitch per frame and distances per window, as arbitrary.
* The methods of `timbreID` the patch never sends: concatenative synthesis, automatic clustering,
  normalisation, weights, writing of files.  They do not run in this program.
* Vendored and third-party code: `Pd-extended.app` with its headers (`glew.h`, Gem) and Tcl/Tk,
  `ofxMySQL` with the MySQL headers, `ofxNetwork`, `ofxiPhone` apart from the handlers iOS calls,
  the sound engine.  It is the greater part of the files; the program's own code is some 5000 lines
  in `src/`, `ofxHttpUtils/` and the patch.
* Drawing (`t_lines`, `dots`, fonts, images), and what `newTagEvent()` copies into the user's own
  line for drawing.
* The memory a growing queue takes, GET forms, cookies and `stop()` of `ofxHttpUtils`, which the
  app does not use.
* `push_back` on `myLinesCollection_` while `draw()` iterates over it: the behaviour is undefined,
  and what it may do to the process cannot be enumerated.
* A heap value of a flag that is neither `true` nor `false`, and torn reads of an `int`.
* `User::exit()` is never called, and `testApp_manuallogin.mm` is not built.
* The date of a tag: the clock of the phone is outside the model.

## 7. Where the model takes a step for granted

* One step of the HTTP thread posts and pops a form.  `addForm` only appends, and nobody else
  reads the queue, so the moments in between are invisible to the other threads: this is
  `QueueImplementsChannel`.
* `status_changed()` is one step although the audio thread could write between truncation and the
  assignment of `fileIsOnep`: the audio thread looks at the stream only, and the stream changes
  once per call.
* `getStatus()` reads two flags in one step.  Both are written by the main thread alone, in
  different handlers, so any pair read is a pair that held at one moment of the call.
