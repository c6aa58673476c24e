------------------------------ MODULE Recorder ------------------------------
(***************************************************************************)
(* The main canvas of the Pd patch with the values AppCore and             *)
(* DatabaseManager receive from it.  Every three minutes, or at once after *)
(* a rejected recording, metro starts an attempt:                          *)
(*      0 s    the timer, a reset of the classifier, two delays            *)
(*      0-3 s  to_of_timer is 1 to 3: AppCore looks for movement           *)
(*      1.5 s  three seconds of sound are recorded and metered             *)
(*      4.5 s  the loudness: silence is a class, and closes the spigot     *)
(*      5 s    star_analysis: frame by frame into the classifier           *)
(* A class is sent as tag, date and "addTag"; AppCore adds 10 to the tag   *)
(* of a moving phone.  All of it runs on the audio thread, on Pd's clock;  *)
(* a step is one message with all it causes, cut where a class is passed.  *)
(***************************************************************************)
EXTENDS Classifier

CONSTANTS
    Loudness,       \* what the meter may say, in dB
    Acceleration,   \* of the x axis, in tenths of g
    BootMoving      \* values the never-initialised AppCore::isMoving may hold

ASSUME RecorderAssumption ==
    /\ Loudness \subseteq Nat /\ Acceleration \subseteq Int
    /\ BootMoving \subseteq BOOLEAN

VARIABLES
    due,        \* what Pd's clocks do next: "start" (nothing before start_tag), "record",
                \* "loudness", "analysis" or "metro"
    audio,      \* the message the audio thread is at; "idle" between two ticks
    left,       \* frames prep-analysis still has to send
    spigot,     \* audio_analysis lets star_analysis pass
    decision,   \* the class to be sent as a tag
    f2,         \* AppCore::f2, the acceleration seen last
    isMoving,   \* AppCore::isMoving
    loudness,   \* DatabaseManager::loudnessFromPd
    tag,        \* DatabaseManager::tagFromPd
    heard,      \* history: what this attempt has brought and no class was decided on
    moved,      \* history: movement was seen in this attempt
    inherited,  \* history: isMoving was TRUE at launch, and no tag has cleared it since
    judged      \* history: loudness and movement of the recording decision is about

appVars == <<f2, isMoving, loudness, tag>>
vars == <<classifierVars, due, audio, left, spigot, decision, appVars, heard, moved, inherited,
          judged>>

Undecided == -1
Nothing == [speech |-> <<>>, music |-> <<>>, n |-> 0, sum |-> 0, loud |-> {}]
NotJudged == [loud |-> {}, moved |-> FALSE]

Init ==
    /\ ClassifierInit
    /\ due = "start" /\ audio = "idle" /\ left = 0 /\ spigot = FALSE /\ decision = Undecided
    /\ f2 = 0 /\ isMoving \in BootMoving /\ loudness = 0 /\ tag = 0
    /\ heard = Nothing /\ moved = FALSE /\ inherited = isMoving /\ judged = NotJudged

-----------------------------------------------------------------------------
\* AppCore::receiveFloat("to_of_timer"), 1 to 3: the phone moves if the acceleration fell.
Sees(x) == f2 - x >= 1

\* metro, and the bangs of t b b b b b b: timer, reset, delays.  The first value of the timer
\* is sent at once.  A message the reset sets free is handled before all else.
Begin(after) ==
    /\ \E x \in Acceleration :
          /\ f2' = x
          /\ isMoving' = (isMoving \/ Sees(x))
          /\ moved' = Sees(x)
    /\ Reset
    /\ due' = "record"
    /\ audio' = IF box'.out # <<>> THEN "message" ELSE after
    /\ heard' = Nothing
    /\ UNCHANGED <<left, spigot, decision, loudness, tag, inherited, judged>>

\* The app sends start_tag once, at log-in.
Start == due = "start" /\ audio = "idle" /\ Begin("idle")

\* Three minutes without a rejection are over.
Metro == due = "metro" /\ audio = "idle" /\ Begin("idle")

\* The next values of the timer, in the first three seconds: before and while it is recorded.
Timer ==
    /\ due \in {"record", "loudness"} /\ audio = "idle"
    /\ \E x \in Acceleration :
          /\ f2' = x
          /\ isMoving' = (isMoving \/ Sees(x))
          /\ moved' = (moved \/ Sees(x))
    /\ UNCHANGED <<classifierVars, due, audio, left, spigot, decision, loudness, tag, heard,
                   inherited, judged>>

\* delay 1500: tabwrite~ and LAeq_meter start.
Record ==
    /\ due = "record" /\ audio = "idle" /\ due' = "loudness"
    /\ UNCHANGED <<classifierVars, audio, left, spigot, decision, appVars, heard, moved,
                   inherited, judged>>

\* Mutant of Metered: silence closes the spigot and that is all.
MeteredUnheard(l) ==
    /\ loudness' = l
    /\ spigot' = (l >= 30)
    /\ audio' = "idle"

\* to_of_loudness, then moses 30.
Metered(l) ==
    /\ loudness' = l
    /\ spigot' = (l >= 30)
    /\ audio' = IF l < 30 THEN "silence" ELSE "idle"

\* LAeq_meter is done, three seconds later.
Loud ==
    /\ due = "loudness" /\ audio = "idle" /\ due' = "analysis"
    /\ \E l \in Loudness : Metered(l) /\ heard' = [heard EXCEPT !.loud = {l}]
    /\ UNCHANGED <<classifierVars, left, decision, f2, isMoving, tag, moved, inherited, judged>>

\* r is_silence
Silence ==
    /\ audio = "silence" /\ audio' = "tag"
    /\ decision' = 4
    /\ heard' = Nothing /\ judged' = [loud |-> heard.loud, moved |-> moved]
    /\ UNCHANGED <<classifierVars, due, left, spigot, appVars, moved, inherited>>

\* delay 5000: star_analysis.
Analyse ==
    /\ due = "analysis" /\ audio = "idle" /\ due' = "metro"
    /\ left' = IF spigot THEN 3 * Window ELSE 0
    /\ audio' = IF spigot THEN "frame" ELSE "idle"
    /\ UNCHANGED <<classifierVars, spigot, decision, appVars, heard, moved, inherited, judged>>

-----------------------------------------------------------------------------
\* A frame, from right to left: its pitch, the features for speech, ...
Frame ==
    /\ audio = "frame" /\ left > 0 /\ left' = left - 1
    /\ \E p \in Pitches :
          /\ Pitch(p)
          /\ heard' = IF p = Unpitched THEN heard
                      ELSE [heard EXCEPT !.n = @ + 1, !.sum = @ + p]
    /\ speech' = Accumulated(speech, Window)
    /\ audio' = IF speech' = 0 THEN "speech" ELSE "music"
    /\ UNCHANGED <<files, music, confs, classes, box, due, spigot, decision, appVars, moved,
                   inherited, judged>>

\* ... a full window of which is asked about at once, ...
AskSpeech ==
    /\ audio = "speech" /\ audio' = "music"
    /\ \E answer \in AnswersOf("speech") :
          /\ PackSpeech(answer)
          /\ heard' = IF answer = NoAnswer THEN heard
                      ELSE [heard EXCEPT !.speech = Append(@, answer)]
    /\ UNCHANGED <<files, speech, music, mean, qt, avg, due, left, spigot, decision, appVars,
                   moved, inherited, judged>>

\* ... then the features for music.
FrameMusic ==
    /\ audio = "music"
    /\ music' = Accumulated(music, MusicWindow)
    /\ audio' = IF music' = 0 THEN "window" ELSE "frame"
    /\ UNCHANGED <<files, speech, mean, qt, avg, confs, classes, box, due, left, spigot,
                   decision, appVars, heard, moved, inherited, judged>>

AskMusic ==
    /\ audio = "window"
    /\ \E answer \in AnswersOf("music") :
          /\ FeedMusic(answer)
          /\ heard' = IF answer = NoAnswer THEN heard
                      ELSE [heard EXCEPT !.music = Append(@, answer)]
    /\ audio' = IF box'.out # <<>> THEN "message" ELSE "frame"
    /\ UNCHANGED <<files, speech, music, mean, qt, avg, confs, classes, due, left, spigot,
                   decision, appVars, moved, inherited, judged>>

\* until has counted to 30.
Analysed ==
    /\ audio = "frame" /\ left = 0 /\ audio' = "idle"
    /\ UNCHANGED <<classifierVars, due, left, spigot, decision, appVars, heard, moved, inherited,
                   judged>>

-----------------------------------------------------------------------------
\* The message is parsed, and a rejection restarts the recorder before it is sent as a tag.
Decide ==
    /\ audio = "message"
    /\ decision' = Parse(box.out)
    /\ box' = [box EXCEPT !.out = <<>>]
    /\ audio' = IF decision' = 0 THEN "rerecord" ELSE "tag"
    /\ heard' = Nothing /\ judged' = [loud |-> heard.loud, moved |-> moved]
    /\ UNCHANGED <<files, speech, music, mean, qt, avg, confs, classes, due, left, spigot,
                   appVars, moved, inherited>>

ReRecord == audio = "rerecord" /\ Begin("tag")

\* Mutant of ReceiveTag: the movement is kept.
ReceiveTagMoving(class) ==
    tag' = (IF isMoving THEN class + 10 ELSE class) /\ UNCHANGED isMoving

\* AppCore::receiveFloat("to_of_tag")
ReceiveTag(class) ==
    tag' = (IF isMoving THEN class + 10 ELSE class) /\ isMoving' = FALSE

\* to_of_tag, to_of_datetime and to_of_addTag, upon which newTagEvent() passes on the tag.
AddTag ==
    /\ audio = "tag" /\ audio' = IF decision = 4 THEN "idle" ELSE "reset"
    /\ ReceiveTag(decision)
    /\ decision' = Undecided
    /\ judged' = NotJudged /\ inherited' = FALSE
    /\ UNCHANGED <<classifierVars, due, left, spigot, f2, loudness, heard, moved>>

\* machine_learning resets itself after its message.
MessageSent ==
    /\ audio = "reset"
    /\ Reset
    /\ audio' = "frame"
    /\ UNCHANGED <<due, left, spigot, decision, appVars, heard, moved, inherited, judged>>

Clock ==
    \/ Metro \/ Record \/ Loud \/ Silence \/ Analyse \/ Frame \/ AskSpeech \/ FrameMusic \/ AskMusic
    \/ Analysed \/ Decide \/ ReRecord \/ AddTag \/ MessageSent

Next == Start \/ Timer \/ Clock

Spec == Init /\ [][Next]_vars
FairSpec == Spec /\ WF_vars(Clock)

-----------------------------------------------------------------------------
Deaf == files # {"speech", "music"}
Answered == [confidence : 0..10, id : {1, 2}]
Heard == [speech : Seq(Answered), music : Seq(Answered), n : Nat, sum : Nat, loud : SUBSET Loudness]

TypeOK ==
    /\ files \in Files
    /\ speech \in 0..(Window - 1) /\ music \in 0..(MusicWindow - 1)
    /\ {mean, confs, classes} \subseteq [n : Nat, sum : Nat] /\ qt \in Nat /\ avg \in Nat
    /\ box \in [list : Seq(Nat), count : -1..3, out : Seq(Nat)]
    /\ due \in {"start", "record", "loudness", "analysis", "metro"}
    /\ audio \in {"idle", "silence", "frame", "speech", "music", "window", "message", "rerecord",
                   "tag", "reset"}
    /\ left \in 0..MusicWindow /\ spigot \in BOOLEAN /\ decision \in -1..4
    /\ f2 \in Acceleration \cup {0} /\ isMoving \in BOOLEAN
    /\ loudness \in Nat /\ tag \in 0..14
    /\ heard \in Heard /\ moved \in BOOLEAN /\ inherited \in BOOLEAN
    /\ judged \in [loud : SUBSET Loudness, moved : BOOLEAN]

Listens == INSTANCE Listener WITH
    Sounds <- Answered, Tones <- Pitches \ {Unpitched}, Levels <- Loudness,
    deaf <- Deaf, verdict <- decision

\* A recording is judged once at most and by what was heard in it alone, whatever the windows,
\* repacks, counter and resets do.  (the patch, machine_learning and parsing_and_classification)
ImplementsListener == Listens!Spec

\* The message to be parsed holds four numbers, also if examples are missing; if none is, they
\* are those of this recording, each in its place.  (the patch, machine_learning)
MessageAligned ==
    audio = "message" =>
        /\ Len(box.out) = 4
        /\ Deaf \/ box.out = <<Moses(heard.speech[1].confidence) + Moses(heard.speech[2].confidence)
                                  + Moses(heard.speech[3].confidence),
                                SpeechClass(heard.speech[1].id + heard.speech[2].id + heard.speech[3].id),
                                Moses(heard.music[1].confidence), heard.music[1].id>>

\* The tag that is passed on carries the loudness of the recording it was made of, and is that
\* of a moving phone only if the phone moved then; a rejected one (0) may carry the movement
\* of the attempt it started.  Up to the first tag of a launch isMoving may also be TRUE because
\* nothing initialised it, and the tag be that of a moving phone that lay still: from then on
\* nothing of it is left.  (AppCore::receiveFloat, AppCore::isMoving)
TagIsOwn ==
    audio = "tag" /\ ~Deaf =>
        /\ judged.loud = {loudness}
        /\ isMoving /\ decision # 0 => judged.moved \/ inherited

\* Every attempt ends in a tag.  (the patch)
EveryAttemptTagged == due = "record" /\ ~Deaf ~> audio = "tag"

\* "receives the quantity of sigmund pitches" (combined_patch_16_april_2013.pd:526): the
\* classification uses the number of pitches of the recording it is about.
PitchIsOwn == audio = "message" /\ ~Deaf => qt = heard.n
=============================================================================
