--------------------------- MODULE RecorderProofs ---------------------------
(***************************************************************************)
(* Proofs about Recorder: its types, that the message to be parsed is made *)
(* of the present recording, whose the loudness and the movement of a tag  *)
(* are, and that it implements Listener.                                   *)
(***************************************************************************)
EXTENDS Recorder, ClassifierProofs, SequenceTheorems, TLAPS

OnlyLoud == [Nothing EXCEPT !.loud = {loudness}]

S == "speech" \in files
M == "music" \in files

\* What three windows of speech, or the first k of them, add up to.
ConfSum(h, k) ==
    IF k = 0 THEN 0 ELSE IF k = 1 THEN Moses(h[1].confidence)
    ELSE IF k = 2 THEN Moses(h[1].confidence) + Moses(h[2].confidence)
    ELSE Moses(h[1].confidence) + Moses(h[2].confidence) + Moses(h[3].confidence)
ClassSum(h, k) ==
    IF k = 0 THEN 0 ELSE IF k = 1 THEN h[1].id
    ELSE IF k = 2 THEN h[1].id + h[2].id ELSE h[1].id + h[2].id + h[3].id

\* The two numbers the speech of a recording puts into the message.
SpeechPart(h) == <<ConfSum(h, 3), SpeechClass(ClassSum(h, 3))>>

\* The message of a recording.
Numbers(h) == <<ConfSum(h.speech, 3), SpeechClass(ClassSum(h.speech, 3)),
                Moses(h.music[1].confidence), h.music[1].id>>

\* Frames in k windows of speech, and frames of this recording that were begun.
Frames(k) == IF k = 0 THEN 0 ELSE IF k = 1 THEN Window ELSE IF k = 2 THEN 2 * Window ELSE 3 * Window
Begun == MusicWindow - left

\* Where the analysis is when k windows of speech have been asked about.
At(k) ==
    \/ audio = "frame" /\ left > 0 /\ k < 3 /\ Begun = Frames(k) + speech /\ music = Begun
    \/ audio = "speech" /\ k < 3 /\ speech = 0 /\ Begun = Frames(k + 1) /\ music = Begun - 1
    \/ audio = "music" /\ Begun = Frames(k) + speech /\ music = Begun - 1
    \/ audio = "window" /\ k = 3 /\ left = 0 /\ speech = 0 /\ music = 0

\* What k windows of speech have left in the repacks and the message.
Collected(k) ==
    /\ heard.music = <<>> /\ box.out = <<>> /\ box.count = Len(box.list) - 1
    /\ IF S THEN /\ Len(heard.speech) = k
                 /\ k < 3 => /\ confs = [n |-> k, sum |-> ConfSum(heard.speech, k)]
                             /\ classes = [n |-> k, sum |-> ClassSum(heard.speech, k)]
                             /\ box.list = <<>>
                 /\ k = 3 => /\ confs = None /\ classes = None
                             /\ box.list = SpeechPart(heard.speech)
       ELSE confs = None /\ classes = None /\ box.list = <<>>

\* The pitches stored are those of this recording, if it had any.
Pitched ==
    /\ mean = [n |-> heard.n, sum |-> heard.sum]
    /\ heard.n > 0 => qt = heard.n /\ avg = heard.sum \div heard.n

\* After a reset; after a message, or after a recording without one because examples are missing.
Idle == speech = 0 /\ music = 0 /\ confs = None /\ classes = None
Empty == box = [list |-> <<>>, count |-> -1, out |-> <<>>]
Fresh == Idle /\ mean = None /\ Empty
Delivered == Len(box.list) = 4 /\ box.count = 3 /\ box.out = <<>>
Missing == Deaf /\ Len(box.list) = 2 /\ box.count = 1 /\ box.out = <<>>

Again == due = "record" /\ Fresh /\ heard = Nothing

Analysis == \E k \in 0..3 : At(k) /\ Collected(k)

PhaseInv ==
    /\ audio \notin {"tag", "rerecord"} => decision = Undecided
    /\ audio \notin {"frame", "speech", "music"} => left = 0
    /\ due = "start" => /\ audio = "idle" /\ Idle /\ heard = Nothing
                        /\ box = [list |-> <<>>, count |-> 0, out |-> <<>>]
    /\ audio = "idle" /\ due \in {"record", "loudness"} => Fresh /\ heard = Nothing
    /\ audio = "idle" /\ due = "analysis" =>
           Fresh /\ (spigot => loudness >= 30 /\ heard = OnlyLoud)
    /\ audio = "idle" /\ due = "metro" => Idle /\ (Empty \/ Missing)
    /\ audio = "silence" =>
           due = "analysis" /\ ~spigot /\ Fresh /\ loudness < 30 /\ heard = OnlyLoud
    /\ audio = "frame" /\ left = 0 => Again \/ (due = "metro" /\ Idle /\ (Empty \/ Missing))
    /\ audio \in {"speech", "music", "window"} \/ (audio = "frame" /\ left > 0) =>
           /\ due = "metro" /\ loudness >= 30 /\ heard.loud = {loudness}
           /\ Pitched /\ Analysis
    /\ audio = "message" =>
           /\ Idle
           /\ IF Deaf THEN /\ due = "record" /\ heard = Nothing /\ mean = None
                           /\ box.list = <<>> /\ box.count = -1
                           /\ Len(box.out) = 4 /\ box.out[3] = 0
              ELSE /\ due = "metro" /\ loudness >= 30 /\ heard.loud = {loudness} /\ Pitched
                   /\ Len(heard.speech) = 3 /\ Len(heard.music) = 1
                   /\ box.list = box.out /\ box.count = 3
                   /\ box.out = Numbers(heard)
    /\ audio = "rerecord" => decision = 0 /\ Idle /\ (Again \/ (due = "metro" /\ Delivered))
    /\ audio = "reset" => Idle /\ (Again \/ (due = "metro" /\ Delivered))
    /\ audio = "tag" =>
           /\ decision # Undecided
           /\ decision = 4 => due = "analysis" /\ ~spigot /\ Fresh
           /\ decision = 0 => Again
           /\ decision \in 1..3 => Idle /\ (Again \/ (due = "metro" /\ Delivered))

\* A movement that was seen and not yet sent with a tag is one of this attempt, or what the
\* heap held before the first tag.
MoveInv ==
    /\ isMoving => moved \/ inherited \/ (audio = "tag" /\ decision = 0)
    /\ inherited => isMoving
    /\ due = "start" => ~moved
    /\ /\ audio \in {"idle", "reset"} \/ (audio = "frame" /\ left = 0)
       /\ due = "metro" \/ (due = "analysis" /\ ~spigot)
       => ~isMoving
    /\ audio = "tag" => judged.loud = {loudness} /\ (decision # 0 => judged.moved = moved)
    /\ audio = "rerecord" => judged.loud = {loudness}

IInv == TypeOK /\ PhaseInv /\ (Deaf \/ MoveInv)

-----------------------------------------------------------------------------
(* What a reset makes of the message under construction *)

LEMMA AppendLast ==
    ASSUME NEW T, NEW s \in Seq(T), NEW e \in T
    PROVE  Append(s, e)[Len(s) + 1] = e
  BY AppendProperties

LEMMA AppendOld ==
    ASSUME NEW T, NEW s \in Seq(T), NEW e \in T, NEW i \in 1..Len(s)
    PROVE  Append(s, e)[i] = s[i]
  BY AppendProperties

LEMMA FlushEmpty ==
    ASSUME classes = None, confs = None, box.list = <<>>, box.out = <<>>, box.count \in {-1, 0}
    PROVE  Flush(box) = [list |-> <<>>, count |-> -1, out |-> <<>>]
  BY DEF Flush, Clear, Feed, Counter

LEMMA FlushDelivered ==
    ASSUME classes = None, confs = None, box.list \in Seq(Nat), Delivered
    PROVE  Flush(box) = [list |-> <<>>, count |-> -1, out |-> <<>>]
  BY DEF Flush, Clear, Feed, Counter, Delivered

\* The two zeros of the empty repacks complete a message of two numbers.
LEMMA FlushMissing ==
    ASSUME classes = None, confs = None, box.list \in Seq(Nat), Missing
    PROVE  \E m \in Seq(Nat) :
              /\ Flush(box) = [list |-> <<>>, count |-> -1, out |-> m]
              /\ Len(m) = 4 /\ m[3] = 0
  <1> DEFINE m == Append(Append(box.list, 0), 0)
  <1>1. SpeechClass(classes.sum) = 0 /\ confs.sum = 0
    BY DEF None, SpeechClass
  <1>2. m \in Seq(Nat) /\ Len(m) = 4
    <2>1. /\ Append(box.list, 0) \in Seq(Nat)
          /\ Len(Append(box.list, 0)) = Len(box.list) + 1
      BY AppendProperties
    <2>2. m \in Seq(Nat) /\ Len(m) = Len(Append(box.list, 0)) + 1
      BY <2>1, AppendProperties
    <2> QED BY <2>1, <2>2 DEF Missing
  <1>3. m[3] = 0
    <2> DEFINE l == Append(box.list, 0)
    <2>1. l[Len(box.list) + 1] = 0
      BY AppendLast
    <2>2. l[3] = 0 /\ l \in Seq(Nat) /\ 3 \in 1..Len(l)
      <3>1. Len(box.list) + 1 = 3
        BY DEF Missing
      <3>2. Len(l) = Len(box.list) + 1 /\ l \in Seq(Nat)
        BY AppendProperties
      <3> QED BY <2>1, <3>1, <3>2
    <2> HIDE DEF l
    <2>3. Append(l, 0)[3] = l[3]
      BY <2>2, AppendOld
    <2> QED BY <2>2, <2>3 DEF l
  <1>4. Flush(box) = [list |-> <<>>, count |-> -1, out |-> m]
    BY <1>1 DEF Flush, Clear, Feed, Counter, Missing
  <1> QED BY <1>2, <1>3, <1>4

\* A reset between two recordings empties everything, and sets a message free only if examples
\* are missing.
LEMMA ResetDone ==
    ASSUME Reset, Idle, box.list \in Seq(Nat),
           \/ box.list = <<>> /\ box.out = <<>> /\ box.count \in {-1, 0}
           \/ Delivered
           \/ Missing
    PROVE  /\ speech' = 0 /\ music' = 0 /\ mean' = None /\ confs' = None /\ classes' = None
           /\ box'.list = <<>> /\ box'.count = -1
           /\ ~Missing => box' = [list |-> <<>>, count |-> -1, out |-> <<>>]
           /\ Missing => box'.out \in Seq(Nat) /\ Len(box'.out) = 4 /\ box'.out[3] = 0
           /\ box' \in [list : Seq(Nat), count : -1..3, out : Seq(Nat)]
           /\ UNCHANGED <<files, qt, avg>>
  <1>1. CASE Missing
    <2>1. PICK m \in Seq(Nat) : /\ Flush(box) = [list |-> <<>>, count |-> -1, out |-> m]
                                /\ Len(m) = 4 /\ m[3] = 0
      BY <1>1, FlushMissing DEF Idle
    <2>2. box' = [list |-> <<>>, count |-> -1, out |-> m]
      BY <2>1 DEF Reset
    <2>3. box'.list = <<>> /\ box'.count = -1 /\ box'.out = m
      BY <2>2
    <2> QED BY <1>1, <2>1, <2>2, <2>3 DEF Reset
  <1>2. CASE ~Missing
    <2>1. Flush(box) = [list |-> <<>>, count |-> -1, out |-> <<>>]
      BY <1>2, FlushEmpty, FlushDelivered DEF Idle
    <2>2. box' = [list |-> <<>>, count |-> -1, out |-> <<>>]
      BY <2>1 DEF Reset
    <2> QED BY <1>2, <2>2 DEF Reset
  <1> QED BY <1>1, <1>2
-----------------------------------------------------------------------------
(* Types *)

Box == [list : Seq(Nat), count : -1..3, out : Seq(Nat)]

ClassifierTypes ==
    /\ files \in Files
    /\ speech \in 0..(Window - 1) /\ music \in 0..(MusicWindow - 1)
    /\ {mean, confs, classes} \subseteq [n : Nat, sum : Nat] /\ qt \in Nat /\ avg \in Nat
    /\ box \in Box

RecorderTypes ==
    /\ due \in {"start", "record", "loudness", "analysis", "metro"}
    /\ audio \in {"idle", "silence", "frame", "speech", "music", "window", "message", "rerecord",
                   "tag", "reset"}
    /\ left \in 0..MusicWindow /\ spigot \in BOOLEAN /\ decision \in -1..4
    /\ f2 \in Acceleration \cup {0} /\ isMoving \in BOOLEAN
    /\ loudness \in Nat /\ tag \in 0..14
    /\ heard \in Heard /\ moved \in BOOLEAN /\ inherited \in BOOLEAN
    /\ judged \in [loud : SUBSET Loudness, moved : BOOLEAN]

LEMMA TwoTypes == TypeOK <=> ClassifierTypes /\ RecorderTypes
  BY DEF TypeOK, ClassifierTypes, RecorderTypes, Box

LEMMA NothingTyped == Nothing \in Heard /\ NotJudged \in [loud : SUBSET Loudness, moved : BOOLEAN]
  BY DEF Nothing, Heard, NotJudged

LEMMA MosesTyped == ASSUME NEW c \in 0..10 PROVE Moses(c) \in 0..9
  BY DEF Moses

LEMMA SpeechClassTyped == \A sum : SpeechClass(sum) \in 0..2
  BY DEF SpeechClass

\* An answer of an object that has its file, and no answer of one that has not.
LEMMA AnswerOf ==
    ASSUME NEW name, NEW answer \in AnswersOf(name)
    PROVE  IF name \in files
           THEN answer \in Answered /\ answer # NoAnswer
           ELSE answer = NoAnswer
  <1>1. NoAnswer \notin Answered
    BY DEF NoAnswer, Answered
  <1>2. CASE name \in files
    BY <1>1, <1>2, AnswersKnown DEF AnswersOf, Answered
  <1>3. CASE name \notin files
    BY <1>3, AnswersKnown DEF AnswersOf
  <1> QED BY <1>2, <1>3

LEMMA FeedTyped ==
    ASSUME NEW b \in Box, NEW v \in Nat
    PROVE  Feed(b, v) \in Box
  <1>1. Append(b.list, v) \in Seq(Nat)
    BY AppendProperties DEF Box
  <1>2. Counter(b.count) \in -1..3
    BY DEF Box, Counter
  <1> QED BY <1>1, <1>2 DEF Feed, Box

LEMMA ResetTypes ==
    ASSUME ClassifierTypes, Reset
    PROVE  ClassifierTypes'
  <1>1. SpeechClass(classes.sum) \in Nat /\ confs.sum \in Nat
    BY SpeechClassTyped DEF ClassifierTypes
  <1>2. Feed(Feed(box, SpeechClass(classes.sum)), confs.sum) \in Box
    BY <1>1, FeedTyped DEF ClassifierTypes
  <1>3. Flush(box) \in Box
    <2>1. <<>> \in Seq(Nat) /\ -1 \in -1..3
      OBVIOUS
    <2> QED BY <1>2, <2>1 DEF Flush, Clear, Box
  <1>4. None \in [n : Nat, sum : Nat]
    BY DEF None
  <1> QED BY <1>3, <1>4, ClassifierAssumption DEF ClassifierTypes, Reset, MusicWindow

LEMMA AccumulatedTyped ==
    ASSUME NEW size \in Nat \ {0}, NEW current \in 0..(size - 1)
    PROVE  Accumulated(current, size) \in 0..(size - 1)
  BY DEF Accumulated

LEMMA PackedTyped ==
    ASSUME NEW r \in [n : Nat, sum : Nat], NEW v \in Nat
    PROVE  Packed(r, v) \in [n : Nat, sum : Nat] /\ Packed(r, v).n > 0
  BY DEF Packed

LEMMA PitchTypes ==
    ASSUME ClassifierTypes, NEW p \in Pitches, Pitch(p)
    PROVE  {mean'} \subseteq [n : Nat, sum : Nat] /\ qt' \in Nat /\ avg' \in Nat
  <1>1. CASE p = Unpitched
    BY <1>1 DEF ClassifierTypes, Pitch
  <1>2. CASE p # Unpitched
    <2>1. p \in Nat
      BY <1>2, ClassifierAssumption
    <2>2. mean' \in [n : Nat, sum : Nat] /\ mean'.n > 0 /\ mean'.n \in Nat /\ mean'.sum \in Nat
      BY <1>2, <2>1, PackedTyped DEF ClassifierTypes, Pitch
    <2>3. \A a \in Nat, b \in Nat : b > 0 => a \div b \in Nat
      <3> TAKE a \in Nat, b \in Nat
      <3>1. HAVE b > 0
      <3>2. a \div b \in Int /\ a < b * (a \div b) + b
        BY <3>1
      <3>3. SUFFICES ASSUME a \div b <= -1 PROVE FALSE
        BY <3>2
      <3>4. b * (a \div b) <= -b
        BY <3>1, <3>2, <3>3
      <3> QED BY <3>2, <3>4
    <2> QED BY <1>2, <2>2, <2>3 DEF Pitch
  <1> QED BY <1>1, <1>2

LEMMA PackSpeechTypes ==
    ASSUME ClassifierTypes, NEW answer \in AnswersOf("speech"), PackSpeech(answer)
    PROVE  {confs', classes'} \subseteq [n : Nat, sum : Nat] /\ box' \in Box
  <1>1. CASE answer = NoAnswer
    BY <1>1 DEF ClassifierTypes, PackSpeech
  <1>2. CASE answer # NoAnswer
    <2> DEFINE c == Packed(confs, Moses(answer.confidence))
               k == Packed(classes, answer.id)
    <2>1. answer.confidence \in 0..10 /\ answer.id \in {1, 2}
      BY <1>2, AnswerOf DEF Answered
    <2>2. Moses(answer.confidence) \in Nat /\ answer.id \in Nat
      BY <2>1, MosesTyped
    <2>3. c \in [n : Nat, sum : Nat] /\ k \in [n : Nat, sum : Nat]
      BY <2>2, PackedTyped DEF ClassifierTypes
    <2> HIDE DEF c, k
    <2>4. c.sum \in Nat /\ SpeechClass(k.sum) \in Nat
      BY <2>3, SpeechClassTyped
    <2>5. Feed(Feed(box, c.sum), SpeechClass(k.sum)) \in Box
      BY <2>4, FeedTyped DEF ClassifierTypes
    <2>6. None \in [n : Nat, sum : Nat]
      BY DEF None
    <2> QED BY <1>2, <2>3, <2>5, <2>6 DEF ClassifierTypes, PackSpeech, c, k
  <1> QED BY <1>1, <1>2

LEMMA FeedMusicTypes ==
    ASSUME ClassifierTypes, NEW answer \in AnswersOf("music"), FeedMusic(answer)
    PROVE  box' \in Box
  <1>1. CASE answer = NoAnswer
    BY <1>1 DEF ClassifierTypes, FeedMusic
  <1>2. CASE answer # NoAnswer
    <2>1. answer.confidence \in 0..10 /\ answer.id \in {1, 2}
      BY <1>2, AnswerOf DEF Answered
    <2>2. Moses(answer.confidence) \in Nat /\ answer.id \in Nat
      BY <2>1, MosesTyped
    <2> QED BY <1>2, <2>2, FeedTyped DEF ClassifierTypes, FeedMusic
  <1> QED BY <1>1, <1>2

\* No confidence is 1 when the message is parsed: the class is never read off the answer.
LEMMA ParseTyped ==
    ASSUME TypeOK, PhaseInv, audio = "message"
    PROVE  /\ box.out[3] # 10 /\ Parse(box.out) \in 0..3
  <1>1. box.out[3] # 10
    <2>1. CASE Deaf
      BY <2>1 DEF PhaseInv
    <2>2. CASE ~Deaf
      <3>1. box.out = Numbers(heard) /\ Len(heard.music) = 1
        BY <2>2 DEF PhaseInv
      <3>2. heard.music[1].confidence \in 0..10
        <4>1. heard.music \in Seq(Answered) /\ 1 \in 1..Len(heard.music)
          BY <3>1 DEF TypeOK, Heard
        <4>2. heard.music[1] \in Answered
          BY <4>1, ElementOfSeq
        <4> QED BY <4>2 DEF Answered
      <3>3. box.out[3] = Moses(heard.music[1].confidence)
        BY <3>1 DEF Numbers
      <3> QED BY <3>2, <3>3, MosesTyped
    <2> QED BY <2>1, <2>2
  <1> QED BY <1>1 DEF Parse
\* Every step keeps the types.
LEMMA TypeStep ==
    ASSUME TypeOK, PhaseInv, [Next]_vars
    PROVE  TypeOK'
  <1> SUFFICES ClassifierTypes' /\ RecorderTypes'
    BY DEF TypeOK, ClassifierTypes, RecorderTypes, Box
  <1>0. ClassifierTypes /\ RecorderTypes
    BY TwoTypes
  <1> USE <1>0
  <1>1. ASSUME NEW after \in {"idle", "tag"}, Begin(after)
        PROVE  ClassifierTypes' /\ RecorderTypes'
    <2>1. ClassifierTypes'
      BY <1>1, ResetTypes DEF Begin
    <2>2. RecorderTypes'
      BY <1>1, NothingTyped DEF RecorderTypes, Begin, Sees
    <2> QED BY <2>1, <2>2
  <1>2. CASE Start \/ Metro \/ ReRecord
    BY <1>1, <1>2 DEF Start, Metro, ReRecord
  <1>3. CASE Timer \/ Record \/ Analyse \/ Analysed
    <2>1. UNCHANGED classifierVars
      BY <1>3 DEF Timer, Record, Analyse, Analysed
    <2>2. ClassifierTypes'
      BY <2>1 DEF ClassifierTypes, classifierVars
    <2>3. RecorderTypes'
      <3>1. CASE Timer
        BY <3>1 DEF RecorderTypes, Timer, Sees
      <3>2. CASE Record
        BY <3>2 DEF RecorderTypes, Record, appVars
      <3>3. CASE Analyse
        <4>1. left' \in 0..MusicWindow
          BY <3>3, ClassifierAssumption DEF Analyse, MusicWindow
        <4> QED BY <3>3, <4>1 DEF RecorderTypes, Analyse, appVars
      <3>4. CASE Analysed
        BY <3>4 DEF RecorderTypes, Analysed, appVars
      <3> QED BY <1>3, <3>1, <3>2, <3>3, <3>4
    <2> QED BY <2>2, <2>3
  <1>4. CASE Loud \/ Silence \/ AddTag
    <2>1. UNCHANGED classifierVars
      BY <1>4 DEF Loud, Silence, AddTag
    <2>2. ClassifierTypes'
      BY <2>1 DEF ClassifierTypes, classifierVars
    <2>3. CASE Loud
      <3>1. PICK l \in Loudness : Metered(l) /\ heard' = [heard EXCEPT !.loud = {l}]
        BY <2>3 DEF Loud
      <3>2. heard' \in Heard
        BY <3>1 DEF RecorderTypes, Heard
      <3>3. loudness' \in Nat /\ audio' \in {"silence", "idle"}
        BY <3>1, RecorderAssumption DEF Metered
      <3>4. spigot' \in BOOLEAN
        BY <3>1 DEF Metered
      <3>5. due' = "analysis" /\ UNCHANGED <<left, decision, f2, isMoving, tag, moved, inherited, judged>>
        BY <2>3 DEF Loud
      <3> QED BY <2>2, <3>2, <3>3, <3>4, <3>5 DEF RecorderTypes
    <2>4. CASE Silence
      <3>1. heard.loud \in SUBSET Loudness
        BY DEF RecorderTypes, Heard
      <3>2. judged' \in [loud : SUBSET Loudness, moved : BOOLEAN]
        <4>1. judged' = [loud |-> heard.loud, moved |-> moved]
          BY <2>4 DEF Silence
        <4> QED BY <3>1, <4>1 DEF RecorderTypes
      <3>3. /\ audio' = "tag" /\ decision' = 4 /\ heard' = Nothing
            /\ UNCHANGED <<due, left, spigot, f2, isMoving, loudness, tag, moved, inherited>>
        BY <2>4 DEF Silence, appVars
      <3> QED BY <2>2, <3>2, <3>3, NothingTyped DEF RecorderTypes
    <2>5. CASE AddTag
      <3>1. decision \in 0..4
        BY <2>5 DEF AddTag, PhaseInv, RecorderTypes, Undecided
      <3>2. tag' \in 0..14 /\ isMoving' \in BOOLEAN
        <4>1. decision \in 0..14 /\ decision + 10 \in 0..14
          BY <3>1
        <4>2. tag' = decision \/ tag' = decision + 10
          BY <2>5 DEF AddTag, ReceiveTag
        <4>3. isMoving' = FALSE
          BY <2>5 DEF AddTag, ReceiveTag
        <4> QED BY <4>1, <4>2, <4>3
      <3>3. judged' \in [loud : SUBSET Loudness, moved : BOOLEAN]
        BY <2>5, NothingTyped DEF AddTag
      <3>4. /\ audio' \in {"idle", "reset"} /\ decision' = -1
            /\ UNCHANGED <<due, left, spigot, f2, loudness, heard, moved>>
        BY <2>5 DEF AddTag, Undecided
      <3>5. inherited' \in BOOLEAN
        BY <2>5 DEF AddTag
      <3> QED BY <2>2, <3>2, <3>3, <3>4, <3>5 DEF RecorderTypes
    <2> QED BY <1>4, <2>2, <2>3, <2>4, <2>5
  <1>5. CASE Frame
    <2>1. PICK p \in Pitches :
             /\ Pitch(p)
             /\ heard' = IF p = Unpitched THEN heard
                         ELSE [heard EXCEPT !.n = @ + 1, !.sum = @ + p]
      BY <1>5 DEF Frame
    <2>2. {mean'} \subseteq [n : Nat, sum : Nat] /\ qt' \in Nat /\ avg' \in Nat
      BY <2>1, PitchTypes
    <2>3. speech' \in 0..(Window - 1)
      BY <1>5, AccumulatedTyped, ClassifierAssumption DEF Frame, ClassifierTypes
    <2>4. ClassifierTypes'
      BY <1>5, <2>2, <2>3 DEF Frame, ClassifierTypes, MusicWindow
    <2>5. heard' \in Heard
      <3>1. CASE p = Unpitched
        BY <2>1, <3>1 DEF RecorderTypes
      <3>2. CASE p # Unpitched
        <4>1. p \in Nat
          BY <3>2, ClassifierAssumption
        <4>2. heard.n + 1 \in Nat /\ heard.sum + p \in Nat
          BY <4>1 DEF RecorderTypes, Heard
        <4>3. heard' = [heard EXCEPT !.n = heard.n + 1, !.sum = heard.sum + p]
          BY <2>1, <3>2
        <4> QED BY <4>2, <4>3 DEF RecorderTypes, Heard
      <3> QED BY <3>1, <3>2
    <2>6. RecorderTypes'
      <3>1. left' \in 0..MusicWindow
        BY <1>5, ClassifierAssumption DEF Frame, RecorderTypes, MusicWindow
      <3> QED BY <1>5, <2>5, <3>1 DEF Frame, RecorderTypes, appVars
    <2> QED BY <2>4, <2>6
  <1>6. CASE AskSpeech
    <2>1. PICK answer \in AnswersOf("speech") :
             /\ PackSpeech(answer)
             /\ heard' = IF answer = NoAnswer THEN heard
                         ELSE [heard EXCEPT !.speech = Append(@, answer)]
      BY <1>6 DEF AskSpeech
    <2>2. {confs', classes'} \subseteq [n : Nat, sum : Nat] /\ box' \in Box
      BY <2>1, PackSpeechTypes
    <2>3. ClassifierTypes'
      BY <1>6, <2>2 DEF AskSpeech, ClassifierTypes, MusicWindow
    <2>4. heard' \in Heard
      <3>1. CASE answer = NoAnswer
        BY <2>1, <3>1 DEF RecorderTypes
      <3>2. CASE answer # NoAnswer
        <4>1. Append(heard.speech, answer) \in Seq(Answered)
          BY <3>2, AnswerOf, AppendProperties DEF RecorderTypes, Heard
        <4> QED BY <2>1, <3>2, <4>1 DEF RecorderTypes, Heard
      <3> QED BY <3>1, <3>2
    <2>5. RecorderTypes'
      BY <1>6, <2>4 DEF AskSpeech, RecorderTypes, appVars
    <2> QED BY <2>3, <2>5
  <1>7. CASE FrameMusic
    <2>1. music' \in 0..(MusicWindow - 1)
      BY <1>7, AccumulatedTyped, ClassifierAssumption DEF FrameMusic, ClassifierTypes, MusicWindow
    <2>2. ClassifierTypes'
      BY <1>7, <2>1 DEF FrameMusic, ClassifierTypes, MusicWindow
    <2>3. RecorderTypes'
      BY <1>7 DEF FrameMusic, RecorderTypes, appVars, MusicWindow
    <2> QED BY <2>2, <2>3
  <1>8. CASE AskMusic
    <2>1. PICK answer \in AnswersOf("music") :
             /\ FeedMusic(answer)
             /\ heard' = IF answer = NoAnswer THEN heard
                         ELSE [heard EXCEPT !.music = Append(@, answer)]
      BY <1>8 DEF AskMusic
    <2>2. box' \in Box
      BY <2>1, FeedMusicTypes
    <2>3. ClassifierTypes'
      BY <1>8, <2>2 DEF AskMusic, ClassifierTypes, MusicWindow
    <2>4. heard' \in Heard
      <3>1. CASE answer = NoAnswer
        BY <2>1, <3>1 DEF RecorderTypes
      <3>2. CASE answer # NoAnswer
        <4>1. Append(heard.music, answer) \in Seq(Answered)
          BY <3>2, AnswerOf, AppendProperties DEF RecorderTypes, Heard
        <4> QED BY <2>1, <3>2, <4>1 DEF RecorderTypes, Heard
      <3> QED BY <3>1, <3>2
    <2>5. RecorderTypes'
      BY <1>8, <2>4 DEF AskMusic, RecorderTypes, appVars
    <2> QED BY <2>3, <2>5
  <1>9. CASE Decide
    <2>1. Parse(box.out) \in 0..3
      BY <1>9, ParseTyped DEF Decide
    <2>2. box' \in Box
      <3>1. <<>> \in Seq(Nat)
        OBVIOUS
      <3> QED BY <1>9, <3>1 DEF Decide, ClassifierTypes, Box
    <2>3. ClassifierTypes'
      BY <1>9, <2>2 DEF Decide, ClassifierTypes, MusicWindow
    <2>4. heard.loud \in SUBSET Loudness
      BY DEF RecorderTypes, Heard
    <2>5. RecorderTypes'
      BY <1>9, <2>1, <2>4, NothingTyped DEF Decide, RecorderTypes, appVars
    <2> QED BY <2>3, <2>5
  <1>10. CASE MessageSent
    <2>1. ClassifierTypes'
      BY <1>10, ResetTypes DEF MessageSent
    <2>2. RecorderTypes'
      BY <1>10 DEF MessageSent, RecorderTypes, appVars
    <2> QED BY <2>1, <2>2
  <1>11. CASE UNCHANGED vars
    BY <1>11 DEF vars, classifierVars, appVars, ClassifierTypes, RecorderTypes, MusicWindow
  <1> QED BY <1>2, <1>3, <1>4, <1>5, <1>6, <1>7, <1>8, <1>9, <1>10, <1>11 DEF Next, Clock
-----------------------------------------------------------------------------
(* The phases of an attempt *)

\* An attempt begins with everything empty, unless examples are missing.
LEMMA BeginDone ==
    ASSUME TypeOK, NEW after, Begin(after), Idle,
           \/ box.list = <<>> /\ box.out = <<>> /\ box.count \in {-1, 0}
           \/ Delivered
           \/ Missing
    PROVE  /\ due' = "record" /\ heard' = Nothing /\ UNCHANGED <<files, left, spigot, decision, loudness>>
           /\ ~Missing => audio' = after /\ Fresh'
           /\ Missing => /\ audio' = "message" /\ Deaf' /\ Idle' /\ mean' = None
                         /\ box'.list = <<>> /\ box'.count = -1
                         /\ Len(box'.out) = 4 /\ box'.out[3] = 0
  <1>1. Reset /\ box.list \in Seq(Nat)
    BY DEF Begin, TypeOK
  <1>2. /\ speech' = 0 /\ music' = 0 /\ mean' = None /\ confs' = None /\ classes' = None
        /\ box'.list = <<>> /\ box'.count = -1
        /\ ~Missing => box' = [list |-> <<>>, count |-> -1, out |-> <<>>]
        /\ Missing => Len(box'.out) = 4 /\ box'.out[3] = 0
        /\ UNCHANGED files
    BY <1>1, ResetDone
  <1>3. CASE Missing
    <2>1. Len(box'.out) = 4 /\ box'.out # <<>>
      BY <1>2, <1>3
    <2>2. audio' = "message"
      BY <2>1 DEF Begin
    <2>3. Deaf' /\ Idle'
      BY <1>2, <1>3 DEF Missing, Deaf, Idle
    <2> QED BY <1>2, <1>3, <2>2, <2>3 DEF Begin
  <1>4. CASE ~Missing
    <2>1. box'.out = <<>>
      BY <1>2, <1>4
    <2>2. audio' = after
      BY <2>1 DEF Begin
    <2> QED BY <1>2, <1>4, <2>2 DEF Begin, Fresh, Idle, Empty
  <1> QED BY <1>3, <1>4

LEMMA NotMissing ==
    ASSUME Empty \/ Delivered \/ box = [list |-> <<>>, count |-> 0, out |-> <<>>]
    PROVE  ~Missing
  BY DEF Empty, Delivered, Missing

LEMMA StartPhase == ASSUME TypeOK, PhaseInv, Start PROVE PhaseInv'
  <1>1. /\ audio = "idle" /\ decision = Undecided /\ left = 0 /\ Idle
        /\ box = [list |-> <<>>, count |-> 0, out |-> <<>>]
    BY DEF Start, PhaseInv
  <1>2. due' = "record" /\ heard' = Nothing /\ left' = 0 /\ decision' = Undecided
        /\ audio' = "idle" /\ Fresh'
    BY <1>1, BeginDone, NotMissing DEF Start
  <1> QED BY <1>2 DEF PhaseInv

LEMMA MetroPhase == ASSUME TypeOK, PhaseInv, Metro PROVE PhaseInv'
  <1>1. audio = "idle" /\ decision = Undecided /\ left = 0 /\ Idle /\ (Empty \/ Missing)
    BY DEF Metro, PhaseInv
  <1>2. CASE Missing
    <2>1. /\ due' = "record" /\ heard' = Nothing /\ left' = 0 /\ decision' = Undecided
          /\ audio' = "message" /\ Deaf' /\ Idle' /\ mean' = None
          /\ box'.list = <<>> /\ box'.count = -1 /\ Len(box'.out) = 4 /\ box'.out[3] = 0
      BY <1>1, <1>2, BeginDone DEF Metro
    <2> QED BY <2>1 DEF PhaseInv
  <1>3. CASE ~Missing
    <2>1. box.list = <<>> /\ box.out = <<>> /\ box.count \in {-1, 0}
      BY <1>1, <1>3 DEF Empty
    <2>2. /\ due' = "record" /\ heard' = Nothing /\ left' = 0 /\ decision' = Undecided
          /\ audio' = "idle" /\ Fresh'
      BY <1>1, <1>3, <2>1, BeginDone DEF Metro
    <2> QED BY <2>2 DEF PhaseInv
  <1> QED BY <1>2, <1>3

LEMMA ReRecordPhase == ASSUME TypeOK, PhaseInv, ReRecord PROVE PhaseInv'
  <1>1. /\ audio = "rerecord" /\ decision = 0 /\ left = 0 /\ Idle
        /\ Empty \/ Delivered
    BY DEF ReRecord, PhaseInv, Again, Fresh
  <1>2. \/ box.list = <<>> /\ box.out = <<>> /\ box.count \in {-1, 0}
        \/ Delivered
    BY <1>1 DEF Empty
  <1>3. /\ due' = "record" /\ heard' = Nothing /\ left' = 0 /\ decision' = 0
        /\ audio' = "tag" /\ Fresh'
    BY <1>1, <1>2, BeginDone, NotMissing DEF ReRecord
  <1>4. Again'
    BY <1>3 DEF Again
  <1> QED BY <1>3, <1>4 DEF PhaseInv, Undecided

\* Steps that change nothing the phases are about.
LEMMA SamePhase ==
    ASSUME PhaseInv, UNCHANGED <<classifierVars, due, audio, left, spigot, decision, loudness, heard>>
    PROVE  PhaseInv'
  <1>1. /\ UNCHANGED <<files, speech, music, mean, qt, avg, confs, classes, box>>
        /\ UNCHANGED <<due, audio, left, spigot, decision, loudness, heard>>
    BY DEF classifierVars
  <1>2. /\ Idle' <=> Idle
        /\ Empty' <=> Empty
        /\ Deaf' <=> Deaf
        /\ S' <=> S
        /\ Pitched' <=> Pitched
        /\ OnlyLoud' = OnlyLoud
        /\ Delivered' <=> Delivered
        /\ Begun' = Begun
    BY <1>1 DEF Idle, Empty, Deaf, S, Pitched, OnlyLoud, Delivered, Begun, MusicWindow
  <1>3. /\ Fresh' <=> Fresh
        /\ Missing' <=> Missing
        /\ Again' <=> Again
    BY <1>1, <1>2 DEF Fresh, Missing, Again
  <1>4. Analysis' <=> Analysis
    <2>1. ASSUME NEW k \in 0..3
          PROVE  (At(k)' <=> At(k)) /\ (Collected(k)' <=> Collected(k))
      BY <1>1, <1>2 DEF At, Collected
    <2> QED BY <2>1 DEF Analysis
  <1> QED BY <1>1, <1>2, <1>3, <1>4 DEF PhaseInv

LEMMA RecordPhase == ASSUME TypeOK, PhaseInv, Record PROVE PhaseInv'
  <1>1. /\ UNCHANGED <<speech, music, mean, confs, classes, box, heard, left, decision>>
        /\ audio = "idle" /\ audio' = "idle" /\ due = "record" /\ due' = "loudness"
    BY DEF Record, classifierVars
  <1>2. Fresh /\ heard = Nothing /\ left = 0 /\ decision = Undecided
    BY <1>1 DEF PhaseInv
  <1>3. Fresh'
    BY <1>1, <1>2 DEF Fresh, Idle, Empty
  <1> QED BY <1>1, <1>2, <1>3 DEF PhaseInv

LEMMA LoudPhase == ASSUME TypeOK, PhaseInv, Loud PROVE PhaseInv'
  <1>1. PICK l \in Loudness : Metered(l) /\ heard' = [heard EXCEPT !.loud = {l}]
    BY DEF Loud
  <1>2. /\ UNCHANGED <<speech, music, mean, confs, classes, box, left, decision>>
        /\ audio = "idle" /\ due = "loudness" /\ due' = "analysis"
    BY DEF Loud, classifierVars
  <1>3. Fresh /\ heard = Nothing /\ left = 0 /\ decision = Undecided
    BY <1>2 DEF PhaseInv
  <1>4. Fresh'
    BY <1>2, <1>3 DEF Fresh, Idle, Empty
  <1>5. heard' = OnlyLoud' /\ loudness' = l
    BY <1>1, <1>3 DEF OnlyLoud, Metered
  <1>6. CASE l < 30
    <2>1. audio' = "silence" /\ ~spigot'
      <3>1. ~(l >= 30)
        BY <1>6, RecorderAssumption
      <3>2. spigot' = (l >= 30)
        BY <1>1 DEF Metered
      <3>3. ~spigot'
        BY <3>1, <3>2, Zenon
      <3>4. audio' = "silence"
        BY <1>1, <1>6 DEF Metered
      <3> QED BY <3>3, <3>4
    <2> QED BY <1>2, <1>3, <1>4, <1>5, <1>6, <2>1 DEF PhaseInv
  <1>7. CASE ~(l < 30)
    <2>1. audio' = "idle" /\ loudness' >= 30
      BY <1>1, <1>5, <1>7, RecorderAssumption DEF Metered
    <2> QED BY <1>2, <1>3, <1>4, <1>5, <2>1 DEF PhaseInv
  <1> QED BY <1>6, <1>7

LEMMA SilencePhase == ASSUME TypeOK, PhaseInv, Silence PROVE PhaseInv'
  <1>1. /\ UNCHANGED <<speech, music, mean, confs, classes, box, left, spigot, due>>
        /\ audio = "silence" /\ audio' = "tag" /\ decision' = 4 /\ heard' = Nothing
    BY DEF Silence, classifierVars
  <1>2. due = "analysis" /\ ~spigot /\ Fresh /\ left = 0
    BY <1>1 DEF PhaseInv
  <1>3. Fresh' /\ ~spigot'
    BY <1>1, <1>2 DEF Fresh, Idle, Empty
  <1> QED BY <1>1, <1>2, <1>3 DEF PhaseInv, Undecided
LEMMA AnalysePhase == ASSUME TypeOK, PhaseInv, Analyse PROVE PhaseInv'
  <1>1. /\ UNCHANGED <<files, speech, music, mean, qt, avg, confs, classes, box>>
        /\ UNCHANGED <<spigot, decision, loudness, heard>>
        /\ audio = "idle" /\ due = "analysis" /\ due' = "metro"
    BY DEF Analyse, classifierVars, appVars
  <1>2. Fresh /\ decision = Undecided
    BY <1>1 DEF PhaseInv
  <1>3. CASE spigot
    <2>1. loudness >= 30 /\ heard = OnlyLoud
      BY <1>1, <1>3 DEF PhaseInv
    <2>2. audio' = "frame" /\ left' = 3 * Window /\ left' > 0
      BY <1>3, ClassifierAssumption DEF Analyse
    <2>3. /\ heard'.speech = <<>> /\ heard'.music = <<>> /\ heard'.n = 0 /\ heard'.sum = 0
          /\ heard'.loud = {loudness'}
      BY <1>1, <2>1 DEF OnlyLoud, Nothing
    <2>4. At(0)'
      <3>1. Begun' = 0
        BY <2>2, ClassifierAssumption DEF Begun, MusicWindow
      <3> QED BY <1>1, <1>2, <2>2, <3>1 DEF At, Fresh, Idle, Frames
    <2>5. Collected(0)'
      BY <1>1, <1>2, <2>3 DEF Collected, Fresh, Idle, Empty, None, ConfSum, ClassSum
    <2>6. Pitched'
      BY <1>1, <1>2, <2>3 DEF Pitched, Fresh, None
    <2>7. Analysis'
      <3>1. 0 \in 0..3
        OBVIOUS
      <3> QED BY <2>4, <2>5, <3>1 DEF Analysis
    <2> QED BY <1>1, <1>2, <2>1, <2>2, <2>3, <2>6, <2>7 DEF PhaseInv
  <1>4. CASE ~spigot
    <2>1. audio' = "idle" /\ left' = 0
      BY <1>4 DEF Analyse
    <2>2. Idle' /\ Empty'
      BY <1>1, <1>2 DEF Fresh, Idle, Empty
    <2> QED BY <1>1, <1>2, <2>1, <2>2 DEF PhaseInv
  <1> QED BY <1>3, <1>4

\* Within the analysis.
LEMMA InAnalysis ==
    ASSUME PhaseInv, audio \in {"speech", "music", "window"} \/ (audio = "frame" /\ left > 0)
    PROVE  /\ due = "metro" /\ loudness >= 30 /\ heard.loud = {loudness} /\ decision = Undecided
           /\ Pitched /\ Analysis
  BY DEF PhaseInv

LEMMA FramePhase == ASSUME TypeOK, PhaseInv, Frame PROVE PhaseInv'
  <1>1. /\ UNCHANGED <<files, music, confs, classes, box, due, decision, loudness>>
        /\ audio = "frame" /\ left > 0 /\ left' = left - 1
        /\ speech' = Accumulated(speech, Window)
        /\ audio' = IF speech' = 0 THEN "speech" ELSE "music"
    BY DEF Frame, appVars
  <1>2. PICK p \in Pitches : /\ Pitch(p)
                             /\ heard' = IF p = Unpitched THEN heard
                                         ELSE [heard EXCEPT !.n = @ + 1, !.sum = @ + p]
    BY DEF Frame
  <1>3. /\ due = "metro" /\ loudness >= 30 /\ heard.loud = {loudness} /\ decision = Undecided
        /\ Pitched /\ Analysis
    BY <1>1, InAnalysis
  <1>4. heard \in Heard /\ heard.n \in Nat /\ heard.sum \in Nat
    BY DEF TypeOK, Heard
  <1>5. heard'.speech = heard.speech /\ heard'.music = heard.music /\ heard'.loud = heard.loud
    BY <1>2, <1>4 DEF Heard
  <1>6. Pitched'
    <2>1. CASE p = Unpitched
      BY <1>2, <1>3, <2>1 DEF Pitched, Pitch
    <2>2. CASE p # Unpitched
      <3>1. heard'.n = heard.n + 1 /\ heard'.sum = heard.sum + p
        BY <1>2, <1>4, <2>2 DEF Heard
      <3>2. mean = [n |-> heard.n, sum |-> heard.sum]
        BY <1>3 DEF Pitched
      <3>3. mean' = [n |-> heard.n + 1, sum |-> heard.sum + p]
        BY <1>2, <2>2, <3>2 DEF Pitch, Packed
      <3>4. qt' = mean'.n /\ avg' = mean'.sum \div mean'.n
        BY <1>2, <2>2 DEF Pitch
      <3> QED BY <3>1, <3>3, <3>4 DEF Pitched
    <2> QED BY <2>1, <2>2
  <1>7. PICK k \in 0..3 : At(k) /\ Collected(k)
    BY <1>3 DEF Analysis
  <1>8. Collected(k)'
    BY <1>1, <1>5, <1>7 DEF Collected, S
  <1>9. At(k)'
    <2>1. /\ k \in 0..2 /\ Begun = Frames(k) + speech /\ music = Begun
      BY <1>1, <1>7 DEF At
    <2>2. /\ Begun \in Int /\ Begun' = Begun + 1
          /\ speech \in 0..(Window - 1) /\ Window \in Nat \ {0} /\ Frames(k) \in Nat
      BY <1>1, ClassifierAssumption DEF Begun, TypeOK, Frames, MusicWindow
    <2>3. CASE speech + 1 = Window
      <3>1. speech' = 0 /\ audio' = "speech"
        BY <1>1, <2>3 DEF Accumulated
      <3>2. Frames(k + 1) = Frames(k) + Window
        BY <2>1, <2>2 DEF Frames
      <3>3. Begun' = Frames(k + 1)
        BY <2>1, <2>2, <2>3, <3>2
      <3>4. music' = Begun' - 1
        BY <1>1, <2>1, <2>2
      <3> QED BY <2>1, <3>1, <3>3, <3>4 DEF At
    <2>4. CASE speech + 1 # Window
      <3>1. speech' = speech + 1 /\ audio' = "music"
        BY <1>1, <2>2, <2>4 DEF Accumulated
      <3>2. Begun' = Frames(k) + speech' /\ music' = Begun' - 1
        BY <1>1, <2>1, <2>2, <3>1
      <3> QED BY <3>1, <3>2 DEF At
    <2> QED BY <2>3, <2>4
  <1>10. Analysis'
    BY <1>8, <1>9 DEF Analysis
  <1>11. audio' \in {"speech", "music"} /\ due' = "metro" /\ decision' = Undecided
    BY <1>1, <1>3
  <1>12. loudness' >= 30 /\ heard'.loud = {loudness'}
    BY <1>1, <1>3, <1>5
  <1> QED BY <1>6, <1>10, <1>11, <1>12 DEF PhaseInv
\* What the answer to one more window adds.
LEMMA SumsNext ==
    ASSUME NEW h \in Seq(Answered), NEW a \in Answered, NEW k \in 0..2, Len(h) = k
    PROVE  /\ ConfSum(Append(h, a), k + 1) = ConfSum(h, k) + Moses(a.confidence)
           /\ ClassSum(Append(h, a), k + 1) = ClassSum(h, k) + a.id
           /\ ConfSum(h, k) \in Nat /\ ClassSum(h, k) \in Nat
  <1> DEFINE g == Append(h, a)
  <1>1. \A i \in 1..k : g[i] = h[i] /\ h[i] \in Answered
    <2> TAKE i \in 1..k
    <2>1. i \in 1..Len(h)
      OBVIOUS
    <2> QED BY <2>1, AppendOld, ElementOfSeq
  <1>2. g[k + 1] = a
    BY AppendLast
  <1>3. \A x \in Answered : Moses(x.confidence) \in Nat /\ x.id \in Nat
    BY MosesTyped DEF Answered
  <1> HIDE DEF g
  <1>4. CASE k = 0
    BY <1>2, <1>3, <1>4 DEF ConfSum, ClassSum, g
  <1>5. CASE k = 1
    <2>1. g[1] = h[1] /\ g[2] = a /\ h[1] \in Answered
      BY <1>1, <1>2, <1>5
    <2>2. Moses(h[1].confidence) \in Nat /\ h[1].id \in Nat
      BY <1>3, <2>1
    <2> QED BY <1>5, <2>1, <2>2 DEF ConfSum, ClassSum, g
  <1>6. CASE k = 2
    <2>1. /\ g[1] = h[1] /\ g[2] = h[2] /\ g[3] = a
          /\ h[1] \in Answered /\ h[2] \in Answered
      BY <1>1, <1>2, <1>6
    <2>2. /\ Moses(h[1].confidence) \in Nat /\ h[1].id \in Nat
          /\ Moses(h[2].confidence) \in Nat /\ h[2].id \in Nat
      BY <1>3, <2>1
    <2> QED BY <1>6, <2>1, <2>2 DEF ConfSum, ClassSum, g
  <1> QED BY <1>4, <1>5, <1>6

\* Two numbers make half a message.
LEMMA FeedTwice ==
    ASSUME box = [list |-> <<>>, count |-> -1, out |-> <<>>], NEW v \in Nat, NEW w \in Nat
    PROVE  Feed(Feed(box, v), w) = [list |-> <<v, w>>, count |-> 1, out |-> <<>>]
  BY DEF Feed, Counter

LEMMA AskSpeechPhase == ASSUME TypeOK, PhaseInv, AskSpeech PROVE PhaseInv'
  <1>1. /\ UNCHANGED <<files, speech, music, mean, qt, avg, due, left, decision, loudness>>
        /\ audio = "speech" /\ audio' = "music"
    BY DEF AskSpeech, appVars
  <1>2. PICK answer \in AnswersOf("speech") :
           /\ PackSpeech(answer)
           /\ heard' = IF answer = NoAnswer THEN heard
                       ELSE [heard EXCEPT !.speech = Append(@, answer)]
    BY DEF AskSpeech
  <1>3. /\ due = "metro" /\ loudness >= 30 /\ heard.loud = {loudness} /\ decision = Undecided
        /\ Pitched /\ Analysis
    BY <1>1, InAnalysis
  <1>4. heard \in Heard /\ heard.speech \in Seq(Answered)
    BY DEF TypeOK, Heard
  <1>5. /\ heard'.music = heard.music /\ heard'.loud = heard.loud
        /\ heard'.n = heard.n /\ heard'.sum = heard.sum
    BY <1>2, <1>4 DEF Heard
  <1>6. Pitched'
    BY <1>1, <1>3, <1>5 DEF Pitched
  <1>7. PICK k \in 0..3 : At(k) /\ Collected(k)
    BY <1>3 DEF Analysis
  <1>8. k \in 0..2 /\ k + 1 \in 0..3 /\ At(k + 1)'
    <2>1. k \in 0..2 /\ speech = 0 /\ Begun = Frames(k + 1) /\ music = Begun - 1
      BY <1>1, <1>7 DEF At
    <2>2. Begun' = Begun /\ Frames(k + 1) \in Nat
      BY <1>1, ClassifierAssumption DEF Begun, MusicWindow, Frames
    <2> QED BY <1>1, <2>1, <2>2 DEF At
  <1>9. Collected(k + 1)'
    <2>1. CASE S
      <3> DEFINE c == Packed(confs, Moses(answer.confidence))
                 d == Packed(classes, answer.id)
                 h == heard.speech
      <3>1. answer \in Answered /\ answer # NoAnswer
        BY <2>1, AnswerOf DEF S
      <3>2. heard'.speech = Append(h, answer)
        BY <1>2, <1>4, <3>1 DEF Heard
      <3>3. Len(h) = k /\ Len(heard'.speech) = k + 1
        <4>1. Len(h) = k
          BY <1>7, <2>1 DEF Collected
        <4> QED BY <1>4, <3>1, <3>2, <4>1, AppendProperties
      <3>4. /\ confs = [n |-> k, sum |-> ConfSum(h, k)]
            /\ classes = [n |-> k, sum |-> ClassSum(h, k)]
            /\ box.list = <<>> /\ box.out = <<>> /\ box.count = -1
        BY <1>7, <1>8, <2>1 DEF Collected
      <3>5. /\ c = [n |-> k + 1, sum |-> ConfSum(heard'.speech, k + 1)]
            /\ d = [n |-> k + 1, sum |-> ClassSum(heard'.speech, k + 1)]
            /\ c.sum \in Nat
        <4>1. /\ ConfSum(heard'.speech, k + 1) = ConfSum(h, k) + Moses(answer.confidence)
              /\ ClassSum(heard'.speech, k + 1) = ClassSum(h, k) + answer.id
              /\ ConfSum(h, k) \in Nat
          BY <1>4, <1>8, <3>1, <3>2, <3>3, SumsNext
        <4>2. Moses(answer.confidence) \in Nat
          BY <3>1, MosesTyped DEF Answered
        <4> QED BY <3>4, <4>1, <4>2 DEF Packed
      <3> HIDE DEF c, d, h
      <3>6. c.n = k + 1 /\ d.n = k + 1
        BY <3>5
      <3>7. CASE k + 1 = 3
        <4>1. /\ confs' = None /\ classes' = None
              /\ box' = Feed(Feed(box, c.sum), SpeechClass(d.sum))
          BY <1>2, <3>1, <3>6, <3>7 DEF PackSpeech, c, d
        <4>2. box = [list |-> <<>>, count |-> -1, out |-> <<>>]
          BY <3>4 DEF TypeOK
        <4>3. box' = [list |-> <<c.sum, SpeechClass(d.sum)>>, count |-> 1, out |-> <<>>]
          <5>1. SpeechClass(d.sum) \in Nat
            BY SpeechClassTyped
          <5> QED BY <3>5, <4>1, <4>2, <5>1, FeedTwice
        <4>4. box'.list = SpeechPart(heard'.speech)
          BY <3>5, <3>7, <4>3 DEF SpeechPart
        <4>5. box'.out = <<>> /\ box'.count = 1 /\ Len(box'.list) = 2
          BY <4>3
        <4>6. S' /\ heard'.music = <<>>
          BY <1>1, <1>5, <1>7, <2>1 DEF S, Collected
        <4> QED BY <3>3, <3>7, <4>1, <4>4, <4>5, <4>6 DEF Collected
      <3>8. CASE k + 1 # 3
        <4>1. confs' = c /\ classes' = d /\ UNCHANGED box
          BY <1>2, <3>1, <3>6, <3>8 DEF PackSpeech, c, d
        <4>2. S' /\ heard'.music = <<>>
          BY <1>1, <1>5, <1>7, <2>1 DEF S, Collected
        <4>3. box'.list = <<>> /\ box'.out = <<>> /\ box'.count = Len(box'.list) - 1
          BY <3>4, <4>1
        <4> QED BY <1>8, <3>3, <3>5, <3>8, <4>1, <4>2, <4>3 DEF Collected
      <3> QED BY <3>7, <3>8
    <2>2. CASE ~S
      <3>1. answer = NoAnswer
        BY <2>2, AnswerOf DEF S
      <3>2. UNCHANGED <<confs, classes, box, heard>>
        BY <1>2, <3>1 DEF PackSpeech
      <3> QED BY <1>1, <1>7, <2>2, <3>2 DEF Collected, S
    <2> QED BY <2>1, <2>2
  <1>10. Analysis'
    BY <1>8, <1>9 DEF Analysis
  <1>11. loudness' >= 30 /\ heard'.loud = {loudness'} /\ due' = "metro" /\ decision' = Undecided
    BY <1>1, <1>3, <1>5
  <1> QED BY <1>1, <1>6, <1>10, <1>11 DEF PhaseInv
LEMMA FrameMusicPhase == ASSUME TypeOK, PhaseInv, FrameMusic PROVE PhaseInv'
  <1>1. /\ UNCHANGED <<files, speech, mean, qt, avg, confs, classes, box>>
        /\ UNCHANGED <<due, left, decision, loudness, heard>>
        /\ audio = "music" /\ music' = Accumulated(music, MusicWindow)
        /\ audio' = IF music' = 0 THEN "window" ELSE "frame"
    BY DEF FrameMusic, appVars
  <1>2. /\ due = "metro" /\ loudness >= 30 /\ heard.loud = {loudness} /\ decision = Undecided
        /\ Pitched /\ Analysis
    BY <1>1, InAnalysis
  <1>3. Pitched'
    BY <1>1, <1>2 DEF Pitched
  <1>4. PICK k \in 0..3 : At(k) /\ Collected(k)
    BY <1>2 DEF Analysis
  <1>5. Collected(k)'
    BY <1>1, <1>4 DEF Collected, S
  <1>6. /\ Begun = Frames(k) + speech /\ music = Begun - 1 /\ Begun' = Begun
        /\ Begun = 3 * Window - left /\ left \in 0..(3 * Window)
        /\ speech \in 0..(Window - 1) /\ Window \in Nat \ {0}
        /\ MusicWindow = 3 * Window /\ music \in 0..(3 * Window - 1)
    BY <1>1, <1>4, ClassifierAssumption DEF At, Begun, MusicWindow, TypeOK
  <1>7. CASE left = 0
    <2>1. k = 3 /\ speech = 0
      BY <1>6, <1>7 DEF Frames
    <2>2. music' = 0 /\ audio' = "window"
      BY <1>1, <1>6, <1>7 DEF Accumulated
    <2>3. At(k)'
      BY <1>1, <1>7, <2>1, <2>2 DEF At
    <2>4. Analysis'
      BY <1>5, <2>3 DEF Analysis
    <2> QED BY <1>1, <1>2, <1>3, <1>7, <2>2, <2>4 DEF PhaseInv
  <1>8. CASE left # 0
    <2>1. k < 3
      BY <1>6, <1>8 DEF Frames
    <2>2. music' = Begun /\ music' # 0
      <3>1. music + 1 # MusicWindow
        BY <1>6, <1>8
      <3>2. music' = Begun /\ Begun >= 1
        <4>1. music' = music + 1
          BY <1>1, <3>1 DEF Accumulated
        <4> QED BY <1>6, <4>1
      <3> QED BY <1>6, <3>2
    <2>3. audio' = "frame" /\ left' > 0
      BY <1>1, <1>6, <1>8, <2>2
    <2>4. At(k)'
      BY <1>1, <1>6, <2>1, <2>2, <2>3 DEF At
    <2>5. Analysis'
      BY <1>5, <2>4 DEF Analysis
    <2> QED BY <1>1, <1>2, <1>3, <2>3, <2>5 DEF PhaseInv
  <1> QED BY <1>7, <1>8

\* Two more numbers complete it.
LEMMA FeedTwiceMore ==
    ASSUME NEW u \in Nat, NEW t \in Nat, NEW v \in Nat, NEW w \in Nat,
           box = [list |-> <<u, t>>, count |-> 1, out |-> <<>>]
    PROVE  Feed(Feed(box, v), w) =
               [list |-> <<u, t, v, w>>, count |-> 3, out |-> <<u, t, v, w>>]
  BY DEF Feed, Counter

LEMMA AskMusicPhase == ASSUME TypeOK, PhaseInv, AskMusic PROVE PhaseInv'
  <1>1. /\ UNCHANGED <<files, speech, music, mean, qt, avg, confs, classes>>
        /\ UNCHANGED <<due, left, decision, loudness>>
        /\ audio = "window" /\ audio' = IF box'.out # <<>> THEN "message" ELSE "frame"
    BY DEF AskMusic, appVars
  <1>2. PICK answer \in AnswersOf("music") :
           /\ FeedMusic(answer)
           /\ heard' = IF answer = NoAnswer THEN heard
                       ELSE [heard EXCEPT !.music = Append(@, answer)]
    BY DEF AskMusic
  <1>3. /\ due = "metro" /\ loudness >= 30 /\ heard.loud = {loudness} /\ decision = Undecided
        /\ Pitched /\ Analysis /\ left = 0
    BY <1>1, InAnalysis DEF PhaseInv
  <1>4. heard \in Heard /\ heard.speech \in Seq(Answered)
    BY DEF TypeOK, Heard
  <1>5. /\ heard'.speech = heard.speech /\ heard'.loud = heard.loud
        /\ heard'.n = heard.n /\ heard'.sum = heard.sum
    BY <1>2, <1>4 DEF Heard
  <1>6. Pitched'
    BY <1>1, <1>3, <1>5 DEF Pitched
  <1>7. speech = 0 /\ music = 0 /\ Collected(3)
    <2>1. PICK k \in 0..3 : At(k) /\ Collected(k)
      BY <1>3 DEF Analysis
    <2>2. k = 3 /\ speech = 0 /\ music = 0
      BY <1>1, <2>1 DEF At
    <2> QED BY <2>1, <2>2
  <1>8. Idle'
    BY <1>1, <1>7 DEF Idle, Collected
  <1>9. heard.music = <<>> /\ box.out = <<>> /\ box.count = Len(box.list) - 1
    BY <1>7 DEF Collected
  <1>10. ASSUME NEW m, box' = [list |-> m, count |-> 1, out |-> <<>>], Len(m) = 2, Deaf
         PROVE  PhaseInv'
    <2>1. audio' = "frame"
      BY <1>1, <1>10
    <2>2. Missing'
      BY <1>1, <1>10 DEF Missing, Deaf
    <2> QED BY <1>1, <1>3, <1>8, <2>1, <2>2 DEF PhaseInv
  <1>11. CASE M
    <2>1. answer \in Answered /\ answer # NoAnswer
      BY <1>11, AnswerOf DEF M
    <2>2. Moses(answer.confidence) \in Nat /\ answer.id \in Nat
      BY <2>1, MosesTyped DEF Answered
    <2>3. box' = Feed(Feed(box, Moses(answer.confidence)), answer.id)
      BY <1>2, <2>1 DEF FeedMusic
    <2>4. CASE S
      <3> DEFINE u == ConfSum(heard.speech, 3)
                 t == SpeechClass(ClassSum(heard.speech, 3))
      <3>1. Len(heard.speech) = 3 /\ box.list = <<u, t>>
        BY <1>7, <2>4 DEF Collected, SpeechPart
      <3>2. u \in Nat /\ t \in Nat
        <4>1. /\ heard.speech[1] \in Answered /\ heard.speech[2] \in Answered
              /\ heard.speech[3] \in Answered
          <5>1. \A i \in 1..Len(heard.speech) : heard.speech[i] \in Answered
            BY <1>4, ElementOfSeq
          <5> QED BY <3>1, <5>1
        <4>2. /\ Moses(heard.speech[1].confidence) \in Nat
              /\ Moses(heard.speech[2].confidence) \in Nat
              /\ Moses(heard.speech[3].confidence) \in Nat
          BY <4>1, MosesTyped DEF Answered
        <4> QED BY <4>2, SpeechClassTyped DEF ConfSum
      <3> HIDE DEF u, t
      <3>3. box = [list |-> <<u, t>>, count |-> 1, out |-> <<>>]
        <4>1. box.count = 1
          BY <1>9, <3>1
        <4> QED BY <1>9, <3>1, <4>1 DEF TypeOK
      <3> DEFINE m == <<u, t, Moses(answer.confidence), answer.id>>
      <3>4. box' = [list |-> m, count |-> 3, out |-> m]
        BY <2>2, <2>3, <3>2, <3>3, FeedTwiceMore
      <3>5. heard'.music = <<answer>>
        BY <1>2, <1>4, <1>9, <2>1 DEF Heard
      <3>6. m = Numbers(heard')
        BY <1>5, <3>5 DEF Numbers, u, t
      <3>7. m # <<>>
        OBVIOUS
      <3> HIDE DEF m
      <3>8. audio' = "message" /\ box'.list = box'.out /\ box'.count = 3 /\ box'.out = Numbers(heard)'
        BY <1>1, <3>4, <3>6, <3>7 DEF Numbers
      <3>9. ~Deaf'
        <4>1. files \subseteq {"speech", "music"}
          BY ClassifierAssumption DEF TypeOK
        <4> QED BY <1>1, <1>11, <2>4, <4>1 DEF S, M, Deaf
      <3>10. Len(heard'.speech) = 3 /\ Len(heard'.music) = 1
        BY <1>5, <3>1, <3>5
      <3> QED BY <1>1, <1>3, <1>5, <1>6, <1>8, <3>8, <3>9, <3>10 DEF PhaseInv
    <2>5. CASE ~S
      <3>1. box = [list |-> <<>>, count |-> -1, out |-> <<>>]
        BY <1>7, <1>9, <2>5 DEF Collected, TypeOK
      <3>2. box' = [list |-> <<Moses(answer.confidence), answer.id>>, count |-> 1, out |-> <<>>]
        BY <2>2, <2>3, <3>1, FeedTwice
      <3>3. Deaf
        BY <2>5 DEF S, Deaf
      <3> QED BY <1>10, <3>2, <3>3
    <2> QED BY <2>4, <2>5
  <1>12. CASE ~M
    <2>1. answer = NoAnswer
      BY <1>12, AnswerOf DEF M
    <2>2. box' = box /\ Deaf
      BY <1>2, <1>12, <2>1 DEF FeedMusic, M, Deaf
    <2>3. CASE S
      <3>1. Len(box.list) = 2 /\ box = [list |-> box.list, count |-> 1, out |-> <<>>]
        <4>1. Len(box.list) = 2
          <5>1. box.list = SpeechPart(heard.speech)
            BY <1>7, <2>3 DEF Collected
          <5> QED BY <5>1 DEF SpeechPart
        <4> QED BY <1>9, <4>1 DEF TypeOK
      <3> QED BY <1>10, <2>2, <3>1
    <2>4. CASE ~S
      <3>1. box' = [list |-> <<>>, count |-> -1, out |-> <<>>]
        BY <1>7, <1>9, <2>2, <2>4 DEF Collected, TypeOK
      <3>2. Empty' /\ audio' = "frame"
        BY <1>1, <3>1 DEF Empty
      <3> QED BY <1>1, <1>3, <1>8, <3>2 DEF PhaseInv
    <2> QED BY <2>3, <2>4
  <1> QED BY <1>11, <1>12
LEMMA AnalysedPhase == ASSUME TypeOK, PhaseInv, Analysed PROVE PhaseInv'
  <1>1. /\ UNCHANGED <<speech, music, mean, confs, classes, box, files>>
        /\ UNCHANGED <<due, left, decision, heard>>
        /\ audio = "frame" /\ left = 0 /\ audio' = "idle"
    BY DEF Analysed, classifierVars
  <1>2. decision = Undecided /\ (Again \/ (due = "metro" /\ Idle /\ (Empty \/ Missing)))
    BY <1>1 DEF PhaseInv
  <1>3. CASE Again
    <2>1. Fresh' /\ heard' = Nothing /\ due' = "record"
      BY <1>1, <1>3 DEF Again, Fresh, Idle, Empty
    <2> QED BY <1>1, <1>2, <2>1 DEF PhaseInv
  <1>4. CASE due = "metro" /\ Idle /\ (Empty \/ Missing)
    <2>1. due' = "metro" /\ Idle' /\ (Empty' \/ Missing')
      BY <1>1, <1>4 DEF Idle, Empty, Missing, Deaf
    <2> QED BY <1>1, <1>2, <2>1 DEF PhaseInv
  <1> QED BY <1>2, <1>3, <1>4

LEMMA DecidePhase == ASSUME TypeOK, PhaseInv, Decide PROVE PhaseInv'
  <1>1. /\ UNCHANGED <<files, speech, music, mean, confs, classes, due, left>>
        /\ audio = "message" /\ audio' = IF decision' = 0 THEN "rerecord" ELSE "tag"
        /\ decision' = Parse(box.out) /\ heard' = Nothing
        /\ box' = [box EXCEPT !.out = <<>>]
    BY DEF Decide
  <1>2. decision' \in 0..3 /\ left' = 0 /\ Idle
    <2>1. Parse(box.out) \in 0..3
      BY <1>1, ParseTyped
    <2> QED BY <1>1, <2>1 DEF PhaseInv
  <1>3. Idle'
    BY <1>1, <1>2 DEF Idle
  <1>4. Again' \/ (due' = "metro" /\ Delivered')
    <2>1. box'.out = <<>> /\ box'.list = box.list /\ box'.count = box.count
      BY <1>1 DEF TypeOK
    <2>2. CASE Deaf
      <3>1. due = "record" /\ mean = None /\ box.list = <<>> /\ box.count = -1
        BY <1>1, <2>2 DEF PhaseInv
      <3>2. Empty'
        BY <1>1, <3>1 DEF Empty, TypeOK
      <3> QED BY <1>1, <1>3, <3>1, <3>2 DEF Again, Fresh
    <2>3. CASE ~Deaf
      <3>1. due = "metro" /\ box.list = box.out /\ box.out = Numbers(heard) /\ box.count = 3
        BY <1>1, <2>3 DEF PhaseInv
      <3>2. Len(box.list) = 4
        BY <3>1 DEF Numbers
      <3> QED BY <1>1, <2>1, <3>1, <3>2 DEF Delivered
    <2> QED BY <2>2, <2>3
  <1>5. CASE decision' = 0
    BY <1>1, <1>2, <1>3, <1>4, <1>5 DEF PhaseInv
  <1>6. CASE decision' # 0
    BY <1>1, <1>2, <1>3, <1>4, <1>6 DEF PhaseInv, Undecided
  <1> QED BY <1>5, <1>6

LEMMA AddTagPhase == ASSUME TypeOK, PhaseInv, AddTag PROVE PhaseInv'
  <1>1. /\ UNCHANGED <<speech, music, mean, confs, classes, box>>
        /\ UNCHANGED <<due, left, spigot, heard>>
        /\ audio = "tag" /\ audio' = IF decision = 4 THEN "idle" ELSE "reset"
        /\ decision' = Undecided
    BY DEF AddTag, classifierVars
  <1>2. decision \in 0..4 /\ left = 0
    BY <1>1 DEF PhaseInv, TypeOK, Undecided
  <1>3. CASE decision = 4
    <2>1. due = "analysis" /\ ~spigot /\ Fresh
      BY <1>1, <1>3 DEF PhaseInv
    <2>2. Fresh' /\ ~spigot'
      BY <1>1, <2>1 DEF Fresh, Idle, Empty
    <2> QED BY <1>1, <1>2, <1>3, <2>1, <2>2 DEF PhaseInv
  <1>4. CASE decision # 4
    <2>1. Idle /\ (Again \/ (due = "metro" /\ Delivered))
      BY <1>1, <1>2, <1>4 DEF PhaseInv, Again, Fresh
    <2>2. Idle' /\ (Again' \/ (due' = "metro" /\ Delivered'))
      BY <1>1, <2>1 DEF Idle, Again, Fresh, Empty, Delivered
    <2> QED BY <1>1, <1>2, <1>4, <2>2 DEF PhaseInv
  <1> QED BY <1>3, <1>4

LEMMA MessageSentPhase == ASSUME TypeOK, PhaseInv, MessageSent PROVE PhaseInv'
  <1>1. /\ Reset /\ audio = "reset" /\ audio' = "frame"
        /\ UNCHANGED <<due, left, decision, heard>>
    BY DEF MessageSent
  <1>2. Idle /\ left = 0 /\ decision = Undecided /\ (Again \/ (due = "metro" /\ Delivered))
    BY <1>1 DEF PhaseInv
  <1>3. ~Missing
    BY <1>2, NotMissing DEF Again, Fresh
  <1>4. box.list \in Seq(Nat)
    BY DEF TypeOK
  <1>5. \/ box.list = <<>> /\ box.out = <<>> /\ box.count \in {-1, 0}
        \/ Delivered
    BY <1>2 DEF Again, Fresh, Empty
  <1>6. /\ speech' = 0 /\ music' = 0 /\ mean' = None /\ confs' = None /\ classes' = None
        /\ box' = [list |-> <<>>, count |-> -1, out |-> <<>>]
    BY <1>1, <1>2, <1>3, <1>4, <1>5, ResetDone
  <1>7. Fresh' /\ Idle' /\ Empty'
    BY <1>6 DEF Fresh, Idle, Empty
  <1>8. Again' \/ due' = "metro"
    BY <1>1, <1>2, <1>7 DEF Again
  <1> QED BY <1>1, <1>2, <1>7, <1>8 DEF PhaseInv

LEMMA PhaseStep ==
    ASSUME TypeOK, PhaseInv, [Next]_vars
    PROVE  PhaseInv'
  <1>1. CASE Timer \/ UNCHANGED vars
    <2>1. UNCHANGED <<classifierVars, due, audio, left, spigot, decision, loudness, heard>>
      BY <1>1 DEF Timer, vars, appVars
    <2> QED BY <2>1, SamePhase
  <1> QED
    BY <1>1, StartPhase, MetroPhase, ReRecordPhase, RecordPhase, LoudPhase, SilencePhase, AnalysePhase,
       FramePhase, AskSpeechPhase, FrameMusicPhase, AskMusicPhase, AnalysedPhase, DecidePhase,
       AddTagPhase, MessageSentPhase
    DEF Next, Clock
-----------------------------------------------------------------------------
(* Movement *)

\* With all examples the music window completes the message.
LEMMA AskMusicSends == ASSUME TypeOK, PhaseInv, ~Deaf, AskMusic PROVE audio' = "message"
  <1>1. S /\ M
    BY ClassifierAssumption DEF Deaf, S, M, TypeOK
  <1>2. PICK answer \in AnswersOf("music") : FeedMusic(answer)
    BY DEF AskMusic
  <1>3. answer \in Answered /\ answer # NoAnswer
    BY <1>1, AnswerOf DEF M
  <1>4. Len(box.list) = 2 /\ box.count = 1 /\ box.list \in Seq(Nat)
    <2>1. audio = "window" /\ Analysis
      BY InAnalysis DEF AskMusic
    <2>2. PICK k \in 0..3 : At(k) /\ Collected(k)
      BY <2>1 DEF Analysis
    <2>3. k = 3
      BY <2>1, <2>2 DEF At
    <2>4. box.list = SpeechPart(heard.speech) /\ box.count = Len(box.list) - 1
      BY <1>1, <2>2, <2>3 DEF Collected
    <2>5. Len(box.list) = 2
      BY <2>4 DEF SpeechPart
    <2> QED BY <2>4, <2>5 DEF TypeOK
  <1> DEFINE v == Moses(answer.confidence)
             l == Append(box.list, v)
             m == Append(l, answer.id)
  <1>5. v \in Nat /\ answer.id \in Nat
    BY <1>3, MosesTyped DEF Answered
  <1> HIDE DEF v
  <1>6. box'.out = m
    <2>1. box' = Feed(Feed(box, v), answer.id)
      BY <1>2, <1>3 DEF FeedMusic, v
    <2> QED BY <1>4, <2>1 DEF Feed, Counter
  <1>7. m # <<>>
    <2>1. l \in Seq(Nat) /\ Len(l) = Len(box.list) + 1
      <3>1. box.list \in Seq(Nat)
        BY <1>4
      <3> QED BY <1>5, <3>1, AppendProperties
    <2> HIDE DEF l
    <2>2. Len(m) = Len(l) + 1
      BY <1>5, <2>1, AppendProperties
    <2> QED BY <1>4, <2>1, <2>2
  <1> QED BY <1>6, <1>7 DEF AskMusic

\* Steps of the analysis itself, none of which touches the movement.
LEMMA AnalysisMove ==
    ASSUME TypeOK, PhaseInv, MoveInv, ~Deaf, Frame \/ AskSpeech \/ FrameMusic \/ AskMusic
    PROVE  MoveInv'
  <1>1. /\ isMoving' = isMoving /\ moved' = moved /\ inherited' = inherited
        /\ due' = due /\ audio \in {"frame", "speech", "music", "window"}
    BY DEF Frame, AskSpeech, FrameMusic, AskMusic, appVars
  <1>2. /\ audio' \in {"speech", "music", "window", "message", "frame"}
        /\ audio' = "frame" => left' > 0
    <2>1. CASE Frame
      BY <2>1 DEF Frame
    <2>2. CASE AskSpeech
      BY <2>2 DEF AskSpeech
    <2>3. CASE FrameMusic
      <3>1. audio' \in {"window", "frame"} /\ (audio' = "frame" => music' # 0) /\ left' = left
        BY <2>3 DEF FrameMusic
      <3>2. PhaseInv'
        BY <2>3, FrameMusicPhase
      <3>3. audio' = "frame" => left' # 0
        BY <3>1, <3>2 DEF PhaseInv, Again, Fresh, Idle
      <3>4. left' \in Nat
        BY <3>1, ClassifierAssumption DEF TypeOK, MusicWindow
      <3> QED BY <3>1, <3>3, <3>4
    <2>4. CASE AskMusic
      BY <2>4, AskMusicSends
    <2> QED BY <2>1, <2>2, <2>3, <2>4
  <1>3. isMoving => moved \/ inherited
    BY <1>1 DEF MoveInv
  <1>4. (isMoving' => moved' \/ inherited') /\ (inherited' => isMoving')
    BY <1>1, <1>3 DEF MoveInv
  <1> QED BY <1>1, <1>2, <1>4 DEF MoveInv

LEMMA BeginMove ==
    ASSUME TypeOK, PhaseInv, MoveInv, ~Deaf, Start \/ Metro \/ ReRecord
    PROVE  MoveInv'
  <1>1. PICK x \in Acceleration :
           /\ isMoving' = (isMoving \/ Sees(x))
           /\ moved' = Sees(x)
    BY DEF Start, Metro, ReRecord, Begin
  <1>2. due' = "record" /\ judged' = judged /\ loudness' = loudness /\ inherited' = inherited
    BY DEF Start, Metro, ReRecord, Begin
  <1>3. CASE Start \/ Metro
    <2>1. audio' \in {"message", "idle"} /\ audio = "idle"
      BY <1>3 DEF Start, Metro, Begin
    <2>2. isMoving <=> inherited
      <3>1. CASE Start
        BY <3>1 DEF Start, MoveInv, PhaseInv
      <3>2. CASE Metro
        BY <2>1, <3>2 DEF Metro, MoveInv
      <3> QED BY <1>3, <3>1, <3>2
    <2>3. (isMoving' => moved' \/ inherited') /\ (inherited' => isMoving')
      BY <1>1, <1>2, <2>2, Zenon
    <2> QED BY <1>2, <2>1, <2>3 DEF MoveInv
  <1>4. CASE ReRecord
    <2>1. /\ audio = "rerecord" /\ decision = 0 /\ Idle
          /\ Empty \/ Delivered
      BY <1>4 DEF ReRecord, PhaseInv, Again, Fresh
    <2>2. \/ box.list = <<>> /\ box.out = <<>> /\ box.count \in {-1, 0}
          \/ Delivered
      BY <2>1 DEF Empty
    <2>3. audio' = "tag" /\ decision' = 0
      BY <1>4, <2>1, <2>2, BeginDone, NotMissing DEF ReRecord
    <2>4. judged.loud = {loudness}
      BY <2>1 DEF MoveInv
    <2>5. inherited' => isMoving'
      BY <1>1, <1>2, Zenon DEF MoveInv
    <2> QED BY <1>2, <2>3, <2>4, <2>5 DEF MoveInv
  <1> QED BY <1>3, <1>4

LEMMA TimerMove == ASSUME MoveInv, Timer PROVE MoveInv'
  <1>1. PICK x \in Acceleration :
           /\ isMoving' = (isMoving \/ Sees(x))
           /\ moved' = (moved \/ Sees(x))
    BY DEF Timer
  <1>2. audio' = "idle" /\ due' \in {"record", "loudness"} /\ audio = "idle"
    BY DEF Timer
  <1>3. (isMoving => moved \/ inherited) /\ (inherited => isMoving) /\ inherited' = inherited
    BY <1>2 DEF MoveInv, Timer
  <1>4. (isMoving' => moved' \/ inherited') /\ (inherited' => isMoving')
    BY <1>1, <1>3, Zenon
  <1> QED BY <1>2, <1>4 DEF MoveInv

LEMMA ClockMove ==
    ASSUME TypeOK, PhaseInv, MoveInv, ~Deaf,
           Record \/ Loud \/ Silence \/ Analyse \/ Analysed \/ Decide \/ AddTag \/ MessageSent
    PROVE  MoveInv'
  <1>1. CASE Record
    <2>1. /\ audio = "idle" /\ audio' = "idle" /\ due' = "loudness"
          /\ isMoving' = isMoving /\ moved' = moved /\ inherited' = inherited
      BY <1>1 DEF Record, appVars
    <2> QED BY <2>1 DEF MoveInv
  <1>2. CASE Loud
    <2>1. PICK l \in Loudness : Metered(l)
      BY <1>2 DEF Loud
    <2>2. /\ audio = "idle" /\ audio' \in {"silence", "idle"}
          /\ isMoving' = isMoving /\ moved' = moved /\ inherited' = inherited /\ due' = "analysis"
      BY <1>2, <2>1 DEF Loud, Metered
    <2>3. audio' = "idle" => spigot'
      <3>1. CASE l < 30
        BY <2>1, <3>1 DEF Metered
      <3>2. CASE l >= 30
        BY <2>1, <3>2, Zenon DEF Metered
      <3> QED BY <3>1, <3>2, RecorderAssumption
    <2> QED BY <2>2, <2>3 DEF MoveInv
  <1>3. CASE Silence
    <2>1. /\ audio = "silence" /\ audio' = "tag" /\ loudness' = loudness /\ due' = due
          /\ judged' = [loud |-> heard.loud, moved |-> moved]
          /\ isMoving' = isMoving /\ moved' = moved /\ inherited' = inherited
      BY <1>3 DEF Silence, appVars
    <2>2. heard.loud = {loudness}
      BY <2>1 DEF PhaseInv, OnlyLoud, Nothing
    <2>3. judged'.loud = {loudness'} /\ judged'.moved = moved'
      BY <2>1, <2>2
    <2> QED BY <2>1, <2>3 DEF MoveInv
  <1>4. CASE Analyse
    <2>1. /\ audio = "idle" /\ due = "analysis" /\ due' = "metro" /\ spigot' = spigot
          /\ isMoving' = isMoving /\ moved' = moved /\ inherited' = inherited
      BY <1>4 DEF Analyse, appVars
    <2>2. audio' \in {"idle", "frame"} /\ (spigot => audio' = "frame" /\ left' > 0)
      BY <1>4, ClassifierAssumption DEF Analyse
    <2> QED BY <2>1, <2>2 DEF MoveInv
  <1>5. CASE Analysed
    <2>1. /\ audio = "frame" /\ left = 0 /\ audio' = "idle" /\ due' = due /\ spigot' = spigot
          /\ isMoving' = isMoving /\ moved' = moved /\ inherited' = inherited
      BY <1>5 DEF Analysed, appVars
    <2> QED BY <2>1 DEF MoveInv
  <1>6. CASE Decide
    <2>1. /\ audio = "message" /\ audio' \in {"rerecord", "tag"} /\ loudness' = loudness
          /\ due' = due
          /\ judged' = [loud |-> heard.loud, moved |-> moved]
          /\ isMoving' = isMoving /\ moved' = moved /\ inherited' = inherited
      BY <1>6 DEF Decide, appVars
    <2>2. heard.loud = {loudness}
      BY <2>1 DEF PhaseInv
    <2>3. judged'.loud = {loudness'} /\ judged'.moved = moved'
      BY <2>1, <2>2
    <2> QED BY <2>1, <2>3 DEF MoveInv
  <1>7. CASE AddTag
    <2>1. audio' \in {"idle", "reset"} /\ ~isMoving' /\ ~inherited' /\ due' = due /\ moved' = moved
      BY <1>7 DEF AddTag, ReceiveTag
    <2> QED BY <2>1 DEF MoveInv
  <1>8. CASE MessageSent
    <2>1. /\ audio = "reset" /\ audio' = "frame" /\ due' = due /\ spigot' = spigot
          /\ isMoving' = isMoving /\ moved' = moved /\ inherited' = inherited
      BY <1>8 DEF MessageSent, appVars
    <2> QED BY <2>1 DEF MoveInv
  <1> QED BY <1>1, <1>2, <1>3, <1>4, <1>5, <1>6, <1>7, <1>8

LEMMA FilesStay == ASSUME [Next]_vars PROVE files' = files
  BY DEF Next, Clock, vars, classifierVars, Start, Metro, ReRecord, Begin, Timer, Record, Loud, Silence,
         Analyse, Frame, AskSpeech, FrameMusic, AskMusic, Analysed, Decide, AddTag, MessageSent, Reset

LEMMA MoveStep ==
    ASSUME TypeOK, PhaseInv, MoveInv, ~Deaf, [Next]_vars
    PROVE  MoveInv'
  <1>1. CASE UNCHANGED vars
    BY <1>1 DEF vars, appVars, MoveInv
  <1> QED
    BY <1>1, AnalysisMove, BeginMove, TimerMove, ClockMove DEF Next, Clock

-----------------------------------------------------------------------------
(* The invariant *)

LEMMA InitInv == ASSUME Init PROVE IInv
  <1>1. ClassifierTypes
    <2> USE DEF Init, ClassifierInit
    <2>1. None \in [n : Nat, sum : Nat]
      BY DEF None
    <2>2. box \in Box
      <3>1. <<>> \in Seq(Nat)
        OBVIOUS
      <3> QED BY <3>1 DEF Box
    <2> QED BY <2>1, <2>2, ClassifierAssumption DEF ClassifierTypes, MusicWindow
  <1>2. RecorderTypes
    <2>1. isMoving \in BOOLEAN /\ moved = FALSE /\ inherited = isMoving
      BY RecorderAssumption DEF Init
    <2>2. left \in 0..MusicWindow
      BY ClassifierAssumption DEF Init, MusicWindow
    <2>3. /\ due = "start" /\ audio = "idle" /\ spigot = FALSE /\ decision = -1 /\ f2 = 0
          /\ loudness = 0 /\ tag = 0 /\ heard = Nothing /\ judged = NotJudged
      BY DEF Init, Undecided
    <2>4. isMoving \in BOOLEAN /\ moved \in BOOLEAN /\ inherited \in BOOLEAN
      BY <2>1
    <2>5. spigot \in BOOLEAN
      BY <2>3
    <2>6. heard \in Heard /\ judged \in [loud : SUBSET Loudness, moved : BOOLEAN]
      BY <2>3, NothingTyped
    <2>7. /\ due = "start" /\ audio = "idle" /\ decision = -1 /\ f2 = 0
          /\ loudness = 0 /\ tag = 0
      BY <2>3
    <2> QED BY <2>2, <2>4, <2>5, <2>6, <2>7 DEF RecorderTypes
  <1>3. PhaseInv
    BY DEF Init, ClassifierInit, PhaseInv, Idle
  <1>4. MoveInv
    <2>1. audio = "idle" /\ due = "start" /\ inherited = isMoving /\ moved = FALSE
      BY DEF Init
    <2> QED BY <2>1 DEF MoveInv
  <1> QED BY <1>1, <1>2, <1>3, <1>4, TwoTypes DEF IInv

LEMMA StepInv == ASSUME IInv, [Next]_vars PROVE IInv'
  <1>1. TypeOK' /\ PhaseInv'
    BY TypeStep, PhaseStep DEF IInv
  <1>2. Deaf' <=> Deaf
    BY FilesStay DEF Deaf
  <1>3. Deaf' \/ MoveInv'
    BY <1>2, MoveStep DEF IInv
  <1> QED BY <1>1, <1>3 DEF IInv

THEOREM RecorderInvariant == Spec => []IInv
  BY InitInv, StepInv, PTL DEF Spec

\* TypeOK: the class is one of five and the tag below 15 because no confidence of 1 gets past
\* moses 1, which would have the patch read the class off the answer.
THEOREM RecorderTypeCorrect == Spec => []TypeOK
  <1>1. IInv => TypeOK
    BY DEF IInv
  <1> QED BY <1>1, RecorderInvariant, PTL

\* MessageAligned: for every length of the window and whatever timbreID answers, the four
\* numbers parsed are those of this recording in their places, if all examples are there.
THEOREM MessageStaysAligned == Spec => []MessageAligned
  <1>1. ASSUME IInv PROVE MessageAligned
    <2>1. CASE Deaf
      BY <1>1, <2>1 DEF IInv, PhaseInv, MessageAligned
    <2>2. CASE ~Deaf
      <3>1. ASSUME audio = "message" PROVE box.out = Numbers(heard) /\ Len(Numbers(heard)) = 4
        BY <1>1, <2>2, <3>1 DEF IInv, PhaseInv, Numbers
      <3> QED BY <3>1 DEF MessageAligned, Numbers, ConfSum, ClassSum
    <2> QED BY <2>1, <2>2
  <1> QED BY <1>1, RecorderInvariant, PTL

\* TagIsOwn: the loudness, and from the second tag of a launch on the movement of a tag that is
\* no rejection, are those of the recording it was made of.
THEOREM TagsAreOwn == Spec => []TagIsOwn
  <1>1. ASSUME IInv PROVE TagIsOwn
    BY <1>1 DEF IInv, MoveInv, TagIsOwn
  <1> QED BY <1>1, RecorderInvariant, PTL

\* What the heap held is all there is to excuse: in a build whose heap is zeroed the movement of
\* every tag that is no rejection, the first included, is that of its recording.
THEOREM TagsMoveOnlyIfMoved ==
    ASSUME BootMoving \subseteq {FALSE}
    PROVE  Spec => [](audio = "tag" /\ ~Deaf /\ isMoving /\ decision # 0 => judged.moved)
  <1>1. Init => ~inherited
    BY Zenon DEF Init
  <1>2. ~inherited /\ [Next]_vars => ~inherited'
    BY DEF Next, Clock, vars, Start, Metro, ReRecord, Begin, Timer, Record, Loud, Silence, Analyse,
           Frame, AskSpeech, FrameMusic, AskMusic, Analysed, Decide, AddTag, MessageSent
  <1>3. IInv /\ ~inherited =>
            (audio = "tag" /\ ~Deaf /\ isMoving /\ decision # 0 => judged.moved)
    BY DEF IInv, MoveInv
  <1> QED BY <1>1, <1>2, <1>3, RecorderInvariant, PTL DEF Spec
-----------------------------------------------------------------------------
(* The recorder implements Listener *)

\* Three clusters and their sum: the patch adds where Listener counts.
LEMMA Majority ==
    ASSUME NEW h, h.speech[1].id \in {1, 2}, h.speech[2].id \in {1, 2}, h.speech[3].id \in {1, 2},
           NEW sum, sum = h.speech[1].id + h.speech[2].id + h.speech[3].id
    PROVE  /\ SpeechClass(sum) = 0 <=> \E w \in 1..3 : Listens!SpeechIn(h) = {w}
           /\ SpeechClass(sum) = 1 <=> Listens!SpeechIn(h) = {}
           /\ SpeechClass(sum) \in {0, 1, 2}
  <1> DEFINE T == Listens!SpeechIn(h)
             v(w) == h.speech[w].id = 2
  <1>1. T = {w \in 1..3 : v(w)}
    BY DEF Listens!SpeechIn
  <1>2. /\ SpeechClass(sum) = 1 <=> ~v(1) /\ ~v(2) /\ ~v(3)
        /\ SpeechClass(sum) = 0 <=> \/ v(1) /\ ~v(2) /\ ~v(3)
                                    \/ ~v(1) /\ v(2) /\ ~v(3)
                                    \/ ~v(1) /\ ~v(2) /\ v(3)
    BY DEF SpeechClass
  <1> HIDE DEF T, v
  <1>3. T = {} <=> ~v(1) /\ ~v(2) /\ ~v(3)
    BY <1>1
  <1>4. (\E w \in 1..3 : T = {w}) <=>
            \/ v(1) /\ ~v(2) /\ ~v(3)
            \/ ~v(1) /\ v(2) /\ ~v(3)
            \/ ~v(1) /\ ~v(2) /\ v(3)
    <2>1. ASSUME NEW w \in 1..3, T = {w}
          PROVE  \/ v(1) /\ ~v(2) /\ ~v(3)
                 \/ ~v(1) /\ v(2) /\ ~v(3)
                 \/ ~v(1) /\ ~v(2) /\ v(3)
      <3>1. \A u \in 1..3 : v(u) <=> u = w
        BY <1>1, <2>1
      <3> QED BY <3>1
    <2>2. v(1) /\ ~v(2) /\ ~v(3) => T = {1}
      BY <1>1
    <2>3. ~v(1) /\ v(2) /\ ~v(3) => T = {2}
      BY <1>1
    <2>4. ~v(1) /\ ~v(2) /\ v(3) => T = {3}
      BY <1>1
    <2> QED BY <2>1, <2>2, <2>3, <2>4
  <1>5. SpeechClass(sum) \in {0, 1, 2}
    BY SpeechClassTyped
  <1> QED BY <1>2, <1>3, <1>4, <1>5 DEF T

\* What is parsed is a verdict on what was heard.
LEMMA ParseIsVerdict ==
    ASSUME IInv, ~Deaf, audio = "message"
    PROVE  Parse(box.out) \in Listens!Verdicts(heard)
  <1> DEFINE a == heard.speech[1]
             b == heard.speech[2]
             c == heard.speech[3]
             d == heard.music[1]
  <1>1. /\ loudness >= 30 /\ loudness \in Nat /\ heard.loud = {loudness} /\ Pitched
        /\ Len(heard.speech) = 3 /\ Len(heard.music) = 1 /\ box.out = Numbers(heard)
        /\ heard.n \in Nat /\ heard.sum \in Nat
    BY DEF IInv, PhaseInv, TypeOK, Heard
  <1>2. a \in Answered /\ b \in Answered /\ c \in Answered
    <2>1. heard.speech \in Seq(Answered)
      BY DEF IInv, TypeOK, Heard
    <2>2. \A i \in 1..Len(heard.speech) : heard.speech[i] \in Answered
      BY <2>1, ElementOfSeq
    <2> QED BY <1>1, <2>2
  <1> DEFINE sum == a.id + b.id + c.id
             trust == Moses(a.confidence) + Moses(b.confidence) + Moses(c.confidence)
             one == \E w \in 1..3 : Listens!SpeechIn(heard) = {w}
  <1>3. /\ box.out[1] = trust /\ box.out[2] = SpeechClass(sum)
    BY <1>1 DEF Numbers, ConfSum, ClassSum
  <1>4. box.out[3] # 10
    BY ParseTyped DEF IInv
  <1>5. /\ SpeechClass(sum) = 0 <=> one
        /\ SpeechClass(sum) = 1 <=> Listens!SpeechIn(heard) = {}
        /\ SpeechClass(sum) \in {0, 1, 2}
    <2>1. a.id \in {1, 2} /\ b.id \in {1, 2} /\ c.id \in {1, 2}
      BY <1>2 DEF Answered
    <2> QED BY <2>1, Majority
  <1>6. Listens!Trusted(heard) <=> trust >= 2
    <2>1. \A x \in Answered : Listens!Trust(x) = Moses(x.confidence)
      BY DEF Listens!Trust, Moses, Answered
    <2> HIDE DEF a, b, c
    <2>2. /\ Listens!Trust(a) = Moses(a.confidence) /\ Listens!Trust(b) = Moses(b.confidence)
          /\ Listens!Trust(c) = Moses(c.confidence)
      BY <1>2, <2>1
    <2> QED BY <2>2 DEF Listens!Trusted, a, b, c
  <1>7. trust \in Nat
    <2>1. \A x \in Answered : Moses(x.confidence) \in Nat
      BY MosesTyped DEF Answered
    <2> HIDE DEF a, b, c
    <2>2. Moses(a.confidence) \in Nat /\ Moses(b.confidence) \in Nat /\ Moses(c.confidence) \in Nat
      BY <1>2, <2>1
    <2> QED BY <2>2
  <1>8. Listens!Verdicts(heard) =
            IF ~Listens!Trusted(heard) \/ one THEN {0}
            ELSE IF Listens!SpeechIn(heard) # {} THEN {1}
            ELSE IF heard.n = 0 THEN {2, 3}
            ELSE IF heard.n > 1 /\ heard.sum \div heard.n <= 40 THEN {3}
            ELSE {2}
    <2>1. ~(\E l \in heard.loud : l < 30)
      BY <1>1
    <2>2. /\ heard.loud # {} /\ (\A l \in heard.loud : l >= 30)
          /\ Len(heard.speech) = 3 /\ Len(heard.music) = 1
      BY <1>1
    <2> QED BY <2>1, <2>2, Zenon DEF Listens!Verdicts
  <1>9. Parse(box.out) =
            IF trust < 2 THEN 0
            ELSE IF SpeechClass(sum) = 2 THEN 1
            ELSE IF SpeechClass(sum) = 0 THEN 0
            ELSE IF qt # 1 /\ avg < 70 /\ avg <= 40 THEN 3 ELSE 2
    <2> HIDE DEF sum, trust
    <2> QED BY <1>3, <1>4, <1>5 DEF Parse
  <1> HIDE DEF sum, trust, one
  <1>10. heard.n > 0 => qt = heard.n /\ avg = heard.sum \div heard.n /\ avg \in Int
    BY <1>1 DEF Pitched, IInv, TypeOK
  <1>11. CASE trust < 2
    BY <1>6, <1>7, <1>8, <1>9, <1>11
  <1>12. CASE trust >= 2 /\ SpeechClass(sum) # 1
    BY <1>5, <1>6, <1>7, <1>8, <1>9, <1>12
  <1>13. CASE trust >= 2 /\ SpeechClass(sum) = 1
    <2>1. Listens!Verdicts(heard) =
              IF heard.n = 0 THEN {2, 3}
              ELSE IF heard.n > 1 /\ heard.sum \div heard.n <= 40 THEN {3}
              ELSE {2}
      BY <1>5, <1>6, <1>8, <1>13
    <2>2. Parse(box.out) = IF qt # 1 /\ avg < 70 /\ avg <= 40 THEN 3 ELSE 2
      BY <1>7, <1>9, <1>13
    <2>3. CASE heard.n = 0
      BY <2>1, <2>2, <2>3
    <2>4. CASE heard.n = 1
      BY <1>10, <2>1, <2>2, <2>4
    <2>5. CASE heard.n > 1
      <3>1. qt # 1 /\ avg = heard.sum \div heard.n /\ avg \in Int
        BY <1>1, <1>10, <2>5
      <3> QED BY <2>1, <2>2, <2>5, <3>1
    <2> QED BY <1>1, <2>3, <2>4, <2>5
  <1> QED BY <1>7, <1>11, <1>12, <1>13
LEMMA ListenerInit == ASSUME Init PROVE Listens!Init
  <1>1. Deaf \in BOOLEAN
    BY DEF Deaf
  <1> QED BY <1>1 DEF Init, Listens!Init, Nothing, Listens!Nothing, Undecided, Listens!Undecided

\* Steps Listener does not see, and attempts that begin.
LEMMA ListenerListens ==
    ASSUME Deaf' <=> Deaf, UNCHANGED decision, heard' = Nothing \/ UNCHANGED heard
    PROVE  [Listens!Next]_Listens!vars
  <1>1. Deaf' = Deaf
    OBVIOUS
  <1>2. CASE heard' = Nothing
    BY <1>1, <1>2 DEF Listens!Next, Listens!Listen, Nothing, Listens!Nothing
  <1>3. CASE UNCHANGED heard
    BY <1>1, <1>3 DEF Listens!vars
  <1> QED BY <1>2, <1>3

LEMMA ListenerHears ==
    ASSUME TypeOK, Deaf' <=> Deaf, Loud \/ Frame \/ AskSpeech \/ AskMusic
    PROVE  [Listens!Next]_Listens!vars
  <1>1. UNCHANGED decision /\ Deaf' = Deaf
    BY DEF Loud, Frame, AskSpeech, AskMusic
  <1>2. CASE Loud
    <2>1. Listens!Hear
      BY <1>2 DEF Loud, Listens!Hear
    <2> QED BY <1>1, <2>1 DEF Listens!Next
  <1>3. CASE Frame
    <2>1. PICK p \in Pitches :
             heard' = IF p = Unpitched THEN heard ELSE [heard EXCEPT !.n = @ + 1, !.sum = @ + p]
      BY <1>3 DEF Frame
    <2>2. CASE p = Unpitched
      BY <1>1, <2>1, <2>2, ListenerListens
    <2>3. CASE p # Unpitched
      <3>1. Listens!Hear
        BY <1>1, <2>1, <2>3 DEF Listens!Hear
      <3> QED BY <1>1, <3>1 DEF Listens!Next
    <2> QED BY <2>2, <2>3
  <1>4. CASE AskSpeech
    <2>1. PICK answer \in AnswersOf("speech") :
             heard' = IF answer = NoAnswer THEN heard
                      ELSE [heard EXCEPT !.speech = Append(@, answer)]
      BY <1>4 DEF AskSpeech
    <2>2. CASE answer = NoAnswer
      BY <1>1, <2>1, <2>2, ListenerListens
    <2>3. CASE answer # NoAnswer
      <3>1. answer \in Answered
        BY <2>3, AnswerOf
      <3>2. Listens!Hear
        BY <1>1, <2>1, <2>3, <3>1 DEF Listens!Hear
      <3> QED BY <1>1, <3>2 DEF Listens!Next
    <2> QED BY <2>2, <2>3
  <1>5. CASE AskMusic
    <2>1. PICK answer \in AnswersOf("music") :
             heard' = IF answer = NoAnswer THEN heard
                      ELSE [heard EXCEPT !.music = Append(@, answer)]
      BY <1>5 DEF AskMusic
    <2>2. CASE answer = NoAnswer
      BY <1>1, <2>1, <2>2, ListenerListens
    <2>3. CASE answer # NoAnswer
      <3>1. answer \in Answered
        BY <2>3, AnswerOf
      <3>2. Listens!Hear
        BY <1>1, <2>1, <2>3, <3>1 DEF Listens!Hear
      <3> QED BY <1>1, <3>2 DEF Listens!Next
    <2> QED BY <2>2, <2>3
  <1> QED BY <1>2, <1>3, <1>4, <1>5

LEMMA ListenerJudges ==
    ASSUME IInv, Deaf' <=> Deaf, Silence \/ Decide
    PROVE  [Listens!Next]_Listens!vars
  <1>1. heard' = Listens!Nothing /\ Deaf' = Deaf
    BY DEF Silence, Decide, Nothing, Listens!Nothing
  <1>2. decision = Listens!Undecided
    BY DEF Silence, Decide, IInv, PhaseInv, Undecided, Listens!Undecided
  <1>3. decision' \in 0..4 /\ (Deaf \/ decision' \in Listens!Verdicts(heard))
    <2>1. CASE Silence
      <3>1. heard.loud = {loudness} /\ loudness < 30
        BY <2>1 DEF Silence, IInv, PhaseInv, OnlyLoud, Nothing
      <3>2. \E l \in heard.loud : l < 30
        BY <3>1
      <3>3. Listens!Verdicts(heard) = {4}
        <4>1. ~(heard.loud # {} /\ (\A l \in heard.loud : l >= 30))
          <5>1. ~(loudness >= 30)
            BY <3>1 DEF IInv, TypeOK
          <5> QED BY <3>1, <5>1
        <4> QED BY <3>2, <4>1, Zenon DEF Listens!Verdicts
      <3>4. decision' = 4
        BY <2>1 DEF Silence
      <3> QED BY <3>3, <3>4
    <2>2. CASE Decide
      <3>1. decision' = Parse(box.out) /\ audio = "message"
        BY <2>2 DEF Decide
      <3>2. decision' \in 0..3
        BY <3>1, ParseTyped DEF IInv
      <3>3. Deaf \/ decision' \in Listens!Verdicts(heard)
        BY <3>1, ParseIsVerdict
      <3> QED BY <3>2, <3>3
    <2> QED BY <2>1, <2>2
  <1>4. Listens!Judge(decision')
    BY <1>1, <1>2, <1>3 DEF Listens!Judge
  <1> QED BY <1>1, <1>3, <1>4 DEF Listens!Next

LEMMA ListenerReports ==
    ASSUME IInv, Deaf' <=> Deaf, AddTag
    PROVE  [Listens!Next]_Listens!vars
  <1>1. decision # Listens!Undecided /\ decision' = Listens!Undecided /\ UNCHANGED heard /\ Deaf' = Deaf
    BY DEF AddTag, IInv, PhaseInv, Undecided, Listens!Undecided
  <1>2. Listens!Report
    BY <1>1 DEF Listens!Report
  <1> QED BY <1>1, <1>2 DEF Listens!Next

LEMMA ListenerStep ==
    ASSUME IInv, [Next]_vars
    PROVE  [Listens!Next]_Listens!vars
  <1>1. Deaf' <=> Deaf
    BY FilesStay DEF Deaf
  <1>2. CASE Start \/ Metro \/ ReRecord
    <2>1. UNCHANGED decision /\ heard' = Nothing
      BY <1>2 DEF Start, Metro, ReRecord, Begin
    <2> QED BY <1>1, <2>1, ListenerListens
  <1>3. CASE Timer \/ Record \/ Analyse \/ FrameMusic \/ Analysed \/ MessageSent \/ UNCHANGED vars
    <2>1. UNCHANGED decision /\ UNCHANGED heard
      BY <1>3 DEF Timer, Record, Analyse, FrameMusic, Analysed, MessageSent, vars
    <2> QED BY <1>1, <2>1, ListenerListens
  <1> QED
    BY <1>1, <1>2, <1>3, ListenerHears, ListenerJudges, ListenerReports DEF Next, Clock, IInv

\* ImplementsListener: for every number of examples and length of the window, and whatever
\* sounds and pitches there are, a recording is judged by what was heard in it.
THEOREM RecorderImplementsListener == Spec => ImplementsListener
  BY ListenerInit, ListenerStep, RecorderInvariant, PTL DEF Spec, ImplementsListener, Listens!Spec
=============================================================================
