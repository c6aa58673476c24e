----------------------------- MODULE Classifier -----------------------------
(***************************************************************************)
(* The part of the Pd patch that turns a recording into a class: the       *)
(* accumulation of frames and the pitch statistics of "audio_analysis",    *)
(* the collection of answers in "machine_learning", and the rules of       *)
(* "parsing_and_classification".  In Pd a message is handled to its end    *)
(* before its sender goes on, outlets from right to left; each definition  *)
(* is one such chain.                                                      *)
(*                                                                         *)
(* Features stay abstract (see TimbreID); confidences are in tenths, so    *)
(* the patch's 1 is 10 and its 0.2 is 2.                                   *)
(***************************************************************************)
EXTENDS TimbreID, Sequences

CONSTANTS
    Examples,   \* examples in a .timid file (649 and 445)
    Split,      \* the first of them that is in cluster 2 (445 and 224)
    Window,     \* frames in a window of speech features (10)
    Pitches,    \* what sigmund~ may find in a frame: a pitch or Unpitched
    Distances,  \* distances of a window to the examples
    Files       \* sets of .timid files the process may be able to open

Unpitched == -1500
NoAnswer  == [confidence |-> 0, id |-> 0]

ASSUME ClassifierAssumption ==
    /\ Examples \in Nat /\ Split \in 1..(Examples - 1)
    /\ Window \in Nat \ {0}
    /\ Pitches \subseteq Nat \cup {Unpitched}
    /\ Distances \subseteq Nat
    /\ Files \subseteq SUBSET {"speech", "music"}

VARIABLES
    files,      \* the .timid files that can be opened
    speech,     \* currentFrame of featureAccum 10 3
    music,      \* currentFrame of featureAccum 30 4
    mean,       \* sum and number of the pitches in the object mean
    qt, avg,    \* number and mean of pitches as parsing_and_classification stores them
    confs,      \* number and sum of the confidences in one repack 3
    classes,    \* number and sum of the clusters in the other
    box         \* the message under construction, its counter, and what was sent on

classifierVars == <<files, speech, music, mean, qt, avg, confs, classes, box>>

\* The music window is as long as the whole recording, and as three windows of speech.
MusicWindow == 3 * Window
None == [n |-> 0, sum |-> 0]

ClassifierInit ==
    /\ files \in Files
    /\ speech = 0 /\ music = 0 /\ mean = None /\ qt = 0 /\ avg = 0
    /\ confs = None /\ classes = None
    /\ box = [list |-> <<>>, count |-> 0, out |-> <<>>]

-----------------------------------------------------------------------------
\* Mutant of Accumulated: a frame too late.
AccumulatedLate(current, size) == IF current + 1 > size THEN 0 ELSE current + 1

\* featureAccum_accum(): the next frame, or the first again when size frames are complete.
Accumulated(current, size) == IF current + 1 = size THEN 0 ELSE current + 1

\* counter_bang() between 0 and 3, upwards.
Counter(c) == IF c + 1 \in 0..3 THEN c + 1 ELSE 0

\* A value is added to the message box, then counted; the count of 3 sends the message.
Feed(b, value) ==
    LET list == Append(b.list, value)
        count == Counter(b.count)
    IN  [list |-> list, count |-> count, out |-> IF count = 3 THEN list ELSE b.out]

\* route 3 5 6 on the sum of the clusters of three windows.
SpeechClass(sum) == CASE sum = 3 -> 1 [] sum \in {5, 6} -> 2 [] OTHER -> 0

\* counter_clear(): one below the least count.
Clear(b) == [list |-> <<>>, count |-> -1, out |-> b.out]

\* r reset: the two repacks send what they hold, clusters first, as if they were full; then
\* counter and message box are emptied.
Flush(b) == Clear(Feed(Feed(b, SpeechClass(classes.sum)), confs.sum))

\* Mutant of Reset: the mean is not cleared.
ResetKeepMean ==
    /\ speech' = 0 /\ music' = 0
    /\ confs' = None /\ classes' = None
    /\ box' = Flush(box)
    /\ UNCHANGED <<files, mean, qt, avg>>

\* What s reset does to all of them.  The stored number and mean of pitches stay.
Reset ==
    /\ speech' = 0 /\ music' = 0 /\ mean' = None
    /\ confs' = None /\ classes' = None
    /\ box' = Flush(box)
    /\ UNCHANGED <<files, qt, avg>>

-----------------------------------------------------------------------------
\* The messages to timbreID before each question, once the file was read or not.
Database(read) ==
    ManualCluster(ManualCluster(read, 2, 1, 0, Split - 1), 2, 2, Split, Examples - 1)

\* What timbreID may send of a window, by its distances; nothing if it has no examples.
Sent(db) ==
    IF db = Cleared THEN {NoAnswer}
    ELSE {Identify(db, dist) : dist \in [0..(Examples - 1) -> Distances]}

Answers == [file |-> Sent(Database(Read(Examples))), none |-> Sent(Database(Cleared))]

\* The answers of one of the two objects.
AnswersOf(name) == IF name \in files THEN Answers.file ELSE Answers.none

\* moses 1: a confidence of 1 is replaced by 0.
Moses(confidence) == IF confidence >= 10 THEN 0 ELSE confidence

\* repack_float()
Packed(repack, value) == [n |-> repack.n + 1, sum |-> repack.sum + value]

\* The answer about a window of speech features: the third one fills both repacks, the one
\* of the confidences first.
PackSpeech(answer) ==
    LET c == Packed(confs, Moses(answer.confidence))
        k == Packed(classes, answer.id)
    IN  IF answer = NoAnswer THEN UNCHANGED <<confs, classes, box>>
        ELSE IF c.n = 3
        THEN /\ confs' = None /\ classes' = None
             /\ box' = Feed(Feed(box, c.sum), SpeechClass(k.sum))
        ELSE confs' = c /\ classes' = k /\ UNCHANGED box

\* Mutant of FeedMusic: the id comes before the confidence.
FeedMusicSwapped(answer) ==
    box' = IF answer = NoAnswer THEN box ELSE Feed(Feed(box, answer.id), Moses(answer.confidence))

\* The answer about the music window goes straight into the message.
FeedMusic(answer) ==
    box' = IF answer = NoAnswer THEN box ELSE Feed(Feed(box, Moses(answer.confidence)), answer.id)

\* The pitch of a frame: sel -1500, mean, and the number and mean that are sent on.
Pitch(p) ==
    IF p = Unpitched THEN UNCHANGED <<mean, qt, avg>>
    ELSE /\ mean' = Packed(mean, p)
         /\ qt' = mean'.n /\ avg' = mean'.sum \div mean'.n

\* parsing_and_classification on a message of four numbers: confidence and class of speech,
\* confidence and class of music.
Parse(m) ==
    IF m[1] < 2 THEN 0                                          \* rejected
    ELSE CASE m[2] = 2           -> 1                           \* speech
           [] m[2] \notin {1, 2} -> 0
           [] m[2] = 1           -> IF m[3] = 10 THEN 1 + m[4]   \* environmental or music
                                    ELSE IF qt # 1 /\ avg < 70 /\ avg <= 40 THEN 3 ELSE 2
=============================================================================
