------------------------------ MODULE Listener ------------------------------
(***************************************************************************)
(* What the classifier promises, whatever its windows, buffers and         *)
(* counters: a recording is judged once at most, by what was heard in it   *)
(* and nothing else, and the judgement is reported before there is         *)
(* another.  Where a recording has no pitch at all the promise is weaker.  *)
(***************************************************************************)
EXTENDS Integers, Sequences

CONSTANTS
    Sounds,     \* what may be said of a window: a confidence in tenths and an id
    Tones,      \* pitches of a frame
    Levels      \* loudness of a recording

VARIABLES
    deaf,       \* its examples are incomplete; nothing is promised of its judgements
    heard,      \* what the present recording has brought so far
    verdict     \* class not reported yet, or Undecided

vars == <<deaf, heard, verdict>>

Undecided == -1
Nothing == [speech |-> <<>>, music |-> <<>>, n |-> 0, sum |-> 0, loud |-> {}]

\* The windows of a recording that sounded like speech.
SpeechIn(h) == {w \in 1..3 : h.speech[w].id = 2}

\* The confidences of the three windows add up to 0.2; that of an exact match does not count.
Trust(answer) == IF answer.confidence = 10 THEN 0 ELSE answer.confidence
Trusted(h) == Trust(h.speech[1]) + Trust(h.speech[2]) + Trust(h.speech[3]) >= 2

\* Silence (4) if it was too quiet; else speech (1) by the majority of three windows, nothing
\* (0) if only one of them sounded like speech or there is little confidence; else music (3)
\* if it was low pitched, and some other sound (2).
Verdicts(h) ==
    CASE \E l \in h.loud : l < 30 -> {4}
      [] h.loud # {} /\ (\A l \in h.loud : l >= 30) /\ Len(h.speech) = 3 /\ Len(h.music) = 1 ->
            IF ~Trusted(h) \/ (\E w \in 1..3 : SpeechIn(h) = {w}) THEN {0}
            ELSE IF SpeechIn(h) # {} THEN {1}
            ELSE IF h.n = 0 THEN {2, 3}
            ELSE IF h.n > 1 /\ h.sum \div h.n <= 40 THEN {3}
            ELSE {2}
      [] OTHER -> {}

Init == deaf \in BOOLEAN /\ heard = Nothing /\ verdict = Undecided

\* A recording begins; one that was not judged is forgotten.
Listen == heard' = Nothing /\ UNCHANGED verdict

Hear ==
    /\ \/ \E a \in Sounds : heard' = [heard EXCEPT !.speech = Append(@, a)]
       \/ \E a \in Sounds : heard' = [heard EXCEPT !.music = Append(@, a)]
       \/ \E p \in Tones : heard' = [heard EXCEPT !.n = @ + 1, !.sum = @ + p]
       \/ \E l \in Levels : heard' = [heard EXCEPT !.loud = {l}]
    /\ UNCHANGED verdict

Judge(class) ==
    /\ verdict = Undecided
    /\ deaf \/ class \in Verdicts(heard)
    /\ verdict' = class /\ heard' = Nothing

Report == verdict # Undecided /\ verdict' = Undecided /\ UNCHANGED heard

Next ==
    /\ Listen \/ Hear \/ (\E class \in 0..4 : Judge(class)) \/ Report
    /\ UNCHANGED deaf

Spec == Init /\ [][Next]_vars
=============================================================================
