-------------------------- MODULE ClassifierProofs --------------------------
(***************************************************************************)
(* What timbreID answers, for any number of examples and any distances.    *)
(***************************************************************************)
EXTENDS Classifier, TLAPS, WellFoundedInduction

Examined == 0..(Examples - 1)

\* A set of natural numbers that is not empty has a least element.
LEMMA LeastElement ==
    ASSUME NEW T \in SUBSET Nat, T # {}
    PROVE  \E x \in T : \A y \in T : x <= y
  <1> DEFINE R == OpToRel(<, Nat)
  <1>1. \E x \in T : \A y \in T : ~(<<y, x>> \in R)
    <2> HIDE DEF R
    <2>1. IsWellFoundedOn(R, Nat)
      BY NatLessThanWellFounded DEF R
    <2> QED BY <2>1, WFMin
  <1>2. PICK x \in T : \A y \in T : ~(<<y, x>> \in R)
    BY <1>1
  <1>3. \A y \in T : ~(y < x)
    <2> SUFFICES ASSUME NEW y \in T, y < x PROVE FALSE
      OBVIOUS
    <2>1. <<y, x>> \in R
      BY DEF OpToRel
    <2> QED BY <2>1, <1>2
  <1> QED BY <1>3

\* The search of timbreID_sort_knn_info() finds an example at the least distance.
LEMMA NearestFound ==
    ASSUME NEW dist \in [Examined -> Nat]
    PROVE  /\ Nearest(dist) \in Examined
           /\ \A j \in Examined : dist[Nearest(dist)] <= dist[j]
  <1> USE DEF Examined
  <1>1. 0 \in Examined
    BY ClassifierAssumption
  <1>2. PICK i \in Examined : \A j \in Examined : dist[i] <= dist[j]
    <2> DEFINE T == {dist[j] : j \in Examined}
    <2>1. T \in SUBSET Nat /\ T # {}
      BY <1>1
    <2>2. PICK d \in T : \A e \in T : d <= e
      BY <2>1, LeastElement
    <2> QED BY <2>2
  <1>3. PICK k \in Examined : /\ dist[k] = dist[i]
                              /\ \A j \in Examined : dist[j] = dist[i] => k <= j
    <2> DEFINE T == {j \in Examined : dist[j] = dist[i]}
    <2>1. T \in SUBSET Nat /\ T # {}
      BY ClassifierAssumption
    <2>2. PICK k \in T : \A j \in T : k <= j
      BY <2>1, LeastElement
    <2> QED BY <2>2
  <1>4. \A j \in Examined : dist[k] < dist[j] \/ (dist[k] = dist[j] /\ k <= j)
    BY <1>2, <1>3
  <1>5. DOMAIN dist = Examined
    OBVIOUS
  <1> QED BY <1>4, <1>5 DEF Nearest

\* The patch cuts its examples in two: below Split is cluster 1, the others are cluster 2.
LEMMA DatabaseRead ==
    Database(Read(Examples)) = [cluster |-> [i \in Examined |-> IF i < Split THEN 1 ELSE 2], num_instr |-> 2]
  <1> USE ClassifierAssumption DEF Examined
  <1>1. Read(Examples) = [cluster |-> [i \in Examined |-> i], num_instr |-> Examples]
    BY DEF Read
  <1>2. \A n \in 0..(2 - 1) : n \in Examined
    OBVIOUS
  <1> DEFINE f == [i \in Examined |-> IF i \in 0..(Split - 1) THEN 1 ELSE i]
             g == [i \in Examined |-> IF i \in Split..(Examples - 1) THEN 2 ELSE f[i]]
  <1>3. ManualCluster(Read(Examples), 2, 1, 0, Split - 1) = [cluster |-> f, num_instr |-> 2]
    <2> DEFINE db == Read(Examples)
    <2>1. db.cluster = [i \in Examined |-> i]
      BY <1>1
    <2> HIDE DEF db
    <2>2. DOMAIN db.cluster = Examined /\ \A i \in Examined : db.cluster[i] = i
      BY <2>1
    <2>3. [i \in DOMAIN db.cluster |-> IF i \in 0..(Split - 1) THEN 1 ELSE db.cluster[i]] = f
      BY <2>2
    <2>4. ManualCluster(db, 2, 1, 0, Split - 1) = [cluster |-> f, num_instr |-> 2]
      <3> HIDE DEF f
      <3> QED BY <1>2, <2>2, <2>3 DEF ManualCluster
    <2> QED BY <2>4 DEF db
  <1>4. Database(Read(Examples)) = [cluster |-> g, num_instr |-> 2]
    <2> DEFINE db == [cluster |-> f, num_instr |-> 2]
    <2>1. db.cluster = f /\ DOMAIN f = Examined
      OBVIOUS
    <2> HIDE DEF db, f
    <2>2. [i \in DOMAIN db.cluster |-> IF i \in Split..(Examples - 1) THEN 2 ELSE db.cluster[i]] = g
      BY <2>1
    <2>3. ManualCluster(db, 2, 2, Split, Examples - 1) = [cluster |-> g, num_instr |-> 2]
      <3> HIDE DEF g
      <3> QED BY <1>2, <2>1, <2>2 DEF ManualCluster
    <2> QED BY <1>3, <2>3 DEF Database, db
  <1>5. g = [i \in Examined |-> IF i < Split THEN 1 ELSE 2]
    OBVIOUS
  <1> QED BY <1>4, <1>5

\* Without its file an object has no examples, and says nothing.
LEMMA DatabaseUnread == Database(Cleared) = Cleared
  <1>2. 0 \in 0..(2 - 1) /\ 0 \notin DOMAIN Cleared.cluster
    BY DEF Cleared
  <1>3. ManualCluster(Cleared, 2, 1, 0, Split - 1) = Cleared
    BY <1>2 DEF ManualCluster
  <1>4. ManualCluster(Cleared, 2, 2, Split, Examples - 1) = Cleared
    BY <1>2 DEF ManualCluster
  <1> QED BY <1>3, <1>4 DEF Database

\* A vote for cluster 2 lies outside the array; the rule for ties makes up for it.
LEMMA WinnerIsNearest ==
    ASSUME NEW c \in {1, 2}
    PROVE  Winner(Votes(2, c), c) = c
  <1> DEFINE votes == Votes(2, c)
             Top(v) == \A w \in DOMAIN votes : votes[v] > votes[w] \/ (votes[v] = votes[w] /\ v <= w)
             top == CHOOSE v \in DOMAIN votes : Top(v)
  <1>1. votes = [v \in {0, 1} |-> IF v = c THEN 1 ELSE 0]
    BY DEF Votes
  <1>2. CASE c = 1
    <2>1. votes[0] = 0 /\ votes[1] = 1 /\ DOMAIN votes = {0, 1}
      BY <1>1, <1>2
    <2>2. 1 \in DOMAIN votes /\ Top(1)
      BY <2>1
    <2>3. top \in DOMAIN votes /\ Top(top)
      BY <2>2
    <2>4. top = 1
      BY <2>1, <2>3
    <2> QED BY <2>1, <2>4, <1>2 DEF Winner
  <1>3. CASE c = 2
    <2>1. votes[0] = 0 /\ votes[1] = 0 /\ DOMAIN votes = {0, 1}
      BY <1>1, <1>3
    <2>2. 0 \in DOMAIN votes /\ Top(0)
      BY <2>1
    <2>3. top \in DOMAIN votes
      BY <2>2
    <2>4. votes[top] = 0
      BY <2>1, <2>3
    <2> QED BY <2>4, <1>3 DEF Winner
  <1> QED BY <1>2, <1>3

\* The class of a window is that of the example nearest to it.  (timbreID_id)
THEOREM NearestDecides ==
    ASSUME NEW dist \in [Examined -> Nat]
    PROVE  Identify(Database(Read(Examples)), dist).id = IF Nearest(dist) < Split THEN 1 ELSE 2
  <1>1. Database(Read(Examples)).cluster[Nearest(dist)] = IF Nearest(dist) < Split THEN 1 ELSE 2
    BY DatabaseRead, NearestFound
  <1>2. Database(Read(Examples)).num_instr = 2
    BY DatabaseRead
  <1> QED BY <1>1, <1>2, WinnerIsNearest DEF Identify

LEMMA TenthsOfPart ==
    ASSUME NEW n \in Nat, n > 0, NEW d \in 0..n
    PROVE  (10 * d) \div n \in 0..10
  <1> DEFINE q == (10 * d) \div n
  <1>1. q \in Int /\ n * q <= 10 * d /\ 10 * d < n * q + n
    OBVIOUS
  <1> HIDE DEF q
  <1>2. q > -1
    <2> SUFFICES ASSUME q <= -1 PROVE FALSE
      BY <1>1
    <2>1. n * q <= n * (-1)
      BY <1>1
    <2> QED BY <1>1, <2>1
  <1>3. q < 11
    <2> SUFFICES ASSUME q >= 11 PROVE FALSE
      BY <1>1
    <2>1. n * q >= n * 11
      BY <1>1
    <2> QED BY <1>1, <2>1
  <1> QED BY <1>1, <1>2, <1>3 DEF q

LEMMA ConfidenceInTenths ==
    ASSUME NEW dist \in [Examined -> Nat]
    PROVE  Confidence(Sorted(dist)) \in 0..10
  <1> DEFINE s == Sorted(dist)
  <1>1. 0 \in Examined /\ 1 \in Examined
    BY ClassifierAssumption DEF Examined
  <1>2. s[0] \in Nat /\ s[1] \in Nat /\ s[0] <= s[1]
    <2> DEFINE k == Nearest(dist)
    <2>1. k \in Examined /\ (\A j \in Examined : dist[k] <= dist[j])
      BY NearestFound
    <2> HIDE DEF k
    <2>2. s = [dist EXCEPT ![0] = dist[k], ![k] = dist[0]]
      BY DEF Sorted, k
    <2>3. s \in [Examined -> Nat] /\ s[0] = dist[k]
      BY <1>1, <2>1, <2>2
    <2>4. s[1] \in {dist[j] : j \in Examined}
      BY <1>1, <2>1, <2>2
    <2> QED BY <1>1, <2>1, <2>3, <2>4
  <1>3. CASE s[1] <= 0
    BY <1>3 DEF Confidence
  <1>4. CASE s[1] > 0
    <2> HIDE DEF s
    <2> DEFINE d == s[1] - s[0]
               q == (10 * d) \div s[1]
    <2>1. d \in 0..s[1]
      BY <1>2
    <2>2. q \in 0..10
      BY <1>2, <1>4, <2>1, TenthsOfPart
    <2> QED BY <1>4, <2>2 DEF Confidence, s
  <1> QED BY <1>2, <1>3, <1>4

\* An object with examples answers with one of its two clusters, one without does not answer.
LEMMA AnswersKnown ==
    /\ Answers.file \subseteq [confidence : 0..10, id : {1, 2}]
    /\ Answers.none = {NoAnswer}
  <1>1. Answers.none = {NoAnswer}
    BY DatabaseUnread DEF Answers, Sent
  <1>2. Database(Read(Examples)) # Cleared
    BY DatabaseRead DEF Cleared
  <1>3. ASSUME NEW dist \in [0..(Examples - 1) -> Distances]
        PROVE  Identify(Database(Read(Examples)), dist) \in [confidence : 0..10, id : {1, 2}]
    <2>1. dist \in [Examined -> Nat]
      BY ClassifierAssumption DEF Examined
    <2> QED BY <2>1, NearestDecides, ConfidenceInTenths DEF Identify
  <1> QED BY <1>1, <1>2, <1>3 DEF Answers, Sent
=============================================================================
