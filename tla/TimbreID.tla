------------------------------ MODULE TimbreID ------------------------------
(***************************************************************************)
(* The Pd object timbreID (pd_externals/timbreID.c) as the patch uses it:  *)
(* a file of examples is read, split into two clusters by hand, and asked  *)
(* which cluster a list of features belongs to.  The patch never sends     *)
(* "knn", so the number k of neighbours stays 1.                           *)
(*                                                                         *)
(* Features are abstracted to what the answer depends on, the distances of *)
(* the list asked about to the examples.  A database of examples, numbered *)
(* from 0, is a record of the cluster of each example                      *)
(* (instance_cluster_membership) and the number of clusters (num_instr).   *)
(***************************************************************************)
EXTENDS Integers

\* timbreID_clear()
Cleared == [cluster |-> [i \in {} |-> 0], num_instr |-> 0]

\* timbreID_read() of a file of n examples: each is a cluster of its own.  A file that cannot
\* be opened leaves the object cleared.
Read(n) == [cluster |-> [i \in 0..(n - 1) |-> i], num_instr |-> n]

\* timbreID_manual_cluster(): examples low..hi become cluster c of num_instr.
ManualCluster(db, num_instr, c, low, hi) ==
    IF \E n \in 0..(num_instr - 1) : n \notin DOMAIN db.cluster THEN db
    ELSE [cluster |-> [i \in DOMAIN db.cluster |-> IF i \in low..hi THEN c ELSE db.cluster[i]],
          num_instr |-> num_instr]

\* The first of the examples at the least distance.
Nearest(dist) ==
    CHOOSE i \in DOMAIN dist :
        \A j \in DOMAIN dist : dist[i] < dist[j] \/ (dist[i] = dist[j] /\ i <= j)

\* timbreID_sort_knn_info() for k = 1 exchanges the nearest example with the first of the list.
Sorted(dist) ==
    [dist EXCEPT ![0] = dist[Nearest(dist)], ![Nearest(dist)] = dist[0]]

\* The one vote, for cluster c.  The clusters of the patch are 1 and 2, the array votes has
\* places 0 and 1: a vote for 2 is written behind it, into the slack of the allocation, and is not
\* counted.
Votes(num_instr, c) == [v \in 0..(num_instr - 1) |-> IF v = c THEN 1 ELSE 0]

\* The cluster with most votes, or that of the nearest example if it has at most half of them.
Winner(votes, c) ==
    LET top == CHOOSE v \in DOMAIN votes :
                  \A w \in DOMAIN votes : votes[v] > votes[w] \/ (votes[v] = votes[w] /\ v <= w)
    IN  IF 2 * votes[top] <= 1 THEN c ELSE top

\* 1 - best / second_best in tenths, where the second best is what the sort has left in the
\* second place of the list.
Confidence(sorted) ==
    IF sorted[1] <= 0 THEN 0 ELSE (10 * (sorted[1] - sorted[0])) \div sorted[1]

\* timbreID_id() on a database that is not empty.
Identify(db, dist) ==
    LET c == db.cluster[Nearest(dist)]
    IN  [confidence |-> Confidence(Sorted(dist)), id |-> Winner(Votes(db.num_instr, c), c)]
=============================================================================
