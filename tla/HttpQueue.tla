------------------------------ MODULE HttpQueue ------------------------------
(***************************************************************************)
(* ofxHttpUtils: a std::queue of forms, the lock of ofThread around each   *)
(* use of it, and the worker that posts the forms.  TagPipeline takes a    *)
(* POST and the pop that follows it as one step; here every lock, unlock   *)
(* and use of the queue is a step, and the queue is shown to implement     *)
(* FormChannel.                                                            *)
(*                                                                         *)
(* std::queue is not thread-safe: push() and pop() read the state of the   *)
(* container and write it back later, in two steps.                        *)
(***************************************************************************)
EXTENDS Naturals, Sequences

CONSTANTS
    Callers,    \* threads that call addForm(): the main thread and the audio thread
    MaxAdds     \* bound: calls of addForm() per thread

Worker == "http"
Nobody == "nobody"
Threads == Callers \cup {Worker}

ASSUME QueueAssumption == Worker \notin Callers /\ Nobody \notin Threads /\ MaxAdds \in Nat

VARIABLES
    forms,      \* the queue
    holder,     \* who holds the lock
    seen,       \* [thread -> the state of the queue its push() or pop() started from]
    pc,         \* [caller -> where it is in addForm()]
    count,      \* [caller -> its calls of addForm() that have returned]
    worker,     \* where the worker is in threadedFunction()
    front,      \* the worker's copy of forms.front()
    posted      \* the server: forms it got, in order

callers == <<pc, count>>
vars == <<forms, holder, seen, callers, worker, front, posted>>

\* A form is known by the call that added it.
Form == Callers \X (1..MaxAdds)
NoForm == <<Nobody, 0>>
FormOf(c) == <<c, count[c] + 1>>

Init ==
    /\ forms = <<>> /\ holder = Nobody
    /\ seen = [t \in Threads |-> <<>>]
    /\ pc = [c \in Callers |-> "idle"] /\ count = [c \in Callers |-> 0]
    /\ worker = "lock" /\ front = NoForm
    /\ posted = <<>>

Lock(t) == holder = Nobody /\ holder' = t
Unlock  == holder' = Nobody

-----------------------------------------------------------------------------
(* addForm() *)

AddCall(c) ==
    /\ pc[c] = "idle" /\ count[c] < MaxAdds
    /\ pc' = [pc EXCEPT ![c] = "lock"]
    /\ UNCHANGED <<forms, holder, seen, count, worker, front, posted>>

\* Mutant of AddLock: addForm() does not take the lock.
AddLockFree(c) ==
    /\ pc[c] = "lock"
    /\ pc' = [pc EXCEPT ![c] = "push"]
    /\ UNCHANGED <<forms, holder, seen, count, worker, front, posted>>

AddLock(c) ==
    /\ pc[c] = "lock" /\ Lock(c)
    /\ pc' = [pc EXCEPT ![c] = "push"]
    /\ UNCHANGED <<forms, seen, count, worker, front, posted>>

\* forms.push(form): reads the container ...
AddRead(c) ==
    /\ pc[c] = "push"
    /\ seen' = [seen EXCEPT ![c] = forms]
    /\ pc' = [pc EXCEPT ![c] = "write"]
    /\ UNCHANGED <<forms, holder, count, worker, front, posted>>

\* ... and writes it.
AddWrite(c) ==
    /\ pc[c] = "write"
    /\ forms' = Append(seen[c], FormOf(c))
    /\ pc' = [pc EXCEPT ![c] = "unlock"]
    /\ UNCHANGED <<holder, seen, count, worker, front, posted>>

AddUnlock(c) ==
    /\ pc[c] = "unlock" /\ Unlock
    /\ pc' = [pc EXCEPT ![c] = "idle"]
    /\ count' = [count EXCEPT ![c] = @ + 1]
    /\ UNCHANGED <<forms, seen, worker, front, posted>>

Add(c) ==
    AddCall(c) \/ AddLock(c) \/ AddRead(c) \/ AddWrite(c) \/ AddUnlock(c)

-----------------------------------------------------------------------------
(* threadedFunction() *)

WorkLock ==
    /\ worker = "lock" /\ Lock(Worker)
    /\ worker' = "test"
    /\ UNCHANGED <<forms, seen, callers, front, posted>>

\* Mutant of SomeForm: off by one.
SomeFormButOne == Len(forms) > 1

\* forms.size() > 0
SomeForm == forms # <<>>

\* A form waits: it is copied, and the lock released before the POST.
WorkTake ==
    /\ worker = "test" /\ SomeForm
    /\ front' = Head(forms)
    /\ Unlock
    /\ worker' = "post"
    /\ UNCHANGED <<forms, seen, callers, posted>>

\* Mutant of WorkEmpty: the worker waits for a form without releasing the lock.
WorkEmptyLocked ==
    /\ worker = "test" /\ ~SomeForm
    /\ UNCHANGED vars

\* None waits: release, sleep and test again.
WorkEmpty ==
    /\ worker = "test" /\ ~SomeForm
    /\ Unlock
    /\ worker' = "lock"
    /\ UNCHANGED <<forms, seen, callers, front, posted>>

\* doPostForm() reached the script, whether or not the answer arrives.
Post ==
    /\ worker = "post"
    /\ posted' = Append(posted, front)
    /\ worker' = "relock"
    /\ UNCHANGED <<forms, holder, seen, callers, front>>

\* Mutant of PostFails: a form whose answer is lost is posted again.
PostFailsRetry ==
    /\ worker = "post"
    /\ posted' = Append(posted, front)
    /\ UNCHANGED <<forms, holder, seen, callers, worker, front>>

\* doPostForm() catches an exception raised before the script ran.
PostFails ==
    /\ worker = "post"
    /\ worker' = "relock"
    /\ UNCHANGED <<forms, holder, seen, callers, front, posted>>

WorkRelock ==
    /\ worker = "relock" /\ Lock(Worker)
    /\ worker' = "pop"
    /\ UNCHANGED <<forms, seen, callers, front, posted>>

\* forms.pop(), in two steps like push().
WorkRead ==
    /\ worker = "pop"
    /\ seen' = [seen EXCEPT ![Worker] = forms]
    /\ worker' = "write"
    /\ UNCHANGED <<forms, holder, callers, front, posted>>

WorkWrite ==
    /\ worker = "write"
    /\ forms' = Tail(seen[Worker])
    /\ worker' = "unlock"
    /\ UNCHANGED <<holder, seen, callers, front, posted>>

\* Mutant of WorkUnlock: the thread ends after its first form.
WorkUnlockEnd ==
    /\ worker = "unlock" /\ Unlock
    /\ worker' = "ended"
    /\ UNCHANGED <<forms, seen, callers, front, posted>>

WorkUnlock ==
    /\ worker = "unlock" /\ Unlock
    /\ worker' = "lock"
    /\ UNCHANGED <<forms, seen, callers, front, posted>>

DoPost == Post \/ PostFails

Work == WorkLock \/ WorkTake \/ WorkEmpty \/ WorkRelock \/ WorkRead \/ WorkWrite \/ WorkUnlock

Next == DoPost \/ Work \/ \E c \in Callers : Add(c)

Spec == Init /\ [][Next]_vars

\* A thread that runs goes on.  The lock is handed to everyone who keeps asking: the worker
\* releases it once per round and sleeps 10 ms.  Nothing is said of the network.
Fairness ==
    /\ \A c \in Callers :
        /\ SF_vars(AddLock(c))
        /\ WF_vars(AddRead(c)) /\ WF_vars(AddWrite(c)) /\ WF_vars(AddUnlock(c))
    /\ SF_vars(WorkLock) /\ SF_vars(WorkRelock)
    /\ WF_vars(WorkTake) /\ WF_vars(WorkEmpty)
    /\ WF_vars(WorkRead) /\ WF_vars(WorkWrite) /\ WF_vars(WorkUnlock)

FairSpec == Spec /\ Fairness

-----------------------------------------------------------------------------
TypeOK ==
    /\ forms \in Seq(Form) /\ posted \in Seq(Form)
    /\ holder \in Threads \cup {Nobody}
    /\ seen \in [Threads -> Seq(Form)]
    /\ pc \in [Callers -> {"idle", "lock", "push", "write", "unlock"}]
    /\ count \in [Callers -> 0..MaxAdds]
    /\ worker \in {"lock", "test", "post", "relock", "pop", "write", "unlock"}
    /\ front \in Form \cup {NoForm}

\* Inside a section the lock protects.
Inside(t) ==
    IF t = Worker THEN worker \in {"test", "pop", "write", "unlock"}
    ELSE pc[t] \in {"push", "write", "unlock"}

\* Two threads are never inside at once, so a push() or pop() in progress writes back to the
\* queue it has read, and the form about to be popped is the one that was posted.
\* (ofxHttpUtils::addForm, threadedFunction)
Protected ==
    /\ \A t \in Threads : Inside(t) <=> holder = t
    /\ \A c \in Callers : pc[c] = "write" => seen[c] = forms
    /\ worker = "write" => seen[Worker] = forms
    /\ worker \in {"post", "relock", "pop", "write"} => forms # <<>> /\ front = Head(forms)

\* The form in front has been dealt with and is not popped yet.
Handled == worker \in {"relock", "pop", "write"}

Waiting == IF Handled THEN Tail(forms) ELSE forms

Channel == INSTANCE FormChannel WITH waiting <- Waiting

\* The queue with its lock implements the channel: nothing is lost, repeated or overtaken
\* between addForm() and the POST.  (ofxHttpUtils::threadedFunction)
ImplementsChannel == Channel!Spec

\* If POSTs end, one way or the other, no form waits for ever.
\* (ofxHttpUtils::threadedFunction)
PostsServeChannel == WF_vars(DoPost) => Channel!Live

\* addForm() returns, on the audio thread as well, even while a POST never ends.
\* (ofxHttpUtils::addForm, threadedFunction: the lock is released around doPostForm())
AddReturns == \A c \in Callers : pc[c] = "lock" ~> pc[c] = "idle"
=============================================================================
