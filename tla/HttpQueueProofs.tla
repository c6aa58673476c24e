--------------------------- MODULE HttpQueueProofs ---------------------------
(***************************************************************************)
(* The lock protects the queue, and the queue with its lock implements     *)
(* FormChannel, for any set of callers and any number of calls.            *)
(***************************************************************************)
EXTENDS HttpQueue, TLAPS

\* A call in progress is one of the MaxAdds calls of its thread.
InBounds == \A c \in Callers : pc[c] # "idle" => count[c] < MaxAdds

QueueInv == TypeOK /\ InBounds /\ Protected

\* What appending to and taking from a sequence of forms gives.
LEMMA AppendFacts ==
    ASSUME NEW S, NEW s \in Seq(S), NEW e \in S
    PROVE  /\ Append(s, e) \in Seq(S) /\ Append(s, e) # <<>>
           /\ s # <<>> => /\ Head(Append(s, e)) = Head(s)
                          /\ Tail(Append(s, e)) = Append(Tail(s), e)
  OBVIOUS

\* What taking the head off a sequence of forms gives.
LEMMA TailFacts ==
    ASSUME NEW S, NEW s \in Seq(S), s # <<>>
    PROVE  Head(s) \in S /\ Tail(s) \in Seq(S)
  OBVIOUS

\* The form of a call in progress is a form.
LEMMA FormOfCall ==
    ASSUME TypeOK, InBounds, NEW c \in Callers, pc[c] # "idle"
    PROVE  FormOf(c) \in Form
  <1>1. count[c] \in 0..MaxAdds /\ count[c] < MaxAdds
    BY DEF TypeOK, InBounds
  <1>2. count[c] + 1 \in 1..MaxAdds
    BY <1>1, QueueAssumption
  <1> QED  BY <1>2 DEF FormOf, Form

\* The queue starts empty and unlocked, with nobody inside.
LEMMA InitInv == Init => QueueInv
  <1> SUFFICES ASSUME Init PROVE QueueInv
    OBVIOUS
  <1> USE QueueAssumption
  <1>1. TypeOK
    BY DEF Init, TypeOK, Threads
  <1>2. InBounds
    BY DEF Init, InBounds
  <1>3. Protected
    BY DEF Init, Protected, Inside, Threads, Worker, Nobody
  <1> QED  BY <1>1, <1>2, <1>3 DEF QueueInv

\* A step of addForm() keeps the invariant: its thread enters when nobody is inside, and writes
\* back what it has read.
LEMMA AddKeepsInv ==
    ASSUME QueueInv, NEW c \in Callers, Add(c)
    PROVE  QueueInv'
  <1> USE QueueAssumption DEF QueueInv
  <1>0. c \in Threads /\ c # Worker /\ c # Nobody
    BY DEF Threads
  <1>1. CASE AddCall(c)
    <2>1. TypeOK'     BY <1>1 DEF AddCall, TypeOK
    <2>2. InBounds'   BY <1>1 DEF AddCall, TypeOK, InBounds
    <2>3. Protected'  BY <1>0, <1>1 DEF AddCall, TypeOK, Protected, Inside, Threads
    <2> QED  BY <2>1, <2>2, <2>3
  <1>2. CASE AddLock(c)
    <2>1. TypeOK'     BY <1>0, <1>2 DEF AddLock, Lock, TypeOK
    <2>2. InBounds'   BY <1>2 DEF AddLock, TypeOK, InBounds
    <2>3. Protected'  BY <1>0, <1>2 DEF AddLock, Lock, TypeOK, Protected, Inside, Threads
    <2> QED  BY <2>1, <2>2, <2>3
  <1>3. CASE AddRead(c)
    <2>1. TypeOK'     BY <1>0, <1>3 DEF AddRead, TypeOK
    <2>2. InBounds'   BY <1>3 DEF AddRead, TypeOK, InBounds
    <2>3. Protected'  BY <1>0, <1>3 DEF AddRead, TypeOK, Protected, Inside, Threads
    <2> QED  BY <2>1, <2>2, <2>3
  <1>4. CASE AddWrite(c)
    <2>1. seen[c] = forms /\ Inside(c) /\ holder = c
      BY <1>0, <1>4 DEF AddWrite, Protected, Inside
    <2>2. FormOf(c) \in Form
      BY <1>4, FormOfCall DEF AddWrite
    <2>3. /\ forms' \in Seq(Form) /\ forms' # <<>>
          /\ forms # <<>> => Head(forms') = Head(forms)
      <3>1. forms' = Append(forms, FormOf(c)) /\ forms \in Seq(Form)
        BY <1>4, <2>1 DEF AddWrite, TypeOK
      <3> QED  BY <3>1, <2>2, AppendFacts
    <2>4. TypeOK'     BY <1>4, <2>3 DEF AddWrite, TypeOK
    <2>5. InBounds'   BY <1>4 DEF AddWrite, TypeOK, InBounds
    <2>6. \A t \in Threads : Inside(t)' <=> holder' = t
      BY <1>0, <1>4 DEF AddWrite, TypeOK, Protected, Inside, Threads
    <2>7. \A d \in Callers : d # c => pc[d] # "write"
      BY <2>1, <1>0 DEF Protected, Inside, Threads
    <2>8. worker # "write" /\ worker # "pop"
      BY <2>1, <1>0 DEF Protected, Inside, Threads
    <2>9. Protected'
      BY <1>4, <2>3, <2>6, <2>7, <2>8 DEF AddWrite, TypeOK, Protected
    <2> QED  BY <2>4, <2>5, <2>9
  <1>5. CASE AddUnlock(c)
    <2>1. count[c] + 1 \in 0..MaxAdds
      <3>1. count[c] \in 0..MaxAdds /\ count[c] < MaxAdds
        BY <1>5 DEF AddUnlock, TypeOK, InBounds
      <3> QED  BY <3>1
    <2>2. TypeOK'     BY <1>5, <2>1 DEF AddUnlock, Unlock, TypeOK
    <2>3. InBounds'   BY <1>5 DEF AddUnlock, TypeOK, InBounds
    <2>4. Protected'
      BY <1>0, <1>5 DEF AddUnlock, Unlock, TypeOK, Protected, Inside, Threads
    <2> QED  BY <2>2, <2>3, <2>4
  <1> QED  BY <1>1, <1>2, <1>3, <1>4, <1>5 DEF Add

\* A step of threadedFunction() keeps it.
LEMMA WorkKeepsInv ==
    ASSUME QueueInv, DoPost \/ Work
    PROVE  QueueInv'
  <1> USE QueueAssumption DEF QueueInv
  <1>0. Worker \in Threads /\ Worker # Nobody /\ \A c \in Callers : c # Worker
    BY DEF Threads
  <1>1. CASE WorkLock
    BY <1>0, <1>1 DEF WorkLock, Lock, callers, TypeOK, InBounds, Protected, Inside, Threads
  <1>2. CASE WorkTake
    <2>1. Head(forms) \in Form
      BY <1>2, TailFacts DEF WorkTake, SomeForm, TypeOK
    <2>2. TypeOK' /\ InBounds'
      BY <1>2, <2>1 DEF WorkTake, Unlock, callers, TypeOK, InBounds
    <2>3. Protected'
      BY <1>0, <1>2 DEF WorkTake, SomeForm, Unlock, callers, TypeOK, Protected, Inside, Threads
    <2> QED  BY <2>2, <2>3
  <1>3. CASE WorkEmpty
    BY <1>0, <1>3 DEF WorkEmpty, Unlock, callers, TypeOK, InBounds, Protected, Inside, Threads
  <1>4. CASE Post
    <2>1. front \in Form
      BY <1>4, TailFacts DEF Post, Protected, TypeOK
    <2>2. posted' \in Seq(Form)
      BY <1>4, <2>1, AppendFacts DEF Post, TypeOK
    <2> QED
      BY <1>4, <2>2 DEF Post, callers, TypeOK, InBounds, Protected, Inside
  <1>5. CASE PostFails
    BY <1>5 DEF PostFails, callers, TypeOK, InBounds, Protected, Inside
  <1>6. CASE WorkRelock
    BY <1>0, <1>6 DEF WorkRelock, Lock, callers, TypeOK, InBounds, Protected, Inside, Threads
  <1>7. CASE WorkRead
    BY <1>0, <1>7 DEF WorkRead, callers, TypeOK, InBounds, Protected, Inside, Threads
  <1>8. CASE WorkWrite
    <2>1. forms' = Tail(forms) /\ forms' \in Seq(Form)
      BY <1>8, TailFacts DEF WorkWrite, Protected, TypeOK
    <2>2. \A c \in Callers : pc[c] # "write"
      BY <1>0, <1>8 DEF WorkWrite, Protected, Inside, Threads
    <2> QED
      BY <1>8, <2>1, <2>2 DEF WorkWrite, callers, TypeOK, InBounds, Protected, Inside
  <1>9. CASE WorkUnlock
    BY <1>0, <1>9 DEF WorkUnlock, Unlock, callers, TypeOK, InBounds, Protected, Inside, Threads
  <1> QED
    BY <1>1, <1>2, <1>3, <1>4, <1>5, <1>6, <1>7, <1>8, <1>9 DEF DoPost, Work

\* The invariant holds of every reachable state.
LEMMA InvAlways == Spec => []QueueInv
  <1>1. QueueInv /\ [Next]_vars => QueueInv'
    <2> SUFFICES ASSUME QueueInv, [Next]_vars PROVE QueueInv'
      OBVIOUS
    <2>1. CASE Next
      BY <2>1, AddKeepsInv, WorkKeepsInv DEF Next
    <2>2. CASE UNCHANGED vars
      BY <2>2 DEF vars, callers, QueueInv, TypeOK, InBounds, Protected, Inside
    <2> QED  BY <2>1, <2>2
  <1> QED  BY <1>1, InitInv, PTL DEF Spec

\* The variables keep their types.  (ofxHttpUtils)
THEOREM QueueTypeCorrect == Spec => []TypeOK
  <1>1. QueueInv => TypeOK
    BY DEF QueueInv
  <1> QED  BY <1>1, InvAlways, PTL

\* No two threads are ever inside the sections the lock protects, and the form that is popped is
\* the one that was posted.  (ofxHttpUtils::addForm, threadedFunction)
THEOREM QueueProtected == Spec => []Protected
  <1>1. QueueInv => Protected
    BY DEF QueueInv
  <1> QED  BY <1>1, InvAlways, PTL

-----------------------------------------------------------------------------
\* A step that keeps the queue, keeps what is posted and keeps on its side of the POST is a
\* stutter of the channel.
LEMMA Stutter ==
    ASSUME forms' = forms, posted' = posted, Handled' <=> Handled
    PROVE  UNCHANGED Channel!vars
  BY DEF Channel!vars, Waiting

\* A step of addForm() is a stutter of the channel, but for the write, which accepts the form.
LEMMA AddImplements ==
    ASSUME QueueInv, NEW c \in Callers, Add(c)
    PROVE  [Channel!Next]_Channel!vars
  <1> USE DEF QueueInv
  <1>1. CASE AddWrite(c)
    <2>1. seen[c] = forms /\ FormOf(c) \in Form
      BY <1>1, FormOfCall DEF AddWrite, Protected
    <2>2. forms' = Append(forms, FormOf(c)) /\ posted' = posted /\ (Handled' <=> Handled)
      BY <1>1, <2>1 DEF AddWrite, Handled
    <2>3. Handled => forms # <<>>
      BY DEF Handled, Protected
    <2>4. Waiting' = Append(Waiting, FormOf(c))
      <3>1. CASE Handled
        BY <3>1, <2>1, <2>2, <2>3, AppendFacts DEF Waiting, TypeOK
      <3>2. CASE ~Handled
        BY <3>2, <2>2 DEF Waiting
      <3> QED  BY <3>1, <3>2
    <2> QED  BY <2>1, <2>2, <2>4 DEF Channel!Next, Channel!Accept
  <1>2. CASE AddCall(c) \/ AddLock(c) \/ AddRead(c) \/ AddUnlock(c)
    BY <1>2, Stutter DEF AddCall, AddLock, AddRead, AddUnlock, Handled
  <1> QED  BY <1>1, <1>2 DEF Add

\* A step of the worker is a stutter of the channel, but for the POST, which delivers or loses
\* the form in front.
LEMMA WorkImplements ==
    ASSUME QueueInv, DoPost \/ Work
    PROVE  [Channel!Next]_Channel!vars
  <1> USE DEF QueueInv
  <1>1. CASE Post
    <2>1. /\ Waiting = forms /\ Waiting' = Tail(forms)
          /\ forms # <<>> /\ posted' = Append(posted, Head(forms))
      BY <1>1 DEF Post, Waiting, Handled, Protected
    <2> QED  BY <2>1 DEF Channel!Next, Channel!Deliver
  <1>2. CASE PostFails
    <2>1. /\ Waiting = forms /\ Waiting' = Tail(forms)
          /\ forms # <<>> /\ posted' = posted
      BY <1>2 DEF PostFails, Waiting, Handled, Protected
    <2> QED  BY <2>1 DEF Channel!Next, Channel!Lose
  <1>3. CASE WorkWrite
    <2>1. Waiting = Tail(forms) /\ Waiting' = Tail(forms) /\ posted' = posted
      BY <1>3 DEF WorkWrite, Waiting, Handled, Protected
    <2> QED  BY <2>1 DEF Channel!vars
  <1>4. CASE WorkLock \/ WorkTake \/ WorkEmpty \/ WorkRelock \/ WorkRead \/ WorkUnlock
    BY <1>4, Stutter
       DEF WorkLock, WorkTake, WorkEmpty, WorkRelock, WorkRead, WorkUnlock, Handled
  <1> QED  BY <1>1, <1>2, <1>3, <1>4 DEF DoPost, Work

\* Between addForm() and the POST no form is lost, repeated or overtaken.
\* (ofxHttpUtils::addForm, threadedFunction)
THEOREM QueueImplementsChannel == Spec => ImplementsChannel
  <1>1. Init => Channel!Init
    BY DEF Init, Channel!Init, Waiting, Handled
  <1>2. QueueInv /\ [Next]_vars => [Channel!Next]_Channel!vars
    <2> SUFFICES ASSUME QueueInv, [Next]_vars PROVE [Channel!Next]_Channel!vars
      OBVIOUS
    <2>1. CASE Next
      BY <2>1, AddImplements, WorkImplements DEF Next
    <2>2. CASE UNCHANGED vars
      BY <2>2, Stutter DEF vars, Handled
    <2> QED  BY <2>1, <2>2
  <1> QED  BY <1>1, <1>2, InvAlways, PTL DEF Spec, Channel!Spec, ImplementsChannel
=============================================================================
