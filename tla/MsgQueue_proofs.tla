-------------------------- MODULE MsgQueue_proofs --------------------------
(* For any number of threads and coroutines: no coroutine is resumed while it *)
(* runs, none is resumed twice for one suspension, and none gets a message    *)
(* twice.  For one thread, and any number of coroutines and messages: the     *)
(* queue implements the first-in first-out queue of module Fifo, and its      *)
(* destructor tells everybody.                                                *)
EXTENDS MsgQueue, TLAPS

\* TypeOK without the histories, which no proof here needs.
CoreType ==
  /\ callbacks \subseteq Consumers
  /\ phase \in [Threads -> {"idle", "swap", "call"}]
  /\ todo \in [Threads -> SUBSET Consumers]
  /\ running \in [Threads -> Consumers \cup {None}]
  /\ where \in [Consumers -> {"away", "running", "parking", "parked"}]

ResumeInv == CoreType /\ ResumeOnce

LEMMA ResumeInit == Init => ResumeInv
  BY ConstantsAssumption DEF Init, ResumeInv, CoreType, ResumeOnce

\* One step per action; those of push and pop leave the lists of waiters and
\* the stacks alone.
LEMMA ResumeStep == ResumeInv /\ [Next]_vars => ResumeInv'
<1> SUFFICES ASSUME ResumeInv, [Next]_vars PROVE ResumeInv'
  OBVIOUS
<1> USE ConstantsAssumption DEF ResumeInv, CoreType, ResumeOnce
<1>1. ASSUME NEW t \in Threads,
             PushEnqueue(t) \/ PushBroadcast(t) \/ Destroy(t) \/ Return(t)
      PROVE ResumeInv'
  BY <1>1 DEF PushEnqueue, PushBroadcast, Destroy, Return, shared, threadVars
<1>2. ASSUME NEW t \in Threads, Swap(t) PROVE ResumeInv'
  BY <1>2 DEF Swap
<1>3. ASSUME NEW t \in Threads, NEW c \in Consumers, Call(t, c)
      PROVE ResumeInv'
  <2>1. \A u \in Threads : running[u] # c
    BY <1>3 DEF Call
  <2>2. CoreType'
    BY <1>3 DEF Call, shared
  <2> QED BY <1>3, <2>1, <2>2 DEF Call, shared
<1>4. ASSUME NEW t \in Threads, NEW c \in Consumers, Resume(t, c) \/ Leave(t, c)
      PROVE ResumeInv'
  BY <1>4 DEF Resume, Leave, Free, shared
<1>5. ASSUME NEW t \in Threads, NEW c \in Consumers,
             PopReady(t, c) \/ PopEmpty(t, c)
      PROVE ResumeInv'
  BY <1>5 DEF PopReady, PopEmpty, shared, threadVars
<1>6. ASSUME NEW t \in Threads, NEW c \in Consumers, Park(t, c)
      PROVE ResumeInv'
  BY <1>6 DEF Park
<1>7. CASE UNCHANGED vars
  BY <1>7 DEF vars
<1> QED BY <1>1, <1>2, <1>3, <1>4, <1>5, <1>6, <1>7 DEF Next

\* Every callback list entry stands for a coroutine that is suspended on this
\* queue, once (MessageQueue::broadcast_clear and add_awaiter).
THEOREM ResumedAtMostOnce == Spec => []ResumeOnce
<1>1. Spec => []ResumeInv
  BY ResumeInit, ResumeStep, PTL DEF Spec
<1> QED BY <1>1, PTL DEF ResumeInv

----------------------------------------------------------------------------
(* One thread: the queue is a Fifo. *)

LEMMA TypeInit == Init => TypeOK
  BY ConstantsAssumption DEF Init, TypeOK, Messages, Default

\* One step per action: those that move messages first.
LEMMA TypeStep == TypeOK /\ [Next]_vars => TypeOK'
<1> SUFFICES ASSUME TypeOK, [Next]_vars PROVE TypeOK'
  OBVIOUS
<1> USE ConstantsAssumption DEF TypeOK, Messages, Default
<1>1. ASSUME NEW t \in Threads, PushEnqueue(t) PROVE TypeOK'
  <2>1. sent + 1 \in 1 .. MaxPush
    BY <1>1 DEF PushEnqueue
  <2> QED BY <1>1, <2>1 DEF PushEnqueue, threadVars
<1>2. ASSUME NEW t \in Threads, PushBroadcast(t) PROVE TypeOK'
  <2>1. sent + 1 \in 0 .. MaxPush
    BY <1>2 DEF PushBroadcast
  <2>2. msg' \in [Threads -> 0 .. MaxPush] /\ sent' \in 0 .. MaxPush
    BY <1>2, <2>1 DEF PushBroadcast
  <2>3. phase' \in [Threads -> {"idle", "swap", "call"}]
    BY <1>2 DEF PushBroadcast
  <2> QED BY <1>2, <2>2, <2>3 DEF PushBroadcast
<1>8. ASSUME NEW t \in Threads, Destroy(t) PROVE TypeOK'
  <2>1. msg' \in [Threads -> 0 .. MaxPush]
    BY <1>8 DEF Destroy
  <2>2. phase' \in [Threads -> {"idle", "swap", "call"}]
    BY <1>8 DEF Destroy
  <2> QED BY <1>8, <2>1, <2>2 DEF Destroy, shared
<1>3. ASSUME NEW t \in Threads, Swap(t) \/ Return(t) PROVE TypeOK'
  BY <1>3 DEF Swap, Return
<1>4. ASSUME NEW t \in Threads, NEW c \in Consumers, Call(t, c) PROVE TypeOK'
  <2>1. Append(got[c], msg[t]) \in Seq(0 .. MaxPush)
    OBVIOUS
  <2> QED BY <1>4, <2>1 DEF Call, shared
<1>5. ASSUME NEW t \in Threads, NEW c \in Consumers,
             Resume(t, c) \/ Leave(t, c) \/ PopEmpty(t, c) \/ Park(t, c)
      PROVE TypeOK'
  <2>1. CASE Resume(t, c)
    BY <2>1 DEF Resume, shared
  <2>2. CASE Leave(t, c)
    BY <2>2 DEF Leave, shared
  <2>3. CASE PopEmpty(t, c)
    BY <2>3 DEF PopEmpty, shared, threadVars
  <2>4. CASE Park(t, c)
    BY <2>4 DEF Park
  <2> QED BY <1>5, <2>1, <2>2, <2>3, <2>4
<1>6. ASSUME NEW t \in Threads, NEW c \in Consumers, PopReady(t, c)
      PROVE TypeOK'
  <2>1. Head(queue) \in 0 .. MaxPush /\ Tail(queue) \in Seq(1 .. MaxPush)
    BY <1>6 DEF PopReady
  <2>2. Append(got[c], Head(queue)) \in Seq(0 .. MaxPush)
    BY <2>1
  <2> QED BY <1>6, <2>1, <2>2 DEF PopReady, threadVars
<1>7. CASE UNCHANGED vars
  BY <1>7 DEF vars
<1> QED BY <1>1, <1>2, <1>3, <1>4, <1>5, <1>6, <1>7, <1>8 DEF Next

\* Whatever the threads do, every variable of the queue stays in its type.
THEOREM TypesHold == Spec => []TypeOK
  BY TypeInit, TypeStep, PTL DEF Spec

\* What one thread's stack says of the rest.  Between the two critical sections
\* of a push nothing runs and somebody waits; whoever runs is in no list; a
\* coroutine that found the queue empty parks before anyone can push.
StackInv ==
  /\ \A t \in Threads :
       /\ phase[t] = "swap" => running[t] = None /\ alive
       /\ phase[t] = "swap" /\ msg[t] # Default => callbacks # {}
       /\ phase[t] # "call" => todo[t] = {}
       /\ \A c \in todo[t] : where[c] = "parked" /\ c \notin callbacks
       /\ \A c \in Consumers : where[c] = "parking" => running[t] = c
  /\ \A c \in callbacks : where[c] = "parked"
  /\ \A c \in Consumers : where[c] = "parking" => queue = <<>>
  /\ NoStranding

FifoInv == TypeOK /\ StackInv

LEMMA FifoInit == Init => FifoInv
  BY TypeInit DEF Init, FifoInv, StackInv, NoStranding

LEMMA FifoStep ==
  ASSUME NEW one \in Threads, Threads = {one}
  PROVE  FifoInv /\ [Next]_vars => FifoInv'
<1> SUFFICES ASSUME FifoInv, [Next]_vars PROVE StackInv'
  BY TypeStep DEF FifoInv
<1> USE ConstantsAssumption DEF FifoInv, StackInv, NoStranding, TypeOK
<1>1. ASSUME NEW t \in Threads,
             PushEnqueue(t) \/ PushBroadcast(t) \/ Destroy(t)
      PROVE StackInv'
  BY <1>1 DEF PushEnqueue, PushBroadcast, Destroy, Free, Busy, shared, threadVars
<1>2. ASSUME NEW t \in Threads, Swap(t) \/ Return(t) PROVE StackInv'
  BY <1>2 DEF Swap, Return
<1>3. ASSUME NEW t \in Threads, NEW c \in Consumers,
             Call(t, c) \/ Resume(t, c) \/ Leave(t, c)
      PROVE StackInv'
  <2>1. t = one
    OBVIOUS
  <2>2. CASE Call(t, c)
    BY <2>1, <2>2 DEF Call, shared
  <2>3. CASE Resume(t, c)
    BY <2>1, <2>3 DEF Resume, Free, shared
  <2>4. CASE Leave(t, c)
    BY <2>1, <2>4 DEF Leave, shared
  <2> QED BY <1>3, <2>2, <2>3, <2>4
<1>4. ASSUME NEW t \in Threads, NEW c \in Consumers,
             PopReady(t, c) \/ PopEmpty(t, c) \/ Park(t, c)
      PROVE StackInv'
  <2>1. t = one
    OBVIOUS
  <2>2. CASE PopReady(t, c)
    BY <2>1, <2>2 DEF PopReady, threadVars
  <2>3. CASE PopEmpty(t, c)
    BY <2>1, <2>3 DEF PopEmpty, shared, threadVars
  <2>4. CASE Park(t, c)
    BY <2>1, <2>4 DEF Park
  <2> QED BY <1>4, <2>2, <2>3, <2>4
<1>5. CASE UNCHANGED vars
  BY <1>5 DEF vars
<1> QED BY <1>1, <1>2, <1>3, <1>4, <1>5 DEF Next

\* On one thread nobody waits while there is something to take
\* (MessageQueueAwaiter::await_ready and await_suspend).
THEOREM NobodyStranded ==
  ASSUME NEW one \in Threads, Threads = {one}
  PROVE  Spec => []NoStranding
<1>1. FifoInv => NoStranding
  BY DEF FifoInv, StackInv
<1> QED BY <1>1, FifoInit, FifoStep, PTL DEF Spec

-----------------------------------------------------------------------------
\* The refinement.  With one thread, what it still has to hand out is read off
\* its own phase.
Mapped(one) ==
  /\ Pending = IF phase[one] = "swap" /\ msg[one] # Default
               THEN <<msg[one]>> \o queue ELSE queue
  /\ Taken = [c \in Consumers |-> IF phase[one] = "call" /\ c \in todo[one]
                                  THEN Append(got[c], msg[one]) ELSE got[c]]
  /\ Closed = (~alive \/ (phase[one] = "call" /\ msg[one] = Default))

LEMMA MappedState ==
  ASSUME NEW one \in Threads, Threads = {one}
  PROVE  Mapped(one)
<1>1. Unsent = IF phase[one] = "swap" /\ msg[one] # Default THEN {one} ELSE {}
  BY DEF Unsent
<1>2. (CHOOSE t \in {one} : TRUE) = one
  OBVIOUS
<1>3. \A c \in Consumers : Calling(c) = IF phase[one] = "call" /\ c \in todo[one]
                                        THEN {one} ELSE {}
  BY DEF Calling
<1>4. \A c \in Consumers :
        Taken[c] = IF phase[one] = "call" /\ c \in todo[one]
                   THEN Append(got[c], msg[one]) ELSE got[c]
  BY <1>2, <1>3 DEF Taken
<1>5. Taken = [c \in Consumers |-> Taken[c]]
  BY DEF Taken
<1> QED BY <1>1, <1>2, <1>4, <1>5 DEF Mapped, Pending, Closed

LEMMA MappedNext ==
  ASSUME NEW one \in Threads, Threads = {one}
  PROVE  Mapped(one)'
<1>1. Mapped(one)
  BY MappedState
<1> QED BY <1>1, PTL

LEMMA FifoRefinesInit ==
  ASSUME NEW one \in Threads, Threads = {one}
  PROVE  Init => AbstractQueue!Init
BY MappedState DEF Mapped, Init, AbstractQueue!Init

\* Every step hands out the oldest message, announces the end, takes a message
\* in, or changes nothing of the abstract queue.
LEMMA FifoRefinesStep ==
  ASSUME NEW one \in Threads, Threads = {one}
  PROVE  FifoInv /\ [Next]_vars
           => [AbstractQueue!Next]_(AbstractQueue!fifoVars)
<1> SUFFICES ASSUME FifoInv, [Next]_vars
             PROVE  [AbstractQueue!Next]_(AbstractQueue!fifoVars)
  OBVIOUS
<1>m. Mapped(one) /\ Mapped(one)'
  BY MappedState, MappedNext
<1> USE ConstantsAssumption
    DEF FifoInv, StackInv, NoStranding, TypeOK, Mapped, Default, Messages
<1>1. ASSUME NEW t \in Threads, PushEnqueue(t) PROVE AbstractQueue!Push
  BY <1>1, <1>m DEF PushEnqueue, Free, Busy, threadVars, AbstractQueue!Push
<1>2. ASSUME NEW t \in Threads, PushBroadcast(t) PROVE AbstractQueue!Push
  <2>1. Pending = queue /\ queue = <<>> /\ Pending' = <<sent + 1>> \o queue
    BY <1>2, <1>m DEF PushBroadcast, Free
  <2>2. Pending' = Append(Pending, sent + 1)
    BY <2>1
  <2>3. Taken' = Taken
    BY <1>2, <1>m DEF PushBroadcast, Free
  <2> QED BY <1>2, <1>m, <2>2, <2>3 DEF PushBroadcast, Free, AbstractQueue!Push
<1>3. ASSUME NEW t \in Threads, Swap(t)
      PROVE  \/ AbstractQueue!Take(callbacks) \/ AbstractQueue!Close(callbacks)
  <2>1. Taken' = AbstractQueue!Given(callbacks, msg[one])
    BY <1>3, <1>m DEF Swap, AbstractQueue!Given
  <2>2. CASE msg[one] = Default
    <3>1. phase[one] = "swap" /\ phase'[one] = "call" /\ msg'[one] = Default
      BY <1>3, <2>2 DEF Swap
    <3>2. alive /\ alive' /\ sent' = sent /\ queue' = queue
      BY <1>3, <3>1 DEF Swap
    <3>3. ~Closed /\ Closed' = TRUE
      BY <1>m, <3>1, <3>2
    <3>4. Pending' = Pending
      BY <1>m, <2>2, <3>1, <3>2
    <3> QED BY <2>1, <2>2, <3>2, <3>3, <3>4
           DEF AbstractQueue!Close, AbstractQueue!Default
  <2>3. CASE msg[one] # Default
    <3>1. Pending = <<msg[one]>> \o queue /\ Pending' = queue
      BY <1>3, <1>m, <2>3 DEF Swap
    <3>2. /\ Pending # <<>> /\ Head(Pending) = msg[one] /\ Tail(Pending) = queue
      BY <3>1
    <3> QED BY <1>3, <1>m, <2>1, <2>3, <3>1, <3>2 DEF Swap, AbstractQueue!Take
  <2> QED BY <2>2, <2>3
<1>4. ASSUME NEW t \in Threads, NEW c \in Consumers, PopReady(t, c)
      PROVE  AbstractQueue!Take({c})
  <2>1. phase[one] # "swap" /\ Pending = queue /\ Pending' = Tail(queue)
    BY <1>4, <1>m DEF PopReady, threadVars
  <2>2. Taken' = AbstractQueue!Given({c}, Head(queue))
    BY <1>4, <1>m DEF PopReady, threadVars, AbstractQueue!Given
  <2> QED BY <1>4, <1>m, <2>1, <2>2
          DEF PopReady, threadVars, AbstractQueue!Take
<1>5. ASSUME NEW t \in Threads, NEW c \in Consumers, Call(t, c)
      PROVE  UNCHANGED AbstractQueue!fifoVars
  <2>1. Taken' = Taken
    BY <1>5, <1>m DEF Call, shared
  <2> QED BY <1>5, <1>m, <2>1 DEF Call, shared, AbstractQueue!fifoVars
<1>6. ASSUME NEW t \in Threads, Destroy(t) \/ Return(t)
      PROVE  UNCHANGED AbstractQueue!fifoVars
  <2>1. Taken' = Taken /\ Pending' = Pending
    BY <1>6, <1>m DEF Destroy, Return, Free, shared
  <2> QED BY <1>6, <1>m, <2>1 DEF Destroy, Return, Free, shared, AbstractQueue!fifoVars
<1>7. ASSUME NEW t \in Threads, NEW c \in Consumers,
             Resume(t, c) \/ Leave(t, c) \/ PopEmpty(t, c) \/ Park(t, c)
      PROVE  UNCHANGED AbstractQueue!fifoVars
  <2>1. CASE Resume(t, c)
    BY <2>1, <1>m DEF Resume, Free, shared, AbstractQueue!fifoVars
  <2>2. CASE Leave(t, c)
    BY <2>2, <1>m DEF Leave, shared, AbstractQueue!fifoVars
  <2>3. CASE PopEmpty(t, c)
    BY <2>3, <1>m DEF PopEmpty, shared, threadVars, AbstractQueue!fifoVars
  <2>4. CASE Park(t, c)
    BY <2>4, <1>m DEF Park, AbstractQueue!fifoVars
  <2> QED BY <1>7, <2>1, <2>2, <2>3, <2>4
<1>8. CASE UNCHANGED vars
  BY <1>8, <1>m DEF vars, AbstractQueue!fifoVars
<1>9. callbacks \in SUBSET Consumers /\ \A c \in Consumers : {c} \in SUBSET Consumers
  OBVIOUS
<1>10. CASE \E t \in Threads : PushEnqueue(t) \/ PushBroadcast(t)
  BY <1>10, <1>1, <1>2 DEF AbstractQueue!Next
<1>11. CASE \E t \in Threads : Swap(t)
  BY <1>11, <1>3, <1>9 DEF AbstractQueue!Next
<1>12. CASE \E t \in Threads, c \in Consumers : PopReady(t, c)
  BY <1>12, <1>4, <1>9 DEF AbstractQueue!Next
<1> QED BY <1>5, <1>6, <1>7, <1>8, <1>10, <1>11, <1>12 DEF Next

\* A queue that one thread uses is a first-in first-out queue: no message is
\* lost, repeated or overtaken, whoever waits, pushes or waits again in the
\* middle of a broadcast (MessageQueue::push, pop, broadcast_clear).
THEOREM ImplementsFifo ==
  ASSUME NEW one \in Threads, Threads = {one}
  PROVE  Spec => IsFifo
<1>1. Spec => []FifoInv
  BY FifoInit, FifoStep, PTL DEF Spec
<1> QED BY <1>1, FifoRefinesInit, FifoRefinesStep, PTL
        DEF Spec, IsFifo, AbstractQueue!Spec

-----------------------------------------------------------------------------
(* Any number of threads: no message comes twice. *)

InQueue(m) == \E i \in DOMAIN queue : queue[i] = m
Has(c, m) == \E i \in DOMAIN got[c] : got[c][i] = m

\* What sits in the queue is new, sits there once and is nobody's yet.
QueueOnce ==
  /\ \A i \in DOMAIN queue : queue[i] <= sent
  /\ \A i, j \in DOMAIN queue : queue[i] = queue[j] => i = j
  /\ \A c \in Consumers, m \in 1 .. MaxPush : InQueue(m) => ~Has(c, m)

\* What a push has on its way is in no queue, no other push has it, and those
\* who are still to be called, or may yet wait for it, do not have it.
CarriedOnce ==
  \A t \in Threads : (phase[t] # "idle" /\ msg[t] # Default) =>
    /\ msg[t] <= sent
    /\ ~InQueue(msg[t])
    /\ \A u \in Threads : (phase[u] # "idle" /\ msg[u] = msg[t]) => u = t
    /\ \A c \in Consumers : (phase[t] = "swap" \/ c \in todo[t]) => ~Has(c, msg[t])

GivenOnce ==
  \A c \in Consumers :
    /\ \A i \in DOMAIN got[c] : got[c][i] <= sent
    /\ \A i, j \in DOMAIN got[c] :
         (i # j /\ got[c][i] = got[c][j]) => got[c][i] = Default

OnceInv == TypeOK /\ QueueOnce /\ CarriedOnce /\ GivenOnce

LEMMA OnceInit == Init => OnceInv
  BY TypeInit DEF Init, OnceInv, QueueOnce, CarriedOnce, GivenOnce, InQueue, Has

\* A consumer is given a message that none of its own is equal to.
LEMMA GiveOne ==
  ASSUME TypeOK, GivenOnce, NEW c \in Consumers, NEW m \in Messages, m <= sent,
         m # Default => ~Has(c, m), sent' = sent,
         got' = [got EXCEPT ![c] = Append(@, m)]
  PROVE  /\ GivenOnce'
         /\ \A d \in Consumers, n \in Messages :
              Has(d, n)' <=> (Has(d, n) \/ (d = c /\ n = m))
<1>1. got \in [Consumers -> Seq(Messages)] /\ sent \in Nat
  BY DEF TypeOK
<1>2. \A d \in Consumers : d # c => got'[d] = got[d]
  BY <1>1
<1>3. /\ got'[c] = Append(got[c], m)
      /\ DOMAIN got'[c] = DOMAIN got[c] \cup {Len(got[c]) + 1}
      /\ Len(got[c]) + 1 \notin DOMAIN got[c]
      /\ \A i \in DOMAIN got[c] : got'[c][i] = got[c][i]
      /\ got'[c][Len(got[c]) + 1] = m
  BY <1>1
<1>4. \A n \in Messages : Has(c, n)' <=> (Has(c, n) \/ n = m)
  BY <1>3 DEF Has
<1>5. \A d \in Consumers, n \in Messages :
        Has(d, n)' <=> (Has(d, n) \/ (d = c /\ n = m))
  BY <1>2, <1>4 DEF Has
<1>6. /\ \A i \in DOMAIN got'[c] : got'[c][i] <= sent
      /\ \A i, j \in DOMAIN got'[c] :
           (i # j /\ got'[c][i] = got'[c][j]) => got'[c][i] = Default
  BY <1>3 DEF GivenOnce, Has
<1>7. GivenOnce'
  BY <1>2, <1>6 DEF GivenOnce
<1> QED BY <1>5, <1>7

\* One step per action: a push numbers its message above all others, a swap
\* takes the callers out, a call and a pop give one away.
LEMMA OnceStep == OnceInv /\ [Next]_vars => OnceInv'
<1> SUFFICES ASSUME OnceInv, [Next]_vars
             PROVE  QueueOnce' /\ CarriedOnce' /\ GivenOnce'
  BY TypeStep DEF OnceInv
<1>t. /\ TypeOK
      /\ queue \in Seq(1 .. MaxPush) /\ sent \in Nat /\ DOMAIN queue = 1 .. Len(queue)
      /\ phase \in [Threads -> {"idle", "swap", "call"}]
      /\ msg \in [Threads -> 0 .. MaxPush]
      /\ todo \in [Threads -> SUBSET Consumers]
      /\ got \in [Consumers -> Seq(0 .. MaxPush)]
      /\ MaxPush \in Nat /\ Default = 0
  BY ConstantsAssumption DEF OnceInv, TypeOK, Messages, Default
<1>i. QueueOnce /\ CarriedOnce /\ GivenOnce
  BY DEF OnceInv
<1>n. \A c \in Consumers : ~Has(c, sent + 1)
  BY <1>t, <1>i DEF GivenOnce, Has
<1>1. ASSUME NEW t \in Threads, PushEnqueue(t)
      PROVE  QueueOnce' /\ CarriedOnce' /\ GivenOnce'
  <2>1. /\ queue' = Append(queue, sent + 1) /\ sent' = sent + 1
        /\ UNCHANGED <<phase, msg, todo, got>>
    BY <1>1 DEF PushEnqueue, threadVars
  <2>2. /\ DOMAIN queue' = DOMAIN queue \cup {Len(queue) + 1}
        /\ \A i \in DOMAIN queue : queue'[i] = queue[i] /\ queue[i] \in Nat
        /\ queue'[Len(queue) + 1] = sent + 1
    BY <1>t, <2>1
  <2>3. \A m : InQueue(m)' <=> (InQueue(m) \/ m = sent + 1)
    BY <2>2 DEF InQueue
  <2>4. QueueOnce'
    BY <1>t, <1>i, <1>n, <2>1, <2>2, <2>3 DEF QueueOnce, Has
  <2>5. CarriedOnce'
    BY <1>t, <1>i, <2>1, <2>3 DEF CarriedOnce, Has
  <2>6. GivenOnce'
    BY <1>t, <1>i, <2>1 DEF GivenOnce
  <2> QED BY <2>4, <2>5, <2>6
<1>2. ASSUME NEW t \in Threads, PushBroadcast(t)
      PROVE  QueueOnce' /\ CarriedOnce' /\ GivenOnce'
  <2>1. /\ sent' = sent + 1 /\ UNCHANGED <<queue, todo, got>>
        /\ phase' = [phase EXCEPT ![t] = "swap"]
        /\ msg' = [msg EXCEPT ![t] = sent + 1]
    BY <1>2 DEF PushBroadcast
  <2>2. ~InQueue(sent + 1)
    BY <1>t, <1>i DEF QueueOnce, InQueue
  <2>3. phase[t] = "idle"
    BY <1>2 DEF PushBroadcast, Free
  <2>5. \A m, c : (InQueue(m)' <=> InQueue(m)) /\ (Has(c, m)' <=> Has(c, m))
    BY <2>1 DEF InQueue, Has
  <2>7. QueueOnce'
    BY <1>t, <1>i, <2>1, <2>5 DEF QueueOnce
  <2>8. GivenOnce'
    BY <1>t, <1>i, <2>1 DEF GivenOnce
  <2>4. QueueOnce' /\ GivenOnce'
    BY <2>7, <2>8
  <2>9. /\ \A u \in Threads : u # t => phase'[u] = phase[u] /\ msg'[u] = msg[u]
        /\ phase'[t] = "swap" /\ msg'[t] = sent + 1
    BY <1>t, <2>1
  <2>10. \A u \in Threads : (u # t /\ phase[u] # "idle") => msg[u] # sent + 1
    BY <1>t, <1>i DEF CarriedOnce
  <2>6. CarriedOnce'
    <3> SUFFICES ASSUME NEW u \in Threads, phase'[u] # "idle", msg'[u] # Default
        PROVE  /\ msg'[u] <= sent'
               /\ ~InQueue(msg'[u])
               /\ \A v \in Threads : (phase'[v] # "idle" /\ msg'[v] = msg'[u]) => v = u
               /\ \A c \in Consumers : (phase'[u] = "swap" \/ c \in todo'[u])
                                         => ~Has(c, msg'[u])
      BY <2>5 DEF CarriedOnce
    <3>1. CASE u = t
      BY <1>t, <1>n, <2>1, <2>2, <2>9, <2>10, <3>1
    <3>2. CASE u # t
      BY <1>t, <1>i, <2>1, <2>9, <2>10, <3>2 DEF CarriedOnce
    <3> QED BY <3>1, <3>2
  <2> QED BY <2>4, <2>6
<1>3. ASSUME NEW t \in Threads, Destroy(t) \/ Swap(t) \/ Return(t)
      PROVE  QueueOnce' /\ CarriedOnce' /\ GivenOnce'
  <2>1. UNCHANGED <<queue, sent, got>>
    BY <1>3 DEF Destroy, Swap, Return, shared
  <2>2. QueueOnce' /\ GivenOnce'
    BY <1>t, <1>i, <2>1 DEF QueueOnce, GivenOnce, InQueue, Has
  <2>3. \A m, c : (InQueue(m)' <=> InQueue(m)) /\ (Has(c, m)' <=> Has(c, m))
    BY <2>1 DEF InQueue, Has
  <2>4. CarriedOnce'
    BY <1>t, <1>i, <1>3, <2>1, <2>3 DEF CarriedOnce, Destroy, Swap, Return
  <2> QED BY <2>2, <2>4
<1>4. ASSUME NEW t \in Threads, NEW c \in Consumers, Call(t, c)
      PROVE  QueueOnce' /\ CarriedOnce' /\ GivenOnce'
  <2>1. /\ got' = [got EXCEPT ![c] = Append(@, msg[t])]
        /\ todo' = [todo EXCEPT ![t] = @ \ {c}]
        /\ UNCHANGED <<queue, sent, phase, msg>>
        /\ phase[t] = "call" /\ c \in todo[t]
    BY <1>4 DEF Call, shared
  <2>2. /\ msg[t] \in Messages /\ msg[t] <= sent
        /\ (msg[t] # Default) => (~Has(c, msg[t]) /\ ~InQueue(msg[t]))
    BY <1>t, <1>i, <2>1 DEF CarriedOnce, Messages
  <2>3. /\ GivenOnce'
        /\ \A d \in Consumers, n \in Messages :
             Has(d, n)' <=> (Has(d, n) \/ (d = c /\ n = msg[t]))
    BY <1>t, <1>i, <2>1, <2>2, GiveOne
  <2>4. \A m : InQueue(m)' <=> InQueue(m)
    BY <2>1 DEF InQueue
  <2>5. QueueOnce'
    BY <1>t, <1>i, <2>1, <2>2, <2>3, <2>4 DEF QueueOnce, Messages
  <2>6. CarriedOnce'
    BY <1>t, <1>i, <2>1, <2>3, <2>4 DEF CarriedOnce, Messages
  <2> QED BY <2>3, <2>5, <2>6
<1>5. ASSUME NEW t \in Threads, NEW c \in Consumers, PopReady(t, c)
      PROVE  QueueOnce' /\ CarriedOnce' /\ GivenOnce'
  <2>1. /\ got' = [got EXCEPT ![c] = Append(@, Head(queue))]
        /\ queue' = Tail(queue) /\ queue # <<>>
        /\ UNCHANGED <<sent, phase, msg, todo>>
    BY <1>5 DEF PopReady, threadVars
  <2>2. /\ 1 \in DOMAIN queue /\ Head(queue) = queue[1]
        /\ DOMAIN queue' = 1 .. Len(queue) - 1
        /\ \A i \in DOMAIN queue' : queue'[i] = queue[i + 1] /\ i + 1 \in DOMAIN queue
        /\ Head(queue) \in 1 .. MaxPush
    BY <1>t, <2>1
  <2>8. InQueue(Head(queue))
    BY <2>2 DEF InQueue
  <2>9. ASSUME NEW m, InQueue(m)' PROVE InQueue(m) /\ m # Head(queue)
    <3>1. PICK i \in DOMAIN queue' : queue'[i] = m
      BY <2>9 DEF InQueue
    <3>2. i + 1 \in DOMAIN queue /\ queue[i + 1] = m /\ i + 1 # 1
      BY <2>2, <3>1
    <3> QED BY <1>i, <2>2, <3>2 DEF InQueue, QueueOnce
  <2>3. InQueue(Head(queue)) /\ \A m : InQueue(m)' => (InQueue(m) /\ m # Head(queue))
    BY <2>8, <2>9
  <2>4. /\ Head(queue) \in Messages /\ Head(queue) <= sent
        /\ ~Has(c, Head(queue))
    BY <1>t, <1>i, <2>2, <2>3 DEF QueueOnce, Messages
  <2>5. /\ GivenOnce'
        /\ \A d \in Consumers, n \in Messages :
             Has(d, n)' <=> (Has(d, n) \/ (d = c /\ n = Head(queue)))
    BY <1>t, <1>i, <2>1, <2>4, GiveOne
  <2>6. QueueOnce'
    BY <1>t, <1>i, <2>1, <2>2, <2>3, <2>5 DEF QueueOnce, Messages
  <2>7. CarriedOnce'
    BY <1>t, <1>i, <2>1, <2>3, <2>5 DEF CarriedOnce, Messages
  <2> QED BY <2>5, <2>6, <2>7
<1>6. CASE UNCHANGED <<queue, sent, phase, msg, todo, got>>
  <2>1. \A m, c : (InQueue(m)' <=> InQueue(m)) /\ (Has(c, m)' <=> Has(c, m))
    BY <1>6 DEF InQueue, Has
  <2>2. QueueOnce'
    BY <1>i, <1>6, <2>1 DEF QueueOnce
  <2>3. CarriedOnce'
    BY <1>i, <1>6, <2>1 DEF CarriedOnce
  <2>4. GivenOnce'
    BY <1>i, <1>6 DEF GivenOnce
  <2> QED BY <2>2, <2>3, <2>4
<1>7. ASSUME NEW t \in Threads, NEW c \in Consumers,
             Resume(t, c) \/ Leave(t, c) \/ PopEmpty(t, c) \/ Park(t, c)
      PROVE  UNCHANGED <<queue, sent, phase, msg, todo, got>>
  BY <1>7 DEF Resume, Leave, PopEmpty, Park, shared, threadVars
<1>8. ASSUME UNCHANGED vars PROVE UNCHANGED <<queue, sent, phase, msg, todo, got>>
  BY <1>8 DEF vars
<1> QED BY <1>1, <1>2, <1>3, <1>4, <1>5, <1>6, <1>7, <1>8 DEF Next

\* However the critical sections of any number of threads interleave, no
\* coroutine is given the same message twice: what a broadcast carries is in no
\* queue and in no other broadcast (MessageQueue::push, pop, broadcast_clear).
THEOREM NeverTwice == Spec => []NoDuplicates
<1>1. OnceInv => NoDuplicates
  BY ConstantsAssumption DEF OnceInv, GivenOnce, NoDuplicates, TypeOK
<1> QED BY <1>1, OnceInit, OnceStep, PTL DEF Spec

-----------------------------------------------------------------------------
(* One thread: the destructor tells everyone. *)

Told(c) == \E i \in 1 .. Len(got[c]) : got[c][i] = Default

\* Whoever is parked is in a list; while the destructor broadcasts, and after,
\* whoever waits or is about to has been told or is still to be called.
TellInv ==
  /\ \A c \in Consumers :
       /\ where[c] = "parked" => c \in callbacks \/ \E t \in Threads : c \in todo[t]
       /\ where[c] \in {"running", "parking"} => \E t \in Threads : running[t] = c
  /\ \A t \in Threads : (phase[t] = "call" /\ msg[t] = Default) =>
       \A c \in Consumers : where[c] # "away" => Told(c) \/ c \in todo[t]
  /\ ~alive => /\ \A t \in Threads : phase[t] = "idle"
               /\ \A c \in Consumers : where[c] # "parking"
               /\ EveryoneTold

LEMMA TellInit == Init => TellInv
  BY DEF Init, TellInv

\* A coroutine that is given a message keeps those it has.
LEMMA TellMore ==
  ASSUME TypeOK, NEW c \in Consumers, NEW m \in Messages,
         got' = [got EXCEPT ![c] = Append(@, m)]
  PROVE  /\ \A d \in Consumers : Told(d) => Told(d)'
         /\ (m = Default) => Told(c)'
<1>1. got \in [Consumers -> Seq(Messages)]
  BY DEF TypeOK
<1>2. \A d \in Consumers : d # c => got'[d] = got[d]
  BY <1>1
<1>3. /\ got'[c] = Append(got[c], m) /\ Len(got'[c]) = Len(got[c]) + 1
      /\ \A i \in 1 .. Len(got[c]) : got'[c][i] = got[c][i]
      /\ got'[c][Len(got[c]) + 1] = m /\ Len(got[c]) \in Nat
  BY <1>1
<1>4. Told(c) => Told(c)'
  BY <1>3 DEF Told
<1>5. (m = Default) => Told(c)'
  BY <1>3 DEF Told
<1> QED BY <1>2, <1>4, <1>5 DEF Told

LEMMA TellStep ==
  ASSUME NEW one \in Threads, Threads = {one}
  PROVE  FifoInv /\ TellInv /\ [Next]_vars => TellInv'
<1> SUFFICES ASSUME FifoInv, TellInv, [Next]_vars PROVE TellInv'
  OBVIOUS
<1>t. /\ TypeOK
      /\ callbacks \subseteq Consumers /\ None \notin Consumers
      /\ phase \in [Threads -> {"idle", "swap", "call"}]
      /\ todo \in [Threads -> SUBSET Consumers]
      /\ running \in [Threads -> Consumers \cup {None}]
      /\ where \in [Consumers -> {"away", "running", "parking", "parked"}]
      /\ msg \in [Threads -> Messages]
  BY ConstantsAssumption DEF FifoInv, TypeOK
<1>s. StackInv
  BY DEF FifoInv
<1>e. EveryoneTold <=> (~alive => \A c \in Consumers : where[c] = "parked" => Told(c))
  BY DEF EveryoneTold, Told
<1>p. EveryoneTold' <=> (~alive' => \A c \in Consumers : where'[c] = "parked" => Told(c)')
  BY DEF EveryoneTold, Told
<1>1. ASSUME NEW t \in Threads,
             PushEnqueue(t) \/ PushBroadcast(t) \/ Destroy(t) \/ Swap(t)
      PROVE  TellInv'
  <2>1. \A c : Told(c)' <=> Told(c)
    BY <1>1 DEF PushEnqueue, PushBroadcast, Destroy, Swap, Told
  <2>2. where' = where /\ running' = running /\ alive' = alive
    BY <1>1 DEF PushEnqueue, PushBroadcast, Destroy, Swap, shared, threadVars
  <2>3. CASE PushEnqueue(t)
    BY <1>t, <1>e, <1>p, <2>1, <2>2, <2>3 DEF TellInv, PushEnqueue, threadVars
  <2>4. CASE PushBroadcast(t)
    BY <1>t, <1>e, <1>p, <2>1, <2>2, <2>4 DEF TellInv, PushBroadcast
  <2>5. CASE Destroy(t)
    BY <1>t, <1>e, <1>p, <2>1, <2>2, <2>5 DEF TellInv, Destroy, shared
  <2>6. CASE Swap(t)
    BY <1>t, <1>s, <1>e, <1>p, <2>1, <2>2, <2>6 DEF TellInv, StackInv, Swap
  <2> QED BY <1>1, <2>3, <2>4, <2>5, <2>6
<1>2. ASSUME NEW t \in Threads, Return(t) PROVE TellInv'
  <2>1. \A c : Told(c)' <=> Told(c)
    BY <1>2 DEF Return, Told
  <2>2. t = one /\ phase'[one] = "idle"
    BY <1>t, <1>2 DEF Return
  <2>3. \A c \in Consumers : where'[c] = where[c] /\ todo' = todo
    BY <1>2 DEF Return
  <2>4. /\ \A c \in Consumers : where[c] \notin {"running", "parking"}
        /\ todo[one] = {}
    BY <1>t, <1>2, <2>2 DEF TellInv, Return
  <2>5. ~alive' => \A c \in Consumers : where[c] = "parked" => Told(c)
    BY <1>t, <1>e, <1>2, <2>2, <2>4 DEF TellInv, Return
  <2>6. EveryoneTold'
    BY <1>p, <2>1, <2>3, <2>5
  <2> QED BY <1>t, <1>2, <2>2, <2>3, <2>4, <2>6 DEF TellInv, Return
<1>3. ASSUME NEW t \in Threads, NEW c \in Consumers, Call(t, c) PROVE TellInv'
  <2>1. /\ \A d \in Consumers : Told(d) => Told(d)'
        /\ (msg[t] = Default) => Told(c)'
    BY <1>t, <1>3, TellMore DEF Call
  <2> QED BY <1>t, <1>s, <1>e, <1>p, <1>3, <2>1 DEF TellInv, Call, shared
<1>4. ASSUME NEW t \in Threads, NEW c \in Consumers, Resume(t, c) \/ Leave(t, c)
      PROVE  TellInv'
  <2>1. \A d : Told(d)' <=> Told(d)
    BY <1>4 DEF Resume, Leave, Told
  <2>2. CASE Resume(t, c)
    BY <1>t, <1>e, <1>p, <2>1, <2>2 DEF TellInv, Resume, Free, shared
  <2>3. CASE Leave(t, c)
    BY <1>t, <1>e, <1>p, <2>1, <2>3 DEF TellInv, Leave, shared
  <2> QED BY <1>4, <2>2, <2>3
<1>5. ASSUME NEW t \in Threads, NEW c \in Consumers, PopReady(t, c) PROVE TellInv'
  <2>1. Head(queue) \in Messages
    BY <1>5, ConstantsAssumption DEF FifoInv, TypeOK, PopReady, Messages
  <2>2. \A d \in Consumers : Told(d) => Told(d)'
    BY <1>t, <1>5, <2>1, TellMore DEF PopReady
  <2> QED BY <1>t, <1>e, <1>p, <1>5, <2>2 DEF TellInv, PopReady, threadVars
<1>6. ASSUME NEW t \in Threads, NEW c \in Consumers, PopEmpty(t, c) \/ Park(t, c)
      PROVE  TellInv'
  <2>1. \A d : Told(d)' <=> Told(d)
    BY <1>6 DEF PopEmpty, Park, Told
  <2>2. CASE PopEmpty(t, c)
    BY <1>t, <1>e, <1>p, <2>1, <2>2 DEF TellInv, PopEmpty, shared, threadVars
  <2>3. CASE Park(t, c)
    BY <1>t, <1>e, <1>p, <2>1, <2>3 DEF TellInv, Park
  <2> QED BY <1>6, <2>2, <2>3
<1>7. CASE UNCHANGED vars
  BY <1>7, <1>e, <1>p DEF vars, TellInv, Told
<1> QED BY <1>1, <1>2, <1>3, <1>4, <1>5, <1>6, <1>7 DEF Next

\* On one thread nobody is left waiting on a dead queue without having been
\* given T{} (MessageQueue::~MessageQueue).  On two threads a coroutine can park
\* between the destructor's two critical sections and its end.
THEOREM EveryoneIsTold ==
  ASSUME NEW one \in Threads, Threads = {one}
  PROVE  Spec => []EveryoneTold
<1>1. FifoInv /\ TellInv => EveryoneTold
  BY DEF TellInv, EveryoneTold
<1>2. FifoInv /\ TellInv /\ [Next]_vars => (FifoInv /\ TellInv)'
  BY FifoStep, TellStep
<1> QED BY <1>1, <1>2, FifoInit, TellInit, PTL DEF Spec
=============================================================================
