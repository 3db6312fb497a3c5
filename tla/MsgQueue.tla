------------------------------ MODULE MsgQueue ------------------------------
(* utils/msg_queue.h: MessageQueue<T>, the queue every socket, console and    *)
(* the world's update loop is built from, and MessageQueueAwaiter<T>, through *)
(* which a coroutine waits on it.                                             *)
(*                                                                            *)
(* A step is one critical section of the mutex, or one callback of the loop   *)
(* that runs with the mutex released.  A parked coroutine is resumed on the   *)
(* stack of the thread that pushes, and runs there until it suspends again.   *)
(* With one thread only re-entrancy is left; with two, their critical         *)
(* sections interleave.                                                       *)
(*                                                                            *)
(* Messages are numbered in the order their push takes the mutex.  The order  *)
(* of the callback list is left open: a broadcast may call it in any order.   *)
EXTENDS Integers, Sequences

CONSTANTS Threads,      \* threads of the process that touch the queue
          Consumers,    \* coroutines that co_await async_pop()
          MaxPush,      \* bound on the number of messages pushed
          None          \* no coroutine

ASSUME ConstantsAssumption ==
  /\ None \notin Consumers
  /\ MaxPush \in Nat

Default == 0                      \* T{}, what the destructor broadcasts
Messages == 0 .. MaxPush

VARIABLES
  queue,        \* queue_
  callbacks,    \* callbacks_: the coroutines whose resumption is registered
  alive,        \* the destructor has not returned
  sent,         \* messages pushed so far
  phase,        \* [Threads]: where push/broadcast_clear stands
  msg,          \* [Threads]: local_message of the broadcast
  todo,         \* [Threads]: the swapped-out callback list
  running,      \* [Threads]: the coroutine on top of the thread's stack
  where,        \* [Consumers]: where the coroutine is suspended, or running
  got           \* [Consumers]: messages await_resume returned, in order

shared == <<queue, callbacks, alive, sent>>
threadVars == <<phase, msg, todo, running>>
vars == <<queue, callbacks, alive, sent, phase, msg, todo, running, where, got>>

Init ==
  /\ queue = <<>>
  /\ callbacks = {}
  /\ alive = TRUE
  /\ sent = 0
  /\ phase = [t \in Threads |-> "idle"]
  /\ msg = [t \in Threads |-> Default]
  /\ todo = [t \in Threads |-> {}]
  /\ running = [t \in Threads |-> None]
  /\ where = [c \in Consumers |-> "away"]
  /\ got = [c \in Consumers |-> <<>>]

Free(t) == phase[t] = "idle" /\ running[t] = None

\* A coroutine pushes while it runs (the net services push into the queue they
\* serve when a packet is for the host itself).
Busy(t) == \E c \in Consumers : running[t] = c /\ where[c] = "running"

\* Mutant: push does not look for waiters before it queues the message.
PushPastWaiters(t) ==
  /\ Free(t) \/ Busy(t)
  /\ alive /\ sent < MaxPush
  /\ sent' = sent + 1
  /\ queue' = Append(queue, sent + 1)
  /\ UNCHANGED <<callbacks, alive, threadVars, where, got>>

\* Mutant: push broadcasts even if nobody waits.
PushToNobody(t) ==
  /\ Free(t) /\ alive /\ sent < MaxPush
  /\ sent' = sent + 1
  /\ phase' = [phase EXCEPT ![t] = "swap"]
  /\ msg' = [msg EXCEPT ![t] = sent + 1]
  /\ UNCHANGED <<queue, callbacks, alive, todo, running, where, got>>

\* push: the first critical section either queues the message or leaves to
\* broadcast it, with the mutex released in between.  A push from a coroutine
\* that would broadcast is not modelled: those queues have one consumer.
PushEnqueue(t) ==
  /\ Free(t) \/ Busy(t)
  /\ alive /\ sent < MaxPush
  /\ callbacks = {}
  /\ sent' = sent + 1
  /\ queue' = Append(queue, sent + 1)
  /\ UNCHANGED <<callbacks, alive, threadVars, where, got>>

PushBroadcast(t) ==
  /\ Free(t) /\ alive /\ sent < MaxPush
  /\ callbacks # {}
  /\ sent' = sent + 1
  /\ phase' = [phase EXCEPT ![t] = "swap"]
  /\ msg' = [msg EXCEPT ![t] = sent + 1]
  /\ UNCHANGED <<queue, callbacks, alive, todo, running, where, got>>

\* Mutant: the destructor tells nobody.
DestroySilently(t) ==
  /\ alive /\ \A u \in Threads : Free(u)
  /\ alive' = FALSE
  /\ UNCHANGED <<queue, callbacks, sent, threadVars, where, got>>

\* ~MessageQueue: broadcast_clear(T{}), once the owner lets go of the queue,
\* which it does while nobody is inside push.
Destroy(t) ==
  /\ alive /\ \A u \in Threads : Free(u)
  /\ phase' = [phase EXCEPT ![t] = "swap"]
  /\ msg' = [msg EXCEPT ![t] = Default]
  /\ UNCHANGED <<shared, todo, running, where, got>>

\* Mutant: the callback list is copied, not taken.
SwapCopies(t) ==
  /\ phase[t] = "swap"
  /\ todo' = [todo EXCEPT ![t] = callbacks]
  /\ phase' = [phase EXCEPT ![t] = "call"]
  /\ UNCHANGED <<shared, msg, running, where, got>>

\* broadcast_clear: the second critical section takes the callback list.
Swap(t) ==
  /\ phase[t] = "swap"
  /\ todo' = [todo EXCEPT ![t] = callbacks]
  /\ callbacks' = {}
  /\ phase' = [phase EXCEPT ![t] = "call"]
  /\ UNCHANGED <<queue, alive, sent, msg, running, where, got>>

\* The loop of broadcast_clear: one callback, which stores the message in the
\* awaiter and resumes the coroutine on this stack.
Call(t, c) ==
  /\ phase[t] = "call" /\ running[t] = None
  /\ c \in todo[t]
  /\ todo' = [todo EXCEPT ![t] = @ \ {c}]
  /\ running' = [running EXCEPT ![t] = c]
  /\ where' = [where EXCEPT ![c] = "running"]
  /\ got' = [got EXCEPT ![c] = Append(@, msg[t])]
  /\ UNCHANGED <<shared, phase, msg>>

\* The loop is over.  When it was the destructor's, the members go too.
Return(t) ==
  /\ phase[t] = "call" /\ running[t] = None
  /\ todo[t] = {}
  /\ phase' = [phase EXCEPT ![t] = "idle"]
  /\ alive' = (alive /\ msg[t] # Default)
  /\ UNCHANGED <<queue, callbacks, sent, msg, todo, running, where, got>>

\* A coroutine that was waiting for something else (a timer, another queue) is
\* resumed by a thread that has nothing else on its stack.
Resume(t, c) ==
  /\ Free(t) /\ where[c] = "away"
  /\ running' = [running EXCEPT ![t] = c]
  /\ where' = [where EXCEPT ![c] = "running"]
  /\ UNCHANGED <<shared, phase, msg, todo, got>>

\* ... and suspends on something else, or returns.
Leave(t, c) ==
  /\ running[t] = c /\ where[c] = "running"
  /\ running' = [running EXCEPT ![t] = None]
  /\ where' = [where EXCEPT ![c] = "away"]
  /\ UNCHANGED <<shared, phase, msg, todo, got>>

\* Mutants: pop takes the newest message; pop leaves the message it returns.
PopNewest(t, c) ==
  /\ running[t] = c /\ where[c] = "running" /\ alive
  /\ queue # <<>>
  /\ got' = [got EXCEPT ![c] = Append(@, queue[Len(queue)])]
  /\ queue' = SubSeq(queue, 1, Len(queue) - 1)
  /\ UNCHANGED <<callbacks, alive, sent, threadVars, where>>

PopKeeps(t, c) ==
  /\ running[t] = c /\ where[c] = "running" /\ alive
  /\ queue # <<>>
  /\ Len(got[c]) < 3 * MaxPush
  /\ got' = [got EXCEPT ![c] = Append(@, Head(queue))]
  /\ UNCHANGED <<shared, threadVars, where>>

\* await_ready: pop() in a critical section of its own.
PopReady(t, c) ==
  /\ running[t] = c /\ where[c] = "running" /\ alive
  /\ queue # <<>>
  /\ got' = [got EXCEPT ![c] = Append(@, Head(queue))]
  /\ queue' = Tail(queue)
  /\ UNCHANGED <<callbacks, alive, sent, threadVars, where>>

PopEmpty(t, c) ==
  /\ running[t] = c /\ where[c] = "running" /\ alive
  /\ queue = <<>>
  /\ where' = [where EXCEPT ![c] = "parking"]
  /\ UNCHANGED <<shared, threadVars, got>>

\* await_suspend: add_awaiter, in the next critical section.
Park(t, c) ==
  /\ running[t] = c /\ where[c] = "parking"
  /\ callbacks' = callbacks \cup {c}
  /\ where' = [where EXCEPT ![c] = "parked"]
  /\ running' = [running EXCEPT ![t] = None]
  /\ UNCHANGED <<queue, alive, sent, phase, msg, todo, got>>

Next ==
  \E t \in Threads :
    \/ PushEnqueue(t) \/ PushBroadcast(t) \/ Destroy(t) \/ Swap(t) \/ Return(t)
    \/ \E c \in Consumers :
         \/ Call(t, c) \/ Resume(t, c) \/ Leave(t, c)
         \/ PopReady(t, c) \/ PopEmpty(t, c) \/ Park(t, c)

Spec == Init /\ [][Next]_vars

----------------------------------------------------------------------------
TypeOK ==
  /\ queue \in Seq(1 .. MaxPush)
  /\ callbacks \subseteq Consumers
  /\ alive \in BOOLEAN
  /\ sent \in 0 .. MaxPush
  /\ phase \in [Threads -> {"idle", "swap", "call"}]
  /\ msg \in [Threads -> Messages]
  /\ todo \in [Threads -> SUBSET Consumers]
  /\ running \in [Threads -> Consumers \cup {None}]
  /\ where \in [Consumers -> {"away", "running", "parking", "parked"}]
  /\ got \in [Consumers -> Seq(Messages)]

\* A coroutine is resumed at most once per suspension: a registered callback
\* belongs to a parked coroutine, sits in one list only, and a coroutine that
\* runs does so on one stack.  (Resuming a running coroutine is undefined.)
ResumeOnce ==
  /\ \A c \in callbacks : where[c] = "parked"
  /\ \A t \in Threads : \A c \in todo[t] :
       /\ where[c] = "parked"
       /\ c \notin callbacks
       /\ \A u \in Threads \ {t} : c \notin todo[u]
  /\ \A t \in Threads : running[t] # None =>
       /\ where[running[t]] \in {"running", "parking"}
       /\ \A u \in Threads \ {t} : running[u] # running[t]

\* What a thread still has to hand out: the message of a push that is between
\* its two critical sections is the oldest nobody has; from the second on, the
\* callbacks it took out have as good as received it.
Unsent == {t \in Threads : phase[t] = "swap" /\ msg[t] # Default}
Pending == IF Unsent = {} THEN queue
           ELSE <<msg[CHOOSE t \in Unsent : TRUE]>> \o queue

Calling(c) == {t \in Threads : phase[t] = "call" /\ c \in todo[t]}
Taken == [c \in Consumers |->
            IF Calling(c) = {} THEN got[c]
            ELSE Append(got[c], msg[CHOOSE t \in Calling(c) : TRUE])]

Closed == ~alive \/ \E t \in Threads : phase[t] = "call" /\ msg[t] = Default

AbstractQueue == INSTANCE Fifo WITH pushed <- sent, pending <- Pending,
                                    taken <- Taken, closed <- Closed

\* On one thread the queue is a first-in first-out queue that loses nothing,
\* re-entrant pushes and consumers that wait again inside a broadcast included.
\* The decision to broadcast is taken in one critical section and the list of
\* those who wait in the next, so this needs that no push comes in between.
IsFifo == AbstractQueue!Spec

\* Nobody waits while there is something to take (between pushes).  pop and
\* add_awaiter are two critical sections, so this needs that no push comes in
\* between.
NoStranding == callbacks # {} => queue = <<>>

\* No consumer is given the same message twice, on any number of threads.
NoDuplicates ==
  \A c \in Consumers : \A i, j \in 1 .. Len(got[c]) :
    (i # j /\ got[c][i] = got[c][j]) => got[c][i] = Default

\* The destructor tells everyone who waits: a coroutine still parked on the
\* dead queue has been given T{} and chose to wait again.
EveryoneTold ==
  ~alive => \A c \in Consumers :
    where[c] = "parked" => \E i \in 1 .. Len(got[c]) : got[c][i] = Default
=============================================================================
