------------------------------ MODULE TimerMgr ------------------------------
(* world/timer_mgr: TimerManager, the slots every co_await wait(s) sits in.   *)
(* step() walks the slots on the world thread; the callback it invokes is a   *)
(* coroutine that may set, pause or cancel timers before it suspends again,   *)
(* and other threads may set timers between two slots of the walk (the lock   *)
(* in step is commented out).  Each call of set_timer issues a ticket, the    *)
(* callback it stores; the handle it returns is only a slot index.            *)
EXTENDS Integers, FiniteSets

CONSTANTS MaxSlots,     \* bound on the size of the slot vectors
          MaxTickets,   \* bound on the calls of set_timer
          MaxClock,     \* bound on the sum of the deltas
          Durations,    \* seconds passed to set_timer
          Deltas        \* delta_seconds passed to step

ASSUME ConstantsAssumption ==
  /\ MaxSlots \in Nat /\ MaxTickets \in Nat /\ MaxClock \in Nat
  /\ Durations \subseteq Nat
  /\ Deltas \subseteq Nat \ {0}

Slots == 0 .. MaxSlots - 1
Tickets == 1 .. MaxTickets
NoTicket == 0

VARIABLES
  size,         \* timers_.size()
  slot,         \* timers_: the parallel vectors, as one record per slot
  free,         \* free_instances_
  mode,         \* "idle", "step" between two slots, "call" inside a callback
  cursor,       \* idx of step
  delta,        \* delta_seconds of step
  clock,        \* time that has passed when step runs
  issued,       \* tickets issued so far
  handle,       \* [Tickets]: the TimerHandle set_timer returned
  due,          \* [Tickets]: when the callback was asked for
  fired,        \* [Tickets]: how often it was called
  midwalk,      \* tickets issued while step was walking over the slots
  early         \* tickets whose callback ran before it was due

slots == <<size, slot, free>>
walk == <<mode, cursor, delta, clock>>
tickets == <<issued, handle, due, fired, midwalk, early>>
vars == <<size, slot, free, mode, cursor, delta, clock,
          issued, handle, due, fired, midwalk, early>>

\* What resize value-initialises.
EmptySlot == [alive |-> FALSE, paused |-> FALSE, looping |-> FALSE,
              remaining |-> 0, length |-> 0, invoker |-> NoTicket]

Init ==
  /\ size = 0
  /\ slot = [i \in Slots |-> EmptySlot]
  /\ free = {}
  /\ mode = "idle" /\ cursor = 0 /\ delta = 0 /\ clock = 0
  /\ issued = 0
  /\ handle = [k \in Tickets |-> 0]
  /\ due = [k \in Tickets |-> 0]
  /\ fired = [k \in Tickets |-> 0]
  /\ midwalk = {} /\ early = {}

----------------------------------------------------------------------------
\* set_timer: the smallest free slot, or one more.  paused is not written.
NewSlot == IF free # {} THEN CHOOSE i \in free : \A j \in free : i <= j
                        ELSE size

Filled(seconds, looping) ==
  [alive |-> TRUE, paused |-> slot[NewSlot].paused, looping |-> looping,
   remaining |-> seconds, length |-> seconds, invoker |-> issued + 1]

\* Mutant: the slot stays on the free list.
SetTimerKeepsFree(seconds, looping) ==
  /\ issued < MaxTickets
  /\ NewSlot < MaxSlots
  /\ issued' = issued + 1
  /\ size' = IF free # {} THEN size ELSE size + 1
  /\ slot' = [slot EXCEPT ![NewSlot] = Filled(seconds, looping)]
  /\ handle' = [handle EXCEPT ![issued + 1] = NewSlot]
  /\ due' = [due EXCEPT ![issued + 1] = clock + seconds]
  /\ midwalk' = IF mode = "idle" THEN midwalk ELSE midwalk \cup {issued + 1}
  /\ UNCHANGED <<free, walk, fired, early>>

SetTimer(seconds, looping) ==
  /\ issued < MaxTickets
  /\ NewSlot < MaxSlots
  /\ issued' = issued + 1
  /\ free' = free \ {NewSlot}
  /\ size' = IF free # {} THEN size ELSE size + 1
  /\ slot' = [slot EXCEPT ![NewSlot] = Filled(seconds, looping)]
  /\ handle' = [handle EXCEPT ![issued + 1] = NewSlot]
  /\ due' = [due EXCEPT ![issued + 1] = clock + seconds]
  /\ midwalk' = IF mode = "idle" THEN midwalk ELSE midwalk \cup {issued + 1}
  /\ UNCHANGED <<walk, fired, early>>

\* is_valid_handle: a range check.
ValidHandle(i) == i \in 0 .. size - 1

PauseTimer(k) ==
  /\ k \in 1 .. issued
  /\ ValidHandle(handle[k])
  /\ slot' = [slot EXCEPT ![handle[k]].paused = TRUE]
  /\ UNCHANGED <<size, free, walk, tickets>>

\* Mutant: the slot of a cancelled timer is forgotten.
KilledForgotten(i) ==
  /\ slot' = [slot EXCEPT ![i].alive = FALSE]
  /\ free' = free

\* kill_timer_internal
Killed(i) ==
  /\ slot' = [slot EXCEPT ![i].alive = FALSE]
  /\ free' = free \cup {i}

CancelTimer(k) ==
  /\ k \in 1 .. issued
  /\ ValidHandle(handle[k])
  /\ Killed(handle[k])
  /\ UNCHANGED <<size, walk, tickets>>

----------------------------------------------------------------------------
\* step(delta_seconds), one slot at a time; the size is read again each time.
StepBegin(d) ==
  /\ mode = "idle" /\ clock + d <= MaxClock
  /\ mode' = "step" /\ cursor' = 0 /\ delta' = d /\ clock' = clock + d
  /\ UNCHANGED <<slots, tickets>>

StepSkip ==
  /\ mode = "step" /\ cursor < size
  /\ ~slot[cursor].alive \/ slot[cursor].paused
  /\ cursor' = cursor + 1
  /\ UNCHANGED <<slots, mode, delta, clock, tickets>>

Runs == /\ mode = "step" /\ cursor < size
        /\ slot[cursor].alive /\ ~slot[cursor].paused

StepTick ==
  /\ Runs /\ slot[cursor].remaining - delta >= 0
  /\ slot' = [slot EXCEPT ![cursor].remaining = @ - delta]
  /\ cursor' = cursor + 1
  /\ UNCHANGED <<size, free, mode, delta, clock, tickets>>

\* What std::invoke(event) means for the ticket in the slot.
Invoked(k, again) ==
  /\ fired' = [fired EXCEPT ![k] = @ + 1]
  /\ early' = IF clock < due[k] THEN early \cup {k} ELSE early
  /\ due' = IF again THEN [due EXCEPT ![k] = clock + slot[cursor].length]
                     ELSE due
  /\ UNCHANGED midwalk

\* Mutants: a looping timer is not reset; a one-shot timer is not killed; the
\* slot after it is freed; the walk goes past the slot after a callback.
FireLoopingNoReset ==
  /\ Runs /\ slot[cursor].remaining - delta < 0
  /\ slot[cursor].looping
  /\ slot' = [slot EXCEPT ![cursor].remaining = @ - delta]
  /\ Invoked(slot[cursor].invoker, TRUE)
  /\ mode' = "call"
  /\ UNCHANGED <<size, free, cursor, delta, clock, issued, handle>>

FireOnceNoKill ==
  /\ Runs /\ slot[cursor].remaining - delta < 0
  /\ ~slot[cursor].looping
  /\ slot' = [slot EXCEPT ![cursor].remaining = @ - delta]
  /\ Invoked(slot[cursor].invoker, FALSE)
  /\ mode' = "call"
  /\ UNCHANGED <<size, free, cursor, delta, clock, issued, handle>>

FireOnceFreesNext ==
  /\ Runs /\ slot[cursor].remaining - delta < 0
  /\ ~slot[cursor].looping
  /\ slot' = [slot EXCEPT ![cursor].remaining = @ - delta, ![cursor].alive = FALSE]
  /\ free' = free \cup {cursor + 1}
  /\ Invoked(slot[cursor].invoker, FALSE)
  /\ mode' = "call"
  /\ UNCHANGED <<size, cursor, delta, clock, issued, handle>>

CallbackSkipsSlot ==
  /\ mode = "call"
  /\ mode' = "step" /\ cursor' = cursor + 2
  /\ UNCHANGED <<slots, delta, clock, tickets>>

\* A looping timer is reset before its callback is invoked ...
StepFireLooping ==
  /\ Runs /\ slot[cursor].remaining - delta < 0
  /\ slot[cursor].looping
  /\ slot' = [slot EXCEPT ![cursor].remaining = slot[cursor].length]
  /\ Invoked(slot[cursor].invoker, TRUE)
  /\ mode' = "call"
  /\ UNCHANGED <<size, free, cursor, delta, clock, issued, handle>>

\* ... and a one-shot one is killed, its slot free for what the callback sets.
StepFireOnce ==
  /\ Runs /\ slot[cursor].remaining - delta < 0
  /\ ~slot[cursor].looping
  /\ slot' = [slot EXCEPT ![cursor].remaining = @ - delta, ![cursor].alive = FALSE]
  /\ free' = free \cup {cursor}
  /\ Invoked(slot[cursor].invoker, FALSE)
  /\ mode' = "call"
  /\ UNCHANGED <<size, cursor, delta, clock, issued, handle>>

CallbackReturns ==
  /\ mode = "call"
  /\ mode' = "step" /\ cursor' = cursor + 1
  /\ UNCHANGED <<slots, delta, clock, tickets>>

StepEnd ==
  /\ mode = "step" /\ cursor >= size
  /\ mode' = "idle"
  /\ UNCHANGED <<slots, cursor, delta, clock, tickets>>

Step == \/ \E d \in Deltas : StepBegin(d)
        \/ StepSkip \/ StepTick \/ StepFireLooping \/ StepFireOnce
        \/ CallbackReturns \/ StepEnd

Next ==
  \/ Step
  \/ \E s \in Durations, l \in BOOLEAN : SetTimer(s, l)
  \/ \E k \in Tickets : PauseTimer(k) \/ CancelTimer(k)

Spec == Init /\ [][Next]_vars

\* The program as it is: nobody calls pause_timer or cancel_timer, and every
\* timer is a one-shot wait (os.cpp, timer_awaiter.cpp).
WaitNext == Step \/ \E s \in Durations : SetTimer(s, FALSE)
WaitSpec == Init /\ [][WaitNext]_vars

----------------------------------------------------------------------------
SlotType == [alive : BOOLEAN, paused : BOOLEAN, looping : BOOLEAN,
             remaining : Int, length : Nat, invoker : Tickets \cup {NoTicket}]

TypeOK ==
  /\ size \in 0 .. MaxSlots
  /\ slot \in [Slots -> SlotType]
  /\ free \subseteq Slots
  /\ mode \in {"idle", "step", "call"}
  /\ cursor \in Nat /\ delta \in Nat /\ clock \in Nat
  /\ issued \in 0 .. MaxTickets
  /\ handle \in [Tickets -> Nat]
  /\ due \in [Tickets -> Nat]
  /\ fired \in [Tickets -> Nat]
  /\ midwalk \subseteq Tickets /\ early \subseteq Tickets

\* free_instances_ lists exactly the dead slots of the vectors, whatever stale
\* handles were cancelled: set_timer never hands out a slot that is in use and
\* never forgets one.
FreeListExact == free = {i \in 0 .. size - 1 : ~slot[i].alive}

\* A callback that waits in a live slot is not replaced while it waits.
LiveSlotKept ==
  [][\A i \in Slots : slot[i].alive /\ slot'[i].alive
                        => slot'[i].invoker = slot[i].invoker]_vars

\* No live timer is past its time, between steps and inside callbacks alike:
\* one that passes 0 is fired on the spot, and a slot that is reused or reset
\* starts from its new length.
NoOverdue == \A i \in Slots : slot[i].alive => slot[i].remaining >= 0

\* co_await wait(s) resumes its coroutine at most once ...
ResumedOnce == \A k \in Tickets : fired[k] <= 1

\* ... and in the first step after the time has passed: a slot that is added or
\* reused while the walk is under way is not passed over.  Nor is it resumed
\* before ("The event callback will be called once the timer reaches 0",
\* timer_mgr.h), unless a callback set the timer in the middle of the walk, in
\* a slot still ahead, and step charged it the time before it was set.
ResumedInTime ==
  /\ mode = "idle" => \A k \in 1 .. issued : fired[k] = 0 => clock <= due[k]
  /\ early \subseteq midwalk
=============================================================================
