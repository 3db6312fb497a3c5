-------------------------- MODULE TimerMgr_proofs --------------------------
(* For any number of slots, timers and any durations: the free list is exact, *)
(* no live timer is overdue and a waiting callback keeps its slot; and, in    *)
(* the program as it is, every wait is answered at most once and in time.     *)
EXTENDS TimerMgr, TLAPS, WellFoundedInduction

\* A set of numbers has a smallest one (< on Nat is well founded).
LEMMA LeastExists ==
  ASSUME NEW S \in SUBSET Nat, S # {}
  PROVE  \E i \in S : \A j \in S : i <= j
<1>1. PICK x \in S : \A y \in S : ~(<<y, x>> \in OpToRel(<, Nat))
  BY NatLessThanWellFounded, WFMin, Zenon
<1>2. \A y \in S : ~(y < x)
  BY <1>1, Zenon DEF OpToRel
<1> QED BY <1>2

\* Only a slot that set_timer filled is alive.
AliveIsFilled ==
  \A i \in Slots : slot[i].alive => i < size /\ slot[i].invoker \in Tickets

SlotInv == TypeOK /\ FreeListExact /\ NoOverdue /\ AliveIsFilled

----------------------------------------------------------------------------
\* The slot set_timer takes is dead, and it is a free one or the next.
LEMMA NewSlotDead ==
  ASSUME SlotInv, NewSlot < MaxSlots
  PROVE  /\ NewSlot \in Slots
         /\ ~slot[NewSlot].alive
         /\ IF free # {} THEN NewSlot \in free ELSE NewSlot = size
<1> USE ConstantsAssumption DEF SlotInv, TypeOK, Slots
<1>1. CASE free # {}
  <2>1. \E i \in free : \A j \in free : i <= j
    BY <1>1, LeastExists
  <2>2. NewSlot \in free
    BY <1>1, <2>1 DEF NewSlot
  <2> QED BY <1>1, <2>2 DEF FreeListExact
<1>2. CASE free = {}
  <2>1. NewSlot = size
    BY <1>2 DEF NewSlot
  <2> QED BY <1>2, <2>1 DEF AliveIsFilled
<1> QED BY <1>1, <1>2

LEMMA SlotInit == Init => SlotInv
  BY ConstantsAssumption DEF Init, SlotInv, TypeOK, FreeListExact, NoOverdue,
     AliveIsFilled, EmptySlot, SlotType, Slots, Tickets, NoTicket

\* What every step keeps: the invariant, and the callback of a live slot.
Kept ==
  /\ SlotInv'
  /\ \A i \in Slots : slot[i].alive /\ slot'[i].alive
                        => slot'[i].invoker = slot[i].invoker

\* set_timer fills one dead slot and takes it off the free list.
LEMMA SetTimerKeeps ==
  ASSUME SlotInv, NEW s \in Durations, NEW l \in BOOLEAN, SetTimer(s, l)
  PROVE  Kept
<1> DEFINE n == NewSlot
           filled == Filled(s, l)
<1> USE ConstantsAssumption
<1>1. /\ n \in Slots /\ ~slot[n].alive
      /\ IF free # {} THEN n \in free ELSE n = size
  BY NewSlotDead DEF SetTimer
<1>2. /\ slot' = [slot EXCEPT ![n] = filled]
      /\ size' = IF free # {} THEN size ELSE size + 1
      /\ free' = free \ {n}
      /\ issued' = issued + 1 /\ issued' \in Tickets
    BY DEF SetTimer, SlotInv, TypeOK, Tickets
<1>3. /\ filled \in SlotType /\ filled.alive /\ filled.remaining = s
      /\ filled.invoker \in Tickets
    BY <1>1, <1>2 DEF Filled, SlotType, SlotInv, TypeOK
<1> HIDE DEF n, filled
<1>4. TypeOK'
  <2>1. size' \in 0 .. MaxSlots /\ slot' \in [Slots -> SlotType] /\ free' \subseteq Slots
    BY <1>1, <1>2, <1>3 DEF SlotInv, TypeOK, Slots
  <2>2. n \in Nat /\ clock + s \in Nat
    BY <1>1 DEF SlotInv, TypeOK, Slots
  <2>3. handle' = [handle EXCEPT ![issued'] = n] /\ due' = [due EXCEPT ![issued'] = clock + s]
    BY <1>2 DEF SetTimer, n
  <2>4. handle' \in [Tickets -> Nat] /\ due' \in [Tickets -> Nat]
    BY <1>2, <2>2, <2>3 DEF SlotInv, TypeOK
  <2>5. issued' \in 0 .. MaxTickets
    BY <1>2 DEF Tickets
  <2> QED BY <2>1, <2>4, <2>5 DEF SetTimer, SlotInv, TypeOK, walk
<1>5. \A i \in Slots : i # n => slot'[i] = slot[i]
  BY <1>2 DEF SlotInv, TypeOK
<1>6. slot'[n] = filled
  BY <1>1, <1>2 DEF SlotInv, TypeOK
<1>7. FreeListExact'
  BY <1>1, <1>2, <1>3, <1>5, <1>6 DEF SlotInv, TypeOK, FreeListExact, Slots
<1>8. NoOverdue' /\ AliveIsFilled'
  BY <1>1, <1>2, <1>3, <1>5, <1>6
     DEF SlotInv, TypeOK, FreeListExact, NoOverdue, AliveIsFilled, Slots
<1> QED BY <1>1, <1>4, <1>5, <1>7, <1>8 DEF Kept, SlotInv

\* Every other step writes at most one slot: it may die, and is then free, but
\* it is not revived, keeps its callback and, alive, is not overdue.
SlotWritten(i) ==
  /\ slot' \in [Slots -> SlotType]
  /\ \A j \in Slots \ {i} : slot'[j] = slot[j]
  /\ slot'[i].invoker = slot[i].invoker
  /\ slot'[i].alive => slot[i].alive /\ slot'[i].remaining >= 0
  /\ free' = IF slot'[i].alive THEN free ELSE free \cup {i}
  /\ size' = size

LEMMA SlotWrittenKeeps ==
  ASSUME SlotInv, NEW i \in 0 .. size - 1, SlotWritten(i), TypeOK'
  PROVE  Kept
<1>1. i \in Slots /\ size \in Nat
  BY ConstantsAssumption DEF SlotInv, TypeOK, Slots
<1>2. \A j \in Slots : /\ slot'[j].invoker = slot[j].invoker
                        /\ slot'[j].alive => slot[j].alive /\ slot'[j].remaining >= 0
  BY DEF SlotWritten, SlotInv, NoOverdue
<1>3. NoOverdue' /\ AliveIsFilled'
  BY <1>2 DEF SlotInv, NoOverdue, AliveIsFilled, SlotWritten
<1>4. free' = {j \in 0 .. size - 1 : ~slot'[j].alive}
  <2>1. 0 .. size - 1 \subseteq Slots
    BY ConstantsAssumption DEF SlotInv, TypeOK, Slots
  <2>2. \A j \in 0 .. size - 1 : j # i => slot'[j] = slot[j]
    BY <2>1 DEF SlotWritten
  <2>3. slot'[i].alive => slot[i].alive
    BY DEF SlotWritten
  <2>4. CASE slot'[i].alive
    BY <2>2, <2>3, <2>4 DEF SlotWritten, SlotInv, FreeListExact
  <2>5. CASE ~slot'[i].alive
    <3>1. free' = free \cup {i}
      BY <2>5 DEF SlotWritten
    <3>2. \A j \in 0 .. size - 1 : ~slot'[j].alive <=> (j = i \/ ~slot[j].alive)
      BY <2>2, <2>5
    <3> QED BY <3>1, <3>2 DEF SlotInv, FreeListExact
  <2> QED BY <2>4, <2>5
<1> QED BY <1>2, <1>3, <1>4 DEF SlotInv, FreeListExact, SlotWritten, Kept

LEMMA StepKeeps == SlotInv /\ [Next]_vars => Kept
<1> SUFFICES ASSUME SlotInv, [Next]_vars PROVE Kept
  OBVIOUS
<1> USE ConstantsAssumption
<1>1. ASSUME NEW s \in Durations, NEW l \in BOOLEAN, SetTimer(s, l) PROVE Kept
  BY <1>1, SetTimerKeeps
<1>2. ASSUME NEW k \in Tickets, PauseTimer(k) PROVE Kept
  <2> DEFINE i == handle[k]
  <2>1. i \in 0 .. size - 1 /\ i \in Slots
    BY <1>2 DEF PauseTimer, ValidHandle, SlotInv, TypeOK, Slots
  <2>2. slot' = [slot EXCEPT ![i].paused = TRUE] /\ size' = size /\ free' = free
    BY <1>2 DEF PauseTimer
  <2> HIDE DEF i
  <2>3. SlotWritten(i)
    BY <2>1, <2>2 DEF SlotWritten, SlotInv, TypeOK, SlotType, FreeListExact, NoOverdue
  <2>4. TypeOK'
    BY <1>2, <2>3 DEF PauseTimer, walk, tickets, SlotWritten, SlotInv, TypeOK
  <2> QED BY <2>1, <2>3, <2>4, SlotWrittenKeeps
<1>3. ASSUME NEW k \in Tickets, CancelTimer(k) PROVE Kept
  <2> DEFINE i == handle[k]
  <2>1. i \in 0 .. size - 1 /\ i \in Slots
    BY <1>3 DEF CancelTimer, ValidHandle, SlotInv, TypeOK, Slots
  <2>2. slot' = [slot EXCEPT ![i].alive = FALSE] /\ size' = size /\ free' = free \cup {i}
    BY <1>3 DEF CancelTimer, Killed
  <2> HIDE DEF i
  <2>3. SlotWritten(i)
    BY <2>1, <2>2 DEF SlotWritten, SlotInv, TypeOK, SlotType
  <2>4. TypeOK'
    BY <1>3, <2>1, <2>2, <2>3 DEF CancelTimer, walk, tickets, SlotWritten, SlotInv, TypeOK
  <2> QED BY <2>1, <2>3, <2>4, SlotWrittenKeeps
<1>4. ASSUME (\E d \in Deltas : StepBegin(d)) \/ StepSkip \/ CallbackReturns \/ StepEnd
      PROVE  Kept
  <2>1. TypeOK'
    BY <1>4 DEF StepBegin, StepSkip, CallbackReturns, StepEnd, slots, tickets,
       SlotInv, TypeOK
  <2> QED BY <1>4, <2>1 DEF StepBegin, StepSkip, CallbackReturns, StepEnd, slots,
       Kept, SlotInv, FreeListExact, NoOverdue, AliveIsFilled
<1>5. CASE StepTick
  <2>1. cursor \in 0 .. size - 1 /\ cursor \in Slots /\ delta \in Nat
    BY <1>5 DEF StepTick, Runs, SlotInv, TypeOK, Slots
  <2>2. slot[cursor].remaining - delta \in Nat /\ slot[cursor].alive
    BY <1>5, <2>1 DEF StepTick, Runs, SlotInv, TypeOK, SlotType
  <2>3. slot' = [slot EXCEPT ![cursor].remaining = @ - delta]
    BY <1>5 DEF StepTick
  <2>4. SlotWritten(cursor)
    BY <1>5, <2>1, <2>2, <2>3 DEF StepTick, SlotWritten, SlotInv, TypeOK, SlotType
  <2>5. TypeOK'
    BY <1>5, <2>4 DEF StepTick, tickets, SlotWritten, SlotInv, TypeOK
  <2> QED BY <2>1, <2>4, <2>5, SlotWrittenKeeps
<1>6. CASE StepFireLooping
  <2>1. cursor \in 0 .. size - 1 /\ cursor \in Slots /\ slot[cursor].alive
    BY <1>6 DEF StepFireLooping, Runs, SlotInv, TypeOK, Slots
  <2>2. slot[cursor].length \in Nat /\ slot[cursor].invoker \in Tickets
    BY <2>1 DEF SlotInv, TypeOK, SlotType, AliveIsFilled
  <2>3. SlotWritten(cursor)
    BY <1>6, <2>1, <2>2 DEF StepFireLooping, SlotWritten, SlotInv, TypeOK, SlotType
  <2>4. TypeOK'
    BY <1>6, <2>2, <2>3 DEF StepFireLooping, Invoked, SlotWritten, SlotInv, TypeOK
  <2> QED BY <2>1, <2>3, <2>4, SlotWrittenKeeps
<1>7. CASE StepFireOnce
  <2>1. cursor \in 0 .. size - 1 /\ cursor \in Slots
    BY <1>7 DEF StepFireOnce, Runs, SlotInv, TypeOK, Slots
  <2>2. slot[cursor].remaining - delta \in Int /\ slot[cursor].invoker \in Tickets
    BY <1>7, <2>1 DEF StepFireOnce, Runs, SlotInv, TypeOK, SlotType, AliveIsFilled
  <2>3. SlotWritten(cursor)
    BY <1>7, <2>1, <2>2 DEF StepFireOnce, SlotWritten, SlotInv, TypeOK, SlotType
  <2>4. TypeOK'
    BY <1>7, <2>1, <2>2, <2>3 DEF StepFireOnce, Invoked, SlotWritten, SlotInv, TypeOK
  <2> QED BY <2>1, <2>3, <2>4, SlotWrittenKeeps
<1>8. CASE UNCHANGED vars
  BY <1>8 DEF vars, Kept, SlotInv, TypeOK, FreeListExact, NoOverdue, AliveIsFilled
<1> QED BY <1>1, <1>2, <1>3, <1>4, <1>5, <1>6, <1>7, <1>8 DEF Next, Step

----------------------------------------------------------------------------
LEMMA SlotInvariant == Spec => []SlotInv
  BY SlotInit, StepKeeps, PTL DEF Spec, Kept

\* Every timer is in the range of its vectors (world/timer_mgr.h).
THEOREM TypesHold == Spec => []TypeOK
<1>1. SlotInv => TypeOK
  BY DEF SlotInv
<1> QED BY <1>1, SlotInvariant, PTL

\* free_instances_ lists exactly the dead slots (set_timer, kill_timer_internal).
THEOREM FreeListIsExact == Spec => []FreeListExact
<1>1. SlotInv => FreeListExact
  BY DEF SlotInv
<1> QED BY <1>1, SlotInvariant, PTL

\* No live timer is past its time (TimerManager::step fires it on the spot).
THEOREM NothingOverdue == Spec => []NoOverdue
<1>1. SlotInv => NoOverdue
  BY DEF SlotInv
<1> QED BY <1>1, SlotInvariant, PTL

\* The callback in a live slot is not replaced while it waits (set_timer).
THEOREM WaitingCallbackKept == Spec => LiveSlotKept
<1>1. SlotInv /\ [Next]_vars
        => [\A i \in Slots : slot[i].alive /\ slot'[i].alive
                               => slot'[i].invoker = slot[i].invoker]_vars
  BY StepKeeps DEF Kept
<1> QED BY <1>1, SlotInvariant, PTL DEF Spec, LiveSlotKept

----------------------------------------------------------------------------
\* The walk has still to take delta off the slot.
Unvisited(i) == (mode = "step" /\ i >= cursor) \/ (mode = "call" /\ i > cursor)

\* Ticket k waits in its slot.
Waits(k) == /\ handle[k] \in 0 .. size - 1
            /\ slot[handle[k]].alive
            /\ slot[handle[k]].invoker = k

\* The slot's count and the clock agree on when the ticket is due; one that was
\* set in the middle of a walk may be due later than its slot's count says.
InTime(k) ==
  LET left == slot[handle[k]].remaining + clock
      allowed == due[k] + (IF Unvisited(handle[k]) THEN delta ELSE 0)
  IN left <= allowed /\ (k \notin midwalk => left = allowed)

\* Every ticket was fired once or waits in a slot of its own, where it counts
\* down to its time.
TicketInv ==
  /\ \A i \in Slots : ~slot[i].looping /\ ~slot[i].paused
  /\ \A i \in Slots : slot[i].alive =>
        /\ slot[i].invoker \in 1 .. issued
        /\ handle[slot[i].invoker] = i
        /\ fired[slot[i].invoker] = 0
  /\ \A k \in Tickets : fired[k] <= 1 /\ (k > issued => fired[k] = 0)
  /\ \A k \in 1 .. issued : fired[k] = 0 => Waits(k) /\ InTime(k)
  /\ early \subseteq midwalk

LEMMA TicketInit == Init => TicketInv
  BY ConstantsAssumption DEF Init, TicketInv, EmptySlot, Slots, Tickets

\* set_timer issues a ticket for a dead slot; those that wait keep theirs.
LEMMA SetTimerKeepsTickets ==
  ASSUME SlotInv, TicketInv, NEW s \in Durations, SetTimer(s, FALSE)
  PROVE  TicketInv'
<1> DEFINE n == NewSlot
           k == issued + 1
<1> USE ConstantsAssumption
<1>1. n \in Slots /\ ~slot[n].alive /\ n \in 0 .. size' - 1 /\ size <= size'
  BY NewSlotDead DEF SetTimer, SlotInv, TypeOK, FreeListExact, Slots
<1>2. /\ k \in Tickets /\ issued' = k /\ issued \in Nat
      /\ slot'[n].alive /\ slot'[n].invoker = k /\ slot'[n].remaining = s
      /\ ~slot'[n].looping /\ ~slot'[n].paused
      /\ handle'[k] = n /\ due'[k] = clock + s
  BY <1>1 DEF SetTimer, Filled, SlotInv, TypeOK, Tickets, TicketInv
<1>3. /\ \A i \in Slots \ {n} : slot'[i] = slot[i]
      /\ \A j \in Tickets \ {k} : handle'[j] = handle[j] /\ due'[j] = due[j]
      /\ fired' = fired /\ mode' = mode /\ cursor' = cursor
      /\ delta' = delta /\ clock' = clock /\ early' = early
      /\ midwalk \subseteq midwalk' /\ midwalk' \subseteq midwalk \cup {k}
      /\ mode # "idle" => k \in midwalk'
  BY DEF SetTimer, SlotInv, TypeOK, walk
<1>4. s \in Nat /\ clock \in Nat /\ delta \in Nat /\ size \in Nat /\ size' \in Nat
  BY DEF SetTimer, SlotInv, TypeOK
<1> HIDE DEF n
<1>5. \A j \in 1 .. issued : j \in Tickets \ {k}
  BY <1>2 DEF Tickets
<1>6. \A i \in Slots : slot'[i].alive =>
        slot'[i].invoker \in 1 .. issued' /\ handle'[slot'[i].invoker] = i
          /\ fired'[slot'[i].invoker] = 0
  <2> SUFFICES ASSUME NEW i \in Slots, slot'[i].alive
               PROVE  slot'[i].invoker \in 1 .. issued' /\ handle'[slot'[i].invoker] = i
                        /\ fired'[slot'[i].invoker] = 0
    OBVIOUS
  <2>1. CASE i = n
    BY <1>2, <1>3, <2>1 DEF TicketInv
  <2>2. CASE i # n
    BY <1>2, <1>3, <1>5, <2>2 DEF TicketInv
  <2> QED BY <2>1, <2>2
<1>7. ASSUME NEW j \in 1 .. issued', fired'[j] = 0 PROVE Waits(j)' /\ InTime(j)'
  <2>1. CASE j = k
    <3>1. Waits(j)'
      BY <1>1, <1>2, <2>1 DEF Waits
    <3>2. slot'[handle'[j]].remaining = s /\ due'[j] = clock + s
      BY <1>2, <2>1
    <3> QED BY <1>3, <1>4, <2>1, <3>1, <3>2 DEF InTime, Unvisited
  <2>2. CASE j # k
    <3>1. j \in 1 .. issued
      BY <1>2, <2>2
    <3>2. Waits(j) /\ InTime(j) /\ handle[j] \in Slots
      BY <1>3, <1>7, <3>1 DEF TicketInv, Waits, SlotInv, TypeOK, Slots
    <3>3. handle[j] # n
      BY <1>1, <3>2 DEF Waits
    <3>4. /\ handle'[j] = handle[j] /\ due'[j] = due[j]
          /\ slot'[handle'[j]] = slot[handle[j]]
      BY <1>3, <1>5, <3>1, <3>2, <3>3
    <3>5. handle[j] \in 0 .. size' - 1
      BY <1>1, <1>4, <3>2 DEF Waits
    <3> QED BY <1>3, <3>2, <3>4, <3>5 DEF Waits, InTime, Unvisited
  <2> QED BY <2>1, <2>2
<1>8. \A j \in Tickets : fired'[j] <= 1 /\ (j > issued' => fired'[j] = 0)
  BY <1>2, <1>3 DEF TicketInv, Tickets
<1>9. \A i \in Slots : ~slot'[i].looping /\ ~slot'[i].paused
  BY <1>2, <1>3 DEF TicketInv
<1>10. early' \subseteq midwalk'
  BY <1>3 DEF TicketInv
<1> QED BY <1>6, <1>7, <1>8, <1>9, <1>10 DEF TicketInv

\* A step of the walk that invokes nothing only moves the count of its slot.
LEMMA WalkKeepsTickets ==
  ASSUME SlotInv, TicketInv,
         (\E d \in Deltas : StepBegin(d)) \/ StepSkip \/ StepTick
           \/ CallbackReturns \/ StepEnd
  PROVE  TicketInv'
<1> USE ConstantsAssumption
<1>1. /\ size' = size /\ issued' = issued /\ handle' = handle /\ due' = due
      /\ fired' = fired /\ midwalk' = midwalk /\ early' = early
  BY DEF StepBegin, StepSkip, StepTick, CallbackReturns, StepEnd, slots, tickets
<1>2. \A i \in Slots : /\ slot'[i].alive = slot[i].alive
                       /\ slot'[i].invoker = slot[i].invoker
                       /\ slot'[i].looping = slot[i].looping
                       /\ slot'[i].paused = slot[i].paused
  BY DEF StepBegin, StepSkip, StepTick, CallbackReturns, StepEnd, slots,
     SlotInv, TypeOK, SlotType
<1>3. ASSUME NEW k \in 1 .. issued, fired[k] = 0 PROVE Waits(k)' /\ InTime(k)'
  <2> DEFINE h == handle[k]
  <2>1. Waits(k) /\ InTime(k)
    BY <1>3 DEF TicketInv
  <2>2. h \in Slots /\ h \in 0 .. size - 1 /\ slot[h].alive /\ slot[h].paused = FALSE
    BY <2>1 DEF Waits, TicketInv, SlotInv, TypeOK, Slots, SlotType
  <2>3. /\ slot[h].remaining \in Int /\ clock \in Nat /\ delta \in Nat /\ cursor \in Nat
        /\ due[k] \in Nat /\ size \in Nat
    BY <2>2, <1>3 DEF SlotInv, TypeOK, SlotType, Tickets
  <2>4. handle'[k] = h /\ due'[k] = due[k] /\ midwalk' = midwalk
    BY <1>1
  <2>5. Waits(k)'
    BY <1>1, <1>2, <2>1, <2>2 DEF Waits
  <2> HIDE DEF h
  <2> USE <2>1, <2>2, <2>3, <2>4 DEF InTime, Unvisited
  <2>6. ASSUME NEW d \in Deltas, StepBegin(d) PROVE InTime(k)'
    <3>1. d \in Nat /\ slot' = slot /\ delta' = d /\ clock' = clock + d
            /\ mode = "idle" /\ mode' = "step" /\ cursor' = 0
      BY <2>6 DEF StepBegin, slots
    <3> QED BY <2>5, <3>1 DEF h
  <2>7. CASE StepSkip
    <3>1. cursor # h /\ slot' = slot /\ delta' = delta /\ clock' = clock
            /\ mode = "step" /\ mode' = mode /\ cursor' = cursor + 1
      BY <2>7 DEF StepSkip, slots
    <3> QED BY <2>5, <3>1 DEF h
  <2>8. CASE StepTick
    <3>1. slot'[h].remaining = IF h = cursor THEN slot[h].remaining - delta
                               ELSE slot[h].remaining
      BY <2>8 DEF StepTick, SlotInv, TypeOK, SlotType
    <3>2. delta' = delta /\ clock' = clock
            /\ mode = "step" /\ mode' = mode /\ cursor' = cursor + 1
      BY <2>8 DEF StepTick, Runs
    <3> QED BY <2>5, <3>1, <3>2 DEF h
  <2>9. CASE CallbackReturns
    <3>1. slot' = slot /\ delta' = delta /\ clock' = clock
            /\ mode = "call" /\ mode' = "step" /\ cursor' = cursor + 1
      BY <2>9 DEF CallbackReturns, slots
    <3> QED BY <2>5, <3>1 DEF h
  <2>10. CASE StepEnd
    <3>1. slot' = slot /\ delta' = delta /\ clock' = clock
            /\ mode = "step" /\ mode' = "idle" /\ cursor >= size
      BY <2>10 DEF StepEnd, slots
    <3> QED BY <2>5, <3>1 DEF h
  <2> QED BY <2>5, <2>6, <2>7, <2>8, <2>9, <2>10
<1> QED BY <1>1, <1>2, <1>3 DEF TicketInv

\* The ticket that is fired is the one that waits in the slot, which is freed.
LEMMA FireKeepsTickets ==
  ASSUME SlotInv, TicketInv, StepFireOnce
  PROVE  TicketInv'
<1> DEFINE f == slot[cursor].invoker
<1> USE ConstantsAssumption
<1>1. cursor \in Slots /\ slot[cursor].alive /\ mode = "step"
  BY DEF StepFireOnce, Runs, SlotInv, TypeOK, Slots
<1>2. f \in 1 .. issued /\ f \in Tickets /\ handle[f] = cursor /\ fired[f] = 0
  BY <1>1 DEF TicketInv, SlotInv, AliveIsFilled
<1>3. /\ size' = size /\ issued' = issued /\ handle' = handle /\ due' = due
      /\ clock' = clock /\ delta' = delta /\ cursor' = cursor /\ mode' = "call"
      /\ fired' = [fired EXCEPT ![f] = @ + 1] /\ midwalk' = midwalk
      /\ early' = IF clock < due[f] THEN early \cup {f} ELSE early
  BY DEF StepFireOnce, Invoked
<1>4. slot[cursor].remaining - delta \in Int
  BY <1>1 DEF SlotInv, TypeOK, SlotType
<1>5. /\ ~slot'[cursor].alive
      /\ \A i \in Slots : /\ i # cursor => slot'[i] = slot[i]
                          /\ slot'[i].looping = slot[i].looping
                          /\ slot'[i].paused = slot[i].paused
  BY <1>1, <1>4 DEF StepFireOnce, SlotInv, TypeOK, SlotType
<1>6. /\ fired'[f] = 1
      /\ \A k \in Tickets : k # f => fired'[k] = fired[k]
  BY <1>2, <1>3 DEF SlotInv, TypeOK
\* A ticket that was not set in the walk has been charged what has passed.
<1>11. clock < due[f] => f \in midwalk
  <2>1. InTime(f) /\ Unvisited(handle[f]) /\ slot[cursor].remaining - delta < 0
    BY <1>1, <1>2 DEF TicketInv, Unvisited, StepFireOnce, SlotInv, TypeOK, Slots
  <2>2. /\ slot[cursor].remaining \in Int /\ delta \in Nat /\ clock \in Nat
        /\ due[f] \in Nat
    BY <1>1, <1>2 DEF SlotInv, TypeOK, SlotType
  <2> QED BY <1>2, <2>1, <2>2 DEF InTime
<1>12. early' \subseteq midwalk'
  BY <1>3, <1>11 DEF TicketInv
<1> HIDE DEF f
<1>7. ASSUME NEW i \in Slots, slot'[i].alive
      PROVE  slot'[i].invoker \in 1 .. issued /\ handle[slot'[i].invoker] = i
               /\ fired'[slot'[i].invoker] = 0
  <2>1. i # cursor /\ slot'[i] = slot[i] /\ slot[i].alive
    BY <1>5, <1>7
  <2>2. slot[i].invoker \in 1 .. issued /\ handle[slot[i].invoker] = i
          /\ fired[slot[i].invoker] = 0 /\ slot[i].invoker \in Tickets
    BY <2>1 DEF TicketInv, SlotInv, AliveIsFilled
  <2> QED BY <1>2, <1>6, <2>1, <2>2
<1>8. ASSUME NEW k \in 1 .. issued, fired'[k] = 0 PROVE Waits(k)' /\ InTime(k)'
  <2>1. k \in Tickets /\ k # f
    BY <1>6, <1>8 DEF SlotInv, TypeOK, Tickets
  <2>2. Waits(k) /\ InTime(k)
    BY <1>6, <1>8, <2>1 DEF TicketInv
  <2>3. handle[k] # cursor /\ handle[k] \in Slots /\ handle[k] \in Int /\ cursor \in Int
    BY <2>1, <2>2 DEF Waits, SlotInv, TypeOK, Slots, f
  <2> QED BY <1>1, <1>3, <1>5, <2>2, <2>3 DEF Waits, InTime, Unvisited
<1>9. \A k \in Tickets : fired'[k] <= 1 /\ (k > issued => fired'[k] = 0)
  BY <1>2, <1>6 DEF TicketInv, SlotInv, TypeOK, Tickets
<1>10. \A i \in Slots : ~slot'[i].looping /\ ~slot'[i].paused
  BY <1>5 DEF TicketInv
<1> QED BY <1>3, <1>7, <1>8, <1>9, <1>10, <1>12 DEF TicketInv

LEMMA TicketStep == SlotInv /\ TicketInv /\ [WaitNext]_vars => (SlotInv /\ TicketInv)'
<1> SUFFICES ASSUME SlotInv, TicketInv, [WaitNext]_vars PROVE (SlotInv /\ TicketInv)'
  OBVIOUS
<1>1. SlotInv'
  <2>1. WaitNext => Next
    BY DEF WaitNext, Next
  <2> QED BY <2>1, StepKeeps DEF Kept
<1>2. ASSUME NEW s \in Durations, SetTimer(s, FALSE) PROVE TicketInv'
  BY <1>2, SetTimerKeepsTickets
<1>3. CASE StepFireOnce
  BY <1>1, <1>3, FireKeepsTickets
<1>4. CASE StepFireLooping
  BY <1>4, ConstantsAssumption
     DEF StepFireLooping, Runs, TicketInv, SlotInv, TypeOK, Slots
<1>5. ASSUME (\E d \in Deltas : StepBegin(d)) \/ StepSkip \/ StepTick
               \/ CallbackReturns \/ StepEnd
      PROVE  TicketInv'
  BY <1>5, WalkKeepsTickets
<1>6. CASE UNCHANGED vars
  <2>1. \A k : Waits(k)' = Waits(k) /\ InTime(k)' = InTime(k)
    BY <1>6 DEF vars, Waits, InTime, Unvisited
  <2> QED BY <1>1, <1>6, <2>1 DEF vars, TicketInv
<1> QED BY <1>1, <1>2, <1>3, <1>4, <1>5, <1>6 DEF WaitNext, Step

LEMMA TicketInvariant == WaitSpec => [](SlotInv /\ TicketInv)
  BY SlotInit, TicketInit, TicketStep, PTL DEF WaitSpec

\* co_await wait(s) resumes its coroutine at most once (TimerAwaiter, step).
THEOREM ResumedAtMostOnce == WaitSpec => []ResumedOnce
<1>1. TicketInv => ResumedOnce
  BY DEF TicketInv, ResumedOnce
<1> QED BY <1>1, TicketInvariant, PTL

\* ... and in the first step after its time, wherever in the walk the timer was
\* set; before its time only if it was set in the middle of a walk
\* (TimerManager::step, set_timer).
THEOREM ResumedOnTime == WaitSpec => []ResumedInTime
<1>1. SlotInv /\ TicketInv => ResumedInTime
  <2> SUFFICES ASSUME SlotInv, TicketInv PROVE ResumedInTime
    OBVIOUS
  <2>1. ASSUME mode = "idle", NEW k \in 1 .. issued, fired[k] = 0
        PROVE  clock <= due[k]
    <3>1. slot[handle[k]].remaining + clock <= due[k] + 0 /\ Waits(k)
      BY <2>1 DEF TicketInv, InTime, Unvisited
    <3>2. handle[k] \in Slots /\ k \in Tickets
      BY <3>1, ConstantsAssumption DEF Waits, SlotInv, TypeOK, Slots, Tickets
    <3>3. slot[handle[k]].remaining \in Nat
      BY <3>1, <3>2 DEF Waits, SlotInv, NoOverdue, TypeOK, SlotType
    <3> QED BY <3>1, <3>2, <3>3 DEF SlotInv, TypeOK
  <2>2. early \subseteq midwalk
    BY DEF TicketInv
  <2> QED BY <2>1, <2>2 DEF ResumedInTime
<1> QED BY <1>1, TicketInvariant, PTL
=============================================================================
