-------------------------------- MODULE Fifo --------------------------------
(* What a MessageQueue promises to those who use it from one thread: a        *)
(* first-in first-out queue.  The oldest message goes to one consumer, or to  *)
(* several at once when several wait; none is left out, none comes twice.     *)
(* The end of the queue is a last message, T{}, to whoever waits then.        *)
EXTENDS Naturals, Sequences

CONSTANT Consumers

Default == 0

VARIABLES
  pushed,       \* number of messages pushed; message n is the n-th
  pending,      \* messages nobody has been given, oldest first
  taken,        \* [Consumers]: the messages it was given, in order
  closed        \* the end has been announced

fifoVars == <<pushed, pending, taken, closed>>

Init ==
  /\ pushed = 0
  /\ pending = <<>>
  /\ taken = [c \in Consumers |-> <<>>]
  /\ closed = FALSE

Given(S, m) ==
  [c \in Consumers |-> IF c \in S THEN Append(taken[c], m) ELSE taken[c]]

Push ==
  /\ pushed' = pushed + 1
  /\ pending' = Append(pending, pushed + 1)
  /\ UNCHANGED <<taken, closed>>

Take(S) ==
  /\ pending # <<>> /\ S # {}
  /\ pending' = Tail(pending)
  /\ taken' = Given(S, Head(pending))
  /\ UNCHANGED <<pushed, closed>>

Close(S) ==
  /\ ~closed
  /\ closed' = TRUE
  /\ taken' = Given(S, Default)
  /\ UNCHANGED <<pushed, pending>>

Next == Push \/ \E S \in SUBSET Consumers : Take(S) \/ Close(S)

Spec == Init /\ [][Next]_fifoVars
=============================================================================
