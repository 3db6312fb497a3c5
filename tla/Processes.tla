----------------------------- MODULE Processes -----------------------------
(* utils/race_awaiter, utils/task, tech/proc, tech/os and the programs that   *)
(* start, wait, read and kill: the processes behind one terminal.             *)
(*                                                                            *)
(* A process suspends in a race (when_any): its timer, or a line of input,    *)
(* against the signals sent to it.  The first to complete resumes it; the     *)
(* others stay registered where they wait.  A process without a reader of     *)
(* its own reads through its host, so its read is a race inside a race, each  *)
(* registered for the signals of its own process.                             *)
(*                                                                            *)
(* Everything runs on one thread and one stack: resuming a coroutine is a     *)
(* call that returns when it suspends again or ends.  The stack is a variable *)
(* and each of its frames (a process that runs, a walk over callbacks, the    *)
(* end of a process) is taken step by step.                                   *)
EXTENDS Integers, Sequences, SequencesExt

CONSTANTS MaxPid,     \* bound on processes; pids are never used again
          MaxRaces,   \* bound on races
          MaxLines    \* bound on lines typed

ASSUME BoundsAssumption ==
  MaxPid \in Nat \ {0} /\ MaxRaces \in Nat /\ MaxLines \in Nat

Pids == 1 .. MaxPid
Shell == 1            \* the process with a reader; it runs Programs::CmdShell
NoHost == 0
Loose == 0            \* a callback that was registered after its race was over

VARIABLES
  status,       \* [Pids]
  result,       \* [Pids]: what the last thing it awaited gave it
  host,         \* [Pids]: Proc::host
  background,   \* processes run with "&"
  signals,      \* [Pids]: signal_callbacks_
  races,        \* the races so far: process, kind, the races around it, done
  timers,       \* races whose timer is set
  parked,       \* the callbacks of the queue the terminal's reader pops
  lines,        \* lines in that queue
  typed,        \* lines typed so far
  stack,        \* the frames of the thread, innermost first
  interrupted   \* a read was interrupted since the last line

vars == <<status, result, host, background, signals, races, timers, parked,
          lines, typed, stack, interrupted>>

Run(p) == [k |-> "run", p |-> p]
Late(p) == [k |-> "late", p |-> p]
Exiting(p) == [k |-> "exit", p |-> p]
Signalling(p, fns) == [k |-> "signal", p |-> p, todo |-> fns]
Pushing(fns) == [k |-> "push", todo |-> fns, taken |-> FALSE, spoilt |-> interrupted]

Runs(p) == stack # <<>> /\ Head(stack) = Run(p)
On(kind) == stack # <<>> /\ Head(stack).k = kind
Below == Tail(stack)

Created == {p \in Pids : status[p] # "none"}
Live == {p \in Created : status[p] # "ended"}

\* p, its host, the host of that, up to the one with the reader.
Chain(p) ==
  LET chain[q \in Pids] ==
        IF host[q] = NoHost THEN <<q>> ELSE <<q>> \o chain[host[q]]
  IN chain[p]

HostsLive(p) == \A q \in ToSet(Tail(Chain(p))) : status[q] # "ended"

\* run_process for the shell, whose first act is to prompt and read.
Init ==
  /\ status = [p \in Pids |-> IF p = Shell THEN "running" ELSE "none"]
  /\ result = [p \in Pids |-> "start"]
  /\ host = [p \in Pids |-> NoHost]
  /\ background = {}
  /\ signals = [p \in Pids |-> <<>>]
  /\ races = <<>> /\ timers = {} /\ parked = <<>>
  /\ lines = 0 /\ typed = 0
  /\ stack = <<Run(Shell)>>
  /\ interrupted = FALSE

----------------------------------------------------------------------------
\* when_any.  path is the race and the races its result goes on to, the
\* outermost, which is the process's own, last.
Open(r) == ~races[r].done
Race(p, kind, path) == [proc |-> p, kind |-> kind, path |-> path, done |-> FALSE]

\* An awaitable of race r completes: the race settles unless another one came
\* first; its continuation ends the read, which is an awaitable of the race
\* around it; the last continuation is the process.
Reaches(r) == \A x \in ToSet(races[r].path) : Open(x)
Settles(r) ==
  {races[r].path[i] : i \in {j \in DOMAIN races[r].path :
                               \A k \in 1 .. j : Open(races[r].path[k])}}
Waiter(r) == races[Last(races[r].path)].proc

\* Mutant: completed is not tested.
CompleteAgain(r, res, rest) ==
  /\ races' = [x \in DOMAIN races |->
                 [races[x] EXCEPT !.done = @ \/ x \in ToSet(races[r].path)]]
  /\ status' = [status EXCEPT ![Waiter(r)] = "running"]
  /\ result' = [result EXCEPT ![Waiter(r)] = res]
  /\ stack' = <<Run(Waiter(r))>> \o rest

Complete(r, res, rest) ==
  /\ races' = [x \in DOMAIN races |->
                 [races[x] EXCEPT !.done = @ \/ x \in Settles(r)]]
  /\ IF Reaches(r)
       THEN /\ status' = [status EXCEPT ![Waiter(r)] = "running"]
            /\ result' = [result EXCEPT ![Waiter(r)] = res]
            /\ stack' = <<Run(Waiter(r))>> \o rest
       ELSE stack' = rest /\ UNCHANGED <<status, result>>

----------------------------------------------------------------------------
\* What a program does next, given what it got.
MayRead(p) == IF p = Shell THEN result[p] \in {"start", "line", "done"}
              ELSE result[p] \in {"start", "line", "eintr"}
MayWait(p) == p # Shell /\ result[p] \in {"start", "ok"}
MayKill(p) == p # Shell /\ result[p] = "start"
MayExec(p) == result[p] = "line"
AtBound(p) == Len(races) + Len(Chain(p)) > MaxRaces
MayEnd(p) == \/ p # Shell
             \/ p = Shell /\ (result[p] \in {"line", "eintr"} \/ AtBound(p))

\* Proc::wait: the timer, then the signals.
Wait(p) ==
  LET r == Len(races) + 1 IN
  /\ Runs(p) /\ HostsLive(p) /\ MayWait(p)
  /\ r <= MaxRaces
  /\ races' = Append(races, Race(p, "wait", <<r>>))
  /\ timers' = timers \cup {r}
  /\ signals' = [signals EXCEPT ![p] = Append(@, r)]
  /\ status' = [status EXCEPT ![p] = "waiting"]
  /\ stack' = Below
  /\ UNCHANGED <<result, host, background, parked, lines, typed, interrupted>>

\* Proc::read on an empty queue: a race for every process of the chain.
ReadParks(p) ==
  LET chain == Chain(p)
      n == Len(races)
      path(i) == [j \in 1 .. i |-> n + i + 1 - j]
  IN
  /\ Runs(p) /\ HostsLive(p) /\ MayRead(p)
  /\ lines = 0
  /\ ~AtBound(p)
  /\ races' = races \o [i \in DOMAIN chain |-> Race(chain[i], "read", path(i))]
  /\ signals' = [q \in Pids |->
                   signals[q] \o [i \in 1 .. (IF q \in ToSet(chain) THEN 1 ELSE 0) |->
                                    n + (CHOOSE j \in DOMAIN chain : chain[j] = q)]]
  /\ parked' = Append(parked, n + Len(chain))
  /\ status' = [status EXCEPT ![p] = "reading"]
  /\ stack' = Below
  /\ UNCHANGED <<result, host, background, timers, lines, typed, interrupted>>

\* Proc::read when a line is there: start_one<0> completes each race on the
\* spot, and start_one<1> runs after the race is gone: for the hosts at once,
\* for p when p suspends or ends.
ReadQueued(p) ==
  /\ Runs(p) /\ HostsLive(p) /\ MayRead(p)
  /\ lines > 0 /\ lines' = lines - 1
  /\ signals' = [q \in Pids |-> IF q \in ToSet(Tail(Chain(p)))
                                  THEN Append(signals[q], Loose) ELSE signals[q]]
  /\ result' = [result EXCEPT ![p] = "line"]
  /\ stack' = <<Run(p), Late(p)>> \o Below
  /\ UNCHANGED <<status, host, background, races, timers, parked, typed, interrupted>>

\* The late start_one<1> of a read; on the memory of a process that has ended
\* it has no effect this model could follow.
StartLate ==
  /\ On("late")
  /\ signals' = IF status[Head(stack).p] = "ended" THEN signals
                ELSE [signals EXCEPT ![Head(stack).p] = Append(@, Loose)]
  /\ stack' = Below
  /\ UNCHANGED <<status, result, host, background, races, timers, parked,
                 lines, typed, interrupted>>

\* exec and run_process: the caller awaits the new process, or, with "&", goes
\* on when it first suspends.
Born(p, q) ==
  /\ status[q] = "none" /\ \A x \in 1 .. q - 1 : status[x] # "none"
  /\ host' = [host EXCEPT ![q] = p]
  /\ UNCHANGED <<signals, races, timers, parked, lines, typed, interrupted>>

\* Mutant: run_process is not awaited.
ExecUnawaited(p, q) ==
  /\ Runs(p) /\ HostsLive(p) /\ MayExec(p)
  /\ Born(p, q)
  /\ status' = [status EXCEPT ![q] = "running"]
  /\ result' = [result EXCEPT ![p] = "done"]
  /\ stack' = <<Run(q)>> \o stack
  /\ UNCHANGED background

Exec(p, q) ==
  /\ Runs(p) /\ HostsLive(p) /\ MayExec(p)
  /\ Born(p, q)
  /\ status' = [status EXCEPT ![p] = "joined", ![q] = "running"]
  /\ stack' = <<Run(q)>> \o Below
  /\ UNCHANGED <<result, background>>

ExecBackground(p, q) ==
  /\ Runs(p) /\ p = Shell /\ MayExec(p)
  /\ Born(p, q)
  /\ background' = background \cup {q}
  /\ status' = [status EXCEPT ![q] = "running"]
  /\ result' = [result EXCEPT ![p] = "done"]
  /\ stack' = <<Run(q)>> \o stack

----------------------------------------------------------------------------
\* Proc::signal swaps the callbacks out and calls them one by one.
Kill(p, q) ==
  /\ Runs(p) /\ HostsLive(p) /\ MayKill(p)
  /\ q \in Live
  /\ result' = [result EXCEPT ![p] = "done"]
  /\ signals' = [signals EXCEPT ![q] = <<>>]
  /\ stack' = <<Signalling(q, signals[q])>> \o stack
  /\ UNCHANGED <<status, host, background, races, timers, parked, lines, typed,
                 interrupted>>

SignalCall ==
  LET fns == Head(stack).todo
      rest == <<Signalling(Head(stack).p, Tail(fns))>> \o Below
  IN
  /\ On("signal") /\ fns # <<>>
  /\ Head(fns) # Loose
  /\ Complete(Head(fns), "eintr", rest)
  /\ interrupted' = (interrupted \/ (races[Head(fns)].kind = "read" /\ Open(Head(fns))))
  /\ UNCHANGED <<host, background, signals, timers, parked, lines, typed>>

\* A loose callback reads the state of a race that was freed: it finds nothing
\* to do, or a race that has been given that memory since.
SignalLoose ==
  LET fns == Head(stack).todo
      rest == <<Signalling(Head(stack).p, Tail(fns))>> \o Below
  IN
  /\ On("signal") /\ fns # <<>>
  /\ Head(fns) = Loose
  /\ \/ /\ stack' = rest
        /\ UNCHANGED <<status, result, races, interrupted>>
     \/ \E r \in DOMAIN races :
          /\ Open(r) /\ races[r].kind = "read"
          /\ Complete(r, "eintr", rest)
          /\ interrupted' = TRUE
  /\ UNCHANGED <<host, background, signals, timers, parked, lines, typed>>

\* Mutant: the list is cleared after the walk instead of swapped before it.
SignalClears ==
  /\ On("signal") /\ Head(stack).todo = <<>>
  /\ signals' = [signals EXCEPT ![Head(stack).p] = <<>>]
  /\ stack' = Below
  /\ UNCHANGED <<status, result, host, background, races, timers, parked,
                 lines, typed, interrupted>>

SignalReturn ==
  /\ On("signal") /\ Head(stack).todo = <<>>
  /\ stack' = Below
  /\ UNCHANGED <<status, result, host, background, signals, races, timers,
                 parked, lines, typed, interrupted>>

\* The program returns: exit signals the process, whose readers are told.
End(p) ==
  /\ Runs(p) /\ HostsLive(p) /\ MayEnd(p)
  /\ status' = [status EXCEPT ![p] = "ending"]
  /\ signals' = [signals EXCEPT ![p] = <<>>]
  /\ stack' = <<Signalling(p, signals[p]), Exiting(p)>> \o Below
  /\ UNCHANGED <<result, host, background, races, timers, parked, lines, typed,
                 interrupted>>

\* Mutant: the process that awaits this one is not resumed.
ExitAlone ==
  /\ On("exit")
  /\ signals' = [signals EXCEPT ![Head(stack).p] = <<>>]
  /\ status' = [status EXCEPT ![Head(stack).p] = "ended"]
  /\ stack' = Below
  /\ UNCHANGED <<result, host, background, races, timers, parked, lines, typed,
                 interrupted>>

\* processes_.erase, and back to the process that awaits run_process.
Exit ==
  LET p == Head(stack).p IN
  /\ On("exit")
  /\ signals' = [signals EXCEPT ![p] = <<>>]
  /\ IF host[p] = NoHost \/ p \in background
       THEN /\ status' = [status EXCEPT ![p] = "ended"]
            /\ stack' = Below
            /\ UNCHANGED result
       ELSE /\ status' = [status EXCEPT ![p] = "ended", ![host[p]] = "running"]
            /\ result' = [result EXCEPT ![host[p]] = "done"]
            /\ stack' = <<Run(host[p])>> \o Below
  /\ UNCHANGED <<host, background, races, timers, parked, lines, typed, interrupted>>

\* A process whose host has been erased reads its variables and writes its
\* output through freed memory: this model does not follow it further.
Astray(p) ==
  /\ Runs(p) /\ ~HostsLive(p)
  /\ status' = [status EXCEPT ![p] = "astray"]
  /\ stack' = Below
  /\ UNCHANGED <<result, host, background, signals, races, timers, parked,
                 lines, typed, interrupted>>

----------------------------------------------------------------------------
\* From outside, between two turns: a line is typed, a timer comes to its end,
\* a process is killed from another terminal.
Idle == stack = <<>>

\* Mutant: a line nobody waits for is broadcast, not queued.
TypeToNobody ==
  /\ Idle /\ typed < MaxLines
  /\ typed' = typed + 1
  /\ stack' = <<Pushing(parked)>> /\ parked' = <<>>
  /\ interrupted' = FALSE
  /\ UNCHANGED <<status, result, host, background, signals, races, timers, lines>>

Type ==
  /\ Idle /\ typed < MaxLines
  /\ typed' = typed + 1
  /\ IF parked = <<>>
       THEN lines' = lines + 1 /\ UNCHANGED <<stack, parked>>
       ELSE /\ stack' = <<Pushing(parked)>> /\ parked' = <<>>
            /\ UNCHANGED lines
  /\ interrupted' = FALSE
  /\ UNCHANGED <<status, result, host, background, signals, races, timers>>

PushCall ==
  LET top == Head(stack)
      r == Head(top.todo)
      rest == <<[top EXCEPT !.todo = Tail(@), !.taken = @ \/ Reaches(r)]>> \o Below
  IN
  /\ On("push") /\ top.todo # <<>>
  /\ Complete(r, "line", rest)
  /\ UNCHANGED <<host, background, signals, timers, parked, lines, typed, interrupted>>

PushReturn ==
  /\ On("push") /\ Head(stack).todo = <<>>
  /\ stack' = Below
  /\ UNCHANGED <<status, result, host, background, signals, races, timers,
                 parked, lines, typed, interrupted>>

Fire(r) ==
  /\ Idle /\ r \in timers
  /\ timers' = timers \ {r}
  /\ Complete(r, "ok", <<>>)
  /\ UNCHANGED <<host, background, signals, parked, lines, typed, interrupted>>

KillFromElsewhere(q) ==
  /\ Idle /\ q \in Live /\ signals[q] # <<>>
  /\ signals' = [signals EXCEPT ![q] = <<>>]
  /\ stack' = <<Signalling(q, signals[q])>>
  /\ UNCHANGED <<status, result, host, background, races, timers, parked,
                 lines, typed, interrupted>>

Program(p) ==
  \/ Wait(p) \/ ReadParks(p) \/ ReadQueued(p) \/ End(p) \/ Astray(p)
  \/ \E q \in Pids : Exec(p, q) \/ ExecBackground(p, q) \/ Kill(p, q)

Turn ==
  \/ \E p \in Pids : Program(p)
  \/ StartLate \/ SignalCall \/ SignalLoose \/ SignalReturn \/ Exit
  \/ PushCall \/ PushReturn

Next ==
  \/ Turn
  \/ Type
  \/ \E r \in 1 .. MaxRaces : Fire(r)
  \/ \E q \in Pids : KillFromElsewhere(q)

\* A turn of the thread comes to its end and a timer that is set fires; no
\* line has to be typed and nobody has to be killed.
Spec == /\ Init /\ [][Next]_vars
        /\ WF_vars(Turn)
        /\ \A r \in 1 .. MaxRaces : WF_vars(Fire(r))

----------------------------------------------------------------------------
\* A process is resumed once for each time it suspends: the one race of its
\* own that is open is the one it is suspended in, it has one frame at most,
\* and it is not suspended in a race and on the stack at once.
ResumedOnce ==
  \A p \in Pids :
    LET own == {r \in DOMAIN races : Open(r) /\ races[r].path = <<r>> /\ races[r].proc = p}
        frames == {i \in DOMAIN stack : stack[i] = Run(p)}
    IN /\ status[p] \in {"waiting", "reading"} <=> own # {}
       /\ \A r, s \in own : r = s
       /\ status[p] = "running" <=> frames # {}
       /\ \A i, j \in frames : i = j

\* Registered for the signals of p, or about to be called for one.
InTodo(kind, r) == \E f \in ToSet(stack) : f.k = kind /\ r \in ToSet(f.todo)
Signalled(r) == r \in ToSet(signals[races[r].proc]) \/ InTodo("signal", r)

\* Nobody is suspended for good: an open race still waits for everything it
\* raced.  Its signal comes as long as its process lives; the one exception is
\* a program that reads on after a signal (the editor does, from its prompt)
\* while that signal is the end of the host it reads through.
CanBeResumed ==
  \A r \in DOMAIN races : Open(r) =>
    /\ Signalled(r) \/ status[races[r].proc] = "ended"
    /\ races[r].kind = "wait" => r \in timers
    /\ (races[r].kind = "read" /\ races[r].proc = Shell) =>
         r \in ToSet(parked) \/ InTodo("push", r)
    /\ (races[r].kind = "read" /\ races[r].proc # Shell) =>
         \E s \in DOMAIN races : Open(s) /\ Tail(races[s].path) = races[r].path

\* A host outlives the processes that read and write through it, except those
\* it put in the background and theirs.
HostsOutlive ==
  \A p \in Live : HostsLive(p) \/ ToSet(Chain(p)) \cap background # {}

\* A line that was typed while somebody was parked is taken by somebody, except
\* when a read was interrupted since the line before was typed: the loser of
\* that race is still parked, and may be the only one.
LinesTaken ==
  [][ (On("push") /\ Head(stack).todo = <<>>) =>
        Head(stack).taken \/ Head(stack).spoilt \/ interrupted ]_vars

\* The terminal comes back: a shell that waits for a command goes on, unless
\* somebody reads or has gone astray.
TerminalReturns ==
  status[Shell] = "joined" ~>
    \/ status[Shell] # "joined"
    \/ \E p \in Pids : status[p] \in {"reading", "astray"}
=============================================================================
