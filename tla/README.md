# A verification project for dead-beef-cafe

*dead-beef-cafe* is a terminal hacking game: a simulated world of hosts, each with an
operating system, a file system, users, processes and a network stack, written in C++23
with coroutines. This directory holds TLA+ modules translated from its source, TLC
configurations that check them on small instances, and TLAPS proofs of theorems about
them for every value of their constants. `PROJECT.json` maps each definition to the
source lines it stands for, and lists runs, mutants, hazards, findings and theorems.

To run it, in this directory:

    tlc -workers 2 -config TimerMgr.cfg TimerMgr     # one line per run in PROJECT.json
    tlc -workers 2 -config Bridge.cfg MCBridge
    tlapm TimerMgr_proofs.tla

## 1. Inventory

### How the program runs

`World::launch` starts one thread that calls `update_world` about once a millisecond:
pop at most one message from the update queue, run it, then `timers_.step(delta)`.
Every coroutine of every simulated program (`Task<T>`, eager, resumed by whoever
completes what it waits for) runs on that thread: on the stack of a `push`, of a timer
callback or of a signal. The console (`main`) and the asio bridge of `dbc_client` and
`dbc_server` are the other threads. The only mutexes are those of `MessageQueue` and
`TimerManager`, and the one in `TimerManager::step` is commented out. So the two sources
of trouble are *re-entrancy* (a callback in the middle of a walk changes what is walked)
and the few places two threads meet: the queues of a host that runs "host" or "join".

### Components

| Component | State | Operations | What makes it correct |
|---|---|---|---|
| `MessageQueue`, its awaiter (`utils/public/msg_queue.h`) | FIFO, registered callbacks, a mutex | push, pop, async_pop, destructor broadcast | no loss, FIFO per consumer, nobody parked beside a message, one resumption per suspension |
| `TimerManager`, `TimerAwaiter` (`world/`, `services/`) | parallel slot vectors, set of free slots | set, pause, cancel, reset, step | free list exact, no slot overwritten in use, each wait answered once and in time |
| `FileSystem`, the tree | five maps and metadata, fid counter | create, create recursively, remove, mkdir | maps agree, removal takes exactly the subtree |
| `FileSystem`, open file table; `ProcFsApi` | entries with instance counts, free handles; descriptor table per process | open, close, close_all, read, write, fork's copy | no dangling descriptor, counts exact, handle and descriptor reuse safe |
| `OS`, `Proc`, `ProcSysApi` | process map, pid counter, leaders, signals | create, fork, exec, exit, kill, suspend | nothing held after exit; a host outlives who reads through it; nobody is resumed twice or never |
| `NetManager`, `ProcNetApi` | sockets by handle, bindings, sessions | socket, bind, listen, connect, accept, read, write, close, async close | a live descriptor leads to its own socket; both ends agree; no cross-talk after reuse |
| net services (`nettx`, `netrx`, `netarp`) | ARP cache, routing queue | send, route, receive, resolve | per-connection FIFO, nothing lost but on an ARP miss, nothing handled twice |
| `NIC`, `LinkServer`, `LinkUpdateAwaiter` | link, queues, callbacks | link, transmit, wait for link | each waiter told once per change |
| ssh client and server | connection state, session per client | greet, relay, heartbeat | the ends agree; no session without a client for ever |
| `when_any`, `Task` (`race_awaiter.h`, `task.h`) | shared race state, continuation | start_all, complete | one continuation per race, no use of a race that is over |
| `UsersManager`, login, sudo, useradd | users, groups, shadow, name maps, counters; three files and their modification times | prepare, authenticate, add, commit | memory follows the files; login and sudo accept what the files say; useradd takes nobody's row away |
| `SessionManager` | map and counter | create, end | nothing calls it |
| `Host`, devices | power state, devices | start (shutdown has no caller) | state follows the devices |
| `World` | hosts, timers, update queue | launch, update (save and load have no caller) | its parts' |
| shell and command programs | what they wait for | read, run, wait, kill | the terminal comes back |
| editor | rows, cursor, path, modified or not | type, erase, move, save, prompt | edits land where the cursor is; what counts as saved is saved |
| games, terminal code, addresses, SHA-256, protobuf | local | render, format | out of a model checker's interest |
| dbc client and server | sessions over real sockets, their readers and writers on the routing queue | host, join, relay, end | no packet handled twice, swallowed or going round |

**Interactions.** A process reaches files, network and system through its `ProcFsApi`,
`ProcNetApi`, `ProcIoApi`, `ProcSysApi`; these call the host's `FileSystem`,
`NetManager` and `OS`. A socket is two `MessageQueue`s that the net services read and
fill; two hosts meet in a `LinkServer`'s queue. Every wait ends in a `MessageQueue`, a
`TimerManager` slot, a signal or a link callback.

### The hard behaviours

`PROJECT.json` lists every hazard at its line with the properties that would catch it.
In short:

* decisions taken in one critical section and carried out in the next (`push`,
  `async_pop`);
* callbacks in the middle of a walk: timers, link updates, FIN broadcasts, `when_any`;
* bare indices that outlive what they named: timer, file and socket handles;
* counts kept by hand: instances of open files and sockets, free lists, descriptors;
* five maps per tree that each operation edits one by one;
* timeouts racing late answers, retried first packets (network, ssh);
* the losers of a race, which stay registered where they waited, and processes that read
  through other processes (`when_any`, hosts);
* several readers of one queue that copies or queues depending on who is parked, and
  services that two threads push to (bridge);
* what is read before a prompt and used after it (sudo);
* caches checked by whole seconds and files written behind them (users);
* three ways of counting characters in one column (editor).

## 2. Plan

Order, the most important behaviour first. "Done" is what this directory holds.

| # | Module | Composes | State |
|---|---|---|---|
| 1 | `MsgQueue`, `Fifo` | the queue implements the abstract one | done, all it checks and the refinement proved |
| 2 | `TimerMgr` | | done, all its invariants proved |
| 3 | `FileTree` | | creation and removal done, all it checks proved |
| 4 | `OpenFiles` | `FileTree` | done, all its invariants proved |
| 5 | `Ssh` | net manager, ssh server and clients, FIFO wires | done, with liveness; all its invariants proved |
| 6 | `Processes` | races, signals, hosts, the shell and its programs | done, with liveness; all its safety properties proved |
| 7 | `Users` | users manager, three files, sessions with login, sudo, useradd, an editor | done, all it checks proved |
| 8 | `Bridge` | threads, tx, rx, ARP, routing, a link, dbc sessions | done, all its invariants proved |
| 9 | `Editor` | editor state, files, the prompt | done, both invariants proved |

*What is left.* `EditsAtCursor` as a theorem; path resolution and permissions on the tree;
`groupadd`; an abstract connection that `Ssh` implements but for its named cases.

## 3. The modules

**`MsgQueue`** (`msg_queue.h`). State: `queue_`, `callbacks_`, whether the queue is
alive; per thread where `push`/`broadcast_clear` stands, the local copy of the list, and
the coroutine on its stack; per coroutine where it is suspended and what it got. A step is
one critical section or one callback. `push` is `PushEnqueue` or `PushBroadcast`
followed by `Swap`, `Call`s and `Return`; `await_ready` is `PopReady` or `PopEmpty`,
`await_suspend` is `Park`. A callback resumes its coroutine *on the pushing thread's
stack*, so the loop goes on only when that coroutine suspends again. A resumed coroutine
may itself push, if that only enqueues; a nested broadcast is not modelled. `copy_clear`
has no callers. Messages are numbers in push order; the payload is left out.

**`Fifo`** is what a `MessageQueue` promises: what was pushed and not yet taken, in order,
who was given what, and an end after which everybody is given the default message. With
one thread `MsgQueue` implements it (`IsFifo`): what is queued, or in the list of a push
under way, is what `Fifo` has pending. With two it is not one, and `Bridge` has the steps of
its queues one by one.

**`TimerMgr`** (`timer_mgr.cpp`, `timer_awaiter.cpp`). The parallel vectors are one
record per slot. `step` is a walk of one action per slot, with a `call` mode while the
coroutine it resumed runs; in between `SetTimer`, `PauseTimer` and `CancelTimer` may
happen, from the callback or from another thread. Each `set_timer` issues a *ticket*,
which stands for the stored callback, so that a slot and its successive occupants can be
told apart. `reset_timer_internal`
is part of `StepFireLooping` (the slot it resets is alive already). `Spec` is the class as its interface allows it to be used; `WaitSpec` is the
program as it is, where each timer is a one-shot `co_await wait(s)` and nobody cancels.

**`FileTree`** (`filesystem.cpp`). `files_`, `path_to_fid_`, `fid_to_path_`, `roots_`,
`mappings_`, `metadata_` as functions and sets. Everything here runs without suspending,
so an operation with its recursion is one action: `AddFiles` creates a run of files
(`add_file` under `create_ensure_path`), `Erase` removes a set (`remove_file`'s
recursion, computed by `Subtree`). A path is a sequence of names. The ghost `strays`
collects files created under something that was no directory, which `add_file` allows.

**`OpenFiles`** (`filesystem.cpp`, `proc_fsapi.cpp`, `scoped_fd.cpp`, `proc.cpp`, `proc_sysapi.cpp`), over
`FileTree`. A descriptor is a handle and a raw pointer to the entry; the pointer is
modelled by the serial number of the opening, so a dangling or mistaken pointer shows as a
serial that differs from the table's. Processes are created, forked, exec'd (probe,
optional redirection) and exit. A failing `assert` stops the program (`aborted`); that is
how the assertion run sees it. The ghost `overcounted` names openings that carry an
instance no descriptor stands for.

**`Ssh`** (`net_mgr.cpp`, `proc_netapi.cpp`, the net services, the ssh client and server).
One server host with its socket table, the session processes its ssh service forks, and
the clients of other hosts. *Time:* a packet is pushed, forwarded, handled and answered on
one stack, or right after it if a net service is already at work, so each direction is a
FIFO, and timers, keys and signals act only when nothing is under way (`Quiet`); a session
that was resumed runs before the next packet is handled (`Settled`). *Server:*
`SocketAccepted` is `async_accept_socket`, `SessionForked` the service's fork (two
instances counted up and one down again leave one), `ReceiveData`, `ReceiveFin`,
`ReceiveTest` are `handle_packet`'s cases, `CloseSocket` is `close_socket` with what the FIN and
the queue's destructor do to whoever reads: he reads again, finds no socket, fails.
`AsyncClose` and `PollClosing` are `async_close_socket`. *Sessions:* `greeting` (the
1 s), `parked` on a queue, `run` (resumed, in the middle of something), `busy` (a command),
and on the way out. *Undefined behaviour:* a FIN frees the entry of a session that is not reading, and
`--page->instances` on exit then reads freed memory: `Exit` allows any of nothing, the count the
entry had, and the count of an entry made since. *Client:* off, connecting (5 s), open, testing (3 tests of 1 s).
The ghosts: `stale` sessions lost their socket while not reading; `strayed` sessions met a
client not their own; `silenced` clients lost their socket to another session's close.
The first packet to an unknown address is lost (ARP miss); either netarp heard of all links or of none.

**`Processes`** (`race_awaiter.h`, `proc.cpp`, `os.cpp`, `proc_sysapi.cpp`, `task.h` and
the programs shell, count, wait, kill). Everything behind one terminal runs on one stack,
which is a variable: a frame is a process that runs, a walk over signal callbacks or over
the queue's readers, a process that ends, or a late start of a race's second awaitable. A
wait is a race of timer and signals; a read of a process without a reader of its own is a
race around its host's read, and so on up (`Chain`). `Complete` settles the races from the
inside out, and resumes the process when it gets through; the losers stay in `signals`,
`timers` and `parked`. *Undefined behaviour:* a read answered on the spot registers its
signal callback after its race was freed (`Loose`, `StartLate`); `SignalLoose` lets such a
callback find nothing, or any open read that has its memory now. A process whose host was
erased goes astray and is not followed. Here a terminal's line comes between two turns, as it
does for an ssh session; `dbc_test`'s console pushes from another thread, which is the
two-thread run's matter.

**`Users`** (`users_mgr.cpp`, login, sudo, useradd). Files and memory are partial functions
from numbers or names to what the programs use of a row. `Prepare` rereads each file whose
modification time differs from the one cached; `Commit` writes all three and leaves the times
alone, as the code goes past `FileSystem::write`. An editor changes one row of a file, or
spoils its shape, if `check_permission` lets the session's user. sudo is a prompt: `SudoAsk`
looks up the name of the session's user, and `SudoWrong`, `SudoOther` and `SudoUserAdd` hold an
answer against *that* name (`os_basic_sudo.cpp:47` and 57), up to three times, after whatever other sessions
did meanwhile. The rest of a program runs without suspending and is one action. The ghosts: `unread` files
were edited since memory last agreed with them, `keyed` says that the shadow rows in memory were read
after the names they are keyed by, `last` is what the last program did.

**`Bridge`** (net services, `nic.cpp`, `link_srv.h`, `dbc_server_program.cpp`,
`dbc_client_program.cpp`). A Hub that runs "host", clients that run "join", and a neighbour
linked to the Hub within its world. *Threads:* each process has those that run programs (`Programs`) and asio's,
and `stack` has the services, nettx and netrx of each host, that were resumed on a thread by the pushes
it made, the innermost first. `PushTx` and `PushRx` are the first critical section of `push`: they queue the packet,
or leave it in `pushing` when the service waits; `Broadcast` is the second: the service is resumed on the pusher's
thread, or another push was faster and the packet is in nobody's hands (the ghost `lost`). A service looks
(`ServiceLooks`) and parks (`ServiceParks`) in two critical sections as well, so that a packet can be queued beside a service that
waits. The handler of a packet pushes its answer last, so that the handler and the first half of that push are one
action. The routing queue has one writer per connection: a push is copied to all that are parked, or queued
if none is; only nettx pushes to it, so nothing but a writer's parking could come between the halves of
that push. Looking and parking of a writer are two steps. A session's reader puts packets into the Hub's rx queue, a
client's hands them to the handlers, both on asio's thread; asio's other work waits while it runs a service
(`AsioFree`). Ends close in any order, and a parked writer survives its session.

**`Editor`** (`editor.cpp`, `os_basic_edit.cpp`). A row is a sequence of UTF-16 units, with
surrogate pairs and combining marks; `Boundaries` is what ICU's character iterator finds.
`RefreshRow` is the heart: it takes the column, an offset in units, as a number of
boundaries, as the code does. One action per key, and saving, the prompt for a name and the ways out. A name given as
the empty text is the root directory, which is `OpenFiles`' matter.

`MCMsgQueue`, `MCFileTree` and `MCUsers` add the symmetry sets, `MCBridge` and `MCEditor` the traffic
and the keys. `MCUsers` also has the `VIEW` that leaves out `last`, which no guard and no state invariant reads: TLC
checks the action properties on every step, so also on those to states it has seen. `*_proofs` hold the theorems.

## 4. The runs

| Run | Question | Bounds | Result |
|---|---|---|---|
| `queue_one_thread` | is it a first-in first-out queue under re-entrancy, does it strand anybody? | 1 thread, 3 coroutines, 4 messages | 204,000 states: it is, and does not |
| `queue_two_threads` | what does the mutex still guarantee? | 2 threads, 2 coroutines, 3 messages | 109,000 states: one resumption per suspension, no duplicate |
| `timer_slots` | is slot reuse safe under callbacks and stale handles? | 3 slots, 3 timers, clock 2 | 2.92 million states, yes |
| `timer_waits` | is each wait answered once and in time? | 3 slots, 4 waits of 0-2 s, steps of 1-2 s, clock 4 | 663,000 states: yes, and too early only if set in the middle of a walk |
| `file_tree` | do the five maps stay in step? | 2 names, depth 3, 4 files | 10,315 states, yes |
| `open_files` | do descriptors, handles and counts agree? | 1 name, depth 2, 1 file, 3 processes, 2 openings | 86,000 states, yes, but for two named over-counts |
| `open_file_assert` | can `assert(file)` fail? | 2 processes | **violated** |
| `ssh` | do table, readers and both ends agree, and does a client without a session find out? | 2 clients, 3 connections, 2 data packets | 165,000 states: yes, but for the cases the properties name |
| `users` | do memory, login, sudo and useradd follow the files? | 2 sessions, 1 open prompt, 1 new name, 2 passwords, uids to 1001, 2 seconds, 2 edits | 643,000 states: yes, but for the cases the properties name |
| `processes` | is everybody resumed once, and does the terminal come back? | 4 processes, 5 races, 3 lines | 237,000 states: yes |
| `bridge` | are packets lost, swallowed, handled twice, going round? | 2 clients, 2 connections, 2 packets, 4 flows, 2 threads per process | 2.16 million states: no, but for what the properties exempt |
| `editor` | do edits land at the cursor, and is saved what counts as saved? | 3 edits of 4 kinds of key, 2 files, rows of 5 units | 860,000 states: yes |

**Why the bounds are enough.** *Queue:* two consumers are what it takes to lose a
message to the wrong one, two threads are all the program has at any one queue, three messages let
one be in flight, one queued and one following; the destructor is allowed at any quiet moment.
*Timers:* with three slots the walk has a slot behind, at and before the cursor, and
timers set from a callback reuse any of them or grow the vector; a fourth wait reuses a
slot in the same walk; steps of 1 and 2 against waits of 0 to 2 meet 0, equality and overshoot. *Tree:*
depth 3 is a parent, a directory and a child, so recursion runs two levels; four files
are a chain and a sibling. *Open files:* three processes make a grandchild, so a
descriptor is inherited twice; two openings are reuse of a handle and of a descriptor number, and
one tree file suffices as the table is indexed by opening. *Ssh:* a stranger takes three connections: one whose handle is
freed, one that frees it, one that takes it; two data packets leave one unread behind a session that ends;
*Processes:* four are the shell, a program it runs, one that runs in the background or kills,
and one behind it, so that reads are raced three deep; five races let a loser stay behind and be
called later; three lines are one lost, one taken, one queued. *Users:* uid 1001 is the one useradd
hands out and an editor may have taken; two sessions are one at a prompt and one that edits, logs in and adds users
meanwhile (a second open prompt would only wait beside the first); the seconds 1 and 2 are the boot's and one of edits; two edits in one second are what the time stamp cannot tell apart. *Bridge:* the second connection is another client's
or the same one's second; two packets are an ask and its answer, or two asks that meet at one queue, pushed by asio's thread and by one that runs programs.
`MaxBusy` 1 lets the threads of one process at a time be in the middle of a push or of a service: threads of two processes share nothing but the
real sockets, which a process uses when its own are idle, and `wire` keeps the order. *Editor:* the file
it opens has a pair, a mark at the start of a row and a second row, so that three edits reach every
joint of the three ways of counting.
TLC reaches each case the properties exempt. `CHECK_DEADLOCK FALSE` is given where
the counters' bounds, a failed assertion or a destroyed queue end the behaviour;
`file_tree` runs with it on.

**Fairness.** Two properties are liveness properties. `HalfOpenEnds` is checked under
`FairSpec`: weak fairness of the packets under way and of resumed sessions, because the
one thread runs each to its end before it returns to the loop; strong fairness of a
client's timers, because `step` runs every millisecond whatever came and went in between,
and finds nothing under way. Nothing is assumed of users, nor that a command ends. `TerminalReturns` is
checked under weak fairness of the thread's turn (a call on the stack returns) and of each timer that is set;
that a line is typed or a process killed is not assumed, so a terminal somebody reads from may stay with him. "A
wait is answered" needs no fairness: `ResumedInTime` says that between steps nobody is
unanswered whose time has passed.

### What the violations show

* `FileAssertionHolds`: `open` ignores the error of `create_file` and opens node 0; the
  root can be opened although `find(root)` is null; `rm` removes open files. Then `read` and `write`
  fail `assert(file)`.

### Observed while modelling, with no run of its own

* `step` charges the *whole* delta to each live slot it reaches, also to one that a callback
  filled during the same walk: a coroutine that waits again inside its callback, in a slot further on, is resumed early
  by up to one delta. The comment in `timer_mgr.h` promises the callback once the seconds have
  passed; `ResumedInTime` says that no other wait is early.
* exec tests an `expected` for an error, not the function in it for null, so a plain file
  reaches `assert(program)` (`proc.cpp:135`) instead of the message meant for it.
* accept makes a socket per Syn. A client that timed out because its Ack was lost, or whose old
  socket waits for data nobody will read, comes back from the same port and has two with one tuple;
  its data goes to whichever `find_socket` meets first.
* The NIC's queues are pushed to by asio's thread and by those that run programs (`dbc.cpp:12`, `net_mgr.cpp:249`,
  `dbc_client_program.cpp:106`). Two pushes that both see the service wait: the slower is lost; a push between its
  looking and its parking: the packet lies there until the next one, and is then overtaken by it. One client is enough.
* A Hub does not route for everybody: a packet that finds the writer of its client busy and another
  one parked is copied to the other alone, and is lost (`NothingLost` of `Bridge`, checked by no run, is false with two clients).
* The losers of an interrupted read stay parked: the next line goes to nobody. A background process
  outlives the host it reads through.
* Two edits in one second, of which login saw the first; a name that was taken out of passwd and whose number was
  given to another; shadow rows read under old names; a number that was put in by hand and is handed out again: the cases
  `LoginFollowsFiles`, `SudoFollowsFiles` and `AddKeepsUsers` name.
* sudo holds its answer against the name it looked up before it asked: when the user was renumbered and another session
  has logged in since, the password of a name is accepted that is not the session's user's any more.
* In the editor the cursor jumps in rows with surrogate pairs or marks, where it should be "reset to the correct value"
  (`editor.cpp:189`). After a failed save-as the path stays, though `editor.h:76` says it is the last saved-to one: there is no
  way to choose another. A signal during the prompt saves under what had been typed of the name.
* On two threads `IsFifo`, `NoStranding` and `EveryoneTold` all fail: push
  decides and broadcasts in two critical sections and pop and park are two. The comments
  promise none of them across threads, so these are properties of the one-thread run only.
* A session that ends with unread data leaves its socket open for ever: `async_close_socket`
  waits for a queue nobody reads. Its loop knows the socket by handle and, after a FIN, may
  close the next connection's socket without a FIN (`silenced`).
* A session whose client leaves while it runs a command goes on with its handle; if that is
  given to the next connection, it reads that client's keys and writes to its screen (`stale`), and its exit may close that connection.
* The server never tests its sessions: one whose client's connect timed out waits for ever.
* `set_timer` does not clear `paused`, so a slot cancelled while paused is born paused.
  Nothing in the program pauses a timer.
* A stale handle may cancel the slot's next occupant. Nothing in the program cancels.
* `remove_file` leaves the removed file's metadata behind (`Erase` keeps `kind`).
* A redirection opens its file before `enter` counts the table, so its entry never
  closes; a forked process numbers descriptors from 3 again and may overwrite one it
  inherited. Both are the cases `CountsInstances` names.

### Mutants

Each property of a passing run has a mutant in `PROJECT.json`: an operator in the module that changes one definition
the way a plausible slip would (a list copied instead of taken, a slot kept on the free
list, a fork that is not counted), under which the property must fail.

## 5. The proofs

All theorems are about the modules as TLC checks them, with no assumption but the named
`ASSUME`s on the constants (bounds are naturals, steps are positive, the null values are not
names or coroutines, the hosts' addresses are different). They hold for any number of threads,
coroutines, slots, timers, processes, clients, names, depths and files. In each module an
inductive invariant is TLC-checked first, and its step lemma has one step per action.

* **`MsgQueue_proofs`**. For any number of threads: `ResumedAtMostOnce` (`ResumeOnce` is inductive
  as stated: it says in which one list a parked coroutine is registered and on which one stack a
  running one runs) and `NeverTwice` (`NoDuplicates`), from `OnceInv`: a message is in the queue,
  carried by one push, or given to whoever is no longer in that push's list. For one thread:
  `NobodyStranded`, `EveryoneIsTold` (`EveryoneTold`) and `ImplementsFifo` (`Spec => IsFifo`),
  re-entrant pushes included. `FifoInv` adds to the types what the one stack says of the rest: between
  the two critical sections of a push nothing runs and somebody waits, whoever runs is in no list, and
  a coroutine that found the queue empty parks before anyone can push. Each concrete step is then a
  step of `Fifo` or a stutter. `TellInv` adds that whoever waits while the destructor broadcasts has
  been told or is still to be called. On two threads these three are false, as TLC shows.
* **`TimerMgr_proofs`**: `TypesHold`, `FreeListIsExact`, `NothingOverdue` and
  `WaitingCallbackKept` for `Spec`. The invariant is `SlotInv`: types, exact free list, no live slot
  overdue, and a live slot is filled. The free list being exact is what makes the slot
  `set_timer` picks a dead one, which is what keeps a waiting callback.
  `ResumedAtMostOnce` and `ResumedOnTime` for `WaitSpec` need `TicketInv`: every issued
  ticket has either fired once or waits in a slot of its own, whose remaining seconds plus
  the clock are at most its due time, plus the current delta if the walk has not visited the slot yet.
  Without the position of the walk the bound does not survive a step; without
  "a slot of its own" a reused slot could answer for two tickets.
* **`OpenFiles_proofs`**, the tree: `PathsAlwaysAgree` and `ChildrenAlwaysAgree` from `MapInv` (types and
  both agreements), `OrphansAlwaysStrays` (`OrphansAreStrays`) from `TreeInv`, which adds that a
  file is numbered after its parent, and `MissingDirectoriesMade` (`FillsInDirectories`). `RemovalTakesSubtree`
  (`RemovesSubtree`) says what the recursion of `remove_file` takes at any depth. `Subtree` is a
  recursive function: that one exists is shown from the walks of n steps, and that its value is the set
  of what lies below a path from a least counterexample. *The table:* `DescriptorsLeadHome` (`NoDanglingFd`),
  `InstancesCounted` (`CountsInstances`) and `HandlesNeverShared` (`HandlesAccountedFor`). `OpenInv` adds
  that no two entries are of one opening and none is of an opening to come, so that an entry made in
  a place where another was is never mistaken for it. The counts rest on the library's facts on
  the cardinality of a set with one element more or less; an overwritten descriptor (redirection,
  `exec`) is the case where the count may exceed the holders.
* **`Ssh_proofs`**: `HandlesStayExact`, `ReadersAreServed`, `SocketsGoWithSessions`,
  `NobodyReadsAnother` (`NoCrossTalk`) and `BothEndsAgree` (`EndsAgree`) for `Spec`,
  without its fairness. `SshInv` adds that a socket is the one its owner was given and its owner's client's
  (`Owned`), that whoever is registered on a queue was given that handle (`Waits`), that a session
  at work has its own socket unless it is stale (`HasSocket`: this is what cross talk needs), and that
  output on its way to a stranger is a stale session's (`NetInv`). The parts are stated for any table
  and any processes, as `exit` counts down, closes and tells the readers in one step:
  `CloseGood`, `CountGood` and `AsyncCloseGood` take the table through the middle of that step.
  `EndsInv` looks ahead: a client that *will* be connected when it has read what is on its way
  (`Going`: connected and no FIN under way, or an Ack under way and no FIN after it) has a socket
  nobody is about to close, or was silenced. For that, a server with a connection loses no packet to an
  ARP miss (`ArpInv`), a FIN on its way up is from a client that is off, and a test is not
  from one that still waits for its Ack (`UpInv`).
* **`Processes_proofs`**: `ProcessesResumedOnce` (`ResumedOnce`) and `HostsOutliveTheirs` (`HostsOutlive`) from `ProcInv`: the races
  of a read go out along the hosts (`PathsInv`), a process is suspended exactly if one race of its own is open
  (`SuspendedInv`), one that runs or ends has one frame (`StackInv`), and a host is older than its guests and
  joined to the one in front (`HostsInv`). `NobodySuspendedForGood` (`CanBeResumed`) adds `KeptInv`: each open
  race is still registered with a timer, a queue, a signal or an open race around it. `LinesAreTaken`
  (`LinesTaken`) adds `LinesInv`: a parked read reaches its process unless one was interrupted, and the first
  reader takes the line that is offered. `Chain`, a recursive function over the hosts, is unfolded as `Subtree` is.
* **`Users_proofs`**: `MemoryFollowsFiles`, `LoginIsByTheFiles`, `SudoIsByTheFiles` and `UserAddKeepsOthers` (an
  invariant and three action properties), from `UsersInv`: files and memory are one-to-one where they are keyed, shadow rows stand
  under the numbers of their names if they were read after them, and no row that can be keyed is missing. Nothing is said of the
  session's user: sudo is held to the name it asked for, at any number of sessions.
* **`Bridge_proofs`**, for any number of clients, threads, connections and packets: the two halves of a push are two steps, and a packet
  in between is in one more place to be; `EndedTakeOneAtMost` from `WriterInv` (a
  connection not yet made has no sockets; a writer that took a packet after its end is not parked again);
  `ClientsSendTheirOwn` (`NothingCirculates`) from `OwnInv`, whose packets and queues of one direction have one sender;
  `EveryPacketAtMostOnce` (`HandledOnce`) from `OnceInv`: a client has one open connection, and no packet is in two
  of the places it can be; `AloneEverythingArrives` (`AloneNothingLost`) from `KeptInv`: with one
  connection, each promised packet is handled, on its way, or lost; that one is lost only when another thread has resumed the service since
  the push saw it wait (`OnlyOvertaken`) follows from `StackInv`: a thread in the middle of a push resumes nobody.
* **`Editor_proofs`**: `CursorStaysOnBoundary` from the types of rows and the fact that `next(n)` and
  `previous()` stay on boundaries (the n-th boundary after the cursor exists if there are n), and
  `CleanStaysOnDisk` (`CleanIsOnDisk`) from `SavedInv`: a name is asked for only when there is none.

Timers, handles and descriptors are given out smallest first: `LeastExists` in several modules says
that a set of numbers has a smallest one, from the library's theorem that `<` on the naturals is well
founded. It also stands in for induction, as the least number of which something does not hold.

**Only model-checked:** `EditsAtCursor` of `Editor` (its text is a fold over the rows, whose value for
every number of rows has not been derived here); the liveness properties `HalfOpenEnds` of `Ssh` and `TerminalReturns`
of `Processes`, as fairness and `ENABLED` are out of the prover's reach; and the assertion `OpenFiles` violates. Everything else
the passing runs check is also proved.

## 6. Not modelled, and why

* *No caller in the program:* saving and loading the world and its file systems, `shutdown_host`,
  `SessionManager`, unlinking a NIC or linking it twice, `FileSystem::check_permission` by session,
  `MessageQueue::copy_clear`, `Proc::read` with a timeout. A model would have to invent their use.
* *Paths:* `ProcFsApi::resolve` is a string function without state; on `..` at the root it pops an
  empty deque, which is undefined. `groupadd` is `add_group` alone, which `Users` has inside `AddUser`.
* *Network:* `close_socket` is one step of `Ssh`, so what a reader it wakes does before the handle is given back is not looked at;
  ICMP and UDP (answered or dropped without state), `bind`'s errors, the coroutine a client
  leaves behind when it exits in the middle of a test; in the dbc programs a listener that fails,
  connections nobody accepts, and the socket library, which is external.
* *Below the model:* data races inside the storage of `TimerManager`'s vectors during one slot's
  visit, the life of a `std::function` overwritten while it executes, coroutine frames that `~Task`
  never destroys (a leak).
* *Formatting and rendering:* games, terminal utilities, tabs and screen of the editor, parsing and
  colours of the command programs, addresses, protobuf; SHA-256 is a bit-level algorithm on inputs no
  small instance represents.
