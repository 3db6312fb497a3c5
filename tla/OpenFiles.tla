----------------------------- MODULE OpenFiles -----------------------------
(* tech/filesystem (the open file table), tech/proc_fsapi (a process's file   *)
(* descriptors), tech/proc (descriptor numbers, enter, exit) and the life of  *)
(* a process in tech/os and tech/proc_sysapi, over the tree of FileTree.      *)
(*                                                                            *)
(* A process holds a pair (handle, pointer to the entry).  Handles are reused *)
(* and the entry dies with its last instance, so the pointer is modelled by   *)
(* the serial number of the opening: a pair is good while the table's entry   *)
(* at that handle carries the same serial number.                             *)
(*                                                                            *)
(* Permissions are left out: a refused open changes nothing.                  *)
EXTENDS FileTree, FiniteSets

CONSTANTS MaxProcs,     \* bound on the processes ever created
          MaxOpens      \* bound on the openings

ASSUME OpenAssumption == MaxProcs \in Nat \ {0} /\ MaxOpens \in Nat

Pids == 1 .. MaxProcs
Handles == 0 .. MaxOpens - 1
FirstFd == 3                          \* descriptor_counter_ at the start
Fds == FirstFd .. FirstFd + MaxOpens - 1
Serials == 1 .. MaxOpens

Closed == [serial |-> 0, node |-> NoFid, count |-> 0]
Unused == [h |-> 0, serial |-> 0]     \* no pair at this descriptor

VARIABLES
  openFiles,    \* open_files_: [Handles], Closed where there is none
  handleCounter, freeHandles,
  serial,       \* openings so far
  life,         \* [Pids]: "unborn", "running" or "gone"
  fdTable,      \* [Pids]: fd_table_, Unused where there is none
  fdCounter,    \* [Pids]: descriptor_counter_
  returnedFds,  \* [Pids]: returned_descriptors_
  programs,     \* files that hold an executable
  overcounted,  \* openings with an instance that no descriptor stands for
  aborted       \* the assertion that failed, or "no"

tableVars == <<openFiles, handleCounter, freeHandles, serial>>
procVars == <<life, fdTable, fdCounter, returnedFds>>
fileVars == <<tableVars, procVars, programs, overcounted, aborted>>
vars == <<treeVars, fileVars>>

OpenInit ==
  /\ Init
  /\ openFiles = [h \in Handles |-> Closed]
  /\ handleCounter = 0 /\ freeHandles = {} /\ serial = 0
  /\ life = [p \in Pids |-> IF p = 1 THEN "running" ELSE "unborn"]
  /\ fdTable = [p \in Pids |-> [d \in Fds |-> Unused]]
  /\ fdCounter = [p \in Pids |-> FirstFd]
  /\ returnedFds = [p \in Pids |-> {}]
  /\ programs = {}
  /\ overcounted = {}
  /\ aborted = "no"

----------------------------------------------------------------------------
(* get_handle and get_descriptor take the smallest that was given back. *)

Smallest(set) == CHOOSE x \in set : \A y \in set : x <= y

NewHandle == IF freeHandles # {} THEN Smallest(freeHandles) ELSE handleCounter
NewFd(p) == IF returnedFds[p] # {} THEN Smallest(returnedFds[p]) ELSE fdCounter[p]

HandleTaken ==
  /\ NewHandle \in Handles
  /\ handleCounter' = IF freeHandles = {} THEN handleCounter + 1 ELSE handleCounter

FdTaken(p) ==
  /\ NewFd(p) \in Fds
  /\ returnedFds' = [returnedFds EXCEPT ![p] = @ \ {NewFd(p)}]
  /\ fdCounter' = [fdCounter EXCEPT ![p] =
                     IF returnedFds[p] = {} THEN @ + 1 ELSE @]

Overwritten(p, d) == {fdTable[p][d].serial} \ {0}

\* open_file_entry, with the instances it is given before anybody else runs.
Opened(node, count) ==
  /\ serial < MaxOpens
  /\ HandleTaken
  /\ serial' = serial + 1
  /\ freeHandles' = freeHandles \ {NewHandle}
  /\ openFiles' = [openFiles EXCEPT ![NewHandle] =
       [serial |-> serial + 1, node |-> node, count |-> count]]

NewPair == [h |-> NewHandle, serial |-> serial + 1]

\* The node open ends up with: the file at the path or, with Create, a new one.
\* The error of create_file is not looked at: without a parent it is node 0.
Target(path, node) ==
  \/ GetFid(path) # NoFid /\ node = GetFid(path) /\ UNCHANGED treeVars
  \/ Create(path, "file") /\ node = fidCounter + 1
  \/ /\ GetFid(path) = NoFid /\ GetFid(ParentPath(path)) = NoFid
     /\ node = NoFid /\ UNCHANGED treeVars

Nodes == Fids \cup {Root, NoFid}

Up == aborted = "no"
Running(p) == Up /\ life[p] = "running"

Open(p, path) ==
  /\ Running(p)
  /\ \E node \in Nodes : Target(path, node) /\ Opened(node, 1)
  /\ FdTaken(p)
  /\ fdTable' = [fdTable EXCEPT ![p][NewFd(p)] = NewPair]
  /\ overcounted' = overcounted \cup Overwritten(p, NewFd(p))
  /\ UNCHANGED <<life, programs, aborted>>

\* Closing a set of descriptors of p: each takes an instance, and the last
\* instance takes the entry.
Refs(p, h) == {d \in Fds : fdTable[p][d] # Unused /\ fdTable[p][d].h = h}
\* Mutant: close does not take an instance.
LeftAll(p, ds, h) == openFiles[h].count

Left(p, ds, h) == openFiles[h].count - Cardinality(Refs(p, h) \cap ds)

Closing(p, ds) ==
  LET hit == {h \in Handles : Refs(p, h) \cap ds # {}}
      dead == {h \in hit : Left(p, ds, h) = 0}
  IN /\ openFiles' = [h \in Handles |->
          IF h \in dead THEN Closed
          ELSE IF h \in hit THEN [openFiles[h] EXCEPT !.count = Left(p, ds, h)]
          ELSE openFiles[h]]
     /\ freeHandles' = freeHandles \cup dead
     /\ fdTable' = [fdTable EXCEPT ![p] =
                      [d \in Fds |-> IF d \in ds THEN Unused ELSE @[d]]]
     /\ returnedFds' = [returnedFds EXCEPT ![p] = @ \cup ds]

Held(p) == {d \in Fds : fdTable[p][d] # Unused}

Close(p, d) ==
  /\ Running(p) /\ d \in Held(p)
  /\ Closing(p, {d})
  /\ UNCHANGED <<treeVars, handleCounter, serial, life, fdCounter, programs,
                 overcounted, aborted>>

\* Mutant: a process exits without close_all.
ExitOnly(p) ==
  /\ Running(p) /\ p # 1
  /\ life' = [life EXCEPT ![p] = "gone"]
  /\ UNCHANGED <<treeVars, tableVars, fdTable, fdCounter, returnedFds, programs,
                 overcounted, aborted>>

\* exit: close_all; run_process then erases the process.
Exit(p) ==
  /\ Running(p) /\ p # 1
  /\ Closing(p, Held(p))
  /\ life' = [life EXCEPT ![p] = "gone"]
  /\ UNCHANGED <<treeVars, handleCounter, serial, fdCounter, programs,
                 overcounted, aborted>>

\* write and read: the entry's file must be there.
Use(p, d) ==
  /\ Running(p) /\ d \in Held(p)
  /\ openFiles[fdTable[p][d].h].node \notin files
  /\ aborted' = "assert(file)"
  /\ UNCHANGED <<treeVars, tableVars, procVars, programs, overcounted>>

----------------------------------------------------------------------------
(* Processes *)

Born(c) == life[c] = "unborn" /\ \A q \in Pids : q < c => life[q] # "unborn"

\* Mutant: the copied table is not registered.
ForkUncounted(p, c) ==
  /\ Running(p) /\ Born(c)
  /\ life' = [life EXCEPT ![c] = "running"]
  /\ fdTable' = [fdTable EXCEPT ![c] = fdTable[p]]
  /\ UNCHANGED <<treeVars, tableVars, fdCounter, returnedFds, programs,
                 overcounted, aborted>>

\* create_process with fork_pid copies the table; enter counts its entries.
Fork(p, c) ==
  /\ Running(p) /\ Born(c)
  /\ life' = [life EXCEPT ![c] = "running"]
  /\ fdTable' = [fdTable EXCEPT ![c] = fdTable[p]]
  /\ openFiles' = [h \in Handles |->
       [openFiles[h] EXCEPT !.count = @ + Cardinality(Refs(p, h))]]
  /\ UNCHANGED <<treeVars, handleCounter, freeHandles, serial, fdCounter,
                 returnedFds, programs, overcounted, aborted>>

\* BasicOS's installation: a file with an executable.
Install(path) ==
  /\ Up /\ fidCounter = FirstFid
  /\ Create(path, "file")
  /\ programs' = programs \cup {fidCounter + 1}
  /\ UNCHANGED <<tableVars, procVars, overcounted, aborted>>

\* exec opens the program, takes its executable and closes it again, which
\* leaves the handle and the descriptor it used on the free lists (and takes
\* with it what a forked process had inherited at that descriptor).
Probed(p) ==
  /\ NewFd(p) \in Fds
  /\ returnedFds' = [returnedFds EXCEPT ![p] = @ \cup {NewFd(p)}]

\* Whether the file holds an executable is only asked by await_dispatch.
Exec(p, c, path) ==
  /\ Running(p) /\ Born(c)
  /\ GetFid(path) \in files
  /\ IF GetFid(path) \in programs
     THEN life' = [life EXCEPT ![c] = "running"] /\ UNCHANGED aborted
     ELSE aborted' = "assert(program)" /\ UNCHANGED life
  /\ HandleTaken /\ freeHandles' = freeHandles \cup {NewHandle}
  /\ Probed(p)
  /\ fdCounter' = [fdCounter EXCEPT ![p] = IF returnedFds[p] = {} THEN @ + 1 ELSE @]
  /\ fdTable' = [fdTable EXCEPT ![p][NewFd(p)] = Unused]
  /\ overcounted' = overcounted \cup Overwritten(p, NewFd(p))
  /\ UNCHANGED <<treeVars, openFiles, serial, programs>>

\* ... and with ">> file" the new process opens the file before it enters (at
\* its first descriptor, with the handle exec has just given back), so that
\* open counts an instance and register_descriptors a second one.
ExecRedirected(p, c, path) ==
  /\ Running(p) /\ Born(c)
  /\ programs \cap files # {}
  /\ life' = [life EXCEPT ![c] = "running"]
  /\ \E node \in Nodes : Target(path, node) /\ Opened(node, 2)
  /\ Probed(p)
  /\ fdTable' = [fdTable EXCEPT ![p][NewFd(p)] = Unused, ![c][FirstFd] = NewPair]
  /\ overcounted' = overcounted \cup Overwritten(p, NewFd(p)) \cup {serial + 1}
  /\ fdCounter' = [fdCounter EXCEPT ![p] = IF returnedFds[p] = {} THEN @ + 1 ELSE @,
                                     ![c] = @ + 1]
  /\ UNCHANGED <<programs, aborted>>

\* Everything else that happens to the tree (rm, mkdir).
Tree ==
  /\ Up
  /\ \E path \in Paths : MakeDirectory(path) \/ \E r \in BOOLEAN : Rm(path, r, FALSE)
  /\ UNCHANGED fileVars

OpenNext ==
  \/ Tree
  \/ \E path \in Paths : Install(path)
  \/ \E p \in Pids :
       \/ Open(p, RootPath)
       \/ \E path \in Paths :
            \/ Open(p, path)
            \/ \E c \in Pids : Exec(p, c, path) \/ ExecRedirected(p, c, path)
       \/ \E d \in Fds : Close(p, d) \/ Use(p, d)
       \/ Exit(p)
       \/ \E c \in Pids : Fork(p, c)

OpenSpec == OpenInit /\ [][OpenNext]_vars

----------------------------------------------------------------------------
AllRefs(h) ==
  {pd \in Pids \X Fds : /\ fdTable[pd[1]][pd[2]] # Unused
                        /\ fdTable[pd[1]][pd[2]].h = h}

\* Every descriptor leads to the opening it was made for: no entry is closed
\* under a process that still holds it, and no reused handle is mistaken for
\* the one before.
NoDanglingFd ==
  \A p \in Pids : \A d \in Held(p) :
    openFiles[fdTable[p][d].h].serial = fdTable[p][d].serial

\* An entry counts the descriptors that hold it, across forks and exits.  It
\* counts more only if a redirection opened it (create_process opens, enter
\* counts again) or a forked process overwrote a descriptor it inherited.
CountsInstances ==
  \A h \in Handles : openFiles[h] # Closed =>
    IF openFiles[h].serial \in overcounted
    THEN openFiles[h].count > Cardinality(AllRefs(h))
    ELSE openFiles[h].count = Cardinality(AllRefs(h))

\* What can be handed out and what is in use are kept apart: a handle is either
\* free for reuse or has its entry, a descriptor that was given back has no
\* file at it (so none is handed out while another file sits at it), and a
\* process that is not running holds nothing.
HandlesAccountedFor ==
  /\ freeHandles = {h \in 0 .. handleCounter - 1 : openFiles[h] = Closed}
  /\ \A h \in Handles : h >= handleCounter => openFiles[h] = Closed
  /\ \A p \in Pids : returnedFds[p] \cap Held(p) = {}
  /\ \A p \in Pids : life[p] # "running" => Held(p) = {}

\* assert(file) in write, read and get (filesystem.cpp:670, 698, 716).
FileAssertionHolds == aborted # "assert(file)"
=============================================================================
