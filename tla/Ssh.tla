-------------------------------- MODULE Ssh --------------------------------
(* tech/net_mgr and tech/proc_netapi on a server host that runs the ssh       *)
(* service (os_basic_ssh_server.cpp), and the ssh clients of other hosts      *)
(* (os_basic_ssh_client.cpp), with the packets between them.                  *)
(*                                                                            *)
(* One thread runs every coroutine, and a packet is handled on the stack of   *)
(* its sender or, if a net service is at work there already, right after it.  *)
(* So each direction is a FIFO, and a timer, a key or a signal finds no       *)
(* packet under way and no coroutine in the middle of something (Quiet).      *)
(* The net services forward every packet but the first one to an address      *)
(* that is not in the ARP cache (nettx): that one is routed to a queue nobody *)
(* reads, and the ARP request fills the cache for the next.                   *)
(*                                                                            *)
(* A client's address and port (always 49152) are the client.  Descriptors    *)
(* are left out: a session process holds one pair (handle, pointer to the     *)
(* entry), the pointer being modelled by the number of the session the entry  *)
(* was made for.  The listening socket (handle 1) is never closed.            *)
EXTENDS Integers, Sequences, FiniteSets

CONSTANTS Clients,      \* client hosts
          Nobody,       \* no client
          MaxAttempts,  \* bound on the connections attempted
          MaxTyped      \* bound on the data clients send

ASSUME ConstantsAssumption ==
  /\ MaxAttempts \in Nat /\ MaxTyped \in Nat
  /\ Nobody \notin Clients

Sessions == 1 .. MaxAttempts
NoSession == 0
FirstHandle == 2                      \* the listening socket has handle 1
Handles == FirstHandle .. FirstHandle + MaxAttempts - 1
MaxTests == 3                         \* test_count of async_socket_test_alive

VARIABLES
  client,       \* [Clients]: "off", "connecting", "open", "testing"
  tests,        \* [Clients]: tests of the connection without an answer
  up, down,     \* [Clients]: packets on their way to and from the server
  arpClients,   \* clients that have the server in their arp_cache_
  arpServer,    \* the server has the clients in its
  sock,         \* sockets_: [Handles], NoSocket where there is none
  handleCounter, freeHandles,
  state,        \* [Sessions]: where the session's process stands
  handle,       \* [Sessions]: the handle of its descriptor
  peer,         \* [Sessions]: the client it was accepted for
  closing,      \* sessions gone whose async_close_socket waits for the data
  accepted,     \* sessions accepted so far
  attempts,     \* connections attempted so far
  typed,        \* data sent by clients so far
  stale,        \* sessions whose socket was closed while they did not read it
  strayed,      \* sessions that met a client other than their own
  silenced      \* clients whose socket another session's close took away

wires == <<up, down>>
arp == <<arpClients, arpServer>>
clientVars == <<client, tests, arpClients>>
table == <<sock, handleCounter, freeHandles>>
procs == <<state, handle, peer, closing, accepted>>
bounds == <<attempts, typed>>
ghosts == <<stale, strayed, silenced>>
vars == <<client, tests, up, down, arpClients, arpServer,
          sock, handleCounter, freeHandles, state, handle, peer, closing,
          accepted, attempts, typed, stale, strayed, silenced>>

\* owner is the session the entry was made for, remote its remote_endpoint and
\* only session tuple, waiting the sessions registered on rx_queue.
NoSocket == [owner |-> NoSession, remote |-> Nobody, count |-> 0,
             rx |-> 0, waiting |-> {}]

Packet(type) == [type |-> type, from |-> NoSession]
DataOf(s) == [type |-> "Data", from |-> s]

Init ==
  /\ client = [c \in Clients |-> "off"]
  /\ tests = [c \in Clients |-> 0]
  /\ up = [c \in Clients |-> <<>>] /\ down = [c \in Clients |-> <<>>]
     \* netarp was told of the links, or the links came before it
  /\ \/ arpClients = Clients /\ arpServer = TRUE
     \/ arpClients = {} /\ arpServer = FALSE
  /\ sock = [h \in Handles |-> NoSocket]
  /\ handleCounter = FirstHandle /\ freeHandles = {}
  /\ state = [s \in Sessions |-> "none"]
  /\ handle = [s \in Sessions |-> FirstHandle]
  /\ peer = [s \in Sessions |-> Nobody]
  /\ closing = {} /\ accepted = 0
  /\ attempts = 0 /\ typed = 0
  /\ stale = {} /\ strayed = {} /\ silenced = {}

----------------------------------------------------------------------------
(* The one thread *)

Resumed == {"run", "exiting", "failed", "lost"}
Settled == \A s \in Sessions : state[s] \notin Resumed
Quiet == Settled /\ \A c \in Clients : up[c] = <<>> /\ down[c] = <<>>

Live(h) == h \in Handles /\ sock[h] # NoSocket
With(c) == {h \in Handles : Live(h) /\ sock[h].remote = c}
Owns(s) == Live(handle[s]) /\ sock[handle[s]].owner = s
Connected(c) == client[c] \in {"open", "testing"}

\* send on the server: nettx forwards the packet, or loses it to an ARP miss.
Sent(c, packet) ==
  IF arpServer THEN /\ down' = [down EXCEPT ![c] = Append(@, packet)]
                    /\ UNCHANGED arpServer
               ELSE arpServer' = TRUE /\ UNCHANGED down

Nothing == UNCHANGED <<down, arpServer>>

----------------------------------------------------------------------------
(* The client: CmdSshClient and SshReader *)

Connect(c) ==
  /\ Quiet /\ client[c] = "off" /\ attempts < MaxAttempts
  /\ attempts' = attempts + 1
  /\ client' = [client EXCEPT ![c] = "connecting"]
  /\ IF c \in arpClients
     THEN up' = [up EXCEPT ![c] = Append(@, Packet("Syn"))] /\ UNCHANGED arpClients
     ELSE arpClients' = arpClients \cup {c} /\ UNCHANGED up
  /\ silenced' = silenced \ {c}
  /\ UNCHANGED <<tests, down, arpServer, table, procs, typed, stale, strayed>>

\* The 5 s of connect are over: the process exits.  Its FIN goes to the remote
\* endpoint, which is not set yet, that is to nobody.
ConnectTimeout(c) ==
  /\ Quiet /\ client[c] = "connecting"
  /\ client' = [client EXCEPT ![c] = "off"]
  /\ UNCHANGED <<tests, wires, arp, table, procs, bounds, ghosts>>

Send(c, type) == up' = [up EXCEPT ![c] = Append(@, Packet(type))]

Type(c) ==
  /\ Quiet /\ Connected(c) /\ typed < MaxTyped
  /\ typed' = typed + 1
  /\ Send(c, "Data")
  /\ UNCHANGED <<clientVars, down, arpServer, table, procs, attempts, ghosts>>

\* A signal ends the client's read; its exit closes the socket.
Quit(c) ==
  /\ Quiet /\ Connected(c)
  /\ client' = [client EXCEPT ![c] = "off"]
  /\ tests' = [tests EXCEPT ![c] = 0]
  /\ Send(c, "Fin")
  /\ UNCHANGED <<down, arp, table, procs, bounds, ghosts>>

\* 3 s without a packet, and 1 s without an answer to a test.
Test(c) ==
  /\ Quiet
  /\ client[c] = "open" \/ (client[c] = "testing" /\ tests[c] < MaxTests)
  /\ client' = [client EXCEPT ![c] = "testing"]
  /\ tests' = [tests EXCEPT ![c] = @ + 1]
  /\ Send(c, "Test")
  /\ UNCHANGED <<down, arp, table, procs, bounds, ghosts>>

GiveUp(c) ==
  /\ Quiet /\ client[c] = "testing" /\ tests[c] = MaxTests
  /\ client' = [client EXCEPT ![c] = "off"]
  /\ tests' = [tests EXCEPT ![c] = 0]
  /\ Send(c, "Fin")
  /\ UNCHANGED <<down, arp, table, procs, bounds, ghosts>>

ClientTimer(c) == ConnectTimeout(c) \/ Test(c) \/ GiveUp(c)

\* handle_packet on the client.  An Ack goes by the binding, which a client
\* that exited has given up; Data and Fin by the session tuple, which the first
\* Ack creates.  Any packet at all answers a test.
ClientReceive(c) ==
  LET packet == Head(down[c])
  IN /\ Settled /\ down[c] # <<>>
     /\ down' = [down EXCEPT ![c] = Tail(@)]
     /\ client' = [client EXCEPT ![c] =
          IF packet.type = "Ack" THEN (IF @ = "off" THEN "off" ELSE "open")
          ELSE IF ~Connected(c) THEN @
          ELSE IF packet.type = "Fin" THEN "off" ELSE "open"]
     /\ tests' = [tests EXCEPT ![c] = 0]
     /\ strayed' = IF packet.type = "Data" /\ Connected(c) /\ peer[packet.from] # c
                   THEN strayed \cup {packet.from} ELSE strayed
     /\ UNCHANGED <<up, arp, table, procs, bounds, stale, silenced>>

----------------------------------------------------------------------------
(* Closing a socket on the server *)

\* Mutant: whoever reads the socket is not told.
ToldNobody(h, st) == st

\* The FIN and then, from the queue's destructor, T{} reach whoever is parked
\* on rx_queue: he reads again, finds no such socket, and his process fails.
\* If it is the owner ("failed") the entry is still being destroyed when
\* close_all counts its instance down; a stranger's was freed long ago ("lost").
Told(h, st) ==
  [s \in Sessions |->
     IF s \in sock[h].waiting /\ st[s] = "parked"
     THEN (IF sock[h].owner = s THEN "failed" ELSE "lost") ELSE st[s]]

\* Mutant: the handle is not given back.
CloseKeepsHandle(h, sk, st) ==
  /\ sock' = [sk EXCEPT ![h] = NoSocket]
  /\ state' = Told(h, st)
  /\ stale' = IF st[sk[h].owner] \in {"greeting", "busy", "run"}
              THEN stale \cup {sk[h].owner} ELSE stale
  /\ UNCHANGED freeHandles

\* close_socket(h), in a table sk and with processes st.
CloseSocket(h, sk, st) ==
  /\ sock' = [sk EXCEPT ![h] = NoSocket]
  /\ freeHandles' = freeHandles \cup {h}
  /\ state' = Told(h, st)
  /\ stale' = IF st[sk[h].owner] \in {"greeting", "busy", "run"}
              THEN stale \cup {sk[h].owner} ELSE stale

\* Mutant: the other end is not sent a FIN.
AsyncCloseUnsaid(s, sk, st) ==
  LET h == handle[s]
  IN IF sk[h] = NoSocket
     THEN /\ sock' = sk /\ state' = st
          /\ Nothing /\ UNCHANGED <<freeHandles, closing, stale>>
     ELSE /\ Nothing
          /\ IF sk[h].rx = 0
             THEN CloseSocket(h, sk, st) /\ UNCHANGED closing
             ELSE /\ closing' = closing \cup {s}
                  /\ sock' = sk /\ state' = st /\ UNCHANGED <<freeHandles, stale>>

\* async_close_socket(handle[s]): FIN, and close once there is no data to read.
AsyncClose(s, sk, st) ==
  LET h == handle[s]
  IN IF sk[h] = NoSocket
     THEN /\ sock' = sk /\ state' = st
          /\ Nothing /\ UNCHANGED <<freeHandles, closing, stale>>
     ELSE /\ Sent(sk[h].remote, Packet("Fin"))
          /\ IF sk[h].rx = 0
             THEN CloseSocket(h, sk, st) /\ UNCHANGED closing
             ELSE /\ closing' = closing \cup {s}
                  /\ sock' = sk /\ state' = st /\ UNCHANGED <<freeHandles, stale>>

\* The loop of async_close_socket, which knows the socket by its handle only.
PollClosing(s) ==
  /\ Quiet /\ s \in closing
  /\ closing' = closing \ {s}
  /\ \/ ~Live(handle[s]) /\ UNCHANGED <<sock, freeHandles, state, stale, silenced>>
     \/ /\ Live(handle[s]) /\ sock[handle[s]].rx = 0
        /\ CloseSocket(handle[s], sock, state)
        /\ silenced' = IF Owns(s) THEN silenced
                       ELSE silenced \cup {sock[handle[s]].remote}
  /\ UNCHANGED <<clientVars, wires, arpServer, handleCounter, handle, peer, accepted,
                 bounds, strayed>>

----------------------------------------------------------------------------
(* The session processes *)

\* --page->instances and, at 0, async_close_socket.  If a FIN has erased the
\* entry, the count is read from freed memory: it is whatever is there, the
\* count the entry had, or that of an entry made since in the same place.
CountDown(s, e, st) ==
  LET sk == [sock EXCEPT ![e].count = @ - 1]
  IN IF sk[e].count = 0 THEN AsyncClose(s, sk, st)
     ELSE /\ sock' = sk /\ state' = st
          /\ Nothing /\ UNCHANGED <<freeHandles, closing, stale>>

\* Mutant: the descriptor of a process that exits is not closed.
ExitUnclosed(s) ==
  /\ state[s] \in {"exiting", "failed", "lost"}
  /\ state' = [state EXCEPT ![s] = "gone"]
  /\ Nothing /\ UNCHANGED <<table, closing, stale>>
  /\ UNCHANGED <<clientVars, up, handle, peer, accepted, bounds, strayed, silenced>>

\* exit: close_all closes the session's descriptor.
Exit(s) ==
  LET st == [state EXCEPT ![s] = "gone"]
  IN /\ state[s] \in {"exiting", "failed", "lost"}
     /\ \/ Owns(s) /\ CountDown(s, handle[s], st)
        \/ /\ ~Owns(s)
           /\ state' = st
           /\ Nothing /\ UNCHANGED <<sock, freeHandles, closing, stale>>
        \/ ~Owns(s) /\ state[s] # "failed" /\ AsyncClose(s, sock, st)
        \/ /\ ~Owns(s) /\ state[s] # "failed"
           /\ \E e \in Handles : Live(e) /\ CountDown(s, e, st)
     /\ UNCHANGED <<clientVars, up, handleCounter, handle, peer, accepted, bounds,
                    strayed, silenced>>

\* The process reads by its handle: nothing there, data there, or parked.
Reads(s) ==
  LET h == handle[s]
  IN IF ~Live(h)
     THEN state' = [state EXCEPT ![s] = "lost"] /\ UNCHANGED <<sock, strayed>>
     ELSE IF sock[h].rx > 0
     THEN /\ sock' = [sock EXCEPT ![h].rx = @ - 1]
          /\ state' = [state EXCEPT ![s] = "run"]
          /\ strayed' = IF sock[h].remote # peer[s] THEN strayed \cup {s} ELSE strayed
     ELSE /\ sock' = [sock EXCEPT ![h].waiting = @ \cup {s}]
          /\ state' = [state EXCEPT ![s] = "parked"]
          /\ UNCHANGED strayed

\* It writes (the prompt, the echo or a result) and reads again: when its
\* 1 s or its command are over, or on the spot.
Answer(s) ==
  /\ (Quiet /\ state[s] \in {"greeting", "busy"}) \/ state[s] = "run"
  /\ IF Live(handle[s]) THEN Sent(sock[handle[s]].remote, DataOf(s)) ELSE Nothing
  /\ Reads(s)
  /\ UNCHANGED <<clientVars, up, handleCounter, freeHandles, handle, peer, closing,
                 accepted, bounds, stale, silenced>>

\* It starts a command that takes its time.
StartCommand(s) ==
  /\ state[s] = "run"
  /\ state' = [state EXCEPT ![s] = "busy"]
  /\ UNCHANGED <<clientVars, wires, arpServer, table, handle, peer, closing,
                 accepted, bounds, ghosts>>

\* It ends (login fails, or the shell is told to exit), with a last word; or a
\* signal ends its read, which stays registered on the queue.
Leave(s) ==
  /\ state[s] = "run"
  /\ IF Live(handle[s]) THEN Sent(sock[handle[s]].remote, DataOf(s)) ELSE Nothing
  /\ state' = [state EXCEPT ![s] = "exiting"]
  /\ UNCHANGED <<clientVars, up, table, handle, peer, closing, accepted, bounds, ghosts>>

Kill(s) ==
  /\ Quiet /\ state[s] = "parked"
  /\ state' = [state EXCEPT ![s] = "exiting"]
  /\ UNCHANGED <<clientVars, wires, arpServer, table, handle, peer, closing,
                 accepted, bounds, ghosts>>

----------------------------------------------------------------------------
(* handle_packet on the server *)

Receives(c, type) ==
  /\ Settled /\ up[c] # <<>> /\ Head(up[c]).type = type
  /\ up' = [up EXCEPT ![c] = Tail(@)]

NewHandle == IF freeHandles # {}
             THEN CHOOSE h \in freeHandles : \A g \in freeHandles : h <= g
             ELSE handleCounter

\* async_accept_socket: a socket with the packet's tuple.  Its entry will count
\* one instance, once the service has closed its own copy of the descriptor.
SocketAccepted(c) ==
  /\ freeHandles' = freeHandles \ {NewHandle}
  /\ handleCounter' = IF freeHandles = {} THEN handleCounter + 1 ELSE handleCounter
  /\ sock' = [sock EXCEPT ![NewHandle] =
       [owner |-> accepted + 1, remote |-> c, count |-> 1, rx |-> 0, waiting |-> {}]]
  /\ Sent(c, Packet("Ack"))

\* CmdSshServer: a session process that inherits the descriptor.
SessionForked(c) ==
  /\ accepted' = accepted + 1
  /\ state' = [state EXCEPT ![accepted + 1] = "greeting"]
  /\ handle' = [handle EXCEPT ![accepted + 1] = NewHandle]
  /\ peer' = [peer EXCEPT ![accepted + 1] = c]

\* A Syn goes to the listening socket, by its binding, whose service waits in
\* accept and waits there again when the session process waits for its 1 s.
\* (Every Syn is an attempt, so this bound is never met.)
ReceiveSyn(c) ==
  /\ Receives(c, "Syn") /\ accepted < MaxAttempts
  /\ SocketAccepted(c)
  /\ SessionForked(c)
  /\ UNCHANGED <<clientVars, closing, bounds, ghosts>>

\* rx_queue.push: to whoever is registered, or else to the queue.
Pushed(c, h) ==
  LET reading == {s \in sock[h].waiting : state[s] = "parked"}
  IN IF sock[h].waiting = {}
     THEN sock' = [sock EXCEPT ![h].rx = @ + 1] /\ UNCHANGED <<state, strayed>>
     ELSE /\ sock' = [sock EXCEPT ![h].waiting = {}]
          /\ state' = [s \in Sessions |-> IF s \in reading THEN "run" ELSE state[s]]
          /\ strayed' = strayed \cup {s \in reading : peer[s] # c}

\* Mutant: the port alone finds the socket.
ReceiveDataByPort(c) ==
  /\ Receives(c, "Data")
  /\ \E h \in Handles : Live(h) /\ Pushed(c, h)
  /\ UNCHANGED <<clientVars, down, arpServer, handleCounter, freeHandles, handle,
                 peer, closing, accepted, bounds, stale, silenced>>

\* Data goes to a socket with the packet's tuple, whichever is found first.
ReceiveData(c) ==
  /\ Receives(c, "Data")
  /\ \/ With(c) = {} /\ UNCHANGED <<sock, state, strayed>>
     \/ \E h \in With(c) : Pushed(c, h)
  /\ UNCHANGED <<clientVars, down, arpServer, handleCounter, freeHandles, handle,
                 peer, closing, accepted, bounds, stale, silenced>>

ReceiveFin(c) ==
  /\ Receives(c, "Fin")
  /\ \/ With(c) = {} /\ UNCHANGED <<sock, freeHandles, state, stale>>
     \/ \E h \in With(c) : CloseSocket(h, sock, state)
  /\ UNCHANGED <<clientVars, down, arpServer, handleCounter, handle, peer, closing,
                 accepted, bounds, strayed, silenced>>

\* Mutant: a test is answered whether or not there is a session.
ReceiveTestAny(c) ==
  /\ Receives(c, "Test")
  /\ Sent(c, Packet("Ack"))
  /\ UNCHANGED <<clientVars, table, procs, bounds, ghosts>>

ReceiveTest(c) ==
  /\ Receives(c, "Test")
  /\ IF With(c) # {} THEN Sent(c, Packet("Ack")) ELSE Nothing
  /\ UNCHANGED <<clientVars, table, procs, bounds, ghosts>>

ServerReceive(c) ==
  ReceiveSyn(c) \/ ReceiveData(c) \/ ReceiveFin(c) \/ ReceiveTest(c)

Runs(s) == (state[s] = "run" /\ Answer(s)) \/ StartCommand(s) \/ Leave(s) \/ Exit(s)

Next ==
  \/ \E c \in Clients :
       \/ Connect(c) \/ Type(c) \/ Quit(c) \/ ClientTimer(c)
       \/ ClientReceive(c) \/ ServerReceive(c)
  \/ \E s \in Sessions : Runs(s) \/ Answer(s) \/ Kill(s) \/ PollClosing(s)

\* What is under way goes on, and a client's timer fires in the first step of
\* the timers after its time, whatever else happens: step finds no packet
\* under way, though packets come and go between any two of its calls.
Fairness ==
  /\ \A c \in Clients : WF_vars(ClientReceive(c) \/ ServerReceive(c))
  /\ \A s \in Sessions : WF_vars(Runs(s))
  /\ \A c \in Clients : SF_vars(ClientTimer(c))

Spec == Init /\ [][Next]_vars
FairSpec == Spec /\ Fairness

----------------------------------------------------------------------------
\* Every handle below the counter is in use or free for reuse, and not both,
\* though a socket may be closed by its owner, by a FIN, by a loop that waits
\* for its data, or by a process that had its handle before.
HandlesExact ==
  /\ freeHandles = {h \in Handles : h < handleCounter /\ ~Live(h)}
  /\ \A h \in Handles : Live(h) => h < handleCounter

\* A process that waits for data waits at a socket that is there, with nothing
\* in its queue: a socket that goes tells everyone who reads it.
ReadersServed ==
  \A s \in Sessions : state[s] = "parked" =>
    /\ Live(handle[s])
    /\ s \in sock[handle[s]].waiting
    /\ sock[handle[s]].rx = 0

\* A socket whose process has exited is about to be closed, or its count was
\* spoilt by a process that closed a descriptor of an entry that was freed.
SocketsReleased ==
  \A h \in Handles : Live(h) /\ state[sock[h].owner] = "gone" =>
    sock[h].count < 0 \/ \E s \in closing : handle[s] = h

\* When nothing is under way, a client that believes it is connected has a
\* socket on the server, unless the close of a session that had the same handle
\* before took it away without a FIN.
EndsAgree ==
  Quiet => \A c \in Clients :
    Connected(c) => With(c) # {} \/ c \in silenced

\* A client's data and a session's output reach only each other, unless the
\* session's socket was closed while it did not read and its handle was reused.
NoCrossTalk == strayed \subseteq stale

\* A client whose socket is gone finds out: its tests are not answered, and the
\* third one ends it.
HalfOpenEnds ==
  \A c \in Clients : (Connected(c) /\ With(c) = {}) ~> ~Connected(c)
=============================================================================
