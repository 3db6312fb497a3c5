---- MODULE Bridge ----
(***************************************************************************)
(* Packets between hosts: the tx, rx and ARP services of a host, the links *)
(* of one world, and the dbc programs that join hosts of several processes *)
(* over real sockets.  "host" (dbc_server_program.cpp) runs on the Hub,    *)
(* "join" (dbc_client_program.cpp) on each client; a Neighbour is linked   *)
(* to the Hub inside the Hub's world.                                      *)
(*                                                                         *)
(* nettx sends a packet to the host itself, over a link when ARP knows the *)
(* address, and into the routing queue otherwise.  Whoever reads that      *)
(* queue carries the packet on: one writer per joined client on the Hub,   *)
(* the one writer of "join" on a client.  A packet that finds writers      *)
(* parked on the queue is copied to every one of them and not queued; one  *)
(* that finds none is queued for the first that looks (msg_queue.h).       *)
(*                                                                         *)
(* Every program has several threads: programs run on that of the world or *)
(* of the console, sockets are read on that of asio.  A service waits on   *)
(* its queue, and whoever pushes resumes it, on the thread and inside the  *)
(* call of the push.  push looks for a waiting service first and takes it  *)
(* in a critical section of its own, pop and waiting are two as well, so   *)
(* that threads may come between; on one thread a queue is first in first  *)
(* out (module Fifo).                                                      *)
(*                                                                         *)
(* The routing queue is pushed to by nettx alone, so that nothing comes    *)
(* between the two halves of a push but a writer that parks, which might   *)
(* as well have parked before; its readers' looking and parking are apart. *)
(***************************************************************************)
EXTENDS Naturals, Sequences, FiniteSets, Bags

CONSTANTS Clients, Hub, Neighbour, NoHost,
          Programs,     \* threads that run programs: the world's, the console's
          Traffic, MaxPackets, MaxJoins, MaxBusy

Hosts == Clients \cup {Hub, Neighbour}
Joins == 1..MaxJoins

(* Hosts have addresses of their own.  Who may send to whom and how often, *)
(* and how many processes are busy at a time, are bounds of the model.     *)
ASSUME AddressAssumption == {Hub, Neighbour} \cap Clients = {} /\ Hub # Neighbour
ASSUME TrafficAssumption == Traffic \subseteq Hosts \X Hosts
ASSUME BoundsAssumption == MaxPackets \in Nat /\ MaxJoins \in Nat /\ MaxBusy \in Nat
ASSUME NoHostAssumption == NoHost \notin Hosts
ASSUME ThreadsAssumption == "asio" \notin Programs

(* A world lives in one process, and the Neighbour in the Hub's.           *)
Home(h) == IF h = Neighbour THEN Hub ELSE h
Homes == Clients \cup {Hub}
Threads == Homes \X (Programs \cup {"asio"})
Asio(h) == <<Home(h), "asio">>

(* nettx and netrx of each host, each the one reader of its queue.         *)
Services == {"tx", "rx"} \X Hosts

(* A connection has two ends, and each end one writer.                     *)
Ends == Joins \X {"client", "server"}
Other(e) == <<e[1], IF e[2] = "client" THEN "server" ELSE "client">>

VARIABLES
  tx, rx,       \* the queues of a host's NIC
  stack,        \* the services resumed on a thread, the innermost first
  looked,       \* services that found their queue empty and do not wait yet
  pushing,      \* the push of a thread that has not taken the service yet
  lost,         \* history: packets whose push found nobody any more
  routing,      \* NetManager::routing_queue_
  linked,       \* whether Hub and Neighbour are linked
  arp,          \* arp_cache_: the hosts whose address resolves to a link
  who,          \* the client of each connection made so far
  hosting,      \* whether "host" runs on the Hub
  sock,         \* the socket of each end: none, open, closed
  pc, held,     \* where a writer is, and the packet it carries
  wire,         \* what an end wrote and the other has not read
  handled,      \* history: bag of <<host, packet>> given to the handlers
  late,         \* history: packets a writer took after its socket closed
  promised,     \* history: asks sent while Hub and client were connected
  sent          \* number of packets made so far

threads == <<stack, looked, pushing, lost>>
queues == <<tx, rx, routing>>
conns == <<who, hosting, sock>>
writers == <<pc, held, wire, late>>
vars == <<queues, threads, linked, arp, conns, writers, handled, promised, sent>>

NoPacket == [id |-> 0]
NoPush == [to |-> <<>>, packet |-> NoPacket]

(* The asks a program sends and what the other end's handlers answer.      *)
Ask(n, s, d) == [id |-> n, src |-> s, dst |-> d, kind |-> "ask"]
Reply(p) == [p EXCEPT !.src = p.dst, !.dst = p.src, !.kind = "answer"]

HostOf(e) == IF e[2] = "server" THEN Hub ELSE who[e[1]]

Init ==
  /\ tx = [h \in Hosts |-> <<>>]
  /\ rx = [h \in Hosts |-> <<>>]
  /\ stack = [t \in Threads |-> <<>>]
  /\ looked = {}
  /\ pushing = [t \in Threads |-> NoPush]
  /\ lost = {}
  /\ routing = [h \in Hosts |-> <<>>]
  /\ linked = FALSE
  /\ arp = [h \in Hosts |-> {}]
  /\ who = [k \in Joins |-> NoHost]
  /\ hosting = TRUE
  /\ sock = [e \in Ends |-> "none"]
  /\ pc = [e \in Ends |-> "none"]
  /\ held = [e \in Ends |-> NoPacket]
  /\ wire = [e \in Ends |-> <<>>]
  /\ handled = EmptyBag
  /\ late = [e \in Ends |-> 0]
  /\ promised = {}
  /\ sent = 0
-----------------------------------------------------------------------------
(* A service is registered with its queue when no thread runs it.          *)
Waiting(s) == \A t \in Threads : \A i \in DOMAIN stack[t] : stack[t][i] # s

Idle(t) == stack[t] = <<>> /\ pushing[t] = NoPush

(* A writer looks and parks on the thread of asio.                         *)
Parking(h) == \E e \in Ends : pc[e] = "parking" /\ HostOf(e) = h

(* Threads of two processes share nothing but the real sockets: a bound on *)
(* how many processes have a thread in the middle of something.            *)
Busy(g) == Parking(g) \/ \E t \in Threads : t[1] = g /\ ~Idle(t)
MayStart(h) == Cardinality({g \in Homes \ {Home(h)} : Busy(g)}) < MaxBusy

(* The coroutines of the real sockets take turns on the thread of asio:    *)
(* none starts while it runs a service or is between looking and parking.  *)
AsioFree(h) == Idle(Asio(h)) /\ ~Parking(h) /\ MayStart(h)

(* Thread t runs service s, which nothing it called keeps busy.            *)
Runs(t, s) ==
  /\ stack[t] # <<>> /\ Head(stack[t]) = s
  /\ pushing[t] = NoPush
  /\ s \notin looked

(* push, first half: queued if the service does not wait, and otherwise    *)
(* to be given to it.  queue is what the rest of the step makes of it.     *)
PushTx(t, h, queue, p) ==
  IF Waiting(<<"tx", h>>)
  THEN /\ tx' = [tx EXCEPT ![h] = queue]
       /\ pushing' = [pushing EXCEPT ![t] = [to |-> <<"tx", h>>, packet |-> p]]
  ELSE /\ tx' = [tx EXCEPT ![h] = Append(queue, p)]
       /\ UNCHANGED pushing

PushRx(t, h, queue, p) ==
  IF Waiting(<<"rx", h>>)
  THEN /\ rx' = [rx EXCEPT ![h] = queue]
       /\ pushing' = [pushing EXCEPT ![t] = [to |-> <<"rx", h>>, packet |-> p]]
  ELSE /\ rx' = [rx EXCEPT ![h] = Append(queue, p)]
       /\ UNCHANGED pushing

(* push, second half: the service goes on inside this call with the packet *)
(* before any that is queued, or is gone and the packet with it.           *)
Resume(t, s, p) ==
  /\ stack' = [stack EXCEPT ![t] = <<s>> \o @]
  /\ \/ s[1] = "tx" /\ tx' = [tx EXCEPT ![s[2]] = <<p>> \o @] /\ UNCHANGED rx
     \/ s[1] = "rx" /\ rx' = [rx EXCEPT ![s[2]] = <<p>> \o @] /\ UNCHANGED tx
  /\ UNCHANGED lost

Broadcast(t) ==
  LET s == pushing[t].to
      p == pushing[t].packet
  IN /\ pushing[t] # NoPush
     /\ pushing' = [pushing EXCEPT ![t] = NoPush]
     /\ \/ Waiting(s) /\ Resume(t, s, p)
        \/ ~Waiting(s) /\ lost' = lost \cup {p} /\ UNCHANGED <<stack, tx, rx>>
     /\ UNCHANGED <<looked, routing, linked, arp, conns, writers, handled,
                    promised, sent>>

(* A service finds its queue empty, and then waits: the call that resumed  *)
(* it returns.                                                             *)
Queue(s) == IF s[1] = "tx" THEN tx[s[2]] ELSE rx[s[2]]

ServiceLooks(t) ==
  /\ stack[t] # <<>>
  /\ LET s == Head(stack[t]) IN
       /\ Runs(t, s)
       /\ Queue(s) = <<>>
       /\ looked' = looked \cup {s}
  /\ UNCHANGED <<queues, stack, pushing, lost, linked, arp, conns, writers,
                 handled, promised, sent>>

ServiceParks(t) ==
  /\ stack[t] # <<>> /\ Head(stack[t]) \in looked
  /\ looked' = looked \ {Head(stack[t])}
  /\ stack' = [stack EXCEPT ![t] = Tail(@)]
  /\ UNCHANGED <<queues, pushing, lost, linked, arp, conns, writers, handled,
                 promised, sent>>
-----------------------------------------------------------------------------
(* NetManager::receive and the handler of TCP: only the host a packet is   *)
(* addressed to has sockets bound to that address, so that any other drops *)
(* it (the ICMP handler, which answers whatever the address, is never sent *)
(* an echo request: no program makes one); the handler of an ask may push  *)
(* an answer to tx.  Receive is the whole of it, on thread t; queue is     *)
(* what is left of the host's tx queue.                                    *)
Receive(t, h, p, queue) ==
  /\ handled' = IF p.dst = h THEN handled (+) SetToBag({<<h, p>>})
                             ELSE handled
  /\ \/ tx' = [tx EXCEPT ![h] = queue] /\ UNCHANGED <<pushing, sent>>
     \/ /\ p.dst = h /\ p.kind = "ask"
        /\ sent < MaxPackets
        /\ PushTx(t, h, queue, Reply(p))
        /\ sent' = sent + 1

(* push on the routing queue.                                              *)
Parked(h) == {e \in Ends : pc[e] = "parked" /\ HostOf(e) = h}

Wake(h, p) ==
  /\ pc' = [e \in Ends |-> IF e \in Parked(h) THEN "running" ELSE pc[e]]
  /\ held' = [e \in Ends |-> IF e \in Parked(h) THEN p ELSE held[e]]
  /\ late' = [e \in Ends |-> IF e \in Parked(h) /\ sock[e] = "closed"
                             THEN late[e] + 1 ELSE late[e]]

RouteBoth(h, p) ==
  /\ routing' = [routing EXCEPT ![h] = Append(@, p)]
  /\ Wake(h, p)

RouteUnqueued(h, p) == UNCHANGED routing /\ Wake(h, p)

Route(h, p) ==
  IF Parked(h) = {}
  THEN /\ routing' = [routing EXCEPT ![h] = Append(@, p)]
       /\ UNCHANGED <<pc, held, late>>
  ELSE UNCHANGED routing /\ Wake(h, p)

(* A program on host h sends to d.                                         *)
Connected(h, d) ==
  \E k \in Joins : /\ {h, d} = {Hub, who[k]}
                   /\ sock[<<k, "client">>] = "open"
                   /\ sock[<<k, "server">>] = "open"

Send(t, h, d) ==
  /\ sent < MaxPackets
  /\ t[1] = Home(h) /\ t[2] \in Programs /\ Idle(t) /\ MayStart(h)
  /\ sent' = sent + 1
  /\ LET p == Ask(sent + 1, h, d) IN
       /\ PushTx(t, h, tx[h], p)
       /\ promised' = IF Connected(h, d) THEN promised \cup {p} ELSE promised
  /\ UNCHANGED <<rx, stack, looked, lost, routing, linked, arp, conns,
                 writers, handled>>

(* nettx: a miss asks every linked NIC for its address, and then hands the *)
(* packet to the routing queue whatever the answer was.                    *)
LinkedTo(h) ==
  IF linked /\ h \in {Hub, Neighbour} THEN {Hub, Neighbour} \ {h} ELSE {}

TransmitHere(t, h) ==
  /\ Runs(t, <<"tx", h>>)
  /\ tx[h] # <<>>
  /\ Head(tx[h]).dst = h
  /\ Receive(t, h, Head(tx[h]), Tail(tx[h]))
  /\ UNCHANGED <<rx, stack, looked, lost, routing, linked, arp, conns,
                 writers, promised>>

TransmitLink(t, h) ==
  /\ Runs(t, <<"tx", h>>)
  /\ tx[h] # <<>>
  /\ Head(tx[h]).dst \in arp[h] \ {h}
  /\ tx' = [tx EXCEPT ![h] = Tail(@)]
  /\ LET other == Head(tx[h]).dst IN PushRx(t, other, rx[other], Head(tx[h]))
  /\ UNCHANGED <<stack, looked, lost, routing, linked, arp, conns, writers,
                 handled, promised, sent>>

TransmitRoute(t, h) ==
  /\ Runs(t, <<"tx", h>>)
  /\ tx[h] # <<>>
  /\ Head(tx[h]).dst \notin arp[h] \cup {h}
  /\ tx' = [tx EXCEPT ![h] = Tail(@)]
  /\ arp' = [arp EXCEPT ![h] = @ \cup LinkedTo(h)]
  /\ Route(h, Head(tx[h]))
  /\ UNCHANGED <<rx, threads, linked, conns, wire, handled, promised, sent>>

(* netrx: what is for this host goes to the handlers, the rest to tx.      *)
ReceiveService(t, h) ==
  /\ Runs(t, <<"rx", h>>)
  /\ rx[h] # <<>>
  /\ rx' = [rx EXCEPT ![h] = Tail(@)]
  /\ LET p == Head(rx[h]) IN
       \/ p.dst = h /\ Receive(t, h, p, tx[h])
       \/ /\ p.dst # h
          /\ PushTx(t, h, tx[h], p)
          /\ UNCHANGED <<handled, sent>>
  /\ UNCHANGED <<stack, looked, lost, routing, linked, arp, conns, writers,
                 promised>>

(* netarp, waiting since the host started, is told of a link by its NIC    *)
(* and asks the other end for its address.                                 *)
LinkSeen(h, other) == arp[h] \cup {other}

(* LinkServer::link: both NICs learn the other, one after the other.       *)
Link ==
  /\ ~linked /\ sent = 0 /\ \A k \in Joins : who[k] = NoHost
  /\ linked' = TRUE
  /\ arp' = [arp EXCEPT ![Hub] = LinkSeen(Hub, Neighbour),
                        ![Neighbour] = LinkSeen(Neighbour, Hub)]
  /\ UNCHANGED <<queues, threads, conns, writers, handled, promised, sent>>
-----------------------------------------------------------------------------
(* A reader and a writer are spawned at each end.                          *)
Started(k) ==
  LET ends == {k} \X {"client", "server"} IN
  /\ sock' = [e \in Ends |-> IF e \in ends THEN "open" ELSE sock[e]]
  /\ pc' = [e \in Ends |-> IF e \in ends THEN "running" ELSE pc[e]]

(* "join" on client c, not joined at the moment, connects, and the         *)
(* listener of "host" accepts and starts a session for it.                 *)
Join(c, k) ==
  /\ hosting
  /\ who[k] = NoHost
  /\ \A j \in Joins : /\ j < k => who[j] # NoHost
                      /\ who[j] = c => sock[<<j, "client">>] = "closed"
  /\ AsioFree(Hub) /\ AsioFree(c)
  /\ who' = [who EXCEPT ![k] = c]
  /\ Started(k)
  /\ UNCHANGED <<queues, threads, linked, arp, hosting, held, wire, late, handled,
                 promised, sent>>

(* The loop of a writer: leave when the socket is closed, take a queued    *)
(* packet, or go and park.                                                 *)
Take(e) ==
  /\ held' = [held EXCEPT ![e] = Head(routing[HostOf(e)])]
  /\ routing' = [routing EXCEPT ![HostOf(e)] = Tail(@)]
  /\ late' = [late EXCEPT ![e] = IF sock[e] = "closed" THEN @ + 1 ELSE @]
  /\ UNCHANGED pc

GoPark(e, to) ==
  /\ pc' = [pc EXCEPT ![e] = to]
  /\ held' = [held EXCEPT ![e] = NoPacket]
  /\ UNCHANGED <<routing, late>>

LookUnchecked(e) ==
  IF routing[HostOf(e)] # <<>> THEN Take(e) ELSE GoPark(e, "parking")

Look(e) ==
  CASE sock[e] = "closed" -> GoPark(e, "done")
    [] sock[e] = "open" /\ routing[HostOf(e)] # <<>> -> Take(e)
    [] OTHER -> GoPark(e, "parking")

(* async_write of the packet it holds, then the loop again.  An error of   *)
(* the write is not looked at: the packet is gone with it.                 *)
WriterRuns(e) ==
  /\ pc[e] = "running" /\ AsioFree(HostOf(e))
  /\ wire' = [wire EXCEPT ![e] =
                IF /\ held[e] # NoPacket /\ sock[e] = "open"
                   /\ sock[Other(e)] = "open"
                THEN Append(@, held[e]) ELSE @]
  /\ Look(e)
  /\ UNCHANGED <<tx, rx, threads, linked, arp, conns, handled, promised, sent>>

WriterParks(e) ==
  /\ pc[e] = "parking"
  /\ pc' = [pc EXCEPT ![e] = "parked"]
  /\ UNCHANGED <<queues, threads, linked, arp, conns, held, wire, late,
                 handled, promised, sent>>

(* A session's reader delivers into the Hub's rx queue (safe_rx), the      *)
(* reader of "join" straight to the handlers.                              *)
ServerReads(k) ==
  LET from == <<k, "client">> IN
  /\ sock[<<k, "server">>] = "open"
  /\ wire[from] # <<>>
  /\ AsioFree(Hub)
  /\ wire' = [wire EXCEPT ![from] = Tail(@)]
  /\ PushRx(Asio(Hub), Hub, rx[Hub], Head(wire[from]))
  /\ UNCHANGED <<tx, stack, looked, lost, routing, linked, arp, conns, pc,
                 held, late, handled, promised, sent>>

DeliverRx(c, p) ==
  /\ PushRx(Asio(c), c, rx[c], p)
  /\ UNCHANGED <<tx, handled, sent>>

Deliver(c, p) == Receive(Asio(c), c, p, tx[c]) /\ UNCHANGED rx

ClientReads(k) ==
  LET from == <<k, "server">> IN
  /\ sock[<<k, "client">>] = "open"
  /\ wire[from] # <<>>
  /\ AsioFree(who[k])
  /\ wire' = [wire EXCEPT ![from] = Tail(@)]
  /\ Deliver(who[k], Head(wire[from]))
  /\ UNCHANGED <<stack, looked, lost, routing, linked, arp, conns, pc, held,
                 late, promised>>

(* A session whose client is gone stops: the socket is closed, a parked    *)
(* writer stays where it is.  What was on its way is lost.                 *)
Cut(k) == [e \in Ends |-> IF e[1] = k THEN <<>> ELSE wire[e]]

ServerStops(k) ==
  /\ sock[<<k, "server">>] = "open"
  /\ sock[<<k, "client">>] = "closed"
  /\ AsioFree(Hub)
  /\ sock' = [sock EXCEPT ![<<k, "server">>] = "closed"]
  /\ wire' = Cut(k)
  /\ UNCHANGED <<queues, threads, linked, arp, who, hosting, pc, held, late,
                 handled, promised, sent>>

(* The io_context of a program goes with its coroutines, all but a writer  *)
(* that is parked: its frame belongs to the queue it is parked on.         *)
Dropped(ends) ==
  /\ \A e \in ends : pc[e] # "parking"
  /\ pc' = [e \in Ends |-> IF e \in ends /\ pc[e] = "running"
                           THEN "done" ELSE pc[e]]
  /\ held' = [e \in Ends |-> IF e \in ends THEN NoPacket ELSE held[e]]

(* "join" ends when its reader fails, the other end being closed, or on a  *)
(* signal: the context stops and the program returns.                      *)
ClientStops(k) ==
  LET e == <<k, "client">> IN
  /\ sock[e] = "open" /\ AsioFree(who[k])
  /\ sock' = [sock EXCEPT ![e] = "closed"]
  /\ wire' = [wire EXCEPT ![Other(e)] = <<>>]
  /\ Dropped({e})
  /\ UNCHANGED <<queues, threads, linked, arp, who, hosting, late, handled,
                 promised, sent>>

(* A signal ends "host" with every session.                                *)
HubStops ==
  LET sessions == {e \in Ends : e[2] = "server" /\ who[e[1]] # NoHost} IN
  /\ hosting /\ AsioFree(Hub)
  /\ hosting' = FALSE
  /\ sock' = [e \in Ends |-> IF e \in sessions THEN "closed" ELSE sock[e]]
  /\ wire' = [e \in Ends |-> IF Other(e) \in sessions THEN <<>> ELSE wire[e]]
  /\ Dropped(sessions)
  /\ UNCHANGED <<queues, threads, linked, arp, who, late, handled, promised,
                 sent>>
-----------------------------------------------------------------------------
HostNext(t, h) ==
  TransmitHere(t, h) \/ TransmitLink(t, h) \/ TransmitRoute(t, h) \/ ReceiveService(t, h)
ThreadNext(t) == Broadcast(t) \/ ServiceLooks(t) \/ ServiceParks(t)
WriterNext(e) == WriterRuns(e) \/ WriterParks(e)

Next ==
  \/ \E t \in Threads : \/ \E f \in Traffic : Send(t, f[1], f[2])
                        \/ stack[t] # <<>> /\ \E h \in Hosts : HostNext(t, h)
                        \/ ThreadNext(t)
  \/ Link
  \/ \E c \in Clients, k \in Joins : Join(c, k)
  \/ \E k \in Joins : \/ ServerReads(k) \/ ClientReads(k)
                      \/ ServerStops(k) \/ ClientStops(k)
  \/ \E e \in Ends : WriterNext(e)
  \/ HubStops

Spec == Init /\ [][Next]_vars
-----------------------------------------------------------------------------
(* However often a packet is copied between writers, and to sessions of    *)
(* clients that left and came back, the host it is addressed to handles it *)
(* at most once, and no other host handles it at all.                      *)
HandledOnce ==
  \A x \in BagToSet(handled) : x[1] = x[2].dst /\ handled[x] = 1

(* A writer that was parked when its session ended swallows one packet     *)
(* more, and never a second.                                               *)
EndedTakeOne == \A e \in Ends : late[e] <= 1

(* The packets on their way: those of a push, or those that are queued,    *)
(* though beside a service that looked too early and waits, count as such. *)
OnTheWay(p) ==
  \/ \E h \in Hosts : p \in UNION {{q[i] : i \in 1..Len(q)} :
                                     q \in {tx[h], rx[h], routing[h]}}
  \/ \E t \in Threads : pushing[t].packet = p
  \/ \E e \in Ends : held[e] = p \/ \E i \in 1..Len(wire[e]) : wire[e][i] = p

Kept(p) == <<p.dst, p>> \in BagToSet(handled) \/ OnTheWay(p)

Unbroken == \A e \in Ends : sock[e] # "closed"

(* The service that a push has seen waiting waits until the push takes it, *)
(* unless another thread resumes it in between.                            *)
OnlyOvertaken ==
  \A t \in Threads : pushing[t] # NoPush =>
     \/ Waiting(pushing[t].to)
     \/ \E u \in Threads \ {t} : \E i \in DOMAIN stack[u] : stack[u][i] = pushing[t].to

(* While one client is joined and its connection stands, whatever is sent  *)
(* between it and the Hub is handled or still on its way, but for packets  *)
(* that two threads push at once, of which the slower finds nobody (the    *)
(* only way to find nobody): neither looking and parking apart nor a busy  *)
(* writer loses a packet.                                                  *)
AloneNothingLost ==
  /\ OnlyOvertaken
  /\ (Unbroken /\ Cardinality({k \in Joins : who[k] # NoHost}) <= 1)
       => \A p \in promised \ lost : Kept(p)

(* The same with several clients: dbc_server_program.cpp says that a Hub   *)
(* allows "users to connect and route traffic through it".  It does not:   *)
(* a packet that finds the writer of its client busy and another parked    *)
(* goes to the other alone.                                                *)
NothingLost == Unbroken => \A p \in promised : Kept(p)

(* No packet circulates: what a client transmits is its own, and what the  *)
(* Hub's services handle never came back from where they sent it.  The     *)
(* copies that the Hub gives to every client would otherwise go round.     *)
Transmitted(c) ==
  {tx[c], routing[c]} \cup {wire[e] : e \in {x \in Ends : x[2] = "client"
                                                       /\ who[x[1]] = c}}

NothingCirculates ==
  \A c \in Clients : \A q \in Transmitted(c) :
     \A i \in 1..Len(q) : q[i].src = c
====
