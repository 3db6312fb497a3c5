---- MODULE Bridge_proofs ----
(***************************************************************************)
(* For any number of clients, connections, threads and packets: a writer   *)
(* takes one packet at most after its connection has ended; a client       *)
(* transmits only what is its own; no packet is handled twice or by        *)
(* another host than its own; and what is sent between the Hub and a       *)
(* client that is joined alone is lost only in a push that another thread  *)
(* overtook.                                                               *)
(*                                                                         *)
(* WriterInv says where a writer is that has taken its one packet: the     *)
(* packet came when it was parked, which it is no more, and having seen    *)
(* its socket closed it will not be again.  OwnInv adds what packets are   *)
(* in a client's queues, wires, writers and pushes.  OnceInv follows the   *)
(* copies that may still be handled: each packet has one at most, in one   *)
(* place, once, and none when it was handled; a thread between the two     *)
(* halves of a push is a place too.  KeptInv names the places where a      *)
(* packet between the two may be while nothing has ended, and StackInv     *)
(* says that a thread does not resume the service its own push has seen    *)
(* waiting.                                                                *)
(***************************************************************************)
EXTENDS Bridge, TLAPS, SequencesExt, FiniteSetTheorems

WriterTypes ==
  /\ late \in [Ends -> 0..1]
  /\ pc \in [Ends -> {"none", "running", "parking", "parked", "done"}]
  /\ sock \in [Ends -> {"none", "open", "closed"}]
  /\ who \in [Joins -> Clients \cup {NoHost}]

Unmade(k) == who[k] = NoHost
NoneYet == \A e \in Ends : Unmade(e[1]) => sock[e] = "none"

TookLate ==
  \A e \in Ends : late[e] = 1 => sock[e] = "closed" /\ pc[e] \in {"running", "done"}

WriterInv == WriterTypes /\ NoneYet /\ TookLate

writerState == <<late, pc, sock, who>>

LEMMA WriterInit == Init => WriterInv
  BY DEF Init, WriterInv, WriterTypes, NoneYet, TookLate, Unmade

LEMMA EndsOf == \A e \in Ends : e[1] \in Joins /\ e[2] \in {"client", "server"}
                                 /\ e = <<e[1], e[2]>>
  BY DEF Ends

(* A push on the routing queue gives a packet to writers that are parked.  *)
LEMMA RouteKeeps ==
  ASSUME WriterInv, NEW h, NEW p, Route(h, p), UNCHANGED <<sock, who>>
  PROVE  WriterInv'
<1>1. CASE Parked(h) = {}
  BY <1>1 DEF Route, WriterInv, WriterTypes, NoneYet, TookLate, Unmade
<1>2. CASE Wake(h, p)
  <2>1. \A e \in Parked(h) : e \in Ends /\ pc[e] = "parked" /\ late[e] = 0
    BY DEF Parked, WriterInv, WriterTypes, TookLate
  <2>2. WriterTypes'
    BY <1>2, <2>1 DEF Wake, WriterInv, WriterTypes
  <2>3. TookLate'
    BY <1>2, <2>1 DEF Wake, WriterInv, WriterTypes, TookLate
  <2>4. NoneYet'
    BY DEF WriterInv, NoneYet, Unmade
  <2> QED BY <2>2, <2>3, <2>4 DEF WriterInv
<1> QED BY <1>1, <1>2 DEF Route

(* A writer that has seen its socket closed is done.                       *)
LEMMA WriterKeeps ==
  ASSUME WriterInv, NEW e \in Ends, WriterRuns(e)
  PROVE  WriterInv'
<1>1. pc[e] = "running" /\ UNCHANGED <<sock, who>>
  BY DEF WriterRuns, conns
<1>2. CASE sock[e] = "closed"
  <2>1. pc' = [pc EXCEPT ![e] = "done"] /\ UNCHANGED late
    BY <1>2 DEF WriterRuns, Look, GoPark
  <2> QED BY <1>1, <1>2, <2>1 DEF WriterInv, WriterTypes, NoneYet, TookLate, Unmade
<1>3. CASE sock[e] # "closed" /\ Take(e)
  <2>1. late' = [late EXCEPT ![e] = @] /\ UNCHANGED pc
    BY <1>3 DEF Take
  <2> QED BY <1>1, <2>1 DEF WriterInv, WriterTypes, NoneYet, TookLate, Unmade
<1>4. CASE sock[e] # "closed" /\ GoPark(e, "parking")
  <2>1. pc' = [pc EXCEPT ![e] = "parking"] /\ UNCHANGED late
    BY <1>4 DEF GoPark
  <2>2. late[e] = 0
    BY <1>4 DEF WriterInv, WriterTypes, TookLate
  <2> QED BY <1>1, <2>1, <2>2 DEF WriterInv, WriterTypes, NoneYet, TookLate, Unmade
<1>5. \/ sock[e] = "closed"
      \/ sock[e] # "closed" /\ Take(e)
      \/ sock[e] # "closed" /\ GoPark(e, "parking")
  BY DEF WriterRuns, Look
<1> QED BY <1>2, <1>3, <1>4, <1>5

LEMMA ParkKeeps ==
  ASSUME WriterInv, NEW e \in Ends, WriterParks(e)
  PROVE  WriterInv'
<1>1. pc[e] = "parking" /\ pc' = [pc EXCEPT ![e] = "parked"]
      /\ UNCHANGED <<late, sock, who>>
  BY DEF WriterParks, conns
<1>2. late[e] = 0
  BY <1>1 DEF WriterInv, WriterTypes, TookLate
<1> QED BY <1>1, <1>2 DEF WriterInv, WriterTypes, NoneYet, TookLate, Unmade

(* A connection is made where there was none, so that no socket is opened  *)
(* again after it was closed.                                              *)
LEMMA JoinKeeps ==
  ASSUME WriterInv, NEW c \in Clients, NEW k \in Joins, Join(c, k)
  PROVE  WriterInv'
<1> DEFINE ends == {k} \X {"client", "server"}
<1>1. /\ who[k] = NoHost
      /\ who' = [who EXCEPT ![k] = c]
      /\ sock' = [e \in Ends |-> IF e \in ends THEN "open" ELSE sock[e]]
      /\ pc' = [e \in Ends |-> IF e \in ends THEN "running" ELSE pc[e]]
      /\ UNCHANGED late
  BY DEF Join, Started
<1>2. \A e \in Ends : e \in ends <=> e[1] = k
  BY EndsOf
<1>3. \A e \in ends : e \in Ends /\ late[e] = 0
  BY <1>1, <1>2 DEF WriterInv, WriterTypes, NoneYet, TookLate, Unmade, Ends
<1>4. WriterTypes'
  BY <1>1 DEF WriterInv, WriterTypes
<1>5. NoneYet'
  BY <1>1, <1>2, EndsOf, NoHostAssumption DEF WriterInv, WriterTypes, NoneYet, Unmade, Hosts
<1>6. TookLate'
  BY <1>1, <1>3 DEF WriterInv, WriterTypes, TookLate
<1> QED BY <1>4, <1>5, <1>6 DEF WriterInv

(* A socket closes, and the writers that go with its program are done.     *)
LEMMA CloseKeeps ==
  ASSUME WriterInv, NEW ends \in SUBSET Ends, NEW gone \in SUBSET ends,
         \A e \in ends : ~Unmade(e[1]),
         sock' = [e \in Ends |-> IF e \in ends THEN "closed" ELSE sock[e]],
         pc' = [e \in Ends |-> IF e \in gone /\ pc[e] = "running"
                               THEN "done" ELSE pc[e]],
         UNCHANGED <<late, who>>
  PROVE  WriterInv'
<1>1. WriterTypes'
  BY DEF WriterInv, WriterTypes
<1>2. NoneYet'
  BY DEF WriterInv, NoneYet, Unmade
<1>3. TookLate'
  BY DEF WriterInv, WriterTypes, TookLate
<1> QED BY <1>1, <1>2, <1>3 DEF WriterInv

LEMMA ServerStopsKeeps ==
  ASSUME WriterInv, NEW k \in Joins, ServerStops(k)
  PROVE  WriterInv'
<1> DEFINE e == <<k, "server">>
<1> DEFINE ends == {e}
<1> DEFINE gone == {}
<1>1. e \in Ends /\ sock[e] = "open" /\ e[1] = k
  BY DEF ServerStops, Ends
<1>2. ends \in SUBSET Ends /\ gone \in SUBSET ends /\ \A x \in ends : ~Unmade(x[1])
  BY <1>1 DEF WriterInv, NoneYet
<1>3. sock' = [x \in Ends |-> IF x \in ends THEN "closed" ELSE sock[x]]
  BY <1>1 DEF ServerStops, WriterInv, WriterTypes
<1>4. pc' = [x \in Ends |-> IF x \in gone /\ pc[x] = "running" THEN "done" ELSE pc[x]]
  BY DEF ServerStops, WriterInv, WriterTypes
<1>5. UNCHANGED <<late, who>>
  BY DEF ServerStops
<1> HIDE DEF ends, gone
<1> QED BY <1>1, <1>2, <1>3, <1>4, <1>5, CloseKeeps

LEMMA ClientStopsKeeps ==
  ASSUME WriterInv, NEW k \in Joins, ClientStops(k)
  PROVE  WriterInv'
<1> DEFINE e == <<k, "client">>
<1> DEFINE ends == {e}
<1> DEFINE gone == {e}
<1>1. e \in Ends /\ sock[e] = "open" /\ e[1] = k
  BY DEF ClientStops, Ends
<1>2. ends \in SUBSET Ends /\ gone \in SUBSET ends /\ \A x \in ends : ~Unmade(x[1])
  BY <1>1 DEF WriterInv, NoneYet
<1>3. sock' = [x \in Ends |-> IF x \in ends THEN "closed" ELSE sock[x]]
  BY <1>1 DEF ClientStops, WriterInv, WriterTypes
<1>4. pc' = [x \in Ends |-> IF x \in gone /\ pc[x] = "running" THEN "done" ELSE pc[x]]
  BY DEF ClientStops, Dropped
<1>5. UNCHANGED <<late, who>>
  BY DEF ClientStops
<1> HIDE DEF ends, gone
<1> QED BY <1>1, <1>2, <1>3, <1>4, <1>5, CloseKeeps

LEMMA HubStopsKeeps ==
  ASSUME WriterInv, HubStops
  PROVE  WriterInv'
<1> DEFINE sessions == {e \in Ends : e[2] = "server" /\ who[e[1]] # NoHost}
<1>1. sessions \in SUBSET Ends /\ \A e \in sessions : ~Unmade(e[1])
  BY DEF Unmade
<1>2. /\ sock' = [e \in Ends |-> IF e \in sessions THEN "closed" ELSE sock[e]]
      /\ pc' = [e \in Ends |-> IF e \in sessions /\ pc[e] = "running"
                               THEN "done" ELSE pc[e]]
      /\ UNCHANGED <<late, who>>
  BY DEF HubStops, Dropped
<1> HIDE DEF sessions
<1> QED BY <1>1, <1>2, CloseKeeps

(* The rest of the system does not touch a writer.                         *)
LEMMA WriterStep == WriterInv /\ [Next]_vars => WriterInv'
<1> SUFFICES ASSUME WriterInv, [Next]_vars
             PROVE  WriterInv'
  OBVIOUS
<1>1. ASSUME UNCHANGED writerState
      PROVE  WriterInv'
  BY <1>1 DEF writerState, WriterInv, WriterTypes, NoneYet, TookLate, Unmade
<1>2. CASE UNCHANGED vars
  BY <1>1, <1>2 DEF vars, conns, writers, writerState
<1>3. ASSUME NEW t \in Threads, NEW f \in Traffic, Send(t, f[1], f[2])
      PROVE  WriterInv'
  BY <1>1, <1>3 DEF Send, conns, writers, writerState
<1>4. ASSUME NEW t \in Threads, NEW h \in Hosts,
             TransmitHere(t, h) \/ TransmitLink(t, h) \/ ReceiveService(t, h)
      PROVE  WriterInv'
  BY <1>1, <1>4 DEF TransmitHere, TransmitLink, ReceiveService, conns, writers, writerState
<1>5. ASSUME NEW t \in Threads, NEW h \in Hosts, TransmitRoute(t, h)
      PROVE  WriterInv'
  BY <1>5, RouteKeeps DEF TransmitRoute, conns
<1>12. ASSUME NEW t \in Threads, ThreadNext(t)
       PROVE  WriterInv'
  BY <1>1, <1>12 DEF ThreadNext, Broadcast, ServiceLooks, ServiceParks, conns, writers,
     writerState
<1>6. CASE Link
  BY <1>1, <1>6 DEF Link, conns, writers, writerState
<1>7. ASSUME NEW c \in Clients, NEW k \in Joins, Join(c, k)
      PROVE  WriterInv'
  BY <1>7, JoinKeeps
<1>8. ASSUME NEW k \in Joins, ServerReads(k) \/ ClientReads(k)
      PROVE  WriterInv'
  BY <1>1, <1>8 DEF ServerReads, ClientReads, conns, writerState
<1>9. ASSUME NEW k \in Joins, ServerStops(k) \/ ClientStops(k)
      PROVE  WriterInv'
  BY <1>9, ServerStopsKeeps, ClientStopsKeeps
<1>10. ASSUME NEW e \in Ends, WriterNext(e)
       PROVE  WriterInv'
  BY <1>10, WriterKeeps, ParkKeeps DEF WriterNext
<1>11. CASE HubStops
  BY <1>11, HubStopsKeeps
<1> QED
  BY <1>2, <1>3, <1>4, <1>5, <1>6, <1>7, <1>8, <1>9, <1>10, <1>11, <1>12 DEF Next, HostNext

(* EndedTakeOne of module Bridge: for any number of clients and            *)
(* connections, a writer takes at most one packet after its socket closed. *)
THEOREM EndedTakeOneAtMost == Spec => []EndedTakeOne
<1>1. WriterInv => EndedTakeOne
  BY DEF WriterInv, WriterTypes, EndedTakeOne
<1>2. Spec => []WriterInv
  BY WriterInit, WriterStep, PTL DEF Spec
<1> QED BY <1>1, <1>2, PTL
-----------------------------------------------------------------------------
(* Packets, and connections that are not made yet carry none.              *)
Packet == [id : Nat \ {0}, src : Hosts, dst : Hosts, kind : {"ask", "answer"}]

PacketTypes ==
  /\ tx \in [Hosts -> Seq(Packet)]
  /\ rx \in [Hosts -> Seq(Packet)]
  /\ routing \in [Hosts -> Seq(Packet)]
  /\ wire \in [Ends -> Seq(Packet)]
  /\ held \in [Ends -> Packet \cup {NoPacket}]
  /\ arp \in [Hosts -> SUBSET {Hub, Neighbour}]
  /\ sent \in Nat

Fresh ==
  \A e \in Ends : Unmade(e[1]) =>
    pc[e] = "none" /\ held[e] = NoPacket /\ wire[e] = <<>>

(* The push of a thread that is between its halves.                        *)
PushTypes ==
  pushing \in [Threads -> [to : Services, packet : Packet] \cup {NoPush}]

PacketInv == WriterInv /\ PacketTypes /\ Fresh /\ PushTypes

LEMMA HeadTail ==
  ASSUME NEW S, NEW q \in Seq(S), q # <<>>
  PROVE  /\ Head(q) \in S
         /\ Tail(q) \in Seq(S)
         /\ Len(q) \in Nat \ {0} /\ Len(Tail(q)) = Len(q) - 1
         /\ Head(q) = q[1]
         /\ \A i \in 1..Len(Tail(q)) : Tail(q)[i] = q[i + 1]
  OBVIOUS

LEMMA Appended ==
  ASSUME NEW S, NEW q \in Seq(S), NEW p \in S
  PROVE  /\ Append(q, p) \in Seq(S)
         /\ Len(q) \in Nat /\ Len(Append(q, p)) = Len(q) + 1
         /\ Append(q, p)[Len(q) + 1] = p
         /\ \A i \in 1..Len(q) : Append(q, p)[i] = q[i]
  OBVIOUS

LEMMA AskReply ==
  ASSUME NEW p \in Packet
  PROVE  /\ Reply(p) \in Packet
         /\ Reply(p).src = p.dst /\ Reply(p).dst = p.src
         /\ Reply(p).id = p.id /\ Reply(p).kind = "answer"
         /\ p # NoPacket
<1>1. Reply(p) \in Packet
  BY DEF Packet, Reply
<1>2. /\ Reply(p).src = p.dst /\ Reply(p).dst = p.src
      /\ Reply(p).id = p.id /\ Reply(p).kind = "answer"
  BY DEF Packet, Reply
<1>3. p.id # 0 /\ NoPacket.id = 0
  BY DEF Packet, NoPacket
<1> QED BY <1>1, <1>2, <1>3

LEMMA AskIsPacket ==
  ASSUME NEW n \in Nat, NEW h \in Hosts, NEW d \in Hosts
  PROVE  /\ Ask(n + 1, h, d) \in Packet
         /\ Ask(n + 1, h, d).src = h /\ Ask(n + 1, h, d).id = n + 1
         /\ Ask(n + 1, h, d).kind = "ask"
  BY DEF Packet, Ask

LEMMA HostOfType ==
  ASSUME WriterInv, NEW e \in Ends, ~Unmade(e[1])
  PROVE  /\ HostOf(e) \in Hosts
         /\ e[2] = "client" => HostOf(e) = who[e[1]] /\ who[e[1]] \in Clients
  BY EndsOf DEF WriterInv, WriterTypes, Unmade, HostOf, Hosts

-----------------------------------------------------------------------------
(* What a client transmits is its own, and nothing comes to it over a link. *)
From(c, q) == \A i \in 1..Len(q) : q[i].src = c

OwnQueues ==
  \A c \in Clients : rx[c] = <<>> /\ From(c, tx[c]) /\ From(c, routing[c])

OwnEnds ==
  \A e \in Ends : e[2] = "client" =>
    /\ From(who[e[1]], wire[e])
    /\ held[e] # NoPacket => held[e].src = who[e[1]]

OwnPushes ==
  \A t \in Threads : (pushing[t] # NoPush /\ pushing[t].to[2] \in Clients) =>
    pushing[t].to[1] = "tx" /\ pushing[t].packet.src = pushing[t].to[2]

OwnInv == PacketInv /\ OwnQueues /\ OwnEnds /\ OwnPushes

LEMMA FromAppend ==
  ASSUME NEW c, NEW q \in Seq(Packet), NEW p \in Packet, From(c, q), p.src = c
  PROVE  From(c, Append(q, p))
  BY Appended DEF From

LEMMA FromTail ==
  ASSUME NEW c, NEW q \in Seq(Packet), q # <<>>, From(c, q)
  PROVE  From(c, Tail(q)) /\ Head(q).src = c
  BY HeadTail DEF From

LEMMA FromEmpty == \A c : From(c, <<>>)
  BY DEF From

LEMMA OwnInit == Init => OwnInv
<1> SUFFICES ASSUME Init PROVE OwnInv
  OBVIOUS
<1>1. PacketTypes
  BY DEF Init, PacketTypes
<1>2. Fresh
  BY DEF Init, Fresh
<1>3. OwnQueues /\ OwnEnds
  BY FromEmpty DEF Init, OwnQueues, OwnEnds, Hosts
<1>4. PushTypes /\ OwnPushes
  BY DEF Init, PushTypes, OwnPushes
<1> QED BY <1>1, <1>2, <1>3, <1>4, WriterInit DEF OwnInv, PacketInv

(* What is left of a queue from which one packet is read, or that is cut.  *)
Shorter(q, r) == r = q \/ r = <<>> \/ (q # <<>> /\ r = Tail(q))

Rest == \A e \in Ends : Shorter(wire[e], wire'[e])

LEMMA ShorterKeeps ==
  ASSUME NEW q \in Seq(Packet), NEW r, Shorter(q, r)
  PROVE  /\ r \in Seq(Packet)
         /\ \A c : From(c, q) => From(c, r)
<1>1. CASE r = q
  BY <1>1
<1>2. CASE r = <<>>
  BY <1>2, FromEmpty
<1>3. CASE q # <<>> /\ r = Tail(q)
  <2>1. r \in Seq(Packet)
    BY <1>3, HeadTail
  <2>2. ASSUME NEW c, From(c, q) PROVE From(c, r)
    BY <1>3, <2>2, FromTail
  <2> QED BY <2>1, <2>2
<1> QED BY <1>1, <1>2, <1>3 DEF Shorter

(* A step that touches tx of one host, rx of one, and reads from the wires. *)
LEMMA OwnHostStep ==
  ASSUME OwnInv, WriterInv', NEW h \in Hosts, NEW q \in Seq(Packet),
         NEW g \in Hosts, NEW r \in Seq(Packet),
         tx' = [tx EXCEPT ![h] = q], rx' = [rx EXCEPT ![g] = r],
         h \in Clients => From(h, q),
         g \in Clients => r = <<>>,
         sent' \in Nat, PushTypes', OwnPushes',
         wire' \in [Ends -> Seq(Packet)], Rest,
         UNCHANGED <<routing, arp, conns, pc, held>>
  PROVE  OwnInv'
<1>1. PacketTypes'
  BY DEF OwnInv, PacketInv, PacketTypes
<1>2. Fresh'
  BY DEF OwnInv, PacketInv, Fresh, Unmade, conns, Rest, Shorter
<1>3. OwnQueues'
  <2> SUFFICES ASSUME NEW c \in Clients
               PROVE  (rx[c] = <<>> /\ From(c, tx[c]) /\ From(c, routing[c]))'
    BY DEF OwnQueues
  <2>1. rx[c] = <<>> /\ From(c, tx[c]) /\ From(c, routing[c])
    BY DEF OwnInv, OwnQueues
  <2>2. c \in Hosts
    BY DEF Hosts
  <2> QED BY <2>1, <2>2 DEF OwnInv, PacketInv, PacketTypes
<1>4. OwnEnds'
  <2> SUFFICES ASSUME NEW e \in Ends, e[2] = "client"
               PROVE  (From(who[e[1]], wire[e])
                       /\ (held[e] # NoPacket => held[e].src = who[e[1]]))'
    BY DEF OwnEnds
  <2>1. From(who[e[1]], wire[e]) /\ (held[e] # NoPacket => held[e].src = who[e[1]])
    BY DEF OwnInv, OwnEnds
  <2>2. wire[e] \in Seq(Packet) /\ Shorter(wire[e], wire'[e])
    BY DEF OwnInv, PacketInv, PacketTypes, Rest
  <2>3. From(who[e[1]], wire'[e])
    BY <2>1, <2>2, ShorterKeeps
  <2> QED BY <2>1, <2>3 DEF conns
<1> QED BY <1>1, <1>2, <1>3, <1>4 DEF OwnInv, PacketInv

LEMMA SamePushes ==
  ASSUME OwnInv, UNCHANGED pushing
  PROVE  PushTypes' /\ OwnPushes'
  BY DEF OwnInv, PacketInv, PushTypes, OwnPushes

LEMMA OwnTypes ==
  ASSUME OwnInv
  PROVE  /\ \A h \in Hosts : /\ tx[h] \in Seq(Packet) /\ rx[h] \in Seq(Packet)
                             /\ routing[h] \in Seq(Packet)
                             /\ h \in Clients => /\ From(h, tx[h]) /\ rx[h] = <<>>
                                                /\ From(h, routing[h])
         /\ tx = [tx EXCEPT ![Hub] = tx[Hub]] /\ rx = [rx EXCEPT ![Hub] = rx[Hub]]
         /\ \A e \in Ends : wire[e] \in Seq(Packet)
         /\ wire \in [Ends -> Seq(Packet)]
         /\ sent \in Nat
         /\ PushTypes /\ OwnPushes
  BY DEF OwnInv, PacketInv, PacketTypes, OwnQueues, Hosts

(* The first half of a push: the packet is queued or held by the thread.   *)
LEMMA PushTxOwn ==
  ASSUME OwnInv, NEW t \in Threads, NEW h \in Hosts, NEW p \in Packet,
         NEW queue \in Seq(Packet), PushTx(t, h, queue, p),
         h \in Clients => From(h, queue) /\ p.src = h
  PROVE  /\ PushTypes' /\ OwnPushes'
         /\ \E q \in Seq(Packet) : /\ tx' = [tx EXCEPT ![h] = q]
                                   /\ h \in Clients => From(h, q)
<1> DEFINE u == [to |-> <<"tx", h>>, packet |-> p]
<1>1. CASE tx' = [tx EXCEPT ![h] = queue] /\ pushing' = [pushing EXCEPT ![t] = u]
  <2>1. u \in [to : Services, packet : Packet] /\ u.to[2] = h /\ u.to[1] = "tx"
        /\ u.packet = p
    BY DEF Services
  <2> HIDE DEF u, Packet
  <2>2. PushTypes' /\ OwnPushes'
    BY <1>1, <2>1, OwnTypes DEF PushTypes, OwnPushes
  <2> QED BY <1>1, <2>2
<1>2. CASE tx' = [tx EXCEPT ![h] = Append(queue, p)] /\ UNCHANGED pushing
  <2>1. Append(queue, p) \in Seq(Packet)
        /\ (h \in Clients => From(h, Append(queue, p)))
    BY Appended, FromAppend
  <2> QED BY <1>2, <2>1, SamePushes
<1> QED BY <1>1, <1>2 DEF PushTx

LEMMA PushRxOwn ==
  ASSUME OwnInv, NEW t \in Threads, NEW h \in Hosts, h \notin Clients,
         NEW p \in Packet, NEW queue \in Seq(Packet), PushRx(t, h, queue, p)
  PROVE  /\ PushTypes' /\ OwnPushes'
         /\ \E q \in Seq(Packet) : rx' = [rx EXCEPT ![h] = q]
<1> DEFINE u == [to |-> <<"rx", h>>, packet |-> p]
<1>1. CASE rx' = [rx EXCEPT ![h] = queue] /\ pushing' = [pushing EXCEPT ![t] = u]
  <2>1. u \in [to : Services, packet : Packet] /\ u.to[2] = h
    BY DEF Services
  <2> HIDE DEF u, Packet
  <2>2. PushTypes' /\ OwnPushes'
    BY <1>1, <2>1, OwnTypes DEF PushTypes, OwnPushes
  <2> QED BY <1>1, <2>2
<1>2. CASE rx' = [rx EXCEPT ![h] = Append(queue, p)] /\ UNCHANGED pushing
  BY <1>2, Appended, SamePushes
<1> QED BY <1>1, <1>2 DEF PushRx

LEMMA SameWires == ASSUME UNCHANGED wire PROVE Rest
  BY DEF Rest, Shorter

LEMMA OwnSend ==
  ASSUME OwnInv, WriterInv', NEW t \in Threads, NEW f \in Traffic, Send(t, f[1], f[2])
  PROVE  OwnInv'
<1> DEFINE h == f[1]
<1> DEFINE p == Ask(sent + 1, h, f[2])
<1> DEFINE r == rx[Hub]
<1>1. h \in Hosts /\ f[2] \in Hosts /\ Hub \in Hosts
  BY TrafficAssumption DEF Hosts
<1>2. p \in Packet /\ p.src = h
  BY <1>1, OwnTypes, AskIsPacket
<1>3. tx[h] \in Seq(Packet) /\ r \in Seq(Packet) /\ (h \in Clients => From(h, tx[h]))
  BY <1>1, OwnTypes
<1>4. PushTx(t, h, tx[h], p)
  BY DEF Send
<1>5. /\ rx' = [rx EXCEPT ![Hub] = r]
      /\ sent' \in Nat
      /\ UNCHANGED <<routing, arp, conns, pc, held, wire>>
  BY OwnTypes DEF Send, writers
<1>6. wire' \in [Ends -> Seq(Packet)] /\ Rest
  BY <1>5, OwnTypes, SameWires
<1>7. Hub \in Clients => r = <<>>
  BY AddressAssumption
<1> HIDE DEF h, p, r
<1>8. PushTypes' /\ OwnPushes'
  BY <1>1, <1>2, <1>3, <1>4, PushTxOwn
<1>9. PICK q \in Seq(Packet) : tx' = [tx EXCEPT ![h] = q] /\ (h \in Clients => From(h, q))
  BY <1>1, <1>2, <1>3, <1>4, PushTxOwn
<1> QED BY <1>1, <1>3, <1>5, <1>6, <1>7, <1>8, <1>9, OwnHostStep

(* Receive gives a client nothing to send but its own answers.             *)
LEMMA ReceiveOwn ==
  ASSUME OwnInv, NEW t \in Threads, NEW h \in Hosts, NEW p \in Packet,
         NEW queue \in Seq(Packet),
         Receive(t, h, p, queue), h \in Clients => From(h, queue)
  PROVE  /\ sent' \in Nat /\ PushTypes' /\ OwnPushes'
         /\ \E q \in Seq(Packet) : /\ tx' = [tx EXCEPT ![h] = q]
                                   /\ h \in Clients => From(h, q)
<1>1. CASE tx' = [tx EXCEPT ![h] = queue] /\ UNCHANGED <<pushing, sent>>
  BY <1>1, OwnTypes, SamePushes
<1>2. CASE p.dst = h /\ PushTx(t, h, queue, Reply(p)) /\ sent' = sent + 1
  <2>1. Reply(p) \in Packet /\ Reply(p).src = h
    BY <1>2, AskReply
  <2>2. sent' \in Nat
    BY <1>2, OwnTypes
  <2> QED BY <1>2, <2>1, <2>2, PushTxOwn
<1> QED BY <1>1, <1>2 DEF Receive

LEMMA OwnTransmitHere ==
  ASSUME OwnInv, WriterInv', NEW t \in Threads, NEW h \in Hosts, TransmitHere(t, h)
  PROVE  OwnInv'
<1>1. tx[h] # <<>> /\ tx[h] \in Seq(Packet) /\ (h \in Clients => From(h, tx[h]))
  BY OwnTypes DEF TransmitHere
<1>2. Head(tx[h]) \in Packet /\ Tail(tx[h]) \in Seq(Packet)
      /\ (h \in Clients => From(h, Tail(tx[h])))
  BY <1>1, HeadTail, FromTail
<1>3. Receive(t, h, Head(tx[h]), Tail(tx[h]))
  BY DEF TransmitHere
<1>4. PICK q \in Seq(Packet) : tx' = [tx EXCEPT ![h] = q] /\ (h \in Clients => From(h, q))
  BY <1>2, <1>3, ReceiveOwn
<1>5. sent' \in Nat /\ PushTypes' /\ OwnPushes'
  BY <1>2, <1>3, ReceiveOwn
<1>6. UNCHANGED <<routing, arp, conns, pc, held, wire>>
      /\ rx' = [rx EXCEPT ![Hub] = rx[Hub]]
  BY OwnTypes DEF TransmitHere, writers
<1>7. wire' \in [Ends -> Seq(Packet)] /\ Rest
  BY <1>6, OwnTypes, SameWires
<1>8. Hub \in Hosts /\ rx[Hub] \in Seq(Packet) /\ (Hub \in Clients => rx[Hub] = <<>>)
  BY AddressAssumption, OwnTypes DEF Hosts
<1> QED BY <1>4, <1>5, <1>6, <1>7, <1>8, OwnHostStep

LEMMA OwnTransmitLink ==
  ASSUME OwnInv, WriterInv', NEW t \in Threads, NEW h \in Hosts, TransmitLink(t, h)
  PROVE  OwnInv'
<1> DEFINE g == Head(tx[h]).dst
<1> DEFINE q == Tail(tx[h])
<1>1. tx[h] # <<>> /\ tx[h] \in Seq(Packet) /\ (h \in Clients => From(h, tx[h]))
  BY OwnTypes DEF TransmitLink
<1>2. Head(tx[h]) \in Packet /\ q \in Seq(Packet) /\ (h \in Clients => From(h, q))
  BY <1>1, HeadTail, FromTail
<1>3. g \in Hosts /\ g \notin Clients
  BY AddressAssumption DEF TransmitLink, OwnInv, PacketInv, PacketTypes, Hosts
<1>4. rx[g] \in Seq(Packet) /\ PushRx(t, g, rx[g], Head(tx[h]))
  BY <1>3, OwnTypes DEF TransmitLink
<1>5. tx' = [tx EXCEPT ![h] = q]
      /\ UNCHANGED <<routing, arp, conns, pc, held, wire, sent>>
  BY DEF TransmitLink, writers
<1>6. wire' \in [Ends -> Seq(Packet)] /\ Rest /\ sent' \in Nat
  BY <1>5, OwnTypes, SameWires
<1> HIDE DEF g, q
<1>7. PushTypes' /\ OwnPushes' /\ \E r \in Seq(Packet) : rx' = [rx EXCEPT ![g] = r]
  BY <1>2, <1>3, <1>4, PushRxOwn
<1> QED BY <1>2, <1>3, <1>5, <1>6, <1>7, OwnHostStep

LEMMA OwnReceiveService ==
  ASSUME OwnInv, WriterInv', NEW t \in Threads, NEW h \in Hosts, ReceiveService(t, h)
  PROVE  OwnInv'
<1>1. rx[h] # <<>> /\ rx[h] \in Seq(Packet) /\ tx[h] \in Seq(Packet) /\ h \notin Clients
  BY OwnTypes DEF ReceiveService
<1> DEFINE p == Head(rx[h])
<1>2. p \in Packet /\ Tail(rx[h]) \in Seq(Packet)
  BY <1>1, HeadTail
<1>3. UNCHANGED <<routing, arp, conns, pc, held, wire>>
      /\ rx' = [rx EXCEPT ![h] = Tail(rx[h])]
  BY DEF ReceiveService, writers
<1>4. /\ sent' \in Nat /\ PushTypes' /\ OwnPushes'
      /\ \E q \in Seq(Packet) : tx' = [tx EXCEPT ![h] = q]
  <2>1. CASE Receive(t, h, p, tx[h])
    BY <1>1, <1>2, <2>1, ReceiveOwn
  <2>2. CASE PushTx(t, h, tx[h], p) /\ UNCHANGED sent
    BY <1>1, <1>2, <2>2, PushTxOwn, OwnTypes
  <2> QED BY <2>1, <2>2 DEF ReceiveService
<1>5. wire' \in [Ends -> Seq(Packet)] /\ Rest
  BY <1>3, OwnTypes, SameWires
<1>6. PICK q \in Seq(Packet) : tx' = [tx EXCEPT ![h] = q]
  BY <1>4
<1> QED BY <1>1, <1>2, <1>3, <1>4, <1>5, <1>6, OwnHostStep

(* The service that a push takes puts the packet before any that is queued. *)
LEMMA Prepended ==
  ASSUME NEW S, NEW q \in Seq(S), NEW p \in S
  PROVE  /\ <<p>> \o q \in Seq(S)
         /\ Len(q) \in Nat /\ Len(<<p>> \o q) = Len(q) + 1
         /\ (<<p>> \o q)[1] = p
         /\ \A i \in 1..Len(q) : (<<p>> \o q)[i + 1] = q[i]
         /\ \A i \in 2..Len(q) + 1 : (<<p>> \o q)[i] = q[i - 1]
  OBVIOUS

LEMMA FromPrepend ==
  ASSUME NEW c, NEW q \in Seq(Packet), NEW p \in Packet, From(c, q), p.src = c
  PROVE  From(c, <<p>> \o q)
<1> SUFFICES ASSUME NEW i \in 1..Len(<<p>> \o q)
             PROVE  (<<p>> \o q)[i].src = c
  BY DEF From
<1>1. i = 1 \/ i \in 2..Len(q) + 1
  BY Prepended
<1>2. CASE i = 1
  BY <1>2, Prepended
<1>3. CASE i \in 2..Len(q) + 1
  BY <1>3, Prepended DEF From
<1> QED BY <1>1, <1>2, <1>3

(* The second half of a push: what the thread held is queued, or lost.     *)
LEMMA BroadcastDoes ==
  ASSUME OwnInv, NEW t \in Threads, Broadcast(t)
  PROVE  LET s == pushing[t].to
             h == s[2]
             p == pushing[t].packet
         IN /\ pushing[t] # NoPush /\ p \in Packet
            /\ h \in Hosts /\ s = <<s[1], h>>
            /\ h \in Clients => s[1] = "tx" /\ p.src = h
            /\ pushing' = [pushing EXCEPT ![t] = NoPush]
            /\ UNCHANGED <<looked, routing, linked, arp, conns, writers, handled,
                           promised, sent>>
            /\ \/ /\ s[1] = "tx" /\ tx' = [tx EXCEPT ![h] = <<p>> \o tx[h]]
                  /\ UNCHANGED <<rx, lost>>
               \/ /\ s[1] = "rx" /\ rx' = [rx EXCEPT ![h] = <<p>> \o rx[h]]
                  /\ UNCHANGED <<tx, lost>>
               \/ UNCHANGED <<tx, rx>> /\ lost' = lost \cup {p}
<1> DEFINE s == pushing[t].to
<1> DEFINE p == pushing[t].packet
<1>1. pushing[t] # NoPush
  BY DEF Broadcast
<1>2. pushing[t] \in [to : Services, packet : Packet]
  BY <1>1, OwnTypes DEF PushTypes
<1>3. s \in Services /\ p \in Packet
  BY <1>2
<1>4. s = <<s[1], s[2]>> /\ s[2] \in Hosts
  BY <1>3 DEF Services
<1>5. s[2] \in Clients => s[1] = "tx" /\ p.src = s[2]
  BY <1>1, OwnTypes DEF OwnPushes
<1>6. /\ pushing' = [pushing EXCEPT ![t] = NoPush]
      /\ UNCHANGED <<looked, routing, linked, arp, conns, writers, handled,
                     promised, sent>>
  BY DEF Broadcast
<1>7. \/ /\ s[1] = "tx" /\ tx' = [tx EXCEPT ![s[2]] = <<p>> \o tx[s[2]]]
         /\ UNCHANGED <<rx, lost>>
      \/ /\ s[1] = "rx" /\ rx' = [rx EXCEPT ![s[2]] = <<p>> \o rx[s[2]]]
         /\ UNCHANGED <<tx, lost>>
      \/ UNCHANGED <<tx, rx>> /\ lost' = lost \cup {p}
  BY DEF Broadcast, Resume
<1> QED BY <1>1, <1>3, <1>4, <1>5, <1>6, <1>7

LEMMA OwnBroadcast ==
  ASSUME OwnInv, WriterInv', NEW t \in Threads, Broadcast(t)
  PROVE  OwnInv'
<1> DEFINE s == pushing[t].to
<1> DEFINE h == s[2]
<1> DEFINE p == pushing[t].packet
<1>1. /\ p \in Packet /\ h \in Hosts
      /\ (h \in Clients => s[1] = "tx" /\ p.src = h)
      /\ pushing' = [pushing EXCEPT ![t] = NoPush]
      /\ UNCHANGED <<routing, arp, conns, pc, held, wire, sent>>
  BY BroadcastDoes DEF writers
<1>2. \/ s[1] = "tx" /\ tx' = [tx EXCEPT ![h] = <<p>> \o tx[h]] /\ UNCHANGED rx
      \/ s[1] = "rx" /\ rx' = [rx EXCEPT ![h] = <<p>> \o rx[h]] /\ UNCHANGED tx
      \/ UNCHANGED <<tx, rx>>
  BY BroadcastDoes
<1>3. PushTypes' /\ OwnPushes'
  BY <1>1, OwnTypes DEF PushTypes, OwnPushes
<1> HIDE DEF h, s, p
<1>4. tx[h] \in Seq(Packet) /\ rx[h] \in Seq(Packet)
      /\ (h \in Clients => From(h, tx[h]) /\ rx[h] = <<>>)
      /\ tx = [tx EXCEPT ![h] = tx[h]] /\ rx = [rx EXCEPT ![h] = rx[h]]
  BY <1>1, OwnTypes DEF OwnInv, PacketInv, PacketTypes
<1>5. /\ <<p>> \o tx[h] \in Seq(Packet) /\ <<p>> \o rx[h] \in Seq(Packet)
      /\ h \in Clients => From(h, <<p>> \o tx[h])
  BY <1>1, <1>4, Prepended, FromPrepend
<1>6. PICK q \in Seq(Packet), r \in Seq(Packet) :
         /\ tx' = [tx EXCEPT ![h] = q] /\ rx' = [rx EXCEPT ![h] = r]
         /\ h \in Clients => From(h, q) /\ r = <<>>
  BY <1>1, <1>2, <1>4, <1>5
<1>7. wire' \in [Ends -> Seq(Packet)] /\ Rest /\ sent' \in Nat
  BY <1>1, OwnTypes, SameWires
<1> QED BY <1>1, <1>3, <1>6, <1>7, OwnHostStep

(* A service looks and waits: nothing that is somewhere moves.             *)
LEMMA OwnServices ==
  ASSUME OwnInv, WriterInv', NEW t \in Threads, ServiceLooks(t) \/ ServiceParks(t)
  PROVE  OwnInv'
<1>1. UNCHANGED <<tx, rx, routing, arp, who, pc, held, wire, sent, pushing>>
  BY DEF ServiceLooks, ServiceParks, queues, conns, writers
<1>2. PacketTypes' /\ Fresh' /\ OwnQueues' /\ OwnEnds'
  BY <1>1 DEF OwnInv, PacketInv, PacketTypes, Fresh, Unmade, OwnQueues, OwnEnds
<1> QED BY <1>1, <1>2, SamePushes DEF OwnInv, PacketInv

(* Reading one packet from a wire.                                         *)
LEMMA ReadRest ==
  ASSUME OwnInv, NEW e \in Ends, wire[e] # <<>>, wire' = [wire EXCEPT ![e] = Tail(@)]
  PROVE  /\ wire' \in [Ends -> Seq(Packet)] /\ Rest
         /\ Head(wire[e]) \in Packet
<1>1. wire[e] \in Seq(Packet) /\ wire \in [Ends -> Seq(Packet)]
  BY OwnTypes
<1>2. Tail(wire[e]) \in Seq(Packet) /\ Head(wire[e]) \in Packet
  BY <1>1, HeadTail
<1>3. wire' \in [Ends -> Seq(Packet)]
  BY <1>1, <1>2
<1>4. Rest
  BY <1>1 DEF Rest, Shorter
<1> QED BY <1>2, <1>3, <1>4

LEMMA ReadHosts ==
  ASSUME OwnInv, NEW k \in Joins, NEW side \in {"client", "server"},
         sock[<<k, side>>] = "open" \/ wire[<<k, side>>] # <<>>
  PROVE  /\ <<k, side>> \in Ends /\ ~Unmade(k) /\ who[k] \in Clients
<1>1. <<k, side>> \in Ends /\ <<k, side>>[1] = k
  BY DEF Ends
<1>2. ~Unmade(k)
  BY <1>1 DEF OwnInv, PacketInv, WriterInv, NoneYet, Fresh
<1> QED BY <1>1, <1>2 DEF OwnInv, PacketInv, WriterInv, WriterTypes, Unmade

LEMMA AsioThread == \A h \in Hosts : Asio(h) \in Threads
  BY DEF Asio, Threads, Home, Homes, Hosts

LEMMA OwnServerReads ==
  ASSUME OwnInv, WriterInv', NEW k \in Joins, ServerReads(k)
  PROVE  OwnInv'
<1> DEFINE e == <<k, "client">>
<1>1. e \in Ends /\ wire[e] # <<>> /\ wire' = [wire EXCEPT ![e] = Tail(@)]
  BY DEF ServerReads, Ends
<1>2. wire' \in [Ends -> Seq(Packet)] /\ Rest /\ Head(wire[e]) \in Packet
  BY <1>1, ReadRest
<1>3. Hub \in Hosts /\ Hub \notin Clients /\ Asio(Hub) \in Threads
  BY AddressAssumption, AsioThread DEF Hosts
<1>4. rx[Hub] \in Seq(Packet) /\ tx[Hub] \in Seq(Packet)
      /\ PushRx(Asio(Hub), Hub, rx[Hub], Head(wire[e]))
  BY <1>3, OwnTypes DEF ServerReads
<1>5. tx' = [tx EXCEPT ![Hub] = tx[Hub]]
      /\ UNCHANGED <<routing, arp, conns, pc, held>> /\ sent' \in Nat
  BY OwnTypes DEF ServerReads
<1> HIDE DEF e
<1>6. PushTypes' /\ OwnPushes' /\ \E r \in Seq(Packet) : rx' = [rx EXCEPT ![Hub] = r]
  BY <1>2, <1>3, <1>4, PushRxOwn
<1> QED BY <1>2, <1>3, <1>4, <1>5, <1>6, OwnHostStep

LEMMA OwnClientReads ==
  ASSUME OwnInv, WriterInv', NEW k \in Joins, ClientReads(k)
  PROVE  OwnInv'
<1> DEFINE e == <<k, "server">>
<1> DEFINE h == who[k]
<1>1. e \in Ends /\ wire[e] # <<>> /\ wire' = [wire EXCEPT ![e] = Tail(@)]
  BY DEF ClientReads, Ends
<1>2. wire' \in [Ends -> Seq(Packet)] /\ Rest /\ Head(wire[e]) \in Packet
  BY <1>1, ReadRest
<1>3. h \in Clients
  BY <1>1, ReadHosts
<1>4. h \in Hosts /\ tx[h] \in Seq(Packet) /\ From(h, tx[h]) /\ Asio(h) \in Threads
  BY <1>3, OwnTypes, AsioThread DEF Hosts
<1>5. Receive(Asio(h), h, Head(wire[e]), tx[h])
  BY DEF ClientReads, Deliver
<1>6. PICK q \in Seq(Packet) : tx' = [tx EXCEPT ![h] = q] /\ (h \in Clients => From(h, q))
  BY <1>2, <1>4, <1>5, ReceiveOwn
<1>7. sent' \in Nat /\ PushTypes' /\ OwnPushes'
  BY <1>2, <1>4, <1>5, ReceiveOwn
<1>8. /\ UNCHANGED <<routing, arp, conns, pc, held>>
      /\ rx' = [rx EXCEPT ![Hub] = rx[Hub]]
      /\ Hub \in Hosts /\ rx[Hub] \in Seq(Packet) /\ Hub \notin Clients
  BY OwnTypes, AddressAssumption DEF ClientReads, Deliver, Hosts
<1> HIDE DEF e, h
<1> QED BY <1>2, <1>4, <1>6, <1>7, <1>8, OwnHostStep

(* A packet is routed to the writers parked on the queue of its host.      *)
LEMMA OwnTransmitRoute ==
  ASSUME OwnInv, WriterInv', NEW t \in Threads, NEW h \in Hosts, TransmitRoute(t, h)
  PROVE  OwnInv'
<1> DEFINE p == Head(tx[h])
<1>1. tx[h] # <<>> /\ tx[h] \in Seq(Packet) /\ routing[h] \in Seq(Packet)
      /\ (h \in Clients => From(h, tx[h]) /\ From(h, routing[h]))
  BY OwnTypes DEF TransmitRoute
<1>2. p \in Packet /\ Tail(tx[h]) \in Seq(Packet)
      /\ (h \in Clients => From(h, Tail(tx[h])) /\ p.src = h)
  BY <1>1, HeadTail, FromTail
<1>3. /\ tx' = [tx EXCEPT ![h] = Tail(tx[h])]
      /\ arp' = [arp EXCEPT ![h] = @ \cup LinkedTo(h)]
      /\ Route(h, p)
      /\ UNCHANGED <<rx, pushing, conns, wire, sent>>
  BY DEF TransmitRoute, threads
<1> HIDE DEF p
<1>4. tx' \in [Hosts -> Seq(Packet)]
  BY <1>2, <1>3 DEF OwnInv, PacketInv, PacketTypes
<1>5. arp' \in [Hosts -> SUBSET {Hub, Neighbour}]
  BY <1>3 DEF OwnInv, PacketInv, PacketTypes, LinkedTo
<1>6. ASSUME NEW c \in Clients PROVE From(c, tx'[c]) /\ rx'[c] = <<>> /\ c \in Hosts
  BY <1>2, <1>3, OwnTypes DEF OwnInv, PacketInv, PacketTypes, Hosts
<1>7. CASE Parked(h) = {}
  <2>1. routing' = [routing EXCEPT ![h] = Append(@, p)] /\ UNCHANGED <<pc, held>>
    BY <1>3, <1>7 DEF Route
  <2>2. Append(routing[h], p) \in Seq(Packet)
        /\ (h \in Clients => From(h, Append(routing[h], p)))
    BY <1>1, <1>2, FromAppend, Appended
  <2>3. PacketTypes'
    BY <1>3, <1>4, <1>5, <2>1, <2>2 DEF OwnInv, PacketInv, PacketTypes
  <2>4. Fresh'
    BY <1>3, <2>1 DEF OwnInv, PacketInv, Fresh, Unmade, conns
  <2>5. \A c \in Clients : From(c, routing'[c])
    BY <2>1, <2>2, <1>6 DEF OwnInv, PacketInv, PacketTypes, OwnQueues
  <2>6. OwnQueues'
    BY <1>6, <2>5 DEF OwnQueues
  <2>7. OwnEnds'
    BY <1>3, <2>1 DEF OwnInv, OwnEnds, conns
  <2> QED BY <1>3, <2>3, <2>4, <2>6, <2>7, SamePushes DEF OwnInv, PacketInv
<1>8. CASE UNCHANGED routing /\ Wake(h, p)
  <2>1. held' = [e \in Ends |-> IF e \in Parked(h) THEN p ELSE held[e]]
        /\ pc' = [e \in Ends |-> IF e \in Parked(h) THEN "running" ELSE pc[e]]
    BY <1>8 DEF Wake
  <2>2. PacketTypes'
    BY <1>2, <1>3, <1>4, <1>5, <1>8, <2>1 DEF OwnInv, PacketInv, PacketTypes
  <2>3. \A e \in Parked(h) : e \in Ends /\ ~Unmade(e[1]) /\ HostOf(e) = h
    BY DEF Parked, OwnInv, PacketInv, Fresh
  <2>4. Fresh'
    BY <1>3, <2>1, <2>3 DEF OwnInv, PacketInv, Fresh, Unmade, conns
  <2>5. OwnQueues'
    BY <1>6, <1>8 DEF OwnInv, OwnQueues
  <2>6. OwnEnds'
    <3> SUFFICES ASSUME NEW e \in Ends, e[2] = "client"
                 PROVE  (From(who[e[1]], wire[e])
                         /\ (held[e] # NoPacket => held[e].src = who[e[1]]))'
      BY DEF OwnEnds
    <3>1. CASE e \in Parked(h)
      <4>1. h = who[e[1]] /\ h \in Clients
        BY <2>3, <3>1, HostOfType DEF OwnInv, PacketInv
      <4> QED BY <1>2, <1>3, <2>1, <3>1, <4>1 DEF OwnInv, OwnEnds, conns
    <3>2. CASE e \notin Parked(h)
      BY <1>3, <2>1, <3>2 DEF OwnInv, OwnEnds, conns
    <3> QED BY <3>1, <3>2
  <2> QED BY <1>3, <2>2, <2>4, <2>5, <2>6, SamePushes DEF OwnInv, PacketInv
<1> QED BY <1>3, <1>7, <1>8 DEF Route

LEMMA OwnLink ==
  ASSUME OwnInv, WriterInv', Link
  PROVE  OwnInv'
<1>1. UNCHANGED <<queues, pushing, conns, writers, sent>>
  BY DEF Link, threads
<1>2. arp' = [arp EXCEPT ![Hub] = LinkSeen(Hub, Neighbour),
                         ![Neighbour] = LinkSeen(Neighbour, Hub)]
  BY DEF Link
<1>3. arp' \in [Hosts -> SUBSET {Hub, Neighbour}]
  BY <1>2 DEF LinkSeen, OwnInv, PacketInv, PacketTypes, Hosts
<1>4. PacketTypes'
  BY <1>1, <1>3 DEF queues, writers, OwnInv, PacketInv, PacketTypes
<1>5. Fresh'
  BY <1>1 DEF conns, writers, OwnInv, PacketInv, Fresh, Unmade
<1>6. OwnQueues'
  BY <1>1 DEF queues, OwnInv, OwnQueues
<1>7. OwnEnds'
  BY <1>1 DEF conns, writers, OwnInv, OwnEnds
<1> QED BY <1>1, <1>4, <1>5, <1>6, <1>7, SamePushes DEF OwnInv, PacketInv

(* A step at the ends alone: what they hold or have written stays theirs.  *)
LEMMA OwnEndStep ==
  ASSUME OwnInv, WriterInv', UNCHANGED <<queues, pushing, arp, sent>>, Rest,
         wire' \in [Ends -> Seq(Packet)],
         held' \in [Ends -> Packet \cup {NoPacket}],
         \A e \in Ends : /\ held'[e] \in {held[e], NoPacket}
                        /\ (who'[e[1]] = who[e[1]] \/ (Unmade(e[1]) /\ ~Unmade(e[1])'))
                        /\ (pc[e] = "none" => (pc'[e] = "none" \/ ~Unmade(e[1])'))
  PROVE  OwnInv'
<1>1. PacketTypes'
  BY DEF queues, OwnInv, PacketInv, PacketTypes
<1>2. Fresh'
  BY DEF OwnInv, PacketInv, Fresh, Unmade, Rest, Shorter
<1>3. OwnQueues'
  BY DEF queues, OwnInv, OwnQueues
<1>4. OwnEnds'
  <2> SUFFICES ASSUME NEW e \in Ends, e[2] = "client"
               PROVE  (From(who[e[1]], wire[e])
                       /\ (held[e] # NoPacket => held[e].src = who[e[1]]))'
    BY DEF OwnEnds
  <2>1. From(who[e[1]], wire[e]) /\ (held[e] # NoPacket => held[e].src = who[e[1]])
    BY DEF OwnInv, OwnEnds
  <2>2. wire[e] \in Seq(Packet) /\ Shorter(wire[e], wire'[e])
    BY DEF OwnInv, PacketInv, PacketTypes, Rest
  <2>3. CASE who'[e[1]] = who[e[1]]
    BY <2>1, <2>2, <2>3, ShorterKeeps
  <2>4. CASE Unmade(e[1])
    <3>1. wire'[e] = <<>> /\ held'[e] = NoPacket
      BY <2>4, <2>2 DEF OwnInv, PacketInv, Fresh, Shorter
    <3> QED BY <3>1, FromEmpty
  <2> QED BY <2>3, <2>4
<1> QED BY <1>1, <1>2, <1>3, <1>4, SamePushes DEF OwnInv, PacketInv

LEMMA OwnJoin ==
  ASSUME OwnInv, WriterInv', NEW c \in Clients, NEW k \in Joins, Join(c, k)
  PROVE  OwnInv'
<1> DEFINE ends == {k} \X {"client", "server"}
<1>1. /\ who[k] = NoHost
      /\ who' = [who EXCEPT ![k] = c]
      /\ pc' = [e \in Ends |-> IF e \in ends THEN "running" ELSE pc[e]]
      /\ UNCHANGED <<queues, pushing, arp, held, wire, sent>>
  BY DEF Join, Started, threads
<1>2. \A e \in Ends : e \in ends <=> e[1] = k
  BY EndsOf
<1> HIDE DEF ends
<1>3. c # NoHost /\ who \in [Joins -> Clients \cup {NoHost}]
  BY NoHostAssumption DEF Hosts, OwnInv, PacketInv, WriterInv, WriterTypes
<1>4. Rest /\ wire' \in [Ends -> Seq(Packet)] /\ held' \in [Ends -> Packet \cup {NoPacket}]
  BY <1>1, SameWires DEF OwnInv, PacketInv, PacketTypes
<1>5. ASSUME NEW e \in Ends
      PROVE  /\ held'[e] \in {held[e], NoPacket}
             /\ (who'[e[1]] = who[e[1]] \/ (Unmade(e[1]) /\ ~Unmade(e[1])'))
             /\ (pc[e] = "none" => (pc'[e] = "none" \/ ~Unmade(e[1])'))
  BY <1>1, <1>2, <1>3, EndsOf DEF Unmade
<1> QED BY <1>1, <1>4, <1>5, OwnEndStep

LEMMA OwnWriterParks ==
  ASSUME OwnInv, WriterInv', NEW e \in Ends, WriterParks(e)
  PROVE  OwnInv'
<1>1. /\ pc[e] = "parking" /\ pc' = [pc EXCEPT ![e] = "parked"]
      /\ UNCHANGED <<queues, pushing, arp, who, held, wire, sent>>
  BY DEF WriterParks, conns, threads
<1>2. Rest /\ wire' \in [Ends -> Seq(Packet)] /\ held' \in [Ends -> Packet \cup {NoPacket}]
  BY <1>1, SameWires DEF OwnInv, PacketInv, PacketTypes
<1>3. \A x \in Ends : pc[x] = "none" => pc'[x] = "none"
  BY <1>1 DEF OwnInv, PacketInv, WriterInv, WriterTypes
<1> QED BY <1>1, <1>2, <1>3, OwnEndStep

LEMMA OwnStops ==
  ASSUME OwnInv, WriterInv',
         (\E k \in Joins : ServerStops(k) \/ ClientStops(k)) \/ HubStops
  PROVE  OwnInv'
<1>1. UNCHANGED <<queues, pushing, arp, who, sent>>
  BY DEF ServerStops, ClientStops, HubStops, threads
<1>2. \A e \in Ends : wire'[e] \in {wire[e], <<>>}
  BY DEF ServerStops, ClientStops, HubStops, Cut, OwnInv, PacketInv, PacketTypes
<1>3. wire' \in [Ends -> Seq(Packet)]
  <2>1. wire \in [Ends -> Seq(Packet)] /\ <<>> \in Seq(Packet)
    BY DEF OwnInv, PacketInv, PacketTypes
  <2>2. DOMAIN wire' = Ends /\ wire' = [e \in Ends |-> wire'[e]]
    BY <2>1 DEF ServerStops, ClientStops, HubStops, Cut
  <2> QED BY <1>2, <2>1, <2>2
<1>4. /\ \A e \in Ends : held'[e] \in {held[e], NoPacket}
      /\ held' \in [Ends -> Packet \cup {NoPacket}]
      /\ \A e \in Ends : (pc[e] = "none" => pc'[e] = "none")
  BY DEF ServerStops, ClientStops, HubStops, Dropped, OwnInv, PacketInv, PacketTypes
<1>5. Rest
  BY <1>2 DEF Rest, Shorter
<1> QED BY <1>1, <1>3, <1>4, <1>5, OwnEndStep

(* What a writer does: it writes what it holds, and holds the next packet, *)
(* if it takes one.                                                        *)
Written(e) == held[e] # NoPacket /\ sock[e] = "open" /\ sock[Other(e)] = "open"

LEMMA WriterDoes ==
  ASSUME OwnInv, NEW e \in Ends, WriterRuns(e)
  PROVE  /\ ~Unmade(e[1]) /\ HostOf(e) \in Hosts
         /\ held[e] \in Packet \cup {NoPacket} /\ wire[e] \in Seq(Packet)
         /\ \/ ~Written(e) /\ UNCHANGED wire
            \/ /\ Written(e) /\ held[e] \in Packet
               /\ wire' = [wire EXCEPT ![e] = Append(wire[e], held[e])]
         /\ \/ held' = [held EXCEPT ![e] = NoPacket] /\ UNCHANGED routing
            \/ /\ routing[HostOf(e)] # <<>> /\ sock[e] = "open"
               /\ held' = [held EXCEPT ![e] = Head(routing[HostOf(e)])]
               /\ routing' = [routing EXCEPT ![HostOf(e)] = Tail(@)]
         /\ UNCHANGED <<tx, rx, threads, linked, arp, conns, handled, promised, sent>>
         /\ \A x \in Ends : (pc[x] = "none" => pc'[x] = "none")
<1>1. pc[e] = "running" /\ ~Unmade(e[1])
  BY DEF WriterRuns, OwnInv, PacketInv, Fresh
<1>2. HostOf(e) \in Hosts
  BY <1>1, HostOfType DEF OwnInv, PacketInv
<1>3. held[e] \in Packet \cup {NoPacket} /\ wire[e] \in Seq(Packet)
      /\ wire = [wire EXCEPT ![e] = wire[e]]
  BY DEF OwnInv, PacketInv, PacketTypes
<1>4. \/ ~Written(e) /\ UNCHANGED wire
      \/ /\ Written(e) /\ held[e] \in Packet
         /\ wire' = [wire EXCEPT ![e] = Append(wire[e], held[e])]
  <2>1. wire' = [wire EXCEPT ![e] =
                   IF Written(e) THEN Append(wire[e], held[e]) ELSE wire[e]]
    BY DEF WriterRuns, Written
  <2>2. Written(e) => held[e] \in Packet
    BY <1>3 DEF Written
  <2> QED BY <1>3, <2>1, <2>2
<1>5. \/ /\ held' = [held EXCEPT ![e] = NoPacket] /\ UNCHANGED routing
         /\ \E to \in {"parking", "done"} : pc' = [pc EXCEPT ![e] = to]
      \/ /\ routing[HostOf(e)] # <<>> /\ sock[e] = "open"
         /\ held' = [held EXCEPT ![e] = Head(routing[HostOf(e)])]
         /\ routing' = [routing EXCEPT ![HostOf(e)] = Tail(@)]
         /\ UNCHANGED pc
  BY DEF WriterRuns, Look, Take, GoPark
<1>6. \A x \in Ends : pc[x] = "none" => pc'[x] = "none"
  BY <1>1, <1>5 DEF OwnInv, PacketInv, WriterInv, WriterTypes
<1>7. UNCHANGED <<tx, rx, threads, linked, arp, conns, handled, promised, sent>>
  BY DEF WriterRuns
<1> QED BY <1>1, <1>2, <1>3, <1>4, <1>5, <1>6, <1>7

LEMMA OwnWriterRuns ==
  ASSUME OwnInv, WriterInv', NEW e \in Ends, WriterRuns(e)
  PROVE  OwnInv'
<1> DEFINE h == HostOf(e)
<1>1. /\ ~Unmade(e[1]) /\ h \in Hosts
      /\ wire[e] \in Seq(Packet) /\ routing[h] \in Seq(Packet)
      /\ UNCHANGED <<tx, rx, threads, linked, arp, conns, handled, promised, sent>>
      /\ \A x \in Ends : (pc[x] = "none" => pc'[x] = "none")
  BY WriterDoes, OwnTypes
<1>2. /\ wire' \in [Ends -> Seq(Packet)]
      /\ \A x \in Ends : (x[2] = "client" => From(who[x[1]], wire'[x]))
      /\ \A x \in Ends \ {e} : wire'[x] = wire[x]
  <2>1. CASE UNCHANGED wire
    BY <2>1 DEF OwnInv, OwnEnds, PacketInv, PacketTypes
  <2>2. CASE /\ held[e] # NoPacket /\ held[e] \in Packet
             /\ wire' = [wire EXCEPT ![e] = Append(wire[e], held[e])]
    <3>1. Append(wire[e], held[e]) \in Seq(Packet)
      BY <1>1, <2>2, Appended
    <3>2. e[2] = "client" => From(who[e[1]], Append(wire[e], held[e]))
      BY <1>1, <2>2, FromAppend DEF OwnInv, OwnEnds
    <3> QED BY <2>2, <3>1, <3>2 DEF OwnInv, OwnEnds, PacketInv, PacketTypes
  <2> QED BY <2>1, <2>2, WriterDoes DEF Written
<1>3. /\ held' \in [Ends -> Packet \cup {NoPacket}]
      /\ \A x \in Ends : (x[2] = "client" =>
                          (held'[x] # NoPacket => held'[x].src = who[x[1]]))
      /\ \A x \in Ends \ {e} : held'[x] = held[x]
      /\ routing' \in [Hosts -> Seq(Packet)]
      /\ \A c \in Clients : From(c, routing'[c])
  <2>1. CASE held' = [held EXCEPT ![e] = NoPacket] /\ UNCHANGED routing
    BY <2>1 DEF OwnInv, OwnEnds, OwnQueues, PacketInv, PacketTypes
  <2>2. CASE /\ routing[h] # <<>>
             /\ held' = [held EXCEPT ![e] = Head(routing[h])]
             /\ routing' = [routing EXCEPT ![h] = Tail(@)]
    <3>1. Head(routing[h]) \in Packet /\ Tail(routing[h]) \in Seq(Packet)
          /\ (h \in Clients => (Head(routing[h]).src = h /\ From(h, Tail(routing[h]))))
      BY <1>1, <2>2, HeadTail, FromTail DEF OwnInv, OwnQueues
    <3>2. e[2] = "client" => h = who[e[1]] /\ h \in Clients
      BY <1>1, HostOfType DEF OwnInv, PacketInv
    <3> HIDE DEF h
    <3> QED BY <1>1, <2>2, <3>1, <3>2 DEF OwnInv, OwnEnds, OwnQueues, PacketInv, PacketTypes
  <2> QED BY <2>1, <2>2, WriterDoes
<1> HIDE DEF h
<1>4. PacketTypes'
  BY <1>1, <1>2, <1>3 DEF OwnInv, PacketInv, PacketTypes
<1>5. Fresh'
  BY <1>1, <1>2, <1>3 DEF OwnInv, PacketInv, Fresh, Unmade, conns
<1>6. OwnQueues'
  BY <1>1, <1>3 DEF OwnInv, OwnQueues
<1>7. OwnEnds'
  BY <1>1, <1>2, <1>3 DEF OwnEnds, conns
<1>8. PushTypes' /\ OwnPushes'
  BY <1>1, SamePushes DEF threads
<1> QED BY <1>4, <1>5, <1>6, <1>7, <1>8 DEF OwnInv, PacketInv

LEMMA OwnStep == OwnInv /\ [Next]_vars => OwnInv'
<1> SUFFICES ASSUME OwnInv, [Next]_vars
             PROVE  OwnInv'
  OBVIOUS
<1>1. WriterInv'
  BY WriterStep DEF OwnInv, PacketInv
<1>2. CASE UNCHANGED vars
  <2>1. UNCHANGED <<queues, pushing, arp, who, pc, held, wire, sent>>
    BY <1>2 DEF vars, threads, conns, writers
  <2>2. PacketTypes' /\ Fresh' /\ OwnQueues' /\ OwnEnds'
    BY <2>1 DEF queues, OwnInv, PacketInv, PacketTypes, Fresh, Unmade, OwnQueues, OwnEnds
  <2> QED BY <1>1, <2>1, <2>2, SamePushes DEF OwnInv, PacketInv
<1>3. ASSUME NEW t \in Threads, NEW f \in Traffic, Send(t, f[1], f[2])
      PROVE  OwnInv'
  BY <1>1, <1>3, OwnSend
<1>4. ASSUME NEW t \in Threads, NEW h \in Hosts, HostNext(t, h)
      PROVE  OwnInv'
  BY <1>1, <1>4, OwnTransmitHere, OwnTransmitLink, OwnTransmitRoute, OwnReceiveService
     DEF HostNext
<1>5. CASE Link
  BY <1>1, <1>5, OwnLink
<1>6. ASSUME NEW c \in Clients, NEW k \in Joins, Join(c, k)
      PROVE  OwnInv'
  BY <1>1, <1>6, OwnJoin
<1>7. ASSUME NEW k \in Joins, ServerReads(k) \/ ClientReads(k)
      PROVE  OwnInv'
  BY <1>1, <1>7, OwnServerReads, OwnClientReads
<1>8. ASSUME NEW k \in Joins, ServerStops(k) \/ ClientStops(k)
      PROVE  OwnInv'
  BY <1>1, <1>8, OwnStops
<1>9. ASSUME NEW e \in Ends, WriterNext(e)
      PROVE  OwnInv'
  BY <1>1, <1>9, OwnWriterRuns, OwnWriterParks DEF WriterNext
<1>10. CASE HubStops
  BY <1>1, <1>10, OwnStops
<1>11. ASSUME NEW t \in Threads, ThreadNext(t)
       PROVE  OwnInv'
  BY <1>1, <1>11, OwnBroadcast, OwnServices DEF ThreadNext
<1> QED
  BY <1>2, <1>3, <1>4, <1>5, <1>6, <1>7, <1>8, <1>9, <1>10, <1>11 DEF Next

LEMMA OwnAlways == Spec => []OwnInv
  BY OwnInit, OwnStep, PTL DEF Spec

(* NothingCirculates of module Bridge: for any number of clients and       *)
(* connections, a client transmits only what it made itself, so that the   *)
(* copies the Hub gives to every client go no further.                     *)
THEOREM ClientsSendTheirOwn == Spec => []NothingCirculates
<1>1. OwnInv => NothingCirculates
  <2> SUFFICES ASSUME OwnInv, NEW c \in Clients, NEW q \in Transmitted(c)
               PROVE  From(c, q)
    BY DEF NothingCirculates, From
  <2>1. q = tx[c] \/ q = routing[c]
        \/ \E e \in Ends : e[2] = "client" /\ who[e[1]] = c /\ q = wire[e]
    BY DEF Transmitted
  <2> QED BY <2>1 DEF OwnInv, OwnQueues, OwnEnds
<1> QED BY <1>1, OwnAlways, PTL
-----------------------------------------------------------------------------
(* Where the copies of a packet are that may still be handled: a copy that *)
(* a writer took for another client, or that its own client will never be  *)
(* written because it left, does not count.                                *)
ClientEnd(k) == <<k, "client">>

OneOpen ==
  \A j, k \in Joins :
    (/\ who[j] = who[k] /\ ~Unmade(k)
     /\ sock[ClientEnd(j)] = "open" /\ sock[ClientEnd(k)] = "open") => j = k

Due(e) == {p \in Packet : e[2] = "server" => p.dst = who[e[1]]}
Carried(e) == IF sock[ClientEnd(e[1])] = "open" THEN Due(e) \cap {held[e]} ELSE {}

Pushed(t) == Packet \cap {pushing[t].packet}

Pushes == {"push"} \X Threads
Places == ({"tx", "rx", "routing"} \X Hosts) \cup ({"held", "wire"} \X Ends) \cup Pushes

Holds ==
  [s \in Places |->
    CASE s[1] = "tx" -> ToSet(tx[s[2]])
      [] s[1] = "rx" -> ToSet(rx[s[2]])
      [] s[1] = "routing" -> ToSet(routing[s[2]])
      [] s[1] = "held" -> Carried(s[2])
      [] s[1] = "wire" -> ToSet(wire[s[2]]) \cap Due(s[2])
      [] s[1] = "push" -> Pushed(s[2])]

Ended == {x[2] : x \in DOMAIN handled}

Asked(p) == [p EXCEPT !.src = p.dst, !.dst = p.src, !.kind = "ask"]

Known(S, D, n) ==
  \A p \in S : p.id <= n /\ (p.kind = "answer" => Asked(p) \in D)

Apart(H, D, n) ==
  /\ \A s \in Places : H[s] \cap D = {} /\ Known(H[s], D, n)
  /\ Known(D, D, n)
  /\ \A s, t \in Places : s # t => H[s] \cap H[t] = {}

Once(q, S) == \A i, j \in 1..Len(q) : q[i] = q[j] /\ q[i] \in S => i = j

QueuesOnce ==
  /\ \A h \in Hosts : /\ Once(tx[h], Packet)
                      /\ Once(rx[h], Packet)
                      /\ Once(routing[h], Packet)
  /\ \A e \in Ends : Once(wire[e], Due(e))

HandledTypes ==
  /\ DOMAIN handled \subseteq Hosts \X Packet
  /\ \A x \in DOMAIN handled : handled[x] = 1 /\ x[1] = x[2].dst

OnceCore == HandledTypes /\ QueuesOnce /\ Apart(Holds, Ended, sent)

OnceInv == OwnInv /\ OneOpen /\ OnceCore

LEMMA OnceTail ==
  ASSUME NEW S, NEW q \in Seq(Packet), q # <<>>, Once(q, S)
  PROVE  /\ Once(Tail(q), S)
         /\ ToSet(Tail(q)) \subseteq ToSet(q)
         /\ Head(q) \in ToSet(q)
         /\ Head(q) \in S => Head(q) \notin ToSet(Tail(q))
  BY HeadTail DEF Once, ToSet

LEMMA OnceAppend ==
  ASSUME NEW S, NEW q \in Seq(Packet), NEW p \in Packet, Once(q, S),
         p \in S => p \notin ToSet(q)
  PROVE  /\ Once(Append(q, p), S)
         /\ ToSet(Append(q, p)) = ToSet(q) \cup {p}
  BY Appended DEF Once, ToSet

LEMMA OncePrepend ==
  ASSUME NEW q \in Seq(Packet), NEW p \in Packet, Once(q, Packet), p \notin ToSet(q)
  PROVE  /\ Once(<<p>> \o q, Packet)
         /\ ToSet(<<p>> \o q) \subseteq ToSet(q) \cup {p}
<1> DEFINE r == <<p>> \o q
<1>1. /\ r \in Seq(Packet) /\ Len(q) \in Nat /\ Len(r) = Len(q) + 1 /\ r[1] = p
      /\ \A i \in 2..Len(q) + 1 : r[i] = q[i - 1] /\ i - 1 \in 1..Len(q)
  BY Prepended
<1> HIDE DEF r
<1>2. ToSet(q) = {q[i] : i \in 1..Len(q)}
  BY DEF ToSet
<1>3. ToSet(r) = {r[i] : i \in 1..Len(r)}
  BY <1>1 DEF ToSet
<1>4. \A i \in 2..Len(r) : r[i] \in ToSet(q) /\ r[i] # p
  BY <1>1, <1>2
<1>5. \A i \in 1..Len(r) : i = 1 \/ i \in 2..Len(r)
  BY <1>1
<1>6. ToSet(r) \subseteq ToSet(q) \cup {p}
  BY <1>1, <1>3, <1>4, <1>5
<1>7. ASSUME NEW i \in 1..Len(r), NEW j \in 1..Len(r), r[i] = r[j] PROVE i = j
  <2>1. CASE i = 1 \/ j = 1
    BY <1>1, <1>4, <1>5, <1>7, <2>1
  <2>2. CASE i \in 2..Len(r) /\ j \in 2..Len(r)
    <3>1. q[i - 1] = q[j - 1] /\ q[i - 1] \in Packet
      BY <1>1, <1>7, <2>2
    <3>2. i - 1 = j - 1
      BY <1>1, <2>2, <3>1 DEF Once
    <3> QED BY <2>2, <3>2
  <2> QED BY <1>5, <2>1, <2>2
<1> QED BY <1>6, <1>7 DEF r, Once

LEMMA SamePacket ==
  ASSUME NEW p \in Packet, NEW r \in Packet,
         p.id = r.id, p.src = r.src, p.dst = r.dst, p.kind = r.kind
  PROVE  p = r
<1>1. ASSUME NEW x \in Packet
      PROVE  x = [id |-> x.id, src |-> x.src, dst |-> x.dst, kind |-> x.kind]
  BY DEF Packet
<1> QED BY <1>1

LEMMA AskedReply ==
  ASSUME NEW p \in Packet, p.kind = "ask"
  PROVE  Asked(Reply(p)) = p
<1>1. Reply(p) \in Packet /\ Reply(p).src = p.dst /\ Reply(p).dst = p.src
      /\ Reply(p).id = p.id
  BY AskReply
<1>2. ASSUME NEW r \in Packet
      PROVE  /\ Asked(r) \in Packet
             /\ Asked(r).id = r.id /\ Asked(r).src = r.dst
             /\ Asked(r).dst = r.src /\ Asked(r).kind = "ask"
  BY DEF Packet, Asked
<1> QED BY <1>1, <1>2, SamePacket

(* What a step may do with copies: lose some, move one, hand one to a      *)
(* handler, make a new one.                                                *)
LEMMA ApartLess ==
  ASSUME NEW H, NEW H2, NEW D, NEW n, Apart(H, D, n),
         \A x \in Places : H2[x] \subseteq H[x]
  PROVE  Apart(H2, D, n)
  BY DEF Apart, Known

LEMMA ApartMove ==
  ASSUME NEW H, NEW H2, NEW D, NEW n, NEW p, NEW s \in Places, NEW t \in Places,
         Apart(H, D, n), p \in H[s], s # t, p \notin H2[s],
         \A x \in Places \ {t} : H2[x] \subseteq H[x],
         H2[t] \subseteq H[t] \cup {p}
  PROVE  Apart(H2, D, n)
<1>1. \A x \in Places : \A y \in H2[x] : y \in H[x] \/ (x = t /\ y = p)
  OBVIOUS
<1>2. \A x \in Places : \A y \in H2[x] : \E z \in Places : y \in H[z]
  BY <1>1
<1>3. \A x \in Places : H2[x] \cap D = {} /\ Known(H2[x], D, n)
  BY <1>2 DEF Apart, Known
<1>4. ASSUME NEW x \in Places, NEW y \in Places, x # y, NEW z \in H2[x], z \in H2[y]
      PROVE  FALSE
  <2>1. CASE z = p
    BY <1>1, <1>4, <2>1 DEF Apart
  <2>2. CASE z # p
    BY <1>1, <1>4, <2>2 DEF Apart
  <2> QED BY <2>1, <2>2
<1> QED BY <1>3, <1>4 DEF Apart

LEMMA ApartHandle ==
  ASSUME NEW H, NEW H2, NEW D, NEW n, NEW p, NEW s \in Places,
         Apart(H, D, n), p \in H[s], p \notin H2[s],
         \A x \in Places : H2[x] \subseteq H[x]
  PROVE  Apart(H2, D \cup {p}, n)
<1>1. \A x \in Places : p \notin H2[x]
  BY DEF Apart
<1> QED BY <1>1 DEF Apart, Known

LEMMA ApartCreate ==
  ASSUME NEW H, NEW H2, NEW D, NEW n \in Nat, NEW p, NEW t \in Places,
         D \subseteq Packet, \A x \in Places : H[x] \subseteq Packet,
         Apart(H, D, n), p \notin D, \A x \in Places : p \notin H[x],
         p.id <= n + 1, p.kind = "answer" => Asked(p) \in D,
         \A x \in Places \ {t} : H2[x] \subseteq H[x],
         H2[t] \subseteq H[t] \cup {p}
  PROVE  Apart(H2, D, n + 1)
<1>1. \A y \in Packet : y.id \in Nat
  BY DEF Packet
<1>2. ASSUME NEW S, S \subseteq Packet, Known(S, D, n) PROVE Known(S, D, n + 1)
  BY <1>1, <1>2 DEF Known
<1>3. \A x \in Places : H2[x] \cap D = {} /\ Known(H2[x], D, n + 1)
  <2> SUFFICES ASSUME NEW x \in Places
               PROVE  H2[x] \cap D = {} /\ Known(H2[x], D, n + 1)
    OBVIOUS
  <2>1. H2[x] \subseteq H[x] \cup {p}
    OBVIOUS
  <2>2. Known(H[x], D, n + 1)
    BY <1>2 DEF Apart
  <2> QED BY <2>1, <2>2 DEF Apart, Known
<1>4. Known(D, D, n + 1)
  BY <1>2 DEF Apart
<1>5. \A x, y \in Places : x # y => H2[x] \cap H2[y] = {}
  BY DEF Apart
<1> QED BY <1>3, <1>4, <1>5 DEF Apart

LEMMA PlacesAre ==
  /\ \A h \in Hosts : /\ <<"tx", h>> \in Places /\ <<"rx", h>> \in Places
                      /\ <<"routing", h>> \in Places
  /\ \A e \in Ends : <<"held", e>> \in Places /\ <<"wire", e>> \in Places
  /\ \A t \in Threads : <<"push", t>> \in Places /\ <<"push", t>> \in Pushes
  /\ \A s \in Places :
       \/ \E h \in Hosts : s \in {<<"tx", h>>, <<"rx", h>>, <<"routing", h>>}
       \/ \E e \in Ends : s \in {<<"held", e>>, <<"wire", e>>}
       \/ \E t \in Threads : s = <<"push", t>>
  /\ \A h : /\ <<"tx", h>> \notin Pushes /\ <<"rx", h>> \notin Pushes
             /\ <<"routing", h>> \notin Pushes
             /\ <<"held", h>> \notin Pushes /\ <<"wire", h>> \notin Pushes
  /\ \A s \in Pushes : \E t \in Threads : s = <<"push", t>>
  BY DEF Places, Pushes

(* A place for a place: contents compared one kind at a time.              *)
LEMMA PlaceByPlace ==
  ASSUME NEW H, NEW H2, NEW T,
         \A h \in Hosts : /\ (<<"tx", h>> \notin T => H2[<<"tx", h>>] \subseteq H[<<"tx", h>>])
                         /\ (<<"rx", h>> \notin T => H2[<<"rx", h>>] \subseteq H[<<"rx", h>>])
                         /\ (<<"routing", h>> \notin T
                               => H2[<<"routing", h>>] \subseteq H[<<"routing", h>>]),
         \A e \in Ends : /\ (<<"held", e>> \notin T
                              => H2[<<"held", e>>] \subseteq H[<<"held", e>>])
                        /\ (<<"wire", e>> \notin T
                              => H2[<<"wire", e>>] \subseteq H[<<"wire", e>>]),
         \A t \in Threads : <<"push", t>> \notin T
                              => H2[<<"push", t>>] \subseteq H[<<"push", t>>]
  PROVE  \A x \in Places \ T : H2[x] \subseteq H[x]
<1> SUFFICES ASSUME NEW x \in Places, x \notin T
             PROVE  H2[x] \subseteq H[x]
  OBVIOUS
<1>1. CASE \E h \in Hosts : x \in {<<"tx", h>>, <<"rx", h>>, <<"routing", h>>}
  <2>1. PICK h \in Hosts : x = <<"tx", h>> \/ x = <<"rx", h>> \/ x = <<"routing", h>>
    BY <1>1
  <2> QED BY <2>1
<1>2. CASE \E e \in Ends : x \in {<<"held", e>>, <<"wire", e>>}
  <2>1. PICK e \in Ends : x = <<"held", e>> \/ x = <<"wire", e>>
    BY <1>2
  <2> QED BY <2>1
<1>3. CASE \E t \in Threads : x = <<"push", t>>
  BY <1>3
<1> QED BY <1>1, <1>2, <1>3, PlacesAre

(* What the places hold, now and after the step.                           *)
HoldsWhat ==
  /\ \A h \in Hosts : /\ Holds[<<"tx", h>>] = ToSet(tx[h])
                      /\ Holds[<<"rx", h>>] = ToSet(rx[h])
                      /\ Holds[<<"routing", h>>] = ToSet(routing[h])
  /\ \A e \in Ends : /\ Holds[<<"held", e>>] = Carried(e)
                     /\ Holds[<<"wire", e>>] = ToSet(wire[e]) \cap Due(e)
  /\ \A t \in Threads : Holds[<<"push", t>>] = Pushed(t)

LEMMA HoldsNow == HoldsWhat
  BY PlacesAre DEF HoldsWhat, Holds

LEMMA HoldsNext == HoldsWhat'
  BY PlacesAre DEF HoldsWhat, Holds

LEMMA HoldPackets == OwnInv => \A s \in Places : Holds[s] \subseteq Packet
<1> SUFFICES ASSUME OwnInv, NEW s \in Places PROVE Holds[s] \subseteq Packet
  OBVIOUS
<1>1. ASSUME NEW q \in Seq(Packet) PROVE ToSet(q) \subseteq Packet
  BY DEF ToSet
<1>2. CASE \E h \in Hosts : s \in {<<"tx", h>>, <<"rx", h>>, <<"routing", h>>}
  <2>1. PICK h \in Hosts : s \in {<<"tx", h>>, <<"rx", h>>, <<"routing", h>>}
    BY <1>2
  <2>2. Holds[s] \in {ToSet(tx[h]), ToSet(rx[h]), ToSet(routing[h])}
    BY <2>1, HoldsNow DEF HoldsWhat
  <2>3. /\ ToSet(tx[h]) \subseteq Packet /\ ToSet(rx[h]) \subseteq Packet
        /\ ToSet(routing[h]) \subseteq Packet
    BY <1>1, OwnTypes
  <2> QED BY <2>2, <2>3
<1>3. CASE \E e \in Ends : s \in {<<"held", e>>, <<"wire", e>>}
  BY <1>3, HoldsNow DEF HoldsWhat, Carried, Due
<1>4. CASE \E t \in Threads : s = <<"push", t>>
  BY <1>4, HoldsNow DEF HoldsWhat, Pushed
<1> QED BY <1>2, <1>3, <1>4, PlacesAre

(* Who changes what of connections.                                        *)
LEMMA ConnsStay ==
  ASSUME Next
  PROVE  \/ UNCHANGED <<who, sock>>
         \/ \E c \in Clients, k \in Joins : Join(c, k)
         \/ \E k \in Joins : ServerStops(k) \/ ClientStops(k)
         \/ HubStops
<1>1. ASSUME NEW t \in Threads, NEW f \in Traffic, Send(t, f[1], f[2])
      PROVE  UNCHANGED <<who, sock>>
  BY <1>1 DEF Send, conns
<1>2. ASSUME NEW t \in Threads, NEW h \in Hosts, HostNext(t, h)
      PROVE  UNCHANGED <<who, sock>>
  BY <1>2 DEF HostNext, TransmitHere, TransmitLink, TransmitRoute, ReceiveService, conns
<1>3. ASSUME NEW t \in Threads, ThreadNext(t)
      PROVE  UNCHANGED <<who, sock>>
  BY <1>3 DEF ThreadNext, Broadcast, ServiceLooks, ServiceParks, conns
<1>4. CASE Link
  BY <1>4 DEF Link, conns
<1>5. ASSUME NEW k \in Joins, ServerReads(k) \/ ClientReads(k)
      PROVE  UNCHANGED <<who, sock>>
  BY <1>5 DEF ServerReads, ClientReads, conns
<1>6. ASSUME NEW e \in Ends, WriterNext(e)
      PROVE  UNCHANGED <<who, sock>>
  BY <1>6 DEF WriterNext, WriterRuns, WriterParks, conns
<1> QED BY <1>1, <1>2, <1>3, <1>4, <1>5, <1>6 DEF Next

(* One client's connections follow one another.                            *)
LEMMA OneOpenStep ==
  ASSUME OwnInv, OneOpen, Next
  PROVE  OneOpen'
<1>1. ASSUME UNCHANGED who, \A k \in Joins : sock'[ClientEnd(k)] = "open"
                                            => sock[ClientEnd(k)] = "open"
      PROVE  OneOpen'
  BY <1>1 DEF OneOpen, Unmade
<1>2. ASSUME NEW c \in Clients, NEW k \in Joins, Join(c, k)
      PROVE  OneOpen'
  <2>1. /\ who' = [who EXCEPT ![k] = c] /\ who \in [Joins -> Clients \cup {NoHost}]
        /\ \A j \in Joins : who[j] = c => sock[ClientEnd(j)] = "closed"
    BY <1>2 DEF Join, OwnInv, PacketInv, WriterInv, WriterTypes, ClientEnd
  <2>2. \A j \in Joins : j # k => sock'[ClientEnd(j)] = sock[ClientEnd(j)]
    BY <1>2 DEF Join, Started, ClientEnd, Ends
  <2> QED BY <2>1, <2>2 DEF OneOpen, Unmade
<1>3. ASSUME NEW k \in Joins, ServerStops(k) \/ ClientStops(k)
      PROVE  OneOpen'
  <2>1. UNCHANGED who /\ sock \in [Ends -> {"none", "open", "closed"}]
    BY <1>3 DEF ServerStops, ClientStops, OwnInv, PacketInv, WriterInv, WriterTypes
  <2>2. \A e \in Ends : sock'[e] = "open" => sock[e] = "open"
    BY <1>3, <2>1 DEF ServerStops, ClientStops
  <2>3. \A j \in Joins : ClientEnd(j) \in Ends
    BY DEF ClientEnd, Ends
  <2> QED BY <1>1, <2>1, <2>2, <2>3
<1>4. CASE HubStops
  <2>1. UNCHANGED who /\ \A e \in Ends : sock'[e] = "open" => sock[e] = "open"
    BY <1>4 DEF HubStops
  <2>2. \A j \in Joins : ClientEnd(j) \in Ends
    BY DEF ClientEnd, Ends
  <2> QED BY <1>1, <2>1, <2>2
<1>5. CASE UNCHANGED <<who, sock>>
  BY <1>1, <1>5
<1> QED BY <1>2, <1>3, <1>4, <1>5, ConnsStay

LEMMA EndedPackets == HandledTypes => Ended \subseteq Packet
  BY DEF HandledTypes, Ended

LEMMA BagOfOnes ==
  ASSUME NEW B, NEW B2, NEW x, B2 = B (+) SetToBag({x}),
         x \notin DOMAIN B, \A y \in DOMAIN B : B[y] = 1
  PROVE  /\ DOMAIN B2 = DOMAIN B \cup {x}
         /\ \A y \in DOMAIN B \cup {x} : B2[y] = 1
<1> DEFINE C == SetToBag({x})
<1>1. DOMAIN C = {x} /\ C[x] = 1
  BY DEF SetToBag
<1> HIDE DEF C
<1>2. B (+) C = [y \in DOMAIN B \cup {x} |-> (IF y \in DOMAIN B THEN B[y] ELSE 0)
                                            + (IF y \in {x} THEN C[y] ELSE 0)]
  BY <1>1 DEF (+)
<1>3. DOMAIN (B (+) C) = DOMAIN B \cup {x}
  BY <1>2
<1>4. ASSUME NEW y \in DOMAIN B \cup {x} PROVE (B (+) C)[y] = 1
  <2>1. (B (+) C)[y] = (IF y \in DOMAIN B THEN B[y] ELSE 0) + (IF y \in {x} THEN C[y] ELSE 0)
    BY <1>2
  <2>2. CASE y = x
    BY <1>1, <2>1, <2>2
  <2>3. CASE y # x
    BY <2>1, <2>3
  <2> QED BY <2>2, <2>3
<1> QED BY <1>3, <1>4 DEF C

LEMMA HandledOneMore ==
  ASSUME NEW x, handled' = handled (+) SetToBag({x}),
         x \notin DOMAIN handled, \A y \in DOMAIN handled : handled[y] = 1
  PROVE  /\ DOMAIN handled' = DOMAIN handled \cup {x}
         /\ \A y \in DOMAIN handled \cup {x} : handled'[y] = 1
  BY BagOfOnes

LEMMA OnceFacts ==
  ASSUME OnceInv
  PROVE  /\ OwnInv /\ OneOpen /\ HandledTypes /\ Apart(Holds, Ended, sent)
         /\ sent \in Nat /\ Ended \subseteq Packet
         /\ \A x \in Places : Holds[x] \subseteq Packet
         /\ tx \in [Hosts -> Seq(Packet)] /\ rx \in [Hosts -> Seq(Packet)]
         /\ routing \in [Hosts -> Seq(Packet)] /\ wire \in [Ends -> Seq(Packet)]
         /\ \A h \in Hosts : /\ Once(tx[h], Packet) /\ Once(rx[h], Packet)
                             /\ Once(routing[h], Packet)
         /\ \A e \in Ends : Once(wire[e], Due(e))
  BY HoldPackets, EndedPackets
     DEF OnceInv, OnceCore, QueuesOnce, OwnInv, PacketInv, PacketTypes

(* A step of the services of hosts, or of a reader: no writer is touched.  *)
LEMMA HostFrame ==
  ASSUME UNCHANGED <<who, sock, held, routing>>, NEW h \in Hosts, NEW g \in Hosts,
         \A x \in Hosts : (x # h => tx'[x] = tx[x]) /\ (x # g => rx'[x] = rx[x])
  PROVE  /\ \A e \in Ends : Due(e)' = Due(e)
         /\ Holds'[<<"tx", h>>] = ToSet(tx'[h])
         /\ Holds'[<<"rx", g>>] = ToSet(rx'[g])
         /\ \A e \in Ends : Holds'[<<"wire", e>>] = ToSet(wire'[e]) \cap Due(e)
         /\ \A x \in Places : \/ x \in {<<"tx", h>>, <<"rx", g>>} \/ x \in Pushes
                             \/ Holds'[x] = Holds[x]
                             \/ \E e \in Ends : x = <<"wire", e>> /\ wire'[e] # wire[e]
<1>1. \A e \in Ends : Due(e)' = Due(e) /\ Carried(e)' = Carried(e)
  BY DEF Due, Carried
<1>2. /\ \A x \in Hosts : /\ Holds'[<<"tx", x>>] = ToSet(tx'[x])
                          /\ Holds'[<<"rx", x>>] = ToSet(rx'[x])
                          /\ Holds'[<<"routing", x>>] = ToSet(routing[x])
      /\ \A e \in Ends : /\ Holds'[<<"held", e>>] = Carried(e)
                         /\ Holds'[<<"wire", e>>] = ToSet(wire'[e]) \cap Due(e)
  BY <1>1, HoldsNext DEF HoldsWhat
<1>3. ASSUME NEW x \in Hosts
      PROVE  /\ (x = h \/ Holds'[<<"tx", x>>] = Holds[<<"tx", x>>])
             /\ (x = g \/ Holds'[<<"rx", x>>] = Holds[<<"rx", x>>])
             /\ Holds'[<<"routing", x>>] = Holds[<<"routing", x>>]
  BY <1>2, HoldsNow DEF HoldsWhat
<1>4. ASSUME NEW e \in Ends
      PROVE  /\ Holds'[<<"held", e>>] = Holds[<<"held", e>>]
             /\ (wire'[e] # wire[e] \/ Holds'[<<"wire", e>>] = Holds[<<"wire", e>>])
  BY <1>2, HoldsNow DEF HoldsWhat
<1>5. ASSUME NEW x \in Places
      PROVE  \/ x \in {<<"tx", h>>, <<"rx", g>>} \/ x \in Pushes
             \/ Holds'[x] = Holds[x]
             \/ \E e \in Ends : x = <<"wire", e>> /\ wire'[e] # wire[e]
  <2>1. CASE \E y \in Hosts : x \in {<<"tx", y>>, <<"rx", y>>, <<"routing", y>>}
    BY <1>3, <2>1
  <2>2. CASE \E e \in Ends : x \in {<<"held", e>>, <<"wire", e>>}
    BY <1>4, <2>2
  <2> QED BY <2>1, <2>2, PlacesAre
<1> QED BY <1>1, <1>2, <1>5

LEMMA PushesAre ==
  /\ \A t \in Threads : /\ Holds[<<"push", t>>] = Pushed(t)
                        /\ Holds'[<<"push", t>>] = Pushed(t)'
  /\ UNCHANGED pushing => \A x \in Pushes : Holds'[x] = Holds[x]
<1>1. \A t \in Threads : /\ Holds[<<"push", t>>] = Pushed(t)
                        /\ Holds'[<<"push", t>>] = Pushed(t)'
  BY HoldsNow, HoldsNext DEF HoldsWhat
<1>2. UNCHANGED pushing => \A t \in Threads : Pushed(t)' = Pushed(t)
  BY DEF Pushed
<1> QED BY <1>1, <1>2, PlacesAre

LEMMA PushesStay ==
  ASSUME UNCHANGED pushing
  PROVE  \A u \in Threads : Holds'[<<"push", u>>] = Holds[<<"push", u>>]
  BY PushesAre, PlacesAre

(* The first half of a push makes one place hold a packet more: the queue, *)
(* or the thread.  M is what the places hold without it.                   *)
Within(M) == \A x \in Places : M[x] \subseteq Holds[x]

AllBut(M, s) ==
  /\ \A x \in Pushes : Holds[x] \subseteq M[x]
  /\ \A x \in Places \ Pushes : x # s => Holds'[x] \subseteq M[x]

OneMore(M, p, g) ==
  /\ g \in Places /\ Holds'[g] \subseteq M[g] \cup {p}
  /\ \A x \in Places \ {g} : Holds'[x] \subseteq M[x]

LEMMA ThreadGains ==
  ASSUME OwnInv, NEW t \in Threads, NEW v, NEW p \in Packet, v.packet = p,
         pushing' = [pushing EXCEPT ![t] = v],
         NEW M, \A x \in Pushes : Holds[x] \subseteq M[x],
         \A x \in Places \ Pushes : Holds'[x] \subseteq M[x]
  PROVE  /\ Holds'[<<"push", t>>] \subseteq M[<<"push", t>>] \cup {p}
         /\ \A x \in Places \ {<<"push", t>>} : Holds'[x] \subseteq M[x]
<1>1. pushing'[t] = v /\ \A u \in Threads : u # t => pushing'[u] = pushing[u]
  BY OwnTypes DEF PushTypes
<1>2. Pushed(t)' \subseteq {p} /\ \A u \in Threads : u # t => Pushed(u)' = Pushed(u)
  BY <1>1 DEF Pushed
<1>3. ASSUME NEW u \in Threads, u # t
      PROVE  Holds'[<<"push", u>>] \subseteq M[<<"push", u>>]
  BY <1>2, <1>3, PushesAre, PlacesAre
<1>4. ASSUME NEW x \in Pushes, x # <<"push", t>>
      PROVE  Holds'[x] \subseteq M[x]
  <2>1. PICK u \in Threads : x = <<"push", u>>
    BY PlacesAre
  <2> QED BY <1>3, <1>4, <2>1
<1>5. Holds'[<<"push", t>>] \subseteq {p}
  BY <1>2, PushesAre
<1> QED BY <1>4, <1>5

LEMMA PushTxGains ==
  ASSUME OwnInv, NEW t \in Threads, NEW h \in Hosts, NEW p \in Packet,
         NEW queue \in Seq(Packet), PushTx(t, h, queue, p),
         Once(queue, Packet), p \notin ToSet(queue),
         NEW M, M[<<"tx", h>>] = ToSet(queue),
         AllBut(M, <<"tx", h>>)
  PROVE  /\ Once(tx'[h], Packet)
         /\ OneMore(M, p, <<"tx", h>>) \/ OneMore(M, p, <<"push", t>>)
<1> DEFINE s == <<"tx", h>>
<1>1. tx \in [Hosts -> Seq(Packet)] /\ s \in Places /\ s \notin Pushes
  BY PlacesAre DEF OwnInv, PacketInv, PacketTypes
<1>2. Holds'[s] = ToSet(tx'[h])
  BY HoldsNext DEF HoldsWhat
<1>3. CASE /\ tx' = [tx EXCEPT ![h] = queue]
           /\ pushing' = [pushing EXCEPT ![t] = [to |-> <<"tx", h>>, packet |-> p]]
  <2> DEFINE v == [to |-> <<"tx", h>>, packet |-> p]
  <2>1. tx'[h] = queue /\ v.packet = p
    BY <1>1, <1>3
  <2>2. \A x \in Places \ Pushes : Holds'[x] \subseteq M[x]
    BY <1>2, <2>1 DEF AllBut
  <2>3. pushing' = [pushing EXCEPT ![t] = v]
    BY <1>3
  <2> HIDE DEF v
  <2>4. /\ Holds'[<<"push", t>>] \subseteq M[<<"push", t>>] \cup {p}
        /\ \A x \in Places \ {<<"push", t>>} : Holds'[x] \subseteq M[x]
    BY <2>1, <2>2, <2>3, ThreadGains DEF AllBut
  <2> QED BY <2>1, <2>4, PlacesAre DEF OneMore
<1>4. CASE tx' = [tx EXCEPT ![h] = Append(queue, p)] /\ UNCHANGED pushing
  <2>1. tx'[h] = Append(queue, p)
    BY <1>1, <1>4
  <2>2. Once(tx'[h], Packet) /\ ToSet(tx'[h]) = ToSet(queue) \cup {p}
    BY <2>1, OnceAppend
  <2>3. \A x \in Pushes : Holds'[x] \subseteq M[x]
    BY <1>4, PushesAre DEF AllBut
  <2> HIDE DEF s
  <2>4. Holds'[s] \subseteq M[s] \cup {p} /\ \A x \in Places \ {s} : Holds'[x] \subseteq M[x]
    BY <1>2, <2>2, <2>3 DEF s, AllBut
  <2> QED BY <1>1, <2>2, <2>4 DEF s, OneMore
<1> QED BY <1>3, <1>4 DEF PushTx

LEMMA PushRxGains ==
  ASSUME OwnInv, NEW t \in Threads, NEW h \in Hosts, NEW p \in Packet,
         NEW queue \in Seq(Packet), PushRx(t, h, queue, p),
         Once(queue, Packet), p \notin ToSet(queue),
         NEW M, M[<<"rx", h>>] = ToSet(queue),
         AllBut(M, <<"rx", h>>)
  PROVE  /\ Once(rx'[h], Packet) /\ \A x \in Hosts : x # h => rx'[x] = rx[x]
         /\ OneMore(M, p, <<"rx", h>>) \/ OneMore(M, p, <<"push", t>>)
<1> DEFINE s == <<"rx", h>>
<1>1. rx \in [Hosts -> Seq(Packet)] /\ s \in Places /\ s \notin Pushes
  BY PlacesAre DEF OwnInv, PacketInv, PacketTypes
<1>2. Holds'[s] = ToSet(rx'[h])
  BY HoldsNext DEF HoldsWhat
<1>3. CASE /\ rx' = [rx EXCEPT ![h] = queue]
           /\ pushing' = [pushing EXCEPT ![t] = [to |-> <<"rx", h>>, packet |-> p]]
  <2> DEFINE v == [to |-> <<"rx", h>>, packet |-> p]
  <2>1. /\ rx'[h] = queue /\ v.packet = p
        /\ \A x \in Hosts : x # h => rx'[x] = rx[x]
    BY <1>1, <1>3
  <2>2. \A x \in Places \ Pushes : Holds'[x] \subseteq M[x]
    BY <1>2, <2>1 DEF AllBut
  <2>3. pushing' = [pushing EXCEPT ![t] = v]
    BY <1>3
  <2> HIDE DEF v
  <2>4. /\ Holds'[<<"push", t>>] \subseteq M[<<"push", t>>] \cup {p}
        /\ \A x \in Places \ {<<"push", t>>} : Holds'[x] \subseteq M[x]
    BY <2>1, <2>2, <2>3, ThreadGains DEF AllBut
  <2> QED BY <2>1, <2>4, PlacesAre DEF OneMore
<1>4. CASE rx' = [rx EXCEPT ![h] = Append(queue, p)] /\ UNCHANGED pushing
  <2>1. rx'[h] = Append(queue, p) /\ \A x \in Hosts : x # h => rx'[x] = rx[x]
    BY <1>1, <1>4
  <2>2. Once(rx'[h], Packet) /\ ToSet(rx'[h]) = ToSet(queue) \cup {p}
    BY <2>1, OnceAppend
  <2>3. \A x \in Pushes : Holds'[x] \subseteq M[x]
    BY <1>4, PushesAre DEF AllBut
  <2> HIDE DEF s
  <2>4. Holds'[s] \subseteq M[s] \cup {p} /\ \A x \in Places \ {s} : Holds'[x] \subseteq M[x]
    BY <1>2, <2>2, <2>3 DEF s, AllBut
  <2> QED BY <1>1, <2>1, <2>2, <2>4 DEF s, OneMore
<1> QED BY <1>3, <1>4 DEF PushRx

(* The handlers of the host a packet is for are given a copy that counts,  *)
(* kept at s; M is what the places hold without it, before the answer, if  *)
(* there is one, is pushed.                                                *)
LEMMA ReceiveOnce ==
  ASSUME OnceInv, NEW u \in Threads, NEW h \in Hosts, NEW p \in Packet,
         NEW queue \in Seq(Packet),
         Receive(u, h, p, queue), Once(queue, Packet),
         NEW s \in Places, p.dst = h => p \in Holds[s],
         NEW M, Within(M), p.dst = h => p \notin M[s],
         M[<<"tx", h>>] = ToSet(queue), AllBut(M, <<"tx", h>>)
  PROVE  /\ HandledTypes'
         /\ Once(tx'[h], Packet)
         /\ Apart(Holds', Ended', sent')
<1> DEFINE t == <<"tx", h>>
<1>1. /\ OwnInv /\ Apart(Holds, Ended, sent) /\ HandledTypes /\ sent \in Nat /\ t \in Places
      /\ tx \in [Hosts -> Seq(Packet)] /\ Ended \subseteq Packet
      /\ \A x \in Places : M[x] \subseteq Packet
      /\ Holds'[t] = ToSet(tx'[h])
  BY OnceFacts, PlacesAre, HoldsNext DEF HoldsWhat, Within
<1>2. ASSUME tx'[h] = queue, UNCHANGED pushing
      PROVE  \A x \in Places : Holds'[x] \subseteq M[x]
  BY <1>1, <1>2, PushesAre DEF AllBut
<1>3. CASE p.dst # h
  <2>1. UNCHANGED <<handled, sent, pushing>> /\ tx'[h] = queue
    BY <1>1, <1>3 DEF Receive
  <2>2. \A x \in Places : Holds'[x] \subseteq Holds[x]
    BY <1>2, <2>1 DEF Within
  <2>3. Apart(Holds', Ended, sent) /\ Ended' = Ended
    BY <1>1, <2>1, <2>2, ApartLess DEF Ended
  <2> QED BY <1>1, <2>1, <2>3 DEF HandledTypes
<1>4. CASE p.dst = h
  <2>1. p \notin Ended
    BY <1>1, <1>4 DEF Apart
  <2>2. <<h, p>> \notin DOMAIN handled
    BY <2>1 DEF Ended
  <2>3. handled' = handled (+) SetToBag({<<h, p>>})
    BY <1>4 DEF Receive
  <2>4. /\ DOMAIN handled' = DOMAIN handled \cup {<<h, p>>}
        /\ \A x \in DOMAIN handled' : handled'[x] = 1
    <3>1. \A y \in DOMAIN handled : handled[y] = 1
      BY <1>1 DEF HandledTypes
    <3> QED BY <2>2, <2>3, <3>1, HandledOneMore
  <2>5. HandledTypes'
    BY <1>1, <1>4, <2>4 DEF HandledTypes
  <2>6. Ended' = Ended \cup {p}
    <3>1. <<h, p>>[2] = p
      OBVIOUS
    <3> DEFINE x == <<h, p>>
    <3>2. Ended' = {y[2] : y \in DOMAIN handled \cup {x}}
      BY <2>4 DEF Ended
    <3> HIDE DEF x
    <3>3. {y[2] : y \in DOMAIN handled \cup {x}} = {y[2] : y \in DOMAIN handled} \cup {x[2]}
      OBVIOUS
    <3> QED BY <3>1, <3>2, <3>3 DEF x, Ended
  <2>7. Apart(M, Ended', sent)
    BY <1>1, <1>4, <2>6, ApartHandle DEF Within
  <2>8. CASE tx' = [tx EXCEPT ![h] = queue] /\ UNCHANGED <<pushing, sent>>
    <3>1. tx'[h] = queue
      BY <1>1, <2>8
    <3>2. \A x \in Places : Holds'[x] \subseteq M[x]
      BY <1>2, <2>8, <3>1
    <3> QED BY <2>5, <2>7, <2>8, <3>1, <3>2, ApartLess
  <2>9. CASE p.kind = "ask" /\ PushTx(u, h, queue, Reply(p)) /\ sent' = sent + 1
    <3> DEFINE r == Reply(p)
    <3>1. r \in Packet /\ r.kind = "answer" /\ r.id = p.id /\ Asked(r) = p
      BY <2>9, AskReply, AskedReply
    <3>2. PushTx(u, h, queue, r)
      BY <2>9
    <3> HIDE DEF r
    <3>3. r \notin Ended'
      BY <1>1, <2>1, <2>6, <2>9, <3>1 DEF Apart, Known
    <3>4. \A x \in Places : r \notin M[x]
      BY <1>1, <2>1, <3>1 DEF Apart, Known, Within
    <3>5. p.id <= sent /\ p.id \in Nat
      BY <1>1, <1>4 DEF Apart, Known, Packet
    <3>6. r.id <= sent + 1 /\ Asked(r) \in Ended'
      BY <1>1, <2>6, <3>1, <3>5
    <3>7. r \notin ToSet(queue)
      BY <1>1, <3>4
    <3>8. /\ Once(tx'[h], Packet)
          /\ OneMore(M, r, <<"tx", h>>) \/ OneMore(M, r, <<"push", u>>)
      BY <1>1, <3>1, <3>2, <3>7, PushTxGains
    <3>9. Ended' \subseteq Packet
      BY <2>5, EndedPackets, <1>1, <2>6
    <3>10. PICK g \in Places : OneMore(M, r, g)
      BY <3>8 DEF OneMore
    <3>11. Apart(Holds', Ended', sent + 1)
      BY <1>1, <2>7, <3>3, <3>4, <3>6, <3>9, <3>10, ApartCreate DEF OneMore
    <3> QED BY <2>5, <2>9, <3>8, <3>11
  <2> QED BY <2>8, <2>9 DEF Receive
<1> QED BY <1>3, <1>4

(* What a push does to the queues it is not for.                           *)
LEMMA PushOthers ==
  ASSUME OwnInv, NEW t, NEW h \in Hosts, NEW queue, NEW p,
         PushTx(t, h, queue, p) \/ Receive(t, h, p, queue)
  PROVE  \A x \in Hosts : x # h => tx'[x] = tx[x]
  BY DEF PushTx, Receive, OwnInv, PacketInv, PacketTypes

LEMMA OnceSend ==
  ASSUME OnceInv, NEW u \in Threads, NEW f \in Traffic, Send(u, f[1], f[2])
  PROVE  OnceCore'
<1> DEFINE h == f[1]
<1> DEFINE p == Ask(sent + 1, h, f[2])
<1> DEFINE t == <<"tx", h>>
<1>1. h \in Hosts /\ f[2] \in Hosts /\ t \in Places
  BY TrafficAssumption, PlacesAre
<1>2. p \in Packet /\ p.id = sent + 1 /\ p.kind = "ask"
  BY <1>1, OnceFacts, AskIsPacket
<1>3. PushTx(u, h, tx[h], p) /\ sent' = sent + 1
      /\ UNCHANGED <<rx, routing, who, sock, held, wire, handled>>
  BY DEF Send, conns, writers
<1> HIDE DEF p, h
<1>4. p \notin Ended /\ \A x \in Places : p \notin Holds[x]
  BY <1>2, OnceFacts DEF Apart, Known
<1>5. /\ tx[h] \in Seq(Packet) /\ Once(tx[h], Packet) /\ Holds[t] = ToSet(tx[h])
      /\ p \notin ToSet(tx[h]) /\ OwnInv
  BY <1>1, <1>4, OnceFacts, HoldsNow DEF HoldsWhat
<1>6. \A x \in Hosts : (x # h => tx'[x] = tx[x]) /\ (x # h => rx'[x] = rx[x])
  BY <1>1, <1>3, <1>5, PushOthers
<1>7. /\ AllBut(Holds, <<"tx", h>>)
      /\ \A e \in Ends : Due(e)' = Due(e)
  <2>1. Holds'[<<"rx", h>>] = Holds[<<"rx", h>>]
    BY <1>1, <1>3, HoldsNow, HoldsNext DEF HoldsWhat
  <2>2. /\ \A e \in Ends : Due(e)' = Due(e)
        /\ \A x \in Places : \/ x \in {<<"tx", h>>, <<"rx", h>>} \/ x \in Pushes
                            \/ Holds'[x] = Holds[x]
                            \/ \E e \in Ends : x = <<"wire", e>> /\ wire'[e] # wire[e]
    BY <1>1, <1>3, <1>6, HostFrame
  <2> QED BY <1>3, <2>1, <2>2 DEF AllBut
<1>8. /\ Once(tx'[h], Packet)
      /\ OneMore(Holds, p, <<"tx", h>>) \/ OneMore(Holds, p, <<"push", u>>)
  BY <1>1, <1>2, <1>3, <1>5, <1>7, PushTxGains
<1>9. Apart(Holds', Ended, sent + 1)
  <2>1. p.id <= sent + 1 /\ (p.kind = "answer" => Asked(p) \in Ended)
    BY <1>2, OnceFacts
  <2>2. /\ sent \in Nat /\ Ended \subseteq Packet /\ Apart(Holds, Ended, sent)
        /\ \A x \in Places : Holds[x] \subseteq Packet
    BY OnceFacts
  <2>3. PICK g \in Places : OneMore(Holds, p, g)
    BY <1>8 DEF OneMore
  <2> QED BY <1>4, <2>1, <2>2, <2>3, ApartCreate DEF OneMore
<1>10. QueuesOnce'
  BY <1>3, <1>6, <1>7, <1>8, OnceFacts DEF QueuesOnce
<1> QED BY <1>3, <1>9, <1>10, OnceFacts DEF OnceCore, Ended, HandledTypes

LEMMA OnceTransmitHere ==
  ASSUME OnceInv, NEW u \in Threads, NEW h \in Hosts, TransmitHere(u, h)
  PROVE  OnceCore'
<1> DEFINE t == <<"tx", h>>
<1> DEFINE p == Head(tx[h])
<1> DEFINE queue == Tail(tx[h])
<1> DEFINE M == [x \in Places |-> IF x = t THEN ToSet(queue) ELSE Holds[x]]
<1>1. /\ t \in Places /\ t \notin Pushes
      /\ tx[h] \in Seq(Packet) /\ tx[h] # <<>> /\ Once(tx[h], Packet)
      /\ Holds[t] = ToSet(tx[h])
  BY PlacesAre, OnceFacts, HoldsNow DEF HoldsWhat, TransmitHere
<1>2. p \in Packet /\ queue \in Seq(Packet)
  BY <1>1, HeadTail
<1>3. Once(queue, Packet) /\ ToSet(queue) \subseteq Holds[t] /\ p \in Holds[t]
      /\ p \notin ToSet(queue)
  BY <1>1, <1>2, OnceTail
<1>4. Receive(u, h, p, queue) /\ UNCHANGED <<rx, routing, who, sock, held, wire>>
  BY DEF TransmitHere, conns, writers
<1>5. \A x \in Hosts : (x # h => tx'[x] = tx[x]) /\ (x # h => rx'[x] = rx[x])
  BY <1>4, OnceFacts, PushOthers
<1>6. /\ \A x \in Places \ Pushes : x # t => Holds'[x] = Holds[x]
      /\ \A e \in Ends : Due(e)' = Due(e)
  <2>1. Holds'[<<"rx", h>>] = Holds[<<"rx", h>>]
    BY <1>4, HoldsNow, HoldsNext DEF HoldsWhat
  <2>2. /\ \A e \in Ends : Due(e)' = Due(e)
        /\ \A x \in Places : \/ x \in {<<"tx", h>>, <<"rx", h>>} \/ x \in Pushes
                            \/ Holds'[x] = Holds[x]
                            \/ \E e \in Ends : x = <<"wire", e>> /\ wire'[e] # wire[e]
    BY <1>4, <1>5, HostFrame
  <2> QED BY <1>4, <2>1, <2>2
<1>7. /\ Within(M) /\ AllBut(M, t)
      /\ M[t] = ToSet(queue) /\ p \notin M[t]
  BY <1>1, <1>3, <1>6 DEF Places, Within, AllBut
<1> HIDE DEF p, queue, M
<1>8. /\ HandledTypes' /\ Once(tx'[h], Packet)
      /\ Apart(Holds', Ended', sent')
  BY <1>1, <1>2, <1>3, <1>4, <1>7, ReceiveOnce
<1>9. QueuesOnce'
  BY <1>4, <1>5, <1>6, <1>8, OnceFacts DEF QueuesOnce
<1> QED BY <1>8, <1>9 DEF OnceCore

LEMMA OnceClientReads ==
  ASSUME OnceInv, NEW k \in Joins, ClientReads(k)
  PROVE  OnceCore'
<1> DEFINE e == <<k, "server">>
<1> DEFINE h == who[k]
<1> DEFINE u == Asio(h)
<1> DEFINE s == <<"wire", e>>
<1> DEFINE p == Head(wire[e])
<1> DEFINE rest == Tail(wire[e])
<1> DEFINE M == [x \in Places |-> IF x = s THEN ToSet(rest) \cap Due(e) ELSE Holds[x]]
<1>1. /\ e \in Ends /\ s \in Places /\ s \notin Pushes
      /\ wire[e] \in Seq(Packet) /\ wire[e] # <<>>
      /\ Once(wire[e], Due(e)) /\ Holds[s] = ToSet(wire[e]) \cap Due(e)
  BY PlacesAre, OnceFacts, HoldsNow DEF HoldsWhat, ClientReads, Ends
<1>2. p \in Packet /\ rest \in Seq(Packet)
  BY <1>1, HeadTail
<1>3. h \in Hosts /\ <<"tx", h>> \in Places /\ tx[h] \in Seq(Packet) /\ Once(tx[h], Packet)
      /\ Holds[<<"tx", h>>] = ToSet(tx[h]) /\ u \in Threads
  <2>1. h \in Hosts
    BY <1>1, ReadHosts DEF OnceInv, Hosts
  <2> QED BY <2>1, PlacesAre, OnceFacts, HoldsNow, AsioThread DEF HoldsWhat
<1>4. p.dst = h => p \in Due(e)
  BY <1>2 DEF Due
<1>5. /\ Once(rest, Due(e)) /\ ToSet(rest) \subseteq ToSet(wire[e])
      /\ p \in ToSet(wire[e]) /\ (p \in Due(e) => p \notin ToSet(rest))
  BY <1>1, OnceTail
<1>6. Receive(u, h, p, tx[h]) /\ UNCHANGED <<rx, routing, who, sock, held>>
      /\ wire' = [wire EXCEPT ![e] = rest]
  BY DEF ClientReads, Deliver, conns
<1> HIDE DEF h, p, e, rest, u
<1>7. \A x \in Hosts : (x # h => tx'[x] = tx[x]) /\ (x # h => rx'[x] = rx[x])
  BY <1>3, <1>6, OnceFacts, PushOthers
<1>8. wire'[e] = rest /\ \A x \in Ends : x # e => wire'[x] = wire[x]
  BY <1>1, <1>6, OnceFacts
<1>9. /\ Holds'[s] = ToSet(rest) \cap Due(e)
      /\ \A x \in Places \ Pushes : x \notin {<<"tx", h>>, s} => Holds'[x] = Holds[x]
      /\ \A x \in Ends : Due(x)' = Due(x)
  <2>1. Holds'[<<"rx", h>>] = Holds[<<"rx", h>>]
    BY <1>3, <1>6, HoldsNow, HoldsNext DEF HoldsWhat
  <2>2. /\ \A x \in Ends : Due(x)' = Due(x)
        /\ \A x \in Ends : Holds'[<<"wire", x>>] = ToSet(wire'[x]) \cap Due(x)
        /\ \A x \in Places : \/ x \in {<<"tx", h>>, <<"rx", h>>} \/ x \in Pushes
                            \/ Holds'[x] = Holds[x]
                            \/ \E y \in Ends : x = <<"wire", y>> /\ wire'[y] # wire[y]
    BY <1>3, <1>6, <1>7, HostFrame
  <2> QED BY <1>1, <1>8, <2>1, <2>2
<1>10. /\ Within(M) /\ AllBut(M, <<"tx", h>>)
       /\ M[<<"tx", h>>] = ToSet(tx[h]) /\ (p.dst = h => p \notin M[s])
       /\ (p.dst = h => p \in Holds[s])
  <2>1. <<"tx", h>> # s /\ Pushes \subseteq Places
    BY DEF Places
  <2> HIDE DEF s
  <2> QED BY <1>1, <1>3, <1>4, <1>5, <1>9, <2>1 DEF Within, AllBut
<1> HIDE DEF M, s
<1>11. /\ HandledTypes' /\ Once(tx'[h], Packet)
       /\ Apart(Holds', Ended', sent')
  BY <1>1, <1>2, <1>3, <1>6, <1>10, ReceiveOnce
<1>12. QueuesOnce'
  BY <1>5, <1>6, <1>7, <1>8, <1>9, <1>11, OnceFacts DEF QueuesOnce
<1> QED BY <1>11, <1>12 DEF OnceCore

(* A packet that is taken from one place is pushed to another.             *)
LEMMA ApartPush ==
  ASSUME NEW M, NEW D, NEW n, NEW p, NEW s \in Places, Apart(Holds, D, n),
         p \in Holds[s], p \notin M[s], Within(M), NEW g, g # s, OneMore(M, p, g)
  PROVE  Apart(Holds', D, n)
<1>1. p \notin Holds'[s] /\ Holds'[g] \subseteq Holds[g] \cup {p} /\ g \in Places
  BY DEF Within, OneMore
<1>2. \A x \in Places \ {g} : Holds'[x] \subseteq Holds[x]
  BY DEF Within, OneMore
<1> QED BY <1>1, <1>2, ApartMove

LEMMA OnceTransmitLink ==
  ASSUME OnceInv, NEW u \in Threads, NEW h \in Hosts, TransmitLink(u, h)
  PROVE  OnceCore'
<1> DEFINE s == <<"tx", h>>
<1> DEFINE p == Head(tx[h])
<1> DEFINE g == p.dst
<1> DEFINE t == <<"rx", g>>
<1> DEFINE rest == Tail(tx[h])
<1> DEFINE M == [x \in Places |-> IF x = s THEN ToSet(rest) ELSE Holds[x]]
<1>1. /\ s \in Places /\ s \notin Pushes
      /\ tx[h] \in Seq(Packet) /\ tx[h] # <<>> /\ Once(tx[h], Packet)
      /\ Holds[s] = ToSet(tx[h])
  BY PlacesAre, OnceFacts, HoldsNow DEF HoldsWhat, TransmitLink
<1>2. p \in Packet /\ rest \in Seq(Packet) /\ Once(rest, Packet)
      /\ ToSet(rest) \subseteq Holds[s] /\ p \in Holds[s] /\ p \notin ToSet(rest)
  BY <1>1, HeadTail, OnceTail
<1>3. g \in Hosts
  BY <1>2 DEF Packet
<1>4. /\ t \in Places /\ s # t /\ rx[g] \in Seq(Packet) /\ Once(rx[g], Packet)
      /\ Holds[t] = ToSet(rx[g])
  BY <1>3, PlacesAre, OnceFacts, HoldsNow DEF HoldsWhat
<1>5. /\ OwnInv /\ Apart(Holds, Ended, sent)
      /\ p \notin ToSet(rx[g])
  BY <1>1, <1>2, <1>4, OnceFacts DEF Apart
<1>6. /\ tx' = [tx EXCEPT ![h] = rest] /\ PushRx(u, g, rx[g], p)
      /\ UNCHANGED <<routing, who, sock, held, wire, handled, sent>>
  BY DEF TransmitLink, conns, writers
<1> HIDE DEF p, g, rest
<1>7. /\ tx'[h] = rest
      /\ \A x \in Hosts : (x # h => tx'[x] = tx[x]) /\ (x # g => rx'[x] = rx[x])
  BY <1>3, <1>6, OnceFacts DEF PushRx
<1>8. /\ Holds'[s] = ToSet(rest)
      /\ \A x \in Places \ Pushes : x \notin {s, t} => Holds'[x] = Holds[x]
      /\ \A e \in Ends : Due(e)' = Due(e)
  <2>1. /\ \A e \in Ends : Due(e)' = Due(e)
        /\ Holds'[s] = ToSet(tx'[h])
        /\ \A x \in Places : \/ x \in {s, t} \/ x \in Pushes
                            \/ Holds'[x] = Holds[x]
                            \/ \E e \in Ends : x = <<"wire", e>> /\ wire'[e] # wire[e]
    BY <1>3, <1>6, <1>7, HostFrame
  <2> QED BY <1>6, <1>7, <2>1
<1> HIDE DEF s
<1>9. /\ Within(M) /\ AllBut(M, t)
      /\ M[t] = ToSet(rx[g]) /\ p \notin M[s]
  BY <1>1, <1>2, <1>4, <1>8 DEF Places, Within, AllBut
<1> HIDE DEF M
<1>10. /\ Once(rx'[g], Packet)
       /\ OneMore(M, p, <<"rx", g>>) \/ OneMore(M, p, <<"push", u>>)
  BY <1>2, <1>3, <1>4, <1>5, <1>6, <1>9, PushRxGains
<1>11. PICK y : y \in {t, <<"push", u>>} /\ OneMore(M, p, y)
  BY <1>10
<1>12. y # s
  BY <1>1, <1>4, <1>11, PlacesAre
<1>13. Apart(Holds', Ended, sent)
  BY <1>1, <1>2, <1>5, <1>9, <1>11, <1>12, ApartPush
<1>14. QueuesOnce'
  BY <1>2, <1>3, <1>6, <1>7, <1>8, <1>10, OnceFacts DEF QueuesOnce
<1> QED BY <1>6, <1>13, <1>14, OnceFacts DEF OnceCore, Ended, HandledTypes

LEMMA OnceServerReads ==
  ASSUME OnceInv, NEW k \in Joins, ServerReads(k)
  PROVE  OnceCore'
<1> DEFINE e == <<k, "client">>
<1> DEFINE u == Asio(Hub)
<1> DEFINE s == <<"wire", e>>
<1> DEFINE t == <<"rx", Hub>>
<1> DEFINE p == Head(wire[e])
<1> DEFINE rest == Tail(wire[e])
<1> DEFINE M == [x \in Places |-> IF x = s THEN ToSet(rest) \cap Due(e) ELSE Holds[x]]
<1>1. /\ e \in Ends /\ s \in Places /\ s \notin Pushes
      /\ wire[e] \in Seq(Packet) /\ wire[e] # <<>>
      /\ Once(wire[e], Due(e)) /\ Holds[s] = ToSet(wire[e]) \cap Due(e)
      /\ Due(e) = Packet
  <2>1. e \in Ends /\ wire[e] # <<>>
    BY DEF ServerReads, Ends
  <2>2. Due(e) = Packet
    BY DEF Due
  <2> QED BY <2>1, <2>2, PlacesAre, OnceFacts, HoldsNow DEF HoldsWhat
<1>2. /\ p \in Packet /\ rest \in Seq(Packet) /\ Once(rest, Due(e))
      /\ ToSet(rest) \subseteq ToSet(wire[e]) /\ p \in ToSet(wire[e])
      /\ p \notin ToSet(rest)
  BY <1>1, HeadTail, OnceTail
<1>3. /\ Hub \in Hosts /\ t \in Places /\ s # t /\ rx[Hub] \in Seq(Packet)
      /\ Once(rx[Hub], Packet) /\ Holds[t] = ToSet(rx[Hub]) /\ u \in Threads
  <2>1. Hub \in Hosts
    BY DEF Hosts
  <2> QED BY <2>1, PlacesAre, OnceFacts, HoldsNow, AsioThread DEF HoldsWhat
<1>4. OwnInv /\ Apart(Holds, Ended, sent) /\ p \notin ToSet(rx[Hub]) /\ p \in Holds[s]
  BY <1>1, <1>2, <1>3, OnceFacts DEF Apart
<1>5. /\ wire' = [wire EXCEPT ![e] = rest] /\ PushRx(u, Hub, rx[Hub], p)
      /\ UNCHANGED <<tx, routing, who, sock, held, handled, sent>>
  BY DEF ServerReads, conns
<1> HIDE DEF p, e, rest, u
<1>6. /\ wire'[e] = rest
      /\ \A x \in Hosts : (x # Hub => tx'[x] = tx[x]) /\ (x # Hub => rx'[x] = rx[x])
      /\ \A x \in Ends : x # e => wire'[x] = wire[x]
  BY <1>1, <1>3, <1>5, OnceFacts DEF PushRx
<1>7. /\ Holds'[s] = ToSet(rest) \cap Due(e)
      /\ \A x \in Places \ Pushes : x \notin {s, t} => Holds'[x] = Holds[x]
      /\ \A x \in Ends : Due(x)' = Due(x)
  <2>1. Holds'[<<"tx", Hub>>] = Holds[<<"tx", Hub>>]
    BY <1>3, <1>5, HoldsNow, HoldsNext DEF HoldsWhat
  <2>2. /\ \A x \in Ends : Due(x)' = Due(x)
        /\ \A x \in Ends : Holds'[<<"wire", x>>] = ToSet(wire'[x]) \cap Due(x)
        /\ \A x \in Places : \/ x \in {<<"tx", Hub>>, <<"rx", Hub>>} \/ x \in Pushes
                            \/ Holds'[x] = Holds[x]
                            \/ \E y \in Ends : x = <<"wire", y>> /\ wire'[y] # wire[y]
    BY <1>3, <1>5, <1>6, HostFrame
  <2> QED BY <1>1, <1>6, <2>1, <2>2
<1> HIDE DEF s
<1>8. /\ Within(M) /\ AllBut(M, t)
      /\ M[t] = ToSet(rx[Hub]) /\ p \notin M[s]
  BY <1>1, <1>2, <1>3, <1>7 DEF Places, Within, AllBut
<1> HIDE DEF M
<1>9. /\ Once(rx'[Hub], Packet)
      /\ OneMore(M, p, <<"rx", Hub>>) \/ OneMore(M, p, <<"push", u>>)
  BY <1>2, <1>3, <1>4, <1>5, <1>8, PushRxGains
<1>10. PICK y : y \in {t, <<"push", u>>} /\ OneMore(M, p, y)
  BY <1>9
<1>11. y # s
  BY <1>1, <1>3, <1>10, PlacesAre
<1>12. Apart(Holds', Ended, sent)
  BY <1>1, <1>4, <1>8, <1>10, <1>11, ApartPush
<1>13. QueuesOnce'
  BY <1>2, <1>5, <1>6, <1>7, <1>9, OnceFacts DEF QueuesOnce
<1> QED BY <1>5, <1>12, <1>13, OnceFacts DEF OnceCore, Ended, HandledTypes

LEMMA OnceReceiveService ==
  ASSUME OnceInv, NEW u \in Threads, NEW h \in Hosts, ReceiveService(u, h)
  PROVE  OnceCore'
<1> DEFINE s == <<"rx", h>>
<1> DEFINE t == <<"tx", h>>
<1> DEFINE p == Head(rx[h])
<1> DEFINE rest == Tail(rx[h])
<1> DEFINE M == [x \in Places |-> IF x = s THEN ToSet(rest) ELSE Holds[x]]
<1>1. /\ s \in Places /\ t \in Places /\ s # t /\ s \notin Pushes /\ OwnInv
      /\ rx[h] \in Seq(Packet) /\ rx[h] # <<>> /\ Once(rx[h], Packet)
      /\ Holds[s] = ToSet(rx[h]) /\ Holds[t] = ToSet(tx[h])
      /\ tx[h] \in Seq(Packet) /\ Once(tx[h], Packet)
  BY PlacesAre, OnceFacts, HoldsNow DEF HoldsWhat, ReceiveService
<1>2. p \in Packet /\ rest \in Seq(Packet) /\ Once(rest, Packet)
      /\ ToSet(rest) \subseteq Holds[s] /\ p \in Holds[s] /\ p \notin ToSet(rest)
  BY <1>1, HeadTail, OnceTail
<1>3. /\ rx' = [rx EXCEPT ![h] = rest]
      /\ UNCHANGED <<routing, who, sock, held, wire>>
      /\ \/ Receive(u, h, p, tx[h])
         \/ PushTx(u, h, tx[h], p) /\ UNCHANGED <<handled, sent>>
  BY DEF ReceiveService, conns, writers
<1> HIDE DEF p, rest
<1>4. rx'[h] = rest /\ \A x \in Hosts : x # h => rx'[x] = rx[x]
  BY <1>3, OnceFacts
<1>5. \A x \in Hosts : x # h => tx'[x] = tx[x]
  BY <1>1, <1>3, PushOthers
<1>6. /\ Holds'[s] = ToSet(rest)
      /\ \A x \in Places \ Pushes : x \notin {s, t} => Holds'[x] = Holds[x]
      /\ \A e \in Ends : Due(e)' = Due(e)
  <2>1. /\ \A e \in Ends : Due(e)' = Due(e)
        /\ Holds'[s] = ToSet(rx'[h])
        /\ \A x \in Places : \/ x \in {t, s} \/ x \in Pushes
                            \/ Holds'[x] = Holds[x]
                            \/ \E e \in Ends : x = <<"wire", e>> /\ wire'[e] # wire[e]
    BY <1>3, <1>4, <1>5, HostFrame
  <2> QED BY <1>3, <1>4, <2>1
<1>7. ASSUME Once(tx'[h], Packet), HandledTypes', Apart(Holds', Ended', sent')
      PROVE  OnceCore'
  <2>1. QueuesOnce'
    BY <1>2, <1>3, <1>4, <1>5, <1>6, <1>7, OnceFacts DEF QueuesOnce
  <2> QED BY <1>7, <2>1 DEF OnceCore
<1>8. /\ Within(M) /\ AllBut(M, t)
      /\ M[t] = ToSet(tx[h]) /\ p \notin M[s]
  <2> HIDE DEF s, t
  <2> QED BY <1>1, <1>2, <1>6 DEF Places, Within, AllBut
<1> HIDE DEF M, s
<1>9. CASE Receive(u, h, p, tx[h])
  <2>1. HandledTypes' /\ Once(tx'[h], Packet) /\ Apart(Holds', Ended', sent')
    BY <1>1, <1>2, <1>8, <1>9, ReceiveOnce
  <2> QED BY <1>7, <2>1
<1>10. CASE PushTx(u, h, tx[h], p) /\ UNCHANGED <<handled, sent>>
  <2>1. Apart(Holds, Ended, sent) /\ p \notin ToSet(tx[h])
    BY <1>1, <1>2, OnceFacts DEF Apart
  <2>2. /\ Once(tx'[h], Packet)
        /\ OneMore(M, p, <<"tx", h>>) \/ OneMore(M, p, <<"push", u>>)
    BY <1>1, <1>2, <1>8, <1>10, <2>1, PushTxGains
  <2>3. PICK y : y \in {t, <<"push", u>>} /\ OneMore(M, p, y)
    BY <2>2
  <2>4. y # s
    BY <1>1, <2>3, PlacesAre
  <2>5. Apart(Holds', Ended, sent)
    BY <1>1, <1>2, <1>8, <2>1, <2>3, <2>4, ApartPush
  <2>6. HandledTypes' /\ Ended' = Ended
    BY <1>10, OnceFacts DEF HandledTypes, Ended
  <2> QED BY <1>7, <1>10, <2>2, <2>5, <2>6
<1> QED BY <1>3, <1>9, <1>10

(* Of the writers parked on a queue, at most one is that of a connection   *)
(* over which the packet may still reach the host it is for.               *)
LEMMA OneWoken ==
  ASSUME OnceInv, NEW h \in Hosts, NEW p \in Packet,
         NEW d \in Parked(h), NEW e \in Parked(h),
         p \in Due(d), sock[ClientEnd(d[1])] = "open",
         p \in Due(e), sock[ClientEnd(e[1])] = "open"
  PROVE  d = e
<1>1. /\ d \in Ends /\ e \in Ends /\ HostOf(d) = h /\ HostOf(e) = h
      /\ ~Unmade(d[1]) /\ ~Unmade(e[1])
  BY DEF Parked, OnceInv, OwnInv, PacketInv, Fresh
<1>2. who[d[1]] \in Clients /\ who[e[1]] \in Clients /\ Hub \notin Clients
  BY <1>1, EndsOf, AddressAssumption
     DEF OnceInv, OwnInv, PacketInv, WriterInv, WriterTypes, Unmade
<1>3. who[d[1]] = who[e[1]] /\ d[2] = e[2]
  BY <1>1, <1>2, EndsOf DEF HostOf, Due
<1>4. d[1] = e[1]
  BY <1>1, <1>3, EndsOf DEF OnceInv, OneOpen
<1> QED BY <1>1, <1>3, <1>4, EndsOf

(* The places after a step that leaves tx, rx and the connections alone.   *)
LEMMA EndFrame ==
  ASSUME UNCHANGED <<who, sock>>
  PROVE  /\ \A e \in Ends : Due(e)' = Due(e)
         /\ \A h \in Hosts : /\ Holds'[<<"tx", h>>] = ToSet(tx'[h])
                             /\ Holds'[<<"rx", h>>] = ToSet(rx'[h])
                             /\ Holds'[<<"routing", h>>] = ToSet(routing'[h])
         /\ \A e \in Ends :
              /\ Holds'[<<"held", e>>] = (IF sock[ClientEnd(e[1])] = "open"
                                         THEN Due(e) \cap {held'[e]} ELSE {})
              /\ Holds'[<<"wire", e>>] = ToSet(wire'[e]) \cap Due(e)
<1>1. \A e \in Ends : Due(e)' = Due(e)
  BY DEF Due
<1> QED BY <1>1, HoldsNext DEF HoldsWhat, Carried

LEMMA OnceTransmitRoute ==
  ASSUME OnceInv, NEW u \in Threads, NEW h \in Hosts,
         TransmitRoute(u, h)
  PROVE  OnceCore'
<1> DEFINE s == <<"tx", h>>
<1> DEFINE p == Head(tx[h])
<1> DEFINE rest == Tail(tx[h])
<1>1. /\ s \in Places /\ tx[h] \in Seq(Packet) /\ tx[h] # <<>> /\ Once(tx[h], Packet)
      /\ Holds[s] = ToSet(tx[h])
  BY PlacesAre, OnceFacts, HoldsNow DEF HoldsWhat, TransmitRoute
<1>2. p \in Packet /\ rest \in Seq(Packet) /\ Once(rest, Packet)
      /\ ToSet(rest) \subseteq Holds[s] /\ p \in Holds[s] /\ p \notin ToSet(rest)
  BY <1>1, HeadTail, OnceTail
<1>3. /\ tx' = [tx EXCEPT ![h] = rest] /\ Route(h, p)
      /\ UNCHANGED <<rx, pushing, who, sock, wire, handled, sent>>
  BY DEF TransmitRoute, conns, threads
<1> HIDE DEF p, rest
<1>4. tx'[h] = rest /\ \A x \in Hosts : x # h => tx'[x] = tx[x]
  BY <1>3, OnceFacts
<1>5. HandledTypes' /\ Ended' = Ended /\ Apart(Holds, Ended, sent)
  BY <1>3, OnceFacts DEF HandledTypes, Ended
<1>6. /\ Holds'[s] = ToSet(rest)
      /\ \A x \in Hosts : /\ (x # h => Holds'[<<"tx", x>>] = Holds[<<"tx", x>>])
                          /\ Holds'[<<"rx", x>>] = Holds[<<"rx", x>>]
      /\ \A e \in Ends : /\ Holds'[<<"wire", e>>] = Holds[<<"wire", e>>]
                         /\ Due(e)' = Due(e)
  <2>1. /\ Holds'[s] = ToSet(tx'[h])
        /\ \A x \in Hosts : /\ Holds'[<<"tx", x>>] = ToSet(tx'[x])
                            /\ Holds'[<<"rx", x>>] = ToSet(rx'[x])
        /\ \A e \in Ends : /\ Holds'[<<"wire", e>>] = ToSet(wire'[e]) \cap Due(e)
                           /\ Due(e)' = Due(e)
    BY <1>3, EndFrame
  <2>2. rx' = rx /\ wire' = wire
    BY <1>3
  <2>3. /\ \A x \in Hosts : /\ Holds[<<"tx", x>>] = ToSet(tx[x])
                             /\ Holds[<<"rx", x>>] = ToSet(rx[x])
        /\ \A e \in Ends : Holds[<<"wire", e>>] = ToSet(wire[e]) \cap Due(e)
    BY HoldsNow DEF HoldsWhat
  <2>4. Holds'[s] = ToSet(rest)
    BY <1>4, <2>1
  <2>5. ASSUME NEW x \in Hosts
        PROVE  /\ (x # h => Holds'[<<"tx", x>>] = Holds[<<"tx", x>>])
               /\ Holds'[<<"rx", x>>] = Holds[<<"rx", x>>]
    <3>1. x # h => tx'[x] = tx[x]
      BY <1>4
    <3> QED BY <2>1, <2>2, <2>3, <3>1
  <2>6. ASSUME NEW e \in Ends
        PROVE  Holds'[<<"wire", e>>] = Holds[<<"wire", e>>] /\ Due(e)' = Due(e)
    BY <2>1, <2>2, <2>3
  <2> QED BY <2>4, <2>5, <2>6
<1> DEFINE same == \A x \in Threads : Holds'[<<"push", x>>] \subseteq Holds[<<"push", x>>]
<1>9. same
  BY <1>3, PushesStay
<1>7. CASE Parked(h) = {}
  <2> DEFINE t == <<"routing", h>>
  <2>1. routing' = [routing EXCEPT ![h] = Append(routing[h], p)] /\ UNCHANGED held
    BY <1>3, <1>7 DEF Route
  <2>2. /\ t \in Places /\ s # t /\ routing[h] \in Seq(Packet) /\ Once(routing[h], Packet)
        /\ Holds[t] = ToSet(routing[h])
    BY PlacesAre, OnceFacts, HoldsNow DEF HoldsWhat
  <2>3. p \notin ToSet(routing[h])
    BY <1>1, <1>2, <1>5, <2>2 DEF Apart
  <2>4. Once(Append(routing[h], p), Packet)
        /\ ToSet(Append(routing[h], p)) = Holds[t] \cup {p}
    BY <1>2, <2>2, <2>3, OnceAppend
  <2>5. routing'[h] = Append(routing[h], p) /\ \A x \in Hosts : x # h => routing'[x] = routing[x]
    BY <2>1, OnceFacts
  <2>6. /\ Holds'[t] = Holds[t] \cup {p}
        /\ \A x \in Hosts : x # h => Holds'[<<"routing", x>>] = Holds[<<"routing", x>>]
        /\ \A e \in Ends : Holds'[<<"held", e>>] = Holds[<<"held", e>>]
    <3>1. /\ Holds'[t] = ToSet(routing'[h])
          /\ \A x \in Hosts : Holds'[<<"routing", x>>] = ToSet(routing'[x])
          /\ \A e \in Ends : Holds'[<<"held", e>>] = Carried(e)
      BY <1>3, <2>1, EndFrame DEF Carried
    <3>2. /\ \A x \in Hosts : Holds[<<"routing", x>>] = ToSet(routing[x])
          /\ \A e \in Ends : Holds[<<"held", e>>] = Carried(e)
      BY HoldsNow DEF HoldsWhat
    <3>3. Holds'[t] = Holds[t] \cup {p}
      BY <2>4, <2>5, <3>1
    <3> QED BY <2>5, <3>1, <3>2, <3>3
  <2>7. \A x \in Places \ {t} : Holds'[x] \subseteq Holds[x]
    <3>1. \A x \in Hosts : /\ Holds'[<<"tx", x>>] \subseteq Holds[<<"tx", x>>]
                          /\ Holds'[<<"rx", x>>] \subseteq Holds[<<"rx", x>>]
                          /\ (<<"routing", x>> \notin {t}
                                => Holds'[<<"routing", x>>] \subseteq Holds[<<"routing", x>>])
      BY <1>2, <1>6, <2>6
    <3>2. \A e \in Ends : /\ Holds'[<<"held", e>>] \subseteq Holds[<<"held", e>>]
                         /\ Holds'[<<"wire", e>>] \subseteq Holds[<<"wire", e>>]
      BY <1>6, <2>6
    <3> QED BY <1>9, <3>1, <3>2, PlaceByPlace
  <2>8. p \notin Holds'[s] /\ Holds'[t] \subseteq Holds[t] \cup {p} /\ t \in Places /\ s # t
    BY <1>2, <1>6, <2>2, <2>6
  <2> HIDE DEF s, t
  <2>9. Apart(Holds', Ended, sent)
    BY <1>1, <1>2, <1>5, <2>7, <2>8, ApartMove
  <2>10. QueuesOnce'
    BY <1>2, <1>3, <1>4, <1>6, <2>4, <2>5, OnceFacts DEF QueuesOnce
  <2> QED BY <1>3, <1>5, <2>9, <2>10 DEF OnceCore
<1>8. CASE UNCHANGED routing /\ Wake(h, p)
  <2> DEFINE live == {e \in Parked(h) : p \in Due(e) /\ sock[ClientEnd(e[1])] = "open"}
  <2>1. held' = [e \in Ends |-> IF e \in Parked(h) THEN p ELSE held[e]]
    BY <1>8 DEF Wake
  <2>2. \A e \in Ends : /\ (e \notin live => Holds'[<<"held", e>>] \subseteq Holds[<<"held", e>>])
                       /\ (e \in live => Holds'[<<"held", e>>] \subseteq {p})
    <3> SUFFICES ASSUME NEW e \in Ends
                 PROVE  /\ (e \notin live => Holds'[<<"held", e>>] \subseteq Holds[<<"held", e>>])
                        /\ (e \in live => Holds'[<<"held", e>>] \subseteq {p})
      OBVIOUS
    <3>1. Holds'[<<"held", e>>] = (IF sock[ClientEnd(e[1])] = "open"
                                  THEN Due(e) \cap {held'[e]} ELSE {})
      BY <1>3, EndFrame
    <3>2. Holds[<<"held", e>>] = (IF sock[ClientEnd(e[1])] = "open"
                                 THEN Due(e) \cap {held[e]} ELSE {})
      BY HoldsNow DEF HoldsWhat, Carried
    <3> QED BY <2>1, <3>1, <3>2
  <2>3. \A x \in Hosts : Holds'[<<"routing", x>>] = Holds[<<"routing", x>>]
    BY <1>3, <1>8, EndFrame, HoldsNow DEF HoldsWhat
  <2>4. \A x \in Hosts : /\ Holds'[<<"tx", x>>] \subseteq Holds[<<"tx", x>>]
                        /\ Holds'[<<"rx", x>>] \subseteq Holds[<<"rx", x>>]
                        /\ Holds'[<<"routing", x>>] \subseteq Holds[<<"routing", x>>]
    BY <1>2, <1>6, <2>3
  <2>5. Apart(Holds', Ended, sent)
    <3>1. CASE live = {}
      <4>1. \A e \in Ends : /\ Holds'[<<"held", e>>] \subseteq Holds[<<"held", e>>]
                           /\ Holds'[<<"wire", e>>] \subseteq Holds[<<"wire", e>>]
        BY <1>6, <2>2, <3>1
      <4>2. \A x \in Places \ {} : Holds'[x] \subseteq Holds[x]
        BY <1>9, <2>4, <4>1, PlaceByPlace
      <4> QED BY <1>5, <4>2, ApartLess
    <3>2. CASE live # {}
      <4>1. PICK e \in Parked(h) : p \in Due(e) /\ sock[ClientEnd(e[1])] = "open"
        BY <3>2
      <4>2. \A d \in live : d = e
        BY <1>2, <4>1, OneWoken
      <4>3. e \in Ends /\ e \in live
        BY <4>1 DEF Parked
      <4> DEFINE t == <<"held", e>>
      <4>4. t \in Places /\ s # t /\ Holds'[t] \subseteq Holds[t] \cup {p}
        BY <2>2, <4>3, PlacesAre
      <4> HIDE DEF live
      <4>5. \A x \in Places \ {t} : Holds'[x] \subseteq Holds[x]
        <5>1. ASSUME NEW d \in Ends, <<"held", d>> \notin {t}
              PROVE  Holds'[<<"held", d>>] \subseteq Holds[<<"held", d>>]
          <6>1. d # e
            BY <5>1
          <6>2. d \notin live
            BY <4>2, <6>1
          <6> QED BY <2>2, <6>2
        <5>2. \A d \in Ends : Holds'[<<"wire", d>>] \subseteq Holds[<<"wire", d>>]
          BY <1>6
        <5> HIDE DEF t
        <5> QED BY <1>9, <2>4, <5>1, <5>2, PlaceByPlace
      <4>6. p \notin Holds'[s]
        BY <1>2, <1>6
      <4> HIDE DEF s, t
      <4> QED BY <1>1, <1>2, <1>5, <4>4, <4>5, <4>6, ApartMove
    <3> QED BY <3>1, <3>2
  <2>6. QueuesOnce'
    BY <1>2, <1>3, <1>4, <1>6, <1>8, OnceFacts DEF QueuesOnce
  <2> QED BY <1>3, <1>5, <2>5, <2>6 DEF OnceCore
<1> QED BY <1>3, <1>7, <1>8 DEF Route

LEMMA OnceWriterRuns ==
  ASSUME OnceInv, NEW e \in Ends, WriterRuns(e)
  PROVE  OnceCore'
<1> DEFINE h == HostOf(e)
<1> DEFINE s == <<"routing", h>>
<1> DEFINE t == <<"held", e>>
<1> DEFINE w == <<"wire", e>>
<1> DEFINE p == held[e]
<1> DEFINE M == [x \in Places |-> IF x = t THEN {} ELSE
                                  IF x = w THEN Holds'[w] ELSE Holds[x]]
<1>1. /\ h \in Hosts /\ p \in Packet \cup {NoPacket} /\ wire[e] \in Seq(Packet)
      /\ \/ UNCHANGED wire
         \/ Written(e) /\ p \in Packet /\ wire' = [wire EXCEPT ![e] = Append(wire[e], p)]
      /\ \/ held' = [held EXCEPT ![e] = NoPacket] /\ UNCHANGED routing
         \/ /\ routing[h] # <<>> /\ held' = [held EXCEPT ![e] = Head(routing[h])]
            /\ routing' = [routing EXCEPT ![h] = Tail(@)]
      /\ UNCHANGED <<tx, rx, pushing, who, sock, handled, sent>>
  BY WriterDoes DEF OnceInv, conns, threads
<1>2. /\ s \in Places /\ t \in Places /\ w \in Places
      /\ Apart(Holds, Ended, sent)
      /\ routing[h] \in Seq(Packet) /\ Once(routing[h], Packet)
      /\ Once(wire[e], Due(e))
      /\ Holds[s] = ToSet(routing[h]) /\ Holds[w] = ToSet(wire[e]) \cap Due(e)
      /\ Holds[t] = Carried(e)
  BY <1>1, PlacesAre, OnceFacts, HoldsNow DEF HoldsWhat
<1>3. s # t /\ s # w /\ t # w
  OBVIOUS
<1>13. \A x \in Threads : Holds'[<<"push", x>>] \subseteq M[<<"push", x>>]
  BY <1>1, PushesStay, PlacesAre
<1>4. NoPacket \notin Packet
  BY AskReply
<1>5. Holds'[w] = ToSet(wire'[e]) \cap Due(e) /\ \A x \in Ends : Due(x)' = Due(x)
  BY <1>1, EndFrame
<1>6. \A x \in Ends \ {e} : wire'[x] = wire[x] /\ held'[x] = held[x]
  <2> SUFFICES ASSUME NEW x \in Ends, x # e
               PROVE  wire'[x] = wire[x] /\ held'[x] = held[x]
    OBVIOUS
  <2>1. wire \in [Ends -> Seq(Packet)] /\ held \in [Ends -> Packet \cup {NoPacket}]
    BY DEF OnceInv, OwnInv, PacketInv, PacketTypes
  <2>2. wire'[x] = wire[x]
    BY <1>1, <2>1
  <2>3. held'[x] = held[x]
    BY <1>1, <2>1
  <2> QED BY <2>2, <2>3
<1>7. Written(e) => sock[ClientEnd(e[1])] = "open"
  <2>1. ClientEnd(e[1]) \in {e, Other(e)}
    BY EndsOf DEF ClientEnd, Other
  <2> QED BY <2>1 DEF Written
<1> HIDE DEF s, t, w, h, p
<1>8. Once(wire'[e], Due(e)) /\ Apart(M, Ended, sent)
  <2>1. CASE UNCHANGED wire
    <3>1. \A x \in Places : M[x] \subseteq Holds[x]
      BY <1>2, <1>5, <2>1
    <3> HIDE DEF M
    <3> QED BY <1>2, <2>1, <3>1, ApartLess
  <2>2. CASE Written(e) /\ p \in Packet /\ wire' = [wire EXCEPT ![e] = Append(wire[e], p)]
    <3>1. wire'[e] = Append(wire[e], p)
      BY <2>2, OnceFacts
    <3>2. p \in Due(e) => p \in Holds[t]
      BY <1>2, <1>7, <2>2 DEF Carried, p
    <3>3. p \in Due(e) => p \notin ToSet(wire[e])
      BY <1>2, <1>3, <3>2 DEF Apart
    <3>4. Once(wire'[e], Due(e)) /\ ToSet(wire'[e]) = ToSet(wire[e]) \cup {p}
      BY <1>1, <1>2, <2>2, <3>1, <3>3, OnceAppend
    <3>5. CASE p \in Due(e)
      <4>1. /\ M[w] \subseteq Holds[w] \cup {p} /\ p \notin M[t]
            /\ \A x \in Places \ {w} : M[x] \subseteq Holds[x]
        BY <1>2, <1>3, <1>5, <3>4
      <4> HIDE DEF M
      <4> QED BY <1>2, <1>3, <3>2, <3>4, <3>5, <4>1, ApartMove
    <3>6. CASE p \notin Due(e)
      <4>1. \A x \in Places : M[x] \subseteq Holds[x]
        BY <1>2, <1>5, <3>4, <3>6
      <4> HIDE DEF M
      <4> QED BY <1>2, <3>4, <4>1, ApartLess
    <3> QED BY <3>5, <3>6
  <2> QED BY <1>1, <2>1, <2>2
<1>9. /\ \A x \in Hosts : /\ Holds'[<<"tx", x>>] = Holds[<<"tx", x>>]
                          /\ Holds'[<<"rx", x>>] = Holds[<<"rx", x>>]
                          /\ Holds'[<<"routing", x>>] = ToSet(routing'[x])
      /\ \A x \in Ends \ {e} : /\ Holds'[<<"held", x>>] = Holds[<<"held", x>>]
                               /\ Holds'[<<"wire", x>>] = Holds[<<"wire", x>>]
      /\ Holds'[t] \subseteq Packet \cap {held'[e]}
  <2>1. /\ \A x \in Hosts : /\ Holds'[<<"tx", x>>] = ToSet(tx'[x])
                            /\ Holds'[<<"rx", x>>] = ToSet(rx'[x])
                            /\ Holds'[<<"routing", x>>] = ToSet(routing'[x])
        /\ \A x \in Ends :
             /\ Holds'[<<"held", x>>] = (IF sock[ClientEnd(x[1])] = "open"
                                        THEN Due(x) \cap {held'[x]} ELSE {})
             /\ Holds'[<<"wire", x>>] = ToSet(wire'[x]) \cap Due(x)
    BY <1>1, EndFrame
  <2>2. \A x \in Hosts : /\ Holds'[<<"tx", x>>] = Holds[<<"tx", x>>]
                        /\ Holds'[<<"rx", x>>] = Holds[<<"rx", x>>]
    BY <1>1, <2>1, HoldsNow DEF HoldsWhat
  <2>3. \A x \in Ends \ {e} : /\ Holds'[<<"held", x>>] = Holds[<<"held", x>>]
                             /\ Holds'[<<"wire", x>>] = Holds[<<"wire", x>>]
    <3> SUFFICES ASSUME NEW x \in Ends, x # e
                 PROVE  /\ Holds'[<<"held", x>>] = Holds[<<"held", x>>]
                        /\ Holds'[<<"wire", x>>] = Holds[<<"wire", x>>]
      OBVIOUS
    <3>1. wire'[x] = wire[x] /\ held'[x] = held[x]
      BY <1>6
    <3>2. Holds[<<"held", x>>] = Carried(x)
          /\ Holds[<<"wire", x>>] = ToSet(wire[x]) \cap Due(x)
      BY HoldsNow DEF HoldsWhat
    <3> QED BY <2>1, <3>1, <3>2 DEF Carried
  <2>4. Due(e) \subseteq Packet
    BY DEF Due
  <2> QED BY <2>1, <2>2, <2>3, <2>4 DEF t
<1>10. /\ Apart(Holds', Ended, sent)
       /\ \A x \in Hosts : Once(routing'[x], Packet)
  <2>1. CASE held' = [held EXCEPT ![e] = NoPacket] /\ UNCHANGED routing
    <3>1. held'[e] = NoPacket
      BY <2>1 DEF OnceInv, OwnInv, PacketInv, PacketTypes
    <3>2. \A x \in Hosts : /\ Holds'[<<"tx", x>>] \subseteq Holds[<<"tx", x>>]
                          /\ Holds'[<<"rx", x>>] \subseteq Holds[<<"rx", x>>]
                          /\ Holds'[<<"routing", x>>] \subseteq Holds[<<"routing", x>>]
      BY <1>9, <2>1, HoldsNow DEF HoldsWhat
    <3>3. \A x \in Hosts : /\ Holds'[<<"tx", x>>] \subseteq M[<<"tx", x>>]
                          /\ Holds'[<<"rx", x>>] \subseteq M[<<"rx", x>>]
                          /\ Holds'[<<"routing", x>>] \subseteq M[<<"routing", x>>]
      BY <3>2, PlacesAre DEF t, w
    <3>4. \A x \in Ends : /\ Holds'[<<"held", x>>] \subseteq M[<<"held", x>>]
                         /\ Holds'[<<"wire", x>>] \subseteq M[<<"wire", x>>]
      BY <1>4, <1>9, <3>1, PlacesAre DEF t, w
    <3>5. \A x \in Places \ {} : Holds'[x] \subseteq M[x]
      BY <1>13, <3>3, <3>4, PlaceByPlace
    <3> HIDE DEF M
    <3> QED BY <1>8, <2>1, <3>5, ApartLess, OnceFacts
  <2>2. CASE /\ routing[h] # <<>> /\ held' = [held EXCEPT ![e] = Head(routing[h])]
             /\ routing' = [routing EXCEPT ![h] = Tail(@)]
    <3> DEFINE r == Head(routing[h])
    <3>1. /\ Once(Tail(routing[h]), Packet) /\ r \in ToSet(routing[h]) /\ r \in Packet
          /\ ToSet(Tail(routing[h])) \subseteq ToSet(routing[h])
          /\ r \notin ToSet(Tail(routing[h]))
      BY <1>2, <2>2, HeadTail, OnceTail
    <3>2. held'[e] = r
      BY <2>2 DEF OnceInv, OwnInv, PacketInv, PacketTypes
    <3> HIDE DEF r
    <3>3. routing'[h] = Tail(routing[h]) /\ \A x \in Hosts : x # h => routing'[x] = routing[x]
      BY <1>1, <2>2, OnceFacts
    <3>4. /\ Holds'[s] = ToSet(Tail(routing[h]))
          /\ \A x \in Hosts : Holds'[<<"routing", x>>] \subseteq Holds[<<"routing", x>>]
      <4>1. \A x \in Hosts : Holds'[<<"routing", x>>] = ToSet(routing'[x])
        BY <1>9
      <4>2. \A x \in Hosts : Holds[<<"routing", x>>] = ToSet(routing[x])
        BY HoldsNow DEF HoldsWhat
      <4>3. \A x \in Hosts : ToSet(routing'[x]) \subseteq ToSet(routing[x])
        BY <3>1, <3>3
      <4>4. Holds'[<<"routing", h>>] = ToSet(routing'[h])
        BY <1>1, <4>1
      <4>5. Holds'[s] = ToSet(Tail(routing[h]))
        BY <3>3, <4>4 DEF s
      <4> QED BY <4>1, <4>2, <4>3, <4>5
    <3>5. \A x \in Hosts : /\ Holds'[<<"tx", x>>] \subseteq M[<<"tx", x>>]
                          /\ Holds'[<<"rx", x>>] \subseteq M[<<"rx", x>>]
                          /\ Holds'[<<"routing", x>>] \subseteq M[<<"routing", x>>]
      BY <1>9, <3>4, PlacesAre DEF t, w
    <3>6. \A x \in Ends : /\ (<<"held", x>> \notin {t}
                              => Holds'[<<"held", x>>] \subseteq M[<<"held", x>>])
                         /\ Holds'[<<"wire", x>>] \subseteq M[<<"wire", x>>]
      BY <1>9, PlacesAre DEF t, w
    <3>7. M[s] = ToSet(routing[h]) /\ M[t] = {}
      BY <1>2, <1>3
    <3> HIDE DEF M
    <3>8. \A x \in Places \ {t} : Holds'[x] \subseteq M[x]
      BY <1>13, <3>5, <3>6, PlaceByPlace
    <3>9. r \in M[s] /\ r \notin Holds'[s] /\ Holds'[t] \subseteq M[t] \cup {r}
      BY <1>9, <3>1, <3>2, <3>4, <3>7
    <3>10. Apart(Holds', Ended, sent)
      BY <1>2, <1>3, <1>8, <3>8, <3>9, ApartMove
    <3> QED BY <3>1, <3>3, <3>10, OnceFacts
  <2> QED BY <1>1, <2>1, <2>2
<1>11. QueuesOnce'
  BY <1>1, <1>5, <1>6, <1>8, <1>10, OnceFacts DEF QueuesOnce
<1>12. HandledTypes' /\ Ended' = Ended
  BY <1>1, OnceFacts DEF HandledTypes, Ended
<1> QED BY <1>1, <1>10, <1>11, <1>12 DEF OnceCore

(* A step at the ends of connections that loses copies at most.            *)
LEMMA OnceEnds ==
  ASSUME OnceInv, UNCHANGED <<queues, pushing, handled, sent>>,
         \A e \in Ends : /\ Carried(e)' \subseteq Carried(e)
                        /\ \/ wire'[e] = <<>>
                           \/ wire'[e] = wire[e] /\ Due(e)' = Due(e)
  PROVE  OnceCore'
<1>1. ToSet(<<>>) = {} /\ \A S : Once(<<>>, S)
  BY DEF ToSet, Once
<1>2. \A x \in Hosts : /\ Holds'[<<"tx", x>>] \subseteq Holds[<<"tx", x>>]
                      /\ Holds'[<<"rx", x>>] \subseteq Holds[<<"rx", x>>]
                      /\ Holds'[<<"routing", x>>] \subseteq Holds[<<"routing", x>>]
  BY HoldsNow, HoldsNext DEF HoldsWhat, queues
<1>3. \A e \in Ends : /\ Holds'[<<"held", e>>] \subseteq Holds[<<"held", e>>]
                     /\ Holds'[<<"wire", e>>] \subseteq Holds[<<"wire", e>>]
  <2> SUFFICES ASSUME NEW e \in Ends
               PROVE  /\ Holds'[<<"held", e>>] \subseteq Holds[<<"held", e>>]
                      /\ Holds'[<<"wire", e>>] \subseteq Holds[<<"wire", e>>]
    OBVIOUS
  <2>1. /\ Holds[<<"held", e>>] = Carried(e) /\ Holds'[<<"held", e>>] = Carried(e)'
        /\ Holds[<<"wire", e>>] = ToSet(wire[e]) \cap Due(e)
        /\ Holds'[<<"wire", e>>] = ToSet(wire'[e]) \cap Due(e)'
    BY HoldsNow, HoldsNext DEF HoldsWhat
  <2> QED BY <1>1, <2>1
<1>4. \A x \in Places \ {} : Holds'[x] \subseteq Holds[x]
  BY <1>2, <1>3, PushesStay, PlaceByPlace
<1>5. Apart(Holds', Ended, sent)
  BY <1>4, ApartLess, OnceFacts
<1>6. QueuesOnce'
  <2>1. \A e \in Ends : Once(wire[e], Due(e))'
    BY <1>1, OnceFacts
  <2>2. \A h \in Hosts : (/\ Once(tx[h], Packet) /\ Once(rx[h], Packet)
                         /\ Once(routing[h], Packet))'
    BY OnceFacts DEF queues
  <2> QED BY <2>1, <2>2 DEF QueuesOnce
<1> QED BY <1>5, <1>6, OnceFacts DEF OnceCore, Ended, HandledTypes

LEMMA OnceJoin ==
  ASSUME OnceInv, NEW c \in Clients, NEW k \in Joins, Join(c, k)
  PROVE  OnceCore'
<1>1. /\ who[k] = NoHost /\ who' = [who EXCEPT ![k] = c]
      /\ UNCHANGED <<queues, pushing, held, wire, handled, sent>>
  BY DEF Join, threads
<1>2. who \in [Joins -> Clients \cup {NoHost}]
  BY DEF OnceInv, OwnInv, PacketInv, WriterInv, WriterTypes
<1>3. ASSUME NEW e \in Ends
      PROVE  /\ Carried(e)' \subseteq Carried(e)
             /\ \/ wire'[e] = <<>>
                \/ wire'[e] = wire[e] /\ Due(e)' = Due(e)
  <2>1. CASE e[1] = k
    <3>1. held[e] = NoPacket /\ wire[e] = <<>>
      BY <1>1, <2>1 DEF OnceInv, OwnInv, PacketInv, Fresh, Unmade
    <3>2. NoPacket \notin Packet /\ Due(e)' \subseteq Packet
      BY AskReply DEF Due
    <3> QED BY <1>1, <3>1, <3>2 DEF Carried
  <2>2. CASE e[1] # k
    <3>1. Due(e)' = Due(e)
      BY <1>1, <1>2, <2>2, EndsOf DEF Due
    <3>2. sock'[ClientEnd(e[1])] = sock[ClientEnd(e[1])]
      BY <2>2, EndsOf DEF Join, Started, ClientEnd, Ends
    <3> QED BY <1>1, <3>1, <3>2 DEF Carried
  <2> QED BY <2>1, <2>2
<1> QED BY <1>1, <1>3, OnceEnds

LEMMA OnceStops ==
  ASSUME OnceInv, (\E k \in Joins : ServerStops(k) \/ ClientStops(k)) \/ HubStops
  PROVE  OnceCore'
<1>1. UNCHANGED <<queues, pushing, who, handled, sent>>
  BY DEF ServerStops, ClientStops, HubStops, threads
<1>2. \A e \in Ends : wire'[e] \in {wire[e], <<>>}
  BY DEF ServerStops, ClientStops, HubStops, Cut, OnceInv, OwnInv, PacketInv, PacketTypes
<1>3. \A e \in Ends : held'[e] \in {held[e], NoPacket}
  BY DEF ServerStops, ClientStops, HubStops, Dropped, OnceInv, OwnInv, PacketInv, PacketTypes
<1>4. \A e \in Ends : sock'[e] = "open" => sock[e] = "open"
  BY DEF ServerStops, ClientStops, HubStops, OnceInv, OwnInv, PacketInv, WriterInv, WriterTypes
<1>5. ASSUME NEW e \in Ends
      PROVE  /\ Carried(e)' \subseteq Carried(e)
             /\ \/ wire'[e] = <<>>
                \/ wire'[e] = wire[e] /\ Due(e)' = Due(e)
  <2>1. Due(e)' = Due(e) /\ NoPacket \notin Due(e)
    BY <1>1, AskReply DEF Due
  <2>2. ClientEnd(e[1]) \in Ends
    BY EndsOf DEF ClientEnd, Ends
  <2> QED BY <1>2, <1>3, <1>4, <2>1, <2>2 DEF Carried
<1> QED BY <1>1, <1>5, OnceEnds

(* The second half of a push: what the thread held is in the queue, or in  *)
(* no place.                                                               *)
LEMMA OnceBroadcast ==
  ASSUME OnceInv, NEW u \in Threads, Broadcast(u)
  PROVE  OnceCore'
<1> DEFINE g == pushing[u].to
<1> DEFINE h == g[2]
<1> DEFINE p == pushing[u].packet
<1> DEFINE s == <<"push", u>>
<1>1. /\ p \in Packet /\ h \in Hosts /\ g = <<g[1], h>>
      /\ pushing' = [pushing EXCEPT ![u] = NoPush]
      /\ UNCHANGED <<routing, who, sock, held, wire, handled, sent>>
      /\ \/ g[1] = "tx" /\ tx' = [tx EXCEPT ![h] = <<p>> \o tx[h]] /\ UNCHANGED rx
         \/ g[1] = "rx" /\ rx' = [rx EXCEPT ![h] = <<p>> \o rx[h]] /\ UNCHANGED tx
         \/ UNCHANGED <<tx, rx>>
  BY BroadcastDoes, OnceFacts DEF conns, writers
<1>2. s \in Places /\ s \in Pushes /\ Holds[s] = {p}
  <2>1. Holds[s] = Pushed(u)
    BY PushesAre
  <2>2. Packet \cap {p} = {p}
    BY <1>1
  <2> QED BY <2>1, <2>2, PlacesAre DEF Pushed
<1>3. /\ Holds'[s] = {}
      /\ \A x \in Threads : x # u => Holds'[<<"push", x>>] = Holds[<<"push", x>>]
  <2>1. pushing'[u] = NoPush /\ \A x \in Threads : x # u => pushing'[x] = pushing[x]
    BY <1>1, OnceFacts, OwnTypes DEF PushTypes
  <2>2. NoPacket \notin Packet /\ NoPush.packet = NoPacket
    BY AskReply DEF NoPush
  <2>3. Pushed(u)' = {}
    BY <2>1, <2>2 DEF Pushed
  <2>4. \A x \in Threads : x # u => Pushed(x)' = Pushed(x)
    BY <2>1 DEF Pushed
  <2> QED BY <2>3, <2>4, PushesAre
<1> HIDE DEF p, h, g
<1>4. /\ tx[h] \in Seq(Packet) /\ rx[h] \in Seq(Packet)
      /\ Once(tx[h], Packet) /\ Once(rx[h], Packet)
      /\ Holds[<<"tx", h>>] = ToSet(tx[h]) /\ Holds[<<"rx", h>>] = ToSet(rx[h])
      /\ <<"tx", h>> \in Places /\ <<"rx", h>> \in Places
      /\ s # <<"tx", h>> /\ s # <<"rx", h>>
  BY <1>1, <1>2, OnceFacts, HoldsNow, PlacesAre DEF HoldsWhat
<1>5. p \notin ToSet(tx[h]) /\ p \notin ToSet(rx[h])
  BY <1>2, <1>4, OnceFacts DEF Apart
<1>6. /\ Once(<<p>> \o tx[h], Packet) /\ ToSet(<<p>> \o tx[h]) \subseteq ToSet(tx[h]) \cup {p}
      /\ Once(<<p>> \o rx[h], Packet) /\ ToSet(<<p>> \o rx[h]) \subseteq ToSet(rx[h]) \cup {p}
  BY <1>1, <1>4, <1>5, OncePrepend
<1>7. \A x \in Hosts : (x # h => tx'[x] = tx[x]) /\ (x # h => rx'[x] = rx[x])
  BY <1>1, OnceFacts
<1>8. /\ \A e \in Ends : Due(e)' = Due(e)
      /\ Holds'[<<"tx", h>>] = ToSet(tx'[h])
      /\ Holds'[<<"rx", h>>] = ToSet(rx'[h])
      /\ \A x \in Places : \/ x \in {<<"tx", h>>, <<"rx", h>>} \/ x \in Pushes
                          \/ Holds'[x] = Holds[x]
  <2>1. UNCHANGED <<who, sock, held, routing>> /\ h \in Hosts
    BY <1>1
  <2> QED BY <1>1, <1>7, <2>1, HostFrame
<1>9. \A x \in Places : x \notin {<<"tx", h>>, <<"rx", h>>} => Holds'[x] \subseteq Holds[x]
  <2> SUFFICES ASSUME NEW x \in Pushes PROVE Holds'[x] \subseteq Holds[x]
    BY <1>8
  <2>1. PICK y \in Threads : x = <<"push", y>>
    BY PlacesAre
  <2> QED BY <1>3, <2>1
<1>10. /\ Once(tx'[h], Packet) /\ Once(rx'[h], Packet)
       /\ \/ /\ Holds'[<<"tx", h>>] \subseteq Holds[<<"tx", h>>] \cup {p}
             /\ Holds'[<<"rx", h>>] \subseteq Holds[<<"rx", h>>]
          \/ /\ Holds'[<<"rx", h>>] \subseteq Holds[<<"rx", h>>] \cup {p}
             /\ Holds'[<<"tx", h>>] \subseteq Holds[<<"tx", h>>]
  <2>1. CASE tx' = [tx EXCEPT ![h] = <<p>> \o tx[h]] /\ UNCHANGED rx
    <3>1. tx'[h] = <<p>> \o tx[h] /\ rx'[h] = rx[h]
      BY <1>1, <2>1, OnceFacts
    <3> QED BY <1>4, <1>6, <1>8, <3>1
  <2>2. CASE rx' = [rx EXCEPT ![h] = <<p>> \o rx[h]] /\ UNCHANGED tx
    <3>1. rx'[h] = <<p>> \o rx[h] /\ tx'[h] = tx[h]
      BY <1>1, <2>2, OnceFacts
    <3> QED BY <1>4, <1>6, <1>8, <3>1
  <2>3. CASE UNCHANGED <<tx, rx>>
    BY <1>4, <1>8, <2>3
  <2> QED BY <1>1, <2>1, <2>2, <2>3
<1>11. Apart(Holds', Ended, sent)
  <2>1. PICK y \in {<<"tx", h>>, <<"rx", h>>} :
          /\ Holds'[y] \subseteq Holds[y] \cup {p}
          /\ \A x \in Places \ {y} : Holds'[x] \subseteq Holds[x]
    <3>1. ASSUME NEW y \in {<<"tx", h>>, <<"rx", h>>},
                 \A x \in {<<"tx", h>>, <<"rx", h>>} \ {y} : Holds'[x] \subseteq Holds[x]
          PROVE  \A x \in Places \ {y} : Holds'[x] \subseteq Holds[x]
      BY <1>9, <3>1
    <3> QED BY <1>10, <3>1
  <2>2. y \in Places /\ s # y /\ p \in Holds[s] /\ p \notin Holds'[s]
    BY <1>2, <1>3, <1>4
  <2> HIDE DEF s
  <2> QED BY <1>2, <2>1, <2>2, OnceFacts, ApartMove
<1>12. QueuesOnce'
  BY <1>1, <1>7, <1>8, <1>10, OnceFacts DEF QueuesOnce
<1> QED BY <1>1, <1>11, <1>12, OnceFacts DEF OnceCore, Ended, HandledTypes

LEMMA OnceInit == Init => OnceInv
<1> SUFFICES ASSUME Init PROVE OnceInv
  OBVIOUS
<1>1. ToSet(<<>>) = {} /\ \A S : Once(<<>>, S)
  BY DEF ToSet, Once
<1>2. \A x \in Hosts : /\ Holds[<<"tx", x>>] = {} /\ Holds[<<"rx", x>>] = {}
                      /\ Holds[<<"routing", x>>] = {}
  BY <1>1, HoldsNow DEF HoldsWhat, Init
<1>3. \A e \in Ends : Holds[<<"held", e>>] = {} /\ Holds[<<"wire", e>>] = {}
  <2>1. \A e \in Ends : ClientEnd(e[1]) \in Ends
    BY EndsOf DEF ClientEnd, Ends
  <2> QED BY <1>1, <2>1, HoldsNow DEF HoldsWhat, Init, Carried
<1>10. \A t \in Threads : Holds[<<"push", t>>] = {}
  <2>1. NoPacket \notin Packet /\ NoPush.packet = NoPacket
    BY AskReply DEF NoPush
  <2> QED BY <2>1, PushesAre DEF Init, Pushed
<1>4. \A x \in Places : Holds[x] = {}
  <2> DEFINE N == [x \in Places |-> {}]
  <2>1. /\ \A x \in Hosts : /\ Holds[<<"tx", x>>] \subseteq N[<<"tx", x>>]
                            /\ Holds[<<"rx", x>>] \subseteq N[<<"rx", x>>]
                            /\ Holds[<<"routing", x>>] \subseteq N[<<"routing", x>>]
        /\ \A e \in Ends : /\ Holds[<<"held", e>>] \subseteq N[<<"held", e>>]
                           /\ Holds[<<"wire", e>>] \subseteq N[<<"wire", e>>]
        /\ \A t \in Threads : Holds[<<"push", t>>] \subseteq N[<<"push", t>>]
    BY <1>2, <1>3, <1>10
  <2>2. \A x \in Places : N[x] = {}
    OBVIOUS
  <2> HIDE DEF N
  <2>3. \A x \in Places \ {} : Holds[x] \subseteq N[x]
    BY <2>1, PlaceByPlace
  <2> QED BY <2>2, <2>3
<1>5. handled = EmptyBag /\ DOMAIN EmptyBag = {}
  BY DEF Init, EmptyBag, SetToBag
<1>6. HandledTypes /\ Ended = {}
  BY <1>5 DEF HandledTypes, Ended
<1>7. Apart(Holds, Ended, sent)
  BY <1>4, <1>6 DEF Apart, Known
<1>8. QueuesOnce
  BY <1>1 DEF QueuesOnce, Init
<1>9. OneOpen
  BY DEF OneOpen, Init, Unmade
<1> QED BY <1>6, <1>7, <1>8, <1>9, OwnInit DEF OnceInv, OnceCore

LEMMA OnceStep == OnceInv /\ [Next]_vars => OnceInv'
<1> SUFFICES ASSUME OnceInv, [Next]_vars
             PROVE  OnceInv'
  OBVIOUS
<1>1. OwnInv'
  BY OwnStep DEF OnceInv
<1>2. OneOpen'
  <2>1. CASE UNCHANGED vars
    BY <2>1 DEF vars, conns, OnceInv, OneOpen, Unmade
  <2>2. CASE Next
    BY <2>2, OneOpenStep DEF OnceInv
  <2> QED BY <2>1, <2>2
<1>3. OnceCore'
  <2>1. ASSUME UNCHANGED <<queues, pushing, handled, sent, who, sock, held, wire>>
        PROVE  OnceCore'
    BY <2>1, OnceEnds DEF Carried, Due
  <2>2. CASE UNCHANGED vars
    BY <2>1, <2>2 DEF vars, threads, conns, writers
  <2>3. ASSUME NEW t \in Threads, NEW f \in Traffic, Send(t, f[1], f[2])
        PROVE  OnceCore'
    BY <2>3, OnceSend
  <2>4. ASSUME NEW t \in Threads, NEW h \in Hosts, HostNext(t, h)
        PROVE  OnceCore'
    BY <2>4, OnceTransmitHere, OnceTransmitLink, OnceTransmitRoute, OnceReceiveService
       DEF HostNext
  <2>5. CASE Link
    BY <2>1, <2>5 DEF Link, threads, conns, writers
  <2>6. ASSUME NEW c \in Clients, NEW k \in Joins, Join(c, k)
        PROVE  OnceCore'
    BY <2>6, OnceJoin
  <2>7. ASSUME NEW k \in Joins, ServerReads(k) \/ ClientReads(k)
        PROVE  OnceCore'
    BY <2>7, OnceServerReads, OnceClientReads
  <2>8. ASSUME NEW k \in Joins, ServerStops(k) \/ ClientStops(k)
        PROVE  OnceCore'
    BY <2>8, OnceStops
  <2>9. ASSUME NEW e \in Ends, WriterNext(e)
        PROVE  OnceCore'
    BY <2>1, <2>9, OnceWriterRuns DEF WriterNext, WriterParks, threads, conns
  <2>10. CASE HubStops
    BY <2>10, OnceStops
  <2>11. ASSUME NEW t \in Threads, ThreadNext(t)
         PROVE  OnceCore'
    <3>1. CASE Broadcast(t)
      BY <3>1, OnceBroadcast
    <3>2. CASE ServiceLooks(t) \/ ServiceParks(t)
      BY <2>1, <3>2 DEF ServiceLooks, ServiceParks, conns, writers
    <3> QED BY <2>11, <3>1, <3>2 DEF ThreadNext
  <2> QED
    BY <2>2, <2>3, <2>4, <2>5, <2>6, <2>7, <2>8, <2>9, <2>10, <2>11
    DEF Next
<1> QED BY <1>1, <1>2, <1>3 DEF OnceInv

LEMMA OnceAlways == Spec => []OnceInv
  BY OnceInit, OnceStep, PTL DEF Spec

(* HandledOnce of module Bridge: for any number of clients, connections    *)
(* and packets, whatever the Hub copies to whom, no host is handed a       *)
(* packet twice and none a packet for another.                             *)
THEOREM EveryPacketAtMostOnce == Spec => []HandledOnce
<1>1. OnceInv => HandledOnce
  BY DEF OnceInv, OnceCore, HandledTypes, HandledOnce, BagToSet
<1> QED BY <1>1, OnceAlways, PTL
-----------------------------------------------------------------------------
(* Where a packet is that was sent between the Hub and the one client that *)
(* is joined, while nothing has ended.                                     *)
Alone ==
  /\ Unbroken
  /\ \A j, k \in Joins : ~Unmade(j) /\ ~Unmade(k) => j = k

Opened == \A e \in Ends : ~Unmade(e[1]) => sock[e] # "none"

Emptied == \A e \in Ends : pc[e] \in {"parking", "parked"} => held[e] = NoPacket

Promise(p) ==
  /\ p \in Packet /\ p.src # p.dst
  /\ \E k \in Joins : ~Unmade(k) /\ {p.src, p.dst} = {Hub, who[k]}

AtEnd(p, e) == HostOf(e) = p.src /\ ~Unmade(e[1])
               /\ (held[e] = p \/ p \in ToSet(wire[e]))

PushedTo(p, s) == \E t \in Threads : pushing[t].packet = p /\ pushing[t].to = s
AtTx(p, h) == p \in ToSet(tx[h]) \/ PushedTo(p, <<"tx", h>>)
AtRx(p, h) == p \in ToSet(rx[h]) \/ PushedTo(p, <<"rx", h>>)

Safe(p) ==
  \/ p \in lost
  \/ <<p.dst, p>> \in DOMAIN handled
  \/ AtTx(p, p.src)
  \/ p \in ToSet(routing[p.src])
  \/ AtRx(p, p.dst)
  \/ \E e \in Ends : AtEnd(p, e)

KeptInv ==
  /\ OwnInv /\ Opened /\ Emptied
  /\ \A p \in promised : Promise(p)
  /\ Alone => \A p \in promised : Safe(p)

LEMMA KeptInit == Init => KeptInv
<1> SUFFICES ASSUME Init PROVE KeptInv
  OBVIOUS
<1>1. Opened /\ Emptied /\ promised = {}
  BY EndsOf DEF Init, Opened, Emptied, Unmade
<1> QED BY <1>1, OwnInit DEF KeptInv

(* What a step does to connections and promises.                           *)
LEMMA KeptFrame ==
  ASSUME KeptInv, [Next]_vars
  PROVE  /\ \A k \in Joins : ~Unmade(k) => who'[k] = who[k]
         /\ \A e \in Ends : sock[e] = "closed" => sock'[e] = "closed"
         /\ Opened'
<1> DEFINE Goal == /\ \A k \in Joins : (~Unmade(k) => who'[k] = who[k])
                   /\ \A e \in Ends : (sock[e] = "closed" => sock'[e] = "closed")
                   /\ Opened'
<1>1. /\ who \in [Joins -> Clients \cup {NoHost}]
      /\ sock \in [Ends -> {"none", "open", "closed"}]
      /\ \A e \in Ends : Unmade(e[1]) => sock[e] = "none"
      /\ Opened
  BY DEF KeptInv, OwnInv, PacketInv, WriterInv, WriterTypes, NoneYet
<1>2. CASE UNCHANGED <<who, sock>>
  BY <1>1, <1>2 DEF Opened, Unmade
<1>3. ASSUME NEW c \in Clients, NEW k \in Joins, Join(c, k)
      PROVE  Goal
  <2>1. /\ Unmade(k) /\ who' = [who EXCEPT ![k] = c]
        /\ sock' = [e \in Ends |-> IF e \in {k} \X {"client", "server"} THEN "open" ELSE sock[e]]
    BY <1>3 DEF Join, Started, Unmade
  <2>2. \A e \in Ends : e \in {k} \X {"client", "server"} <=> e[1] = k
    BY EndsOf
  <2>3. \A e \in Ends : /\ (e[1] = k => sock'[e] = "open")
                       /\ (e[1] # k => sock'[e] = sock[e])
    BY <2>1, <2>2
  <2>4. \A j \in Joins : j # k => who'[j] = who[j]
    BY <1>1, <2>1
  <2>5. \A e \in Ends : e[1] \in Joins
    BY EndsOf
  <2>6. \A j \in Joins : ~Unmade(j) => who'[j] = who[j]
    BY <2>1, <2>4
  <2>7. \A e \in Ends : sock[e] = "closed" => sock'[e] = "closed"
    BY <1>1, <2>1, <2>3
  <2>8. Opened'
    BY <1>1, <2>3, <2>4, <2>5 DEF Opened, Unmade
  <2> QED BY <2>6, <2>7, <2>8
<1>4. CASE (\E k \in Joins : ServerStops(k) \/ ClientStops(k)) \/ HubStops
  <2>1. UNCHANGED who /\ \A e \in Ends : sock'[e] \in {sock[e], "closed"}
    BY <1>1, <1>4 DEF ServerStops, ClientStops, HubStops
  <2> QED BY <1>1, <2>1 DEF Opened, Unmade
<1>5. CASE UNCHANGED vars
  BY <1>2, <1>5 DEF vars, conns
<1> QED BY <1>2, <1>3, <1>4, <1>5, ConnsStay

LEMMA AloneBefore == ASSUME KeptInv, [Next]_vars, Alone' PROVE Alone
  BY KeptFrame, NoHostAssumption
     DEF Alone, Unbroken, Unmade, KeptInv, OwnInv, PacketInv, WriterInv, WriterTypes, Hosts

LEMMA PromiseStays ==
  ASSUME KeptInv, [Next]_vars, NEW p, Promise(p)
  PROVE  Promise(p)'
  BY KeptFrame DEF Promise, Unmade

LEMMA AppendItems ==
  ASSUME NEW q \in Seq(Packet), NEW p \in Packet
  PROVE  ToSet(q) \subseteq ToSet(Append(q, p)) /\ p \in ToSet(Append(q, p))
  BY Appended DEF ToSet

(* A thread pushes when it has no push to end, so that none is forgotten.  *)
PushesKept == \A q \in Packet : \A s : PushedTo(q, s) => PushedTo(q, s)'

LEMMA NewPush ==
  ASSUME OwnInv, NEW t \in Threads, pushing[t] = NoPush,
         NEW v, pushing' = [pushing EXCEPT ![t] = v]
  PROVE  PushesKept /\ PushedTo(v.packet, v.to)'
<1>1. pushing'[t] = v /\ \A u \in Threads : u # t => pushing'[u] = pushing[u]
  BY OwnTypes DEF PushTypes
<1>2. \A q \in Packet : pushing[t].packet # q
  BY AskReply DEF NoPush
<1> QED BY <1>1, <1>2 DEF PushesKept, PushedTo

LEMMA NoNewPush == ASSUME UNCHANGED pushing PROVE PushesKept
  BY DEF PushesKept, PushedTo

LEMMA PushTxKeeps ==
  ASSUME OwnInv, NEW t \in Threads, pushing[t] = NoPush, NEW h \in Hosts, NEW p \in Packet,
         NEW queue \in Seq(Packet), PushTx(t, h, queue, p)
  PROVE  /\ PushesKept /\ AtTx(p, h)'
         /\ ToSet(queue) \subseteq ToSet(tx'[h])
         /\ \A g \in Hosts : g # h => tx'[g] = tx[g]
<1>1. tx \in [Hosts -> Seq(Packet)]
  BY OwnTypes DEF OwnInv, PacketInv, PacketTypes
<1>2. CASE /\ tx' = [tx EXCEPT ![h] = queue]
           /\ pushing' = [pushing EXCEPT ![t] = [to |-> <<"tx", h>>, packet |-> p]]
  <2> DEFINE v == [to |-> <<"tx", h>>, packet |-> p]
  <2>1. v.to = <<"tx", h>> /\ v.packet = p /\ pushing' = [pushing EXCEPT ![t] = v]
    BY <1>2
  <2> HIDE DEF v
  <2>2. PushesKept /\ PushedTo(p, <<"tx", h>>)'
    BY <2>1, NewPush
  <2> QED BY <1>1, <1>2, <2>2 DEF AtTx
<1>3. CASE tx' = [tx EXCEPT ![h] = Append(queue, p)] /\ UNCHANGED pushing
  <2>1. tx'[h] = Append(queue, p) /\ \A g \in Hosts : g # h => tx'[g] = tx[g]
    BY <1>1, <1>3
  <2> QED BY <1>3, <2>1, AppendItems, NoNewPush DEF AtTx
<1> QED BY <1>2, <1>3 DEF PushTx

LEMMA PushRxKeeps ==
  ASSUME OwnInv, NEW t \in Threads, pushing[t] = NoPush, NEW h \in Hosts, NEW p \in Packet,
         PushRx(t, h, rx[h], p)
  PROVE  /\ PushesKept /\ AtRx(p, h)'
         /\ \A g \in Hosts : ToSet(rx[g]) \subseteq ToSet(rx'[g])
<1>1. rx \in [Hosts -> Seq(Packet)] /\ rx[h] \in Seq(Packet)
  BY OwnTypes DEF OwnInv, PacketInv, PacketTypes
<1>2. CASE /\ rx' = [rx EXCEPT ![h] = rx[h]]
           /\ pushing' = [pushing EXCEPT ![t] = [to |-> <<"rx", h>>, packet |-> p]]
  <2> DEFINE v == [to |-> <<"rx", h>>, packet |-> p]
  <2>1. v.to = <<"rx", h>> /\ v.packet = p /\ pushing' = [pushing EXCEPT ![t] = v]
    BY <1>2
  <2> HIDE DEF v
  <2>2. PushesKept /\ PushedTo(p, <<"rx", h>>)'
    BY <2>1, NewPush
  <2> QED BY <1>1, <1>2, <2>2 DEF AtRx
<1>3. CASE rx' = [rx EXCEPT ![h] = Append(rx[h], p)] /\ UNCHANGED pushing
  <2>1. rx'[h] = Append(rx[h], p) /\ \A g \in Hosts : g # h => rx'[g] = rx[g]
    BY <1>1, <1>3
  <2>2. ToSet(rx[h]) \subseteq ToSet(rx'[h]) /\ p \in ToSet(rx'[h])
    BY <1>1, <2>1, AppendItems
  <2> QED BY <1>3, <2>1, <2>2, NoNewPush DEF AtRx
<1> QED BY <1>2, <1>3 DEF PushRx

(* Only a Send makes a promise.                                            *)
LEMMA PromisesStep ==
  ASSUME KeptInv, [Next]_vars
  PROVE  /\ \A p \in promised' : Promise(p)'
         /\ \A p \in promised' : p \in promised \/ AtTx(p, p.src)'
<1>1. CASE UNCHANGED promised
  BY <1>1, PromiseStays DEF KeptInv
<1>2. ASSUME NEW t \in Threads, NEW f \in Traffic, Send(t, f[1], f[2])
      PROVE  /\ \A p \in promised' : Promise(p)'
             /\ \A p \in promised' : p \in promised \/ AtTx(p, p.src)'
  <2> DEFINE h == f[1]
  <2> DEFINE d == f[2]
  <2>7. PICK p : p = Ask(sent + 1, h, d)
    OBVIOUS
  <2>1. h \in Hosts /\ d \in Hosts /\ sent \in Nat /\ tx[h] \in Seq(Packet) /\ OwnInv
    BY TrafficAssumption, OwnTypes DEF KeptInv
  <2>2. p \in Packet /\ p.src = h /\ p.dst = d
    BY <2>1, <2>7, AskIsPacket DEF Ask
  <2>3. /\ PushTx(t, h, tx[h], p) /\ pushing[t] = NoPush
        /\ promised' = IF Connected(h, d) THEN promised \cup {p} ELSE promised
    BY <1>2, <2>7 DEF Send, Idle
  <2> HIDE DEF h, d
  <2>4. AtTx(p, h)'
    BY <2>1, <2>2, <2>3, PushTxKeeps
  <2>5. Connected(h, d) => Promise(p)
    <3> SUFFICES ASSUME Connected(h, d) PROVE Promise(p)
      OBVIOUS
    <3>1. PICK k \in Joins : {h, d} = {Hub, who[k]} /\ sock[<<k, "client">>] = "open"
      BY DEF Connected
    <3>2. ~Unmade(k) /\ who[k] \in Clients
      BY <2>1, <3>1, ReadHosts
    <3>3. h # d
      BY <3>1, <3>2, AddressAssumption
    <3> QED BY <2>2, <3>1, <3>2, <3>3 DEF Promise
  <2>6. \A q \in promised' : Promise(q)'
    BY <2>3, <2>5, PromiseStays DEF KeptInv
  <2> QED BY <2>2, <2>3, <2>4, <2>6
<1>3. ASSUME NEW t \in Threads, NEW h \in Hosts, HostNext(t, h) PROVE UNCHANGED promised
  BY <1>3 DEF HostNext, TransmitHere, TransmitLink, TransmitRoute, ReceiveService
<1>4. ASSUME NEW t \in Threads, ThreadNext(t) PROVE UNCHANGED promised
  BY <1>4 DEF ThreadNext, Broadcast, ServiceLooks, ServiceParks
<1>5. ASSUME NEW k \in Joins,
             ServerReads(k) \/ ClientReads(k) \/ ServerStops(k) \/ ClientStops(k)
      PROVE  UNCHANGED promised
  BY <1>5 DEF ServerReads, ClientReads, ServerStops, ClientStops
<1>6. ASSUME NEW e \in Ends, WriterNext(e) PROVE UNCHANGED promised
  BY <1>6 DEF WriterNext, WriterRuns, WriterParks
<1>7. CASE Link \/ HubStops \/ \E c \in Clients, k \in Joins : Join(c, k)
  BY <1>1, <1>7 DEF Link, HubStops, Join
<1>8. CASE UNCHANGED vars
  BY <1>1, <1>8 DEF vars
<1> QED BY <1>1, <1>2, <1>3, <1>4, <1>5, <1>6, <1>7, <1>8 DEF Next

LEMMA EndStays ==
  ASSUME KeptInv, [Next]_vars, NEW e \in Ends, ~Unmade(e[1])
  PROVE  HostOf(e)' = HostOf(e) /\ ~Unmade(e[1])'
  BY KeptFrame, EndsOf DEF HostOf, Unmade

LEMMA TailItems ==
  ASSUME NEW q \in Seq(Packet), q # <<>>, NEW p \in ToSet(q)
  PROVE  p = Head(q) \/ p \in ToSet(Tail(q))
<1>1. Len(q) \in Nat /\ Len(Tail(q)) = Len(q) - 1 /\ Head(q) = q[1]
      /\ \A i \in 1..Len(Tail(q)) : Tail(q)[i] = q[i + 1]
  BY HeadTail
<1>2. PICK i \in 1..Len(q) : p = q[i]
  BY DEF ToSet
<1>3. CASE i = 1
  BY <1>1, <1>2, <1>3
<1>4. CASE i # 1
  <2>1. i - 1 \in 1..Len(Tail(q)) /\ Tail(q)[i - 1] = q[i]
    BY <1>1, <1>4
  <2>2. DOMAIN Tail(q) = 1..Len(Tail(q))
    BY HeadTail
  <2>3. Tail(q)[i - 1] \in ToSet(Tail(q))
    BY <2>1, <2>2 DEF ToSet
  <2> QED BY <1>2, <2>1, <2>3
<1> QED BY <1>3, <1>4

LEMMA PrependItems ==
  ASSUME NEW q \in Seq(Packet), NEW p \in Packet
  PROVE  ToSet(q) \subseteq ToSet(<<p>> \o q) /\ p \in ToSet(<<p>> \o q)
<1> DEFINE r == <<p>> \o q
<1>1. /\ r \in Seq(Packet) /\ Len(q) \in Nat /\ Len(r) = Len(q) + 1 /\ r[1] = p
      /\ \A i \in 1..Len(q) : r[i + 1] = q[i]
  BY Prepended
<1> HIDE DEF r
<1>2. ToSet(q) = {q[i] : i \in 1..Len(q)} /\ ToSet(r) = {r[i] : i \in 1..Len(r)}
  BY <1>1 DEF ToSet
<1>3. p \in ToSet(r) /\ \A i \in 1..Len(q) : i + 1 \in 1..Len(r)
  BY <1>1, <1>2
<1>4. \A i \in 1..Len(q) : q[i] \in ToSet(r)
  BY <1>1, <1>2, <1>3
<1> QED BY <1>2, <1>3, <1>4 DEF r

LEMMA BagGrows ==
  ASSUME NEW B, NEW B2, NEW x, B2 = B (+) SetToBag({x})
  PROVE  DOMAIN B \cup {x} = DOMAIN B2
<1> DEFINE C == SetToBag({x})
<1>1. DOMAIN C = {x}
  BY DEF SetToBag
<1> HIDE DEF C
<1>2. DOMAIN (B (+) C) = DOMAIN B \cup {x}
  BY <1>1 DEF (+)
<1> QED BY <1>2 DEF C

LEMMA ReceiveKeeps ==
  ASSUME OwnInv, NEW t \in Threads, pushing[t] = NoPush, NEW h \in Hosts,
         NEW p \in Packet, NEW queue \in Seq(Packet), Receive(t, h, p, queue)
  PROVE  /\ DOMAIN handled \subseteq DOMAIN handled'
         /\ p.dst = h => <<h, p>> \in DOMAIN handled'
         /\ ToSet(queue) \subseteq ToSet(tx'[h])
         /\ \A g \in Hosts : g # h => tx'[g] = tx[g]
         /\ PushesKept
<1>1. /\ DOMAIN handled \subseteq DOMAIN handled'
      /\ p.dst = h => <<h, p>> \in DOMAIN handled'
  <2>1. CASE p.dst = h
    <3>1. handled' = handled (+) SetToBag({<<h, p>>})
      BY <2>1 DEF Receive
    <3>2. DOMAIN handled \cup {<<h, p>>} = DOMAIN handled'
      BY <3>1, BagGrows
    <3> QED BY <3>2
  <2>2. CASE p.dst # h
    BY <2>2 DEF Receive
  <2> QED BY <2>1, <2>2
<1>2. CASE tx' = [tx EXCEPT ![h] = queue] /\ UNCHANGED pushing
  <2>1. tx'[h] = queue /\ \A g \in Hosts : g # h => tx'[g] = tx[g]
    BY <1>2, OwnTypes DEF OwnInv, PacketInv, PacketTypes
  <2> QED BY <1>1, <1>2, <2>1, NoNewPush
<1>3. CASE PushTx(t, h, queue, Reply(p))
  BY <1>1, <1>3, AskReply, PushTxKeeps
<1> QED BY <1>2, <1>3 DEF Receive

(* What is known of a packet that was promised.                            *)
LEMMA PromisedFacts ==
  ASSUME KeptInv, NEW p \in promised
  PROVE  /\ p \in Packet /\ p.src \in Hosts /\ p.dst \in Hosts /\ p.src # p.dst
         /\ \E k \in Joins : /\ ~Unmade(k) /\ {p.src, p.dst} = {Hub, who[k]}
                            /\ who[k] \in Clients
  BY DEF KeptInv, Promise, Packet, Unmade, OwnInv, PacketInv, WriterInv, WriterTypes

LEMMA SafeUntouched ==
  ASSUME KeptInv, [Next]_vars, NEW p \in promised, Safe(p),
         UNCHANGED <<queues, pushing, lost, held, wire, handled>>
  PROVE  Safe(p)'
  BY EndStays DEF Safe, AtEnd, AtTx, AtRx, PushedTo, queues

LEMMA SafeSend ==
  ASSUME KeptInv, [Next]_vars, NEW p \in promised, Safe(p),
         NEW t \in Threads, NEW f \in Traffic, Send(t, f[1], f[2])
  PROVE  Safe(p)'
<1> DEFINE h == f[1]
<1> DEFINE r == Ask(sent + 1, h, f[2])
<1>1. h \in Hosts /\ r \in Packet /\ tx[h] \in Seq(Packet) /\ OwnInv
  <2>1. h \in Hosts /\ f[2] \in Hosts
    BY TrafficAssumption
  <2>2. sent \in Nat /\ tx[h] \in Seq(Packet)
    BY <2>1, OwnTypes DEF KeptInv
  <2> QED BY <2>1, <2>2, AskIsPacket DEF KeptInv
<1>2. PushTx(t, h, tx[h], r) /\ pushing[t] = NoPush
      /\ UNCHANGED <<rx, routing, lost, held, wire, handled>>
  BY DEF Send, Idle, writers
<1> HIDE DEF r, h
<1>3. /\ PushesKept /\ ToSet(tx[h]) \subseteq ToSet(tx'[h])
      /\ \A g \in Hosts : g # h => tx'[g] = tx[g]
  BY <1>1, <1>2, PushTxKeeps
<1>4. p \in Packet /\ p.src \in Hosts /\ ToSet(tx[p.src]) \subseteq ToSet(tx'[p.src])
  BY <1>3, PromisedFacts
<1> QED BY <1>2, <1>3, <1>4, EndStays DEF Safe, AtEnd, AtTx, AtRx, PushesKept

LEMMA SafeTransmitHere ==
  ASSUME KeptInv, [Next]_vars, NEW p \in promised, Safe(p),
         NEW t \in Threads, NEW h \in Hosts, TransmitHere(t, h)
  PROVE  Safe(p)'
<1>1. /\ tx[h] # <<>> /\ tx[h] \in Seq(Packet) /\ Head(tx[h]).dst = h
      /\ Receive(t, h, Head(tx[h]), Tail(tx[h])) /\ pushing[t] = NoPush
      /\ UNCHANGED <<rx, routing, lost, held, wire>>
  BY OwnTypes DEF KeptInv, TransmitHere, Runs, writers
<1>2. Head(tx[h]) \in Packet /\ Tail(tx[h]) \in Seq(Packet)
  BY <1>1, HeadTail
<1>3. /\ DOMAIN handled \subseteq DOMAIN handled' /\ ToSet(Tail(tx[h])) \subseteq ToSet(tx'[h])
      /\ \A g \in Hosts : g # h => tx'[g] = tx[g]
      /\ PushesKept
  BY <1>1, <1>2, ReceiveKeeps DEF KeptInv
<1>4. p \in ToSet(tx[p.src]) => p \in ToSet(tx'[p.src])
  <2>1. p.src \in Hosts /\ p.src # p.dst
    BY PromisedFacts
  <2>2. CASE p.src = h
    BY <1>1, <1>3, <2>1, <2>2, TailItems
  <2>3. CASE p.src # h
    BY <1>3, <2>1, <2>3
  <2> QED BY <2>2, <2>3
<1>5. p \in Packet
  BY PromisedFacts
<1> QED BY <1>1, <1>3, <1>4, <1>5, EndStays DEF Safe, AtEnd, AtTx, AtRx, PushesKept

LEMMA SafeTransmitLink ==
  ASSUME KeptInv, [Next]_vars, NEW p \in promised, Safe(p),
         NEW t \in Threads, NEW h \in Hosts, TransmitLink(t, h)
  PROVE  Safe(p)'
<1>8. PICK r : r = Head(tx[h])
  OBVIOUS
<1> DEFINE g == r.dst
<1>1. /\ tx[h] # <<>> /\ tx[h] \in Seq(Packet)
      /\ tx' = [tx EXCEPT ![h] = Tail(tx[h])]
      /\ PushRx(t, g, rx[g], r) /\ pushing[t] = NoPush
      /\ UNCHANGED <<routing, lost, held, wire, handled>>
  BY <1>8, OwnTypes DEF KeptInv, TransmitLink, Runs, writers
<1>2. r \in Packet /\ g \in Hosts
  <2>1. r \in Packet
    BY <1>1, <1>8, HeadTail
  <2> QED BY <2>1 DEF Packet
<1>3. \A q \in ToSet(tx[h]) : q = r \/ q \in ToSet(Tail(tx[h]))
  BY <1>1, <1>8, TailItems
<1> HIDE DEF g
<1>4. /\ PushesKept /\ AtRx(r, g)'
      /\ \A x \in Hosts : ToSet(rx[x]) \subseteq ToSet(rx'[x])
  BY <1>1, <1>2, PushRxKeeps DEF KeptInv
<1>5. /\ tx \in [Hosts -> Seq(Packet)] /\ p \in Packet
      /\ p.src \in Hosts /\ p.dst \in Hosts
  BY PromisedFacts DEF KeptInv, OwnInv, PacketInv, PacketTypes
<1>6. AtRx(p, p.dst) => AtRx(p, p.dst)'
  BY <1>4, <1>5 DEF AtRx, PushesKept
<1>7. AtTx(p, p.src) => AtTx(p, p.src)' \/ AtRx(p, p.dst)'
  <2>1. CASE p = r
    BY <1>4, <2>1 DEF g
  <2>2. CASE p # r
    <3>1. p \in ToSet(tx[p.src]) => p \in ToSet(tx'[p.src])
      BY <1>1, <1>3, <1>5, <2>2
    <3> QED BY <1>4, <1>5, <3>1 DEF AtTx, PushesKept
  <2> QED BY <2>1, <2>2
<1> QED BY <1>1, <1>6, <1>7, EndStays DEF Safe, AtEnd

LEMMA SafeTransmitRoute ==
  ASSUME KeptInv, [Next]_vars, NEW p \in promised, Safe(p),
         NEW t \in Threads, NEW h \in Hosts, TransmitRoute(t, h)
  PROVE  Safe(p)'
<1> DEFINE r == Head(tx[h])
<1>1. /\ tx[h] # <<>> /\ tx[h] \in Seq(Packet)
      /\ tx' = [tx EXCEPT ![h] = Tail(tx[h])]
      /\ Route(h, r)
      /\ UNCHANGED <<rx, pushing, lost, wire, handled>>
  BY OwnTypes DEF KeptInv, TransmitRoute, threads
<1>2. r \in Packet
  BY <1>1, HeadTail
<1>3. \A q \in ToSet(tx[h]) : q = r \/ q \in ToSet(Tail(tx[h]))
  BY <1>1, TailItems
<1> HIDE DEF r
<1>4. /\ tx \in [Hosts -> Seq(Packet)] /\ routing \in [Hosts -> Seq(Packet)]
      /\ p.src \in Hosts /\ p.dst \in Hosts /\ p \in Packet
  BY PromisedFacts DEF KeptInv, OwnInv, PacketInv, PacketTypes
<1>5. AtTx(p, p.src) => AtTx(p, p.src)' \/ (p = r /\ p.src = h)
  <2>1. p \in ToSet(tx[p.src]) => p \in ToSet(tx'[p.src]) \/ (p = r /\ p.src = h)
    BY <1>1, <1>3, <1>4
  <2>2. PushedTo(p, <<"tx", p.src>>) => PushedTo(p, <<"tx", p.src>>)'
    BY <1>1 DEF PushedTo
  <2> QED BY <2>1, <2>2 DEF AtTx
<1>6. AtRx(p, p.dst) => AtRx(p, p.dst)'
  BY <1>1 DEF AtRx, PushedTo
<1>7. CASE Parked(h) = {}
  <2>1. routing' = [routing EXCEPT ![h] = Append(routing[h], r)] /\ UNCHANGED held
    BY <1>1, <1>7 DEF Route
  <2>2. ToSet(routing[h]) \subseteq ToSet(Append(routing[h], r))
        /\ r \in ToSet(Append(routing[h], r))
    BY <1>2, <1>4, AppendItems
  <2>3. /\ p \in ToSet(routing[p.src]) => p \in ToSet(routing'[p.src])
        /\ p = r /\ p.src = h => p \in ToSet(routing'[p.src])
    BY <1>4, <2>1, <2>2
  <2> QED BY <1>1, <1>5, <1>6, <2>1, <2>3, EndStays DEF Safe, AtEnd
<1>8. CASE Parked(h) # {} /\ UNCHANGED routing /\ Wake(h, r)
  <2>1. held' = [e \in Ends |-> IF e \in Parked(h) THEN r ELSE held[e]]
    BY <1>8 DEF Wake
  <2>2. \A e \in Parked(h) : e \in Ends /\ HostOf(e) = h /\ ~Unmade(e[1])
                            /\ held[e] = NoPacket
    BY DEF Parked, KeptInv, Emptied, OwnInv, PacketInv, Fresh
  <2>3. p # NoPacket
    BY <1>4, AskReply
  <2>4. ASSUME NEW e \in Ends, AtEnd(p, e) PROVE AtEnd(p, e)'
    BY <1>1, <2>1, <2>2, <2>3, <2>4, EndStays DEF AtEnd
  <2>5. p = r /\ p.src = h => \E e \in Ends : AtEnd(p, e)'
    <3> SUFFICES ASSUME p = r, p.src = h PROVE \E e \in Ends : AtEnd(p, e)'
      OBVIOUS
    <3>1. PICK e \in Parked(h) : TRUE
      BY <1>8
    <3>2. e \in Ends /\ HostOf(e) = h /\ ~Unmade(e[1]) /\ held'[e] = p
      BY <2>1, <2>2, <3>1
    <3>3. AtEnd(p, e)'
      BY <3>2, EndStays DEF AtEnd
    <3> QED BY <3>2, <3>3
  <2> QED BY <1>1, <1>5, <1>6, <1>8, <2>4, <2>5 DEF Safe
<1> QED BY <1>1, <1>7, <1>8 DEF Route

LEMMA SafeReceiveService ==
  ASSUME KeptInv, [Next]_vars, NEW p \in promised, Safe(p),
         NEW t \in Threads, NEW h \in Hosts, ReceiveService(t, h)
  PROVE  Safe(p)'
<1> DEFINE r == Head(rx[h])
<1>1. /\ rx[h] # <<>> /\ rx[h] \in Seq(Packet) /\ tx[h] \in Seq(Packet)
      /\ rx' = [rx EXCEPT ![h] = Tail(rx[h])]
      /\ \/ r.dst = h /\ Receive(t, h, r, tx[h])
         \/ r.dst # h /\ PushTx(t, h, tx[h], r) /\ UNCHANGED handled
      /\ pushing[t] = NoPush
      /\ UNCHANGED <<routing, lost, held, wire>>
  BY OwnTypes DEF KeptInv, ReceiveService, Runs, writers
<1>2. r \in Packet
  BY <1>1, HeadTail
<1>3. \A q \in ToSet(rx[h]) : q = r \/ q \in ToSet(Tail(rx[h]))
  BY <1>1, TailItems
<1> HIDE DEF r
<1>4. /\ rx \in [Hosts -> Seq(Packet)] /\ OwnInv
      /\ p.src \in Hosts /\ p.dst \in Hosts /\ p \in Packet
  BY PromisedFacts DEF KeptInv, OwnInv, PacketInv, PacketTypes
<1>5. /\ DOMAIN handled \subseteq DOMAIN handled'
      /\ ToSet(tx[h]) \subseteq ToSet(tx'[h])
      /\ \A g \in Hosts : g # h => tx'[g] = tx[g]
      /\ r.dst = h => <<h, r>> \in DOMAIN handled'
      /\ PushesKept
  <2>1. CASE r.dst = h /\ Receive(t, h, r, tx[h])
    BY <1>1, <1>2, <1>4, <2>1, ReceiveKeeps
  <2>2. CASE r.dst # h /\ PushTx(t, h, tx[h], r) /\ UNCHANGED handled
    BY <1>1, <1>2, <1>4, <2>2, PushTxKeeps
  <2> QED BY <1>1, <2>1, <2>2
<1>6. p \in ToSet(tx[p.src]) => p \in ToSet(tx'[p.src])
  BY <1>4, <1>5
<1>7. p \in ToSet(rx[p.dst]) =>
        p \in ToSet(rx'[p.dst]) \/ <<p.dst, p>> \in DOMAIN handled'
  BY <1>1, <1>3, <1>4, <1>5
<1> QED BY <1>1, <1>4, <1>5, <1>6, <1>7, EndStays DEF Safe, AtEnd, AtTx, AtRx, PushesKept

LEMMA SafeServerReads ==
  ASSUME KeptInv, [Next]_vars, NEW p \in promised, Safe(p), NEW k \in Joins, ServerReads(k)
  PROVE  Safe(p)'
<1> DEFINE e == <<k, "client">>
<1>8. PICK r : r = Head(wire[e])
  OBVIOUS
<1>1. /\ e \in Ends /\ wire[e] # <<>> /\ wire[e] \in Seq(Packet) /\ ~Unmade(k)
      /\ who[k] \in Clients /\ HostOf(e) = who[k]
      /\ wire' = [wire EXCEPT ![e] = Tail(wire[e])]
      /\ PushRx(Asio(Hub), Hub, rx[Hub], r) /\ pushing[Asio(Hub)] = NoPush
      /\ UNCHANGED <<tx, routing, lost, held, handled>>
  BY <1>8, ReadHosts, OwnTypes DEF KeptInv, ServerReads, AsioFree, Idle, HostOf
<1>2. /\ \A q \in ToSet(wire[e]) : q = r \/ q \in ToSet(Tail(wire[e]))
      /\ r \in Packet
  BY <1>1, <1>8, TailItems, HeadTail
<1>3. /\ wire \in [Ends -> Seq(Packet)] /\ OwnInv /\ p \in Packet
      /\ p.src \in Hosts /\ p.dst \in Hosts /\ Hub \in Hosts /\ Asio(Hub) \in Threads
  BY PromisedFacts, AsioThread DEF KeptInv, OwnInv, PacketInv, PacketTypes, Hosts
<1>4. p.src = who[k] => p.dst = Hub
  BY <1>1, PromisedFacts, AddressAssumption
<1> HIDE DEF e
<1>5. /\ PushesKept /\ AtRx(r, Hub)'
      /\ \A x \in Hosts : ToSet(rx[x]) \subseteq ToSet(rx'[x])
  BY <1>1, <1>2, <1>3, PushRxKeeps
<1>6. ASSUME NEW x \in Ends, AtEnd(p, x) PROVE AtEnd(p, x)' \/ AtRx(p, p.dst)'
  <2>1. HostOf(x)' = p.src /\ ~Unmade(x[1])' /\ held'[x] = held[x] /\ HostOf(x) = p.src
    BY <1>1, <1>6, EndStays DEF AtEnd
  <2>2. CASE x # e
    BY <1>1, <1>3, <1>6, <2>1, <2>2 DEF AtEnd
  <2>3. CASE x = e /\ p = r
    BY <1>1, <1>4, <1>5, <2>1, <2>3
  <2>4. CASE x = e /\ p # r
    <3>1. wire'[x] = Tail(wire[x])
      BY <1>1, <1>3, <2>4
    <3> QED BY <1>2, <1>6, <2>1, <2>4, <3>1 DEF AtEnd
  <2> QED BY <2>2, <2>3, <2>4
<1>7. /\ AtTx(p, p.src) => AtTx(p, p.src)'
      /\ AtRx(p, p.dst) => AtRx(p, p.dst)'
  BY <1>1, <1>3, <1>5 DEF AtTx, AtRx, PushesKept
<1> QED BY <1>1, <1>6, <1>7 DEF Safe

(* The reader of the one client delivers what is for it.                   *)
LEMMA SafeClientReads ==
  ASSUME KeptInv, [Next]_vars, NEW p \in promised, Safe(p), Alone,
         NEW k \in Joins, ClientReads(k)
  PROVE  Safe(p)'
<1> DEFINE e == <<k, "server">>
<1> DEFINE h == who[k]
<1> DEFINE t == Asio(h)
<1> DEFINE r == Head(wire[e])
<1>1. /\ e \in Ends /\ wire[e] # <<>> /\ wire[e] \in Seq(Packet) /\ ~Unmade(k)
      /\ h \in Clients /\ h \in Hosts /\ HostOf(e) = Hub /\ OwnInv
      /\ wire' = [wire EXCEPT ![e] = Tail(wire[e])]
      /\ Receive(t, h, r, tx[h]) /\ pushing[t] = NoPush
      /\ UNCHANGED <<rx, routing, lost, held>>
  BY ReadHosts, OwnTypes DEF KeptInv, ClientReads, AsioFree, Idle, Deliver, HostOf, Hosts
<1>2. \A q \in ToSet(wire[e]) : q = r \/ q \in ToSet(Tail(wire[e]))
  BY <1>1, TailItems
<1>3. /\ tx \in [Hosts -> Seq(Packet)] /\ wire \in [Ends -> Seq(Packet)]
      /\ p.src \in Hosts /\ p.dst \in Hosts /\ p \in Packet
  BY PromisedFacts DEF KeptInv, OwnInv, PacketInv, PacketTypes
<1>4. p.src = Hub => p.dst = h
  <2>1. PICK j \in Joins : ~Unmade(j) /\ {p.src, p.dst} = {Hub, who[j]}
    BY PromisedFacts
  <2>2. j = k
    BY <1>1, <2>1 DEF Alone
  <2> QED BY <2>1, <2>2, PromisedFacts
<1>5. /\ DOMAIN handled \subseteq DOMAIN handled'
      /\ r.dst = h => <<h, r>> \in DOMAIN handled'
      /\ ToSet(tx[h]) \subseteq ToSet(tx'[h])
      /\ \A g \in Hosts : g # h => tx'[g] = tx[g]
      /\ PushesKept
  <2>1. r \in Packet /\ tx[h] \in Seq(Packet) /\ t \in Threads
    BY <1>1, <1>3, HeadTail, AsioThread
  <2> HIDE DEF t, r, h
  <2> QED BY <1>1, <2>1, ReceiveKeeps
<1> HIDE DEF r, e, h, t
<1>6. p \in ToSet(tx[p.src]) => p \in ToSet(tx'[p.src])
  BY <1>3, <1>5
<1>7. ASSUME NEW x \in Ends, AtEnd(p, x)
      PROVE  AtEnd(p, x)' \/ <<p.dst, p>> \in DOMAIN handled'
  <2>1. HostOf(x)' = p.src /\ ~Unmade(x[1])' /\ held'[x] = held[x] /\ HostOf(x) = p.src
    BY <1>1, <1>7, EndStays DEF AtEnd
  <2>2. CASE x # e
    BY <1>1, <1>3, <1>7, <2>1, <2>2 DEF AtEnd
  <2>3. CASE x = e /\ p = r
    BY <1>1, <1>4, <1>5, <2>1, <2>3
  <2>4. CASE x = e /\ p # r
    <3>1. wire'[x] = Tail(wire[x])
      BY <1>1, <1>3, <2>4
    <3> QED BY <1>2, <1>7, <2>1, <2>4, <3>1 DEF AtEnd
  <2> QED BY <2>2, <2>3, <2>4
<1> QED BY <1>1, <1>3, <1>5, <1>6, <1>7 DEF Safe, AtTx, AtRx, PushesKept

(* The second half of a push: a packet that finds nobody is lost.          *)
LEMMA SafeBroadcast ==
  ASSUME KeptInv, [Next]_vars, NEW p \in promised, Safe(p), NEW t \in Threads, Broadcast(t)
  PROVE  Safe(p)'
<1> DEFINE g == pushing[t].to
<1> DEFINE h == g[2]
<1> DEFINE r == pushing[t].packet
<1>1. /\ r \in Packet /\ h \in Hosts /\ g = <<g[1], h>>
      /\ pushing' = [pushing EXCEPT ![t] = NoPush]
      /\ UNCHANGED <<routing, held, wire, handled>>
      /\ \/ /\ g[1] = "tx" /\ tx' = [tx EXCEPT ![h] = <<r>> \o tx[h]]
            /\ UNCHANGED <<rx, lost>>
         \/ /\ g[1] = "rx" /\ rx' = [rx EXCEPT ![h] = <<r>> \o rx[h]]
            /\ UNCHANGED <<tx, lost>>
         \/ UNCHANGED <<tx, rx>> /\ lost' = lost \cup {r}
  BY BroadcastDoes DEF KeptInv, writers
<1>2. \A s : PushedTo(p, s) => PushedTo(p, s)' \/ (p = r /\ s = g)
  <2>1. \A u \in Threads : u # t => pushing'[u] = pushing[u]
    BY <1>1, OwnTypes DEF KeptInv, PushTypes
  <2> QED BY <2>1 DEF PushedTo
<1> HIDE DEF r, g, h
<1>3. /\ tx \in [Hosts -> Seq(Packet)] /\ rx \in [Hosts -> Seq(Packet)]
      /\ p.src \in Hosts /\ p.dst \in Hosts /\ p \in Packet
  BY PromisedFacts DEF KeptInv, OwnInv, PacketInv, PacketTypes
<1>4. ASSUME NEW q \in Seq(Packet)
      PROVE  ToSet(q) \subseteq ToSet(<<r>> \o q) /\ r \in ToSet(<<r>> \o q)
  BY <1>1, PrependItems
<1>5. /\ lost \subseteq lost'
      /\ ToSet(tx[p.src]) \subseteq ToSet(tx'[p.src])
      /\ ToSet(rx[p.dst]) \subseteq ToSet(rx'[p.dst])
      /\ p = r => \/ p \in lost'
                  \/ g = <<"tx", h>> /\ p \in ToSet(tx'[h])
                  \/ g = <<"rx", h>> /\ p \in ToSet(rx'[h])
  <2>1. tx[h] \in Seq(Packet) /\ rx[h] \in Seq(Packet)
    BY <1>1, <1>3
  <2>2. CASE /\ g[1] = "tx" /\ tx' = [tx EXCEPT ![h] = <<r>> \o tx[h]]
             /\ UNCHANGED <<rx, lost>>
    <3>1. tx'[h] = <<r>> \o tx[h] /\ \A x \in Hosts : x # h => tx'[x] = tx[x]
      BY <1>1, <1>3, <2>2
    <3> QED BY <1>1, <1>3, <1>4, <2>1, <2>2, <3>1
  <2>3. CASE /\ g[1] = "rx" /\ rx' = [rx EXCEPT ![h] = <<r>> \o rx[h]]
             /\ UNCHANGED <<tx, lost>>
    <3>1. rx'[h] = <<r>> \o rx[h] /\ \A x \in Hosts : x # h => rx'[x] = rx[x]
      BY <1>1, <1>3, <2>3
    <3> QED BY <1>1, <1>3, <1>4, <2>1, <2>3, <3>1
  <2>4. CASE UNCHANGED <<tx, rx>> /\ lost' = lost \cup {r}
    BY <2>4
  <2> QED BY <1>1, <2>2, <2>3, <2>4
<1>6. AtTx(p, p.src) => AtTx(p, p.src)' \/ p \in lost'
  <2>1. g = <<"tx", p.src>> /\ p = r => AtTx(p, p.src)' \/ p \in lost'
    BY <1>5 DEF AtTx
  <2> QED BY <1>2, <1>5, <2>1 DEF AtTx
<1>7. AtRx(p, p.dst) => AtRx(p, p.dst)' \/ p \in lost'
  <2>1. g = <<"rx", p.dst>> /\ p = r => AtRx(p, p.dst)' \/ p \in lost'
    BY <1>5 DEF AtRx
  <2> QED BY <1>2, <1>5, <2>1 DEF AtRx
<1> QED BY <1>1, <1>5, <1>6, <1>7, EndStays DEF Safe, AtEnd

(* A writer writes what it holds: both ends of its connection are open.    *)
LEMMA SafeWriterRuns ==
  ASSUME KeptInv, [Next]_vars, NEW p \in promised, Safe(p), Alone,
         NEW e \in Ends, WriterRuns(e)
  PROVE  Safe(p)'
<1> DEFINE h == HostOf(e)
<1>1. /\ ~Unmade(e[1]) /\ h \in Hosts
      /\ wire[e] \in Seq(Packet)
      /\ \/ ~Written(e) /\ UNCHANGED wire
         \/ /\ Written(e) /\ held[e] \in Packet
            /\ wire' = [wire EXCEPT ![e] = Append(wire[e], held[e])]
      /\ \/ held' = [held EXCEPT ![e] = NoPacket] /\ UNCHANGED routing
         \/ /\ routing[h] # <<>> /\ held' = [held EXCEPT ![e] = Head(routing[h])]
            /\ routing' = [routing EXCEPT ![h] = Tail(@)]
      /\ UNCHANGED <<tx, rx, pushing, lost, handled>>
  BY WriterDoes DEF KeptInv, threads
<1>2. sock[e] = "open" /\ sock[Other(e)] = "open"
  <2>1. Other(e) \in Ends /\ Other(e)[1] = e[1]
    BY EndsOf DEF Other, Ends
  <2> QED BY <1>1, <2>1 DEF Alone, Unbroken, KeptInv, Opened, OwnInv, PacketInv,
                           WriterInv, WriterTypes
<1>3. /\ routing \in [Hosts -> Seq(Packet)] /\ wire \in [Ends -> Seq(Packet)]
      /\ held \in [Ends -> Packet \cup {NoPacket}]
      /\ p.src \in Hosts /\ p \in Packet /\ p # NoPacket
  BY PromisedFacts, AskReply DEF KeptInv, OwnInv, PacketInv, PacketTypes
<1> HIDE DEF h
<1>4. ASSUME NEW x \in Ends, AtEnd(p, x) PROVE AtEnd(p, x)'
  <2>1. HostOf(x)' = p.src /\ ~Unmade(x[1])'
    BY <1>4, EndStays DEF AtEnd
  <2>2. CASE x # e
    <3>1. held'[x] = held[x]
      BY <1>1, <1>3, <2>2
    <3>2. wire'[x] = wire[x]
      BY <1>1, <1>3, <2>2
    <3> QED BY <1>4, <2>1, <3>1, <3>2 DEF AtEnd
  <2>3. CASE x = e
    <3>1. CASE held[e] = NoPacket
      <4>1. p \in ToSet(wire[e]) /\ ~Written(e)
        BY <1>3, <1>4, <2>3, <3>1 DEF AtEnd, Written
      <4> QED BY <1>1, <2>1, <2>3, <4>1 DEF AtEnd
    <3>2. CASE held[e] # NoPacket
      <4>1. Written(e) /\ held[e] \in Packet /\ wire'[e] = Append(wire[e], held[e])
        BY <1>1, <1>2, <1>3, <3>2 DEF Written
      <4>2. ToSet(wire[e]) \subseteq ToSet(wire'[e]) /\ held[e] \in ToSet(wire'[e])
        BY <1>1, <4>1, AppendItems
      <4> QED BY <1>4, <2>1, <2>3, <4>2 DEF AtEnd
    <3> QED BY <3>1, <3>2
  <2> QED BY <2>2, <2>3
<1>5. p \in ToSet(routing[p.src])
        => p \in ToSet(routing'[p.src]) \/ \E x \in Ends : AtEnd(p, x)'
  <2>1. CASE UNCHANGED routing
    BY <2>1
  <2>2. CASE /\ routing[h] # <<>> /\ held' = [held EXCEPT ![e] = Head(routing[h])]
             /\ routing' = [routing EXCEPT ![h] = Tail(@)]
    <3>1. \A q \in ToSet(routing[h]) : q = Head(routing[h]) \/ q \in ToSet(Tail(routing[h]))
      BY <1>1, <1>3, <2>2, TailItems
    <3>2. CASE p = Head(routing[h]) /\ p.src = h
      <4>1. HostOf(e)' = h /\ ~Unmade(e[1])'
        BY <1>1, EndStays DEF h
      <4>2. held'[e] = p
        BY <1>3, <2>2, <3>2
      <4> QED BY <3>2, <4>1, <4>2 DEF AtEnd
    <3>3. CASE ~(p = Head(routing[h]) /\ p.src = h)
      BY <1>1, <1>3, <2>2, <3>1, <3>3
    <3> QED BY <3>2, <3>3
  <2> QED BY <1>1, <2>1, <2>2
<1> QED BY <1>1, <1>4, <1>5 DEF Safe, AtTx, AtRx, PushedTo

LEMMA EmptiedStep == ASSUME KeptInv, [Next]_vars PROVE Emptied'
<1>1. CASE UNCHANGED <<pc, held>>
  BY <1>1 DEF KeptInv, Emptied
<1>2. ASSUME NEW t \in Threads, NEW h \in Hosts, TransmitRoute(t, h) PROVE Emptied'
  BY <1>2 DEF TransmitRoute, Route, Wake, KeptInv, Emptied
<1>3. ASSUME NEW e \in Ends, WriterRuns(e) PROVE Emptied'
  <2>1. /\ pc \in [Ends -> {"none", "running", "parking", "parked", "done"}]
        /\ held \in [Ends -> Packet \cup {NoPacket}] /\ pc[e] = "running"
    BY <1>3 DEF WriterRuns, KeptInv, OwnInv, PacketInv, PacketTypes, WriterInv, WriterTypes
  <2>2. \/ /\ held' = [held EXCEPT ![e] = NoPacket]
           /\ \E to \in {"parking", "done"} : pc' = [pc EXCEPT ![e] = to]
        \/ UNCHANGED pc /\ \E q : held' = [held EXCEPT ![e] = q]
    BY <1>3 DEF WriterRuns, Look, Take, GoPark
  <2> QED BY <2>1, <2>2 DEF KeptInv, Emptied
<1>4. ASSUME NEW e \in Ends, WriterParks(e) PROVE Emptied'
  BY <1>4 DEF WriterParks, KeptInv, Emptied, OwnInv, PacketInv, WriterInv, WriterTypes
<1>5. ASSUME NEW c \in Clients, NEW k \in Joins, Join(c, k) PROVE Emptied'
  BY <1>5 DEF Join, Started, KeptInv, Emptied
<1>6. CASE (\E k \in Joins : ServerStops(k) \/ ClientStops(k)) \/ HubStops
  BY <1>6 DEF ServerStops, ClientStops, HubStops, Dropped, KeptInv, Emptied
<1>7. ASSUME NEW t \in Threads, NEW f \in Traffic, Send(t, f[1], f[2]) PROVE Emptied'
  BY <1>1, <1>7 DEF Send, writers
<1>8. ASSUME NEW t \in Threads, NEW h \in Hosts, HostNext(t, h) PROVE Emptied'
  BY <1>1, <1>2, <1>8 DEF HostNext, TransmitHere, TransmitLink, ReceiveService, writers
<1>9. ASSUME NEW t \in Threads, ThreadNext(t) PROVE Emptied'
  BY <1>1, <1>9 DEF ThreadNext, Broadcast, ServiceLooks, ServiceParks, writers
<1>10. ASSUME NEW k \in Joins, ServerReads(k) \/ ClientReads(k) PROVE Emptied'
  BY <1>1, <1>10 DEF ServerReads, ClientReads
<1>11. CASE Link \/ UNCHANGED vars
  BY <1>1, <1>11 DEF Link, vars, writers
<1> QED
  BY <1>3, <1>4, <1>5, <1>6, <1>7, <1>8, <1>9, <1>10, <1>11 DEF Next, WriterNext

(* A connection that ends is the end of what was promised.                 *)
LEMMA SafeStops ==
  ASSUME KeptInv, [Next]_vars, NEW p \in promised, Safe(p), Alone',
         (\E k \in Joins : ServerStops(k) \/ ClientStops(k)) \/ HubStops
  PROVE  Safe(p)'
<1>1. sock \in [Ends -> {"none", "open", "closed"}]
  BY DEF KeptInv, OwnInv, PacketInv, WriterInv, WriterTypes
<1>2. ASSUME NEW k \in Joins, ServerStops(k) \/ ClientStops(k) PROVE FALSE
  <2>1. <<k, "server">> \in Ends /\ <<k, "client">> \in Ends
    BY DEF Ends
  <2> QED BY <1>1, <1>2, <2>1 DEF ServerStops, ClientStops, Alone, Unbroken
<1>3. CASE HubStops
  <2> DEFINE sessions == {e \in Ends : e[2] = "server" /\ who[e[1]] # NoHost}
  <2>1. sock' = [e \in Ends |-> IF e \in sessions THEN "closed" ELSE sock[e]]
    BY <1>3 DEF HubStops
  <2>2. \A e \in Ends : e \notin sessions
    BY <2>1 DEF Alone, Unbroken
  <2>3. sessions = {}
    BY <2>2
  <2>4. /\ wire' = [e \in Ends |-> IF Other(e) \in sessions THEN <<>> ELSE wire[e]]
        /\ held' = [e \in Ends |-> IF e \in sessions THEN NoPacket ELSE held[e]]
        /\ UNCHANGED <<queues, pushing, lost, handled>>
    BY <1>3 DEF HubStops, Dropped, threads
  <2> HIDE DEF sessions
  <2>5. UNCHANGED <<wire, held>>
    BY <2>3, <2>4 DEF KeptInv, OwnInv, PacketInv, PacketTypes
  <2> QED BY <2>4, <2>5, SafeUntouched
<1> QED BY <1>2, <1>3

LEMMA KeptStep == KeptInv /\ [Next]_vars => KeptInv'
<1> SUFFICES ASSUME KeptInv, [Next]_vars
             PROVE  KeptInv'
  OBVIOUS
<1>1. OwnInv' /\ Opened' /\ Emptied' /\ \A p \in promised' : Promise(p)'
  BY OwnStep, KeptFrame, EmptiedStep, PromisesStep DEF KeptInv
<1>2. ASSUME Alone', NEW p \in promised, Safe(p), Alone
      PROVE  Safe(p)'
  <2>1. CASE UNCHANGED vars
    BY <1>2, <2>1, SafeUntouched DEF vars, threads, writers
  <2>2. ASSUME NEW t \in Threads, NEW f \in Traffic, Send(t, f[1], f[2])
        PROVE  Safe(p)'
    BY <1>2, <2>2, SafeSend
  <2>3. ASSUME NEW t \in Threads, NEW h \in Hosts, HostNext(t, h)
        PROVE  Safe(p)'
    BY <1>2, <2>3, SafeTransmitHere, SafeTransmitLink, SafeTransmitRoute, SafeReceiveService
       DEF HostNext
  <2>4. CASE Link
    BY <1>2, <2>4, SafeUntouched DEF Link, threads, writers
  <2>5. ASSUME NEW c \in Clients, NEW k \in Joins, Join(c, k)
        PROVE  Safe(p)'
    BY <1>2, <2>5, SafeUntouched DEF Join, threads
  <2>6. ASSUME NEW k \in Joins, ServerReads(k) \/ ClientReads(k)
        PROVE  Safe(p)'
    BY <1>2, <2>6, SafeServerReads, SafeClientReads
  <2>7. CASE (\E k \in Joins : ServerStops(k) \/ ClientStops(k)) \/ HubStops
    BY <1>2, <2>7, SafeStops
  <2>8. ASSUME NEW e \in Ends, WriterNext(e)
        PROVE  Safe(p)'
    BY <1>2, <2>8, SafeWriterRuns, SafeUntouched DEF WriterNext, WriterParks, threads
  <2>9. ASSUME NEW t \in Threads, ThreadNext(t)
        PROVE  Safe(p)'
    <3>1. CASE Broadcast(t)
      BY <1>2, <3>1, SafeBroadcast
    <3>2. CASE ServiceLooks(t) \/ ServiceParks(t)
      BY <1>2, <3>2, SafeUntouched DEF ServiceLooks, ServiceParks, queues, writers
    <3> QED BY <2>9, <3>1, <3>2 DEF ThreadNext
  <2> QED BY <2>1, <2>2, <2>3, <2>4, <2>5, <2>6, <2>7, <2>8, <2>9 DEF Next
<1>3. ASSUME Alone', NEW p \in promised'
      PROVE  Safe(p)'
  <2>1. Alone
    BY <1>3, AloneBefore
  <2>2. CASE p \in promised
    BY <1>2, <1>3, <2>1, <2>2 DEF KeptInv
  <2>3. CASE AtTx(p, p.src)'
    BY <2>3 DEF Safe
  <2> QED BY <2>2, <2>3, PromisesStep
<1> QED BY <1>1, <1>3 DEF KeptInv

LEMMA KeptAlways == Spec => []KeptInv
  BY KeptInit, KeptStep, PTL DEF Spec

(* At most one made connection, counted and named.                         *)
LEMMA AtMostOne ==
  ASSUME NEW S \in SUBSET Joins, Cardinality(S) <= 1, NEW j \in S, NEW k \in S
  PROVE  j = k
<1>1. IsFiniteSet(Joins) /\ IsFiniteSet(S)
  <2>1. IsFiniteSet(1..MaxJoins)
    BY FS_Interval, BoundsAssumption
  <2> QED BY <2>1, FS_Subset DEF Joins
<1>2. SUFFICES ASSUME j # k PROVE FALSE
  OBVIOUS
<1>3. Cardinality({j, k}) = 2
  <2>1. Cardinality({j}) = 1 /\ IsFiniteSet({j})
    BY FS_Singleton
  <2>2. {j, k} = {j} \cup {k} /\ k \notin {j}
    BY <1>2
  <2>3. Cardinality({j} \cup {k}) = Cardinality({j}) + 1
    BY <2>1, <2>2, FS_AddElement
  <2> QED BY <2>1, <2>2, <2>3
<1>4. Cardinality({j, k}) <= Cardinality(S) /\ Cardinality(S) \in Nat
  <2>1. {j, k} \subseteq S
    OBVIOUS
  <2> QED BY <1>1, <2>1, FS_Subset, FS_CardinalityType
<1> QED BY <1>3, <1>4

(* A push that has seen a service wait: its own thread, which has nothing  *)
(* else to do before it takes the service, does not resume it.             *)
StackTypes == stack \in [Threads -> Seq(Services)]

NotItsOwn ==
  \A t \in Threads : pushing[t] # NoPush =>
    \A i \in DOMAIN stack[t] : stack[t][i] # pushing[t].to

StackInv == StackTypes /\ NotItsOwn

LEMMA StackInit == Init => StackInv
  BY DEF Init, StackInv, StackTypes, NotItsOwn

LEMMA PushStack ==
  ASSUME OwnInv, StackInv, UNCHANGED stack, NEW t \in Threads, NEW s, NEW p,
         \/ UNCHANGED pushing
         \/ Waiting(s) /\ pushing' = [pushing EXCEPT ![t] = [to |-> s, packet |-> p]]
  PROVE  StackInv'
<1>1. CASE UNCHANGED pushing
  BY <1>1 DEF StackInv, StackTypes, NotItsOwn
<1>2. CASE Waiting(s) /\ pushing' = [pushing EXCEPT ![t] = [to |-> s, packet |-> p]]
  <2>1. pushing'[t].to = s /\ \A u \in Threads : u # t => pushing'[u] = pushing[u]
    BY <1>2, OwnTypes DEF PushTypes
  <2>2. \A i \in DOMAIN stack[t] : stack[t][i] # s
    BY <1>2 DEF Waiting
  <2>3. NotItsOwn'
    <3> SUFFICES ASSUME NEW u \in Threads, pushing'[u] # NoPush, NEW i \in DOMAIN stack'[u]
                 PROVE  stack'[u][i] # pushing'[u].to
      BY DEF NotItsOwn
    <3>1. CASE u = t
      BY <2>1, <2>2, <3>1
    <3>2. CASE u # t
      BY <2>1, <3>2 DEF StackInv, NotItsOwn
    <3> QED BY <3>1, <3>2
  <2> QED BY <2>3 DEF StackInv, StackTypes
<1> QED BY <1>1, <1>2

LEMMA PushTxStack ==
  ASSUME OwnInv, StackInv, UNCHANGED stack, NEW t \in Threads, NEW h, NEW queue, NEW p,
         PushTx(t, h, queue, p) \/ Receive(t, h, p, queue)
  PROVE  StackInv'
<1>1. ASSUME NEW q, PushTx(t, h, queue, q) PROVE StackInv'
  BY <1>1, PushStack DEF PushTx
<1>2. ASSUME UNCHANGED pushing PROVE StackInv'
  BY <1>2 DEF StackInv, StackTypes, NotItsOwn
<1> QED BY <1>1, <1>2 DEF Receive

LEMMA BroadcastStack ==
  ASSUME OwnInv, StackInv, NEW t \in Threads, Broadcast(t)
  PROVE  StackInv'
<1> DEFINE s == pushing[t].to
<1>1. /\ pushing' = [pushing EXCEPT ![t] = NoPush]
      /\ UNCHANGED stack \/ stack' = [stack EXCEPT ![t] = <<s>> \o stack[t]]
  BY DEF Broadcast, Resume
<1>2. s \in Services
  BY OwnTypes DEF Broadcast, PushTypes
<1> HIDE DEF s
<1>3. stack[t] \in Seq(Services) /\ <<s>> \o stack[t] \in Seq(Services)
  BY <1>2, Prepended DEF StackInv, StackTypes
<1>4. StackTypes'
  BY <1>1, <1>3 DEF StackInv, StackTypes
<1>5. /\ pushing'[t] = NoPush
      /\ \A u \in Threads : u # t => pushing'[u] = pushing[u] /\ stack'[u] = stack[u]
  BY <1>1, OwnTypes DEF PushTypes, StackInv, StackTypes
<1> QED BY <1>4, <1>5 DEF StackInv, NotItsOwn

LEMMA ParksStack ==
  ASSUME StackInv, NEW t \in Threads, ServiceParks(t)
  PROVE  StackInv'
<1>1. /\ stack[t] # <<>> /\ stack' = [stack EXCEPT ![t] = Tail(stack[t])]
      /\ UNCHANGED pushing /\ stack[t] \in Seq(Services)
  BY DEF ServiceParks, StackInv, StackTypes
<1>2. /\ Tail(stack[t]) \in Seq(Services) /\ Len(stack[t]) \in Nat
      /\ Len(Tail(stack[t])) = Len(stack[t]) - 1
      /\ \A i \in 1..Len(Tail(stack[t])) : Tail(stack[t])[i] = stack[t][i + 1]
  BY <1>1, HeadTail
<1>3. StackTypes' /\ stack'[t] = Tail(stack[t])
      /\ \A u \in Threads : u # t => stack'[u] = stack[u]
  BY <1>1, <1>2 DEF StackInv, StackTypes
<1>4. ASSUME NEW i \in DOMAIN stack'[t]
      PROVE  \E j \in DOMAIN stack[t] : stack'[t][i] = stack[t][j]
  <2>1. i \in 1..Len(Tail(stack[t])) /\ DOMAIN stack[t] = 1..Len(stack[t])
    <3>1. \A q \in Seq(Services) : DOMAIN q = 1..Len(q)
      OBVIOUS
    <3> QED BY <1>1, <1>2, <1>3, <3>1
  <2>2. i + 1 \in 1..Len(stack[t]) /\ stack'[t][i] = stack[t][i + 1]
    BY <1>2, <1>3, <2>1
  <2> QED BY <2>1, <2>2
<1> QED BY <1>1, <1>3, <1>4 DEF StackInv, NotItsOwn

LEMMA StackStep == OwnInv /\ StackInv /\ [Next]_vars => StackInv'
<1> SUFFICES ASSUME OwnInv, StackInv, [Next]_vars
             PROVE  StackInv'
  OBVIOUS
<1>1. CASE UNCHANGED <<stack, pushing>>
  BY <1>1 DEF StackInv, StackTypes, NotItsOwn
<1>2. ASSUME NEW t \in Threads, NEW f \in Traffic, Send(t, f[1], f[2])
      PROVE  StackInv'
  BY <1>2, PushTxStack DEF Send
<1>3. ASSUME NEW t \in Threads, NEW h \in Hosts, HostNext(t, h)
      PROVE  StackInv'
  <2>1. CASE TransmitHere(t, h)
    BY <2>1, PushTxStack DEF TransmitHere
  <2>2. CASE TransmitLink(t, h)
    BY <2>2, PushStack DEF TransmitLink, PushRx
  <2>3. CASE TransmitRoute(t, h)
    BY <1>1, <2>3 DEF TransmitRoute, threads
  <2>4. CASE ReceiveService(t, h)
    BY <2>4, PushTxStack DEF ReceiveService
  <2> QED BY <1>3, <2>1, <2>2, <2>3, <2>4 DEF HostNext
<1>4. ASSUME NEW k \in Joins, ServerReads(k) PROVE StackInv'
  <2>1. Asio(Hub) \in Threads
    BY AsioThread DEF Hosts
  <2> QED BY <1>4, <2>1, PushStack DEF ServerReads, PushRx
<1>5. ASSUME NEW k \in Joins, ClientReads(k) PROVE StackInv'
  <2>1. who[k] \in Hosts
    BY <1>5, ReadHosts DEF ClientReads, Hosts
  <2>2. Asio(who[k]) \in Threads
    BY <2>1, AsioThread
  <2> QED BY <1>5, <2>2, PushTxStack DEF ClientReads, Deliver
<1>6. ASSUME NEW t \in Threads, ThreadNext(t) PROVE StackInv'
  BY <1>1, <1>6, BroadcastStack, ParksStack DEF ThreadNext, ServiceLooks
<1>7. ASSUME NEW e \in Ends, WriterNext(e) PROVE StackInv'
  BY <1>1, <1>7 DEF WriterNext, WriterRuns, WriterParks, threads
<1>8. ASSUME NEW k \in Joins, ServerStops(k) \/ ClientStops(k) PROVE StackInv'
  BY <1>1, <1>8 DEF ServerStops, ClientStops, threads
<1>9. CASE Link \/ HubStops \/ \E c \in Clients, k \in Joins : Join(c, k)
  BY <1>1, <1>9 DEF Link, HubStops, Join, threads
<1>10. CASE UNCHANGED vars
  BY <1>1, <1>10 DEF vars, threads
<1> QED
  BY <1>2, <1>3, <1>4, <1>5, <1>6, <1>7, <1>8, <1>9, <1>10 DEF Next

LEMMA StackAlways == Spec => []StackInv
  BY StackInit, StackStep, OwnAlways, PTL DEF Spec

(* AloneNothingLost of module Bridge: for any number of threads and of     *)
(* packets, a push that finds nobody was overtaken by another thread's,    *)
(* and while one client is joined and nothing has ended, every other       *)
(* packet sent between it and the Hub was handled or is on its way.        *)
THEOREM AloneEverythingArrives == Spec => []AloneNothingLost
<1>1. ASSUME StackInv PROVE OnlyOvertaken
  BY <1>1 DEF StackInv, NotItsOwn, OnlyOvertaken, Waiting
<1>2. ASSUME KeptInv, Unbroken, Cardinality({k \in Joins : who[k] # NoHost}) <= 1,
             NEW p \in promised \ lost
      PROVE  Kept(p)
  <2>1. Alone
    BY <1>2, AtMostOne DEF Alone, Unmade
  <2>2. Safe(p) /\ p \notin lost
    BY <1>2, <2>1 DEF KeptInv
  <2>3. p.src \in Hosts /\ p.dst \in Hosts
    BY <1>2, PromisedFacts
  <2>4. ASSUME NEW q \in Seq(Packet) PROVE ToSet(q) = {q[i] : i \in 1..Len(q)}
    BY DEF ToSet
  <2>5. ASSUME NEW h \in Hosts, p \in ToSet(tx[h]) \/ p \in ToSet(rx[h]) \/ p \in ToSet(routing[h])
        PROVE  OnTheWay(p)
    <3>1. /\ ToSet(tx[h]) = {tx[h][i] : i \in 1..Len(tx[h])}
          /\ ToSet(rx[h]) = {rx[h][i] : i \in 1..Len(rx[h])}
          /\ ToSet(routing[h]) = {routing[h][i] : i \in 1..Len(routing[h])}
      BY <1>2, <2>4, OwnTypes DEF KeptInv
    <3>2. p \in UNION {{q[i] : i \in 1..Len(q)} : q \in {tx[h], rx[h], routing[h]}}
      BY <2>5, <3>1
    <3> QED BY <3>2 DEF OnTheWay
  <2>6. ASSUME NEW e \in Ends, AtEnd(p, e) PROVE OnTheWay(p)
    <3>1. ToSet(wire[e]) = {wire[e][i] : i \in 1..Len(wire[e])}
      BY <1>2, <2>4, OwnTypes DEF KeptInv
    <3>2. held[e] = p \/ \E i \in 1..Len(wire[e]) : wire[e][i] = p
      BY <2>6, <3>1 DEF AtEnd
    <3> QED BY <3>2 DEF OnTheWay
  <2>7. ASSUME NEW s, PushedTo(p, s) PROVE OnTheWay(p)
    BY <2>7 DEF PushedTo, OnTheWay
  <2> QED BY <2>2, <2>3, <2>5, <2>6, <2>7 DEF Safe, AtTx, AtRx, Kept, BagToSet
<1>3. KeptInv /\ StackInv => AloneNothingLost
  BY <1>1, <1>2 DEF AloneNothingLost
<1> QED BY <1>3, KeptAlways, StackAlways, PTL
====
