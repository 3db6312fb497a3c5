----------------------------- MODULE Ssh_proofs -----------------------------
(* For any number of clients, connections and packets: handles are in use or *)
(* free and not both, whoever waits for data waits at a socket that is there, *)
(* a socket outlives its process only until its data is read or its count was *)
(* spoilt, data reaches a stranger only by way of a stale session, and when   *)
(* nothing is under way a connected client has a socket or was silenced.      *)
EXTENDS Ssh, TLAPS, FiniteSetTheorems, WellFoundedInduction

\* A set of numbers has a smallest one (< on Nat is well founded).
LEMMA LeastExists ==
  ASSUME NEW S \in SUBSET Nat, S # {}
  PROVE  \E i \in S : \A j \in S : i <= j
<1>1. PICK x \in S : \A y \in S : ~(<<y, x>> \in OpToRel(<, Nat))
  BY NatLessThanWellFounded, WFMin, Zenon
<1>2. \A y \in S : ~(y < x)
  BY <1>1, Zenon DEF OpToRel
<1> QED BY <1>2

States == {"none", "greeting", "parked", "run", "busy", "exiting", "failed", "lost",
           "gone"}
Active == {"greeting", "busy", "run", "parked"}
Entries == [owner : {NoSession} \cup Sessions, remote : {Nobody} \cup Clients,
            count : Int, rx : Nat, waiting : SUBSET Sessions]
Packets == [type : {"Ack", "Data", "Fin"}, from : {NoSession} \cup Sessions]

\* What does not change but when a connection is accepted.
ProcTypes ==
  /\ accepted \in 0 .. MaxAttempts
  /\ handle \in [Sessions -> Handles]
  /\ peer \in [Sessions -> {Nobody} \cup Clients]
  /\ handleCounter \in FirstHandle .. FirstHandle + accepted

(* The rest is stated for any table sk and processes st, free handles free,   *)
(* stale sessions old and closing sessions cl, so that it can be said of the  *)
(* middle of an action too.                                                   *)

TableTypes(sk, st, free, old, cl) ==
  /\ sk \in [Handles -> Entries]
  /\ st \in [Sessions -> States]
  /\ free \subseteq Handles /\ old \subseteq Sessions
  /\ cl \subseteq Sessions /\ \A s \in cl : s <= accepted
  /\ \A s \in Sessions : st[s] = "none" <=> s > accepted

\* A socket is the one its owner was given, and is the owner's client's.
Owned(sk) ==
  \A h \in Handles : sk[h] # NoSocket =>
    /\ sk[h].owner \in 1 .. accepted /\ sk[h].owner \in Sessions
    /\ handle[sk[h].owner] = h
    /\ sk[h].remote = peer[sk[h].owner] /\ sk[h].remote \in Clients
    /\ sk[h].count <= 1

FreeExact(sk, free) ==
  \A h \in Handles : /\ h \in free <=> h < handleCounter /\ sk[h] = NoSocket
                     /\ h >= handleCounter => sk[h] = NoSocket

\* Whoever is registered on a queue was given that socket's handle.
Waits(sk) ==
  \A h \in Handles : \A s \in sk[h].waiting : handle[s] = h /\ s <= accepted

Served(sk, st) ==
  \A s \in Sessions : st[s] = "parked" =>
    /\ sk[handle[s]] # NoSocket
    /\ s \in sk[handle[s]].waiting
    /\ sk[handle[s]].rx = 0

\* A session that is at work has its socket, unless it is stale.
HasSocket(sk, st, old) ==
  \A s \in Sessions : st[s] \in Active /\ s \notin old =>
    sk[handle[s]] # NoSocket /\ sk[handle[s]].owner = s

Good(sk, st, free, old, cl) ==
  /\ TableTypes(sk, st, free, old, cl)
  /\ Owned(sk) /\ FreeExact(sk, free) /\ Waits(sk)
  /\ Served(sk, st) /\ HasSocket(sk, st, old)

\* SocketsReleased, except for the socket at x.
ReleasedBut(x, sk, st, cl) ==
  \A h \in Handles \ {x} : sk[h] # NoSocket /\ st[sk[h].owner] = "gone" =>
    sk[h].count < 0 \/ \E s \in cl : handle[s] = h

\* Output on its way to a client that is not its session's is a stale one's.
NetInv ==
  /\ down \in [Clients -> Seq(Packets)]
  /\ \A c \in Clients : \A i \in 1 .. Len(down[c]) :
       down[c][i].type = "Data" =>
         /\ down[c][i].from \in 1 .. accepted
         /\ peer[down[c][i].from] # c => down[c][i].from \in stale

TableInv ==
  /\ Good(sock, state, freeHandles, stale, closing)
  /\ ReleasedBut(0, sock, state, closing)

SshInv == ProcTypes /\ TableInv /\ NetInv /\ strayed \subseteq stale

----------------------------------------------------------------------------
\* The handle is a number between two, so each fact about it is arithmetic.
LEMMA Constant ==
  /\ MaxAttempts \in Nat /\ Sessions = 1 .. MaxAttempts
  /\ Handles = 2 .. 1 + MaxAttempts
  /\ Nobody \notin Clients /\ 0 \notin Handles /\ NoSession \notin Sessions
  /\ NoSocket \in Entries
  BY ConstantsAssumption DEF Sessions, Handles, FirstHandle, NoSession, NoSocket, Entries

LEMMA SshInit == Init => SshInv
<1> SUFFICES ASSUME Init PROVE SshInv
  OBVIOUS
<1>1. ProcTypes
  BY Constant DEF Init, ProcTypes, FirstHandle
<1>2. Good(sock, state, freeHandles, stale, closing)
  <2>1. TableTypes(sock, state, freeHandles, stale, closing)
    BY Constant DEF Init, TableTypes, States
  <2>2. Owned(sock) /\ Waits(sock)
    BY DEF Init, Owned, Waits, NoSocket
  <2>3. FreeExact(sock, freeHandles)
    BY Constant DEF Init, FreeExact, FirstHandle
  <2>4. Served(sock, state) /\ HasSocket(sock, state, stale)
    BY DEF Init, Served, HasSocket, Active
  <2> QED BY <2>1, <2>2, <2>3, <2>4 DEF Good
<1>3. ReleasedBut(0, sock, state, closing)
  BY DEF Init, ReleasedBut
<1>4. NetInv
  BY DEF Init, NetInv
<1> QED BY <1>1, <1>2, <1>3, <1>4 DEF Init, SshInv, TableInv

\* The four properties follow.
LEMMA SshInvImplies ==
  SshInv => HandlesExact /\ ReadersServed /\ SocketsReleased /\ NoCrossTalk
<1> SUFFICES ASSUME SshInv
             PROVE  HandlesExact /\ ReadersServed /\ SocketsReleased /\ NoCrossTalk
  OBVIOUS
<1> ProcTypes /\ Good(sock, state, freeHandles, stale, closing)
  BY DEF SshInv, TableInv
<1>1. HandlesExact
  <2>1. FreeExact(sock, freeHandles) /\ freeHandles \subseteq Handles
    BY DEF Good, TableTypes
  <2>2. \A h \in Handles : Live(h) <=> sock[h] # NoSocket
    BY DEF Live
  <2>3. \A h \in Handles : h \in Int /\ handleCounter \in Int
    BY Constant DEF ProcTypes, FirstHandle
  <2> HIDE DEF NoSocket
  <2>4. freeHandles = {h \in Handles : h < handleCounter /\ ~Live(h)}
    BY <2>1, <2>2, Zenon DEF FreeExact
  <2>5. \A h \in Handles : Live(h) => h < handleCounter
    BY <2>1, <2>2, <2>3 DEF FreeExact
  <2> QED BY <2>4, <2>5 DEF HandlesExact
<1>2. ReadersServed
  BY DEF Good, Served, ReadersServed, Live, ProcTypes
<1>3. SocketsReleased
  <2>1. ReleasedBut(0, sock, state, closing)
    BY DEF SshInv, TableInv
  <2> QED BY <2>1, Constant DEF ReleasedBut, SocketsReleased, Live
<1> QED BY <1>1, <1>2, <1>3 DEF SshInv, NoCrossTalk

----------------------------------------------------------------------------
(* Closing *)

\* close_socket in any table that has the waiting sessions of the real one: who
\* read there is told, and who worked with the socket is stale from now on.
LEMMA CloseGood ==
  ASSUME ProcTypes, NEW sk, NEW st, NEW cl, NEW h \in Handles,
         Good(sk, st, freeHandles, stale, cl),
         sk[h] # NoSocket, sock[h].waiting = sk[h].waiting,
         sock[h].owner = sk[h].owner,
         CloseSocket(h, sk, st)
  PROVE  Good(sock', state', freeHandles', stale', cl)
<1> USE DEF ProcTypes
<1> DEFINE o == sk[h].owner
<1>1. /\ TableTypes(sk, st, freeHandles, stale, cl) /\ Owned(sk)
      /\ FreeExact(sk, freeHandles) /\ Waits(sk) /\ Served(sk, st)
      /\ HasSocket(sk, st, stale)
  BY DEF Good
<1>2. /\ sock' = [sk EXCEPT ![h] = NoSocket]
      /\ freeHandles' = freeHandles \cup {h}
      /\ state' = Told(h, st)
      /\ stale' = IF st[o] \in {"greeting", "busy", "run"} THEN stale \cup {o} ELSE stale
  BY DEF CloseSocket
<1>3. o \in Sessions /\ o <= accepted /\ handle[o] = h
  BY <1>1, Constant DEF Owned
<1>4. /\ sock'[h] = NoSocket
      /\ \A i \in Handles \ {h} : sock'[i] = sk[i]
      /\ sock' \in [Handles -> Entries]
  BY <1>1, <1>2, Constant DEF TableTypes
<1>5. ASSUME NEW s \in Sessions
      PROVE  /\ s \in sk[h].waiting /\ st[s] = "parked" => state'[s] \in {"failed", "lost"}
             /\ ~(s \in sk[h].waiting /\ st[s] = "parked") => state'[s] = st[s]
  BY <1>2 DEF Told
<1>6. state' \in [Sessions -> States]
  <2>1. \A s \in Sessions : state'[s] \in States
    BY <1>1, <1>5 DEF TableTypes, States
  <2> QED BY <1>2, <2>1 DEF Told
<1>7. stale \subseteq stale' /\ stale' \subseteq Sessions
  BY <1>1, <1>2, <1>3 DEF TableTypes
<1> HIDE DEF o, NoSocket
<1>8. TableTypes(sock', state', freeHandles', stale', cl)
  <2>1. \A s \in Sessions : state'[s] = "none" <=> st[s] = "none"
    BY <1>5
  <2> QED BY <1>1, <1>2, <1>4, <1>6, <1>7, <2>1 DEF TableTypes
<1>9. Owned(sock')
  BY <1>1, <1>4 DEF Owned
<1>10. FreeExact(sock', freeHandles')
  <2>1. h < handleCounter
    <3>1. h \in Int /\ handleCounter \in Int
      BY Constant DEF FirstHandle
    <3> QED BY <1>1, <3>1 DEF FreeExact
  <2> QED BY <1>1, <1>2, <1>4, <2>1 DEF FreeExact
<1>11. Waits(sock')
  <2>1. sock'[h].waiting = {}
    BY <1>4 DEF NoSocket
  <2> QED BY <1>1, <1>4, <2>1 DEF Waits
<1>12. Served(sock', state')
  <2>1. ASSUME NEW s \in Sessions, state'[s] = "parked"
        PROVE  handle[s] \in Handles \ {h} /\ st[s] = "parked"
    <3>1. st[s] = "parked" /\ s \notin sk[h].waiting
      BY <1>5, <2>1
    <3> QED BY <1>1, <3>1 DEF Served
  <2> QED BY <1>1, <1>4, <2>1 DEF Served
<1>13. HasSocket(sock', state', stale')
  <2>1. ASSUME NEW s \in Sessions, state'[s] \in Active, s \notin stale'
        PROVE  /\ sk[handle[s]] # NoSocket /\ sk[handle[s]].owner = s
               /\ handle[s] \in Handles \ {h}
    <3>1. st[s] = state'[s]
      BY <1>5, <2>1 DEF Active
    <3>2. sk[handle[s]] # NoSocket /\ sk[handle[s]].owner = s
      BY <1>1, <1>7, <2>1, <3>1 DEF HasSocket
    <3>3. handle[s] = h => s = o
      BY <3>2 DEF o
    <3>4. s # o
      <4>1. SUFFICES ASSUME s = o PROVE FALSE
        OBVIOUS
      <4>2. CASE st[s] = "parked"
        <5>1. s \in sk[h].waiting
          BY <1>1, <1>3, <4>1, <4>2 DEF Served
        <5> QED BY <1>5, <2>1, <4>2, <5>1 DEF Active
      <4>3. CASE st[s] \in {"greeting", "busy", "run"}
        BY <1>2, <2>1, <4>1, <4>3
      <4> QED BY <2>1, <3>1, <4>2, <4>3 DEF Active
    <3> QED BY <3>2, <3>3, <3>4
  <2> QED BY <1>4, <2>1 DEF HasSocket
<1> QED BY <1>8, <1>9, <1>10, <1>11, <1>12, <1>13 DEF Good

\* It leaves the other sockets and the ended sessions alone.
LEMMA CloseReleases ==
  ASSUME ProcTypes, NEW sk, NEW st, NEW cl, NEW cl1, NEW h \in Handles,
         Good(sk, st, freeHandles, stale, cl),
         ReleasedBut(h, sk, st, cl),
         \A s \in cl \ cl1 : handle[s] = h,
         CloseSocket(h, sk, st)
  PROVE  ReleasedBut(0, sock', state', cl1)
<1>1. /\ sock' = [sk EXCEPT ![h] = NoSocket]
      /\ \A s \in Sessions : state'[s] = "gone" => st[s] = "gone"
  BY DEF CloseSocket, Told
<1>2. sk \in [Handles -> Entries] /\ Owned(sk)
  BY DEF Good, TableTypes
<1>3. ASSUME NEW i \in Handles, sock'[i] # NoSocket, state'[sock'[i].owner] = "gone"
      PROVE  sock'[i].count < 0 \/ \E s \in cl1 : handle[s] = i
  <2>1. i # h /\ sock'[i] = sk[i] /\ sk[i] # NoSocket
    BY <1>1, <1>2, <1>3
  <2>2. st[sk[i].owner] = "gone"
    BY <1>1, <1>2, <1>3, <2>1 DEF Owned
  <2>3. sk[i].count < 0 \/ \E s \in cl : handle[s] = i
    BY <2>1, <2>2 DEF ReleasedBut
  <2> QED BY <2>1, <2>3
<1> QED BY <1>3 DEF ReleasedBut

\* async_close_socket, in a table in which the socket at s's handle may be
\* anybody's: it is closed, or s waits for its data.
LEMMA AsyncCloseGood ==
  ASSUME ProcTypes, NEW sk, NEW st, NEW s \in Sessions, s <= accepted,
         Good(sk, st, freeHandles, stale, closing),
         ReleasedBut(handle[s], sk, st, closing),
         sock[handle[s]].waiting = sk[handle[s]].waiting,
         sock[handle[s]].owner = sk[handle[s]].owner,
         AsyncClose(s, sk, st)
  PROVE  /\ Good(sock', state', freeHandles', stale', closing')
         /\ ReleasedBut(0, sock', state', closing')
         /\ stale \subseteq stale'
         /\ Nothing \/ \E c \in Clients : Sent(c, Packet("Fin"))
<1> USE DEF ProcTypes
<1>1. PICK h \in Handles : h = handle[s]
  OBVIOUS
<1>2. CASE sk[h] = NoSocket
  <2>1. /\ sock' = sk /\ state' = st /\ freeHandles' = freeHandles
        /\ closing' = closing /\ stale' = stale /\ Nothing
    BY <1>1, <1>2 DEF AsyncClose
  <2>2. ReleasedBut(0, sk, st, closing)
    BY <1>1, <1>2 DEF ReleasedBut
  <2> QED BY <2>1, <2>2
<1>3. CASE sk[h] # NoSocket /\ sk[h].rx = 0
  <2>1. /\ CloseSocket(h, sk, st) /\ closing' = closing
        /\ Sent(sk[h].remote, Packet("Fin"))
    BY <1>1, <1>3 DEF AsyncClose
  <2>2. Good(sock', state', freeHandles', stale', closing)
    BY <1>1, <1>3, <2>1, CloseGood
  <2>3. ReleasedBut(0, sock', state', closing)
    <3>1. \A q \in closing \ closing : handle[q] = h
      OBVIOUS
    <3> QED BY <1>1, <2>1, <3>1, CloseReleases
  <2>4. sk[h].remote \in Clients
    BY <1>3 DEF Good, Owned
  <2>5. stale \subseteq stale'
    BY <2>1 DEF CloseSocket
  <2> QED BY <2>1, <2>2, <2>3, <2>4, <2>5
<1>4. CASE sk[h] # NoSocket /\ sk[h].rx # 0
  <2>1. /\ sock' = sk /\ state' = st /\ freeHandles' = freeHandles
        /\ closing' = closing \cup {s} /\ stale' = stale
        /\ Sent(sk[h].remote, Packet("Fin"))
    BY <1>1, <1>4 DEF AsyncClose
  <2>2. sk[h].remote \in Clients
    BY <1>4 DEF Good, Owned
  <2>3. ReleasedBut(0, sk, st, closing \cup {s})
    BY <1>1 DEF ReleasedBut
  <2>4. Good(sk, st, freeHandles, stale, closing \cup {s})
    BY DEF Good, TableTypes
  <2> QED BY <2>1, <2>2, <2>3, <2>4
<1> QED BY <1>2, <1>3, <1>4

\* What is said on the way down stays true when something is added.
LEMMA SentNet ==
  ASSUME NetInv, NEW c \in Clients, NEW packet \in Packets,
         packet.type = "Data" =>
           /\ packet.from \in 1 .. accepted
           /\ peer[packet.from] # c => packet.from \in stale,
         Sent(c, packet) \/ Nothing,
         accepted \in Nat, accepted' \in Nat, accepted <= accepted',
         \A s \in 1 .. accepted : peer'[s] = peer[s],
         stale \subseteq stale'
  PROVE  NetInv'
<1>1. down' = down \/ down' = [down EXCEPT ![c] = Append(@, packet)]
  BY DEF Sent, Nothing
<1>2. down \in [Clients -> Seq(Packets)]
  BY DEF NetInv
<1>3. down' \in [Clients -> Seq(Packets)]
  <2>1. Append(down[c], packet) \in Seq(Packets)
    BY <1>2
  <2> QED BY <1>1, <1>2, <2>1
<1>4. ASSUME NEW d \in Clients, NEW i \in 1 .. Len(down'[d]), down'[d][i].type = "Data"
      PROVE  /\ down'[d][i].from \in 1 .. accepted
             /\ peer[down'[d][i].from] # d => down'[d][i].from \in stale
  <2>1. CASE down'[d] = down[d]
    BY <1>4, <2>1 DEF NetInv
  <2>2. CASE d = c /\ down'[d] = Append(down[c], packet)
    <3>1. down[c] \in Seq(Packets)
      BY <1>2
    <3>2. /\ Len(down'[d]) = Len(down[c]) + 1
          /\ \A j \in 1 .. Len(down[c]) : down'[d][j] = down[c][j]
          /\ down'[d][Len(down[c]) + 1] = packet
      BY <2>2, <3>1
    <3>3. CASE i = Len(down[c]) + 1
      BY <1>4, <2>2, <3>2, <3>3
    <3>4. CASE i \in 1 .. Len(down[c])
      BY <1>4, <2>2, <3>2, <3>4 DEF NetInv
    <3>5. Len(down[c]) \in Nat
      BY <3>1
    <3> QED BY <3>2, <3>3, <3>4, <3>5
  <2> QED BY <1>1, <1>2, <2>1, <2>2
<1>5. ASSUME NEW d \in Clients, NEW i \in 1 .. Len(down'[d]), down'[d][i].type = "Data"
      PROVE  /\ down'[d][i].from \in 1 .. accepted'
             /\ peer'[down'[d][i].from] # d => down'[d][i].from \in stale'
  BY <1>4, <1>5
<1> QED BY <1>3, <1>5 DEF NetInv

----------------------------------------------------------------------------
(* The end of a session process *)

\* A table with one count one lower is as good.
LEMMA CountGood ==
  ASSUME ProcTypes, NEW sk, NEW st, NEW e \in Handles,
         Good(sock, st, freeHandles, stale, closing), sock[e] # NoSocket,
         sk = [sock EXCEPT ![e].count = @ - 1]
  PROVE  /\ Good(sk, st, freeHandles, stale, closing)
         /\ sk[e].count = sock[e].count - 1
         /\ \A h \in Handles : /\ sk[h] = NoSocket <=> sock[h] = NoSocket
                               /\ sk[h].waiting = sock[h].waiting
                               /\ sk[h].owner = sock[h].owner
                               /\ h # e => sk[h] = sock[h]
<1>1. /\ TableTypes(sock, st, freeHandles, stale, closing) /\ Owned(sock)
      /\ FreeExact(sock, freeHandles) /\ Waits(sock) /\ Served(sock, st)
      /\ HasSocket(sock, st, stale)
  BY DEF Good
<1>2. sock[e] \in Entries /\ sock[e].owner \in Sessions /\ sock[e].count <= 1
  BY <1>1 DEF TableTypes, Owned
<1>3. sk[e] = [sock[e] EXCEPT !.count = @ - 1] /\ \A h \in Handles \ {e} : sk[h] = sock[h]
  BY <1>1 DEF TableTypes
<1>4. /\ sk[e].count = sock[e].count - 1 /\ sk[e].owner = sock[e].owner
      /\ sk[e].remote = sock[e].remote /\ sk[e].rx = sock[e].rx
      /\ sk[e].waiting = sock[e].waiting /\ sk[e] \in Entries
  BY <1>2, <1>3 DEF Entries
<1>5. sk[e] # NoSocket
  BY <1>2, <1>4, Constant DEF NoSocket
<1>6. sk \in [Handles -> Entries]
  BY <1>1, <1>4 DEF TableTypes
<1> HIDE DEF NoSocket
<1>7. \A h \in Handles : /\ sk[h] = NoSocket <=> sock[h] = NoSocket
                         /\ sk[h].waiting = sock[h].waiting
                         /\ sk[h].owner = sock[h].owner
                         /\ sk[h].remote = sock[h].remote
                         /\ sk[h].rx = sock[h].rx
                         /\ h # e => sk[h] = sock[h]
  BY <1>3, <1>4, <1>5
<1>8. TableTypes(sk, st, freeHandles, stale, closing)
  BY <1>1, <1>6 DEF TableTypes
<1>9. Owned(sk)
  <2>1. sk[e].count <= 1
    BY <1>2, <1>4 DEF Entries
  <2>2. \A h \in Handles : sk[h] # NoSocket => sk[h].count <= 1
    BY <1>1, <1>7, <2>1 DEF Owned
  <2> QED BY <1>1, <1>7, <2>2 DEF Owned
<1>10. FreeExact(sk, freeHandles) /\ Waits(sk)
  BY <1>1, <1>7 DEF FreeExact, Waits
<1>11. Served(sk, st) /\ HasSocket(sk, st, stale)
  BY <1>1, <1>7 DEF Served, HasSocket, ProcTypes
<1> QED BY <1>4, <1>7, <1>8, <1>9, <1>10, <1>11 DEF Good

LEMMA ExitGood ==
  ASSUME SshInv, NEW s \in Sessions, Exit(s)
  PROVE  SshInv'
<1> DEFINE st == [state EXCEPT ![s] = "gone"]
<1>1. /\ ProcTypes /\ NetInv /\ ReleasedBut(0, sock, state, closing)
      /\ Good(sock, state, freeHandles, stale, closing)
      /\ TableTypes(sock, state, freeHandles, stale, closing) /\ Owned(sock)
      /\ state[s] \in {"exiting", "failed", "lost"}
      /\ UNCHANGED <<handleCounter, handle, peer, accepted, strayed>>
      /\ strayed \subseteq stale
  BY DEF SshInv, TableInv, Good, Exit
<1>0. s <= accepted
  BY <1>1, Constant DEF TableTypes, ProcTypes
<1>2. /\ st[s] = "gone" /\ st \in [Sessions -> States]
      /\ \A q \in Sessions \ {s} : st[q] = state[q]
  BY <1>1 DEF TableTypes, States
<1> HIDE DEF st
<1>3. Good(sock, st, freeHandles, stale, closing)
  <2>1. TableTypes(sock, st, freeHandles, stale, closing)
    <3>1. \A q \in Sessions : st[q] = "none" <=> state[q] = "none"
      BY <1>1, <1>2
    <3> QED BY <1>1, <1>2, <3>1 DEF TableTypes
  <2>2. Served(sock, st) /\ HasSocket(sock, st, stale)
    <3>1. \A q \in Sessions : st[q] \in Active => st[q] = state[q]
      BY <1>2 DEF Active
    <3> QED BY <1>1, <3>1 DEF Good, Served, HasSocket, Active
  <2> QED BY <1>1, <2>1, <2>2 DEF Good
\* Only the socket that s owns has an owner that has just gone.
<1>4. ReleasedBut(handle[s], sock, st, closing)
  <2>1. ASSUME NEW h \in Handles, sock[h] # NoSocket, h # handle[s]
        PROVE  sock[h].owner \in Sessions \ {s}
    BY <1>1, <2>1 DEF Owned
  <2> QED BY <1>1, <1>2, <2>1, Constant DEF ReleasedBut
<1>5. ~Owns(s) => ReleasedBut(0, sock, st, closing)
  <2>1. ASSUME ~Owns(s), NEW h \in Handles, sock[h] # NoSocket
        PROVE  sock[h].owner \in Sessions \ {s}
    BY <1>1, <2>1 DEF Owned, Owns, Live
  <2> QED BY <1>1, <1>2, <2>1, Constant DEF ReleasedBut
<1> DEFINE Conclusion ==
       /\ Good(sock', state', freeHandles', stale', closing')
       /\ ReleasedBut(0, sock', state', closing')
       /\ stale \subseteq stale'
       /\ Nothing \/ \E c \in Clients : Sent(c, Packet("Fin"))
<1>6. ASSUME NEW e \in Handles, sock[e] # NoSocket, CountDown(s, e, st),
             Owns(s) => e = handle[s]
      PROVE  Conclusion
  <2> DEFINE sk == [sock EXCEPT ![e].count = @ - 1]
  <2>1. /\ Good(sk, st, freeHandles, stale, closing)
        /\ sk[e].count = sock[e].count - 1
        /\ \A h \in Handles : /\ sk[h] = NoSocket <=> sock[h] = NoSocket
                              /\ sk[h].waiting = sock[h].waiting
                              /\ sk[h].owner = sock[h].owner
                              /\ h # e => sk[h] = sock[h]
    BY <1>1, <1>3, <1>6, CountGood
  <2>2. sock[e].count \in Int /\ sock[e].count <= 1
    BY <1>1, <1>6 DEF TableTypes, Owned, Entries
  <2>3. \/ sk[e].count = 0 /\ AsyncClose(s, sk, st)
        \/ /\ sk[e].count # 0 /\ sock' = sk /\ state' = st
           /\ Nothing /\ UNCHANGED <<freeHandles, closing, stale>>
    BY <1>6 DEF CountDown
  <2> HIDE DEF sk, NoSocket
  <2>4. ReleasedBut(handle[s], sk, st, closing)
    <3>1. ASSUME NEW h \in Handles \ {handle[s]}, sk[h] # NoSocket,
                 st[sk[h].owner] = "gone"
          PROVE  sk[h].count < 0 \/ \E q \in closing : handle[q] = h
      <4>1. sock[h].count < 0 \/ \E q \in closing : handle[q] = h
        BY <1>4, <2>1, <3>1 DEF ReleasedBut
      <4>2. sock[h].count < 0 => sk[h].count < 0
        <5>1. CASE h = e
          BY <2>1, <2>2, <5>1
        <5>2. CASE h # e
          BY <2>1, <5>2
        <5> QED BY <5>1, <5>2
      <4> QED BY <4>1, <4>2
    <3> QED BY <3>1 DEF ReleasedBut
  <2>5. sk[e].count # 0 => ReleasedBut(0, sk, st, closing)
    <3> SUFFICES ASSUME sk[e].count # 0, NEW h \in Handles \ {0}, sk[h] # NoSocket,
                        st[sk[h].owner] = "gone"
                 PROVE  sk[h].count < 0 \/ \E q \in closing : handle[q] = h
      BY DEF ReleasedBut
    <3>1. CASE h # handle[s]
      BY <2>4, <3>1 DEF ReleasedBut
    <3>2. CASE h = e
      BY <2>1, <2>2, <3>2
    <3>3. CASE h = handle[s] /\ h # e
      <4>1. ~Owns(s) /\ sk[h] = sock[h]
        BY <1>6, <2>1, <3>3
      <4> QED BY <1>5, <4>1 DEF ReleasedBut
    <3> QED BY <3>1, <3>2, <3>3
  <2>6. CASE AsyncClose(s, sk, st)
    <3>1. handle[s] \in Handles
      BY <1>1 DEF ProcTypes
    <3>2. /\ sock[handle[s]].waiting = sk[handle[s]].waiting
          /\ sock[handle[s]].owner = sk[handle[s]].owner
      BY <2>1, <3>1
    <3> QED BY <1>0, <1>1, <2>1, <2>4, <2>6, <3>2, AsyncCloseGood
  <2>7. CASE /\ sk[e].count # 0 /\ sock' = sk /\ state' = st
             /\ Nothing /\ UNCHANGED <<freeHandles, closing, stale>>
    BY <2>1, <2>5, <2>7
  <2> QED BY <2>3, <2>6, <2>7
<1>7. Conclusion
  <2>1. CASE Owns(s) /\ CountDown(s, handle[s], st)
    BY <1>6, <2>1 DEF Owns, Live
  <2>2. CASE /\ ~Owns(s) /\ state' = st
             /\ Nothing /\ UNCHANGED <<sock, freeHandles, closing, stale>>
    BY <1>3, <1>5, <2>2
  <2>3. CASE ~Owns(s) /\ AsyncClose(s, sock, st)
    BY <1>0, <1>1, <1>3, <1>4, <2>3, AsyncCloseGood
  <2>4. CASE ~Owns(s) /\ \E e \in Handles : Live(e) /\ CountDown(s, e, st)
    BY <1>6, <2>4 DEF Live
  <2> QED BY <2>1, <2>2, <2>3, <2>4 DEF Exit, st
<1> HIDE DEF Good, ReleasedBut
<1>8. NetInv'
  <2>1. accepted \in Nat /\ accepted' = accepted /\ peer' = peer
    BY <1>1 DEF ProcTypes
  <2>2. Packet("Fin") \in Packets /\ Packet("Fin").type # "Data"
    BY DEF Packet, Packets
  <2>3. CASE Nothing
    BY <1>1, <1>7, <2>1, <2>3 DEF NetInv, Nothing
  <2>4. CASE \E c \in Clients : Sent(c, Packet("Fin"))
    BY <1>1, <1>7, <2>1, <2>2, <2>4, SentNet
  <2> QED BY <1>7, <2>3, <2>4
<1>9. ProcTypes' /\ strayed' \subseteq stale'
  BY <1>1, <1>7 DEF ProcTypes
<1>10. TableInv'
  BY <1>1, <1>7 DEF TableInv, Good, TableTypes, Owned, FreeExact, Waits, Served,
     HasSocket, ReleasedBut
<1> QED BY <1>8, <1>9, <1>10 DEF SshInv

----------------------------------------------------------------------------
(* Steps that keep the table of sockets, but for their data and readers *)

\* The invariant is put together again from its parts.
LEMMA Composed ==
  ASSUME SshInv, UNCHANGED <<handleCounter, handle, peer, accepted>>,
         Good(sock', state', freeHandles', stale', closing'),
         ReleasedBut(0, sock', state', closing'), NetInv', strayed' \subseteq stale'
  PROVE  SshInv'
<1>1. ProcTypes'
  BY DEF SshInv, ProcTypes
<1>2. TableInv'
  BY DEF TableInv, Good, TableTypes, Owned, FreeExact, Waits, Served, HasSocket,
     ReleasedBut
<1> QED BY <1>1, <1>2 DEF SshInv

\* A table with the same sockets, and no process at work or gone that was not.
LEMMA SameSockets ==
  ASSUME SshInv, NEW sk \in [Handles -> Entries], NEW st \in [Sessions -> States],
         \A h \in Handles : sk[h] = sock[h] \/
           /\ sock[h] # NoSocket
           /\ sk[h].owner = sock[h].owner /\ sk[h].remote = sock[h].remote
           /\ sk[h].count = sock[h].count,
         \A s \in Sessions : st[s] = state[s] \/
           (st[s] \notin {"none", "gone"} /\ state[s] \in Active),
         Waits(sk), Served(sk, st)
  PROVE  /\ Good(sk, st, freeHandles, stale, closing)
         /\ ReleasedBut(0, sk, st, closing)
<1>1. /\ TableTypes(sock, state, freeHandles, stale, closing) /\ Owned(sock)
      /\ FreeExact(sock, freeHandles) /\ HasSocket(sock, state, stale)
      /\ ReleasedBut(0, sock, state, closing) /\ ProcTypes
  BY DEF SshInv, TableInv, Good
<1>2. \A h \in Handles : /\ sk[h] = NoSocket <=> sock[h] = NoSocket
                         /\ sk[h].owner = sock[h].owner
                         /\ sk[h].remote = sock[h].remote
                         /\ sk[h].count = sock[h].count
  <2>1. \A h \in Handles : sock[h] # NoSocket => sock[h].owner # NoSocket.owner
    BY <1>1, Constant DEF Owned, NoSocket
  <2> HIDE DEF NoSocket
  <2> QED BY <2>1
<1> HIDE DEF NoSocket
<1>3. \A s \in Sessions : /\ st[s] = "none" <=> state[s] = "none"
                          /\ st[s] = "gone" <=> state[s] = "gone"
                          /\ st[s] \in Active => state[s] \in Active
  BY DEF Active
<1>4. TableTypes(sk, st, freeHandles, stale, closing)
  BY <1>1, <1>3 DEF TableTypes
<1>5. Owned(sk) /\ FreeExact(sk, freeHandles)
  BY <1>1, <1>2 DEF Owned, FreeExact
<1>6. HasSocket(sk, st, stale)
  BY <1>1, <1>2, <1>3 DEF HasSocket, ProcTypes
<1>7. ReleasedBut(0, sk, st, closing)
  <2>1. \A h \in Handles : sk[h] # NoSocket => sk[h].owner \in Sessions
    BY <1>1, <1>2 DEF Owned
  <2> QED BY <1>1, <1>2, <1>3, <2>1 DEF ReleasedBut
<1> QED BY <1>4, <1>5, <1>6, <1>7 DEF Good

\* A session at work that is not stale writes to its own client.
LEMMA OwnClient ==
  ASSUME SshInv, NEW s \in Sessions, state[s] \in Active
  PROVE  /\ s \in 1 .. accepted
         /\ Live(handle[s]) => sock[handle[s]].remote \in Clients
         /\ Live(handle[s]) /\ sock[handle[s]].remote # peer[s] => s \in stale
<1>1. /\ TableTypes(sock, state, freeHandles, stale, closing) /\ Owned(sock)
      /\ HasSocket(sock, state, stale) /\ ProcTypes
  BY DEF SshInv, TableInv, Good
<1>2. s \in 1 .. accepted
  BY <1>1, Constant DEF TableTypes, ProcTypes, Active
<1>3. handle[s] \in Handles
  BY <1>1 DEF ProcTypes
<1> QED BY <1>1, <1>2, <1>3 DEF Live, Owned, HasSocket

LEMMA StateStep ==
  ASSUME SshInv, NEW s \in Sessions, NEW to \in {"busy", "exiting", "lost"},
         state[s] \in Active, state' = [state EXCEPT ![s] = to], sock' = sock
  PROVE  /\ Good(sock', state', freeHandles, stale, closing)
         /\ ReleasedBut(0, sock', state', closing)
<1>1. /\ TableTypes(sock, state, freeHandles, stale, closing)
      /\ Waits(sock) /\ Served(sock, state)
  BY DEF SshInv, TableInv, Good
<1>2. /\ state' \in [Sessions -> States]
      /\ \A q \in Sessions : state'[q] = state[q] \/
           (state'[q] \notin {"none", "gone", "parked"} /\ state[q] \in Active)
  BY <1>1 DEF TableTypes, States
<1>3. Served(sock, state')
  BY <1>1, <1>2 DEF Served
<1>4. sock \in [Handles -> Entries]
  BY <1>1 DEF TableTypes
<1> QED BY <1>1, <1>2, <1>3, <1>4, SameSockets

\* Output sent by a session at work.
LEMMA Written ==
  ASSUME SshInv, NEW s \in Sessions, state[s] \in Active,
         IF Live(handle[s]) THEN Sent(sock[handle[s]].remote, DataOf(s)) ELSE Nothing,
         UNCHANGED <<accepted, peer, stale>>
  PROVE  NetInv'
<1>1. NetInv /\ accepted \in Nat
  BY DEF SshInv, ProcTypes
<1>2. CASE ~Live(handle[s])
  BY <1>1, <1>2 DEF NetInv, Nothing
<1>3. CASE Live(handle[s])
  <2>1. PICK c \in Clients : c = sock[handle[s]].remote
    BY <1>3, OwnClient
  <2>2. /\ DataOf(s) \in Packets /\ DataOf(s).from = s
    BY DEF DataOf, Packets
  <2>3. s \in 1 .. accepted /\ (peer[s] # c => s \in stale)
    BY <1>3, <2>1, OwnClient
  <2>4. Sent(c, DataOf(s))
    BY <1>3, <2>1
  <2>5. \A q \in 1 .. accepted : peer'[q] = peer[q]
    OBVIOUS
  <2> HIDE DEF Sent, DataOf
  <2> QED BY <1>1, <2>2, <2>3, <2>4, <2>5, SentNet
<1> QED BY <1>2, <1>3

LEMMA StartLeaveKillGood ==
  ASSUME SshInv, NEW s \in Sessions, StartCommand(s) \/ Leave(s) \/ Kill(s)
  PROVE  SshInv'
<1>1. /\ UNCHANGED <<sock, handleCounter, freeHandles, handle, peer, accepted, closing,
                     stale, strayed>>
      /\ state[s] \in Active
      /\ \E to \in {"busy", "exiting", "lost"} : state' = [state EXCEPT ![s] = to]
  BY DEF StartCommand, Leave, Kill, Active, table, ghosts
<1>2. /\ Good(sock', state', freeHandles, stale, closing)
      /\ ReleasedBut(0, sock', state', closing)
  BY <1>1, StateStep
<1>3. NetInv'
  <2>1. CASE Leave(s)
    BY <1>1, <2>1, Written DEF Leave
  <2>2. CASE StartCommand(s) \/ Kill(s)
    BY <1>1, <2>2 DEF SshInv, NetInv, StartCommand, Kill, wires
  <2> QED BY <2>1, <2>2
<1>4. strayed' \subseteq stale'
  BY <1>1 DEF SshInv
<1> HIDE DEF Good, ReleasedBut
<1> QED BY <1>1, <1>2, <1>3, <1>4, Composed

\* A session that reads takes data nobody waits for, or waits where there is none.
LEMMA AnswerGood ==
  ASSUME SshInv, NEW s \in Sessions, Answer(s)
  PROVE  SshInv'
<1>1. /\ UNCHANGED <<handleCounter, freeHandles, handle, peer, accepted, closing, stale>>
      /\ state[s] \in Active /\ Reads(s)
      /\ TableTypes(sock, state, freeHandles, stale, closing) /\ Waits(sock)
      /\ Served(sock, state) /\ ProcTypes /\ strayed \subseteq stale
  BY DEF Answer, Active, SshInv, TableInv, Good
<1>2. NetInv'
  BY <1>1, Written DEF Answer
<1>3. PICK h \in Handles : h = handle[s]
  BY <1>1 DEF ProcTypes
<1>4. sock \in [Handles -> Entries] /\ sock[h] \in Entries /\ s <= accepted
  BY <1>1, OwnClient DEF TableTypes
<1>5. Live(h) <=> sock[h] # NoSocket
  BY DEF Live
<1>6. CASE ~Live(h)
  <2>1. state' = [state EXCEPT ![s] = "lost"] /\ UNCHANGED <<sock, strayed>>
    BY <1>1, <1>3, <1>6 DEF Reads
  <2>2. /\ Good(sock', state', freeHandles, stale, closing)
        /\ ReleasedBut(0, sock', state', closing)
    BY <1>1, <2>1, StateStep
  <2> QED BY <1>1, <1>2, <2>1, <2>2, Composed
<1>7. CASE Live(h)
  <2> DEFINE e == sock'[h]
  <2>1. /\ \/ /\ sock[h].rx > 0 /\ state' = [state EXCEPT ![s] = "run"]
              /\ sock' = [sock EXCEPT ![h].rx = @ - 1]
              /\ strayed' = IF sock[h].remote # peer[s] THEN strayed \cup {s} ELSE strayed
           \/ /\ sock[h].rx = 0 /\ state' = [state EXCEPT ![s] = "parked"]
              /\ sock' = [sock EXCEPT ![h].waiting = @ \cup {s}]
              /\ UNCHANGED strayed
    BY <1>1, <1>3, <1>4, <1>7 DEF Reads, Entries
  <2>2. /\ e \in Entries /\ \A i \in Handles \ {h} : sock'[i] = sock[i]
        /\ sock' \in [Handles -> Entries]
        /\ e.owner = sock[h].owner /\ e.remote = sock[h].remote
        /\ e.count = sock[h].count
        /\ e.waiting = sock[h].waiting \/ e.waiting = sock[h].waiting \cup {s}
    <3>1. CASE /\ sock[h].rx > 0 /\ sock' = [sock EXCEPT ![h].rx = @ - 1]
      <4>1. e = [sock[h] EXCEPT !.rx = @ - 1]
        BY <1>4, <3>1
      <4>2. e \in Entries
        BY <1>4, <3>1, <4>1 DEF Entries
      <4> QED BY <1>4, <3>1, <4>1, <4>2 DEF Entries
    <3>2. CASE sock' = [sock EXCEPT ![h].waiting = @ \cup {s}]
      <4>1. e = [sock[h] EXCEPT !.waiting = @ \cup {s}]
        BY <1>4, <3>2
      <4>2. e \in Entries
        BY <1>4, <3>2, <4>1 DEF Entries
      <4> QED BY <1>4, <3>2, <4>1, <4>2 DEF Entries
    <3> QED BY <2>1, <3>1, <3>2
  <2>3. /\ state' \in [Sessions -> States]
        /\ state'[s] \in {"run", "parked"}
        /\ \A q \in Sessions \ {s} : state'[q] = state[q]
    BY <1>1, <2>1 DEF TableTypes, States
  <2>4. Waits(sock')
    <3>1. \A q \in e.waiting : handle[q] = h /\ q <= accepted
      BY <1>1, <1>3, <1>4, <2>2 DEF Waits
    <3> QED BY <1>1, <2>2, <3>1 DEF Waits
  <2>5. Served(sock', state')
    <3>1. e # NoSocket
      <4>1. sock[h].owner # NoSocket.owner
        BY <1>5, <1>7, Constant DEF NoSocket, SshInv, TableInv, Good, Owned
      <4> QED BY <2>2, <4>1
    <3> HIDE DEF NoSocket
    <3>2. CASE /\ sock[h].rx > 0 /\ state' = [state EXCEPT ![s] = "run"]
      <4>1. ASSUME NEW q \in Sessions, state'[q] = "parked"
            PROVE  state[q] = "parked" /\ handle[q] \in Handles \ {h}
        <5>1. q # s /\ state[q] = "parked"
          BY <1>1, <3>2, <4>1 DEF TableTypes
        <5>2. sock[handle[q]].rx = 0
          BY <1>1, <5>1 DEF Served
        <5> QED BY <1>1, <3>2, <5>1, <5>2 DEF ProcTypes
      <4> QED BY <1>1, <2>2, <4>1 DEF Served
    <3>3. CASE /\ sock[h].rx = 0 /\ state' = [state EXCEPT ![s] = "parked"]
               /\ sock' = [sock EXCEPT ![h].waiting = @ \cup {s}]
      <4>1. e = [sock[h] EXCEPT !.waiting = @ \cup {s}]
        BY <1>4, <3>3
      <4>2. e.rx = 0 /\ s \in e.waiting /\ sock[h].waiting \subseteq e.waiting
        BY <1>4, <3>3, <4>1 DEF Entries
      <4>3. ASSUME NEW q \in Sessions, state'[q] = "parked", q # s
            PROVE  /\ sock[handle[q]] # NoSocket /\ q \in sock[handle[q]].waiting
                   /\ sock[handle[q]].rx = 0 /\ handle[q] \in Handles
        <5>1. state[q] = "parked"
          BY <2>3, <4>3
        <5> QED BY <1>1, <5>1 DEF Served, ProcTypes
      <4>4. ASSUME NEW q \in Sessions, state'[q] = "parked"
            PROVE  /\ sock'[handle[q]] # NoSocket /\ q \in sock'[handle[q]].waiting
                   /\ sock'[handle[q]].rx = 0
        <5>1. CASE q = s
          BY <1>3, <3>1, <4>2, <5>1
        <5>2. CASE q # s /\ handle[q] = h
          BY <3>1, <4>2, <4>3, <4>4, <5>2
        <5>3. CASE q # s /\ handle[q] # h
          BY <2>2, <4>3, <4>4, <5>3
        <5> QED BY <5>1, <5>2, <5>3
      <4> QED BY <4>4 DEF Served
    <3> QED BY <2>1, <3>2, <3>3
  <2>6. /\ Good(sock', state', freeHandles, stale, closing)
        /\ ReleasedBut(0, sock', state', closing)
    <3>1. \A i \in Handles : sock'[i] = sock[i] \/
            /\ sock[i] # NoSocket
            /\ sock'[i].owner = sock[i].owner /\ sock'[i].remote = sock[i].remote
            /\ sock'[i].count = sock[i].count
      BY <1>5, <1>7, <2>2
    <3>2. \A q \in Sessions : state'[q] = state[q] \/
            (state'[q] \notin {"none", "gone"} /\ state[q] \in Active)
      BY <1>1, <2>3
    <3> HIDE DEF NoSocket
    <3> QED BY <2>2, <2>3, <2>4, <2>5, <3>1, <3>2, SameSockets
  <2>7. strayed' \subseteq stale
    <3>1. sock[h].remote # peer[s] => s \in stale
      BY <1>1, <1>3, <1>7, OwnClient
    <3> QED BY <1>1, <2>1, <3>1
  <2> HIDE DEF Good, ReleasedBut
  <2> QED BY <1>1, <1>2, <2>6, <2>7, Composed
<1> QED BY <1>6, <1>7

----------------------------------------------------------------------------
(* What arrives at the server, and the loop of async_close_socket *)

\* Data is pushed to the one who is registered, or where nobody is parked.
LEMMA PushedGood ==
  ASSUME SshInv, NEW c \in Clients, NEW h \in With(c), Pushed(c, h)
  PROVE  /\ Good(sock', state', freeHandles, stale, closing)
         /\ ReleasedBut(0, sock', state', closing)
         /\ strayed' \subseteq stale
<1>1. /\ TableTypes(sock, state, freeHandles, stale, closing) /\ Waits(sock)
      /\ Owned(sock) /\ Served(sock, state) /\ HasSocket(sock, state, stale)
      /\ ProcTypes /\ strayed \subseteq stale
      /\ h \in Handles /\ sock[h] # NoSocket /\ sock[h].remote = c
      /\ sock \in [Handles -> Entries] /\ sock[h] \in Entries
  BY DEF SshInv, TableInv, Good, With, Live, TableTypes
<1> DEFINE reading == {s \in sock[h].waiting : state[s] = "parked"}
           e == sock'[h]
<1>2. \/ /\ sock[h].waiting = {} /\ sock' = [sock EXCEPT ![h].rx = @ + 1]
         /\ UNCHANGED <<state, strayed>>
      \/ /\ sock' = [sock EXCEPT ![h].waiting = {}]
         /\ state' = [s \in Sessions |-> IF s \in reading THEN "run" ELSE state[s]]
         /\ strayed' = strayed \cup {s \in reading : peer[s] # c}
  BY DEF Pushed
<1>3. /\ e \in Entries /\ \A i \in Handles \ {h} : sock'[i] = sock[i]
      /\ sock' \in [Handles -> Entries] /\ e.owner = sock[h].owner
      /\ e.remote = sock[h].remote /\ e.count = sock[h].count /\ e.waiting = {}
  <2>1. CASE sock[h].waiting = {} /\ sock' = [sock EXCEPT ![h].rx = @ + 1]
    <3>1. e = [sock[h] EXCEPT !.rx = @ + 1]
      BY <1>1, <2>1
    <3>2. e \in Entries
      BY <1>1, <3>1 DEF Entries
    <3> QED BY <1>1, <2>1, <3>1, <3>2 DEF Entries
  <2>2. CASE sock' = [sock EXCEPT ![h].waiting = {}]
    <3>1. e = [sock[h] EXCEPT !.waiting = {}]
      BY <1>1, <2>2
    <3>2. e \in Entries
      BY <1>1, <3>1 DEF Entries
    <3> QED BY <1>1, <2>2, <3>1, <3>2 DEF Entries
  <2> QED BY <1>2, <2>1, <2>2
<1>4. /\ state' \in [Sessions -> States]
      /\ \A s \in Sessions : state'[s] = state[s] \/
           (state'[s] \notin {"none", "gone"} /\ state[s] \in Active)
  BY <1>1, <1>2 DEF TableTypes, States, Active
<1>5. \A s \in Sessions : state'[s] = "parked" =>
        state[s] = "parked" /\ handle[s] \in Handles \ {h}
  <2>1. \A s \in Sessions : state'[s] = "parked" =>
          state[s] = "parked" /\ s \notin sock[h].waiting
    BY <1>1, <1>2 DEF TableTypes
  <2> QED BY <1>1, <2>1 DEF Served, ProcTypes
<1> HIDE DEF NoSocket
<1>6. Served(sock', state')
  BY <1>1, <1>3, <1>5 DEF Served
<1>7. Waits(sock')
  BY <1>1, <1>3 DEF Waits
<1>8. \A i \in Handles : sock'[i] = sock[i] \/
        /\ sock[i] # NoSocket
        /\ sock'[i].owner = sock[i].owner /\ sock'[i].remote = sock[i].remote
        /\ sock'[i].count = sock[i].count
  BY <1>1, <1>3
<1>9. \A s \in reading : peer[s] # c => s \in stale
  <2>1. ASSUME NEW s \in reading, s \notin stale PROVE peer[s] = c
    <3>1. s \in Sessions /\ handle[s] = h /\ state[s] \in Active
      BY <1>1, <2>1 DEF Entries, Waits, Active
    <3>2. sock[h].owner = s
      BY <1>1, <2>1, <3>1 DEF HasSocket
    <3> QED BY <1>1, <3>2 DEF Owned
  <2> QED BY <2>1
<1>10. strayed' \subseteq stale
  BY <1>1, <1>2, <1>9
<1>11. /\ Good(sock', state', freeHandles, stale, closing)
       /\ ReleasedBut(0, sock', state', closing)
  BY <1>3, <1>4, <1>6, <1>7, <1>8, SameSockets
<1> QED BY <1>10, <1>11

LEMMA ReceiveDataGood ==
  ASSUME SshInv, NEW c \in Clients, ReceiveData(c)
  PROVE  SshInv'
<1>1. /\ UNCHANGED <<down, handleCounter, freeHandles, handle, peer, closing, accepted,
                     stale>>
      /\ \/ UNCHANGED <<sock, state, strayed>>
         \/ \E h \in With(c) : Pushed(c, h)
  BY DEF ReceiveData
<1>2. /\ Good(sock', state', freeHandles, stale, closing)
      /\ ReleasedBut(0, sock', state', closing) /\ strayed' \subseteq stale
  <2>1. CASE UNCHANGED <<sock, state, strayed>>
    BY <2>1 DEF SshInv, TableInv
  <2>2. CASE \E h \in With(c) : Pushed(c, h)
    BY <2>2, PushedGood
  <2> QED BY <1>1, <2>1, <2>2
<1>3. NetInv'
  BY <1>1 DEF SshInv, NetInv
<1> HIDE DEF Good, ReleasedBut
<1> QED BY <1>1, <1>2, <1>3, Composed

\* A socket of the real table is closed, by a FIN or by a loop that waited.
LEMMA CloseKeeps ==
  ASSUME SshInv, NEW h \in Handles, Live(h), CloseSocket(h, sock, state),
         closing' \subseteq closing, \A s \in closing \ closing' : handle[s] = h,
         UNCHANGED <<down, handleCounter, handle, peer, accepted, strayed>>
  PROVE  SshInv'
<1>1. /\ ProcTypes /\ Good(sock, state, freeHandles, stale, closing)
      /\ ReleasedBut(0, sock, state, closing) /\ NetInv /\ strayed \subseteq stale
      /\ sock[h] # NoSocket
  BY DEF SshInv, TableInv, Live
<1>2. Good(sock', state', freeHandles', stale', closing)
  BY <1>1, CloseGood
<1>3. Good(sock', state', freeHandles', stale', closing')
  BY <1>2 DEF Good, TableTypes
<1>4. ReleasedBut(h, sock, state, closing)
  BY <1>1, Constant DEF ReleasedBut
<1>5. ReleasedBut(0, sock', state', closing')
  BY <1>1, <1>4, CloseReleases
<1>6. stale \subseteq stale'
  BY DEF CloseSocket
<1>7. NetInv'
  BY <1>1, <1>6 DEF NetInv
<1> HIDE DEF Good, ReleasedBut
<1> QED BY <1>1, <1>3, <1>5, <1>6, <1>7, Composed

LEMMA PollClosingGood ==
  ASSUME SshInv, NEW s \in Sessions, PollClosing(s)
  PROVE  SshInv'
<1>1. /\ closing' = closing \ {s}
      /\ UNCHANGED <<down, handleCounter, handle, peer, accepted, strayed>>
  BY DEF PollClosing, wires
<1>2. CASE ~Live(handle[s]) /\ UNCHANGED <<sock, freeHandles, state, stale>>
  <2>1. Good(sock', state', freeHandles', stale', closing')
    BY <1>1, <1>2 DEF SshInv, TableInv, Good, TableTypes
  <2>2. ReleasedBut(0, sock', state', closing')
    BY <1>1, <1>2 DEF SshInv, TableInv, ReleasedBut, Live
  <2>3. NetInv' /\ strayed' \subseteq stale'
    BY <1>1, <1>2 DEF SshInv, NetInv
  <2> HIDE DEF Good, ReleasedBut
  <2> QED BY <1>1, <2>1, <2>2, <2>3, Composed
<1>3. CASE Live(handle[s]) /\ CloseSocket(handle[s], sock, state)
  <2>1. handle[s] \in Handles
    BY <1>3 DEF Live
  <2> QED BY <1>1, <1>3, <2>1, CloseKeeps
<1> QED BY <1>2, <1>3 DEF PollClosing

LEMMA ReceiveFinGood ==
  ASSUME SshInv, NEW c \in Clients, ReceiveFin(c)
  PROVE  SshInv'
<1>1. UNCHANGED <<down, handleCounter, handle, peer, accepted, closing, strayed>>
  BY DEF ReceiveFin
<1>2. CASE UNCHANGED <<sock, freeHandles, state, stale>>
  <2>1. /\ Good(sock', state', freeHandles', stale', closing')
        /\ ReleasedBut(0, sock', state', closing')
    BY <1>1, <1>2 DEF SshInv, TableInv
  <2>2. NetInv' /\ strayed' \subseteq stale'
    BY <1>1, <1>2 DEF SshInv, NetInv
  <2> HIDE DEF Good, ReleasedBut
  <2> QED BY <1>1, <2>1, <2>2, Composed
<1>3. CASE \E h \in With(c) : CloseSocket(h, sock, state)
  BY <1>1, <1>3, CloseKeeps DEF With
<1> QED BY <1>2, <1>3 DEF ReceiveFin

\* A connection is given a handle that nobody has.
LEMMA NewHandleClosed ==
  ASSUME ProcTypes, TableTypes(sock, state, freeHandles, stale, closing),
         FreeExact(sock, freeHandles), accepted < MaxAttempts
  PROVE  /\ NewHandle \in Handles /\ sock[NewHandle] = NoSocket
         /\ freeHandles # {} => NewHandle \in freeHandles
         /\ freeHandles = {} => NewHandle = handleCounter
<1>1. CASE freeHandles # {}
  <2>1. freeHandles \in SUBSET Nat
    BY Constant DEF TableTypes
  <2>2. NewHandle \in freeHandles
    BY <1>1, <2>1, LeastExists DEF NewHandle
  <2> QED BY <1>1, <2>2 DEF TableTypes, FreeExact
<1>2. CASE freeHandles = {}
  <2>1. NewHandle = handleCounter /\ handleCounter \in Handles
    BY <1>2, Constant DEF NewHandle, ProcTypes, FirstHandle
  <2> QED BY <1>2, <2>1, Constant DEF FreeExact
<1> QED BY <1>1, <1>2

LEMMA ReceiveSynGood ==
  ASSUME SshInv, NEW c \in Clients, ReceiveSyn(c)
  PROVE  SshInv'
<1> DEFINE n == accepted + 1
           h == NewHandle
<1>1. /\ ProcTypes /\ TableTypes(sock, state, freeHandles, stale, closing)
      /\ Owned(sock) /\ FreeExact(sock, freeHandles) /\ Waits(sock)
      /\ Served(sock, state) /\ HasSocket(sock, state, stale)
      /\ ReleasedBut(0, sock, state, closing) /\ NetInv /\ strayed \subseteq stale
      /\ accepted < MaxAttempts
  BY DEF SshInv, TableInv, Good, ReceiveSyn
<1>2. /\ h \in Handles /\ sock[h] = NoSocket
      /\ freeHandles # {} => h \in freeHandles
      /\ freeHandles = {} => h = handleCounter
  BY <1>1, NewHandleClosed
<1>3. /\ freeHandles' = freeHandles \ {h}
      /\ handleCounter' = IF freeHandles = {} THEN handleCounter + 1 ELSE handleCounter
      /\ sock' = [sock EXCEPT ![h] =
           [owner |-> n, remote |-> c, count |-> 1, rx |-> 0, waiting |-> {}]]
      /\ Sent(c, Packet("Ack")) /\ accepted' = n
      /\ state' = [state EXCEPT ![n] = "greeting"]
      /\ handle' = [handle EXCEPT ![n] = h] /\ peer' = [peer EXCEPT ![n] = c]
      /\ UNCHANGED <<closing, stale, strayed>>
  BY DEF ReceiveSyn, SocketAccepted, SessionForked, ghosts
<1> HIDE DEF h
<1>4. n \in Sessions /\ accepted \in Nat /\ n \in 1 .. MaxAttempts
  BY <1>1, Constant DEF ProcTypes
<1>5. /\ state'[n] = "greeting" /\ handle'[n] = h /\ peer'[n] = c
      /\ \A s \in Sessions \ {n} : /\ state'[s] = state[s] /\ handle'[s] = handle[s]
                                   /\ peer'[s] = peer[s]
      /\ state' \in [Sessions -> States] /\ handle' \in [Sessions -> Handles]
      /\ peer' \in [Sessions -> {Nobody} \cup Clients]
  BY <1>1, <1>2, <1>3, <1>4 DEF ProcTypes, TableTypes, States
<1>6. /\ sock'[h].owner = n /\ sock'[h].remote = c /\ sock'[h].count = 1
      /\ sock'[h].waiting = {} /\ sock'[h] \in Entries
      /\ \A i \in Handles \ {h} : sock'[i] = sock[i]
      /\ sock' \in [Handles -> Entries]
  <2> DEFINE entry == [owner |-> n, remote |-> c, count |-> 1, rx |-> 0, waiting |-> {}]
  <2>1. entry \in Entries
    BY <1>4 DEF Entries
  <2> QED BY <1>1, <1>2, <1>3, <2>1 DEF TableTypes
<1>7. sock'[h] # NoSocket
  BY <1>4, <1>6, Constant DEF NoSocket
<1> HIDE DEF NoSocket
<1>8. ProcTypes'
  BY <1>1, <1>3, <1>4, <1>5, Constant DEF ProcTypes, FirstHandle
<1>9. ASSUME NEW s \in Sessions, s <= accepted
      PROVE  s # n /\ s <= accepted'
  BY <1>3, <1>4, <1>9, Constant
<1>10. TableTypes(sock, state, freeHandles, stale, closing)'
  <2>1. \A s \in Sessions : state'[s] = "none" <=> s > accepted'
    <3>1. \A s \in Sessions \ {n} : s > accepted' <=> s > accepted
      BY <1>3, <1>4, Constant
    <3>2. ~(n > accepted')
      BY <1>3, <1>4
    <3> QED BY <1>1, <1>5, <3>1, <3>2 DEF TableTypes
  <2>2. \A s \in closing : s \in Sessions /\ s <= accepted'
    BY <1>1, <1>9 DEF TableTypes
  <2> QED BY <1>1, <1>3, <1>5, <1>6, <2>1, <2>2 DEF TableTypes
<1>11. Owned(sock)'
  <2>1. ASSUME NEW i \in Handles, sock'[i] # NoSocket
        PROVE  /\ sock'[i].owner \in 1 .. accepted' /\ sock'[i].owner \in Sessions
               /\ handle'[sock'[i].owner] = i
               /\ sock'[i].remote = peer'[sock'[i].owner] /\ sock'[i].remote \in Clients
               /\ sock'[i].count <= 1
    <3>1. CASE i = h
      BY <1>3, <1>4, <1>5, <1>6, <3>1
    <3>2. CASE i # h
      <4>1. sock'[i] = sock[i]
        BY <1>6, <3>2
      <4>2. /\ sock[i].owner \in 1 .. accepted /\ sock[i].owner \in Sessions
            /\ handle[sock[i].owner] = i
            /\ sock[i].remote = peer[sock[i].owner] /\ sock[i].remote \in Clients
            /\ sock[i].count <= 1
        BY <1>1, <2>1, <4>1 DEF Owned
      <4>3. sock[i].owner # n /\ sock[i].owner \in 1 .. accepted'
        BY <1>3, <1>4, <4>2
      <4> QED BY <1>5, <4>1, <4>2, <4>3
    <3> QED BY <3>1, <3>2
  <2> QED BY <2>1 DEF Owned
<1>12. FreeExact(sock, freeHandles)'
  <2>1. \A i \in Handles : i \in Int /\ handleCounter \in Int
    BY <1>1, Constant DEF ProcTypes, FirstHandle
  <2>2. h < handleCounter'
    BY <1>1, <1>2, <1>3, <2>1 DEF FreeExact
  <2>3. ASSUME NEW i \in Handles
        PROVE  /\ i \in freeHandles' <=> i < handleCounter' /\ sock'[i] = NoSocket
               /\ i >= handleCounter' => sock'[i] = NoSocket
    <3>1. CASE i = h
      BY <1>2, <1>3, <1>7, <2>1, <2>2, <3>1
    <3>2. CASE i # h
      <4>1. i < handleCounter' <=> i < handleCounter
        BY <1>2, <1>3, <2>1, <3>2
      <4>2. i >= handleCounter' => i >= handleCounter
        BY <1>3, <2>1
      <4> QED BY <1>1, <1>3, <1>6, <3>2, <4>1, <4>2 DEF FreeExact
    <3> QED BY <3>1, <3>2
  <2> QED BY <2>3 DEF FreeExact
<1>13. Waits(sock)'
  <2>1. ASSUME NEW i \in Handles, NEW s \in sock'[i].waiting
        PROVE  handle'[s] = i /\ s <= accepted'
    <3>1. i # h /\ s \in sock[i].waiting /\ s \in Sessions
      BY <1>1, <1>6, <2>1 DEF TableTypes, Entries
    <3>2. handle[s] = i /\ s <= accepted
      BY <1>1, <3>1 DEF Waits
    <3> QED BY <1>5, <1>9, <3>1, <3>2
  <2> QED BY <2>1 DEF Waits
<1>14. Served(sock, state)'
  <2>1. ASSUME NEW s \in Sessions, state'[s] = "parked"
        PROVE  s # n /\ state[s] = "parked"
    BY <1>5, <2>1
  <2>2. ASSUME NEW s \in Sessions, state'[s] = "parked"
        PROVE  /\ sock'[handle'[s]] # NoSocket /\ s \in sock'[handle'[s]].waiting
               /\ sock'[handle'[s]].rx = 0
    <3>1. /\ sock[handle[s]] # NoSocket /\ s \in sock[handle[s]].waiting
          /\ sock[handle[s]].rx = 0
      BY <1>1, <2>1, <2>2 DEF Served
    <3>2. handle'[s] = handle[s] /\ handle[s] \in Handles \ {h}
      BY <1>1, <1>2, <1>5, <2>1, <2>2, <3>1 DEF ProcTypes
    <3> QED BY <1>6, <3>1, <3>2
  <2> QED BY <2>2 DEF Served
<1>15. HasSocket(sock, state, stale)'
  <2>1. ASSUME NEW s \in Sessions, state'[s] \in Active, s \notin stale'
        PROVE  sock'[handle'[s]] # NoSocket /\ sock'[handle'[s]].owner = s
    <3>1. CASE s = n
      BY <1>5, <1>6, <1>7, <3>1
    <3>2. CASE s # n
      <4>1. sock[handle[s]] # NoSocket /\ sock[handle[s]].owner = s
        BY <1>1, <1>3, <1>5, <2>1, <3>2 DEF HasSocket
      <4>2. handle'[s] = handle[s] /\ handle[s] \in Handles \ {h}
        BY <1>1, <1>2, <1>5, <3>2, <4>1 DEF ProcTypes
      <4> QED BY <1>6, <4>1, <4>2
    <3> QED BY <3>1, <3>2
  <2> QED BY <2>1 DEF HasSocket, Active
<1>16. ReleasedBut(0, sock, state, closing)'
  <2>1. ASSUME NEW i \in Handles \ {0}, sock'[i] # NoSocket,
               state'[sock'[i].owner] = "gone"
        PROVE  sock'[i].count < 0 \/ \E s \in closing' : handle'[s] = i
    <3>1. i # h
      BY <1>5, <1>6, <2>1
    <3>2. sock'[i] = sock[i] /\ sock[i].owner \in Sessions /\ sock[i].owner # n
      BY <1>1, <1>4, <1>6, <2>1, <3>1 DEF Owned
    <3>3. sock[i].count < 0 \/ \E s \in closing : handle[s] = i
      BY <1>1, <1>5, <2>1, <3>2 DEF ReleasedBut
    <3>4. \A s \in closing : handle'[s] = handle[s]
      BY <1>1, <1>5, <1>9 DEF TableTypes
    <3> QED BY <1>3, <3>2, <3>3, <3>4
  <2> QED BY <2>1 DEF ReleasedBut
<1>17. NetInv'
  <2>1. Packet("Ack") \in Packets /\ Packet("Ack").type # "Data"
    BY DEF Packet, Packets
  <2>2. \A s \in 1 .. accepted : peer'[s] = peer[s]
    BY <1>4, <1>5, Constant
  <2>3. accepted' \in Nat /\ accepted <= accepted'
    BY <1>3, <1>4
  <2> HIDE DEF n
  <2> QED BY <1>1, <1>3, <1>4, <2>1, <2>2, <2>3, SentNet
<1> QED BY <1>1, <1>3, <1>8, <1>10, <1>11, <1>12, <1>13, <1>14, <1>15, <1>16, <1>17
        DEF SshInv, TableInv, Good

LEMMA ReceiveTestGood ==
  ASSUME SshInv, NEW c \in Clients, ReceiveTest(c)
  PROVE  SshInv'
<1>1. /\ UNCHANGED <<table, procs, ghosts>>
      /\ Sent(c, Packet("Ack")) \/ Nothing
  BY DEF ReceiveTest
<1>2. /\ Good(sock', state', freeHandles', stale', closing')
      /\ ReleasedBut(0, sock', state', closing')
  BY <1>1 DEF SshInv, TableInv, table, procs, ghosts
<1>3. UNCHANGED <<handleCounter, handle, peer, accepted, stale, strayed>>
  BY <1>1 DEF table, procs, ghosts
<1>4. NetInv'
  <2>1. Packet("Ack") \in Packets /\ Packet("Ack").type # "Data"
    BY DEF Packet, Packets
  <2>2. NetInv /\ accepted \in Nat
    BY DEF SshInv, ProcTypes
  <2> QED BY <1>1, <1>3, <2>1, <2>2, SentNet
<1> HIDE DEF Good, ReleasedBut
<1> QED BY <1>2, <1>3, <1>4, Composed DEF SshInv

----------------------------------------------------------------------------
(* The clients *)

\* A client reads what NetInv says of the first packet.
LEMMA ClientReceiveGood ==
  ASSUME SshInv, NEW c \in Clients, ClientReceive(c)
  PROVE  SshInv'
<1> DEFINE packet == Head(down[c])
<1>1. /\ down[c] # <<>> /\ down' = [down EXCEPT ![c] = Tail(@)]
      /\ UNCHANGED <<table, procs, stale>>
      /\ strayed' = strayed \/ (/\ packet.type = "Data" /\ peer[packet.from] # c
                                /\ strayed' = strayed \cup {packet.from})
  BY DEF ClientReceive
<1>2. NetInv /\ down[c] \in Seq(Packets) /\ down \in [Clients -> Seq(Packets)]
  BY DEF SshInv, NetInv
<1>3. /\ packet = down[c][1] /\ 1 \in 1 .. Len(down[c])
      /\ Tail(down[c]) \in Seq(Packets)
      /\ \A i \in 1 .. Len(Tail(down[c])) : /\ i + 1 \in 1 .. Len(down[c])
                                            /\ Tail(down[c])[i] = down[c][i + 1]
  BY <1>1, <1>2
<1>4. NetInv'
  <2>1. down' \in [Clients -> Seq(Packets)]
    BY <1>1, <1>2, <1>3
  <2>2. ASSUME NEW d \in Clients, NEW i \in 1 .. Len(down'[d]),
               down'[d][i].type = "Data"
        PROVE  /\ down'[d][i].from \in 1 .. accepted
               /\ peer[down'[d][i].from] # d => down'[d][i].from \in stale
    <3>1. CASE d = c
      <4>1. down'[d] = Tail(down[c])
        BY <1>1, <1>2, <3>1
      <4>2. i + 1 \in 1 .. Len(down[c]) /\ down'[d][i] = down[c][i + 1]
        BY <1>3, <2>2, <4>1
      <4> QED BY <1>2, <2>2, <3>1, <4>2 DEF NetInv
    <3>2. CASE d # c
      <4>1. down'[d] = down[d]
        BY <1>1, <1>2, <3>2
      <4> QED BY <1>2, <2>2, <4>1 DEF NetInv
    <3> QED BY <3>1, <3>2
  <2> QED BY <1>1, <2>1, <2>2 DEF NetInv, procs
<1>5. strayed' \subseteq stale'
  <2>1. packet.type = "Data" /\ peer[packet.from] # c => packet.from \in stale
    BY <1>2, <1>3 DEF NetInv
  <2> HIDE DEF packet
  <2> QED BY <1>1, <2>1 DEF SshInv
<1>6. /\ Good(sock', state', freeHandles', stale', closing')
      /\ ReleasedBut(0, sock', state', closing')
  BY <1>1 DEF SshInv, TableInv, table, procs
<1> HIDE DEF Good, ReleasedBut
<1> QED BY <1>1, <1>4, <1>5, <1>6, Composed DEF table, procs

LEMMA Elsewhere ==
  ASSUME SshInv, UNCHANGED <<down, table, procs, stale, strayed>>
  PROVE  SshInv'
BY DEF SshInv, ProcTypes, TableInv, NetInv, Good, TableTypes, Owned, FreeExact, Waits,
   Served, HasSocket, ReleasedBut, table, procs

----------------------------------------------------------------------------
LEMMA SshInvStep == SshInv /\ [Next]_vars => SshInv'
<1> SUFFICES ASSUME SshInv, [Next]_vars PROVE SshInv'
  OBVIOUS
<1>1. ASSUME NEW c \in Clients, Connect(c) \/ Type(c) \/ Quit(c) \/ ClientTimer(c)
      PROVE  SshInv'
  BY <1>1, Elsewhere DEF Connect, Type, Quit, ClientTimer, ConnectTimeout, Test, GiveUp,
     wires, ghosts
<1>2. ASSUME NEW c \in Clients, ClientReceive(c) PROVE SshInv'
  BY <1>2, ClientReceiveGood
<1>3. ASSUME NEW c \in Clients, ServerReceive(c) PROVE SshInv'
  BY <1>3, ReceiveSynGood, ReceiveDataGood, ReceiveFinGood, ReceiveTestGood
     DEF ServerReceive
<1>4. ASSUME NEW s \in Sessions, Runs(s) \/ Answer(s) \/ Kill(s) PROVE SshInv'
  BY <1>4, AnswerGood, StartLeaveKillGood, ExitGood DEF Runs
<1>5. ASSUME NEW s \in Sessions, PollClosing(s) PROVE SshInv'
  BY <1>5, PollClosingGood
<1>6. CASE UNCHANGED vars
  BY <1>6, Elsewhere DEF vars, table, procs
<1> QED BY <1>1, <1>2, <1>3, <1>4, <1>5, <1>6 DEF Next

\* The invariant of the server's table, its processes and the packets down.
THEOREM SshInvariant == Spec => []SshInv
<1>1. Init => SshInv
  BY SshInit
<1>2. SshInv /\ [Next]_vars => SshInv'
  BY SshInvStep
<1> QED BY <1>1, <1>2, PTL DEF Spec

\* However a socket is closed, by its owner, by a FIN, by a loop that waited for
\* its data or by a process that had its handle before, close_socket and
\* get_handle keep every handle below the counter in use or free, and not both.
THEOREM HandlesStayExact == Spec => []HandlesExact
BY SshInvImplies, SshInvariant, PTL

\* Whoever waits in async_read_socket waits at a socket that is in the table,
\* with nothing in its queue: no close_socket leaves a reader behind.
THEOREM ReadersAreServed == Spec => []ReadersServed
BY SshInvImplies, SshInvariant, PTL

\* close_all and async_close_socket leave no socket without a process, but one
\* whose data is awaited and one whose count a freed entry's owner spoilt.
THEOREM SocketsGoWithSessions == Spec => []SocketsReleased
BY SshInvImplies, SshInvariant, PTL

\* Data crosses from one client's session to another client, either way, only by
\* a session whose socket was closed while it did not read (a stale handle).
THEOREM NobodyReadsAnother == Spec => []NoCrossTalk
BY SshInvImplies, SshInvariant, PTL

----------------------------------------------------------------------------
(* Both ends *)

UpPackets == [type : {"Syn", "Data", "Test", "Fin"}, from : {NoSession}]

\* What a client has sent and not had answered: it says goodbye only on its way
\* out, and tests only a connection it has.
UpInv ==
  /\ client \in [Clients -> {"off", "connecting", "open", "testing"}]
  /\ up \in [Clients -> Seq(UpPackets)]
  /\ \A c \in Clients : \A i \in 1 .. Len(up[c]) :
       /\ up[c][i].type = "Fin" => client[c] = "off"
       /\ up[c][i].type = "Test" => client[c] # "connecting"

\* A server with a connection has sent before: it loses no FIN.
ArpInv == \A h \in Handles : sock[h] # NoSocket => arpServer

NoFinAfter(q, i) == \A j \in 1 .. Len(q) : j > i => q[j].type # "Fin"

\* A client in state st will be connected when it has read the packets q.
Going(st, q) ==
  \/ st \in {"open", "testing"} /\ NoFinAfter(q, 0)
  \/ /\ st = "connecting"
     /\ \E i \in 1 .. Len(q) : q[i].type = "Ack" /\ NoFinAfter(q, i)

\* The client has a socket that is not about to be closed.
Serving(sk, cl, c) ==
  \E h \in Handles : sk[h] # NoSocket /\ sk[h].remote = c /\ sk[h].owner \notin cl

AgreeInv ==
  \A c \in Clients :
    Going(client[c], down[c]) => Serving(sock, closing, c) \/ c \in silenced

EndsInv == SshInv /\ UpInv /\ ArpInv /\ AgreeInv

LEMMA EndsInvImplies == EndsInv => EndsAgree
<1> SUFFICES ASSUME EndsInv, Quiet, NEW c \in Clients, Connected(c)
             PROVE  With(c) # {} \/ c \in silenced
  BY DEF EndsAgree
<1>1. down[c] = <<>>
  BY DEF Quiet
<1>2. Going(client[c], down[c])
  BY <1>1 DEF Going, NoFinAfter, Connected
<1>3. Serving(sock, closing, c) \/ c \in silenced
  BY <1>2 DEF EndsInv, AgreeInv
<1> HIDE DEF NoSocket
<1> QED BY <1>3 DEF Serving, With, Live

LEMMA EndsInit == Init => EndsInv
<1> SUFFICES ASSUME Init PROVE EndsInv
  OBVIOUS
<1>1. SshInv
  BY SshInit
<1>2. UpInv
  BY DEF Init, UpInv
<1>3. ArpInv
  BY DEF Init, ArpInv
<1>4. AgreeInv
  BY DEF Init, AgreeInv, Going
<1> QED BY <1>1, <1>2, <1>3, <1>4 DEF EndsInv

----------------------------------------------------------------------------
(* Packets down *)

\* A packet more: only an Ack brings a client nearer to being connected, and
\* only one that has been waiting for it; a FIN never.
LEMMA GoingAppend ==
  ASSUME NEW st, NEW q \in Seq(Packets), NEW p \in Packets, Going(st, Append(q, p))
  PROVE  /\ p.type # "Fin"
         /\ p.type # "Ack" \/ st # "connecting" => Going(st, q)
<1> DEFINE r == Append(q, p)
<1>1. PICK n \in Nat : n = Len(q)
  OBVIOUS
<1>2. /\ Len(r) = n + 1 /\ r[n + 1] = p
      /\ \A j \in 1 .. n : r[j] = q[j]
  BY <1>1
<1>3. Going(st, r)
  OBVIOUS
<1> HIDE DEF r
<1>4. p.type # "Fin"
  <2>1. \E i \in 0 .. n : NoFinAfter(r, i)
    <3>1. CASE NoFinAfter(r, 0)
      BY <1>1, <3>1
    <3>2. CASE \E i \in 1 .. Len(r) : r[i].type = "Ack" /\ NoFinAfter(r, i)
      <4>1. PICK i \in 1 .. n + 1 : r[i].type = "Ack" /\ NoFinAfter(r, i)
        BY <1>2, <3>2
      <4>2. CASE i = n + 1
        <5>1. p.type = "Ack"
          BY <1>2, <4>1, <4>2
        <5>2. \A j \in 1 .. Len(r) : j > n => r[j].type # "Fin"
          BY <1>1, <1>2, <5>1
        <5> QED BY <1>1, <5>2 DEF NoFinAfter
      <4>3. CASE i \in 1 .. n
        BY <4>1, <4>3
      <4> QED BY <1>1, <4>1, <4>2, <4>3
    <3> QED BY <1>3, <3>1, <3>2 DEF Going
  <2>2. PICK i \in 0 .. n : NoFinAfter(r, i)
    BY <2>1
  <2>3. n + 1 \in 1 .. Len(r) /\ n + 1 > i
    BY <1>1, <1>2, <2>2
  <2> QED BY <1>2, <2>2, <2>3 DEF NoFinAfter
<1>5. ASSUME NEW i \in 0 .. n, NoFinAfter(r, i) PROVE NoFinAfter(q, i)
  BY <1>1, <1>2, <1>5 DEF NoFinAfter
<1>6. ASSUME p.type # "Ack" \/ st # "connecting" PROVE Going(st, q)
  <2>1. CASE st \in {"open", "testing"}
    <3>1. NoFinAfter(r, 0)
      BY <1>3, <2>1 DEF Going
    <3>2. NoFinAfter(q, 0)
      BY <1>1, <1>5, <3>1
    <3> QED BY <2>1, <3>2 DEF Going
  <2>2. CASE st = "connecting"
    <3>1. PICK i \in 1 .. Len(r) : r[i].type = "Ack" /\ NoFinAfter(r, i)
      BY <1>3, <2>2 DEF Going
    <3>2. i # n + 1
      BY <1>2, <1>6, <2>2, <3>1
    <3>3. i \in 1 .. n
      BY <1>1, <1>2, <3>1, <3>2
    <3>4. q[i].type = "Ack" /\ NoFinAfter(q, i)
      BY <1>2, <1>5, <3>1, <3>3
    <3> QED BY <1>1, <2>2, <3>3, <3>4 DEF Going
  <2> QED BY <1>3, <2>1, <2>2 DEF Going
<1> QED BY <1>4, <1>6

\* A packet read takes a client no further than it was going.
LEMMA GoingTail ==
  ASSUME NEW st \in {"off", "connecting", "open", "testing"}, NEW st1,
         NEW q \in Seq(Packets), q # <<>>,
         st1 = IF Head(q).type = "Ack" THEN (IF st = "off" THEN "off" ELSE "open")
               ELSE IF st \notin {"open", "testing"} THEN st
               ELSE IF Head(q).type = "Fin" THEN "off" ELSE "open",
         Going(st1, Tail(q))
  PROVE  Going(st, q)
<1> DEFINE t == Tail(q)
<1>1. PICK n \in Nat : n = Len(t)
  OBVIOUS
<1>2. /\ Len(q) = n + 1 /\ Head(q) = q[1]
      /\ \A j \in 1 .. n : t[j] = q[j + 1]
  BY <1>1
<1>3. Going(st1, t)
  OBVIOUS
<1> HIDE DEF t
<1>4. ASSUME NEW i \in 0 .. n, NoFinAfter(t, i) PROVE NoFinAfter(q, i + 1)
  <2> SUFFICES ASSUME NEW j \in 1 .. Len(q), j > i + 1 PROVE q[j].type # "Fin"
    BY DEF NoFinAfter
  <2>1. j - 1 \in 1 .. n /\ j - 1 > i /\ (j - 1) + 1 = j
    BY <1>1, <1>2
  <2>2. t[j - 1].type # "Fin"
    BY <1>1, <1>4, <2>1 DEF NoFinAfter
  <2>3. t[j - 1] = q[j]
    BY <1>2, <2>1
  <2> QED BY <2>2, <2>3
<1>5. CASE st1 = "connecting"
  <2>1. PICK i \in 1 .. n : t[i].type = "Ack" /\ NoFinAfter(t, i)
    BY <1>1, <1>3, <1>5 DEF Going
  <2>2. q[i + 1].type = "Ack" /\ NoFinAfter(q, i + 1) /\ i + 1 \in 1 .. Len(q)
    BY <1>1, <1>2, <1>4, <2>1
  <2>3. st = "connecting"
    BY <1>5
  <2> QED BY <2>2, <2>3 DEF Going
<1>6. CASE st1 \in {"open", "testing"}
  <2>1. NoFinAfter(t, 0)
    BY <1>3, <1>6 DEF Going
  <2>2. NoFinAfter(q, 1)
    <3>1. NoFinAfter(q, 0 + 1)
      BY <1>1, <1>4, <2>1
    <3> QED BY <3>1
  <2>3. st = "connecting" => Head(q).type = "Ack"
    BY <1>6
  <2>4. 1 \in 1 .. Len(q)
    BY <1>1, <1>2
  <2>5. CASE st = "connecting"
    BY <1>2, <2>2, <2>3, <2>4, <2>5 DEF Going
  <2>6. CASE st \in {"open", "testing"}
    <3>1. Head(q).type # "Fin"
      BY <1>6, <2>6
    <3>2. \A j \in 1 .. Len(q) : j > 0 => j = 1 \/ j > 1
      OBVIOUS
    <3>3. NoFinAfter(q, 0)
      BY <1>2, <2>2, <3>1, <3>2 DEF NoFinAfter
    <3> QED BY <2>6, <3>3 DEF Going
  <2>7. st # "off"
    BY <1>6
  <2> QED BY <2>5, <2>6, <2>7
<1> QED BY <1>3, <1>5, <1>6 DEF Going

----------------------------------------------------------------------------
(* The clients' steps *)

\* Where nothing is under way, a packet that is sent is the only one.
LEMMA UpAlone ==
  ASSUME UpInv, NEW c \in Clients, NEW type \in {"Syn", "Data", "Test", "Fin"},
         up[c] = <<>>, Send(c, type),
         client' \in [Clients -> {"off", "connecting", "open", "testing"}],
         \A d \in Clients \ {c} : client'[d] = client[d],
         type = "Fin" => client'[c] = "off",
         type = "Test" => client'[c] # "connecting"
  PROVE  UpInv'
<1>1. /\ up'[c] = <<Packet(type)>>
      /\ \A d \in Clients \ {c} : up'[d] = up[d]
      /\ up' \in [Clients -> Seq(UpPackets)]
  <2>1. Packet(type) \in UpPackets
    BY DEF Packet, UpPackets
  <2>2. Append(up[c], Packet(type)) = <<Packet(type)>>
    OBVIOUS
  <2>3. up' = [up EXCEPT ![c] = <<Packet(type)>>]
    BY <2>2 DEF Send
  <2>4. <<Packet(type)>> \in Seq(UpPackets)
    BY <2>1
  <2> QED BY <2>3, <2>4 DEF UpInv
<1>2. Packet(type).type = type
  BY DEF Packet
<1>3. ASSUME NEW d \in Clients, NEW i \in 1 .. Len(up'[d])
      PROVE  /\ up'[d][i].type = "Fin" => client'[d] = "off"
             /\ up'[d][i].type = "Test" => client'[d] # "connecting"
  <2>1. CASE d = c
    <3>1. up'[d][i] = Packet(type)
      BY <1>1, <1>3, <2>1
    <3> QED BY <1>2, <2>1, <3>1
  <2>2. CASE d # c
    BY <1>1, <1>3, <2>2 DEF UpInv
  <2> QED BY <2>1, <2>2
<1> QED BY <1>1, <1>3 DEF UpInv

LEMMA ClientActs ==
  ASSUME EndsInv, NEW c \in Clients,
         Connect(c) \/ Type(c) \/ Quit(c) \/ ClientTimer(c)
  PROVE  UpInv' /\ ArpInv' /\ AgreeInv'
<1>1. /\ Quiet /\ UNCHANGED <<down, arpServer, sock, closing>>
      /\ \A d \in Clients : up[d] = <<>> /\ down[d] = <<>>
      /\ UpInv /\ ArpInv /\ AgreeInv
  BY DEF Connect, Type, Quit, ClientTimer, ConnectTimeout, Test, GiveUp, Quiet, EndsInv,
     table, procs, wires, arp
<1>2. /\ client' \in [Clients -> {"off", "connecting", "open", "testing"}]
      /\ \A d \in Clients \ {c} : client'[d] = client[d]
      /\ client'[c] \in {"off", "connecting"} \/ Connected(c)
      /\ silenced' = silenced
           \/ (silenced' = silenced \ {c} /\ client'[c] = "connecting")
  <2>1. client \in [Clients -> {"off", "connecting", "open", "testing"}]
    BY <1>1 DEF UpInv
  <2>2. CASE Connect(c)
    BY <2>1, <2>2 DEF Connect
  <2>3. CASE Type(c)
    BY <2>1, <2>3 DEF Type, clientVars, ghosts
  <2>4. CASE Quit(c)
    BY <2>1, <2>4 DEF Quit, ghosts
  <2>5. CASE ConnectTimeout(c)
    BY <2>1, <2>5 DEF ConnectTimeout, ghosts
  <2>6. CASE Test(c)
    BY <2>1, <2>6 DEF Test, ghosts, Connected
  <2>7. CASE GiveUp(c)
    BY <2>1, <2>7 DEF GiveUp, ghosts
  <2> QED BY <2>2, <2>3, <2>4, <2>5, <2>6, <2>7 DEF ClientTimer
<1>3. UpInv'
  <2>1. CASE \/ Connect(c) /\ up' = up
             \/ ConnectTimeout(c)
    <3>1. up' = up
      BY <2>1 DEF ConnectTimeout, wires
    <3> QED BY <1>1, <1>2, <3>1 DEF UpInv
  <2>2. CASE Connect(c) /\ up' # up
    <3>1. Send(c, "Syn")
      BY <2>2 DEF Connect, Send
    <3> QED BY <1>1, <1>2, <3>1, UpAlone
  <2>3. CASE Type(c)
    <3>1. Send(c, "Data")
      BY <2>3 DEF Type
    <3> QED BY <1>1, <1>2, <3>1, UpAlone
  <2>4. CASE Quit(c) \/ GiveUp(c)
    <3>1. Send(c, "Fin") /\ client'[c] = "off"
      BY <1>1, <2>4 DEF Quit, GiveUp, UpInv
    <3> QED BY <1>1, <1>2, <3>1, UpAlone
  <2>5. CASE Test(c)
    <3>1. Send(c, "Test") /\ client'[c] = "testing"
      BY <1>1, <2>5 DEF Test, UpInv
    <3> QED BY <1>1, <1>2, <3>1, UpAlone
  <2> QED BY <2>1, <2>2, <2>3, <2>4, <2>5 DEF ClientTimer
<1>4. ArpInv'
  BY <1>1 DEF ArpInv
<1>5. ASSUME NEW d \in Clients, Going(client'[d], down[d])
      PROVE  Serving(sock, closing, d) \/ d \in silenced'
  <2>1. client'[d] \in {"open", "testing"} /\ NoFinAfter(down[d], 0)
    BY <1>1, <1>5 DEF Going
  <2>2. Going(client[d], down[d])
    BY <1>2, <2>1 DEF Going, Connected
  <2>3. Serving(sock, closing, d) \/ d \in silenced
    BY <1>1, <2>2 DEF AgreeInv
  <2> QED BY <1>2, <2>1, <2>3
<1>6. AgreeInv'
  BY <1>1, <1>5 DEF AgreeInv, Serving
<1> QED BY <1>3, <1>4, <1>6

LEMMA ClientReads ==
  ASSUME EndsInv, NEW c \in Clients, ClientReceive(c)
  PROVE  UpInv' /\ ArpInv' /\ AgreeInv'
<1> DEFINE p == Head(down[c])
           st1 == IF p.type = "Ack" THEN (IF client[c] = "off" THEN "off" ELSE "open")
                  ELSE IF client[c] \notin {"open", "testing"} THEN client[c]
                  ELSE IF p.type = "Fin" THEN "off" ELSE "open"
<1>1. /\ UNCHANGED <<up, arpServer, sock, closing, silenced>>
      /\ down[c] # <<>> /\ down' = [down EXCEPT ![c] = Tail(@)]
      /\ client' = [client EXCEPT ![c] = st1]
      /\ UpInv /\ ArpInv /\ AgreeInv /\ NetInv
  BY DEF ClientReceive, EndsInv, SshInv, table, procs, arp, Connected
<1>2. /\ client \in [Clients -> {"off", "connecting", "open", "testing"}]
      /\ down \in [Clients -> Seq(Packets)]
  BY <1>1 DEF UpInv, NetInv
<1>3. /\ st1 \in {"off", "connecting", "open", "testing"}
      /\ client[c] = "off" => st1 = "off"
      /\ st1 = "connecting" => client[c] = "connecting"
  BY <1>2
<1>4. /\ client'[c] = st1 /\ down'[c] = Tail(down[c])
      /\ \A d \in Clients \ {c} : client'[d] = client[d] /\ down'[d] = down[d]
      /\ client' \in [Clients -> {"off", "connecting", "open", "testing"}]
  BY <1>1, <1>2, <1>3
<1>5. Going(st1, Tail(down[c])) => Going(client[c], down[c])
  BY <1>1, <1>2, GoingTail
<1> HIDE DEF st1, p
<1>6. UpInv'
  <2>1. ASSUME NEW d \in Clients, NEW i \in 1 .. Len(up[d])
        PROVE  /\ up[d][i].type = "Fin" => client'[d] = "off"
               /\ up[d][i].type = "Test" => client'[d] # "connecting"
    <3>1. /\ up[d][i].type = "Fin" => client[d] = "off"
          /\ up[d][i].type = "Test" => client[d] # "connecting"
      BY <1>1, <2>1 DEF UpInv
    <3>2. CASE d = c
      BY <1>3, <1>4, <3>1, <3>2
    <3>3. CASE d # c
      BY <1>4, <3>1, <3>3
    <3> QED BY <3>2, <3>3
  <2> QED BY <1>1, <1>4, <2>1 DEF UpInv
<1>7. ArpInv'
  BY <1>1 DEF ArpInv
<1>8. \A d \in Clients : Going(client'[d], down'[d]) => Going(client[d], down[d])
  BY <1>4, <1>5
<1>9. AgreeInv'
  BY <1>1, <1>8 DEF AgreeInv, Serving
<1> QED BY <1>6, <1>7, <1>9

----------------------------------------------------------------------------
(* The server's steps *)

LEMMA UpTail ==
  ASSUME UpInv, UNCHANGED client,
         up' = up \/ \E c \in Clients : up[c] # <<>> /\ up' = [up EXCEPT ![c] = Tail(@)]
  PROVE  UpInv'
<1>1. CASE up' = up
  BY <1>1 DEF UpInv
<1>2. ASSUME NEW c \in Clients, up[c] # <<>>, up' = [up EXCEPT ![c] = Tail(@)]
      PROVE  UpInv'
  <2>1. up \in [Clients -> Seq(UpPackets)] /\ up[c] \in Seq(UpPackets)
    BY DEF UpInv
  <2>2. /\ up'[c] = Tail(up[c]) /\ Tail(up[c]) \in Seq(UpPackets)
        /\ \A d \in Clients \ {c} : up'[d] = up[d]
    BY <1>2, <2>1
  <2>3. up' \in [Clients -> Seq(UpPackets)]
    BY <1>2, <2>1, <2>2
  <2>4. ASSUME NEW d \in Clients, NEW i \in 1 .. Len(up'[d])
        PROVE  \E j \in 1 .. Len(up[d]) : up'[d][i] = up[d][j]
    <3>1. CASE d = c
      <4>1. i + 1 \in 1 .. Len(up[c]) /\ Tail(up[c])[i] = up[c][i + 1]
        BY <1>2, <2>1, <2>2, <2>4, <3>1
      <4> QED BY <2>2, <3>1, <4>1
    <3>2. CASE d # c
      BY <2>2, <2>4, <3>2
    <3> QED BY <3>1, <3>2
  <2>5. ASSUME NEW d \in Clients, NEW i \in 1 .. Len(up'[d])
        PROVE  /\ up'[d][i].type = "Fin" => client[d] = "off"
               /\ up'[d][i].type = "Test" => client[d] # "connecting"
    <3>1. PICK j \in 1 .. Len(up[d]) : up'[d][i] = up[d][j]
      BY <2>4
    <3>2. /\ up[d][j].type = "Fin" => client[d] = "off"
          /\ up[d][j].type = "Test" => client[d] # "connecting"
      BY DEF UpInv
    <3> QED BY <3>1, <3>2
  <2>6. client' = client /\ client \in [Clients -> {"off", "connecting", "open", "testing"}]
    BY DEF UpInv
  <2> QED BY <2>3, <2>5, <2>6 DEF UpInv
<1> QED BY <1>1, <1>2

LEMMA ArpStep ==
  ASSUME ArpInv, arpServer => arpServer',
         \A h \in Handles : sock'[h] # NoSocket => sock[h] # NoSocket \/ arpServer'
  PROVE  ArpInv'
<1> HIDE DEF NoSocket
<1>1. NoSocket' = NoSocket
  BY DEF NoSocket
<1> QED BY <1>1 DEF ArpInv

\* No packet is sent to a client that may be connected, and whoever has a socket
\* keeps one.
LEMMA StillAgree ==
  ASSUME AgreeInv, UNCHANGED <<client, down>>, silenced \subseteq silenced',
         \A c \in Clients : Going(client[c], down[c]) /\ Serving(sock, closing, c) =>
           Serving(sock', closing', c) \/ c \in silenced'
  PROVE  AgreeInv'
<1>1. ASSUME NEW c \in Clients, Going(client'[c], down'[c])
      PROVE  Serving(sock', closing', c) \/ c \in silenced'
  BY <1>1 DEF AgreeInv
<1> QED BY <1>1 DEF AgreeInv, Serving

\* A packet is sent to d: a FIN if d loses its last socket, and an Ack to a
\* client that waits for it only if there is a socket.
LEMMA DownStep ==
  ASSUME AgreeInv, NetInv, UNCHANGED <<client, silenced>>,
         NEW d \in Clients, NEW p \in Packets, Sent(d, p),
         p.type = "Ack" /\ client[d] = "connecting" => Serving(sock', closing', d),
         \A c \in Clients : Serving(sock, closing, c) =>
           Serving(sock', closing', c) \/ (c = d /\ p.type = "Fin" /\ arpServer)
  PROVE  AgreeInv'
<1>1. down \in [Clients -> Seq(Packets)]
  BY DEF NetInv
<1>2. /\ \A c \in Clients \ {d} : down'[c] = down[c]
      /\ arpServer => down'[d] = Append(down[d], p)
      /\ ~arpServer => down'[d] = down[d]
  BY <1>1 DEF Sent
<1>3. ASSUME NEW c \in Clients, Going(client[c], down'[c])
      PROVE  Serving(sock', closing', c) \/ c \in silenced
  <2>1. CASE c # d
    BY <1>2, <1>3, <2>1 DEF AgreeInv
  <2>2. CASE c = d /\ ~arpServer
    BY <1>2, <1>3, <2>2 DEF AgreeInv
  <2>3. CASE c = d /\ arpServer
    <3>1. Going(client[d], Append(down[d], p))
      BY <1>2, <1>3, <2>3
    <3>2. down[d] \in Seq(Packets)
      BY <1>1
    <3>3. /\ p.type # "Fin"
          /\ p.type # "Ack" \/ client[d] # "connecting" => Going(client[d], down[d])
      BY <3>1, <3>2, GoingAppend
    <3>4. CASE p.type = "Ack" /\ client[d] = "connecting"
      BY <2>3, <3>4
    <3>5. CASE Going(client[d], down[d])
      BY <2>3, <3>3, <3>5 DEF AgreeInv
    <3> QED BY <3>3, <3>4, <3>5
  <2> QED BY <2>1, <2>2, <2>3
<1> QED BY <1>3 DEF AgreeInv, Serving

\* A table with the same sockets, whatever their counts, data and readers.
Alike(sk) ==
  \A h \in Handles : /\ sk[h] = NoSocket <=> sock[h] = NoSocket
                     /\ sk[h].owner = sock[h].owner /\ sk[h].remote = sock[h].remote

LEMMA AlikeServes ==
  ASSUME NEW sk, Alike(sk), NEW cl, NEW c
  PROVE  Serving(sk, cl, c) <=> Serving(sock, cl, c)
<1> HIDE DEF NoSocket
<1> QED BY DEF Serving, Alike

\* To close a socket takes it from its remote only.
LEMMA CloseServes ==
  ASSUME NEW sk \in [Handles -> Entries], Alike(sk), NEW st, NEW h \in Handles,
         CloseSocket(h, sk, st), NEW cl, NEW c, Serving(sock, cl, c)
  PROVE  /\ Serving(sock', cl, c) \/ (c = sock[h].remote /\ sock[h].owner \notin cl)
         /\ \A i \in Handles : sock'[i] # NoSocket => sock[i] # NoSocket
<1>1. sock' = [sk EXCEPT ![h] = NoSocket]
  BY DEF CloseSocket
<1> HIDE DEF NoSocket
<1>2. sock'[h] = NoSocket /\ \A i \in Handles \ {h} : sock'[i] = sk[i]
  BY <1>1
<1>3. PICK i \in Handles : sock[i] # NoSocket /\ sock[i].remote = c /\ sock[i].owner \notin cl
  BY DEF Serving
<1>4. CASE i = h
  BY <1>2, <1>3, <1>4 DEF Alike
<1>5. CASE i # h
  <2>1. sock'[i] # NoSocket /\ sock'[i].remote = c /\ sock'[i].owner \notin cl
    BY <1>2, <1>3, <1>5 DEF Alike
  <2>2. Serving(sock', cl, c)
    BY <2>1 DEF Serving
  <2> QED BY <1>2, <2>2 DEF Alike
<1> QED BY <1>4, <1>5

\* async_close_socket by s: a client that loses a socket, or has one that is
\* closed when its data is read, is sent a FIN.
LEMMA AsyncCloseServes ==
  ASSUME ProcTypes, Owned(sock), ArpInv, NEW s \in Sessions,
         NEW sk \in [Handles -> Entries], Alike(sk), NEW st, AsyncClose(s, sk, st)
  PROVE  /\ \A h \in Handles : sock'[h] # NoSocket => sock[h] # NoSocket
         /\ \/ /\ Nothing
               /\ \A c \in Clients : Serving(sock, closing, c) => Serving(sock', closing', c)
            \/ \E d \in Clients :
                 /\ arpServer /\ Sent(d, Packet("Fin"))
                 /\ \A c \in Clients : Serving(sock, closing, c) =>
                      Serving(sock', closing', c) \/ c = d
<1>1. PICK h \in Handles : h = handle[s]
  BY DEF ProcTypes
<1>2. CASE sk[h] = NoSocket
  <2>1. sock' = sk /\ closing' = closing /\ Nothing
    BY <1>1, <1>2 DEF AsyncClose
  <2>2. \A c : Serving(sock', closing', c) <=> Serving(sock, closing, c)
    BY <2>1, AlikeServes
  <2>3. \A i \in Handles : sock'[i] # NoSocket => sock[i] # NoSocket
    BY <2>1 DEF Alike
  <2> QED BY <2>1, <2>2, <2>3
<1>3. CASE sk[h] # NoSocket
  <2>1. PICK d \in Clients : d = sock[h].remote /\ d = sk[h].remote
    BY <1>3 DEF Alike, Owned
  <2>2. arpServer
    BY <1>3 DEF Alike, ArpInv
  <2>3. Sent(d, Packet("Fin"))
    BY <1>1, <1>3, <2>1 DEF AsyncClose
  <2>4. CASE sk[h].rx = 0
    <3>1. CloseSocket(h, sk, st) /\ closing' = closing
      BY <1>1, <1>3, <2>4 DEF AsyncClose
    <3>2. /\ \A c : Serving(sock, closing, c) => Serving(sock', closing, c) \/ c = d
          /\ \A i \in Handles : sock'[i] # NoSocket => sock[i] # NoSocket
      <4>1. ASSUME NEW c, Serving(sock, closing, c)
            PROVE  Serving(sock', closing, c) \/ c = d
        BY <2>1, <3>1, <4>1, CloseServes
      <4>2. \A i \in Handles : sock'[i] # NoSocket => sock[i] # NoSocket
        <5>1. sock' = [sk EXCEPT ![h] = NoSocket]
          BY <3>1 DEF CloseSocket
        <5> HIDE DEF NoSocket
        <5> QED BY <5>1 DEF Alike
      <4> QED BY <4>1, <4>2
    <3> QED BY <2>2, <2>3, <3>1, <3>2
  <2>5. CASE sk[h].rx # 0
    <3>1. sock' = sk /\ closing' = closing \cup {s}
      BY <1>1, <1>3, <2>5 DEF AsyncClose
    <3>2. ASSUME NEW c \in Clients, Serving(sock, closing, c)
          PROVE  Serving(sk, closing \cup {s}, c) \/ c = d
      <4>1. PICK i \in Handles :
              sock[i] # NoSocket /\ sock[i].remote = c /\ sock[i].owner \notin closing
        BY <3>2 DEF Serving
      <4>2. CASE i = h
        BY <2>1, <4>1, <4>2
      <4>3. CASE i # h
        <5>1. handle[sock[i].owner] = i
          BY <4>1 DEF Owned
        <5>2. sock[i].owner # s
          BY <1>1, <4>3, <5>1
        <5>3. /\ sk[i] # NoSocket /\ sk[i].remote = c
              /\ sk[i].owner \notin closing \cup {s}
          BY <4>1, <5>2 DEF Alike
        <5> QED BY <5>3 DEF Serving
      <4> QED BY <4>2, <4>3
    <3>3. \A i \in Handles : sock'[i] # NoSocket => sock[i] # NoSocket
      BY <3>1 DEF Alike
    <3> QED BY <2>2, <2>3, <3>1, <3>2, <3>3
  <2> QED BY <2>4, <2>5
<1> QED BY <1>2, <1>3

LEMMA Packed == Packet("Ack") \in Packets /\ Packet("Fin") \in Packets
                /\ Packet("Ack").type = "Ack" /\ Packet("Fin").type = "Fin"
  BY DEF Packet, Packets

LEMMA ExitAgrees ==
  ASSUME EndsInv, NEW s \in Sessions, Exit(s)
  PROVE  UpInv' /\ ArpInv' /\ AgreeInv'
<1>1. /\ ProcTypes /\ Owned(sock) /\ sock \in [Handles -> Entries] /\ NetInv
      /\ UpInv /\ ArpInv /\ AgreeInv
  BY DEF EndsInv, SshInv, TableInv, Good, TableTypes
<1>2. UNCHANGED <<client, up, silenced>>
  BY DEF Exit, clientVars
<1> DEFINE Effect ==
       /\ \A h \in Handles : sock'[h] # NoSocket => sock[h] # NoSocket
       /\ \/ /\ Nothing
             /\ \A c \in Clients : Serving(sock, closing, c) => Serving(sock', closing', c)
          \/ \E d \in Clients :
               /\ arpServer /\ Sent(d, Packet("Fin"))
               /\ \A c \in Clients : Serving(sock, closing, c) =>
                    Serving(sock', closing', c) \/ c = d
<1>3. ASSUME NEW e \in Handles, sock[e] # NoSocket, NEW st, CountDown(s, e, st)
      PROVE  Effect
  <2> DEFINE sk == [sock EXCEPT ![e].count = @ - 1]
  <2>1. /\ sock[e] \in Entries /\ sk[e] = [sock[e] EXCEPT !.count = @ - 1]
        /\ \A h \in Handles \ {e} : sk[h] = sock[h]
        /\ sk \in [Handles -> Entries]
    <3>1. sock[e] \in Entries
      BY <1>1
    <3>2. [sock[e] EXCEPT !.count = @ - 1] \in Entries
      BY <3>1 DEF Entries
    <3> QED BY <1>1, <3>1, <3>2
  <2>2. /\ sk[e].owner = sock[e].owner /\ sk[e].remote = sock[e].remote
        /\ sock[e].owner # NoSession
    <3>1. sock[e].owner # NoSession
      BY <1>1, <1>3, Constant DEF Owned
    <3> QED BY <2>1, <3>1 DEF Entries
  <2>3. sk[e] # NoSocket
    BY <2>2 DEF NoSocket
  <2>4. \/ sk[e].count = 0 /\ AsyncClose(s, sk, st)
        \/ sock' = sk /\ Nothing /\ UNCHANGED closing
    BY <1>3 DEF CountDown
  <2> HIDE DEF sk, NoSocket
  <2>5. Alike(sk)
    BY <1>3, <2>1, <2>2, <2>3 DEF Alike
  <2>6. CASE AsyncClose(s, sk, st)
    BY <1>1, <2>1, <2>5, <2>6, AsyncCloseServes
  <2>7. CASE sock' = sk /\ Nothing /\ UNCHANGED closing
    <3>1. \A c : Serving(sock', closing', c) <=> Serving(sock, closing, c)
      BY <2>5, <2>7, AlikeServes
    <3>2. \A h \in Handles : sock'[h] # NoSocket => sock[h] # NoSocket
      BY <2>5, <2>7 DEF Alike
    <3> QED BY <2>7, <3>1, <3>2
  <2> QED BY <2>4, <2>6, <2>7
<1>4. Effect
  <2>1. CASE \E st : Owns(s) /\ CountDown(s, handle[s], st)
    <3>1. handle[s] \in Handles /\ sock[handle[s]] # NoSocket
      BY <2>1 DEF Owns, Live
    <3> QED BY <1>3, <2>1, <3>1
  <2>2. CASE Nothing /\ UNCHANGED <<sock, closing>>
    BY <2>2 DEF Serving
  <2>3. CASE \E st : AsyncClose(s, sock, st)
    <3>1. Alike(sock)
      BY DEF Alike
    <3> QED BY <1>1, <2>3, <3>1, AsyncCloseServes
  <2>4. CASE \E st : \E e \in Handles : Live(e) /\ CountDown(s, e, st)
    BY <1>3, <2>4 DEF Live
  <2> QED BY <2>1, <2>2, <2>3, <2>4 DEF Exit
<1>5. UpInv'
  BY <1>1, <1>2, UpTail
<1>6. arpServer => arpServer'
  BY <1>4 DEF Nothing, Sent
<1>7. ArpInv'
  BY <1>1, <1>4, <1>6, ArpStep
<1>8. AgreeInv'
  <2>1. CASE /\ Nothing
             /\ \A c \in Clients : Serving(sock, closing, c) => Serving(sock', closing', c)
    BY <1>1, <1>2, <2>1, StillAgree DEF Nothing
  <2>2. ASSUME NEW d \in Clients, arpServer, Sent(d, Packet("Fin")),
               \A c \in Clients : Serving(sock, closing, c) =>
                 Serving(sock', closing', c) \/ c = d
        PROVE  AgreeInv'
    <3>1. PICK p \in Packets : p = Packet("Fin") /\ p.type = "Fin"
      BY Packed
    <3>2. Sent(d, p)
      BY <2>2, <3>1
    <3> HIDE DEF Sent, Serving, Packet
    <3> QED BY <1>1, <1>2, <2>2, <3>1, <3>2, DownStep
  <2> QED BY <1>4, <2>1, <2>2
<1> QED BY <1>5, <1>7, <1>8

LEMMA AnswerAgrees ==
  ASSUME EndsInv, NEW s \in Sessions, Answer(s) \/ Leave(s)
  PROVE  UpInv' /\ ArpInv' /\ AgreeInv'
<1>1. /\ ProcTypes /\ Owned(sock) /\ sock \in [Handles -> Entries] /\ NetInv
      /\ UpInv /\ ArpInv /\ AgreeInv /\ SshInv
  BY DEF EndsInv, SshInv, TableInv, Good, TableTypes
<1>2. /\ UNCHANGED <<client, up, silenced, closing>> /\ s \in Sessions
      /\ IF Live(handle[s]) THEN Sent(sock[handle[s]].remote, DataOf(s)) ELSE Nothing
      /\ state[s] \in Active
      /\ sock' = sock \/ Reads(s)
  BY DEF Answer, Leave, clientVars, table, Active, ghosts
<1>3. Alike(sock')
  <2>1. CASE sock' = sock
    BY <2>1 DEF Alike
  <2>2. ASSUME Reads(s), sock' # sock PROVE Alike(sock')
    <3>1. PICK h \in Handles : h = handle[s] /\ sock[h] # NoSocket
      BY <2>2 DEF Reads, Live
    <3>2. PICK e : /\ sock' = [sock EXCEPT ![h] = e]
                   /\ \/ e = [sock[h] EXCEPT !.rx = @ - 1]
                      \/ e = [sock[h] EXCEPT !.waiting = @ \cup {s}]
      BY <2>2, <3>1 DEF Reads, Live
    <3>3. sock[h] \in Entries /\ sock[h].owner # NoSession
      BY <1>1, <3>1, Constant DEF Owned
    <3>4. e.owner = sock[h].owner /\ e.remote = sock[h].remote
      BY <3>2, <3>3 DEF Entries
    <3>5. e # NoSocket
      BY <3>3, <3>4 DEF NoSocket
    <3> HIDE DEF NoSocket
    <3>6. sock'[h] = e /\ \A i \in Handles \ {h} : sock'[i] = sock[i]
      BY <1>1, <3>2
    <3> QED BY <3>1, <3>4, <3>5, <3>6 DEF Alike
  <2> QED BY <1>2, <2>1, <2>2
<1>4. \A c : Serving(sock', closing', c) <=> Serving(sock, closing, c)
  BY <1>2, <1>3, AlikeServes
<1>5. \A h \in Handles : sock'[h] # NoSocket => sock[h] # NoSocket
  BY <1>3 DEF Alike
<1>6. UpInv'
  BY <1>1, <1>2, UpTail
<1>7. CASE ~Live(handle[s])
  <2>1. Nothing
    BY <1>2, <1>7
  <2>2. ArpInv'
    BY <1>1, <1>5, <2>1, ArpStep DEF Nothing
  <2>3. AgreeInv'
    BY <1>1, <1>2, <1>4, <2>1, StillAgree DEF Nothing
  <2> QED BY <1>6, <2>2, <2>3
<1>8. CASE Live(handle[s])
  <2>1. PICK d \in Clients : d = sock[handle[s]].remote
    BY <1>1, <1>2, <1>8, OwnClient
  <2>2. PICK p \in Packets : p = DataOf(s) /\ p.type = "Data"
    <3>1. DataOf(s) \in Packets
      BY DEF DataOf, Packets
    <3>2. DataOf(s).type = "Data"
      BY DEF DataOf
    <3> QED BY <3>1, <3>2
  <2>3. Sent(d, p)
    BY <1>2, <1>8, <2>1, <2>2
  <2>4. arpServer => arpServer'
    BY <2>3 DEF Sent
  <2>5. ArpInv'
    BY <1>1, <1>5, <2>4, ArpStep
  <2>6. p.type # "Ack"
    BY <2>2
  <2> HIDE DEF Sent, Serving, DataOf
  <2>7. AgreeInv'
    BY <1>1, <1>2, <1>4, <2>3, <2>6, DownStep
  <2> QED BY <1>6, <2>5, <2>7
<1> QED BY <1>7, <1>8

\* The loop of async_close_socket takes a socket from the session it was made
\* for, which was about to lose it, or silences a client.
LEMMA PollClosingAgrees ==
  ASSUME EndsInv, NEW s \in Sessions, PollClosing(s)
  PROVE  UpInv' /\ ArpInv' /\ AgreeInv'
<1>1. /\ ProcTypes /\ Owned(sock) /\ sock \in [Handles -> Entries]
      /\ UpInv /\ ArpInv /\ AgreeInv
  BY DEF EndsInv, SshInv, TableInv, Good, TableTypes
<1>2. /\ UNCHANGED <<client, up, down, arpServer>> /\ closing' = closing \ {s}
      /\ s \in closing /\ silenced \subseteq silenced'
  BY DEF PollClosing, clientVars, wires
<1>3. UpInv'
  BY <1>1, <1>2, UpTail
<1>4. CASE UNCHANGED sock
  <2>1. ArpInv'
    BY <1>1, <1>2, <1>4, ArpStep
  <2>2. \A c \in Clients : Serving(sock, closing, c) => Serving(sock', closing', c)
    BY <1>2, <1>4 DEF Serving
  <2>3. AgreeInv'
    BY <1>1, <1>2, <2>2, StillAgree
  <2> QED BY <1>3, <2>1, <2>3
<1>5. CASE /\ Live(handle[s]) /\ CloseSocket(handle[s], sock, state)
           /\ silenced' = IF Owns(s) THEN silenced
                          ELSE silenced \cup {sock[handle[s]].remote}
  <2>1. PICK h \in Handles : h = handle[s]
    BY <1>5 DEF Live
  <2>2. CloseSocket(h, sock, state) /\ sock[h] # NoSocket
    BY <1>5, <2>1 DEF Live
  <2>3. Alike(sock)
    BY DEF Alike
  <2>4. ASSUME NEW c \in Clients, Serving(sock, closing, c)
        PROVE  Serving(sock', closing', c) \/ c \in silenced'
    <3>1. \/ Serving(sock', closing, c)
          \/ c = sock[h].remote /\ sock[h].owner \notin closing
      BY <1>1, <2>2, <2>3, <2>4, CloseServes
    <3>2. Serving(sock', closing, c) => Serving(sock', closing', c)
      BY <1>2 DEF Serving
    <3>3. sock[h].owner \notin closing => ~Owns(s)
      BY <1>2, <2>1 DEF Owns
    <3> QED BY <1>5, <2>1, <3>1, <3>2, <3>3
  <2>5. \A i \in Handles : sock'[i] # NoSocket => sock[i] # NoSocket
    <3>1. sock' = [sock EXCEPT ![h] = NoSocket]
      BY <2>2 DEF CloseSocket
    <3> HIDE DEF NoSocket
    <3> QED BY <1>1, <3>1
  <2>6. ArpInv'
    BY <1>1, <1>2, <2>5, ArpStep
  <2>7. AgreeInv'
    BY <1>1, <1>2, <2>4, StillAgree
  <2> QED BY <1>3, <2>6, <2>7
<1> QED BY <1>4, <1>5 DEF PollClosing

\* What a client sends is taken from the first in first out.
LEMMA Received ==
  ASSUME UpInv, NEW c \in Clients, NEW type, Receives(c, type), UNCHANGED client
  PROVE  /\ UpInv' /\ up[c] \in Seq(UpPackets) /\ 1 \in 1 .. Len(up[c])
         /\ up[c][1].type = type
<1>1. up[c] # <<>> /\ up' = [up EXCEPT ![c] = Tail(@)] /\ Head(up[c]).type = type
  BY DEF Receives
<1>2. UpInv'
  BY <1>1, UpTail
<1>3. up[c] \in Seq(UpPackets)
  BY DEF UpInv
<1>4. 1 \in 1 .. Len(up[c]) /\ Head(up[c]) = up[c][1]
  BY <1>1, <1>3
<1> QED BY <1>1, <1>2, <1>3, <1>4

LEMMA ReceiveDataAgrees ==
  ASSUME EndsInv, NEW c \in Clients, ReceiveData(c)
  PROVE  UpInv' /\ ArpInv' /\ AgreeInv'
<1>1. /\ Owned(sock) /\ sock \in [Handles -> Entries] /\ UpInv /\ ArpInv /\ AgreeInv
  BY DEF EndsInv, SshInv, TableInv, Good, TableTypes
<1>2. /\ Receives(c, "Data") /\ UNCHANGED <<client, down, arpServer, closing, silenced>>
  BY DEF ReceiveData, clientVars
<1>3. UpInv'
  BY <1>1, <1>2, UpTail DEF Receives
<1>4. Alike(sock')
  <2>1. CASE sock' = sock
    BY <2>1 DEF Alike
  <2>2. ASSUME NEW h \in With(c), Pushed(c, h) PROVE Alike(sock')
    <3>1. h \in Handles /\ sock[h] # NoSocket
      BY <2>2 DEF With, Live
    <3>2. PICK e : /\ sock' = [sock EXCEPT ![h] = e]
                   /\ \/ e = [sock[h] EXCEPT !.rx = @ + 1]
                      \/ e = [sock[h] EXCEPT !.waiting = {}]
      BY <2>2, <3>1 DEF Pushed
    <3>3. sock[h] \in Entries /\ sock[h].owner # NoSession
      BY <1>1, <3>1, Constant DEF Owned
    <3>4. e.owner = sock[h].owner /\ e.remote = sock[h].remote
      BY <3>2, <3>3 DEF Entries
    <3>5. e # NoSocket
      BY <3>3, <3>4 DEF NoSocket
    <3> HIDE DEF NoSocket
    <3>6. sock'[h] = e /\ \A i \in Handles \ {h} : sock'[i] = sock[i]
      BY <1>1, <3>1, <3>2
    <3> QED BY <3>1, <3>4, <3>5, <3>6 DEF Alike
  <2> QED BY <2>1, <2>2 DEF ReceiveData
<1>5. \A d : Serving(sock', closing', d) <=> Serving(sock, closing, d)
  BY <1>2, <1>4, AlikeServes
<1>6. \A h \in Handles : sock'[h] # NoSocket => sock[h] # NoSocket
  BY <1>4 DEF Alike
<1>7. ArpInv'
  BY <1>1, <1>2, <1>6, ArpStep
<1>8. AgreeInv'
  BY <1>1, <1>2, <1>5, StillAgree
<1> QED BY <1>3, <1>7, <1>8

\* A FIN comes from a client that is off.
LEMMA ReceiveFinAgrees ==
  ASSUME EndsInv, NEW c \in Clients, ReceiveFin(c)
  PROVE  UpInv' /\ ArpInv' /\ AgreeInv'
<1>1. /\ Owned(sock) /\ sock \in [Handles -> Entries] /\ UpInv /\ ArpInv /\ AgreeInv
  BY DEF EndsInv, SshInv, TableInv, Good, TableTypes
<1>2. /\ Receives(c, "Fin") /\ UNCHANGED <<client, down, arpServer, closing, silenced>>
  BY DEF ReceiveFin, clientVars
<1>3. UpInv' /\ client[c] = "off"
  <2>1. PICK type : type = "Fin"
    OBVIOUS
  <2>2. Receives(c, type)
    BY <1>2, <2>1
  <2>3. UpInv' /\ 1 \in 1 .. Len(up[c]) /\ up[c][1].type = type
    BY <1>1, <1>2, <2>2, Received
  <2> QED BY <1>1, <2>1, <2>3 DEF UpInv
<1>4. ~Going(client[c], down[c])
  BY <1>3 DEF Going
<1>5. CASE UNCHANGED sock
  <2>1. ArpInv'
    BY <1>1, <1>2, <1>5, ArpStep
  <2>2. AgreeInv'
    BY <1>1, <1>2, <1>5, StillAgree
  <2> QED BY <1>3, <2>1, <2>2
<1>6. ASSUME NEW h \in With(c), CloseSocket(h, sock, state)
      PROVE  UpInv' /\ ArpInv' /\ AgreeInv'
  <2>1. h \in Handles /\ sock[h].remote = c
    BY <1>6 DEF With
  <2>2. Alike(sock)
    BY DEF Alike
  <2>3. ASSUME NEW d \in Clients, Going(client[d], down[d]), Serving(sock, closing, d)
        PROVE  Serving(sock', closing', d)
    <3>1. d # c
      BY <1>4, <2>3
    <3>2. Serving(sock', closing, d) \/ d = sock[h].remote
      BY <1>1, <1>6, <2>1, <2>2, <2>3, CloseServes
    <3> QED BY <1>2, <2>1, <3>1, <3>2
  <2>4. \A i \in Handles : sock'[i] # NoSocket => sock[i] # NoSocket
    <3>1. sock' = [sock EXCEPT ![h] = NoSocket]
      BY <1>6 DEF CloseSocket
    <3> HIDE DEF NoSocket
    <3> QED BY <1>1, <2>1, <3>1
  <2>5. ArpInv'
    BY <1>1, <1>2, <2>4, ArpStep
  <2>6. AgreeInv'
    BY <1>1, <1>2, <2>3, StillAgree
  <2> QED BY <1>3, <2>5, <2>6
<1> QED BY <1>5, <1>6 DEF ReceiveFin

\* An Ack that answers a Syn comes with a socket of a session that is new, so
\* not closing.
LEMMA ReceiveSynAgrees ==
  ASSUME EndsInv, NEW c \in Clients, ReceiveSyn(c)
  PROVE  UpInv' /\ ArpInv' /\ AgreeInv'
<1> DEFINE n == accepted + 1
<1>1. /\ ProcTypes /\ TableTypes(sock, state, freeHandles, stale, closing)
      /\ FreeExact(sock, freeHandles) /\ sock \in [Handles -> Entries] /\ NetInv
      /\ UpInv /\ ArpInv /\ AgreeInv /\ accepted < MaxAttempts
  BY DEF EndsInv, SshInv, TableInv, Good, TableTypes, ReceiveSyn
<1>2. PICK h \in Handles : h = NewHandle /\ sock[h] = NoSocket
  BY <1>1, NewHandleClosed
<1>3. PICK e : e = [owner |-> n, remote |-> c, count |-> 1, rx |-> 0, waiting |-> {}]
  OBVIOUS
<1>4. /\ sock' = [sock EXCEPT ![h] = e] /\ Sent(c, Packet("Ack"))
      /\ UNCHANGED <<client, closing, silenced>> /\ Receives(c, "Syn")
  BY <1>2, <1>3 DEF ReceiveSyn, SocketAccepted, SessionForked, clientVars, ghosts
<1>5. e.owner = n /\ e.remote = c /\ e # NoSocket /\ n \notin closing
  <2>1. accepted \in Nat /\ n # 0
    BY <1>1 DEF ProcTypes
  <2>2. n \notin closing
    <3>1. ~(n <= accepted)
      BY <2>1
    <3> QED BY <1>1, <3>1 DEF TableTypes
  <2>3. e.owner = n /\ e.remote = c
    BY <1>3
  <2>4. e # NoSocket
    BY <2>1, <2>3 DEF NoSocket, NoSession
  <2> QED BY <2>2, <2>3, <2>4
<1> HIDE DEF NoSocket, n
<1>6. sock'[h] = e /\ \A i \in Handles \ {h} : sock'[i] = sock[i]
  BY <1>1, <1>4
<1>7. \A d : Serving(sock, closing, d) => Serving(sock', closing', d)
  BY <1>2, <1>4, <1>6 DEF Serving
<1>8. Serving(sock', closing', c)
  BY <1>4, <1>5, <1>6 DEF Serving
<1>9. UpInv'
  BY <1>1, <1>4, UpTail DEF Receives
<1>10. ArpInv'
  <2>1. arpServer' /\ (arpServer => arpServer')
    BY <1>4 DEF Sent
  <2> QED BY <1>1, <2>1, ArpStep
<1>11. AgreeInv'
  <2>1. PICK p \in Packets : p = Packet("Ack")
    BY Packed
  <2>2. Sent(c, p)
    BY <1>4, <2>1
  <2> HIDE DEF Sent, Serving, Packet
  <2> QED BY <1>1, <1>4, <1>7, <1>8, <2>2, DownStep
<1> QED BY <1>9, <1>10, <1>11

\* A test comes from no client that waits for its first Ack.
LEMMA ReceiveTestAgrees ==
  ASSUME EndsInv, NEW c \in Clients, ReceiveTest(c)
  PROVE  UpInv' /\ ArpInv' /\ AgreeInv'
<1>1. NetInv /\ UpInv /\ ArpInv /\ AgreeInv
  BY DEF EndsInv, SshInv
<1>2. /\ Receives(c, "Test") /\ UNCHANGED <<client, sock, closing, silenced>>
      /\ Nothing \/ Sent(c, Packet("Ack"))
  BY DEF ReceiveTest, clientVars, table, procs, ghosts
<1>3. UpInv' /\ client[c] # "connecting"
  <2>1. PICK type : type = "Test"
    OBVIOUS
  <2>2. Receives(c, type)
    BY <1>2, <2>1
  <2>3. UpInv' /\ 1 \in 1 .. Len(up[c]) /\ up[c][1].type = type
    BY <1>1, <1>2, <2>2, Received
  <2> QED BY <1>1, <2>1, <2>3 DEF UpInv
<1>4. \A d : Serving(sock, closing, d) => Serving(sock', closing', d)
  BY <1>2
<1>5. ArpInv'
  <2>1. arpServer => arpServer'
    BY <1>2 DEF Sent, Nothing
  <2> QED BY <1>1, <1>2, <2>1, ArpStep
<1>6. AgreeInv'
  <2>1. CASE Nothing
    BY <1>1, <1>2, <1>4, <2>1, StillAgree DEF Nothing
  <2>2. CASE Sent(c, Packet("Ack"))
    <3>1. PICK p \in Packets : p = Packet("Ack")
      BY Packed
    <3>2. Sent(c, p)
      BY <2>2, <3>1
    <3> HIDE DEF Sent, Serving, Packet
    <3> QED BY <1>1, <1>2, <1>3, <1>4, <3>2, DownStep
  <2> QED BY <1>2, <2>1, <2>2
<1> QED BY <1>3, <1>5, <1>6

LEMMA NoNews ==
  ASSUME EndsInv, UNCHANGED <<client, up, down, arpServer, sock, closing, silenced>>
  PROVE  UpInv' /\ ArpInv' /\ AgreeInv'
BY DEF EndsInv, UpInv, ArpInv, AgreeInv, Serving

LEMMA EndsInvStep == EndsInv /\ [Next]_vars => EndsInv'
<1> SUFFICES ASSUME EndsInv, [Next]_vars PROVE EndsInv'
  OBVIOUS
<1>1. SshInv'
  BY SshInvStep DEF EndsInv
<1> DEFINE Rest == UpInv /\ ArpInv /\ AgreeInv
<1>2. ASSUME NEW c \in Clients, Connect(c) \/ Type(c) \/ Quit(c) \/ ClientTimer(c)
      PROVE  Rest'
  BY <1>2, ClientActs
<1>3. ASSUME NEW c \in Clients, ClientReceive(c) PROVE Rest'
  BY <1>3, ClientReads
<1>4. ASSUME NEW c \in Clients, ServerReceive(c) PROVE Rest'
  BY <1>4, ReceiveSynAgrees, ReceiveDataAgrees, ReceiveFinAgrees, ReceiveTestAgrees
     DEF ServerReceive
<1>5. ASSUME NEW s \in Sessions, Answer(s) \/ Leave(s) PROVE Rest'
  BY <1>5, AnswerAgrees
<1>6. ASSUME NEW s \in Sessions, Exit(s) PROVE Rest'
  BY <1>6, ExitAgrees
<1>7. ASSUME NEW s \in Sessions, StartCommand(s) \/ Kill(s) PROVE Rest'
  BY <1>7, NoNews DEF StartCommand, Kill, clientVars, wires, table, ghosts
<1>8. ASSUME NEW s \in Sessions, PollClosing(s) PROVE Rest'
  BY <1>8, PollClosingAgrees
<1>9. ASSUME UNCHANGED vars PROVE Rest'
  BY <1>9, NoNews DEF vars
<1>10. Rest'
  <2> HIDE DEF Rest
  <2> QED BY <1>2, <1>3, <1>4, <1>5, <1>6, <1>7, <1>8, <1>9 DEF Next, Runs
<1> QED BY <1>1, <1>10 DEF EndsInv

\* Whenever nothing is under way, a client that believes it is connected has a
\* socket on the server: close_socket sends it a FIN first, and handle_packet
\* answers a Syn with an Ack and a socket.  Only a loop of async_close_socket that
\* holds another session's handle takes it away unsaid.
THEOREM BothEndsAgree == Spec => []EndsAgree
<1>1. Init => EndsInv
  BY EndsInit
<1>2. EndsInv /\ [Next]_vars => EndsInv'
  BY EndsInvStep
<1>3. EndsInv => EndsAgree
  BY EndsInvImplies
<1> QED BY <1>1, <1>2, <1>3, PTL DEF Spec
=============================================================================
