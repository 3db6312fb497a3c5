-------------------------- MODULE Processes_proofs --------------------------
(* For any number of processes, races and lines: a process is resumed once    *)
(* for each time it suspends, a host outlives the processes in front of it,   *)
(* an open race still waits for all it raced, and a line that was typed for   *)
(* a reader is taken.                                                         *)
EXTENDS Processes, TLAPS, WellFoundedInduction

\* A set of numbers has a smallest one (< on Nat is well founded).
LEMMA LeastExists ==
  ASSUME NEW S \in SUBSET Nat, S # {}
  PROVE  \E i \in S : \A j \in S : i <= j
<1>1. PICK x \in S : \A y \in S : ~(<<y, x>> \in OpToRel(<, Nat))
  BY NatLessThanWellFounded, WFMin, Zenon
<1>2. \A y \in S : ~(y < x)
  BY <1>1, Zenon DEF OpToRel
<1> QED BY <1>2

----------------------------------------------------------------------------
(* The chain of hosts.  Chain is a recursive function; that there is one with *)
(* the equation it is defined by is what has to be proved, up to each pid.    *)

Above(f, n) ==
  f = [q \in 1 .. n |-> IF host[q] = NoHost THEN <<q>> ELSE <<q>> \o f[host[q]]]

LEMMA ChainExists ==
  ASSUME MaxPid \in Nat, host \in [Pids -> 0 .. MaxPid],
         \A q \in Pids : host[q] < q
  PROVE  \E f : Above(f, MaxPid)
<1> DEFINE Bad == {n \in 0 .. MaxPid : ~ \E f : Above(f, n)}
<1> SUFFICES ASSUME Bad # {} PROVE FALSE
  OBVIOUS
<1>1. PICK n \in Bad : \A m \in Bad : n <= m
  <2>1. Bad \subseteq Nat
    OBVIOUS
  <2> HIDE DEF Bad
  <2> QED BY <2>1, LeastExists
<1>2. n # 0
  <2>1. Above([q \in 1 .. 0 |-> <<q>>], 0)
    BY DEF Above
  <2> QED BY <2>1
<1>3. PICK f : Above(f, n - 1)
  BY <1>1, <1>2
<1> DEFINE g == [q \in 1 .. n |-> IF host[q] = NoHost THEN <<q>> ELSE <<q>> \o f[host[q]]]
<1>4. \A q \in 1 .. n - 1 : g[q] = f[q]
  <2> TAKE q \in 1 .. n - 1
  <2>1. f[q] = IF host[q] = NoHost THEN <<q>> ELSE <<q>> \o f[host[q]]
    BY <1>3 DEF Above
  <2>2. q \in 1 .. n
    OBVIOUS
  <2> QED BY <2>1, <2>2
<1>5. \A q \in 1 .. n : host[q] # NoHost => host[q] \in 1 .. n - 1
  BY <1>1, <1>2 DEF Pids, NoHost
<1>6. g = [q \in 1 .. n |-> IF host[q] = NoHost THEN <<q>> ELSE <<q>> \o g[host[q]]]
  BY <1>4, <1>5
<1> QED BY <1>1, <1>6 DEF Above

LEMMA ChainIs ==
  ASSUME MaxPid \in Nat, host \in [Pids -> 0 .. MaxPid],
         \A q \in Pids : host[q] < q, NEW p \in Pids
  PROVE  Chain(p) = IF host[p] = NoHost THEN <<p>> ELSE <<p>> \o Chain(host[p])
<1> DEFINE chain == CHOOSE f : f = [q \in Pids |->
              IF host[q] = NoHost THEN <<q>> ELSE <<q>> \o f[host[q]]]
<1>1. \E f : f = [q \in Pids |->
              IF host[q] = NoHost THEN <<q>> ELSE <<q>> \o f[host[q]]]
  BY ChainExists DEF Above, Pids
<1>2. chain = [q \in Pids |->
              IF host[q] = NoHost THEN <<q>> ELSE <<q>> \o chain[host[q]]]
  BY <1>1
<1>3. \A q \in Pids : Chain(q) = chain[q]
  BY DEF Chain
<1>4. host[p] # NoHost => host[p] \in Pids
  BY DEF NoHost, Pids
<1> HIDE DEF chain
<1>5. chain[p] = IF host[p] = NoHost THEN <<p>> ELSE <<p>> \o chain[host[p]]
  BY <1>2
<1> QED BY <1>3, <1>4, <1>5

\* A chain begins with its process, ends with one that has no host, and goes on
\* to the host everywhere else, which is older.
ChainOf(s, p) ==
  /\ s \in Seq(Pids) /\ Len(s) >= 1 /\ s[1] = p
  /\ \A i \in 1 .. Len(s) - 1 : host[s[i]] = s[i + 1]
  /\ host[s[Len(s)]] = NoHost
  /\ \A i, j \in 1 .. Len(s) : i < j => s[j] < s[i]

LEMMA ChainGrows ==
  ASSUME MaxPid \in Nat, host \in [Pids -> 0 .. MaxPid], NEW p \in Pids,
         host[p] < p, NEW s, ChainOf(s, host[p])
  PROVE  ChainOf(<<p>> \o s, p)
<1>1. s \in Seq(Pids) /\ Len(s) \in Nat /\ Len(s) >= 1 /\ s[1] = host[p]
  BY DEF ChainOf
<1>2. /\ <<p>> \o s \in Seq(Pids) /\ Len(<<p>> \o s) = Len(s) + 1
      /\ (<<p>> \o s)[1] = p
      /\ \A i \in 1 .. Len(s) : (<<p>> \o s)[i + 1] = s[i]
  BY <1>1
<1> DEFINE t == <<p>> \o s
<1> HIDE DEF t
<1>3. /\ t \in Seq(Pids) /\ Len(t) = Len(s) + 1 /\ t[1] = p
      /\ \A i \in 1 .. Len(s) : t[i + 1] = s[i]
  BY <1>2 DEF t
<1>4. ASSUME NEW i \in 1 .. Len(t) - 1 PROVE host[t[i]] = t[i + 1]
  <2>1. CASE i = 1
    BY <1>1, <1>3, <2>1
  <2>2. CASE i # 1
    <3>1. PICK j \in 1 .. Len(s) - 1 : i = j + 1
      <4>1. i - 1 \in 1 .. Len(s) - 1 /\ i = (i - 1) + 1
        BY <1>1, <1>3, <2>2
      <4> QED BY <4>1
    <3>2. t[j + 1] = s[j] /\ t[(j + 1) + 1] = s[j + 1]
      <4>1. j \in 1 .. Len(s) /\ j + 1 \in 1 .. Len(s)
        BY <1>1
      <4> QED BY <1>3, <4>1
    <3> QED BY <3>1, <3>2 DEF ChainOf
  <2> QED BY <2>1, <2>2
<1>5. t[Len(t)] = s[Len(s)]
  BY <1>1, <1>3
<1>6. ASSUME NEW i \in 1 .. Len(t), NEW j \in 1 .. Len(t), i < j PROVE t[j] < t[i]
  <2>1. PICK b \in 1 .. Len(s) : j = b + 1
    <3>1. j - 1 \in 1 .. Len(s) /\ j = (j - 1) + 1
      BY <1>1, <1>3, <1>6
    <3> QED BY <3>1
  <2>2. t[j] = s[b] /\ \A k \in 1 .. Len(s) : s[k] \in Nat
    <3>1. \A k \in 1 .. Len(s) : s[k] \in Pids
      BY <1>1
    <3>2. \A k \in Pids : k \in Nat
      BY DEF Pids
    <3>3. t[b + 1] = s[b]
      BY <1>3
    <3> QED BY <2>1, <3>1, <3>2, <3>3
  <2>3. CASE i = 1
    <3>0. 1 \in 1 .. Len(s) /\ (b = 1 \/ 1 < b)
      BY <1>1
    <3>1. b = 1 \/ s[b] < s[1]
      BY <3>0 DEF ChainOf
    <3>2. s[b] \in Nat /\ s[1] \in Nat /\ p \in Nat
      BY <2>2, <3>0 DEF Pids
    <3>3. s[b] < p
      BY <1>1, <3>1, <3>2
    <3> QED BY <1>3, <2>2, <2>3, <3>3
  <2>4. CASE i # 1
    <3>1. PICK a \in 1 .. Len(s) : i = a + 1
      <4>1. i - 1 \in 1 .. Len(s) /\ i = (i - 1) + 1
        BY <1>1, <1>3, <2>4
      <4> QED BY <4>1
    <3>2. a < b
      BY <1>6, <2>1, <3>1
    <3>3. s[b] < s[a]
      BY <3>2 DEF ChainOf
    <3> QED BY <1>3, <2>2, <3>1, <3>3
  <2> QED BY <2>3, <2>4
<1>7. ChainOf(t, p)
  BY <1>1, <1>3, <1>4, <1>5, <1>6 DEF ChainOf
<1> QED BY <1>7 DEF t

LEMMA ChainsEnd ==
  ASSUME MaxPid \in Nat, host \in [Pids -> 0 .. MaxPid],
         \A q \in Pids : host[q] < q
  PROVE  \A p \in Pids : ChainOf(Chain(p), p)
<1> DEFINE Bad == {p \in Pids : ~ChainOf(Chain(p), p)}
<1> SUFFICES ASSUME Bad # {} PROVE FALSE
  OBVIOUS
<1>1. PICK p \in Bad : \A q \in Bad : p <= q
  <2>1. Bad \subseteq Nat
    BY DEF Pids
  <2> HIDE DEF Bad
  <2> QED BY <2>1, LeastExists
<1>2. CASE host[p] = NoHost
  <2>1. Chain(p) = <<p>>
    BY <1>2, ChainIs
  <2>2. ChainOf(<<p>>, p)
    BY <1>2 DEF ChainOf
  <2> QED BY <2>1, <2>2
<1>3. CASE host[p] # NoHost
  <2>1. host[p] \in Pids /\ host[p] < p
    BY <1>3 DEF Pids, NoHost
  <2>2. ChainOf(Chain(host[p]), host[p])
    BY <1>1, <2>1 DEF Pids
  <2>3. ChainOf(<<p>> \o Chain(host[p]), p)
    BY <2>2, ChainGrows
  <2>4. Chain(p) = <<p>> \o Chain(host[p])
    BY <1>3, ChainIs
  <2> QED BY <2>3, <2>4
<1> QED BY <1>2, <1>3

----------------------------------------------------------------------------
(* The stack *)

Occurs(s, f) == \E i \in DOMAIN s : s[i] = f
Single(s, f) == \A i, j \in DOMAIN s : (s[i] = f /\ s[j] = f) => i = j

\* f on top of s, and what is left when it goes.
LEMMA OnTop ==
  ASSUME NEW S, NEW s \in Seq(S), NEW g \in S
  PROVE  /\ <<g>> \o s \in Seq(S)
         /\ \A f : Occurs(<<g>> \o s, f) <=> (f = g \/ Occurs(s, f))
         /\ \A f : Single(<<g>> \o s, f) <=>
                     (Single(s, f) /\ ((f = g) => ~Occurs(s, f)))
<1> DEFINE t == <<g>> \o s
<1>1. /\ t \in Seq(S) /\ Len(t) = Len(s) + 1 /\ t[1] = g
      /\ \A i \in 1 .. Len(s) : t[i + 1] = s[i]
      /\ DOMAIN t = 1 .. Len(s) + 1 /\ DOMAIN s = 1 .. Len(s) /\ Len(s) \in Nat
  OBVIOUS
<1> HIDE DEF t
<1>2. \A i \in DOMAIN t : i = 1 \/ (i - 1 \in DOMAIN s /\ t[i] = s[i - 1])
  <2> SUFFICES ASSUME NEW i \in DOMAIN t, i # 1
               PROVE  i - 1 \in DOMAIN s /\ t[i] = s[i - 1]
    OBVIOUS
  <2>1. i - 1 \in 1 .. Len(s) /\ (i - 1) + 1 = i
    BY <1>1
  <2> QED BY <1>1, <2>1
<1>3. \A i \in DOMAIN s : i + 1 \in DOMAIN t /\ t[i + 1] = s[i]
  BY <1>1
<1>4. \A f : Occurs(t, f) <=> (f = g \/ Occurs(s, f))
  <2> TAKE f
  <2>1. Occurs(t, f) => (f = g \/ Occurs(s, f))
    BY <1>1, <1>2 DEF Occurs
  <2>2. 1 \in DOMAIN t
    BY <1>1
  <2>3. (f = g \/ Occurs(s, f)) => Occurs(t, f)
    BY <1>1, <1>3, <2>2 DEF Occurs
  <2> QED BY <2>1, <2>3
<1>5. ASSUME NEW f PROVE Single(t, f) <=> (Single(s, f) /\ ((f = g) => ~Occurs(s, f)))
  <2>1. Single(t, f) => Single(s, f)
    BY <1>1, <1>3 DEF Single
  <2>2. (Single(t, f) /\ f = g) => ~Occurs(s, f)
    BY <1>1, <1>3 DEF Single, Occurs
  <2>3. (Single(s, f) /\ ((f = g) => ~Occurs(s, f))) => Single(t, f)
    BY <1>1, <1>2 DEF Single, Occurs
  <2> QED BY <2>1, <2>2, <2>3
<1>6. /\ t \in Seq(S)
      /\ \A f : Occurs(t, f) <=> (f = g \/ Occurs(s, f))
      /\ \A f : Single(t, f) <=> (Single(s, f) /\ ((f = g) => ~Occurs(s, f)))
  BY <1>1, <1>4, <1>5
<1> QED BY <1>6 DEF t

LEMMA SeqIs ==
  ASSUME NEW S, NEW m \in Nat, NEW f, f = [i \in 1 .. m |-> f[i]],
         \A i \in 1 .. m : f[i] \in S
  PROVE  f \in Seq(S) /\ Len(f) = m
OBVIOUS

LEMMA SeqGrows ==
  ASSUME NEW S, NEW T, S \subseteq T
  PROVE  Seq(S) \subseteq Seq(T)
OBVIOUS

LEMMA Concat ==
  ASSUME NEW S, NEW s \in Seq(S), NEW t \in Seq(S)
  PROVE  /\ s \o t \in Seq(S) /\ Len(s \o t) = Len(s) + Len(t)
         /\ \A x \in 1 .. Len(s) : (s \o t)[x] = s[x]
         /\ \A i \in 1 .. Len(t) : (s \o t)[Len(s) + i] = t[i]
OBVIOUS

LEMMA SameSeq ==
  ASSUME NEW S, NEW s \in Seq(S), NEW t \in Seq(S), Len(s) = Len(t),
         \A k \in 1 .. Len(s) : s[k] = t[k]
  PROVE  s = t
<1>1. /\ s = [k \in 1 .. Len(s) |-> s[k]] /\ t = [k \in 1 .. Len(t) |-> t[k]]
  OBVIOUS
<1> QED BY <1>1

LEMMA InSeq ==
  ASSUME NEW S, NEW s \in Seq(S)
  PROVE  \A x \in ToSet(s) : x \in S
BY DEF ToSet

LEMMA TopIs ==
  ASSUME NEW S, NEW s \in Seq(S), s # <<>>
  PROVE  /\ Head(s) \in S /\ Tail(s) \in Seq(S)
         /\ s = <<Head(s)>> \o Tail(s)
OBVIOUS

----------------------------------------------------------------------------
(* The invariant *)

Statuses == {"none", "running", "waiting", "reading", "joined", "ending",
             "ended", "astray"}
RaceSet == [proc : Pids, kind : {"wait", "read"}, path : Seq(Nat), done : BOOLEAN]
Frames(n) ==
  [k : {"run", "late", "exit"}, p : Pids]
    \cup [k : {"signal"}, p : Pids, todo : Seq(0 .. n)]
    \cup [k : {"push"}, todo : Seq(1 .. n), taken : BOOLEAN, spoilt : BOOLEAN]

\* Every callback, wherever it is kept, is that of a race that was opened.
ProcTypes ==
  /\ status \in [Pids -> Statuses]
  /\ host \in [Pids -> 0 .. MaxPid]
  /\ background \subseteq Pids
  /\ races \in Seq(RaceSet)
  /\ signals \in [Pids -> Seq(0 .. Len(races))]
  /\ timers \subseteq 1 .. Len(races)
  /\ parked \in Seq(1 .. Len(races))
  /\ stack \in Seq(Frames(Len(races)))
  /\ interrupted \in BOOLEAN

\* The path of a race begins with it; from each race on it, its path goes on as
\* that race's own does.
GoesOn(path, rest, i) ==
  /\ Len(rest) = Len(path) + 1 - i
  /\ \A k \in 1 .. Len(rest) : rest[k] = path[k + i - 1]

PathsInv ==
  \A r \in 1 .. Len(races) :
    /\ Len(races[r].path) >= 1 /\ races[r].path[1] = r
    /\ \A i \in 1 .. Len(races[r].path) :
         /\ races[r].path[i] \in 1 .. Len(races)
         /\ GoesOn(races[r].path, races[races[r].path[i]].path, i)
    /\ races[r].kind = "wait" => Len(races[r].path) = 1

\* A process is suspended exactly if one race of its own is open.
Own(p, r) ==
  /\ r \in 1 .. Len(races)
  /\ Open(r) /\ Len(races[r].path) = 1 /\ races[r].proc = p

SuspendedInv ==
  \A p \in Pids :
    /\ status[p] \in {"waiting", "reading"} <=> \E r \in 1 .. Len(races) : Own(p, r)
    /\ \A r, s \in 1 .. Len(races) : (Own(p, r) /\ Own(p, s)) => r = s

\* A process runs exactly if it has a frame, which is its only one; so with the
\* frame in which it ends.
Fits(st, s) ==
  \A p \in Pids :
    /\ st[p] = "running" <=> Occurs(s, Run(p))
    /\ Single(s, Run(p))
    /\ Occurs(s, Exiting(p)) => st[p] = "ending"
    /\ Single(s, Exiting(p))

StackInv == Fits(status, stack)

\* Hosts are older than those they host; a host awaits the one process it has
\* in front of it.
Foreground(q) == q \in Live /\ host[q] # NoHost /\ q \notin background

HostsInv ==
  /\ status[Shell] # "none"
  /\ \A q \in Pids :
       /\ host[q] < q
       /\ host[q] = NoHost <=> (q = Shell \/ status[q] = "none")
       /\ host[q] # NoHost => status[host[q]] # "none"
       /\ status[q] = "none" => q \notin background
                                /\ \A x \in Pids : x > q => status[x] = "none"
       /\ Foreground(q) => status[host[q]] = "joined"
  /\ \A q, x \in Pids :
       (Foreground(q) /\ Foreground(x) /\ host[q] = host[x]) => q = x

ProcInv == ProcTypes /\ PathsInv /\ SuspendedInv /\ StackInv /\ HostsInv

----------------------------------------------------------------------------
(* Races *)

LEMMA RaceIs ==
  ASSUME ProcTypes, NEW r \in 1 .. Len(races)
  PROVE  /\ races[r] \in RaceSet /\ DOMAIN races = 1 .. Len(races)
         /\ races[r].path \in Seq(Nat) /\ Len(races[r].path) \in Nat
         /\ DOMAIN races[r].path = 1 .. Len(races[r].path)
         /\ races[r].proc \in Pids /\ races[r].done \in BOOLEAN
         /\ races[r].kind \in {"wait", "read"} /\ Len(races) \in Nat
<1>1. races \in Seq(RaceSet)
  BY DEF ProcTypes
<1>2. races[r] \in RaceSet /\ DOMAIN races = 1 .. Len(races) /\ Len(races) \in Nat
  BY <1>1
<1>3. /\ races[r].path \in Seq(Nat) /\ races[r].proc \in Pids
      /\ races[r].done \in BOOLEAN /\ races[r].kind \in {"wait", "read"}
  BY <1>2 DEF RaceSet
<1>4. Len(races[r].path) \in Nat /\ DOMAIN races[r].path = 1 .. Len(races[r].path)
  BY <1>3
<1> QED BY <1>2, <1>3, <1>4

\* The last race of a path, which is the process's own.
Root(r) == races[r].path[Len(races[r].path)]

LEMMA RootIs ==
  ASSUME ProcTypes, PathsInv, NEW r \in 1 .. Len(races)
  PROVE  /\ Root(r) \in 1 .. Len(races) /\ Root(r) \in ToSet(races[r].path)
         /\ Len(races[Root(r)].path) = 1 /\ Root(Root(r)) = Root(r)
         /\ Waiter(r) = races[Root(r)].proc
         /\ \A x \in ToSet(races[r].path) :
              /\ x \in 1 .. Len(races) /\ Root(x) = Root(r)
              /\ Len(races[x].path) = 1 => x = Root(r)
<1> DEFINE path == races[r].path
<1>1. /\ path \in Seq(Nat) /\ Len(path) \in Nat /\ Len(path) >= 1
      /\ DOMAIN path = 1 .. Len(path) /\ path[1] = r
      /\ \A i \in 1 .. Len(path) : /\ path[i] \in 1 .. Len(races)
                                   /\ GoesOn(path, races[path[i]].path, i)
  BY RaceIs DEF PathsInv
<1>2. \A i \in 1 .. Len(path) :
        /\ Len(races[path[i]].path) = Len(path) + 1 - i
        /\ Root(path[i]) = path[Len(path)]
        /\ Len(races[path[i]].path) = 1 => i = Len(path)
  <2> SUFFICES ASSUME NEW i \in 1 .. Len(path)
               PROVE  /\ Len(races[path[i]].path) = Len(path) + 1 - i
                      /\ Root(path[i]) = path[Len(path)]
                      /\ Len(races[path[i]].path) = 1 => i = Len(path)
    OBVIOUS
  <2> DEFINE rest == races[path[i]].path
  <2>1. /\ Len(rest) = Len(path) + 1 - i
        /\ \A k \in 1 .. Len(rest) : rest[k] = path[k + i - 1]
    BY <1>1 DEF GoesOn
  <2>2. PICK n : n = Len(path)
    OBVIOUS
  <2>3. PICK m : m = Len(rest)
    OBVIOUS
  <2>4. n \in Nat /\ i \in 1 .. n /\ m = n + 1 - i
    BY <1>1, <2>1, <2>2, <2>3
  <2>5. m \in 1 .. m /\ m + i - 1 = n /\ (m = 1 => i = n)
    BY <2>4
  <2>6. rest[m] = path[n]
    BY <2>1, <2>3, <2>5
  <2>7. Root(path[i]) = rest[m]
    BY <2>3 DEF Root
  <2> QED BY <2>1, <2>2, <2>3, <2>5, <2>6, <2>7
<1>3. \A x : x \in ToSet(path) <=> \E i \in 1 .. Len(path) : path[i] = x
  BY <1>1 DEF ToSet
<1>4. Root(r) = path[Len(path)] /\ Len(path) \in 1 .. Len(path)
  BY <1>1 DEF Root
<1>5. Len(races[Root(r)].path) = 1
  <2>1. Len(path) + 1 - Len(path) = 1
    BY <1>1
  <2> QED BY <1>2, <1>4, <2>1
<1>6. Waiter(r) = races[Root(r)].proc
  BY <1>4 DEF Waiter, Last
<1> HIDE DEF path
<1>7. ASSUME NEW x \in ToSet(path)
      PROVE  /\ x \in 1 .. Len(races) /\ Root(x) = Root(r)
             /\ Len(races[x].path) = 1 => x = Root(r)
  <2>1. PICK i \in 1 .. Len(path) : path[i] = x
    BY <1>3, <1>7
  <2>2. /\ path[i] \in 1 .. Len(races) /\ Root(path[i]) = path[Len(path)]
        /\ Len(races[path[i]].path) = 1 => i = Len(path)
    BY <1>1, <1>2
  <2> QED BY <1>4, <2>1, <2>2
<1>8. Root(r) \in ToSet(path) /\ Root(r) \in 1 .. Len(races)
  BY <1>1, <1>3, <1>4
<1> QED BY <1>5, <1>6, <1>7, <1>8 DEF path

\* What a completion of r settles: nothing if it has lost, a part of its path
\* without the process's own race if another awaitable won there, all of it if
\* it reaches the process.
LEMMA SettlesIs ==
  ASSUME ProcTypes, PathsInv, NEW r \in 1 .. Len(races)
  PROVE  /\ Settles(r) \subseteq ToSet(races[r].path)
         /\ \A x \in Settles(r) : Open(x)
         /\ Open(r) => r \in Settles(r)
         /\ ~Open(r) => Settles(r) = {}
         /\ Reaches(r) => Open(r) /\ Settles(r) = ToSet(races[r].path)
         /\ ~Reaches(r) => Root(r) \notin Settles(r)
<1> DEFINE path == races[r].path
<1>1. /\ path \in Seq(Nat) /\ Len(path) \in Nat /\ Len(path) >= 1
      /\ DOMAIN path = 1 .. Len(path) /\ path[1] = r
      /\ \A i \in 1 .. Len(path) : /\ path[i] \in 1 .. Len(races)
                                   /\ GoesOn(path, races[path[i]].path, i)
  BY RaceIs DEF PathsInv
<1>2. \A x : x \in ToSet(path) <=> \E i \in 1 .. Len(path) : path[i] = x
  BY <1>1 DEF ToSet
<1>3. \A x : x \in Settles(r) <=>
        \E i \in 1 .. Len(path) : path[i] = x /\ \A k \in 1 .. i : Open(path[k])
  BY <1>1 DEF Settles
<1>4. Reaches(r) <=> \A i \in 1 .. Len(path) : Open(path[i])
  BY <1>2 DEF Reaches
<1>5. \A i, j \in 1 .. Len(path) : path[i] = path[j] => i = j
  <2> TAKE i, j \in 1 .. Len(path)
  <2>1. /\ Len(races[path[i]].path) = Len(path) + 1 - i
        /\ Len(races[path[j]].path) = Len(path) + 1 - j
    BY <1>1 DEF GoesOn
  <2>2. PICK n : n = Len(path)
    OBVIOUS
  <2>3. n \in Nat /\ i \in 1 .. n /\ j \in 1 .. n
    BY <1>1, <2>2
  <2>4. n + 1 - i = n + 1 - j => i = j
    BY <2>3
  <2> QED BY <2>1, <2>2, <2>4
<1>6. Root(r) = path[Len(path)] /\ Len(path) \in 1 .. Len(path)
  BY <1>1 DEF Root
<1> HIDE DEF path
<1>7. Settles(r) \subseteq ToSet(path) /\ \A x \in Settles(r) : Open(x)
  BY <1>1, <1>2, <1>3
<1>8. (Open(r) => r \in Settles(r)) /\ (~Open(r) => Settles(r) = {})
  BY <1>1, <1>3
<1>9. Reaches(r) => (Open(r) /\ Settles(r) = ToSet(path))
  <2> SUFFICES ASSUME Reaches(r) PROVE Open(r) /\ ToSet(path) \subseteq Settles(r)
    BY <1>7
  <2>1. \A i \in 1 .. Len(path) : \A k \in 1 .. i : Open(path[k])
    BY <1>1, <1>4
  <2> QED BY <1>1, <1>2, <1>3, <1>4, <2>1
<1>10. ~Reaches(r) => Root(r) \notin Settles(r)
  BY <1>1, <1>3, <1>4, <1>5, <1>6
<1> QED BY <1>7, <1>8, <1>9, <1>10 DEF path

\* The races after a completion: only done changes.
SameRaces ==
  /\ Len(races') = Len(races)
  /\ \A x \in 1 .. Len(races) : /\ races'[x].proc = races[x].proc
                                /\ races'[x].kind = races[x].kind
                                /\ races'[x].path = races[x].path

LEMMA DoneIs ==
  ASSUME NEW R \in RaceSet, NEW v \in BOOLEAN
  PROVE  /\ [R EXCEPT !.done = v] \in RaceSet
         /\ [R EXCEPT !.done = v].proc = R.proc
         /\ [R EXCEPT !.done = v].kind = R.kind
         /\ [R EXCEPT !.done = v].path = R.path
         /\ [R EXCEPT !.done = v].done = v
BY DEF RaceSet

LEMMA SettledRaces ==
  ASSUME ProcTypes, NEW S, S \subseteq 1 .. Len(races),
         races' = [x \in DOMAIN races |-> [races[x] EXCEPT !.done = @ \/ x \in S]]
  PROVE  /\ races' \in Seq(RaceSet) /\ SameRaces
         /\ \A x \in 1 .. Len(races) : Open(x)' <=> (Open(x) /\ x \notin S)
<1>1. races \in Seq(RaceSet) /\ Len(races) \in Nat /\ DOMAIN races = 1 .. Len(races)
  BY DEF ProcTypes
<1>2. \A x \in 1 .. Len(races) :
        /\ races'[x] = [races[x] EXCEPT !.done = @ \/ x \in S]
        /\ races[x] \in RaceSet
  BY <1>1
<1>3. \A x \in 1 .. Len(races) :
        /\ races'[x] \in RaceSet
        /\ races'[x].proc = races[x].proc /\ races'[x].kind = races[x].kind
        /\ races'[x].path = races[x].path
        /\ races'[x].done <=> (races[x].done \/ x \in S)
  <2> TAKE x \in 1 .. Len(races)
  <2>1. PICK v \in BOOLEAN : v = (races[x].done \/ x \in S)
    OBVIOUS
  <2>2. v <=> (races[x].done \/ x \in S)
    BY <2>1
  <2>3. PICK R \in RaceSet : R = races[x]
    BY <1>2
  <2>4. races'[x] = [R EXCEPT !.done = v]
    BY <1>2, <2>1, <2>3, Zenon
  <2>5. PICK R2 : R2 = [R EXCEPT !.done = v]
    OBVIOUS
  <2>6. /\ R2 \in RaceSet /\ R2.done = v
        /\ R2.proc = R.proc /\ R2.kind = R.kind /\ R2.path = R.path
    BY <2>5, DoneIs
  <2> QED BY <2>2, <2>3, <2>4, <2>5, <2>6
<1>4. DOMAIN races' = 1 .. Len(races) /\ races' = [x \in 1 .. Len(races) |-> races'[x]]
  BY <1>1, Zenon
<1>5. Len(races') = Len(races) /\ races' \in Seq(RaceSet)
  <2> DEFINE new == races'
  <2>1. /\ DOMAIN new = 1 .. Len(races) /\ new = [x \in 1 .. Len(races) |-> new[x]]
        /\ \A x \in 1 .. Len(races) : new[x] \in RaceSet
    BY <1>3, <1>4
  <2> HIDE DEF new
  <2>2. Len(new) = Len(races) /\ new \in Seq(RaceSet)
    BY <1>1, <2>1
  <2> QED BY <2>2 DEF new
<1> QED BY <1>3, <1>5 DEF SameRaces, Open

LEMMA SamePaths ==
  ASSUME PathsInv, ProcTypes, SameRaces
  PROVE  PathsInv'
<1>1. ASSUME NEW r \in 1 .. Len(races), NEW i \in 1 .. Len(races[r].path)
      PROVE  /\ races[r].path[i] \in 1 .. Len(races)
             /\ races'[races[r].path[i]].path = races[races[r].path[i]].path
  BY DEF PathsInv, SameRaces
<1> QED BY <1>1 DEF PathsInv, SameRaces

----------------------------------------------------------------------------
(* Frames *)

LEMMA FramesAre ==
  ASSUME NEW n \in Nat, NEW p \in Pids, interrupted \in BOOLEAN
  PROVE  /\ Run(p) \in Frames(n) /\ Late(p) \in Frames(n) /\ Exiting(p) \in Frames(n)
         /\ \A fns \in Seq(0 .. n) : Signalling(p, fns) \in Frames(n)
         /\ \A fns \in Seq(1 .. n) : Pushing(fns) \in Frames(n)
BY DEF Frames, Run, Late, Exiting, Signalling, Pushing

LEMMA FrameIs ==
  ASSUME NEW n \in Nat, NEW f \in Frames(n)
  PROVE  /\ f.k \in {"run", "late", "exit", "signal", "push"}
         /\ f.k # "push" => f.p \in Pids
         /\ f.k = "exit" => f = Exiting(f.p)
         /\ f.k = "signal" => f.todo \in Seq(0 .. n)
         /\ f.k = "push" => f.todo \in Seq(1 .. n) /\ f.taken \in BOOLEAN
                            /\ f.spoilt \in BOOLEAN
<1>1. CASE f \in [k : {"run", "late", "exit"}, p : Pids]
  <2>1. f = [k |-> f.k, p |-> f.p]
    BY <1>1
  <2> QED BY <1>1, <2>1 DEF Exiting
<1>2. CASE f \in [k : {"signal"}, p : Pids, todo : Seq(0 .. n)]
  BY <1>2
<1>3. CASE f \in [k : {"push"}, todo : Seq(1 .. n), taken : BOOLEAN, spoilt : BOOLEAN]
  BY <1>3
<1> QED BY <1>1, <1>2, <1>3 DEF Frames

LEMMA FramesGrow ==
  ASSUME NEW n \in Nat, NEW m \in Nat, n <= m
  PROVE  Frames(n) \subseteq Frames(m) /\ Seq(Frames(n)) \subseteq Seq(Frames(m))
<1>1. Seq(0 .. n) \subseteq Seq(0 .. m) /\ Seq(1 .. n) \subseteq Seq(1 .. m)
  <2>1. 0 .. n \subseteq 0 .. m /\ 1 .. n \subseteq 1 .. m
    OBVIOUS
  <2> QED BY <2>1
<1>2. [k : {"signal"}, p : Pids, todo : Seq(0 .. n)]
        \subseteq [k : {"signal"}, p : Pids, todo : Seq(0 .. m)]
  BY <1>1
<1>3. [k : {"push"}, todo : Seq(1 .. n), taken : BOOLEAN, spoilt : BOOLEAN]
        \subseteq [k : {"push"}, todo : Seq(1 .. m), taken : BOOLEAN, spoilt : BOOLEAN]
  BY <1>1
<1>4. Frames(n) \subseteq Frames(m)
  BY <1>2, <1>3 DEF Frames
<1> QED BY <1>4

LEMMA FrameKinds ==
  /\ \A p, q : /\ (Run(p) = Run(q)) <=> p = q
               /\ (Exiting(p) = Exiting(q)) <=> p = q
               /\ Run(p) # Exiting(q)
  /\ \A f, p : f.k \notin {"run", "exit"} => f # Run(p) /\ f # Exiting(p)
  /\ \A p : Late(p).k = "late" /\ Run(p).k = "run" /\ Exiting(p).k = "exit"
  /\ \A p, fns : Signalling(p, fns).k = "signal" /\ Signalling(p, fns).todo = fns
                 /\ Signalling(p, fns).p = p
  /\ \A fns : Pushing(fns).k = "push" /\ Pushing(fns).todo = fns
              /\ Pushing(fns).taken = FALSE /\ Pushing(fns).spoilt = interrupted
BY DEF Run, Late, Exiting, Signalling, Pushing

\* How each push and pop keeps the stack in step with the processes.
LEMMA PlainTop ==
  ASSUME NEW st, NEW S, NEW s \in Seq(S), NEW g \in S, g.k \notin {"run", "exit"}
  PROVE  Fits(st, <<g>> \o s) <=> Fits(st, s)
BY OnTop, FrameKinds DEF Fits

LEMMA RunTop ==
  ASSUME NEW st \in [Pids -> Statuses], NEW S, NEW s \in Seq(S), NEW p \in Pids,
         Run(p) \in S, Fits(st, s), st[p] \notin {"running", "ending"}
  PROVE  Fits([st EXCEPT ![p] = "running"], <<Run(p)>> \o s)
<1>1. /\ \A f : Occurs(<<Run(p)>> \o s, f) <=> (f = Run(p) \/ Occurs(s, f))
      /\ \A f : Single(<<Run(p)>> \o s, f) <=>
                  (Single(s, f) /\ ((f = Run(p)) => ~Occurs(s, f)))
  BY OnTop
<1> QED BY <1>1, FrameKinds DEF Fits

LEMMA RunPop ==
  ASSUME NEW st \in [Pids -> Statuses], NEW S, NEW s \in Seq(S), NEW p \in Pids,
         Run(p) \in S, Fits(st, <<Run(p)>> \o s)
  PROVE  /\ st[p] = "running" /\ ~Occurs(s, Exiting(p))
         /\ \A v \in Statuses \ {"running"} : Fits([st EXCEPT ![p] = v], s)
<1>1. /\ \A f : Occurs(<<Run(p)>> \o s, f) <=> (f = Run(p) \/ Occurs(s, f))
      /\ \A f : Single(<<Run(p)>> \o s, f) <=>
                  (Single(s, f) /\ ((f = Run(p)) => ~Occurs(s, f)))
  BY OnTop
<1> QED BY <1>1, FrameKinds DEF Fits

LEMMA ExitTop ==
  ASSUME NEW st \in [Pids -> Statuses], NEW S, NEW s \in Seq(S), NEW p \in Pids,
         Exiting(p) \in S, Fits(st, s), st[p] = "ending", ~Occurs(s, Exiting(p))
  PROVE  Fits(st, <<Exiting(p)>> \o s)
<1>1. /\ \A f : Occurs(<<Exiting(p)>> \o s, f) <=> (f = Exiting(p) \/ Occurs(s, f))
      /\ \A f : Single(<<Exiting(p)>> \o s, f) <=>
                  (Single(s, f) /\ ((f = Exiting(p)) => ~Occurs(s, f)))
  BY OnTop
<1> QED BY <1>1, FrameKinds DEF Fits

LEMMA ExitPop ==
  ASSUME NEW st \in [Pids -> Statuses], NEW S, NEW s \in Seq(S), NEW p \in Pids,
         Exiting(p) \in S, Fits(st, <<Exiting(p)>> \o s)
  PROVE  /\ st[p] = "ending" /\ Fits([st EXCEPT ![p] = "ended"], s)
<1>1. /\ \A f : Occurs(<<Exiting(p)>> \o s, f) <=> (f = Exiting(p) \/ Occurs(s, f))
      /\ \A f : Single(<<Exiting(p)>> \o s, f) <=>
                  (Single(s, f) /\ ((f = Exiting(p)) => ~Occurs(s, f)))
  BY OnTop
<1> QED BY <1>1, FrameKinds DEF Fits

\* What is on the stack, and what lies below.
LEMMA StackIs ==
  ASSUME ProcTypes, stack # <<>>
  PROVE  /\ Len(races) \in Nat /\ Below \in Seq(Frames(Len(races)))
         /\ Head(stack) \in Frames(Len(races))
         /\ stack = <<Head(stack)>> \o Below
<1>1. stack \in Seq(Frames(Len(races))) /\ Len(races) \in Nat
  BY DEF ProcTypes
<1> QED BY <1>1, TopIs DEF Below

----------------------------------------------------------------------------
(* Parts of a step *)

LEMMA LiveIs ==
  ASSUME NEW q \in Pids
  PROVE  /\ q \in Live <=> status[q] \notin {"none", "ended"}
         /\ (q \in Live)' <=> status'[q] \notin {"none", "ended"}
BY DEF Live, Created

\* A process that awaits no other changes what it does.
LEMMA HostsKept ==
  ASSUME ProcTypes, HostsInv, host' = host, background' = background,
         NEW p \in Pids, NEW v \in Statuses \ {"none"},
         status[p] \notin {"none", "joined", "ended"},
         status' = [status EXCEPT ![p] = v]
  PROVE  HostsInv'
<1>1. status \in [Pids -> Statuses]
  BY DEF ProcTypes
<1>2. \A q \in Pids : status'[q] = IF q = p THEN v ELSE status[q]
  BY <1>1
<1>3. \A q \in Pids : Foreground(q)' => Foreground(q)
  BY <1>2, LiveIs DEF Foreground
<1>4. Shell \in Pids /\ \A q \in Pids : host[q] # NoHost => host[q] \in Pids
  BY BoundsAssumption DEF ProcTypes, Shell, Pids, NoHost
<1> QED BY <1>2, <1>3, <1>4 DEF HostsInv

LEMMA SuspendedKept ==
  ASSUME SuspendedInv, races' = races,
         \A q \in Pids : status'[q] \in {"waiting", "reading"}
                           <=> status[q] \in {"waiting", "reading"}
  PROVE  SuspendedInv'
<1>1. \A q, x : Own(q, x)' <=> Own(q, x)
  BY DEF Own, Open
<1> QED BY <1>1 DEF SuspendedInv

LEMMA CompleteDoes ==
  ASSUME ProcTypes, PathsInv, NEW r \in 1 .. Len(races), NEW res, NEW rest,
         Complete(r, res, rest)
  PROVE  /\ races' \in Seq(RaceSet) /\ SameRaces /\ PathsInv'
         /\ \A x \in 1 .. Len(races) : Open(x)' <=> (Open(x) /\ x \notin Settles(r))
         /\ \A p, x : Own(p, x)' <=> (Own(p, x) /\ ~(Reaches(r) /\ x = Root(r)))
         /\ Waiter(r) \in Pids
         /\ Reaches(r) => /\ Own(Waiter(r), Root(r))
                          /\ status' = [status EXCEPT ![Waiter(r)] = "running"]
                          /\ stack' = <<Run(Waiter(r))>> \o rest
         /\ ~Reaches(r) => stack' = rest /\ status' = status
<1>1. Settles(r) \subseteq 1 .. Len(races)
  BY SettlesIs, RootIs
<1>2. races' = [x \in DOMAIN races |->
                  [races[x] EXCEPT !.done = @ \/ x \in Settles(r)]]
  BY DEF Complete
<1>3. /\ races' \in Seq(RaceSet) /\ SameRaces
      /\ \A x \in 1 .. Len(races) : Open(x)' <=> (Open(x) /\ x \notin Settles(r))
  BY <1>1, <1>2, SettledRaces
<1>4. \A x \in 1 .. Len(races) : (x \in Settles(r) /\ Len(races[x].path) = 1)
                                   => (Reaches(r) /\ x = Root(r))
  BY RootIs, SettlesIs
<1>5. Reaches(r) => Root(r) \in Settles(r)
  BY RootIs, SettlesIs
<1>6. \A p, x : Own(p, x)' <=> (Own(p, x) /\ ~(Reaches(r) /\ x = Root(r)))
  BY <1>3, <1>4, <1>5 DEF Own, SameRaces
<1>7. Waiter(r) \in Pids
  BY RootIs, RaceIs
<1>8. Reaches(r) => Own(Waiter(r), Root(r))
  BY <1>5, RootIs, SettlesIs DEF Own
<1> QED BY <1>3, <1>6, <1>7, <1>8, SamePaths DEF Complete

LEMMA CompleteKeeps ==
  ASSUME ProcInv, NEW r \in 1 .. Len(races), NEW res, NEW rest,
         rest \in Seq(Frames(Len(races))), Fits(status, rest),
         Complete(r, res, rest), host' = host, background' = background
  PROVE  /\ status' \in [Pids -> Statuses] /\ races' \in Seq(RaceSet)
         /\ Len(races') = Len(races) /\ stack' \in Seq(Frames(Len(races)))
         /\ PathsInv' /\ SuspendedInv' /\ StackInv' /\ HostsInv'
<1>1. /\ ProcTypes /\ PathsInv /\ SuspendedInv /\ HostsInv
      /\ status \in [Pids -> Statuses] /\ Len(races) \in Nat
      /\ interrupted \in BOOLEAN
  BY DEF ProcInv, ProcTypes
<1>2. /\ races' \in Seq(RaceSet) /\ Len(races') = Len(races) /\ PathsInv'
      /\ \A p, x : Own(p, x)' <=> (Own(p, x) /\ ~(Reaches(r) /\ x = Root(r)))
      /\ Waiter(r) \in Pids
      /\ Reaches(r) => /\ Own(Waiter(r), Root(r))
                       /\ status' = [status EXCEPT ![Waiter(r)] = "running"]
                       /\ stack' = <<Run(Waiter(r))>> \o rest
      /\ ~Reaches(r) => stack' = rest /\ status' = status
  BY <1>1, CompleteDoes DEF SameRaces
<1>3. CASE ~Reaches(r)
  <2>1. SuspendedInv'
    BY <1>1, <1>2, <1>3 DEF SuspendedInv
  <2>2. HostsInv'
    BY <1>1, <1>2, <1>3 DEF HostsInv, Foreground, Live, Created
  <2>3. StackInv'
    BY <1>2, <1>3 DEF StackInv
  <2> QED BY <1>1, <1>2, <1>3, <2>1, <2>2, <2>3
<1>4. CASE Reaches(r)
  <2>1. PICK w \in Pids : w = Waiter(r) /\ Own(w, Root(r))
                           /\ Root(r) \in 1 .. Len(races)
    BY <1>2, <1>4 DEF Own
  <2>2. status[w] \in {"waiting", "reading"}
    BY <1>1, <2>1 DEF SuspendedInv
  <2>3. status' = [status EXCEPT ![w] = "running"] /\ stack' = <<Run(w)>> \o rest
    BY <1>2, <1>4, <2>1
  <2>4. HostsInv'
    BY <1>1, <2>1, <2>2, <2>3, HostsKept DEF Statuses
  <2>5. Run(w) \in Frames(Len(races))
    BY <1>1, <2>1, FramesAre
  <2>6. Fits(status', stack') /\ stack' \in Seq(Frames(Len(races)))
    BY <1>1, <2>1, <2>2, <2>3, <2>5, RunTop, OnTop
  <2>7. SuspendedInv'
    <3>1. \A p, x : Own(p, x)' <=> (Own(p, x) /\ x # Root(r))
      BY <1>2, <1>4
    <3>2. \A p \in Pids : p # w => ~Own(p, Root(r))
      BY <2>1 DEF Own
    <3>s. \A p \in Pids :
            /\ status[p] \in {"waiting", "reading"} <=> \E x \in 1 .. Len(races) : Own(p, x)
            /\ \A x, y \in 1 .. Len(races) : (Own(p, x) /\ Own(p, y)) => x = y
      BY <1>1 DEF SuspendedInv
    <3>3. \A x \in 1 .. Len(races) : ~Own(w, x)'
      <4>1. \A x \in 1 .. Len(races) : Own(w, x) => x = Root(r)
        BY <2>1, <3>s
      <4> QED BY <3>1, <4>1
    <3>4. \A p \in Pids : p # w => status'[p] = status[p]
      BY <1>1, <2>3
    <3>5. status'[w] = "running"
      BY <1>1, <2>1, <2>3
    <3>6. Len(races') = Len(races)
      BY <1>2
    <3>7. ASSUME NEW p \in Pids
          PROVE  /\ status'[p] \in {"waiting", "reading"}
                      <=> \E x \in 1 .. Len(races') : Own(p, x)'
                 /\ \A x, y \in 1 .. Len(races') : (Own(p, x)' /\ Own(p, y)') => x = y
      <4>1. CASE p = w
        BY <3>3, <3>5, <3>6, <4>1
      <4>2. CASE p # w
        <5>1. \A x : Own(p, x)' <=> Own(p, x)
          BY <3>1, <3>2, <4>2
        <5>2. status'[p] = status[p]
          BY <3>4, <4>2
        <5> QED BY <3>s, <3>6, <5>1, <5>2
      <4> QED BY <4>1, <4>2
    <3> QED BY <3>7 DEF SuspendedInv
  <2>8. StackInv' /\ status' \in [Pids -> Statuses]
    BY <1>1, <2>3, <2>6 DEF StackInv, Statuses
  <2> QED BY <1>2, <2>4, <2>6, <2>7, <2>8
<1> QED BY <1>3, <1>4

----------------------------------------------------------------------------
(* Steps that open races *)

\* One race for each process of c, each going on to those opened before it.
Opened(c, kind) ==
  /\ c \in Seq(Pids) /\ Len(c) >= 1 /\ kind \in {"wait", "read"}
  /\ kind = "wait" => Len(c) = 1
  /\ races' \in Seq(RaceSet) /\ Len(races') = Len(races) + Len(c)
  /\ \A x \in 1 .. Len(races) : races'[x] = races[x]
  /\ \A i \in 1 .. Len(c) :
       /\ races'[Len(races) + i].proc = c[i]
       /\ races'[Len(races) + i].kind = kind
       /\ races'[Len(races) + i].done = FALSE
       /\ Len(races'[Len(races) + i].path) = i
       /\ \A j \in 1 .. i : races'[Len(races) + i].path[j] = Len(races) + i + 1 - j

LEMMA OpenedPaths ==
  ASSUME ProcTypes, PathsInv, NEW c, NEW kind, Opened(c, kind)
  PROVE  /\ PathsInv'
         /\ \A q, x : Own(q, x)' <=> (Own(q, x) \/ (q = c[1] /\ x = Len(races) + 1))
<1> DEFINE n == Len(races)
<1>0. n \in Nat /\ Len(c) \in Nat
  <2>1. races \in Seq(RaceSet) /\ c \in Seq(Pids)
    BY DEF Opened, ProcTypes
  <2> QED BY <2>1
<1>1. /\ n \in Nat /\ Len(c) \in Nat /\ Len(races') = n + Len(c) /\ Len(c) >= 1
      /\ \A x \in 1 .. n : races'[x] = races[x]
      /\ \A i \in 1 .. Len(c) : Len(races'[n + i].path) = i
      /\ \A i \in 1 .. Len(c) : races'[n + i].kind = kind
      /\ \A i \in 1 .. Len(c) : races'[n + i].proc = c[i] /\ ~races'[n + i].done
      /\ \A i \in 1 .. Len(c) : \A j \in 1 .. i : races'[n + i].path[j] = n + i + 1 - j
      /\ kind = "wait" => Len(c) = 1
  BY <1>0 DEF Opened
<1>2. \A x \in 1 .. n + Len(c) : x \in 1 .. n \/ \E i \in 1 .. Len(c) : x = n + i
  <2> SUFFICES ASSUME NEW x \in 1 .. n + Len(c), x \notin 1 .. n
               PROVE  \E i \in 1 .. Len(c) : x = n + i
    OBVIOUS
  <2>1. x - n \in 1 .. Len(c) /\ x = n + (x - n)
    BY <1>1
  <2> QED BY <2>1
<1>3. \A r \in 1 .. n :
        /\ Len(races[r].path) >= 1 /\ races[r].path[1] = r
        /\ \A i \in 1 .. Len(races[r].path) :
             /\ races[r].path[i] \in 1 .. n
             /\ GoesOn(races[r].path, races[races[r].path[i]].path, i)
        /\ races[r].kind = "wait" => Len(races[r].path) = 1
  BY DEF PathsInv
<1>4. \A r \in 1 .. n : Len(races[r].path) \in Nat
  BY RaceIs
<1> HIDE DEF n
<1>5. ASSUME NEW r \in 1 .. n
      PROVE  /\ Len(races'[r].path) >= 1 /\ races'[r].path[1] = r
             /\ \A i \in 1 .. Len(races'[r].path) :
                  /\ races'[r].path[i] \in 1 .. n + Len(c)
                  /\ GoesOn(races'[r].path, races'[races'[r].path[i]].path, i)
             /\ races'[r].kind = "wait" => Len(races'[r].path) = 1
  <2>1. races'[r] = races[r]
    BY <1>1
  <2>2. \A i \in 1 .. Len(races[r].path) :
          /\ races[r].path[i] \in 1 .. n + Len(c)
          /\ races'[races[r].path[i]] = races[races[r].path[i]]
    BY <1>0, <1>1, <1>3
  <2> QED BY <1>3, <2>1, <2>2
<1>6. ASSUME NEW a \in 1 .. Len(c)
      PROVE  /\ Len(races'[n + a].path) >= 1 /\ races'[n + a].path[1] = n + a
             /\ \A i \in 1 .. Len(races'[n + a].path) :
                  /\ races'[n + a].path[i] \in 1 .. n + Len(c)
                  /\ GoesOn(races'[n + a].path, races'[races'[n + a].path[i]].path, i)
             /\ races'[n + a].kind = "wait" => Len(races'[n + a].path) = 1
  <2>1. /\ Len(races'[n + a].path) = a /\ races'[n + a].kind = kind
        /\ \A j \in 1 .. a : races'[n + a].path[j] = n + a + 1 - j
    BY <1>1
  <2>2. Len(races'[n + a].path) >= 1 /\ races'[n + a].path[1] = n + a
    BY <1>1, <2>1
  <2>3. ASSUME NEW i \in 1 .. a
        PROVE  /\ races'[n + a].path[i] \in 1 .. n + Len(c)
               /\ GoesOn(races'[n + a].path, races'[races'[n + a].path[i]].path, i)
    <3>1. PICK b \in 1 .. Len(c) : b = a + 1 - i
      BY <1>1
    <3>2. races'[n + a].path[i] = n + b
      BY <1>1, <2>1, <3>1
    <3>3. /\ Len(races'[n + b].path) = b
          /\ \A j \in 1 .. b : races'[n + b].path[j] = n + b + 1 - j
      BY <1>1
    <3>4. \A j \in 1 .. b : races'[n + b].path[j] = races'[n + a].path[j + i - 1]
      <4> TAKE j \in 1 .. b
      <4>1. j + i - 1 \in 1 .. a
        BY <1>1, <3>1
      <4>2. races'[n + a].path[j + i - 1] = n + a + 1 - (j + i - 1)
        BY <2>1, <4>1
      <4>3. n + a + 1 - (j + i - 1) = n + b + 1 - j
        BY <1>0, <3>1
      <4> QED BY <3>3, <4>2, <4>3
    <3> QED BY <1>1, <2>1, <3>1, <3>2, <3>3, <3>4 DEF GoesOn
  <2> QED BY <1>1, <2>1, <2>2, <2>3
<1>7. PathsInv'
  <2>1. \A r \in 1 .. n + Len(c) :
          /\ Len(races'[r].path) >= 1 /\ races'[r].path[1] = r
          /\ \A i \in 1 .. Len(races'[r].path) :
               /\ races'[r].path[i] \in 1 .. n + Len(c)
               /\ GoesOn(races'[r].path, races'[races'[r].path[i]].path, i)
          /\ races'[r].kind = "wait" => Len(races'[r].path) = 1
    BY <1>2, <1>5, <1>6
  <2> QED BY <1>1, <2>1 DEF PathsInv
<1>8. ASSUME NEW q, NEW x
      PROVE  Own(q, x)' <=> (Own(q, x) \/ (q = c[1] /\ x = n + 1))
  <2>1. CASE x \in 1 .. n
    <3>1. Own(q, x)' <=> Own(q, x)
      BY <1>1, <2>1 DEF Own, Open, n
    <3> QED BY <1>1, <2>1, <3>1
  <2>2. CASE x \notin 1 .. n + Len(c)
    BY <1>1, <2>2 DEF Own, n
  <2>3. ASSUME NEW i \in 1 .. Len(c), x = n + i
        PROVE  Own(q, x)' <=> (q = c[1] /\ x = n + 1)
    <3>1. /\ races'[x].proc = c[i] /\ ~races'[x].done /\ Len(races'[x].path) = i
          /\ x \in 1 .. Len(races')
      BY <1>1, <2>3
    <3>2. Own(q, x)' <=> (i = 1 /\ q = c[i])
      BY <3>1 DEF Own, Open
    <3> QED BY <1>1, <2>3, <3>2
  <2>4. ASSUME NEW i \in 1 .. Len(c), x = n + i PROVE ~Own(q, x)
    BY <1>1, <2>4 DEF Own, n
  <2> QED BY <1>2, <2>1, <2>2, <2>3, <2>4
<1> QED BY <1>7, <1>8 DEF n

LEMMA OpenedKeeps ==
  ASSUME ProcTypes, PathsInv, SuspendedInv, NEW c, NEW kind, Opened(c, kind),
         NEW p \in Pids, c[1] = p, NEW v \in {"waiting", "reading"},
         status[p] \notin {"waiting", "reading"},
         status' = [status EXCEPT ![p] = v]
  PROVE  PathsInv' /\ SuspendedInv'
<1>1. /\ PathsInv'
      /\ \A q, x : Own(q, x)' <=> (Own(q, x) \/ (q = p /\ x = Len(races) + 1))
  BY OpenedPaths
<1>2. Len(races) \in Nat /\ Len(races') \in Nat /\ Len(races') >= Len(races) + 1
  BY DEF Opened, ProcTypes
<1>3. \A q \in Pids : status'[q] = IF q = p THEN v ELSE status[q]
  BY DEF ProcTypes
<1>4. \A q \in Pids :
        /\ status[q] \in {"waiting", "reading"} <=> \E x \in 1 .. Len(races) : Own(q, x)
        /\ \A x, y \in 1 .. Len(races) : (Own(q, x) /\ Own(q, y)) => x = y
  BY DEF SuspendedInv
<1>5. \A q, x : Own(q, x) => x \in 1 .. Len(races)
  BY DEF Own
<1>6. ASSUME NEW q \in Pids
      PROVE  /\ status'[q] \in {"waiting", "reading"}
                  <=> \E x \in 1 .. Len(races') : Own(q, x)'
             /\ \A x, y \in 1 .. Len(races') : (Own(q, x)' /\ Own(q, y)') => x = y
  <2>1. CASE q = p
    <3>1. \A x : ~Own(p, x)
      BY <1>4, <1>5
    <3>2. \A x : Own(p, x)' <=> x = Len(races) + 1
      BY <1>1, <3>1
    <3>3. Len(races) + 1 \in 1 .. Len(races')
      BY <1>2
    <3> QED BY <1>3, <2>1, <3>2, <3>3
  <2>2. CASE q # p
    <3>1. \A x : Own(q, x)' <=> Own(q, x)
      BY <1>1, <2>2
    <3>2. \A x \in 1 .. Len(races) : x \in 1 .. Len(races')
      BY <1>2
    <3> QED BY <1>3, <1>4, <1>5, <2>2, <3>1, <3>2
  <2> QED BY <2>1, <2>2
<1>7. SuspendedInv'
  BY <1>6 DEF SuspendedInv
<1> QED BY <1>1, <1>7

LEMMA ReadType ==
  ASSUME NEW p \in Pids, NEW path \in Seq(Nat)
  PROVE  /\ Race(p, "read", path) \in RaceSet
         /\ Race(p, "read", path).proc = p /\ Race(p, "read", path).kind = "read"
         /\ Race(p, "read", path).path = path /\ Race(p, "read", path).done = FALSE
BY DEF Race, RaceSet

LEMMA WaitOpens ==
  ASSUME ProcTypes, NEW p \in Pids, Wait(p)
  PROVE  Opened(<<p>>, "wait")
<1> DEFINE r == Len(races) + 1
           new == Race(p, "wait", <<r>>)
<1>1. races \in Seq(RaceSet) /\ Len(races) \in Nat /\ <<r>> \in Seq(Nat)
  BY DEF ProcTypes
<1>2. races' = Append(races, new)
  BY DEF Wait
<1>3. /\ new \in RaceSet /\ new.proc = p /\ new.kind = "wait" /\ new.path = <<r>>
      /\ new.done = FALSE
  BY <1>1 DEF Race, RaceSet
<1> HIDE DEF new
<1>4. /\ races' \in Seq(RaceSet) /\ Len(races') = r /\ races'[r] = new
      /\ \A x \in 1 .. Len(races) : races'[x] = races[x]
  BY <1>1, <1>2, <1>3
<1>5. /\ <<p>> \in Seq(Pids) /\ Len(<<p>>) = 1 /\ <<p>>[1] = p
      /\ Len(<<r>>) = 1 /\ <<r>>[1] = r
  OBVIOUS
<1>6. ASSUME NEW i \in 1 .. 1
      PROVE  /\ races'[Len(races) + i].proc = <<p>>[i]
             /\ races'[Len(races) + i].kind = "wait"
             /\ races'[Len(races) + i].done = FALSE
             /\ Len(races'[Len(races) + i].path) = i
             /\ \A j \in 1 .. i : races'[Len(races) + i].path[j] = Len(races) + i + 1 - j
  <2>1. i = 1 /\ \A j \in 1 .. 1 : j = 1
    OBVIOUS
  <2>2. races'[Len(races) + 1].path = <<r>> /\ r + 1 - 1 = r
    BY <1>1, <1>3, <1>4
  <2> QED BY <1>1, <1>3, <1>4, <1>5, <2>1, <2>2
<1> HIDE DEF r
<1>7. Len(races') = Len(races) + Len(<<p>>)
  BY <1>4, <1>5 DEF r
<1>8. PICK c : c = <<p>>
  OBVIOUS
<1>9. /\ c \in Seq(Pids) /\ Len(c) = 1 /\ races' \in Seq(RaceSet)
      /\ Len(races') = Len(races) + Len(c)
      /\ \A x \in 1 .. Len(races) : races'[x] = races[x]
  BY <1>4, <1>5, <1>7, <1>8
<1>10. ASSUME NEW i \in 1 .. Len(c)
       PROVE  /\ races'[Len(races) + i].proc = c[i]
              /\ races'[Len(races) + i].kind = "wait"
              /\ races'[Len(races) + i].done = FALSE
              /\ Len(races'[Len(races) + i].path) = i
              /\ \A j \in 1 .. i : races'[Len(races) + i].path[j] = Len(races) + i + 1 - j
  BY <1>6, <1>8, <1>9
<1>11. PICK kind : kind = "wait"
  OBVIOUS
<1>12. kind \in {"wait", "read"}
  BY <1>11
<1>13. \A i \in 1 .. Len(c) : races'[Len(races) + i].kind = kind
  BY <1>10, <1>11
<1>14. Opened(c, kind)
  <2>1. Len(c) >= 1
    BY <1>9
  <2>2. \A i \in 1 .. Len(c) :
          /\ races'[Len(races) + i].proc = c[i]
          /\ races'[Len(races) + i].kind = kind
          /\ races'[Len(races) + i].done = FALSE
          /\ Len(races'[Len(races) + i].path) = i
          /\ \A j \in 1 .. i : races'[Len(races) + i].path[j] = Len(races) + i + 1 - j
    BY <1>10, <1>13
  <2> QED BY <1>9, <1>12, <2>1, <2>2, Zenon DEF Opened
<1> QED BY <1>8, <1>11, <1>14

LEMMA ReadOpens ==
  ASSUME ProcTypes, NEW c \in Seq(Pids), Len(c) >= 1,
         races' = races \o [i \in DOMAIN c |->
           Race(c[i], "read", [j \in 1 .. i |-> Len(races) + i + 1 - j])]
  PROVE  Opened(c, "read")
<1> DEFINE n == Len(races)
           path(i) == [j \in 1 .. i |-> n + i + 1 - j]
           new == [i \in DOMAIN c |-> Race(c[i], "read", path(i))]
<1>1. /\ races \in Seq(RaceSet) /\ n \in Nat /\ DOMAIN c = 1 .. Len(c)
      /\ Len(c) \in Nat
  BY DEF ProcTypes
<1>2. races' = races \o new
  OBVIOUS
<1>3. ASSUME NEW i \in 1 .. Len(c)
      PROVE  /\ path(i) \in Seq(Nat) /\ Len(path(i)) = i
             /\ \A j \in 1 .. i : path(i)[j] = n + i + 1 - j
  <2>1. \A j \in 1 .. i : n + i + 1 - j \in Nat
    BY <1>1
  <2>2. i \in Nat
    BY <1>1
  <2> HIDE DEF n
  <2> QED BY <2>1, <2>2
<1> HIDE DEF path
<1>4. ASSUME NEW i \in 1 .. Len(c)
      PROVE  /\ new[i] \in RaceSet /\ new[i].proc = c[i] /\ new[i].kind = "read"
             /\ new[i].path = path(i) /\ new[i].done = FALSE
  <2>1. new[i] = Race(c[i], "read", path(i)) /\ c[i] \in Pids
    BY <1>1
  <2> HIDE DEF new
  <2>2. PICK way \in Seq(Nat) : way = path(i)
    BY <1>3
  <2>3. PICK q \in Pids : q = c[i]
    BY <2>1
  <2>4. /\ Race(q, "read", way) \in RaceSet
        /\ Race(q, "read", way).proc = q /\ Race(q, "read", way).kind = "read"
        /\ Race(q, "read", way).path = way /\ Race(q, "read", way).done = FALSE
    BY ReadType
  <2>5. new[i] = Race(q, "read", way)
    BY <2>1, <2>2, <2>3
  <2> QED BY <2>2, <2>3, <2>4, <2>5
<1>5. new \in Seq(RaceSet) /\ Len(new) = Len(c)
  <2>1. new = [i \in 1 .. Len(c) |-> new[i]]
    BY <1>1
  <2>2. \A i \in 1 .. Len(c) : new[i] \in RaceSet
    BY <1>4
  <2> HIDE DEF new
  <2> QED BY <1>1, <2>1, <2>2, SeqIs
<1> HIDE DEF new
<1>6. /\ races' \in Seq(RaceSet) /\ Len(races') = n + Len(c)
      /\ \A x \in 1 .. n : races'[x] = races[x]
      /\ \A i \in 1 .. Len(c) : races'[n + i] = new[i]
  <2>1. PICK old \in Seq(RaceSet), more \in Seq(RaceSet) : old = races /\ more = new
    BY <1>1, <1>5
  <2>2. /\ old \o more \in Seq(RaceSet) /\ Len(old \o more) = Len(old) + Len(more)
        /\ \A x \in 1 .. Len(old) : (old \o more)[x] = old[x]
        /\ \A i \in 1 .. Len(more) : (old \o more)[Len(old) + i] = more[i]
    BY Concat
  <2> QED BY <1>2, <1>5, <2>1, <2>2
<1>7. ASSUME NEW i \in 1 .. Len(c)
      PROVE  /\ races'[n + i].proc = c[i] /\ races'[n + i].kind = "read"
             /\ races'[n + i].done = FALSE /\ Len(races'[n + i].path) = i
             /\ \A j \in 1 .. i : races'[n + i].path[j] = n + i + 1 - j
  <2>1. races'[n + i] = new[i]
    BY <1>6
  <2>2. /\ new[i].proc = c[i] /\ new[i].kind = "read"
        /\ new[i].path = path(i) /\ new[i].done = FALSE
    BY <1>4
  <2>3. Len(path(i)) = i /\ \A j \in 1 .. i : path(i)[j] = n + i + 1 - j
    BY <1>3
  <2> HIDE DEF n
  <2> QED BY <2>1, <2>2, <2>3
<1> QED BY <1>1, <1>6, <1>7 DEF Opened

----------------------------------------------------------------------------
(* The invariant holds *)

LEMMA ProcInit == Init => ProcInv
<1> SUFFICES ASSUME Init PROVE ProcInv
  OBVIOUS
<1>1. Shell \in Pids /\ Pids \subseteq Nat /\ Shell = 1 /\ NoHost = 0
  BY BoundsAssumption DEF Pids, Shell, NoHost
<1>2. /\ status \in [Pids -> Statuses] /\ host = [p \in Pids |-> NoHost]
      /\ \A p \in Pids : status[p] = IF p = Shell THEN "running" ELSE "none"
      /\ races = <<>> /\ Len(races) = 0 /\ stack = <<Run(Shell)>> /\ background = {}
      /\ parked = <<>> /\ timers = {} /\ signals = [p \in Pids |-> <<>>]
      /\ interrupted = FALSE
  BY DEF Init, Statuses
<1>3. Run(Shell) \in Frames(0)
  BY <1>1 DEF Frames, Run
<1>4. ProcTypes
  <2>1. host \in [Pids -> 0 .. MaxPid]
    BY <1>1, <1>2, BoundsAssumption
  <2>2. stack \in Seq(Frames(Len(races)))
    BY <1>2, <1>3
  <2>3. signals \in [Pids -> Seq(0 .. Len(races))]
    BY <1>2
  <2>4. races \in Seq(RaceSet) /\ parked \in Seq(1 .. Len(races))
    BY <1>2
  <2> QED BY <1>2, <2>1, <2>2, <2>3, <2>4 DEF ProcTypes
<1>5. PathsInv /\ SuspendedInv
  BY <1>2 DEF PathsInv, SuspendedInv
<1>6. StackInv
  <2>1. \A f : Occurs(stack, f) <=> f = Run(Shell)
    BY <1>2 DEF Occurs
  <2>2. \A f : Single(stack, f)
    BY <1>2 DEF Single
  <2> QED BY <1>1, <1>2, <2>1, <2>2, FrameKinds DEF StackInv, Fits
<1>7. HostsInv
  <2>1. \A q \in Pids : host[q] = NoHost /\ ~Foreground(q)
    BY <1>2 DEF Foreground
  <2> QED BY <1>1, <1>2, <2>1 DEF HostsInv
<1> QED BY <1>4, <1>5, <1>6, <1>7 DEF ProcInv

\* Steps that leave the processes and the races as they are.
LEMMA QuietKeeps ==
  ASSUME ProcInv, UNCHANGED <<status, races, host, background>>,
         signals' \in [Pids -> Seq(0 .. Len(races))],
         timers' \subseteq 1 .. Len(races), parked' \in Seq(1 .. Len(races)),
         interrupted' \in BOOLEAN,
         stack' \in Seq(Frames(Len(races))), Fits(status, stack')
  PROVE  ProcInv'
<1>1. /\ status' = status /\ races' = races /\ host' = host
      /\ background' = background
      /\ ProcTypes /\ PathsInv /\ SuspendedInv /\ HostsInv
  BY DEF ProcInv
<1>2. ProcTypes'
  BY <1>1 DEF ProcTypes
<1>3. PathsInv'
  BY <1>1 DEF PathsInv
<1>4. SuspendedInv'
  <2>1. \A q, x : Own(q, x)' <=> Own(q, x)
    BY <1>1 DEF Own, Open
  <2> QED BY <1>1, <2>1 DEF SuspendedInv
<1>5. HostsInv'
  <2>1. \A q \in Pids : Foreground(q)' <=> Foreground(q)
    BY <1>1, LiveIs DEF Foreground
  <2> QED BY <1>1, <2>1 DEF HostsInv
<1>6. StackInv'
  BY <1>1 DEF StackInv
<1> QED BY <1>2, <1>3, <1>4, <1>5, <1>6 DEF ProcInv

LEMMA TypesAre ==
  ASSUME ProcInv
  PROVE  /\ ProcTypes /\ Len(races) \in Nat /\ Pids \subseteq Nat
         /\ status \in [Pids -> Statuses] /\ host \in [Pids -> 0 .. MaxPid]
         /\ races \in Seq(RaceSet)
         /\ signals \in [Pids -> Seq(0 .. Len(races))]
         /\ timers \subseteq 1 .. Len(races)
         /\ parked \in Seq(1 .. Len(races))
         /\ stack \in Seq(Frames(Len(races))) /\ Fits(status, stack)
         /\ interrupted \in BOOLEAN /\ background \subseteq Pids
BY DEF ProcInv, ProcTypes, StackInv, Pids

\* A process runs: what is below its frame fits it as anything but running.
LEMMA RunsIs ==
  ASSUME ProcInv, NEW p \in Pids, Runs(p)
  PROVE  /\ stack = <<Run(p)>> \o Below /\ Below \in Seq(Frames(Len(races)))
         /\ Run(p) \in Frames(Len(races))
         /\ status[p] = "running" /\ ~Occurs(Below, Exiting(p))
         /\ \A v \in Statuses \ {"running"} : Fits([status EXCEPT ![p] = v], Below)
<1>1. /\ ProcTypes /\ status \in [Pids -> Statuses] /\ Fits(status, stack)
      /\ interrupted \in BOOLEAN
  BY TypesAre
<1>2. /\ Below \in Seq(Frames(Len(races))) /\ Run(p) \in Frames(Len(races))
      /\ stack = <<Run(p)>> \o Below
  BY <1>1, StackIs DEF Runs
<1>3. Fits(status, <<Run(p)>> \o Below)
  BY <1>1, <1>2
<1>4. /\ status[p] = "running" /\ ~Occurs(Below, Exiting(p))
      /\ \A v \in Statuses \ {"running"} : Fits([status EXCEPT ![p] = v], Below)
  BY <1>1, <1>2, <1>3, RunPop
<1> QED BY <1>2, <1>4

\* A frame of another kind is on top: what is below it fits too.
LEMMA OnIs ==
  ASSUME ProcInv, NEW kind \in {"late", "signal", "push"}, On(kind)
  PROVE  /\ stack = <<Head(stack)>> \o Below /\ Below \in Seq(Frames(Len(races)))
         /\ Head(stack) \in Frames(Len(races)) /\ Head(stack).k = kind
         /\ Fits(status, Below)
<1>1. ProcTypes /\ Fits(status, stack)
  BY TypesAre
<1>2. /\ Below \in Seq(Frames(Len(races))) /\ Head(stack) \in Frames(Len(races))
      /\ stack = <<Head(stack)>> \o Below /\ Head(stack).k = kind
  BY <1>1, StackIs DEF On
<1>3. Head(stack).k \notin {"run", "exit"}
  BY <1>2
<1> QED BY <1>1, <1>2, <1>3, PlainTop

\* A signal is sent: a frame that calls what was registered.
LEMMA SignalFrame ==
  ASSUME ProcInv, NEW s \in Seq(Frames(Len(races))), NEW st, Fits(st, s),
         NEW q \in Pids, NEW fns \in Seq(0 .. Len(races))
  PROVE  /\ <<Signalling(q, fns)>> \o s \in Seq(Frames(Len(races)))
         /\ Fits(st, <<Signalling(q, fns)>> \o s)
<1>1. Signalling(q, fns) \in Frames(Len(races))
  BY TypesAre, FramesAre
<1>2. Signalling(q, fns).k \notin {"run", "exit"}
  BY FrameKinds
<1> QED BY <1>1, <1>2, OnTop, PlainTop

LEMMA ReadQueuedKeeps ==
  ASSUME ProcInv, NEW p \in Pids, ReadQueued(p)
  PROVE  ProcInv'
<1>1. /\ Runs(p) /\ UNCHANGED <<status, races, host, background, timers, parked, interrupted>>
      /\ signals' = [q \in Pids |-> IF q \in ToSet(Tail(Chain(p)))
                                      THEN Append(signals[q], Loose) ELSE signals[q]]
      /\ stack' = <<Run(p), Late(p)>> \o Below
  BY DEF ReadQueued
<1> DEFINE n == Len(races)
<1>2. /\ n \in Nat /\ Below \in Seq(Frames(n)) /\ Run(p) \in Frames(n)
      /\ Late(p) \in Frames(n) /\ status[p] = "running"
      /\ Fits([status EXCEPT ![p] = "joined"], Below)
      /\ status \in [Pids -> Statuses]
  BY <1>1, RunsIs, TypesAre, FramesAre DEF Statuses
<1> DEFINE s == <<Late(p)>> \o Below
           st == [status EXCEPT ![p] = "joined"]
<1>3. s \in Seq(Frames(n)) /\ Fits(st, s)
  BY <1>2, OnTop, PlainTop, FrameKinds
<1>4. st \in [Pids -> Statuses] /\ st[p] = "joined" /\ [st EXCEPT ![p] = "running"] = status
  BY <1>2 DEF Statuses
<1>5. stack' = <<Run(p)>> \o s
  BY <1>1, <1>2
<1> HIDE DEF s, st
<1>6. Fits(status, stack') /\ stack' \in Seq(Frames(n))
  BY <1>2, <1>3, <1>4, <1>5, RunTop, OnTop
<1>7. signals' \in [Pids -> Seq(0 .. n)]
  <2>1. \A q \in Pids : signals[q] \in Seq(0 .. n) /\ Append(signals[q], Loose) \in Seq(0 .. n)
    BY <1>2, TypesAre DEF Loose
  <2> QED BY <1>1, <2>1
<1> QED BY <1>1, <1>6, <1>7, QuietKeeps, TypesAre

LEMMA KillKeeps ==
  ASSUME ProcInv, NEW q \in Pids,
         UNCHANGED <<status, races, host, background, timers, parked, interrupted>>,
         signals' = [signals EXCEPT ![q] = <<>>],
         stack' = <<Signalling(q, signals[q])>> \o stack
  PROVE  ProcInv'
<1>1. /\ signals \in [Pids -> Seq(0 .. Len(races))]
      /\ stack \in Seq(Frames(Len(races))) /\ Fits(status, stack)
  BY TypesAre
<1>2. signals[q] \in Seq(0 .. Len(races)) /\ signals' \in [Pids -> Seq(0 .. Len(races))]
  BY <1>1
<1>3. stack' \in Seq(Frames(Len(races))) /\ Fits(status, stack')
  BY <1>1, <1>2, SignalFrame
<1> QED BY <1>2, <1>3, QuietKeeps, TypesAre

LEMMA TypeKeeps ==
  ASSUME ProcInv, Type
  PROVE  ProcInv'
<1>1. /\ UNCHANGED <<status, races, host, background, signals, timers>>
      /\ interrupted' = FALSE /\ stack = <<>>
      /\ \/ UNCHANGED <<stack, parked>>
         \/ stack' = <<Pushing(parked)>> /\ parked' = <<>>
  BY DEF Type, Idle
<1>2. /\ stack \in Seq(Frames(Len(races))) /\ Fits(status, stack)
      /\ Pushing(parked) \in Frames(Len(races))
      /\ parked \in Seq(1 .. Len(races))
  <2>1. \A p \in Pids : Pushing(parked) \in Frames(Len(races))
    BY TypesAre, FramesAre
  <2>2. Shell \in Pids
    BY BoundsAssumption DEF Pids, Shell
  <2> QED BY <2>1, <2>2, TypesAre
<1>3. <<Pushing(parked)>> \o stack \in Seq(Frames(Len(races)))
      /\ Fits(status, <<Pushing(parked)>> \o stack)
  BY <1>2, OnTop, PlainTop, FrameKinds
<1>4. <<Pushing(parked)>> \o stack = <<Pushing(parked)>>
  BY <1>1
<1>5. /\ stack' \in Seq(Frames(Len(races))) /\ Fits(status, stack')
      /\ parked' \in Seq(1 .. Len(races))
  <2>1. CASE UNCHANGED <<stack, parked>>
    BY <1>2, <2>1
  <2>2. CASE stack' = <<Pushing(parked)>> /\ parked' = <<>>
    <3>1. stack' = <<Pushing(parked)>> \o stack
      BY <1>4, <2>2
    <3>2. stack' \in Seq(Frames(Len(races))) /\ Fits(status, stack')
      BY <1>3, <3>1
    <3>3. <<>> \in Seq(1 .. Len(races))
      OBVIOUS
    <3> QED BY <2>2, <3>2, <3>3
  <2> QED BY <1>1, <2>1, <2>2
<1> QED BY <1>1, <1>5, QuietKeeps, TypesAre

\* A frame that has done its work goes.
LEMMA PopKeeps ==
  ASSUME ProcInv, NEW kind \in {"late", "signal", "push"}, On(kind), stack' = Below,
         UNCHANGED <<status, races, host, background, timers, parked, interrupted>>,
         \/ UNCHANGED signals
         \/ \E p \in Pids : signals' = [signals EXCEPT ![p] = Append(@, Loose)]
  PROVE  ProcInv'
<1>1. Below \in Seq(Frames(Len(races))) /\ Fits(status, Below)
  BY OnIs
<1>2. signals' \in [Pids -> Seq(0 .. Len(races))]
  <2>1. signals \in [Pids -> Seq(0 .. Len(races))] /\ Loose \in 0 .. Len(races)
    BY TypesAre DEF Loose
  <2>2. \A p \in Pids : Append(signals[p], Loose) \in Seq(0 .. Len(races))
    BY <2>1
  <2> QED BY <2>1, <2>2
<1> QED BY <1>1, <1>2, QuietKeeps, TypesAre

\* An awaitable of a race completes.
LEMMA CallKeeps ==
  ASSUME ProcInv, NEW r \in 1 .. Len(races), NEW res, NEW rest,
         rest \in Seq(Frames(Len(races))), Fits(status, rest), Complete(r, res, rest),
         UNCHANGED <<host, background, signals, parked>>,
         timers' \subseteq timers, interrupted' \in BOOLEAN
  PROVE  ProcInv'
<1>1. /\ status' \in [Pids -> Statuses] /\ races' \in Seq(RaceSet)
      /\ Len(races') = Len(races) /\ stack' \in Seq(Frames(Len(races)))
      /\ PathsInv' /\ SuspendedInv' /\ StackInv' /\ HostsInv'
  BY CompleteKeeps
<1>2. ProcTypes'
  BY <1>1, TypesAre DEF ProcTypes
<1> QED BY <1>1, <1>2 DEF ProcInv

LEMMA SignalCallKeeps ==
  ASSUME ProcInv, SignalCall \/ SignalLoose
  PROVE  ProcInv'
<1> DEFINE fns == Head(stack).todo
           p == Head(stack).p
           rest == <<Signalling(p, Tail(fns))>> \o Below
<1>1. /\ On("signal") /\ fns # <<>>
      /\ UNCHANGED <<host, background, signals, timers, parked>>
  BY DEF SignalCall, SignalLoose
<1>2. /\ Below \in Seq(Frames(Len(races))) /\ Fits(status, Below)
      /\ Head(stack) \in Frames(Len(races)) /\ Head(stack).k = "signal"
  BY <1>1, OnIs
<1>3. p \in Pids /\ fns \in Seq(0 .. Len(races)) /\ Len(races) \in Nat
  BY <1>2, FrameIs, TypesAre
<1>4. Head(fns) \in 0 .. Len(races) /\ Tail(fns) \in Seq(0 .. Len(races))
  <2> HIDE DEF fns
  <2> QED BY <1>1, <1>3, TopIs
<1>5. rest \in Seq(Frames(Len(races))) /\ Fits(status, rest)
  BY <1>2, <1>3, <1>4, SignalFrame
<1>6. DOMAIN races = 1 .. Len(races)
  BY TypesAre
<1>7. CASE SignalCall
  <2>1. /\ Complete(Head(fns), "eintr", rest) /\ Head(fns) # Loose
        /\ interrupted' \in BOOLEAN
    BY <1>7 DEF SignalCall
  <2>2. Head(fns) \in 1 .. Len(races)
    BY <1>3, <1>4, <2>1 DEF Loose
  <2> HIDE DEF fns, p, rest
  <2> QED BY <1>1, <1>5, <2>1, <2>2, CallKeeps
<1>8. CASE SignalLoose
  <2>1. CASE stack' = rest /\ UNCHANGED <<status, result, races, interrupted>>
    <3> HIDE DEF fns, p, rest
    <3> QED BY <1>1, <1>5, <2>1, QuietKeeps, TypesAre
  <2>2. ASSUME NEW r \in DOMAIN races, Complete(r, "eintr", rest), interrupted' = TRUE
        PROVE  ProcInv'
    <3>1. r \in 1 .. Len(races)
      BY <1>6
    <3> HIDE DEF fns, p, rest
    <3> QED BY <1>1, <1>5, <2>2, <3>1, CallKeeps
  <2> QED BY <1>8, <2>1, <2>2 DEF SignalLoose
<1> QED BY <1>7, <1>8

LEMMA PushCallKeeps ==
  ASSUME ProcInv, PushCall
  PROVE  ProcInv'
<1> DEFINE top == Head(stack)
           r == Head(top.todo)
           new == [top EXCEPT !.todo = Tail(@), !.taken = @ \/ Reaches(r)]
           rest == <<new>> \o Below
<1>1. /\ On("push") /\ top.todo # <<>> /\ Complete(r, "line", rest)
      /\ UNCHANGED <<host, background, signals, timers, parked, interrupted>>
  BY DEF PushCall
<1>2. /\ Below \in Seq(Frames(Len(races))) /\ Fits(status, Below)
      /\ top \in Frames(Len(races)) /\ top.k = "push" /\ Len(races) \in Nat
  BY <1>1, OnIs, TypesAre
<1>3. top.todo \in Seq(1 .. Len(races)) /\ top.taken \in BOOLEAN
  BY <1>2, FrameIs
<1>4. r \in 1 .. Len(races) /\ Tail(top.todo) \in Seq(1 .. Len(races))
  <2> HIDE DEF top
  <2> QED BY <1>1, <1>3, TopIs
<1>5. new \in Frames(Len(races)) /\ new.k = "push"
  <2> DEFINE R == Reaches(r)
             fns == Tail(top.todo)
             v == top.taken \/ R
  <2>1. new = [top EXCEPT !.todo = fns, !.taken = v]
    OBVIOUS
  <2>2. v \in BOOLEAN /\ fns \in Seq(1 .. Len(races))
    BY <1>4
  <2>3. top \in [k : {"push"}, todo : Seq(1 .. Len(races)), taken : BOOLEAN, spoilt : BOOLEAN]
    BY <1>2 DEF Frames
  <2> HIDE DEF v, fns, top, new
  <2>4. new \in [k : {"push"}, todo : Seq(1 .. Len(races)), taken : BOOLEAN, spoilt : BOOLEAN]
    BY <2>1, <2>2, <2>3
  <2> QED BY <2>4 DEF Frames
<1> HIDE DEF new, r
<1>6. rest \in Seq(Frames(Len(races))) /\ Fits(status, rest)
  BY <1>2, <1>5, OnTop, PlainTop
<1> HIDE DEF rest
<1>7. timers' \subseteq timers /\ interrupted' \in BOOLEAN
  BY <1>1, TypesAre
<1> QED BY <1>1, <1>4, <1>6, <1>7, CallKeeps

LEMMA FireKeeps ==
  ASSUME ProcInv, NEW r, Fire(r)
  PROVE  ProcInv'
<1>1. /\ r \in timers /\ Complete(r, "ok", <<>>) /\ stack = <<>>
      /\ timers' = timers \ {r}
      /\ UNCHANGED <<host, background, signals, parked, interrupted>>
  BY DEF Fire, Idle
<1>2. r \in 1 .. Len(races) /\ stack \in Seq(Frames(Len(races))) /\ Fits(status, stack)
  BY <1>1, TypesAre
<1>3. timers' \subseteq timers /\ interrupted' \in BOOLEAN
  BY <1>1, TypesAre
<1> QED BY <1>1, <1>2, <1>3, CallKeeps

LEMMA TypesGrow ==
  ASSUME ProcInv, Len(races') \in Nat, Len(races) <= Len(races')
  PROVE  /\ \A s \in Seq(Frames(Len(races))) : s \in Seq(Frames(Len(races')))
         /\ \A s \in Seq(0 .. Len(races)) : s \in Seq(0 .. Len(races'))
         /\ \A s \in Seq(1 .. Len(races)) : s \in Seq(1 .. Len(races'))
         /\ timers \subseteq 1 .. Len(races')
<1>1. Len(races) \in Nat /\ timers \subseteq 1 .. Len(races)
  BY TypesAre
<1>2. 0 .. Len(races) \subseteq 0 .. Len(races') /\ 1 .. Len(races) \subseteq 1 .. Len(races')
  BY <1>1
<1> QED BY <1>1, <1>2, FramesGrow

LEMMA WaitKeeps ==
  ASSUME ProcInv, NEW p \in Pids, Wait(p)
  PROVE  ProcInv'
<1>1. /\ Runs(p) /\ status' = [status EXCEPT ![p] = "waiting"] /\ stack' = Below
      /\ timers' = timers \cup {Len(races) + 1}
      /\ signals' = [signals EXCEPT ![p] = Append(@, Len(races) + 1)]
      /\ UNCHANGED <<host, background, parked, interrupted>>
  BY DEF Wait
<1>2. /\ ProcTypes /\ PathsInv /\ SuspendedInv /\ HostsInv
      /\ status \in [Pids -> Statuses] /\ Len(races) \in Nat
      /\ signals \in [Pids -> Seq(0 .. Len(races))]
      /\ parked \in Seq(1 .. Len(races)) /\ interrupted \in BOOLEAN
  BY TypesAre DEF ProcInv
<1>3. /\ status[p] = "running" /\ Fits([status EXCEPT ![p] = "waiting"], Below)
      /\ Below \in Seq(Frames(Len(races)))
  BY <1>1, RunsIs DEF Statuses
<1>4. Opened(<<p>>, "wait")
  BY <1>2, WaitOpens
<1>5. PathsInv' /\ SuspendedInv'
  <2>1. <<p>>[1] = p
    OBVIOUS
  <2> QED BY <1>1, <1>2, <1>3, <1>4, <2>1, OpenedKeeps
<1>6. HostsInv'
  BY <1>1, <1>2, <1>3, HostsKept DEF Statuses
<1>7. StackInv'
  BY <1>1, <1>3 DEF StackInv
<1>8. races' \in Seq(RaceSet) /\ Len(races') = Len(races) + 1
  <2>1. Len(<<p>>) = 1
    OBVIOUS
  <2> QED BY <1>4, <2>1 DEF Opened
<1>9. ProcTypes'
  <2>1. Len(races') \in Nat /\ Len(races) <= Len(races')
    BY <1>2, <1>8
  <2>2. /\ stack' \in Seq(Frames(Len(races'))) /\ parked' \in Seq(1 .. Len(races'))
        /\ timers \subseteq 1 .. Len(races')
        /\ \A q \in Pids : signals[q] \in Seq(0 .. Len(races'))
    BY <1>1, <1>2, <1>3, <2>1, TypesGrow
  <2>3. /\ Len(races) + 1 \in 1 .. Len(races') /\ Len(races) + 1 \in 0 .. Len(races')
    BY <1>2, <1>8
  <2>4. Append(signals[p], Len(races) + 1) \in Seq(0 .. Len(races'))
    BY <2>2, <2>3
  <2>5. signals' \in [Pids -> Seq(0 .. Len(races'))] /\ timers' \subseteq 1 .. Len(races')
    BY <1>1, <1>2, <2>2, <2>3, <2>4
  <2>6. status' \in [Pids -> Statuses]
    BY <1>1, <1>2 DEF Statuses
  <2> QED BY <1>1, <1>2, <1>8, <2>2, <2>5, <2>6 DEF ProcTypes
<1> QED BY <1>5, <1>6, <1>7, <1>9 DEF ProcInv

LEMMA ChainsAre ==
  ASSUME ProcInv
  PROVE  /\ \A p \in Pids : ChainOf(Chain(p), p)
         /\ \A p \in Pids : Chain(p) = IF host[p] = NoHost THEN <<p>>
                                       ELSE <<p>> \o Chain(host[p])
<1>1. MaxPid \in Nat /\ host \in [Pids -> 0 .. MaxPid] /\ \A q \in Pids : host[q] < q
  BY TypesAre, BoundsAssumption DEF ProcInv, HostsInv
<1> QED BY <1>1, ChainIs, ChainsEnd

\* What a read registers: one callback for each process of its chain.
Registered(n, c, q) ==
  [i \in 1 .. (IF q \in ToSet(c) THEN 1 ELSE 0) |->
     n + (CHOOSE j \in DOMAIN c : c[j] = q)]

LEMMA RegisteredIs ==
  ASSUME NEW n \in Nat, NEW c \in Seq(Pids), NEW q
  PROVE  Registered(n, c, q) \in Seq(1 .. n + Len(c))
<1> USE DEF Registered
<1>1. CASE q \in ToSet(c)
  <2>1. \E j \in DOMAIN c : c[j] = q
    BY <1>1 DEF ToSet
  <2>2. PICK k : k = CHOOSE j \in DOMAIN c : c[j] = q
    OBVIOUS
  <2>3. k \in 1 .. Len(c)
    BY <2>1, <2>2
  <2>4. n + k \in 1 .. n + Len(c)
    BY <2>3
  <2>5. [i \in 1 .. 1 |-> n + k] \in Seq(1 .. n + Len(c))
    BY <2>4
  <2> QED BY <1>1, <2>2, <2>5
<1>2. CASE q \notin ToSet(c)
  <2>1. \A e : [i \in 1 .. 0 |-> e] \in Seq(1 .. n + Len(c))
    OBVIOUS
  <2> QED BY <1>2, <2>1
<1> QED BY <1>1, <1>2

LEMMA ReadParksKeeps ==
  ASSUME ProcInv, NEW p \in Pids, ReadParks(p)
  PROVE  ProcInv' /\ Opened(Chain(p), "read")
<1>0. PICK c : c = Chain(p)
  OBVIOUS
<1>1. /\ Runs(p) /\ status' = [status EXCEPT ![p] = "reading"] /\ stack' = Below
      /\ races' = races \o [i \in DOMAIN c |->
           Race(c[i], "read", [j \in 1 .. i |-> Len(races) + i + 1 - j])]
      /\ parked' = Append(parked, Len(races) + Len(c))
      /\ signals' = [q \in Pids |->
           signals[q] \o [i \in 1 .. (IF q \in ToSet(c) THEN 1 ELSE 0) |->
                            Len(races) + (CHOOSE j \in DOMAIN c : c[j] = q)]]
      /\ UNCHANGED <<host, background, timers, interrupted>>
  BY <1>0 DEF ReadParks
<1>2. /\ ProcTypes /\ PathsInv /\ SuspendedInv /\ HostsInv
      /\ status \in [Pids -> Statuses] /\ Len(races) \in Nat
      /\ signals \in [Pids -> Seq(0 .. Len(races))]
      /\ parked \in Seq(1 .. Len(races)) /\ interrupted \in BOOLEAN
  BY TypesAre DEF ProcInv
<1>3. /\ status[p] = "running" /\ Fits([status EXCEPT ![p] = "reading"], Below)
      /\ Below \in Seq(Frames(Len(races)))
  BY <1>1, RunsIs DEF Statuses
<1>4. /\ c \in Seq(Pids) /\ Len(c) >= 1 /\ c[1] = p /\ Len(c) \in Nat
  BY <1>0, ChainsAre DEF ChainOf
<1>5. Opened(c, "read")
  BY <1>1, <1>2, <1>4, ReadOpens
<1>6. PathsInv' /\ SuspendedInv'
  BY <1>1, <1>2, <1>3, <1>4, <1>5, OpenedKeeps
<1>7. HostsInv'
  BY <1>1, <1>2, <1>3, HostsKept DEF Statuses
<1>8. StackInv'
  BY <1>1, <1>3 DEF StackInv
<1>9. races' \in Seq(RaceSet) /\ Len(races') = Len(races) + Len(c)
  BY <1>5 DEF Opened
<1>10. ProcTypes'
  <2>1. Len(races') \in Nat /\ Len(races) <= Len(races')
    BY <1>2, <1>4, <1>9
  <2>2. /\ stack' \in Seq(Frames(Len(races'))) /\ parked \in Seq(1 .. Len(races'))
        /\ timers \subseteq 1 .. Len(races')
        /\ \A q \in Pids : signals[q] \in Seq(0 .. Len(races'))
    BY <1>1, <1>2, <1>3, <2>1, TypesGrow
  <2>3. Len(races) + Len(c) \in 1 .. Len(races')
    BY <1>2, <1>4, <1>9
  <2>4. parked' \in Seq(1 .. Len(races'))
    BY <1>1, <2>2, <2>3
  <2>5. ASSUME NEW q \in Pids PROVE signals'[q] \in Seq(0 .. Len(races'))
    <3>1. PICK more : more = Registered(Len(races), c, q)
      OBVIOUS
    <3>5. more \in Seq(1 .. Len(races) + Len(c))
      BY <1>2, <1>4, <3>1, RegisteredIs
    <3>2. signals'[q] = signals[q] \o more
      BY <1>1, <3>1, Zenon DEF Registered
    <3>3. 1 .. Len(races) + Len(c) \subseteq 0 .. Len(races')
      BY <1>9
    <3>4. more \in Seq(0 .. Len(races'))
      BY <3>3, <3>5, SeqGrows
    <3> QED BY <2>2, <3>2, <3>4, Concat
  <2>6. signals' \in [Pids -> Seq(0 .. Len(races'))]
    <3>1. signals' = [q \in Pids |-> signals'[q]]
      BY <1>1
    <3> QED BY <2>5, <3>1
  <2>7. status' \in [Pids -> Statuses]
    BY <1>1, <1>2 DEF Statuses
  <2> QED BY <1>1, <1>2, <1>9, <2>2, <2>4, <2>6, <2>7 DEF ProcTypes
<1> QED BY <1>0, <1>5, <1>6, <1>7, <1>8, <1>10 DEF ProcInv

\* A new process, in front of its host or in the background.
LEMMA BornHosts ==
  ASSUME ProcTypes, HostsInv, NEW p \in Pids, NEW q \in Pids,
         status[p] = "running", Born(p, q),
         \/ /\ background' = background
            /\ \A x \in Pids : status'[x] = IF x = q THEN "running"
                                            ELSE IF x = p THEN "joined" ELSE status[x]
         \/ /\ background' = background \cup {q}
            /\ \A x \in Pids : status'[x] = IF x = q THEN "running" ELSE status[x]
  PROVE  HostsInv' /\ host' \in [Pids -> 0 .. MaxPid] /\ background' \subseteq Pids
<1>1. /\ host \in [Pids -> 0 .. MaxPid] /\ background \subseteq Pids
      /\ host' = [host EXCEPT ![q] = p] /\ status[q] = "none"
      /\ \A x \in Pids : x < q => status[x] # "none"
      /\ Pids \subseteq Nat /\ Pids = 1 .. MaxPid /\ MaxPid \in Nat /\ NoHost = 0
      /\ Shell \in Pids
  BY BoundsAssumption DEF ProcTypes, Born, Pids, NoHost, Shell
<1>2. p # q /\ p < q
  BY <1>1 DEF HostsInv
<1>3. /\ \A x \in Pids : host'[x] = IF x = q THEN p ELSE host[x]
      /\ \A x \in Pids : status'[x] = "none" => (x # q /\ x # p /\ status[x] = "none")
      /\ \A x \in Pids : (x # q /\ x # p) => status'[x] = status[x]
      /\ status'[p] # "none" /\ status'[q] # "none"
  BY <1>1, <1>2
<1>4. \A x \in Pids : host[x] # NoHost => (host[x] \in Pids /\ host[x] # q)
  BY <1>1 DEF HostsInv
<1>5. \A x \in Pids : Foreground(x)' => (x = q \/ (Foreground(x) /\ host'[x] = host[x]
                                                 /\ host[x] # p /\ host[x] # NoHost))
  <2> SUFFICES ASSUME NEW x \in Pids, Foreground(x)', x # q
               PROVE  Foreground(x) /\ host[x] # p /\ host'[x] = host[x]
    BY DEF Foreground
  <2>1. host'[x] = host[x] /\ x \notin background /\ host[x] # NoHost
    BY <1>1 DEF Foreground
  <2>2. status'[x] \notin {"none", "ended"}
    BY LiveIs DEF Foreground
  <2>3. status[x] \notin {"none", "ended"}
    BY <1>3, <2>2
  <2>4. Foreground(x)
    BY <2>1, <2>3, LiveIs DEF Foreground
  <2>5. status[host[x]] = "joined"
    BY <2>4 DEF HostsInv
  <2> QED BY <2>1, <2>4, <2>5
<1>6. Foreground(q)' => (host'[q] = p /\ status'[p] = "joined")
  BY <1>1, <1>2, <1>3 DEF Foreground
<1>7. status'[Shell] # "none"
  BY <1>1, <1>3 DEF HostsInv
<1>8. ASSUME NEW x \in Pids
      PROVE  /\ host'[x] < x
             /\ host'[x] = NoHost <=> (x = Shell \/ status'[x] = "none")
             /\ host'[x] # NoHost => status'[host'[x]] # "none"
             /\ status'[x] = "none" => x \notin background'
                                      /\ \A y \in Pids : y > x => status'[y] = "none"
  <2>1. CASE x = q
    BY <1>1, <1>2, <1>3, <2>1 DEF HostsInv, Shell
  <2>2. CASE x # q
    <3>1. host'[x] < x /\ (host'[x] = NoHost <=> (x = Shell \/ status'[x] = "none"))
      BY <1>1, <1>3, <2>2 DEF HostsInv
    <3>2. host'[x] # NoHost => status'[host'[x]] # "none"
      BY <1>1, <1>3, <1>4, <2>2 DEF HostsInv
    <3>3. status'[x] = "none" => x \notin background'
      BY <1>1, <1>3, <2>2 DEF HostsInv
    <3>4. status'[x] = "none" => \A y \in Pids : y > x => status'[y] = "none"
      <4> SUFFICES ASSUME status'[x] = "none", NEW y \in Pids, y > x
                   PROVE  status'[y] = "none"
        OBVIOUS
      <4>1. status[x] = "none"
        BY <1>3
      <4>2. ~(x < q)
        BY <1>1, <4>1
      <4>3. status[y] = "none"
        BY <4>1 DEF HostsInv
      <4> QED BY <1>1, <1>2, <1>3, <4>2, <4>3
    <3> QED BY <3>1, <3>2, <3>3, <3>4
  <2> QED BY <2>1, <2>2
<1>9. ASSUME NEW x \in Pids, Foreground(x)' PROVE status'[host'[x]] = "joined"
  <2>1. CASE x = q
    BY <1>6, <1>9, <2>1
  <2>2. CASE x # q
    <3>1. Foreground(x) /\ host'[x] = host[x] /\ host[x] # p /\ host[x] # NoHost
      BY <1>5, <1>9, <2>2
    <3>2. status[host[x]] = "joined" /\ host[x] \in Pids /\ host[x] # q
      BY <1>4, <3>1 DEF HostsInv
    <3> QED BY <1>3, <3>1, <3>2
  <2> QED BY <2>1, <2>2
<1>10. ASSUME NEW x \in Pids, NEW y \in Pids, Foreground(x)', Foreground(y)',
              host'[x] = host'[y]
       PROVE  x = y
  <2>1. CASE x = q \/ y = q
    BY <1>3, <1>5, <1>10, <2>1
  <2>2. CASE x # q /\ y # q
    BY <1>5, <1>10, <2>2 DEF HostsInv
  <2> QED BY <2>1, <2>2
<1>11. HostsInv'
  BY <1>7, <1>8, <1>9, <1>10 DEF HostsInv
<1>12. host' \in [Pids -> 0 .. MaxPid] /\ background' \subseteq Pids
  <2>1. p \in 0 .. MaxPid
    BY <1>1
  <2>2. host' \in [Pids -> 0 .. MaxPid]
    BY <1>1, <2>1
  <2>3. background' \subseteq Pids
    BY <1>1
  <2> QED BY <2>2, <2>3
<1> QED BY <1>11, <1>12

LEMMA ExecKeeps ==
  ASSUME ProcInv, NEW p \in Pids, NEW q \in Pids, Exec(p, q)
  PROVE  ProcInv'
<1>1. /\ Runs(p) /\ Born(p, q) /\ stack' = <<Run(q)>> \o Below
      /\ status' = [status EXCEPT ![p] = "joined", ![q] = "running"]
      /\ UNCHANGED <<races, background, signals, timers, parked, interrupted>>
      /\ status[q] = "none"
  BY DEF Exec, Born
<1>2. /\ status[p] = "running" /\ Fits([status EXCEPT ![p] = "joined"], Below)
      /\ Below \in Seq(Frames(Len(races)))
  BY <1>1, RunsIs DEF Statuses
<1>3. /\ ProcTypes /\ PathsInv /\ SuspendedInv /\ HostsInv
      /\ status \in [Pids -> Statuses] /\ Len(races) \in Nat /\ interrupted \in BOOLEAN
  BY TypesAre DEF ProcInv
<1>4. p # q /\ \A x \in Pids : status'[x] = IF x = q THEN "running"
                                      ELSE IF x = p THEN "joined" ELSE status[x]
  BY <1>1, <1>2, <1>3
<1>5. HostsInv' /\ host' \in [Pids -> 0 .. MaxPid] /\ background' \subseteq Pids
  BY <1>1, <1>2, <1>3, <1>4, BornHosts
<1>6. SuspendedInv'
  BY <1>1, <1>2, <1>3, <1>4, SuspendedKept
<1>7. StackInv' /\ stack' \in Seq(Frames(Len(races)))
  <2> DEFINE st == [status EXCEPT ![p] = "joined"]
  <2>1. /\ st \in [Pids -> Statuses] /\ st[q] = "none"
        /\ status' = [st EXCEPT ![q] = "running"]
    BY <1>1, <1>3, <1>4 DEF Statuses
  <2>2. Run(q) \in Frames(Len(races))
    BY <1>3, FramesAre
  <2> HIDE DEF st
  <2>3. Fits([st EXCEPT ![q] = "running"], <<Run(q)>> \o Below)
    BY <1>2, <2>1, <2>2, RunTop DEF st
  <2>4. stack' \in Seq(Frames(Len(races)))
    BY <1>1, <1>2, <2>2, OnTop
  <2> QED BY <1>1, <2>1, <2>3, <2>4 DEF StackInv
<1>8. ProcTypes'
  <2>1. status' \in [Pids -> Statuses]
    BY <1>1, <1>3 DEF Statuses
  <2> QED BY <1>1, <1>5, <1>7, <2>1, TypesAre DEF ProcTypes
<1>9. PathsInv'
  BY <1>1, <1>3 DEF PathsInv
<1> QED BY <1>5, <1>6, <1>7, <1>8, <1>9 DEF ProcInv

LEMMA ExecBackgroundKeeps ==
  ASSUME ProcInv, NEW p \in Pids, NEW q \in Pids, ExecBackground(p, q)
  PROVE  ProcInv'
<1>1. /\ Runs(p) /\ Born(p, q) /\ stack' = <<Run(q)>> \o stack
      /\ status' = [status EXCEPT ![q] = "running"]
      /\ background' = background \cup {q}
      /\ UNCHANGED <<races, signals, timers, parked, interrupted>>
      /\ status[q] = "none"
  BY DEF ExecBackground, Born
<1>2. status[p] = "running"
  BY <1>1, RunsIs
<1>3. /\ ProcTypes /\ PathsInv /\ SuspendedInv /\ HostsInv
      /\ status \in [Pids -> Statuses] /\ Len(races) \in Nat /\ interrupted \in BOOLEAN
      /\ stack \in Seq(Frames(Len(races))) /\ Fits(status, stack)
  BY TypesAre DEF ProcInv
<1>4. \A x \in Pids : status'[x] = IF x = q THEN "running" ELSE status[x]
  BY <1>1, <1>3
<1>5. HostsInv' /\ host' \in [Pids -> 0 .. MaxPid] /\ background' \subseteq Pids
  BY <1>1, <1>2, <1>3, <1>4, BornHosts
<1>6. SuspendedInv'
  BY <1>1, <1>2, <1>3, <1>4, SuspendedKept
<1>7. StackInv' /\ stack' \in Seq(Frames(Len(races)))
  <2>1. Run(q) \in Frames(Len(races))
    BY <1>3, FramesAre
  <2>2. Fits(status', stack')
    BY <1>1, <1>3, <2>1, RunTop
  <2>3. stack' \in Seq(Frames(Len(races)))
    BY <1>1, <1>3, <2>1, OnTop
  <2> QED BY <2>2, <2>3 DEF StackInv
<1>8. ProcTypes'
  <2>1. status' \in [Pids -> Statuses]
    BY <1>1, <1>3 DEF Statuses
  <2> QED BY <1>1, <1>5, <1>7, <2>1, TypesAre DEF ProcTypes
<1>9. PathsInv'
  BY <1>1, <1>3 DEF PathsInv
<1> QED BY <1>5, <1>6, <1>7, <1>8, <1>9 DEF ProcInv

\* A process that ran or was ending ends, or loses its way.
LEMMA MoveKeeps ==
  ASSUME ProcInv, NEW p \in Pids, status[p] \in {"running", "ending"},
         NEW v \in {"ending", "ended", "astray"},
         status' = [status EXCEPT ![p] = v],
         UNCHANGED <<races, host, background, timers, parked, interrupted>>,
         signals' \in [Pids -> Seq(0 .. Len(races))],
         stack' \in Seq(Frames(Len(races))), Fits(status', stack')
  PROVE  ProcInv'
<1>1. /\ ProcTypes /\ PathsInv /\ SuspendedInv /\ HostsInv
      /\ status \in [Pids -> Statuses] /\ v \in Statuses \ {"none"}
  BY TypesAre DEF ProcInv, Statuses
<1>2. HostsInv'
  BY <1>1, HostsKept
<1>3. SuspendedInv'
  <2>1. \A q \in Pids : status'[q] \in {"waiting", "reading"}
                          <=> status[q] \in {"waiting", "reading"}
    BY <1>1
  <2> QED BY <1>1, <2>1, SuspendedKept
<1>4. PathsInv' /\ StackInv'
  BY <1>1 DEF PathsInv, StackInv
<1>5. ProcTypes'
  BY <1>1, TypesAre DEF ProcTypes
<1> QED BY <1>2, <1>3, <1>4, <1>5 DEF ProcInv

LEMMA EndKeeps ==
  ASSUME ProcInv, NEW p \in Pids, End(p)
  PROVE  ProcInv'
<1>1. /\ Runs(p) /\ status' = [status EXCEPT ![p] = "ending"]
      /\ signals' = [signals EXCEPT ![p] = <<>>]
      /\ stack' = <<Signalling(p, signals[p]), Exiting(p)>> \o Below
      /\ UNCHANGED <<races, host, background, timers, parked, interrupted>>
  BY DEF End
<1>2. /\ status[p] = "running" /\ Fits(status', Below)
      /\ Below \in Seq(Frames(Len(races))) /\ ~Occurs(Below, Exiting(p))
  BY <1>1, RunsIs DEF Statuses
<1>3. /\ status \in [Pids -> Statuses] /\ interrupted \in BOOLEAN /\ Len(races) \in Nat
      /\ signals \in [Pids -> Seq(0 .. Len(races))]
  BY TypesAre
<1>4. /\ status' \in [Pids -> Statuses] /\ status'[p] = "ending"
      /\ Exiting(p) \in Frames(Len(races))
      /\ signals[p] \in Seq(0 .. Len(races))
      /\ signals' \in [Pids -> Seq(0 .. Len(races))]
  BY <1>1, <1>3, FramesAre DEF Statuses
<1> DEFINE s == <<Exiting(p)>> \o Below
<1>5. s \in Seq(Frames(Len(races))) /\ Fits(status', s)
  BY <1>2, <1>4, ExitTop, OnTop
<1>6. stack' = <<Signalling(p, signals[p])>> \o s
  BY <1>1, <1>2
<1> HIDE DEF s
<1>7. stack' \in Seq(Frames(Len(races))) /\ Fits(status', stack')
  BY <1>4, <1>5, <1>6, SignalFrame
<1> QED BY <1>1, <1>2, <1>4, <1>7, MoveKeeps

LEMMA AstrayKeeps ==
  ASSUME ProcInv, NEW p \in Pids, Astray(p)
  PROVE  ProcInv'
<1>1. /\ Runs(p) /\ status' = [status EXCEPT ![p] = "astray"] /\ stack' = Below
      /\ UNCHANGED <<races, host, background, signals, timers, parked, interrupted>>
  BY DEF Astray
<1>2. /\ status[p] = "running" /\ Fits(status', Below)
      /\ Below \in Seq(Frames(Len(races)))
  BY <1>1, RunsIs DEF Statuses
<1> QED BY <1>1, <1>2, MoveKeeps, TypesAre

LEMMA ExitKeeps ==
  ASSUME ProcInv, Exit
  PROVE  ProcInv'
<1>0. PICK p : p = Head(stack).p
  OBVIOUS
<1>1. /\ On("exit") /\ signals' = [signals EXCEPT ![p] = <<>>]
      /\ UNCHANGED <<races, host, background, timers, parked, interrupted>>
      /\ \/ /\ status' = [status EXCEPT ![p] = "ended"] /\ stack' = Below
         \/ /\ host[p] # NoHost /\ p \notin background
            /\ status' = [status EXCEPT ![p] = "ended", ![host[p]] = "running"]
            /\ stack' = <<Run(host[p])>> \o Below
  BY <1>0 DEF Exit
<1>2. /\ ProcTypes /\ PathsInv /\ SuspendedInv /\ HostsInv
      /\ status \in [Pids -> Statuses] /\ Len(races) \in Nat /\ interrupted \in BOOLEAN
      /\ signals \in [Pids -> Seq(0 .. Len(races))] /\ Fits(status, stack)
      /\ host \in [Pids -> 0 .. MaxPid]
  BY TypesAre DEF ProcInv
<1>3. /\ Below \in Seq(Frames(Len(races))) /\ Head(stack) \in Frames(Len(races))
      /\ stack = <<Head(stack)>> \o Below /\ Head(stack).k = "exit"
  BY <1>1, <1>2, StackIs DEF On
<1>4. p \in Pids /\ Head(stack) = Exiting(p)
  BY <1>0, <1>2, <1>3, FrameIs
<1>5. status[p] = "ending" /\ Fits([status EXCEPT ![p] = "ended"], Below)
  <2>1. Fits(status, <<Exiting(p)>> \o Below)
    BY <1>2, <1>3, <1>4
  <2>2. PICK s : s = Below
    OBVIOUS
  <2>3. s \in Seq(Frames(Len(races))) /\ Exiting(p) \in Frames(Len(races))
        /\ Fits(status, <<Exiting(p)>> \o s)
    BY <1>3, <1>4, <2>1, <2>2
  <2>4. status[p] = "ending" /\ Fits([status EXCEPT ![p] = "ended"], s)
    BY <1>2, <1>4, <2>3, ExitPop
  <2> QED BY <2>2, <2>4
<1>6. signals' \in [Pids -> Seq(0 .. Len(races))]
  <2>1. <<>> \in Seq(0 .. Len(races))
    OBVIOUS
  <2> QED BY <1>1, <1>2, <1>4, <2>1
<1>7. CASE status' = [status EXCEPT ![p] = "ended"] /\ stack' = Below
  BY <1>1, <1>3, <1>4, <1>5, <1>6, <1>7, MoveKeeps
<1>8. CASE /\ host[p] # NoHost /\ p \notin background
           /\ status' = [status EXCEPT ![p] = "ended", ![host[p]] = "running"]
           /\ stack' = <<Run(host[p])>> \o Below
  <2>1. PICK h \in Pids : h = host[p] /\ h # p
    <3>1. host[p] \in Pids /\ host[p] < p
      BY <1>2, <1>4, <1>8 DEF HostsInv, NoHost, Pids
    <3> QED BY <1>4, <3>1 DEF Pids
  <2>2. Foreground(p)
    BY <1>4, <1>5, <1>8, LiveIs DEF Foreground
  <2>3. status[h] = "joined"
    BY <1>2, <1>4, <2>1, <2>2 DEF HostsInv
  <2>4. \A x \in Pids : status'[x] = IF x = h THEN "running"
                                     ELSE IF x = p THEN "ended" ELSE status[x]
    BY <1>2, <1>8, <2>1
  <2>5. HostsInv'
    <3>1. \A x \in Pids : Foreground(x)' => (Foreground(x) /\ x # p)
      BY <1>1, <1>5, <2>3, <2>4, LiveIs DEF Foreground
    <3>2. \A x \in Pids : Foreground(x)' => (host[x] # h /\ host[x] # p)
      <4> SUFFICES ASSUME NEW x \in Pids, Foreground(x)'
                   PROVE  host[x] # h /\ host[x] # p
        OBVIOUS
      <4>1. Foreground(x) /\ x # p
        BY <3>1
      <4>2. status[host[x]] = "joined"
        BY <1>2, <4>1 DEF HostsInv
      <4> QED BY <1>2, <1>4, <1>5, <2>1, <2>2, <4>1, <4>2 DEF HostsInv
    <3>3. \A x \in Pids : status'[x] = "none" <=> status[x] = "none"
      BY <1>5, <2>3, <2>4
    <3>4. Shell \in Pids /\ \A x \in Pids : host[x] # NoHost => host[x] \in Pids
      BY <1>2, BoundsAssumption DEF Shell, Pids, NoHost
    <3>5. \A x \in Pids : Foreground(x)' => status'[host[x]] = "joined"
      <4> SUFFICES ASSUME NEW x \in Pids, Foreground(x)'
                   PROVE  status'[host[x]] = "joined"
        OBVIOUS
      <4>1. Foreground(x) /\ host[x] # h /\ host[x] # p /\ host[x] \in Pids
        BY <3>1, <3>2, <3>4 DEF Foreground
      <4>2. status[host[x]] = "joined"
        BY <1>2, <4>1 DEF HostsInv
      <4> QED BY <2>4, <4>1, <4>2
    <3>6. \A x, y \in Pids : (Foreground(x)' /\ Foreground(y)' /\ host[x] = host[y]) => x = y
      BY <1>2, <3>1 DEF HostsInv
    <3>7. \A x \in Pids :
            /\ host[x] < x
            /\ host[x] = NoHost <=> (x = Shell \/ status'[x] = "none")
            /\ host[x] # NoHost => status'[host[x]] # "none"
            /\ status'[x] = "none" => x \notin background
                                     /\ \A y \in Pids : y > x => status'[y] = "none"
      BY <1>2, <3>3, <3>4 DEF HostsInv
    <3>8. status'[Shell] # "none"
      BY <1>2, <3>3, <3>4 DEF HostsInv
    <3>9. host' = host /\ background' = background
      BY <1>1
    <3> QED BY <3>5, <3>6, <3>7, <3>8, <3>9 DEF HostsInv
  <2>6. SuspendedInv'
    <3>1. \A x \in Pids : status'[x] \in {"waiting", "reading"}
                            <=> status[x] \in {"waiting", "reading"}
      BY <1>5, <2>3, <2>4
    <3> QED BY <1>1, <1>2, <3>1, SuspendedKept
  <2>7. StackInv' /\ stack' \in Seq(Frames(Len(races)))
    <3> DEFINE st == [status EXCEPT ![p] = "ended"]
    <3>1. /\ st \in [Pids -> Statuses] /\ st[h] = "joined"
          /\ status' = [st EXCEPT ![h] = "running"]
      BY <1>2, <1>8, <2>1, <2>3 DEF Statuses
    <3>2. Run(h) \in Frames(Len(races))
      BY <1>2, FramesAre
    <3>3. Fits(st, Below)
      BY <1>5
    <3> HIDE DEF st
    <3>4. Fits([st EXCEPT ![h] = "running"], <<Run(h)>> \o Below)
      BY <1>3, <3>1, <3>2, <3>3, RunTop
    <3>5. <<Run(h)>> \o Below \in Seq(Frames(Len(races)))
      BY <1>3, <3>2, OnTop
    <3> QED BY <1>8, <2>1, <3>1, <3>4, <3>5 DEF StackInv
  <2>8. ProcTypes'
    <3>1. status' \in [Pids -> Statuses]
      BY <1>2, <1>8, <2>1 DEF Statuses
    <3> QED BY <1>1, <1>6, <2>7, <3>1, TypesAre DEF ProcTypes
  <2>9. PathsInv'
    BY <1>1, <1>2 DEF PathsInv
  <2> QED BY <2>5, <2>6, <2>7, <2>8, <2>9 DEF ProcInv
<1> QED BY <1>1, <1>7, <1>8

LEMMA ProcStep == ProcInv /\ [Next]_vars => ProcInv'
<1> SUFFICES ASSUME ProcInv, [Next]_vars PROVE ProcInv'
  OBVIOUS
<1>1. ASSUME NEW p \in Pids, Program(p) PROVE ProcInv'
  <2>1. ASSUME NEW q \in Pids, Kill(p, q) PROVE ProcInv'
    BY <2>1, KillKeeps DEF Kill
  <2> QED BY <1>1, <2>1, WaitKeeps, ReadParksKeeps, ReadQueuedKeeps, EndKeeps,
             AstrayKeeps, ExecKeeps, ExecBackgroundKeeps DEF Program
<1>2. CASE StartLate
  <2>1. On("late") /\ stack' = Below
        /\ UNCHANGED <<status, races, host, background, timers, parked, interrupted>>
    BY <1>2 DEF StartLate
  <2>2. Head(stack).p \in Pids
    BY <2>1, OnIs, FrameIs, TypesAre
  <2>3. \/ UNCHANGED signals
        \/ \E p \in Pids : signals' = [signals EXCEPT ![p] = Append(@, Loose)]
    BY <1>2, <2>2 DEF StartLate
  <2> QED BY <2>1, <2>3, PopKeeps
<1>3. CASE SignalReturn
  <2>1. On("signal") /\ stack' = Below
        /\ UNCHANGED <<status, races, host, background, signals, timers, parked, interrupted>>
    BY <1>3 DEF SignalReturn
  <2> QED BY <2>1, PopKeeps
<1>4. CASE PushReturn
  <2>1. On("push") /\ stack' = Below
        /\ UNCHANGED <<status, races, host, background, signals, timers, parked, interrupted>>
    BY <1>4 DEF PushReturn
  <2> QED BY <2>1, PopKeeps
<1>5. ASSUME NEW q \in Pids, KillFromElsewhere(q) PROVE ProcInv'
  <2>1. stack = <<>> /\ stack' = <<Signalling(q, signals[q])>>
    BY <1>5 DEF KillFromElsewhere, Idle
  <2>2. stack' = <<Signalling(q, signals[q])>> \o stack
    BY <2>1
  <2> QED BY <1>5, <2>2, KillKeeps DEF KillFromElsewhere
<1>6. CASE UNCHANGED vars
  BY <1>6, QuietKeeps, TypesAre DEF vars
<1> QED BY <1>1, <1>2, <1>3, <1>4, <1>5, <1>6, SignalCallKeeps, ExitKeeps,
           PushCallKeeps, TypeKeeps, FireKeeps DEF Next, Turn

----------------------------------------------------------------------------
(* What follows *)

LEMMA ResumedFollows == ProcInv => ResumedOnce
<1> SUFFICES ASSUME ProcInv, NEW p \in Pids
    PROVE LET own == {r \in DOMAIN races : Open(r) /\ races[r].path = <<r>> /\ races[r].proc = p}
              frames == {i \in DOMAIN stack : stack[i] = Run(p)}
          IN /\ status[p] \in {"waiting", "reading"} <=> own # {}
             /\ \A r, s \in own : r = s
             /\ status[p] = "running" <=> frames # {}
             /\ \A i, j \in frames : i = j
  BY DEF ResumedOnce
<1> DEFINE own == {r \in DOMAIN races : Open(r) /\ races[r].path = <<r>> /\ races[r].proc = p}
           frames == {i \in DOMAIN stack : stack[i] = Run(p)}
<1>1. ProcTypes /\ PathsInv /\ SuspendedInv /\ Fits(status, stack)
  BY TypesAre DEF ProcInv
<1>2. ASSUME NEW r \in 1 .. Len(races)
      PROVE  races[r].path = <<r>> <=> Len(races[r].path) = 1
  <2>1. races[r].path \in Seq(Nat) /\ races[r].path[1] = r
    BY <1>1, RaceIs DEF PathsInv
  <2>2. Len(races[r].path) = 1 => races[r].path = <<races[r].path[1]>>
    BY <2>1
  <2>3. Len(<<r>>) = 1
    OBVIOUS
  <2> QED BY <2>1, <2>2, <2>3
<1>3. DOMAIN races = 1 .. Len(races)
  BY TypesAre
<1>4. \A r : r \in own <=> Own(p, r)
  BY <1>2, <1>3 DEF Own
<1>5. \A i : i \in frames <=> (i \in DOMAIN stack /\ stack[i] = Run(p))
  OBVIOUS
<1> HIDE DEF own, frames
<1>6. status[p] \in {"waiting", "reading"} <=> own # {}
  <2>1. status[p] \in {"waiting", "reading"} <=> \E r \in 1 .. Len(races) : Own(p, r)
    BY <1>1 DEF SuspendedInv
  <2>2. \A r : Own(p, r) => r \in 1 .. Len(races)
    BY DEF Own
  <2> QED BY <1>4, <2>1, <2>2
<1>7. \A r, s \in own : r = s
  <2>1. \A r, s \in 1 .. Len(races) : (Own(p, r) /\ Own(p, s)) => r = s
    BY <1>1 DEF SuspendedInv
  <2>2. \A r : Own(p, r) => r \in 1 .. Len(races)
    BY DEF Own
  <2> QED BY <1>4, <2>1, <2>2
<1>8. (status[p] = "running" <=> frames # {}) /\ \A i, j \in frames : i = j
  <2>1. (status[p] = "running" <=> Occurs(stack, Run(p))) /\ Single(stack, Run(p))
    BY <1>1 DEF Fits
  <2> QED BY <1>5, <2>1 DEF Occurs, Single
<1> QED BY <1>6, <1>7, <1>8 DEF own, frames

\* A process is resumed once for each time it suspends, however its timer, its
\* line, the signals of every process of its chain and the end of those it
\* waits for interleave (when_any, Proc::wait, Proc::read, Proc::signal).
THEOREM ProcessesResumedOnce == Spec => []ResumedOnce
BY ProcInit, ProcStep, ResumedFollows, PTL DEF Spec

\* The smallest live process whose chain has an ended host and nobody in the
\* background would be in front of its host, which would then await it.
LEMMA HostsFollow == ProcInv => HostsOutlive
<1> SUFFICES ASSUME ProcInv PROVE HostsOutlive
  OBVIOUS
<1> DEFINE Safe(p) == HostsLive(p) \/ ToSet(Chain(p)) \cap background # {}
           Bad == {p \in Pids : p \in Live /\ ~Safe(p)}
<1>1. Live \subseteq Pids
  BY DEF Live, Created
<1> SUFFICES ASSUME Bad # {} PROVE FALSE
  BY <1>1 DEF HostsOutlive
<1>2. PICK p \in Bad : \A q \in Bad : p <= q
  <2>1. Bad \subseteq Nat
    BY DEF Pids
  <2> HIDE DEF Bad
  <2> QED BY <2>1, LeastExists
<1>3. p \in Pids /\ p \in Live /\ ~HostsLive(p) /\ ToSet(Chain(p)) \cap background = {}
  BY <1>2
<1>4. CASE host[p] = NoHost
  <2>1. Chain(p) = <<p>>
    BY <1>3, <1>4, ChainsAre
  <2>2. Tail(<<p>>) = <<>>
    OBVIOUS
  <2>3. ToSet(<<>>) = {}
    BY DEF ToSet
  <2> QED BY <1>3, <2>1, <2>2, <2>3 DEF HostsLive
<1>5. CASE host[p] # NoHost
  <2>1. PICK h \in Pids : h = host[p] /\ h < p
    <3>1. host[p] \in 0 .. MaxPid /\ host[p] # 0 /\ MaxPid \in Nat
      BY <1>3, <1>5, TypesAre, BoundsAssumption DEF NoHost
    <3>2. host[p] \in Pids
      BY <3>1 DEF Pids
    <3>3. host[p] < p
      BY <1>3 DEF ProcInv, HostsInv
    <3> QED BY <3>2, <3>3
  <2>2. PICK c : c = Chain(h)
    OBVIOUS
  <2>3. c \in Seq(Pids) /\ Len(c) >= 1 /\ c[1] = h /\ Chain(p) = <<p>> \o c
    BY <1>3, <1>5, <2>1, <2>2, ChainsAre DEF ChainOf
  <2>4. /\ ToSet(Chain(p)) = {p} \cup ToSet(c) /\ Tail(Chain(p)) = c
        /\ ToSet(c) = {h} \cup ToSet(Tail(c))
    <3>1. /\ Len(<<p>> \o c) = Len(c) + 1 /\ (<<p>> \o c)[1] = p
          /\ \A i \in 1 .. Len(c) : (<<p>> \o c)[i + 1] = c[i]
          /\ Tail(<<p>> \o c) = c
      BY <1>3, <2>3
    <3>2. /\ Len(Tail(c)) = Len(c) - 1 /\ Tail(c) \in Seq(Pids)
          /\ \A i \in 1 .. Len(c) - 1 : Tail(c)[i] = c[i + 1]
      BY <2>3
    <3> DEFINE d == <<p>> \o c
    <3>3. DOMAIN d = 1 .. Len(c) + 1 /\ DOMAIN c = 1 .. Len(c)
          /\ DOMAIN Tail(c) = 1 .. Len(c) - 1 /\ Len(c) \in Nat
      BY <1>3, <2>3, <3>2
    <3>4. \A i \in 1 .. Len(c) + 1 : i = 1 \/ \E j \in 1 .. Len(c) : i = j + 1
      <4> SUFFICES ASSUME NEW i \in 1 .. Len(c) + 1, i # 1
                   PROVE  \E j \in 1 .. Len(c) : i = j + 1
        OBVIOUS
      <4>1. i - 1 \in 1 .. Len(c) /\ i = (i - 1) + 1
        BY <3>3
      <4> QED BY <4>1
    <3>5. \A i \in 1 .. Len(c) : i = 1 \/ \E j \in 1 .. Len(c) - 1 : i = j + 1
      <4> SUFFICES ASSUME NEW i \in 1 .. Len(c), i # 1
                   PROVE  \E j \in 1 .. Len(c) - 1 : i = j + 1
        OBVIOUS
      <4>1. i - 1 \in 1 .. Len(c) - 1 /\ i = (i - 1) + 1
        BY <3>3
      <4> QED BY <4>1
    <3>6. d[1] = p /\ \A j \in 1 .. Len(c) : d[j + 1] = c[j] /\ j + 1 \in 1 .. Len(c) + 1
      BY <3>1, <3>3
    <3>7. 1 \in 1 .. Len(c) + 1 /\ 1 \in 1 .. Len(c)
      BY <2>3, <3>3
    <3>8. \A j \in 1 .. Len(c) - 1 : j + 1 \in 1 .. Len(c)
      BY <3>3
    <3> HIDE DEF d
    <3>a. \A x : x \in ToSet(d) <=> \E i \in 1 .. Len(c) + 1 : d[i] = x
      BY <3>3 DEF ToSet
    <3>b. \A x : x \in ToSet(c) <=> \E i \in 1 .. Len(c) : c[i] = x
      BY <3>3 DEF ToSet
    <3>c. \A x : x \in ToSet(Tail(c)) <=> \E i \in 1 .. Len(c) - 1 : Tail(c)[i] = x
      BY <3>3 DEF ToSet
    <3>9. ToSet(d) = {p} \cup ToSet(c)
      <4>1. \A x : x \in ToSet(d) <=> (x = p \/ x \in ToSet(c))
        BY <3>a, <3>b, <3>4, <3>6, <3>7
      <4> QED BY <4>1
    <3>10. ToSet(c) = {h} \cup ToSet(Tail(c))
      <4>1. c[1] = h
        BY <2>3
      <4>2. \A x : x \in ToSet(Tail(c)) <=> \E j \in 1 .. Len(c) - 1 : c[j + 1] = x
        BY <3>c, <3>2
      <4>3. \A x : x \in ToSet(c) => (x = h \/ x \in ToSet(Tail(c)))
        BY <3>b, <3>5, <4>1, <4>2
      <4>4. \A x : (x = h \/ x \in ToSet(Tail(c))) => x \in ToSet(c)
        BY <3>b, <3>7, <3>8, <4>1, <4>2
      <4> QED BY <4>3, <4>4
    <3> QED BY <2>3, <3>1, <3>9, <3>10 DEF d
  <2>5. p \notin background /\ ToSet(c) \cap background = {}
    BY <1>3, <2>4
  <2>6. Foreground(p)
    BY <1>3, <1>5, <2>5 DEF Foreground
  <2>7. status[h] = "joined"
    BY <1>3, <2>1, <2>6 DEF ProcInv, HostsInv
  <2>8. h \in Live
    BY <2>7, LiveIs
  <2>9. Safe(h)
    BY <1>2, <1>3, <2>1, <2>8 DEF Pids
  <2>10. HostsLive(h)
    BY <2>2, <2>5, <2>9
  <2>11. \A q \in ToSet(Tail(c)) : status[q] # "ended"
    BY <2>2, <2>10 DEF HostsLive
  <2>12. \A q \in ToSet(c) : status[q] # "ended"
    BY <2>4, <2>7, <2>11
  <2>13. HostsLive(p)
    BY <2>4, <2>12 DEF HostsLive
  <2> QED BY <1>3, <2>13
<1> QED BY <1>4, <1>5

\* Whatever is killed and whatever ends, a process in front of its host writes
\* and reads through hosts that are there: they await it (OS::run_process, exec).
THEOREM HostsOutliveTheirs == Spec => []HostsOutlive
BY ProcInit, ProcStep, HostsFollow, PTL DEF Spec

----------------------------------------------------------------------------
(* An open race is kept by everything it raced *)

Todo(s, kind, r) == \E f : Occurs(s, f) /\ f.k = kind /\ r \in ToSet(f.todo)
Within(s, r) == Len(races[s].path) >= 2 /\ races[s].path[2] = r

Kept(r) ==
  /\ Signalled(r) \/ status[races[r].proc] = "ended"
  /\ races[r].kind = "wait" => r \in timers
  /\ (races[r].kind = "read" /\ races[r].proc = Shell) =>
       (r \in ToSet(parked) \/ InTodo("push", r))
  /\ (races[r].kind = "read" /\ races[r].proc # Shell) =>
       \E s \in 1 .. Len(races) : Open(s) /\ Within(s, r)

KeptInv == \A r \in 1 .. Len(races) : Open(r) => Kept(r)

LEMMA TodoIs ==
  /\ \A kind, r : InTodo(kind, r) <=> Todo(stack, kind, r)
  /\ \A kind, r : InTodo(kind, r)' <=> Todo(stack', kind, r)
BY DEF InTodo, Todo, Occurs, ToSet

LEMMA TodoTop ==
  ASSUME NEW S, NEW s \in Seq(S), NEW g \in S
  PROVE  \A kind, r : Todo(<<g>> \o s, kind, r) <=>
                        ((g.k = kind /\ r \in ToSet(g.todo)) \/ Todo(s, kind, r))
<1>1. \A f : Occurs(<<g>> \o s, f) <=> (f = g \/ Occurs(s, f))
  BY OnTop
<1> QED BY <1>1 DEF Todo

LEMMA Appended ==
  ASSUME NEW S, NEW s \in Seq(S), NEW e \in S
  PROVE  \A x : x \in ToSet(Append(s, e)) <=> (x \in ToSet(s) \/ x = e)
<1>1. /\ DOMAIN Append(s, e) = 1 .. Len(s) + 1 /\ DOMAIN s = 1 .. Len(s)
      /\ Len(s) \in Nat /\ Append(s, e)[Len(s) + 1] = e
      /\ \A i \in 1 .. Len(s) : Append(s, e)[i] = s[i]
  OBVIOUS
<1>2. \A i \in 1 .. Len(s) + 1 : i \in 1 .. Len(s) \/ i = Len(s) + 1
  BY <1>1
<1>3. Len(s) + 1 \in 1 .. Len(s) + 1 /\ \A i \in 1 .. Len(s) : i \in 1 .. Len(s) + 1
  BY <1>1
<1> QED BY <1>1, <1>2, <1>3 DEF ToSet

LEMMA Joined ==
  ASSUME NEW S, NEW s \in Seq(S), NEW t \in Seq(S)
  PROVE  \A x : x \in ToSet(s \o t) <=> (x \in ToSet(s) \/ x \in ToSet(t))
<1>1. /\ DOMAIN (s \o t) = 1 .. Len(s) + Len(t) /\ DOMAIN s = 1 .. Len(s)
      /\ DOMAIN t = 1 .. Len(t) /\ Len(s) \in Nat /\ Len(t) \in Nat
  OBVIOUS
<1>2. /\ \A i \in 1 .. Len(s) : (s \o t)[i] = s[i] /\ i \in 1 .. Len(s) + Len(t)
      /\ \A i \in 1 .. Len(t) : /\ (s \o t)[Len(s) + i] = t[i]
                                /\ Len(s) + i \in 1 .. Len(s) + Len(t)
  BY Concat, <1>1
<1>3. \A i \in 1 .. Len(s) + Len(t) : i \in 1 .. Len(s) \/ \E j \in 1 .. Len(t) : i = Len(s) + j
  <2> SUFFICES ASSUME NEW i \in 1 .. Len(s) + Len(t), i \notin 1 .. Len(s)
               PROVE  \E j \in 1 .. Len(t) : i = Len(s) + j
    OBVIOUS
  <2>1. i - Len(s) \in 1 .. Len(t) /\ i = Len(s) + (i - Len(s))
    BY <1>1
  <2> QED BY <2>1
<1> DEFINE u == s \o t
<1>4. \A x : x \in ToSet(u) <=> \E i \in 1 .. Len(s) + Len(t) : u[i] = x
  BY <1>1 DEF ToSet
<1>5. \A x : x \in ToSet(s) <=> \E i \in 1 .. Len(s) : s[i] = x
  BY <1>1 DEF ToSet
<1>6. \A x : x \in ToSet(t) <=> \E i \in 1 .. Len(t) : t[i] = x
  BY <1>1 DEF ToSet
<1>7. /\ \A i \in 1 .. Len(s) : u[i] = s[i] /\ i \in 1 .. Len(s) + Len(t)
      /\ \A i \in 1 .. Len(t) : /\ u[Len(s) + i] = t[i]
                                /\ Len(s) + i \in 1 .. Len(s) + Len(t)
  BY <1>2
<1> HIDE DEF u
<1>8. ASSUME NEW x \in ToSet(u) PROVE x \in ToSet(s) \/ x \in ToSet(t)
  <2>1. PICK i \in 1 .. Len(s) + Len(t) : u[i] = x
    BY <1>4
  <2>2. CASE i \in 1 .. Len(s)
    BY <1>5, <1>7, <2>1, <2>2
  <2>3. ASSUME NEW j \in 1 .. Len(t), i = Len(s) + j PROVE x \in ToSet(t)
    BY <1>6, <1>7, <2>1, <2>3
  <2> QED BY <1>3, <2>2, <2>3
<1>9. \A x : (x \in ToSet(s) \/ x \in ToSet(t)) => x \in ToSet(u)
  BY <1>4, <1>5, <1>6, <1>7
<1> QED BY <1>8, <1>9 DEF u

LEMMA HeadOrTail ==
  ASSUME NEW S, NEW s \in Seq(S), s # <<>>
  PROVE  \A x : x \in ToSet(s) <=> (x = Head(s) \/ x \in ToSet(Tail(s)))
<1>1. /\ Head(s) \in S /\ Tail(s) \in Seq(S) /\ s = <<Head(s)>> \o Tail(s)
  BY TopIs
<1>2. <<Head(s)>> \in Seq(S) /\ \A x : x \in ToSet(<<Head(s)>>) <=> x = Head(s)
  BY <1>1 DEF ToSet
<1>3. \A x : x \in ToSet(<<Head(s)>> \o Tail(s)) <=>
               (x \in ToSet(<<Head(s)>>) \/ x \in ToSet(Tail(s)))
  BY <1>1, <1>2, Joined
<1> QED BY <1>1, <1>2, <1>3

\* What a step must not do to an open race x that stays open.
Fields == /\ Len(races') \in Nat /\ Len(races) <= Len(races')
          /\ \A y \in 1 .. Len(races) : /\ races'[y].proc = races[y].proc
                                        /\ races'[y].kind = races[y].kind
                                        /\ races'[y].path = races[y].path

Told(sigs, s, x) == x \in ToSet(sigs[races[x].proc]) \/ Todo(s, "signal", x)
Queued(fns, s, x) == x \in ToSet(fns) \/ Todo(s, "push", x)

Persists(x) ==
  /\ Told(signals, stack, x) =>
       (Told(signals', stack', x) \/ status'[races[x].proc] = "ended")
  /\ status[races[x].proc] = "ended" => status'[races[x].proc] = "ended"
  /\ x \in timers => x \in timers'
  /\ Queued(parked, stack, x) => Queued(parked', stack', x)
  /\ \A s \in 1 .. Len(races) : (Open(s) /\ Within(s, x)) => Open(s)'

LEMMA Stays ==
  ASSUME ProcTypes, KeptInv, Fields, NEW x \in 1 .. Len(races), Open(x), Persists(x)
  PROVE  Kept(x)'
<1>1. Kept(x)
  BY DEF KeptInv
<1>2. races'[x].proc = races[x].proc /\ races'[x].kind = races[x].kind
  BY DEF Fields
<1>3. Signalled(x) <=> Told(signals, stack, x)
  BY TodoIs DEF Signalled, Told
<1>4. Signalled(x)' <=> (x \in ToSet(signals'[races'[x].proc]) \/ InTodo("signal", x)')
  BY DEF Signalled
<1>5. InTodo("signal", x)' <=> Todo(stack', "signal", x)
  BY TodoIs
<1>6. Signalled(x)' <=> Told(signals', stack', x)
  BY <1>2, <1>4, <1>5 DEF Told
<1>7. /\ Queued(parked, stack, x) <=> (x \in ToSet(parked) \/ InTodo("push", x))
      /\ Queued(parked', stack', x) <=> (x \in ToSet(parked') \/ InTodo("push", x)')
  BY TodoIs DEF Queued
<1>8. \A s \in 1 .. Len(races) : Within(s, x) => (Within(s, x)' /\ s \in 1 .. Len(races'))
  <2>1. Len(races) \in Nat
    BY DEF ProcTypes
  <2> QED BY <2>1 DEF Within, Fields
<1>9. (\E s \in 1 .. Len(races) : Open(s) /\ Within(s, x)) =>
        (\E s \in 1 .. Len(races') : Open(s)' /\ Within(s, x)')
  BY <1>8 DEF Persists
<1> QED BY <1>1, <1>2, <1>3, <1>6, <1>7, <1>9 DEF Kept, Persists

\* Steps that open and complete no race.
LEMMA QuietStays ==
  ASSUME ProcTypes, KeptInv, races' = races, timers' = timers,
         \A x \in 1 .. Len(races) :
           /\ Told(signals, stack, x) =>
                (Told(signals', stack', x) \/ status'[races[x].proc] = "ended")
           /\ Queued(parked, stack, x) => Queued(parked', stack', x),
         \A p \in Pids : status[p] = "ended" => status'[p] = "ended"
  PROVE  KeptInv'
<1>1. Fields
  BY DEF ProcTypes, Fields
<1>2. \A x : Open(x)' <=> Open(x)
  BY DEF Open
<1>3. ASSUME NEW x \in 1 .. Len(races) PROVE Persists(x)
  <2>1. races[x].proc \in Pids
    BY RaceIs
  <2> QED BY <1>2, <2>1 DEF Persists
<1>4. \A x \in 1 .. Len(races) : Open(x) => Kept(x)'
  BY <1>1, <1>3, Stays
<1> QED BY <1>2, <1>4 DEF KeptInv

LEMMA PlainTodo ==
  ASSUME NEW S, NEW s \in Seq(S), NEW g \in S, g.k \notin {"signal", "push"}
  PROVE  \A x : /\ Todo(<<g>> \o s, "signal", x) <=> Todo(s, "signal", x)
                /\ Todo(<<g>> \o s, "push", x) <=> Todo(s, "push", x)
BY TodoTop

LEMMA RunsTodo ==
  ASSUME ProcInv, NEW p \in Pids, Runs(p)
  PROVE  \A x : /\ Todo(stack, "signal", x) <=> Todo(Below, "signal", x)
                /\ Todo(stack, "push", x) <=> Todo(Below, "push", x)
<1>1. /\ stack = <<Run(p)>> \o Below /\ Below \in Seq(Frames(Len(races)))
      /\ Run(p) \in Frames(Len(races))
  BY RunsIs
<1>2. PICK s : s = Below
  OBVIOUS
<1>3. Run(p).k \notin {"signal", "push"}
  BY FrameKinds
<1>4. \A x : /\ Todo(<<Run(p)>> \o s, "signal", x) <=> Todo(s, "signal", x)
             /\ Todo(<<Run(p)>> \o s, "push", x) <=> Todo(s, "push", x)
  BY <1>1, <1>2, <1>3, PlainTodo
<1> QED BY <1>1, <1>2, <1>4

\* A signal is sent: who was registered for it is about to be called.
LEMMA SentTells ==
  ASSUME ProcInv, NEW q \in Pids, NEW s \in Seq(Frames(Len(races))),
         \A x : /\ Todo(stack, "signal", x) => Todo(s, "signal", x)
                /\ Todo(stack, "push", x) => Todo(s, "push", x),
         signals' = [signals EXCEPT ![q] = <<>>], parked' = parked,
         stack' = <<Signalling(q, signals[q])>> \o s
  PROVE  \A x \in 1 .. Len(races) :
           /\ Told(signals, stack, x) => Told(signals', stack', x)
           /\ Queued(parked, stack, x) => Queued(parked', stack', x)
<1>1. /\ signals \in [Pids -> Seq(0 .. Len(races))] /\ Len(races) \in Nat
      /\ interrupted \in BOOLEAN /\ ProcTypes
  BY TypesAre
<1>2. PICK g : g = Signalling(q, signals[q])
  OBVIOUS
<1>3. g \in Frames(Len(races)) /\ g.k = "signal" /\ g.todo = signals[q]
  <2>1. signals[q] \in Seq(0 .. Len(races))
    BY <1>1
  <2>2. g \in Frames(Len(races))
    BY <1>1, <1>2, <2>1, FramesAre
  <2> QED BY <1>2, <2>2, FrameKinds
<1>4. \A x : /\ Todo(<<g>> \o s, "signal", x) <=> (x \in ToSet(signals[q]) \/ Todo(s, "signal", x))
             /\ Todo(<<g>> \o s, "push", x) <=> Todo(s, "push", x)
  <2>1. \A kind, r : Todo(<<g>> \o s, kind, r) <=>
                        ((g.k = kind /\ r \in ToSet(g.todo)) \/ Todo(s, kind, r))
    BY <1>3, TodoTop
  <2> QED BY <1>3, <2>1
<1>5. stack' = <<g>> \o s
  BY <1>2
<1>6. \A p \in Pids : p # q => signals'[p] = signals[p]
  BY <1>1
<1>7. \A x \in 1 .. Len(races) : races[x].proc \in Pids
  BY <1>1, RaceIs
<1> QED BY <1>4, <1>5, <1>6, <1>7 DEF Told, Queued

\* Steps that add callbacks to those of a process, and neither call nor drop any.
LEMMA PlainStays ==
  ASSUME ProcTypes, KeptInv, races' = races, timers' = timers, parked' = parked,
         \A x : /\ Todo(stack, "signal", x) => Todo(stack', "signal", x)
                /\ Todo(stack, "push", x) => Todo(stack', "push", x),
         \A p \in Pids : /\ \A x : x \in ToSet(signals[p]) =>
                              (x \in ToSet(signals'[p]) \/ status'[p] = "ended")
                         /\ status[p] = "ended" => status'[p] = "ended"
  PROVE  KeptInv'
<1>1. \A x \in 1 .. Len(races) : races[x].proc \in Pids
  BY RaceIs
<1>2. \A x \in 1 .. Len(races) :
           /\ Told(signals, stack, x) =>
                (Told(signals', stack', x) \/ status'[races[x].proc] = "ended")
           /\ Queued(parked, stack, x) => Queued(parked', stack', x)
  BY <1>1 DEF Told, Queued
<1> QED BY <1>2, QuietStays

LEMMA ReadQueuedStays ==
  ASSUME ProcInv, KeptInv, NEW p \in Pids, ReadQueued(p)
  PROVE  KeptInv'
<1>1. /\ Runs(p) /\ UNCHANGED <<status, races, timers, parked>>
      /\ signals' = [q \in Pids |-> IF q \in ToSet(Tail(Chain(p)))
                                      THEN Append(signals[q], Loose) ELSE signals[q]]
      /\ stack' = <<Run(p), Late(p)>> \o Below
  BY DEF ReadQueued
<1>2. /\ ProcTypes /\ Len(races) \in Nat /\ Below \in Seq(Frames(Len(races)))
      /\ Run(p) \in Frames(Len(races)) /\ Late(p) \in Frames(Len(races))
      /\ signals \in [Pids -> Seq(0 .. Len(races))]
  BY <1>1, RunsIs, TypesAre, FramesAre
<1> DEFINE s == <<Late(p)>> \o Below
<1>3. s \in Seq(Frames(Len(races))) /\ stack' = <<Run(p)>> \o s
  BY <1>1, <1>2
<1>4. \A x : /\ Todo(s, "signal", x) <=> Todo(Below, "signal", x)
             /\ Todo(s, "push", x) <=> Todo(Below, "push", x)
  <2>1. PICK b : b = Below
    OBVIOUS
  <2>2. Late(p).k \notin {"signal", "push"}
    BY FrameKinds
  <2>3. \A x : /\ Todo(<<Late(p)>> \o b, "signal", x) <=> Todo(b, "signal", x)
               /\ Todo(<<Late(p)>> \o b, "push", x) <=> Todo(b, "push", x)
    BY <1>2, <2>1, <2>2, PlainTodo
  <2> QED BY <2>1, <2>3
<1> HIDE DEF s
<1>5. \A x : /\ Todo(stack', "signal", x) <=> Todo(s, "signal", x)
             /\ Todo(stack', "push", x) <=> Todo(s, "push", x)
  <2>1. Run(p).k \notin {"signal", "push"}
    BY FrameKinds
  <2>2. \A x : /\ Todo(<<Run(p)>> \o s, "signal", x) <=> Todo(s, "signal", x)
               /\ Todo(<<Run(p)>> \o s, "push", x) <=> Todo(s, "push", x)
    BY <1>2, <1>3, <2>1, PlainTodo
  <2> QED BY <1>3, <2>2
<1>6. \A x : /\ Todo(stack, "signal", x) => Todo(stack', "signal", x)
             /\ Todo(stack, "push", x) => Todo(stack', "push", x)
  BY <1>1, <1>4, <1>5, RunsTodo
<1>7. ASSUME NEW q \in Pids, NEW x \in ToSet(signals[q]) PROVE x \in ToSet(signals'[q])
  <2>1. x \in ToSet(Append(signals[q], Loose))
    <3>1. signals[q] \in Seq(0 .. Len(races)) /\ Loose \in 0 .. Len(races)
      BY <1>2 DEF Loose
    <3> QED BY <3>1, Appended
  <2> QED BY <1>1, <2>1
<1> QED BY <1>1, <1>2, <1>6, <1>7, PlainStays

LEMMA ExecStays ==
  ASSUME ProcInv, KeptInv, NEW p \in Pids, NEW q \in Pids,
         Exec(p, q) \/ ExecBackground(p, q)
  PROVE  KeptInv'
<1>1. PICK s : /\ Runs(p) /\ stack' = <<Run(q)>> \o s /\ (s = Below \/ s = stack)
               /\ UNCHANGED <<races, signals, timers, parked>> /\ status[q] = "none"
               /\ \/ status' = [status EXCEPT ![p] = "joined", ![q] = "running"]
                  \/ status' = [status EXCEPT ![q] = "running"]
  BY DEF Exec, ExecBackground, Born
<1>2. /\ ProcTypes /\ Len(races) \in Nat /\ status[p] = "running"
      /\ s \in Seq(Frames(Len(races))) /\ Run(q) \in Frames(Len(races))
      /\ status \in [Pids -> Statuses]
  BY <1>1, RunsIs, TypesAre, FramesAre
<1>3. Run(q).k \notin {"signal", "push"}
  BY FrameKinds
<1>4. \A x : /\ Todo(<<Run(q)>> \o s, "signal", x) <=> Todo(s, "signal", x)
             /\ Todo(<<Run(q)>> \o s, "push", x) <=> Todo(s, "push", x)
  BY <1>2, <1>3, PlainTodo
<1>5. \A x : /\ Todo(stack, "signal", x) => Todo(stack', "signal", x)
             /\ Todo(stack, "push", x) => Todo(stack', "push", x)
  BY <1>1, <1>4, RunsTodo
<1>6. \A x \in Pids : status[x] = "ended" => status'[x] = "ended"
  BY <1>1, <1>2
<1> QED BY <1>1, <1>2, <1>5, <1>6, PlainStays

LEMMA AstrayStays ==
  ASSUME ProcInv, KeptInv, NEW p \in Pids, Astray(p)
  PROVE  KeptInv'
<1>1. /\ Runs(p) /\ status' = [status EXCEPT ![p] = "astray"] /\ stack' = Below
      /\ UNCHANGED <<races, signals, timers, parked>>
  BY DEF Astray
<1>2. ProcTypes /\ status[p] = "running" /\ status \in [Pids -> Statuses]
  BY <1>1, RunsIs, TypesAre
<1>3. \A x : /\ Todo(stack, "signal", x) => Todo(stack', "signal", x)
             /\ Todo(stack, "push", x) => Todo(stack', "push", x)
  BY <1>1, RunsTodo
<1>4. \A x \in Pids : status[x] = "ended" => status'[x] = "ended"
  BY <1>1, <1>2
<1> QED BY <1>1, <1>2, <1>3, <1>4, PlainStays

LEMMA KillStays ==
  ASSUME ProcInv, KeptInv, NEW q \in Pids, UNCHANGED <<status, races, timers, parked>>,
         signals' = [signals EXCEPT ![q] = <<>>],
         stack' = <<Signalling(q, signals[q])>> \o stack
  PROVE  KeptInv'
<1>1. ProcTypes /\ stack \in Seq(Frames(Len(races)))
  BY TypesAre
<1>2. PICK s \in Seq(Frames(Len(races))) : s = stack
  BY <1>1
<1>3. \A x : /\ Todo(stack, "signal", x) => Todo(s, "signal", x)
             /\ Todo(stack, "push", x) => Todo(s, "push", x)
  BY <1>2
<1>4. stack' = <<Signalling(q, signals[q])>> \o s
  BY <1>2
<1>5. \A x \in 1 .. Len(races) :
           /\ Told(signals, stack, x) => Told(signals', stack', x)
           /\ Queued(parked, stack, x) => Queued(parked', stack', x)
  BY <1>3, <1>4, SentTells
<1> QED BY <1>1, <1>5, QuietStays

LEMMA EndStays ==
  ASSUME ProcInv, KeptInv, NEW p \in Pids, End(p)
  PROVE  KeptInv'
<1>1. /\ Runs(p) /\ status' = [status EXCEPT ![p] = "ending"]
      /\ signals' = [signals EXCEPT ![p] = <<>>]
      /\ stack' = <<Signalling(p, signals[p]), Exiting(p)>> \o Below
      /\ UNCHANGED <<races, timers, parked>>
  BY DEF End
<1>2. /\ ProcTypes /\ Len(races) \in Nat /\ status[p] = "running"
      /\ Below \in Seq(Frames(Len(races))) /\ Exiting(p) \in Frames(Len(races))
      /\ status \in [Pids -> Statuses]
  BY <1>1, RunsIs, TypesAre, FramesAre
<1> DEFINE s == <<Exiting(p)>> \o Below
<1>3. s \in Seq(Frames(Len(races))) /\ stack' = <<Signalling(p, signals[p])>> \o s
  BY <1>1, <1>2
<1>4. \A x : /\ Todo(s, "signal", x) <=> Todo(Below, "signal", x)
             /\ Todo(s, "push", x) <=> Todo(Below, "push", x)
  <2>1. PICK b : b = Below
    OBVIOUS
  <2>2. Exiting(p).k \notin {"signal", "push"}
    BY FrameKinds
  <2>3. \A x : /\ Todo(<<Exiting(p)>> \o b, "signal", x) <=> Todo(b, "signal", x)
               /\ Todo(<<Exiting(p)>> \o b, "push", x) <=> Todo(b, "push", x)
    BY <1>2, <2>1, <2>2, PlainTodo
  <2> QED BY <2>1, <2>3
<1> HIDE DEF s
<1>5. \A x : /\ Todo(stack, "signal", x) => Todo(s, "signal", x)
             /\ Todo(stack, "push", x) => Todo(s, "push", x)
  BY <1>1, <1>4, RunsTodo
<1>6. \A x \in 1 .. Len(races) :
           /\ Told(signals, stack, x) => Told(signals', stack', x)
           /\ Queued(parked, stack, x) => Queued(parked', stack', x)
  BY <1>1, <1>3, <1>5, SentTells
<1>7. \A q \in Pids : status[q] = "ended" => status'[q] = "ended"
  BY <1>1, <1>2
<1> QED BY <1>1, <1>2, <1>6, <1>7, QuietStays

\* A frame with nothing left to call goes.
LEMMA PopStays ==
  ASSUME ProcInv, KeptInv, stack # <<>>, stack' = Below,
         Head(stack).k \in {"signal", "push"} => Head(stack).todo = <<>>,
         UNCHANGED <<status, races, timers, parked>>,
         \A p \in Pids : \A x : x \in ToSet(signals[p]) => x \in ToSet(signals'[p])
  PROVE  KeptInv'
<1>1. /\ ProcTypes /\ Below \in Seq(Frames(Len(races)))
      /\ Head(stack) \in Frames(Len(races)) /\ stack = <<Head(stack)>> \o Below
  BY TypesAre, StackIs
<1>2. PICK g \in Frames(Len(races)), s \in Seq(Frames(Len(races))) :
        g = Head(stack) /\ s = Below /\ stack = <<g>> \o s
  BY <1>1
<1>3. \A kind, r : Todo(<<g>> \o s, kind, r) <=>
                      ((g.k = kind /\ r \in ToSet(g.todo)) \/ Todo(s, kind, r))
  BY TodoTop
<1>4. \A x : x \notin ToSet(<<>>)
  BY DEF ToSet
<1>5. \A x : /\ Todo(<<g>> \o s, "signal", x) => Todo(s, "signal", x)
             /\ Todo(<<g>> \o s, "push", x) => Todo(s, "push", x)
  BY <1>2, <1>3, <1>4
<1>6. \A x : /\ Todo(stack, "signal", x) => Todo(stack', "signal", x)
             /\ Todo(stack, "push", x) => Todo(stack', "push", x)
  BY <1>2, <1>5
<1> QED BY <1>1, <1>6, PlainStays

LEMMA StartLateStays ==
  ASSUME ProcInv, KeptInv, StartLate
  PROVE  KeptInv'
<1>1. /\ On("late") /\ stack' = Below /\ UNCHANGED <<status, races, timers, parked>>
  BY DEF StartLate
<1>2. Head(stack).p \in Pids /\ stack # <<>> /\ Head(stack).k = "late"
  BY <1>1, OnIs, FrameIs, TypesAre DEF On
<1>3. PICK p \in Pids : p = Head(stack).p
  BY <1>2
<1>4. \/ signals' = signals
      \/ signals' = [signals EXCEPT ![p] = Append(@, Loose)]
  BY <1>3 DEF StartLate
<1>5. ASSUME NEW q \in Pids, NEW x \in ToSet(signals[q]) PROVE x \in ToSet(signals'[q])
  <2>1. /\ signals \in [Pids -> Seq(0 .. Len(races))] /\ Loose \in 0 .. Len(races)
    BY TypesAre DEF Loose
  <2>2. x \in ToSet(Append(signals[q], Loose))
    BY <2>1, Appended
  <2>3. CASE q = p
    BY <1>4, <2>1, <2>2, <2>3
  <2>4. CASE q # p
    BY <1>4, <2>1, <2>4
  <2> QED BY <2>3, <2>4
<1> QED BY <1>1, <1>2, <1>5, PopStays

LEMMA ReturnStays ==
  ASSUME ProcInv, KeptInv, SignalReturn \/ PushReturn
  PROVE  KeptInv'
<1>1. /\ stack # <<>> /\ Head(stack).todo = <<>> /\ stack' = Below
      /\ UNCHANGED <<status, races, timers, parked, signals>>
  BY DEF SignalReturn, PushReturn, On
<1> QED BY <1>1, PopStays

LEMMA ExitStays ==
  ASSUME ProcInv, KeptInv, Exit
  PROVE  KeptInv'
<1>0. PICK p : p = Head(stack).p
  OBVIOUS
<1>1. /\ On("exit") /\ signals' = [signals EXCEPT ![p] = <<>>]
      /\ UNCHANGED <<host, background, races, timers, parked>>
      /\ \/ status' = [status EXCEPT ![p] = "ended"] /\ stack' = Below
         \/ /\ host[p] # NoHost /\ p \notin background
            /\ status' = [status EXCEPT ![p] = "ended", ![host[p]] = "running"]
            /\ stack' = <<Run(host[p])>> \o Below
  BY <1>0 DEF Exit
<1>2. /\ ProcTypes /\ HostsInv /\ status \in [Pids -> Statuses] /\ Len(races) \in Nat
      /\ signals \in [Pids -> Seq(0 .. Len(races))] /\ Fits(status, stack)
      /\ host \in [Pids -> 0 .. MaxPid] /\ interrupted \in BOOLEAN
  BY TypesAre DEF ProcInv
<1>3. /\ Below \in Seq(Frames(Len(races))) /\ Head(stack) \in Frames(Len(races))
      /\ stack = <<Head(stack)>> \o Below /\ Head(stack).k = "exit"
  BY <1>1, <1>2, StackIs DEF On
<1>4. p \in Pids /\ Head(stack) = Exiting(p)
  BY <1>0, <1>2, <1>3, FrameIs
<1>5. status[p] = "ending"
  <2>1. PICK s \in Seq(Frames(Len(races))) : s = Below
    BY <1>3
  <2>2. Exiting(p) \in Frames(Len(races)) /\ Fits(status, <<Exiting(p)>> \o s)
    BY <1>2, <1>3, <1>4, <2>1
  <2> QED BY <1>2, <1>4, <2>2, ExitPop
<1>6. \A x : /\ Todo(stack, "signal", x) <=> Todo(Below, "signal", x)
             /\ Todo(stack, "push", x) <=> Todo(Below, "push", x)
  <2>1. PICK s \in Seq(Frames(Len(races))) : s = Below
    BY <1>3
  <2>2. Exiting(p) \in Frames(Len(races)) /\ Exiting(p).k \notin {"signal", "push"}
    BY <1>3, <1>4, FrameKinds
  <2>3. \A x : /\ Todo(<<Exiting(p)>> \o s, "signal", x) <=> Todo(s, "signal", x)
               /\ Todo(<<Exiting(p)>> \o s, "push", x) <=> Todo(s, "push", x)
    BY <2>2, PlainTodo
  <2>4. stack = <<Exiting(p)>> \o s
    BY <1>3, <1>4, <2>1
  <2> QED BY <2>1, <2>3, <2>4
<1>7. CASE status' = [status EXCEPT ![p] = "ended"] /\ stack' = Below
  <2>1. \A q \in Pids : /\ \A x : x \in ToSet(signals[q]) =>
                               (x \in ToSet(signals'[q]) \/ status'[q] = "ended")
                        /\ status[q] = "ended" => status'[q] = "ended"
    BY <1>1, <1>2, <1>4, <1>7
  <2> QED BY <1>1, <1>2, <1>6, <1>7, <2>1, PlainStays
<1>8. CASE /\ host[p] # NoHost /\ p \notin background
           /\ status' = [status EXCEPT ![p] = "ended", ![host[p]] = "running"]
           /\ stack' = <<Run(host[p])>> \o Below
  <2>1. PICK h \in Pids : h = host[p] /\ h # p
    <3>1. host[p] \in Pids /\ host[p] < p
      BY <1>2, <1>4, <1>8 DEF HostsInv, NoHost, Pids
    <3> QED BY <1>4, <3>1 DEF Pids
  <2>2. status[h] = "joined"
    BY <1>2, <1>4, <1>5, <1>8, <2>1, LiveIs DEF Foreground, HostsInv
  <2>3. \A q \in Pids : /\ \A x : x \in ToSet(signals[q]) =>
                               (x \in ToSet(signals'[q]) \/ status'[q] = "ended")
                        /\ status[q] = "ended" => status'[q] = "ended"
    BY <1>1, <1>2, <1>4, <1>8, <2>1, <2>2
  <2>4. PICK s \in Seq(Frames(Len(races))) : s = Below
    BY <1>3
  <2>5. Run(h) \in Frames(Len(races)) /\ Run(h).k \notin {"signal", "push"}
    BY <1>2, FramesAre, FrameKinds
  <2>6. \A x : /\ Todo(<<Run(h)>> \o s, "signal", x) <=> Todo(s, "signal", x)
               /\ Todo(<<Run(h)>> \o s, "push", x) <=> Todo(s, "push", x)
    BY <2>5, PlainTodo
  <2>7. stack' = <<Run(h)>> \o s
    BY <1>8, <2>1, <2>4
  <2>8. \A x : /\ Todo(stack, "signal", x) => Todo(stack', "signal", x)
               /\ Todo(stack, "push", x) => Todo(stack', "push", x)
    BY <1>6, <2>4, <2>6, <2>7
  <2> QED BY <1>1, <1>2, <2>3, <2>8, PlainStays
<1> QED BY <1>1, <1>7, <1>8

LEMMA TypeStays ==
  ASSUME ProcInv, KeptInv, Type
  PROVE  KeptInv'
<1>1. /\ UNCHANGED <<status, races, signals, timers>> /\ stack = <<>>
      /\ \/ UNCHANGED <<stack, parked>>
         \/ stack' = <<Pushing(parked)>> /\ parked' = <<>>
  BY DEF Type, Idle
<1>2. ProcTypes /\ parked \in Seq(1 .. Len(races))
  BY TypesAre
<1>3. CASE UNCHANGED <<stack, parked>>
  BY <1>1, <1>2, <1>3, QuietStays
<1>4. CASE stack' = <<Pushing(parked)>> /\ parked' = <<>>
  <2>1. PICK g : g = Pushing(parked)
    OBVIOUS
  <2>2. g.k = "push" /\ g.todo = parked
    BY <2>1, FrameKinds
  <2>3. stack' = <<g>>
    BY <1>4, <2>1
  <2>4. Occurs(stack', g) /\ \A f : ~Occurs(stack, f)
    BY <1>1, <2>3 DEF Occurs
  <2>5. \A x : x \in ToSet(parked) => Todo(stack', "push", x)
    BY <2>2, <2>4 DEF Todo
  <2>6. \A kind, x : ~Todo(stack, kind, x)
    BY <2>4 DEF Todo
  <2>7. \A x \in 1 .. Len(races) :
           /\ Told(signals, stack, x) => Told(signals', stack', x)
           /\ Queued(parked, stack, x) => Queued(parked', stack', x)
    BY <1>1, <2>5, <2>6 DEF Told, Queued
  <2> QED BY <1>1, <1>2, <2>7, QuietStays
<1> QED BY <1>1, <1>3, <1>4

\* The race around one that settles is open only if it settles too.
LEMMA SettlesOn ==
  ASSUME ProcTypes, PathsInv, NEW r \in 1 .. Len(races), NEW s \in Settles(r),
         NEW x \in 1 .. Len(races), Within(s, x), Open(x)
  PROVE  x \in Settles(r)
<1> DEFINE path == races[r].path
<1>1. /\ path \in Seq(Nat) /\ Len(path) \in Nat /\ Len(path) >= 1
      /\ DOMAIN path = 1 .. Len(path)
      /\ \A i \in 1 .. Len(path) : /\ path[i] \in 1 .. Len(races)
                                   /\ GoesOn(path, races[path[i]].path, i)
  BY RaceIs DEF PathsInv
<1>2. \A y : y \in Settles(r) <=>
        \E i \in 1 .. Len(path) : path[i] = y /\ \A k \in 1 .. i : Open(path[k])
  BY <1>1 DEF Settles
<1>3. PICK i \in 1 .. Len(path) : path[i] = s /\ \A k \in 1 .. i : Open(path[k])
  BY <1>2
<1> HIDE DEF path
<1>4. /\ Len(races[s].path) = Len(path) + 1 - i
      /\ \A k \in 1 .. Len(races[s].path) : races[s].path[k] = path[k + i - 1]
  BY <1>1, <1>3 DEF GoesOn
<1>5. i + 1 \in 1 .. Len(path) /\ 2 \in 1 .. Len(races[s].path) /\ 2 + i - 1 = i + 1
  BY <1>1, <1>4 DEF Within
<1>6. path[i + 1] = x
  BY <1>4, <1>5 DEF Within
<1>7. \A k \in 1 .. i + 1 : k \in 1 .. i \/ k = i + 1
  BY <1>1
<1>8. \A k \in 1 .. i + 1 : Open(path[k])
  BY <1>3, <1>6, <1>7
<1> QED BY <1>2, <1>5, <1>6, <1>8

LEMMA CompleteStays ==
  ASSUME ProcInv, KeptInv, NEW r \in 1 .. Len(races), NEW res, NEW rest,
         rest \in Seq(Frames(Len(races))), Complete(r, res, rest),
         UNCHANGED <<signals, parked>>,
         \A x \in 1 .. Len(races) : x # r =>
           /\ x \in timers => x \in timers'
           /\ Todo(stack, "signal", x) => Todo(rest, "signal", x)
           /\ Todo(stack, "push", x) => Todo(rest, "push", x)
  PROVE  KeptInv'
<1>1. /\ ProcTypes /\ PathsInv /\ SuspendedInv /\ Len(races) \in Nat
      /\ status \in [Pids -> Statuses] /\ interrupted \in BOOLEAN
  BY TypesAre DEF ProcInv
<1>2. /\ SameRaces /\ Waiter(r) \in Pids
      /\ \A x \in 1 .. Len(races) : Open(x)' <=> (Open(x) /\ x \notin Settles(r))
      /\ Reaches(r) => /\ Own(Waiter(r), Root(r))
                       /\ status' = [status EXCEPT ![Waiter(r)] = "running"]
                       /\ stack' = <<Run(Waiter(r))>> \o rest
      /\ ~Reaches(r) => stack' = rest /\ status' = status
  BY <1>1, CompleteDoes
<1>3. Fields
  BY <1>1, <1>2 DEF SameRaces, Fields
<1>4. \A x : /\ Todo(rest, "signal", x) => Todo(stack', "signal", x)
             /\ Todo(rest, "push", x) => Todo(stack', "push", x)
  <2>1. PICK w \in Pids : w = Waiter(r)
    BY <1>2
  <2>2. Run(w) \in Frames(Len(races)) /\ Run(w).k \notin {"signal", "push"}
    BY <1>1, FramesAre, FrameKinds
  <2>3. \A x : /\ Todo(<<Run(w)>> \o rest, "signal", x) <=> Todo(rest, "signal", x)
               /\ Todo(<<Run(w)>> \o rest, "push", x) <=> Todo(rest, "push", x)
    BY <2>2, PlainTodo
  <2> QED BY <1>2, <2>1, <2>3
<1>5. \A p \in Pids : status[p] = "ended" => status'[p] = "ended"
  <2>1. CASE Reaches(r)
    <3>1. PICK w \in Pids : w = Waiter(r)
      BY <1>2
    <3>2. Own(w, Root(r)) /\ Root(r) \in 1 .. Len(races)
      BY <1>2, <2>1, <3>1 DEF Own
    <3>3. status[w] \in {"waiting", "reading"}
      BY <1>1, <3>2 DEF SuspendedInv
    <3> QED BY <1>1, <1>2, <2>1, <3>1, <3>3
  <2>2. CASE ~Reaches(r)
    BY <1>2, <2>2
  <2> QED BY <2>1, <2>2
<1>6. ASSUME NEW x \in 1 .. Len(races), Open(x)' PROVE Open(x) /\ Persists(x)
  <2>1. Open(x) /\ x \notin Settles(r)
    BY <1>2, <1>6
  <2>2. x # r
    BY <1>1, <2>1, SettlesIs
  <2>3. races[x].proc \in Pids
    BY <1>1, RaceIs
  <2>4. /\ Told(signals, stack, x) => Told(signals', stack', x)
        /\ Queued(parked, stack, x) => Queued(parked', stack', x)
        /\ x \in timers => x \in timers'
    BY <1>4, <2>2 DEF Told, Queued
  <2>5. ASSUME NEW s \in 1 .. Len(races), Open(s), Within(s, x) PROVE Open(s)'
    <3>1. s \notin Settles(r)
      BY <1>1, <2>1, <2>5, SettlesOn
    <3> QED BY <1>2, <2>5, <3>1
  <2> QED BY <1>5, <2>1, <2>3, <2>4, <2>5 DEF Persists
<1>7. \A x \in 1 .. Len(races) : Open(x)' => Kept(x)'
  BY <1>1, <1>3, <1>6, Stays
<1>8. Len(races') = Len(races)
  BY <1>2 DEF SameRaces
<1> QED BY <1>7, <1>8 DEF KeptInv

LEMMA SignalCallStays ==
  ASSUME ProcInv, KeptInv, SignalCall \/ SignalLoose
  PROVE  KeptInv'
<1> DEFINE fns == Head(stack).todo
           p == Head(stack).p
           g == Signalling(p, Tail(fns))
           rest == <<g>> \o Below
<1>1. /\ On("signal") /\ fns # <<>> /\ UNCHANGED <<signals, timers, parked>>
  BY DEF SignalCall, SignalLoose
<1>2. /\ Below \in Seq(Frames(Len(races))) /\ Head(stack) \in Frames(Len(races))
      /\ Head(stack).k = "signal" /\ stack = <<Head(stack)>> \o Below
  BY <1>1, OnIs
<1>3. /\ p \in Pids /\ fns \in Seq(0 .. Len(races)) /\ Len(races) \in Nat
      /\ interrupted \in BOOLEAN /\ ProcTypes /\ DOMAIN races = 1 .. Len(races)
  BY <1>2, FrameIs, TypesAre
<1>4. /\ Head(fns) \in 0 .. Len(races) /\ Tail(fns) \in Seq(0 .. Len(races))
      /\ \A x : x \in ToSet(fns) <=> (x = Head(fns) \/ x \in ToSet(Tail(fns)))
  <2> HIDE DEF fns
  <2> QED BY <1>1, <1>3, TopIs, HeadOrTail
<1>5. g \in Frames(Len(races)) /\ g.k = "signal" /\ g.todo = Tail(fns)
  BY <1>3, <1>4, FramesAre, FrameKinds
<1>6. rest \in Seq(Frames(Len(races)))
      /\ \A x : x # Head(fns) =>
           /\ Todo(stack, "signal", x) => Todo(rest, "signal", x)
           /\ Todo(stack, "push", x) => Todo(rest, "push", x)
  <2>1. PICK s \in Seq(Frames(Len(races))), old \in Frames(Len(races)),
             new \in Frames(Len(races)) :
          s = Below /\ old = Head(stack) /\ new = g
    BY <1>2, <1>5
  <2>2. /\ \A kind, r : Todo(<<old>> \o s, kind, r) <=>
                           ((old.k = kind /\ r \in ToSet(old.todo)) \/ Todo(s, kind, r))
        /\ \A kind, r : Todo(<<new>> \o s, kind, r) <=>
                           ((new.k = kind /\ r \in ToSet(new.todo)) \/ Todo(s, kind, r))
    BY TodoTop
  <2>3. stack = <<old>> \o s /\ rest = <<new>> \o s /\ old.k = "signal" /\ new.k = "signal"
        /\ old.todo = fns /\ new.todo = Tail(fns)
    BY <1>2, <1>5, <2>1
  <2>4. rest \in Seq(Frames(Len(races)))
    BY <2>3, OnTop
  <2> HIDE DEF fns, p, g, rest
  <2> QED BY <1>4, <2>2, <2>3, <2>4
<1>7. CASE SignalCall
  <2>1. Complete(Head(fns), "eintr", rest) /\ Head(fns) # Loose
    BY <1>7 DEF SignalCall
  <2>2. Head(fns) \in 1 .. Len(races)
    BY <1>3, <1>4, <2>1 DEF Loose
  <2> HIDE DEF fns, p, g, rest
  <2> QED BY <1>1, <1>6, <2>1, <2>2, CompleteStays
<1>8. CASE SignalLoose
  <2>0. \A x \in 1 .. Len(races) : x # Head(fns)
    BY <1>3, <1>8 DEF SignalLoose, Loose
  <2>1. CASE stack' = rest /\ UNCHANGED <<status, result, races, interrupted>>
    <3>1. \A x \in 1 .. Len(races) :
           /\ Told(signals, stack, x) => Told(signals', stack', x)
           /\ Queued(parked, stack, x) => Queued(parked', stack', x)
      <4> HIDE DEF fns, p, g, rest
      <4> QED BY <1>1, <1>6, <2>0, <2>1 DEF Told, Queued
    <3> HIDE DEF fns, p, g, rest
    <3> QED BY <1>1, <1>3, <2>1, <3>1, QuietStays
  <2>2. ASSUME NEW r \in DOMAIN races, Complete(r, "eintr", rest)
        PROVE  KeptInv'
    <3>1. r \in 1 .. Len(races)
      BY <1>3
    <3> HIDE DEF fns, p, g, rest
    <3> QED BY <1>1, <1>6, <2>0, <2>2, <3>1, CompleteStays
  <2> QED BY <1>8, <2>1, <2>2 DEF SignalLoose
<1> QED BY <1>7, <1>8

LEMMA FireStays ==
  ASSUME ProcInv, KeptInv, NEW r, Fire(r)
  PROVE  KeptInv'
<1>1. /\ r \in timers /\ Complete(r, "ok", <<>>) /\ stack = <<>>
      /\ timers' = timers \ {r} /\ UNCHANGED <<signals, parked>>
  BY DEF Fire, Idle
<1>2. r \in 1 .. Len(races) /\ stack \in Seq(Frames(Len(races)))
  BY <1>1, TypesAre
<1>3. PICK rest \in Seq(Frames(Len(races))) : rest = <<>> /\ stack = rest
  BY <1>1, <1>2
<1>4. \A x \in 1 .. Len(races) : x # r =>
           /\ x \in timers => x \in timers'
           /\ Todo(stack, "signal", x) => Todo(rest, "signal", x)
           /\ Todo(stack, "push", x) => Todo(rest, "push", x)
  BY <1>1, <1>3
<1>5. Complete(r, "ok", rest)
  BY <1>1, <1>3
<1> QED BY <1>1, <1>2, <1>4, <1>5, CompleteStays

\* A line is given to the next reader that was parked for it.
LEMMA PushCallDoes ==
  ASSUME ProcInv, PushCall
  PROVE  \E new \in Frames(Len(races)) : \E r \in 1 .. Len(races) :
           /\ new.k = "push" /\ new.todo = Tail(Head(stack).todo)
           /\ new.taken <=> (Head(stack).taken \/ Reaches(r))
           /\ new.spoilt = Head(stack).spoilt
           /\ r = Head(Head(stack).todo)
           /\ Complete(r, "line", <<new>> \o Below)
<1> DEFINE top == Head(stack)
           r == Head(top.todo)
           new == [top EXCEPT !.todo = Tail(@), !.taken = @ \/ Reaches(r)]
<1>1. On("push") /\ top.todo # <<>> /\ Complete(r, "line", <<new>> \o Below)
  BY DEF PushCall
<1>2. top \in Frames(Len(races)) /\ top.k = "push" /\ Len(races) \in Nat
  BY <1>1, OnIs, TypesAre
<1>3. top.todo \in Seq(1 .. Len(races)) /\ top.taken \in BOOLEAN
  BY <1>2, FrameIs
<1>4. r \in 1 .. Len(races) /\ Tail(top.todo) \in Seq(1 .. Len(races))
  <2> HIDE DEF top
  <2> QED BY <1>1, <1>3, TopIs
<1>5. /\ new \in Frames(Len(races)) /\ new.k = "push" /\ new.todo = Tail(top.todo)
      /\ new.taken <=> (top.taken \/ Reaches(r))
      /\ new.spoilt = top.spoilt
  <2> DEFINE R == Reaches(r)
             fns == Tail(top.todo)
             v == top.taken \/ R
  <2>1. new = [top EXCEPT !.todo = fns, !.taken = v]
    OBVIOUS
  <2>2. v \in BOOLEAN /\ fns \in Seq(1 .. Len(races)) /\ (v <=> (top.taken \/ R))
    BY <1>4
  <2>3. top \in [k : {"push"}, todo : Seq(1 .. Len(races)), taken : BOOLEAN, spoilt : BOOLEAN]
    BY <1>2 DEF Frames
  <2> HIDE DEF v, fns, top, new
  <2>4. /\ new \in [k : {"push"}, todo : Seq(1 .. Len(races)), taken : BOOLEAN, spoilt : BOOLEAN]
        /\ new.k = "push" /\ new.todo = fns /\ new.taken = v /\ new.spoilt = top.spoilt
    BY <2>1, <2>2, <2>3
  <2>5. new.taken <=> (top.taken \/ Reaches(r))
    BY <2>2, <2>4
  <2> QED BY <2>4, <2>5 DEF Frames, fns
<1> HIDE DEF new
<1>6. PICK f \in Frames(Len(races)) : f = new
  BY <1>5
<1>7. PICK x \in 1 .. Len(races) : x = r
  BY <1>4
<1> QED BY <1>1, <1>5, <1>6, <1>7

LEMMA PushCallStays ==
  ASSUME ProcInv, KeptInv, PushCall
  PROVE  KeptInv'
<1>1. PICK new \in Frames(Len(races)), r \in 1 .. Len(races) :
        /\ new.k = "push" /\ new.todo = Tail(Head(stack).todo)
        /\ r = Head(Head(stack).todo)
        /\ Complete(r, "line", <<new>> \o Below)
  BY PushCallDoes
<1>2. On("push") /\ Head(stack).todo # <<>> /\ UNCHANGED <<signals, timers, parked>>
  BY DEF PushCall
<1>3. PICK s \in Seq(Frames(Len(races))), old \in Frames(Len(races)) :
        s = Below /\ old = Head(stack) /\ stack = <<old>> \o s /\ old.k = "push"
  BY <1>2, OnIs
<1>4. /\ \A kind, x : Todo(<<old>> \o s, kind, x) <=>
                        ((old.k = kind /\ x \in ToSet(old.todo)) \/ Todo(s, kind, x))
      /\ \A kind, x : Todo(<<new>> \o s, kind, x) <=>
                        ((new.k = kind /\ x \in ToSet(new.todo)) \/ Todo(s, kind, x))
      /\ <<new>> \o s \in Seq(Frames(Len(races)))
  BY TodoTop, OnTop
<1>5. \A x : x \in ToSet(old.todo) => (x = r \/ x \in ToSet(new.todo))
  <2>1. PICK fns : fns = old.todo
    OBVIOUS
  <2>2. fns \in Seq(1 .. Len(races)) /\ fns # <<>>
    BY <1>2, <1>3, <2>1, FrameIs, TypesAre
  <2>3. \A x : x \in ToSet(fns) <=> (x = Head(fns) \/ x \in ToSet(Tail(fns)))
    BY <2>2, HeadOrTail
  <2> QED BY <1>1, <1>3, <2>1, <2>3
<1>6. PICK rest \in Seq(Frames(Len(races))) : rest = <<new>> \o s
  BY <1>4
<1>7. \A x \in 1 .. Len(races) : x # r =>
           /\ x \in timers => x \in timers'
           /\ Todo(stack, "signal", x) => Todo(rest, "signal", x)
           /\ Todo(stack, "push", x) => Todo(rest, "push", x)
  BY <1>1, <1>2, <1>3, <1>4, <1>5, <1>6
<1>8. Complete(r, "line", rest)
  BY <1>1, <1>3, <1>6
<1> QED BY <1>2, <1>7, <1>8, CompleteStays

\* Steps that open races: what is new has to be kept too.
LEMMA OpenedStays ==
  ASSUME ProcInv, KeptInv, NEW p \in Pids, Runs(p), stack' = Below,
         NEW c, NEW kind, Opened(c, kind),
         timers \subseteq timers',
         \A x : x \in ToSet(parked) => x \in ToSet(parked'),
         \A q \in Pids : \A x : x \in ToSet(signals[q]) => x \in ToSet(signals'[q]),
         \A q \in Pids : status[q] = "ended" => status'[q] = "ended",
         \A x \in 1 .. Len(races') : x \notin 1 .. Len(races) => Kept(x)'
  PROVE  KeptInv'
<1>1. /\ ProcTypes /\ Len(races) \in Nat /\ Len(c) \in Nat
      /\ Len(races') = Len(races) + Len(c)
      /\ \A x \in 1 .. Len(races) : races'[x] = races[x]
  BY TypesAre DEF Opened
<1>2. Fields /\ \A x \in 1 .. Len(races) : Open(x)' <=> Open(x)
  BY <1>1 DEF Fields, Open
<1>3. ASSUME NEW x \in 1 .. Len(races) PROVE Persists(x)
  <2>1. races[x].proc \in Pids
    BY <1>1, RaceIs
  <2>2. /\ Told(signals, stack, x) => Told(signals', stack', x)
        /\ Queued(parked, stack, x) => Queued(parked', stack', x)
    BY <2>1, RunsTodo DEF Told, Queued
  <2> QED BY <1>2, <2>1, <2>2 DEF Persists
<1>4. \A x \in 1 .. Len(races) : Open(x) => Kept(x)'
  BY <1>1, <1>2, <1>3, Stays
<1>5. ASSUME NEW x \in 1 .. Len(races'), Open(x)' PROVE Kept(x)'
  <2>1. CASE x \in 1 .. Len(races)
    BY <1>2, <1>4, <1>5, <2>1
  <2> QED BY <2>1
<1> QED BY <1>5 DEF KeptInv

LEMMA WaitStays ==
  ASSUME ProcInv, KeptInv, NEW p \in Pids, Wait(p)
  PROVE  KeptInv'
<1>1. /\ Runs(p) /\ status' = [status EXCEPT ![p] = "waiting"] /\ stack' = Below
      /\ timers' = timers \cup {Len(races) + 1}
      /\ signals' = [signals EXCEPT ![p] = Append(@, Len(races) + 1)]
      /\ UNCHANGED parked
  BY DEF Wait
<1>2. /\ ProcTypes /\ status \in [Pids -> Statuses] /\ Len(races) \in Nat
      /\ signals \in [Pids -> Seq(0 .. Len(races))] /\ status[p] = "running"
  BY <1>1, RunsIs, TypesAre
<1>3. Opened(<<p>>, "wait") /\ Len(<<p>>) = 1 /\ <<p>>[1] = p
  BY <1>2, WaitOpens
<1>4. \A q \in Pids : status[q] = "ended" => status'[q] = "ended"
  BY <1>1, <1>2
<1>5. /\ \A q \in Pids : \A x : x \in ToSet(signals[q]) => x \in ToSet(signals'[q])
      /\ Len(races) + 1 \in ToSet(signals'[p])
  <2>1. signals[p] \in Seq(0 .. Len(races) + 1) /\ Len(races) + 1 \in 0 .. Len(races) + 1
    <3>1. 0 .. Len(races) \subseteq 0 .. Len(races) + 1 /\ signals[p] \in Seq(0 .. Len(races))
      BY <1>2
    <3>2. Seq(0 .. Len(races)) \subseteq Seq(0 .. Len(races) + 1)
      BY <3>1, SeqGrows
    <3> QED BY <1>2, <3>1, <3>2
  <2>2. \A x : x \in ToSet(Append(signals[p], Len(races) + 1)) <=>
                 (x \in ToSet(signals[p]) \/ x = Len(races) + 1)
    BY <2>1, Appended
  <2> QED BY <1>1, <1>2, <2>2
<1>6. PICK c, kind : c = <<p>> /\ kind = "wait"
  OBVIOUS
<1>7. Opened(c, kind) /\ Len(c) = 1 /\ c[1] = p
  BY <1>3, <1>6
<1>8. PICK r : r = Len(races) + 1
  OBVIOUS
<1>9. Kept(r)' /\ \A x \in 1 .. Len(races') : x \notin 1 .. Len(races) => x = r
  <2>1. races'[r].proc = p /\ races'[r].kind = "wait" /\ Len(races') = Len(races) + 1
    BY <1>6, <1>7, <1>8 DEF Opened
  <2>2. Signalled(r)'
    BY <1>5, <1>8, <2>1 DEF Signalled
  <2>3. r \in timers'
    BY <1>1, <1>8
  <2> QED BY <1>2, <1>8, <2>1, <2>2, <2>3 DEF Kept
<1>10. timers \subseteq timers' /\ \A x : x \in ToSet(parked) => x \in ToSet(parked')
  BY <1>1
<1> QED BY <1>1, <1>4, <1>5, <1>7, <1>9, <1>10, OpenedStays

\* The last of a chain is the process with a reader.
LEMMA ShellEnds ==
  ASSUME ProcInv, NEW p \in Pids, status[p] # "none"
  PROVE  \A i \in 1 .. Len(Chain(p)) : Chain(p)[i] = Shell <=> i = Len(Chain(p))
<1>1. PICK c : c = Chain(p)
  OBVIOUS
<1>2. /\ c \in Seq(Pids) /\ Len(c) \in Nat /\ Len(c) >= 1 /\ c[1] = p
      /\ \A i \in 1 .. Len(c) - 1 : host[c[i]] = c[i + 1]
      /\ host[c[Len(c)]] = NoHost
  BY <1>1, ChainsAre DEF ChainOf
<1>3. /\ \A q \in Pids : host[q] = NoHost <=> (q = Shell \/ status[q] = "none")
      /\ \A q \in Pids : host[q] # NoHost => status[host[q]] # "none"
  BY DEF ProcInv, HostsInv
<1>4. \A i \in 1 .. Len(c) : c[i] \in Pids /\ c[i] # NoHost
  <2>1. \A i \in 1 .. Len(c) : c[i] \in Pids
    BY <1>2
  <2> QED BY <2>1 DEF Pids, NoHost
<1>5. ASSUME NEW i \in 1 .. Len(c) - 1 PROVE c[i] # Shell
  <2>1. c[i] \in Pids /\ host[c[i]] # NoHost
    <3>1. i \in 1 .. Len(c) /\ i + 1 \in 1 .. Len(c)
      BY <1>2
    <3> QED BY <1>2, <1>4, <3>1
  <2> QED BY <1>3, <2>1
<1>6. c[Len(c)] = Shell
  <2>1. status[c[Len(c)]] # "none"
    <3>1. CASE Len(c) = 1
      BY <1>2, <3>1
    <3>2. CASE Len(c) # 1
      <4>1. PICK i \in 1 .. Len(c) - 1 : i + 1 = Len(c)
        <5>1. PICK n \in Nat : n = Len(c) /\ n >= 1 /\ n # 1
          BY <1>2, <3>2
        <5>2. n - 1 \in 1 .. n - 1 /\ (n - 1) + 1 = n
          BY <5>1
        <5> QED BY <5>1, <5>2
      <4>2. host[c[i]] = c[Len(c)] /\ c[Len(c)] # NoHost /\ c[i] \in Pids
        <5>1. i \in 1 .. Len(c) /\ Len(c) \in 1 .. Len(c)
          BY <1>2
        <5> QED BY <1>2, <1>4, <4>1, <5>1
      <4> QED BY <1>3, <4>2
    <3> QED BY <3>1, <3>2
  <2>2. Len(c) \in 1 .. Len(c)
    BY <1>2
  <2> QED BY <1>2, <1>3, <1>4, <2>1, <2>2
<1>7. \A i \in 1 .. Len(c) : i = Len(c) \/ i \in 1 .. Len(c) - 1
  BY <1>2
<1>8. \A i \in 1 .. Len(c) : c[i] = Shell <=> i = Len(c)
  <2> SUFFICES ASSUME NEW i \in 1 .. Len(c), i # Len(c) PROVE c[i] # Shell
    BY <1>6
  <2> QED BY <1>5, <1>7
<1> QED BY <1>1, <1>8

LEMMA RegisteredHas ==
  ASSUME NEW n \in Nat, NEW c \in Seq(Pids), NEW i \in 1 .. Len(c),
         \A j, k \in 1 .. Len(c) : c[j] = c[k] => j = k
  PROVE  n + i \in ToSet(Registered(n, c, c[i]))
<1>1. DOMAIN c = 1 .. Len(c) /\ c[i] \in ToSet(c)
  BY DEF ToSet
<1>2. PICK k : k = CHOOSE j \in DOMAIN c : c[j] = c[i]
  OBVIOUS
<1>3. k = i
  BY <1>1, <1>2
<1>4. Registered(n, c, c[i]) = [x \in 1 .. 1 |-> n + k]
  BY <1>1, <1>2 DEF Registered
<1>5. /\ DOMAIN [x \in 1 .. 1 |-> n + k] = 1 .. 1 /\ [x \in 1 .. 1 |-> n + k][1] = n + i
      /\ 1 \in 1 .. 1
  BY <1>3
<1> QED BY <1>4, <1>5 DEF ToSet

LEMMA ReadParksStays ==
  ASSUME ProcInv, KeptInv, NEW p \in Pids, ReadParks(p)
  PROVE  KeptInv'
<1>0. PICK c, n, kind : c = Chain(p) /\ n = Len(races) /\ kind = "read"
  OBVIOUS
<1>1. /\ Runs(p) /\ status' = [status EXCEPT ![p] = "reading"] /\ stack' = Below
      /\ parked' = Append(parked, n + Len(c)) /\ timers' = timers
      /\ \A q \in Pids : signals'[q] = signals[q] \o Registered(n, c, q)
  <2>1. /\ Runs(p) /\ status' = [status EXCEPT ![p] = "reading"] /\ stack' = Below
        /\ parked' = Append(parked, n + Len(c)) /\ timers' = timers
        /\ signals' = [q \in Pids |->
             signals[q] \o [i \in 1 .. (IF q \in ToSet(c) THEN 1 ELSE 0) |->
                              n + (CHOOSE j \in DOMAIN c : c[j] = q)]]
    BY <1>0 DEF ReadParks
  <2>2. ASSUME NEW q \in Pids PROVE signals'[q] = signals[q] \o Registered(n, c, q)
    BY <2>1, Zenon DEF Registered
  <2> QED BY <2>1, <2>2
<1>2. /\ ProcTypes /\ status \in [Pids -> Statuses] /\ n \in Nat
      /\ signals \in [Pids -> Seq(0 .. n)] /\ status[p] = "running"
      /\ parked \in Seq(1 .. n)
  BY <1>0, <1>1, RunsIs, TypesAre
<1>3. Opened(c, kind)
  BY <1>0, ReadParksKeeps
<1>4. /\ c \in Seq(Pids) /\ Len(c) >= 1 /\ Len(c) \in Nat
      /\ \A i, j \in 1 .. Len(c) : i < j => c[j] < c[i]
      /\ \A i \in 1 .. Len(c) : c[i] = Shell <=> i = Len(c)
  <2>1. ChainOf(c, p)
    BY <1>0, ChainsAre
  <2>2. \A i \in 1 .. Len(c) : c[i] = Shell <=> i = Len(c)
    BY <1>0, <1>2, ShellEnds
  <2> QED BY <2>1, <2>2 DEF ChainOf
<1>5. \A q \in Pids : status[q] = "ended" => status'[q] = "ended"
  BY <1>1, <1>2
<1>6. \A q \in Pids : /\ signals[q] \in Seq(0 .. n + Len(c))
                      /\ Registered(n, c, q) \in Seq(0 .. n + Len(c))
  <2>1. 0 .. n \subseteq 0 .. n + Len(c) /\ 1 .. n + Len(c) \subseteq 0 .. n + Len(c)
    BY <1>2, <1>4
  <2>2. /\ Seq(0 .. n) \subseteq Seq(0 .. n + Len(c))
        /\ Seq(1 .. n + Len(c)) \subseteq Seq(0 .. n + Len(c))
    BY <2>1, SeqGrows
  <2> QED BY <1>2, <1>4, <2>2, RegisteredIs
<1>7. \A q \in Pids : \A x : x \in ToSet(signals'[q]) <=>
        (x \in ToSet(signals[q]) \/ x \in ToSet(Registered(n, c, q)))
  <2> SUFFICES ASSUME NEW q \in Pids
               PROVE  \A x : x \in ToSet(signals'[q]) <=>
                        (x \in ToSet(signals[q]) \/ x \in ToSet(Registered(n, c, q)))
    OBVIOUS
  <2>1. PICK s, t : s = signals[q] /\ t = Registered(n, c, q)
    OBVIOUS
  <2>2. s \in Seq(0 .. n + Len(c)) /\ t \in Seq(0 .. n + Len(c))
    BY <1>6, <2>1
  <2>3. \A x : x \in ToSet(s \o t) <=> (x \in ToSet(s) \/ x \in ToSet(t))
    BY <2>2, Joined
  <2> QED BY <1>1, <2>1, <2>3
<1>8. \A x : x \in ToSet(parked') <=> (x \in ToSet(parked) \/ x = n + Len(c))
  <2>1. PICK s : s = parked
    OBVIOUS
  <2>2. 1 .. n \subseteq 1 .. n + Len(c) /\ n + Len(c) \in 1 .. n + Len(c)
    BY <1>2, <1>4
  <2>3. s \in Seq(1 .. n + Len(c))
    BY <1>2, <2>1, <2>2, SeqGrows
  <2>4. \A x : x \in ToSet(Append(s, n + Len(c))) <=> (x \in ToSet(s) \/ x = n + Len(c))
    BY <2>2, <2>3, Appended
  <2> QED BY <1>1, <2>1, <2>4
<1>9. \A j, k \in 1 .. Len(c) : c[j] = c[k] => j = k
  <2> SUFFICES ASSUME NEW j \in 1 .. Len(c), NEW k \in 1 .. Len(c), c[j] = c[k], j # k
               PROVE  FALSE
    OBVIOUS
  <2>1. c[j] \in Nat
    <3>1. c[j] \in Pids
      BY <1>4
    <3> QED BY <3>1 DEF Pids
  <2>2. j < k \/ k < j
    BY <1>4
  <2>3. c[k] < c[j] \/ c[j] < c[k]
    BY <1>4, <2>2
  <2> QED BY <2>1, <2>3
<1>10. /\ Len(races') = n + Len(c)
       /\ \A i \in 1 .. Len(c) :
            /\ races'[n + i].proc = c[i] /\ races'[n + i].kind = "read"
            /\ races'[n + i].done = FALSE /\ Len(races'[n + i].path) = i
            /\ \A j \in 1 .. i : races'[n + i].path[j] = n + i + 1 - j
  BY <1>0, <1>3 DEF Opened
<1>11. ASSUME NEW i \in 1 .. Len(c), NEW x, x = n + i PROVE Kept(x)'
  <2>1. c[i] \in Pids
    BY <1>4
  <2>2. x \in ToSet(signals'[c[i]])
    <3>1. x \in ToSet(Registered(n, c, c[i]))
      BY <1>2, <1>4, <1>9, <1>11, RegisteredHas
    <3> QED BY <1>7, <2>1, <3>1
  <2>3. races'[x].proc = c[i] /\ races'[x].kind = "read"
    BY <1>10, <1>11
  <2>4. Signalled(x)'
    BY <2>2, <2>3 DEF Signalled
  <2>5. CASE c[i] = Shell
    <3>1. x \in ToSet(parked')
      BY <1>4, <1>8, <1>11, <2>5
    <3> QED BY <2>3, <2>4, <2>5, <3>1 DEF Kept
  <2>6. CASE c[i] # Shell
    <3>1. PICK k \in 1 .. Len(c) : k = i + 1
      <4>1. i # Len(c)
        BY <1>4, <2>6
      <4>2. i + 1 \in 1 .. Len(c)
        BY <1>4, <4>1
      <4> QED BY <4>2
    <3>2. PICK s : s = n + k
      OBVIOUS
    <3>3. races'[s].done = FALSE /\ Len(races'[s].path) = k /\ races'[s].path[2] = n + k + 1 - 2
      <4>1. 2 \in 1 .. k
        BY <3>1
      <4> QED BY <1>10, <3>2, <4>1
    <3>4. k >= 2 /\ n + k + 1 - 2 = x /\ s \in 1 .. n + Len(c)
      BY <1>2, <1>4, <1>11, <3>1, <3>2
    <3>5. Open(s)' /\ Within(s, x)' /\ s \in 1 .. Len(races')
      BY <1>10, <3>3, <3>4 DEF Open, Within
    <3> QED BY <2>3, <2>4, <2>6, <3>5 DEF Kept
  <2> QED BY <2>5, <2>6
<1>12. \A x \in 1 .. Len(races') : x \notin 1 .. Len(races) => Kept(x)'
  <2> SUFFICES ASSUME NEW x \in 1 .. Len(races'), x \notin 1 .. Len(races)
               PROVE  Kept(x)'
    OBVIOUS
  <2>1. x - n \in 1 .. Len(c) /\ x = n + (x - n)
    BY <1>0, <1>2, <1>4, <1>10
  <2> QED BY <1>11, <2>1
<1>13. timers \subseteq timers' /\ \A x : x \in ToSet(parked) => x \in ToSet(parked')
  BY <1>1, <1>8
<1>14. \A q \in Pids : \A x : x \in ToSet(signals[q]) => x \in ToSet(signals'[q])
  BY <1>7
<1> QED BY <1>1, <1>3, <1>5, <1>12, <1>13, <1>14, OpenedStays

LEMMA KeptInit == Init => KeptInv
<1> SUFFICES ASSUME Init PROVE KeptInv
  OBVIOUS
<1>1. Len(races) = 0
  BY DEF Init
<1> QED BY <1>1 DEF KeptInv

LEMMA KeptStep == ProcInv /\ KeptInv /\ [Next]_vars => KeptInv'
<1> SUFFICES ASSUME ProcInv, KeptInv, [Next]_vars PROVE KeptInv'
  OBVIOUS
<1>1. ASSUME NEW p \in Pids, Program(p) PROVE KeptInv'
  <2>1. ASSUME NEW q \in Pids, Kill(p, q) PROVE KeptInv'
    BY <2>1, KillStays DEF Kill
  <2> QED BY <1>1, <2>1, WaitStays, ReadParksStays, ReadQueuedStays, EndStays,
             AstrayStays, ExecStays DEF Program
<1>2. ASSUME NEW q \in Pids, KillFromElsewhere(q) PROVE KeptInv'
  <2>1. stack = <<>> /\ stack' = <<Signalling(q, signals[q])>>
    BY <1>2 DEF KillFromElsewhere, Idle
  <2>2. stack' = <<Signalling(q, signals[q])>> \o stack
    BY <2>1
  <2> QED BY <1>2, <2>2, KillStays DEF KillFromElsewhere
<1>3. CASE UNCHANGED vars
  <2>1. UNCHANGED <<status, races, timers, parked, signals, stack>>
    BY <1>3 DEF vars
  <2> QED BY <2>1, PlainStays, TypesAre
<1> QED BY <1>1, <1>2, <1>3, StartLateStays, SignalCallStays, ReturnStays, ExitStays,
           PushCallStays, TypeStays, FireStays DEF Next, Turn

\* What is kept is what the property says: the race around a read is the next
\* on the path of a read inside it, whose path goes on as its own.
LEMMA KeptFollows == ProcInv /\ KeptInv => CanBeResumed
<1> SUFFICES ASSUME ProcInv, KeptInv, NEW r \in DOMAIN races, Open(r)
             PROVE  /\ Signalled(r) \/ status[races[r].proc] = "ended"
                    /\ races[r].kind = "wait" => r \in timers
                    /\ (races[r].kind = "read" /\ races[r].proc = Shell) =>
                         (r \in ToSet(parked) \/ InTodo("push", r))
                    /\ (races[r].kind = "read" /\ races[r].proc # Shell) =>
                         \E s \in DOMAIN races : Open(s) /\ Tail(races[s].path) = races[r].path
  BY DEF CanBeResumed
<1>1. ProcTypes /\ PathsInv /\ DOMAIN races = 1 .. Len(races)
  BY TypesAre DEF ProcInv
<1>2. Kept(r) /\ r \in 1 .. Len(races)
  BY <1>1 DEF KeptInv
<1>3. ASSUME NEW s \in 1 .. Len(races), Within(s, r)
      PROVE  Tail(races[s].path) = races[r].path
  <2>1. PICK path, rest : path = races[s].path /\ rest = races[r].path
    OBVIOUS
  <2>2. /\ path \in Seq(Nat) /\ Len(path) \in Nat /\ Len(path) >= 2
        /\ rest \in Seq(Nat) /\ path[2] = r
    BY <1>1, <1>2, <1>3, <2>1, RaceIs DEF Within
  <2>3. GoesOn(path, rest, 2)
    <3>1. 2 \in 1 .. Len(path)
      BY <2>2
    <3>2. GoesOn(races[s].path, races[races[s].path[2]].path, 2)
      BY <1>1, <2>1, <3>1 DEF PathsInv
    <3> QED BY <2>1, <2>2, <3>2
  <2>4. Len(rest) = Len(path) - 1 /\ \A k \in 1 .. Len(rest) : rest[k] = path[k + 1]
    <3>1. Len(rest) = Len(path) + 1 - 2 /\ \A k \in 1 .. Len(rest) : rest[k] = path[k + 2 - 1]
      BY <2>3 DEF GoesOn
    <3>2. \A k \in 1 .. Len(rest) : k + 2 - 1 = k + 1
      OBVIOUS
    <3> QED BY <2>2, <3>1, <3>2
  <2>5. Len(Tail(path)) = Len(path) - 1 /\ Tail(path) \in Seq(Nat)
        /\ \A k \in 1 .. Len(path) - 1 : Tail(path)[k] = path[k + 1]
    BY <2>2
  <2>6. PICK t \in Seq(Nat) : t = Tail(path)
    BY <2>5
  <2>7. Len(t) = Len(rest) /\ \A k \in 1 .. Len(t) : t[k] = rest[k]
    BY <2>4, <2>5, <2>6
  <2>8. t = rest
    BY <2>2, <2>7, SameSeq
  <2> QED BY <2>1, <2>6, <2>8
<1> QED BY <1>1, <1>2, <1>3 DEF Kept

\* Nobody is suspended for good: whatever completes first, is killed or ends,
\* an open race is still registered for all it raced (when_any's start_one,
\* Proc::signal, the readers of a host).
THEOREM NobodySuspendedForGood == Spec => []CanBeResumed
<1>1. Init => ProcInv /\ KeptInv
  BY ProcInit, KeptInit
<1>2. ProcInv /\ KeptInv /\ [Next]_vars => ProcInv' /\ KeptInv'
  BY ProcStep, KeptStep
<1> QED BY <1>1, <1>2, KeptFollows, PTL DEF Spec

----------------------------------------------------------------------------
(* A line that was typed for a reader is taken *)

\* The races of a path are of one kind, and only waits have timers.
KindsInv ==
  /\ \A r \in 1 .. Len(races) : \A x \in ToSet(races[r].path) :
       races[x].kind = races[r].kind
  /\ \A r \in timers : races[r].kind = "wait"

\* A parked read reaches its process unless one was interrupted since the last
\* line; it shares no process's own race with one a line is offered to.
ParkedInv ==
  /\ \A r \in ToSet(parked) : races[r].kind = "read" /\ (interrupted \/ Reaches(r))
  /\ \A f : (Occurs(stack, f) /\ f.k = "push") =>
       \A x \in ToSet(f.todo), y \in ToSet(parked) : Root(x) # Root(y)

\* Of a line that is offered, it is settled whether it is taken, except at the
\* first reader, who takes it.
Sure(f) == f.k = "push" => (f.taken \/ f.spoilt \/ interrupted)
TakenInv ==
  stack # <<>> =>
    /\ \A f : Occurs(Below, f) => Sure(f)
    /\ \/ Sure(Head(stack))
       \/ Head(stack).todo # <<>> /\ Reaches(Head(Head(stack).todo))

LinesInv == KindsInv /\ ParkedInv /\ TakenInv

LEMMA StackFrames ==
  ASSUME ProcInv
  PROVE  /\ \A f : Occurs(stack, f) => f \in Frames(Len(races))
         /\ stack # <<>> => \A f : Occurs(stack, f) <=> (f = Head(stack) \/ Occurs(Below, f))
<1>1. stack \in Seq(Frames(Len(races))) /\ ProcTypes
  BY TypesAre
<1>2. \A f : Occurs(stack, f) => f \in Frames(Len(races))
  BY <1>1 DEF Occurs
<1>3. ASSUME stack # <<>>
      PROVE  \A f : Occurs(stack, f) <=> (f = Head(stack) \/ Occurs(Below, f))
  <2>1. PICK g \in Frames(Len(races)), s \in Seq(Frames(Len(races))) :
          g = Head(stack) /\ s = Below /\ stack = <<g>> \o s
    BY <1>1, <1>3, StackIs
  <2>2. \A f : Occurs(<<g>> \o s, f) <=> (f = g \/ Occurs(s, f))
    BY OnTop
  <2> QED BY <2>1, <2>2
<1> QED BY <1>2, <1>3

\* When no reader is about to be offered a line, all is settled.
LEMMA AllSure ==
  ASSUME ProcInv, TakenInv,
         stack # <<>> => (Head(stack).k # "push" \/ Head(stack).todo = <<>>)
  PROVE  \A f : Occurs(stack, f) => Sure(f)
<1>1. CASE stack = <<>>
  BY <1>1 DEF Occurs
<1>2. CASE stack # <<>>
  <2>1. \A f : Occurs(Below, f) => Sure(f)
    BY <1>2 DEF TakenInv
  <2>2. Sure(Head(stack))
    BY <1>2 DEF TakenInv, Sure
  <2> QED BY <1>2, <2>1, <2>2, StackFrames
<1> QED BY <1>1, <1>2

LEMMA SureStack ==
  ASSUME NEW S, stack' \in Seq(S), \A f : Occurs(stack', f) => Sure(f)'
  PROVE  TakenInv'
<1> SUFFICES ASSUME stack' # <<>>
             PROVE  (\A f : Occurs(Below, f) => Sure(f))' /\ Sure(Head(stack))'
  BY DEF TakenInv
<1>1. PICK g, s : g = Head(stack') /\ s = Tail(stack')
  OBVIOUS
<1>2. g \in S /\ s \in Seq(S) /\ stack' = <<g>> \o s
  BY <1>1, TopIs
<1>3. \A f : Occurs(<<g>> \o s, f) <=> (f = g \/ Occurs(s, f))
  BY <1>2, OnTop
<1>4. \A f : (f = g \/ Occurs(s, f)) => Sure(f)'
  BY <1>2, <1>3
<1>5. Sure(g)' /\ \A f : Occurs(s, f) => Sure(f)'
  BY <1>4
<1>6. Below' = s
  BY <1>1 DEF Below
<1>7. Sure(Head(stack))'
  BY <1>1, <1>5 DEF Sure
<1>8. \A f : Occurs(Below, f)' => Sure(f)'
  BY <1>5, <1>6
<1> QED BY <1>7, <1>8

\* Steps that open no race and park nobody.
LEMMA LinesKept ==
  ASSUME ProcInv, KindsInv, ParkedInv, SameRaces, timers' \subseteq timers, parked' = parked,
         interrupted => interrupted', stack' \in Seq(Frames(Len(races))),
         \A f : (Occurs(stack', f) /\ f.k = "push") =>
           /\ f.taken \/ f.spoilt \/ interrupted'
           /\ \E g : Occurs(stack, g) /\ g.k = "push" /\ ToSet(f.todo) \subseteq ToSet(g.todo),
         \A r \in ToSet(parked) : interrupted' \/ (Reaches(r) => Reaches(r)')
  PROVE  LinesInv'
<1>1. /\ ProcTypes /\ PathsInv /\ Len(races') = Len(races) /\ Len(races) \in Nat
      /\ timers \subseteq 1 .. Len(races)
      /\ \A x \in 1 .. Len(races) : /\ races'[x].kind = races[x].kind
                                    /\ races'[x].path = races[x].path
  BY TypesAre DEF SameRaces, ProcInv
<1>2. \A r \in 1 .. Len(races) : Root(r)' = Root(r) /\ \A x \in ToSet(races[r].path) :
        x \in 1 .. Len(races)
  BY <1>1, RootIs DEF Root
<1>3. \A r \in ToSet(parked) : r \in 1 .. Len(races)
  BY TypesAre DEF ToSet
<1>4. KindsInv'
  <2>1. \A r \in 1 .. Len(races) : \A x \in ToSet(races[r].path) :
          races'[x].kind = races'[r].kind
    BY <1>1, <1>2 DEF KindsInv
  <2>2. \A r \in timers : races'[r].kind = "wait"
    BY <1>1 DEF KindsInv
  <2> QED BY <1>1, <2>1, <2>2 DEF KindsInv
<1>5. ParkedInv'
  <2>1. \A r \in ToSet(parked) : races'[r].kind = "read" /\ (interrupted' \/ Reaches(r)')
    BY <1>1, <1>3 DEF ParkedInv
  <2>2. ASSUME NEW f, Occurs(stack', f), f.k = "push", NEW x \in ToSet(f.todo),
               NEW y \in ToSet(parked)
        PROVE  Root(x)' # Root(y)'
    <3>1. PICK g : Occurs(stack, g) /\ g.k = "push" /\ ToSet(f.todo) \subseteq ToSet(g.todo)
      BY <2>2
    <3>2. x \in ToSet(g.todo)
      BY <3>1
    <3>3. g.todo \in Seq(1 .. Len(races))
      BY <1>1, <3>1, StackFrames, FrameIs
    <3>4. x \in 1 .. Len(races)
      BY <3>2, <3>3 DEF ToSet
    <3>5. Root(x) # Root(y)
      BY <3>1, <3>2 DEF ParkedInv
    <3> QED BY <1>2, <1>3, <3>4, <3>5
  <2> QED BY <2>1, <2>2 DEF ParkedInv
<1>6. TakenInv'
  <2>1. \A f : Occurs(stack', f) => Sure(f)'
    BY DEF Sure
  <2> QED BY <2>1, SureStack
<1> QED BY <1>4, <1>5, <1>6 DEF LinesInv

\* Steps that push and pop no line and complete no race.
LEMMA LinesQuiet ==
  ASSUME ProcInv, LinesInv, UNCHANGED <<races, timers, parked, interrupted>>,
         stack # <<>> => (Head(stack).k # "push" \/ Head(stack).todo = <<>>),
         stack' \in Seq(Frames(Len(races))),
         \A f : Occurs(stack', f) => (Occurs(stack, f) \/ f.k # "push")
  PROVE  LinesInv'
<1>1. KindsInv /\ ParkedInv /\ TakenInv
  BY DEF LinesInv
<1>2. \A f : Occurs(stack, f) => Sure(f)
  BY <1>1, AllSure
<1>3. SameRaces
  BY DEF SameRaces
<1>4. \A r : Reaches(r)' <=> Reaches(r)
  BY DEF Reaches, Open
<1>5. \A f : (Occurs(stack', f) /\ f.k = "push") =>
           /\ f.taken \/ f.spoilt \/ interrupted'
           /\ \E g : Occurs(stack, g) /\ g.k = "push" /\ ToSet(f.todo) \subseteq ToSet(g.todo)
  BY <1>2 DEF Sure
<1> QED BY <1>1, <1>3, <1>4, <1>5, LinesKept

\* A process that runs leaves its frame, or puts others in its place.
LEMMA RunsLines ==
  ASSUME ProcInv, LinesInv, UNCHANGED <<races, timers, parked, interrupted>>,
         NEW p \in Pids, Runs(p), stack' \in Seq(Frames(Len(races))),
         \A f : Occurs(stack', f) => (Occurs(stack, f) \/ Occurs(Below, f) \/ f.k # "push")
  PROVE  LinesInv'
<1>1. stack # <<>> /\ Head(stack).k # "push"
  BY FrameKinds DEF Runs
<1>2. \A f : Occurs(stack', f) => (Occurs(stack, f) \/ f.k # "push")
  BY <1>1, StackFrames
<1> QED BY <1>1, <1>2, LinesQuiet

LEMMA ProgramLines ==
  ASSUME ProcInv, LinesInv, NEW p \in Pids,
         \/ ReadQueued(p) \/ End(p) \/ Astray(p)
         \/ \E q \in Pids : Exec(p, q) \/ ExecBackground(p, q) \/ Kill(p, q)
  PROVE  LinesInv'
<1>1. Runs(p) /\ UNCHANGED <<races, timers, parked, interrupted>>
  BY DEF ReadQueued, End, Astray, Exec, ExecBackground, Kill, Born
<1>2. stack' \in Seq(Frames(Len(races)))
  <2>1. ProcInv'
    <3>1. ASSUME NEW q \in Pids, Kill(p, q) PROVE ProcInv'
      BY <3>1, KillKeeps DEF Kill
    <3> QED BY <3>1, ReadQueuedKeeps, EndKeeps, AstrayKeeps, ExecKeeps, ExecBackgroundKeeps
  <2>2. stack' \in Seq(Frames(Len(races')))
    BY <2>1 DEF ProcInv, ProcTypes
  <2> QED BY <1>1, <2>2
<1>3. PICK s \in Seq(Frames(Len(races))), all \in Seq(Frames(Len(races))) :
        s = Below /\ all = stack
  BY <1>1, RunsIs, TypesAre
<1>4. \A q \in Pids : /\ Run(q) \in Frames(Len(races)) /\ Late(q) \in Frames(Len(races))
                      /\ Exiting(q) \in Frames(Len(races))
                      /\ Signalling(q, signals[q]) \in Frames(Len(races))
  BY TypesAre, FramesAre
<1>5. \A q, fns : Run(q).k # "push" /\ Late(q).k # "push" /\ Exiting(q).k # "push"
                  /\ Signalling(q, fns).k # "push"
  BY FrameKinds
<1>6. ASSUME NEW g \in Frames(Len(races)), NEW t \in Seq(Frames(Len(races))), g.k # "push"
      PROVE  \A f : Occurs(<<g>> \o t, f) => (Occurs(t, f) \/ f.k # "push")
  <2>1. \A f : Occurs(<<g>> \o t, f) <=> (f = g \/ Occurs(t, f))
    BY OnTop
  <2> QED BY <1>6, <2>1
<1>7. CASE ReadQueued(p)
  <2>1. stack' = <<Run(p), Late(p)>> \o Below
    BY <1>7 DEF ReadQueued
  <2>2. PICK t : t = <<Late(p)>> \o s
    OBVIOUS
  <2>3. t \in Seq(Frames(Len(races))) /\ stack' = <<Run(p)>> \o t
    BY <1>3, <1>4, <2>1, <2>2
  <2>4. \A f : Occurs(t, f) => (Occurs(s, f) \/ f.k # "push")
    BY <1>4, <1>5, <1>6, <2>2
  <2>5. \A f : Occurs(stack', f) => (Occurs(t, f) \/ f.k # "push")
    BY <1>4, <1>5, <1>6, <2>3
  <2> QED BY <1>1, <1>2, <1>3, <2>4, <2>5, RunsLines
<1>8. CASE End(p)
  <2>1. stack' = <<Signalling(p, signals[p]), Exiting(p)>> \o Below
    BY <1>8 DEF End
  <2>2. PICK t : t = <<Exiting(p)>> \o s
    OBVIOUS
  <2>3. t \in Seq(Frames(Len(races))) /\ stack' = <<Signalling(p, signals[p])>> \o t
    BY <1>3, <1>4, <2>1, <2>2
  <2>4. \A f : Occurs(t, f) => (Occurs(s, f) \/ f.k # "push")
    BY <1>4, <1>5, <1>6, <2>2
  <2>5. \A f : Occurs(stack', f) => (Occurs(t, f) \/ f.k # "push")
    BY <1>4, <1>5, <1>6, <2>3
  <2> QED BY <1>1, <1>2, <1>3, <2>4, <2>5, RunsLines
<1>9. CASE Astray(p)
  <2>1. \A f : Occurs(stack', f) => Occurs(Below, f)
    BY <1>9 DEF Astray
  <2> QED BY <1>1, <1>2, <2>1, RunsLines
<1>10. ASSUME NEW q \in Pids, Exec(p, q) PROVE LinesInv'
  <2>1. stack' = <<Run(q)>> \o s
    BY <1>3, <1>10 DEF Exec
  <2>2. \A f : Occurs(stack', f) => (Occurs(s, f) \/ f.k # "push")
    BY <1>4, <1>5, <1>6, <2>1
  <2> QED BY <1>1, <1>2, <1>3, <2>2, RunsLines
<1>11. ASSUME NEW q \in Pids, ExecBackground(p, q) \/ Kill(p, q) PROVE LinesInv'
  <2>1. PICK g \in {Run(q), Signalling(q, signals[q])} : stack' = <<g>> \o all
    BY <1>3, <1>11 DEF ExecBackground, Kill
  <2>2. g \in Frames(Len(races)) /\ g.k # "push"
    BY <1>4, <1>5, <2>1
  <2>3. \A f : Occurs(stack', f) => (Occurs(all, f) \/ f.k # "push")
    BY <1>6, <2>1, <2>2
  <2> QED BY <1>1, <1>2, <1>3, <2>3, RunsLines
<1> QED BY <1>7, <1>8, <1>9, <1>10, <1>11

\* A frame that has nothing to offer goes, for another or for none.
LEMMA PopLines ==
  ASSUME ProcInv, LinesInv, StartLate \/ SignalReturn \/ PushReturn \/ Exit
  PROVE  LinesInv'
<1>1. /\ stack # <<>> /\ (Head(stack).k # "push" \/ Head(stack).todo = <<>>)
      /\ UNCHANGED <<races, timers, parked, interrupted>>
  BY DEF StartLate, SignalReturn, PushReturn, Exit, On
<1>2. Below \in Seq(Frames(Len(races)))
  BY <1>1, TypesAre, StackIs
<1>3. PICK s \in Seq(Frames(Len(races))) : s = Below /\ \A f : Occurs(s, f) => Occurs(stack, f)
  BY <1>1, <1>2, StackFrames
<1>4. CASE stack' = Below
  BY <1>1, <1>3, <1>4, LinesQuiet
<1>5. ASSUME NEW h \in Pids, stack' = <<Run(h)>> \o Below PROVE LinesInv'
  <2>1. Run(h) \in Frames(Len(races)) /\ Run(h).k # "push"
    BY TypesAre, FramesAre, FrameKinds
  <2>2. \A f : Occurs(<<Run(h)>> \o s, f) <=> (f = Run(h) \/ Occurs(s, f))
    BY <2>1, OnTop
  <2>3. <<Run(h)>> \o s \in Seq(Frames(Len(races)))
    BY <2>1, OnTop
  <2>4. stack' = <<Run(h)>> \o s
    BY <1>3, <1>5
  <2> QED BY <1>1, <1>3, <2>1, <2>2, <2>3, <2>4, LinesQuiet
<1>6. CASE Exit
  <2>1. PICK p : p = Head(stack).p
    OBVIOUS
  <2>2. p \in Pids
    <3>1. Head(stack) \in Frames(Len(races)) /\ Head(stack).k = "exit"
      BY <1>1, <1>6, TypesAre, StackIs DEF Exit, On
    <3> QED BY <2>1, <3>1, TypesAre, FrameIs
  <2>3. \/ stack' = Below
        \/ host[p] # NoHost /\ stack' = <<Run(host[p])>> \o Below
    BY <1>6, <2>1 DEF Exit
  <2>4. host[p] # NoHost => host[p] \in Pids
    BY <2>2, TypesAre DEF NoHost, Pids
  <2> QED BY <1>4, <1>5, <2>3, <2>4
<1> QED BY <1>4, <1>6 DEF StartLate, SignalReturn, PushReturn

LEMMA KillFromElsewhereLines ==
  ASSUME ProcInv, LinesInv, NEW q \in Pids, KillFromElsewhere(q)
  PROVE  LinesInv'
<1>1. /\ stack = <<>> /\ stack' = <<Signalling(q, signals[q])>>
      /\ UNCHANGED <<races, timers, parked, interrupted>>
  BY DEF KillFromElsewhere, Idle
<1>2. PICK g : g = Signalling(q, signals[q])
  OBVIOUS
<1>3. g \in Frames(Len(races)) /\ g.k = "signal"
  <2>1. signals[q] \in Seq(0 .. Len(races)) /\ Len(races) \in Nat /\ interrupted \in BOOLEAN
    BY TypesAre
  <2> QED BY <1>2, <2>1, FramesAre, FrameKinds
<1>4. stack' = <<g>>
  BY <1>1, <1>2
<1>5. stack' \in Seq(Frames(Len(races))) /\ \A f : Occurs(stack', f) => f = g
  BY <1>3, <1>4 DEF Occurs
<1> QED BY <1>1, <1>3, <1>5, LinesQuiet

\* An awaitable of r completes: who is parked goes on reaching its process,
\* unless it shares the path of r, or a read was interrupted.
LEMMA CallLines ==
  ASSUME ProcInv, LinesInv, NEW r \in 1 .. Len(races), NEW res, NEW rest,
         rest \in Seq(Frames(Len(races))), Complete(r, res, rest),
         parked' = parked, timers' \subseteq timers, interrupted => interrupted',
         \A f : (Occurs(rest, f) /\ f.k = "push") =>
           /\ f.taken \/ f.spoilt \/ interrupted'
           /\ \E g : Occurs(stack, g) /\ g.k = "push" /\ ToSet(f.todo) \subseteq ToSet(g.todo),
         \A y \in ToSet(parked) : \/ interrupted' \/ ~Open(r) \/ Root(y) # Root(r)
                                  \/ races[y].kind # races[r].kind
  PROVE  LinesInv'
<1>1. /\ ProcTypes /\ PathsInv /\ Len(races) \in Nat /\ interrupted \in BOOLEAN
      /\ KindsInv /\ ParkedInv
  BY TypesAre DEF ProcInv, LinesInv
<1>2. /\ SameRaces /\ Waiter(r) \in Pids
      /\ \A x \in 1 .. Len(races) : Open(x)' <=> (Open(x) /\ x \notin Settles(r))
      /\ Reaches(r) => stack' = <<Run(Waiter(r))>> \o rest
      /\ ~Reaches(r) => stack' = rest
  BY <1>1, CompleteDoes
<1>3. PICK w \in Pids : w = Waiter(r)
  BY <1>2
<1>4. Run(w) \in Frames(Len(races)) /\ Run(w).k # "push"
  BY <1>1, FramesAre, FrameKinds
<1>5. /\ <<Run(w)>> \o rest \in Seq(Frames(Len(races)))
      /\ \A f : Occurs(<<Run(w)>> \o rest, f) <=> (f = Run(w) \/ Occurs(rest, f))
  BY <1>4, OnTop
<1>6. /\ stack' \in Seq(Frames(Len(races)))
      /\ \A f : (Occurs(stack', f) /\ f.k = "push") => Occurs(rest, f)
  BY <1>2, <1>3, <1>4, <1>5
<1>7. \A f : (Occurs(stack', f) /\ f.k = "push") =>
           /\ f.taken \/ f.spoilt \/ interrupted'
           /\ \E g : Occurs(stack, g) /\ g.k = "push" /\ ToSet(f.todo) \subseteq ToSet(g.todo)
  BY <1>6
<1>8. ASSUME NEW y \in ToSet(parked) PROVE interrupted' \/ (Reaches(y) => Reaches(y)')
  <2> SUFFICES ASSUME ~interrupted', Reaches(y), NEW x \in ToSet(races'[y].path)
               PROVE  Open(x)'
    BY DEF Reaches
  <2>1. y \in 1 .. Len(races)
    BY TypesAre DEF ToSet
  <2>2. races'[y].path = races[y].path
    BY <1>2, <2>1 DEF SameRaces
  <2>3. x \in 1 .. Len(races) /\ Root(x) = Root(y) /\ races[x].kind = races[y].kind /\ Open(x)
    BY <1>1, <2>1, <2>2, RootIs DEF KindsInv, Reaches
  <2>4. x \notin Settles(r)
    <3> SUFFICES ASSUME x \in Settles(r) PROVE FALSE
      OBVIOUS
    <3>1. x \in ToSet(races[r].path) /\ Open(r)
      BY <1>1, SettlesIs
    <3>2. Root(x) = Root(r) /\ races[x].kind = races[r].kind
      BY <1>1, <3>1, RootIs DEF KindsInv
    <3> QED BY <2>3, <3>1, <3>2
  <2> QED BY <1>2, <2>3, <2>4
<1> QED BY <1>1, <1>2, <1>6, <1>7, <1>8, LinesKept

LEMMA SignalCallLines ==
  ASSUME ProcInv, LinesInv, SignalCall \/ SignalLoose
  PROVE  LinesInv'
<1> DEFINE fns == Head(stack).todo
           p == Head(stack).p
           g == Signalling(p, Tail(fns))
           rest == <<g>> \o Below
<1>1. /\ On("signal") /\ fns # <<>> /\ UNCHANGED <<timers, parked>>
  BY DEF SignalCall, SignalLoose
<1>2. /\ Below \in Seq(Frames(Len(races))) /\ Head(stack) \in Frames(Len(races))
      /\ Head(stack).k = "signal" /\ stack # <<>>
  BY <1>1, OnIs DEF On
<1>3. /\ p \in Pids /\ fns \in Seq(0 .. Len(races)) /\ Len(races) \in Nat
      /\ interrupted \in BOOLEAN /\ DOMAIN races = 1 .. Len(races)
  BY <1>2, FrameIs, TypesAre
<1>4. Head(fns) \in 0 .. Len(races) /\ Tail(fns) \in Seq(0 .. Len(races))
  <2> HIDE DEF fns
  <2> QED BY <1>1, <1>3, TopIs
<1>5. g \in Frames(Len(races)) /\ g.k = "signal"
  BY <1>3, <1>4, FramesAre, FrameKinds
<1>6. \A f : Occurs(stack, f) => Sure(f)
  BY <1>2, AllSure DEF LinesInv
<1>7. rest \in Seq(Frames(Len(races)))
      /\ \A f : Occurs(rest, f) => (f.k # "push" \/ Occurs(stack, f))
  <2>1. PICK s \in Seq(Frames(Len(races))), new \in Frames(Len(races)) :
          s = Below /\ new = g
    BY <1>2, <1>5
  <2>2. \A f : Occurs(<<new>> \o s, f) <=> (f = new \/ Occurs(s, f))
    BY OnTop
  <2>3. <<new>> \o s \in Seq(Frames(Len(races)))
    BY OnTop
  <2>4. rest = <<new>> \o s
    BY <2>1
  <2> HIDE DEF rest
  <2>5. \A f : Occurs(Below, f) => Occurs(stack, f)
    BY <1>2, StackFrames
  <2> QED BY <1>5, <2>1, <2>2, <2>3, <2>4, <2>5
<1> HIDE DEF fns, p, g, rest
<1>8. (interrupted => interrupted') =>
        \A f : (Occurs(rest, f) /\ f.k = "push") =>
           /\ f.taken \/ f.spoilt \/ interrupted'
           /\ \E h : Occurs(stack, h) /\ h.k = "push" /\ ToSet(f.todo) \subseteq ToSet(h.todo)
  BY <1>6, <1>7 DEF Sure
<1>9. \A y \in ToSet(parked) : races[y].kind = "read"
  BY DEF LinesInv, ParkedInv
<1>10. CASE SignalCall
  <2>1. /\ Complete(Head(fns), "eintr", rest) /\ Head(fns) # Loose
        /\ interrupted' = (interrupted \/ (races[Head(fns)].kind = "read" /\ Open(Head(fns))))
    BY <1>10 DEF SignalCall, fns, p, g, rest
  <2>2. PICK r \in 1 .. Len(races) : r = Head(fns)
    BY <1>3, <1>4, <2>1 DEF Loose
  <2>3. /\ interrupted => interrupted'
        /\ interrupted' \/ races[r].kind # "read" \/ ~Open(r)
    BY <1>3, <2>1, <2>2
  <2>4. \A y \in ToSet(parked) : \/ interrupted' \/ ~Open(r) \/ Root(y) # Root(r)
                                 \/ races[y].kind # races[r].kind
    BY <1>9, <2>3
  <2>5. Complete(r, "eintr", rest) /\ timers' \subseteq timers /\ parked' = parked
    BY <1>1, <2>1, <2>2
  <2>6. \A f : (Occurs(rest, f) /\ f.k = "push") =>
           /\ f.taken \/ f.spoilt \/ interrupted'
           /\ \E h : Occurs(stack, h) /\ h.k = "push" /\ ToSet(f.todo) \subseteq ToSet(h.todo)
    BY <1>8, <2>3
  <2> QED BY <1>7, <2>3, <2>4, <2>5, <2>6, CallLines
<1>11. CASE SignalLoose
  <2>1. CASE stack' = rest /\ UNCHANGED <<status, result, races, interrupted>>
    <3>1. Head(stack).k # "push" /\ \A f : Occurs(stack', f) => (Occurs(stack, f) \/ f.k # "push")
      BY <1>2, <1>7, <2>1
    <3> QED BY <1>1, <1>7, <2>1, <3>1, LinesQuiet
  <2>2. ASSUME NEW r \in DOMAIN races, Complete(r, "eintr", rest), interrupted' = TRUE
        PROVE  LinesInv'
    <3>1. r \in 1 .. Len(races)
      BY <1>3
    <3>2. interrupted => interrupted'
      BY <2>2
    <3>3. \A y \in ToSet(parked) : \/ interrupted' \/ ~Open(r) \/ Root(y) # Root(r)
                                   \/ races[y].kind # races[r].kind
      BY <2>2
    <3>4. timers' \subseteq timers /\ parked' = parked
      BY <1>1
    <3>5. \A f : (Occurs(rest, f) /\ f.k = "push") =>
           /\ f.taken \/ f.spoilt \/ interrupted'
           /\ \E h : Occurs(stack, h) /\ h.k = "push" /\ ToSet(f.todo) \subseteq ToSet(h.todo)
      BY <1>8, <3>2
    <3> QED BY <1>7, <2>2, <3>1, <3>2, <3>3, <3>4, <3>5, CallLines
  <2>3. \/ stack' = rest /\ UNCHANGED <<status, result, races, interrupted>>
        \/ \E r \in DOMAIN races : Complete(r, "eintr", rest) /\ interrupted' = TRUE
    BY <1>11 DEF SignalLoose, fns, p, g, rest
  <2> QED BY <2>1, <2>2, <2>3
<1> QED BY <1>10, <1>11

LEMMA FireLines ==
  ASSUME ProcInv, LinesInv, NEW r, Fire(r)
  PROVE  LinesInv'
<1>1. /\ r \in timers /\ Complete(r, "ok", <<>>) /\ stack = <<>>
      /\ timers' = timers \ {r} /\ UNCHANGED <<parked, interrupted>>
  BY DEF Fire, Idle
<1>2. r \in 1 .. Len(races) /\ stack \in Seq(Frames(Len(races)))
  BY <1>1, TypesAre
<1>3. PICK rest \in Seq(Frames(Len(races))) : rest = <<>> /\ stack = rest
  BY <1>1, <1>2
<1>4. \A f : ~Occurs(rest, f)
  BY <1>3 DEF Occurs
<1>5. \A y \in ToSet(parked) : races[y].kind # races[r].kind
  BY <1>1 DEF LinesInv, KindsInv, ParkedInv
<1>6. Complete(r, "ok", rest)
  BY <1>1, <1>3
<1> QED BY <1>1, <1>2, <1>4, <1>5, <1>6, CallLines

LEMMA PushCallLines ==
  ASSUME ProcInv, LinesInv, PushCall
  PROVE  LinesInv'
<1>1. PICK new \in Frames(Len(races)), r \in 1 .. Len(races) :
        /\ new.k = "push" /\ new.todo = Tail(Head(stack).todo)
        /\ new.taken <=> (Head(stack).taken \/ Reaches(r))
        /\ new.spoilt = Head(stack).spoilt
        /\ r = Head(Head(stack).todo)
        /\ Complete(r, "line", <<new>> \o Below)
  BY PushCallDoes
<1>2. /\ On("push") /\ stack # <<>> /\ Head(stack).todo # <<>>
      /\ UNCHANGED <<timers, parked, interrupted>>
  BY DEF PushCall, On
<1>3. PICK s \in Seq(Frames(Len(races))), old \in Frames(Len(races)) :
        s = Below /\ old = Head(stack) /\ old.k = "push"
  BY <1>2, OnIs
<1>4. /\ <<new>> \o s \in Seq(Frames(Len(races)))
      /\ \A f : Occurs(<<new>> \o s, f) <=> (f = new \/ Occurs(s, f))
  BY OnTop
<1>5. \A f : Occurs(stack, f) <=> (f = old \/ Occurs(s, f))
  BY <1>2, <1>3, StackFrames
<1>6. /\ \A x : x \in ToSet(new.todo) => x \in ToSet(old.todo)
      /\ r \in ToSet(old.todo)
  <2>1. PICK fns : fns = old.todo
    OBVIOUS
  <2>2. fns \in Seq(1 .. Len(races)) /\ fns # <<>>
    BY <1>2, <1>3, <2>1, FrameIs, TypesAre
  <2>3. \A x : x \in ToSet(fns) <=> (x = Head(fns) \/ x \in ToSet(Tail(fns)))
    BY <2>2, HeadOrTail
  <2> QED BY <1>1, <1>3, <2>1, <2>3
<1>7. /\ \A f : Occurs(s, f) => Sure(f)
      /\ Sure(old) \/ Reaches(r)
  BY <1>1, <1>2, <1>3 DEF LinesInv, TakenInv
<1>8. new.taken \/ new.spoilt \/ interrupted
  BY <1>1, <1>3, <1>7 DEF Sure
<1>9. PICK rest \in Seq(Frames(Len(races))) : rest = <<new>> \o s
  BY <1>4
<1>10. ASSUME NEW f, Occurs(rest, f), f.k = "push"
       PROVE  /\ f.taken \/ f.spoilt \/ interrupted'
              /\ \E g : Occurs(stack, g) /\ g.k = "push" /\ ToSet(f.todo) \subseteq ToSet(g.todo)
  <2>1. CASE f = new
    BY <1>2, <1>3, <1>5, <1>6, <1>8, <2>1
  <2>2. CASE Occurs(s, f)
    BY <1>2, <1>5, <1>7, <1>10, <2>2 DEF Sure
  <2> QED BY <1>4, <1>9, <1>10, <2>1, <2>2
<1>11. \A y \in ToSet(parked) : Root(y) # Root(r)
  BY <1>3, <1>5, <1>6 DEF LinesInv, ParkedInv
<1>12. Complete(r, "line", rest) /\ timers' \subseteq timers /\ parked' = parked
       /\ (interrupted => interrupted')
  BY <1>1, <1>2, <1>3, <1>9
<1> QED BY <1>10, <1>11, <1>12, CallLines

\* The races that are opened are of one kind and open, and new.
LEMMA OpenedLines ==
  ASSUME ProcInv, LinesInv, NEW p \in Pids, Runs(p), stack' = Below,
         NEW c, NEW kind, Opened(c, kind), interrupted' = interrupted,
         \A x \in timers' : x \in timers \/ (kind = "wait" /\ x = Len(races) + 1),
         \A x \in ToSet(parked') : \/ x \in ToSet(parked)
                                   \/ kind = "read" /\ x = Len(races) + Len(c)
  PROVE  LinesInv'
<1>0. PICK n : n = Len(races)
  OBVIOUS
<1>1. /\ ProcTypes /\ PathsInv /\ n \in Nat /\ Len(c) \in Nat /\ Len(c) >= 1
      /\ Len(races') = n + Len(c) /\ timers \subseteq 1 .. n
      /\ \A x \in 1 .. n : races'[x] = races[x]
      /\ \A i \in 1 .. Len(c) :
           /\ races'[n + i].kind = kind /\ races'[n + i].done = FALSE
           /\ races'[n + i].path \in Seq(Nat)
           /\ Len(races'[n + i].path) = i
           /\ \A j \in 1 .. i : races'[n + i].path[j] = n + i + 1 - j
  <2>1. races' \in Seq(RaceSet) /\ Len(races') = n + Len(c)
    BY <1>0 DEF Opened
  <2>2. n \in Nat /\ Len(c) \in Nat /\ Len(c) >= 1
    BY <1>0, TypesAre DEF Opened
  <2>3. \A i \in 1 .. Len(c) : n + i \in 1 .. Len(races')
    BY <2>1, <2>2
  <2>4. \A x \in 1 .. Len(races') : races'[x] \in RaceSet
    BY <2>1
  <2>5. \A i \in 1 .. Len(c) : races'[n + i].path \in Seq(Nat)
    BY <2>3, <2>4 DEF RaceSet
  <2> QED BY <1>0, <2>1, <2>2, <2>5, TypesAre DEF Opened, ProcInv
<1>2. \A r \in 1 .. n : \A x \in ToSet(races[r].path) : x \in 1 .. n
  BY <1>0, <1>1, RootIs
<1>3. ASSUME NEW i \in 1 .. Len(c), NEW x \in ToSet(races'[n + i].path)
      PROVE  \E k \in 1 .. Len(c) : x = n + k
  <2>1. PICK j \in 1 .. i : x = races'[n + i].path[j]
    <3>1. PICK path \in Seq(Nat) : path = races'[n + i].path /\ Len(path) = i
      BY <1>1
    <3>2. DOMAIN path = 1 .. i
      BY <3>1
    <3> QED BY <1>3, <3>1, <3>2 DEF ToSet
  <2>2. x = n + i + 1 - j
    BY <1>1, <2>1
  <2>3. i + 1 - j \in 1 .. Len(c) /\ x = n + (i + 1 - j)
    BY <1>1, <2>2
  <2> QED BY <2>3
<1>4. ASSUME NEW r \in 1 .. Len(races'), r \notin 1 .. n
      PROVE  \E i \in 1 .. Len(c) : r = n + i
  <2>1. r - n \in 1 .. Len(c) /\ r = n + (r - n)
    BY <1>1, <1>4
  <2> QED BY <2>1
<1>5. KindsInv'
  <2>1. ASSUME NEW r \in 1 .. Len(races'), NEW x \in ToSet(races'[r].path)
        PROVE  races'[x].kind = races'[r].kind
    <3>1. CASE r \in 1 .. n
      <4>1. races'[r] = races[r] /\ x \in ToSet(races[r].path)
        BY <1>1, <2>1, <3>1
      <4>2. x \in 1 .. n
        BY <1>2, <3>1, <4>1
      <4>3. races[x].kind = races[r].kind
        BY <1>0, <3>1, <4>1 DEF LinesInv, KindsInv
      <4> QED BY <1>1, <4>1, <4>2, <4>3
    <3>2. ASSUME NEW i \in 1 .. Len(c), r = n + i PROVE races'[x].kind = races'[r].kind
      <4>1. PICK k \in 1 .. Len(c) : x = n + k
        BY <1>3, <2>1, <3>2
      <4> QED BY <1>1, <3>2, <4>1
    <3> QED BY <1>4, <3>1, <3>2
  <2>2. ASSUME NEW r \in timers' PROVE races'[r].kind = "wait"
    <3>1. CASE r \in timers
      BY <1>1, <3>1 DEF LinesInv, KindsInv
    <3>2. CASE kind = "wait" /\ r = n + 1
      <4>1. 1 \in 1 .. Len(c)
        BY <1>1
      <4> QED BY <1>1, <3>2, <4>1
    <3> QED BY <1>0, <3>1, <3>2
  <2> QED BY <2>1, <2>2 DEF KindsInv
<1>6. PICK last : last = n + Len(c)
  OBVIOUS
<1>7. /\ Root(last)' = n + 1 /\ races'[last].kind = kind /\ Reaches(last)'
  <2>1. Len(c) \in 1 .. Len(c) /\ n + Len(c) + 1 - Len(c) = n + 1
    BY <1>1
  <2>2. Root(last)' = n + 1 /\ races'[last].kind = kind
    BY <1>1, <1>6, <2>1 DEF Root
  <2>3. ASSUME NEW x \in ToSet(races'[last].path) PROVE ~races'[x].done
    <3>1. PICK k \in 1 .. Len(c) : x = n + k
      BY <1>3, <1>6, <2>1, <2>3
    <3> QED BY <1>1, <3>1
  <2> QED BY <2>2, <2>3 DEF Reaches, Open
<1>8. ASSUME NEW r \in ToSet(parked)
      PROVE  /\ r \in 1 .. n /\ Root(r)' = Root(r) /\ Root(r) \in 1 .. n
             /\ races'[r].kind = "read" /\ (interrupted \/ Reaches(r)')
  <2>1. r \in 1 .. n
    BY <1>0, TypesAre DEF ToSet
  <2>2. races'[r] = races[r] /\ \A x \in ToSet(races[r].path) : races'[x] = races[x]
    BY <1>1, <1>2, <2>1
  <2>3. races[r].kind = "read" /\ (interrupted \/ Reaches(r))
    BY DEF LinesInv, ParkedInv
  <2>4. Root(r)' = Root(r) /\ Root(r) \in 1 .. n
    BY <1>0, <1>1, <2>1, <2>2, RootIs DEF Root
  <2>5. Reaches(r) => Reaches(r)'
    BY <2>2 DEF Reaches, Open
  <2> QED BY <2>1, <2>2, <2>3, <2>4, <2>5
<1>9. stack # <<>> /\ Head(stack).k # "push"
  BY FrameKinds DEF Runs
<1>10. ParkedInv'
  <2>1. \A r \in ToSet(parked') : races'[r].kind = "read" /\ (interrupted' \/ Reaches(r)')
    BY <1>0, <1>6, <1>7, <1>8
  <2>2. ASSUME NEW f, Occurs(stack', f), f.k = "push", NEW x \in ToSet(f.todo),
               NEW y \in ToSet(parked')
        PROVE  Root(x)' # Root(y)'
    <3>1. Occurs(stack, f)
      BY <1>9, <2>2, StackFrames
    <3>2. f.todo \in Seq(1 .. n)
      BY <1>0, <1>1, <2>2, <3>1, StackFrames, FrameIs
    <3>3. x \in 1 .. n
      <4>1. PICK fns : fns = f.todo
        OBVIOUS
      <4>2. fns \in Seq(1 .. n) /\ x \in ToSet(fns)
        BY <2>2, <3>2, <4>1
      <4> QED BY <4>2, InSeq
    <3>4. Root(x)' = Root(x) /\ Root(x) \in 1 .. n
      <4>1. races'[x] = races[x]
        BY <1>1, <3>3
      <4>2. Root(x) \in 1 .. n
        BY <1>0, <1>1, <3>3, RootIs
      <4> QED BY <4>1, <4>2 DEF Root
    <3>5. CASE y \in ToSet(parked)
      <4>1. Root(x) # Root(y)
        BY <2>2, <3>1, <3>5 DEF LinesInv, ParkedInv
      <4> QED BY <1>8, <3>4, <3>5, <4>1
    <3>6. CASE y = last
      BY <1>1, <1>7, <3>4, <3>6
    <3> QED BY <1>0, <1>6, <3>5, <3>6
  <2> QED BY <2>1, <2>2 DEF ParkedInv
<1>11. TakenInv'
  <2>1. \A f : Occurs(stack', f) => Sure(f)'
    <3>1. \A f : Occurs(Below, f) => Sure(f)
      BY <1>9 DEF LinesInv, TakenInv
    <3> QED BY <3>1 DEF Sure
  <2>2. PICK S : S = Frames(Len(races))
    OBVIOUS
  <2>3. stack' \in Seq(S)
    BY <2>2, RunsIs
  <2> QED BY <2>1, <2>3, SureStack
<1> QED BY <1>5, <1>10, <1>11 DEF LinesInv

LEMMA SuspendLines ==
  ASSUME ProcInv, LinesInv, NEW p \in Pids, Wait(p) \/ ReadParks(p)
  PROVE  LinesInv'
<1>1. PICK c, kind, n : kind = (IF Wait(p) THEN "wait" ELSE "read") /\ n = Len(races)
                        /\ c = (IF Wait(p) THEN <<p>> ELSE Chain(p))
  OBVIOUS
<1>2. Runs(p) /\ stack' = Below /\ interrupted' = interrupted
  BY DEF Wait, ReadParks
<1>3. CASE Wait(p)
  <2>1. /\ timers' = timers \cup {n + 1} /\ parked' = parked
    BY <1>1, <1>3 DEF Wait
  <2>2. Opened(<<p>>, "wait")
    BY <1>3, WaitOpens, TypesAre
  <2>3. Opened(c, kind) /\ kind = "wait"
    BY <1>1, <1>3, <2>2
  <2>4. \A x \in timers' : x \in timers \/ (kind = "wait" /\ x = Len(races) + 1)
    BY <1>1, <2>1, <2>3
  <2>5. \A x \in ToSet(parked') : \/ x \in ToSet(parked)
                                  \/ kind = "read" /\ x = Len(races) + Len(c)
    BY <2>1
  <2> QED BY <1>2, <2>3, <2>4, <2>5, OpenedLines
<1>4. CASE ~Wait(p)
  <2>1. ReadParks(p) /\ c = Chain(p) /\ kind = "read"
    BY <1>1, <1>4
  <2>2. timers' = timers /\ parked' = Append(parked, n + Len(c))
    BY <1>1, <2>1 DEF ReadParks
  <2>3. Opened(c, kind)
    BY <2>1, ReadParksKeeps
  <2>4. \A x : x \in ToSet(parked') <=> (x \in ToSet(parked) \/ x = n + Len(c))
    <3>1. PICK s : s = parked
      OBVIOUS
    <3>2. n \in Nat /\ Len(c) \in Nat /\ Len(c) >= 1 /\ s \in Seq(1 .. n)
      BY <1>1, <2>3, <3>1, TypesAre DEF Opened
    <3>3. 1 .. n \subseteq 1 .. n + Len(c) /\ n + Len(c) \in 1 .. n + Len(c)
      BY <3>2
    <3>4. s \in Seq(1 .. n + Len(c))
      BY <3>2, <3>3, SeqGrows
    <3>5. \A x : x \in ToSet(Append(s, n + Len(c))) <=> (x \in ToSet(s) \/ x = n + Len(c))
      BY <3>3, <3>4, Appended
    <3> QED BY <2>2, <3>1, <3>5
  <2>5. \A x \in timers' : x \in timers \/ (kind = "wait" /\ x = Len(races) + 1)
    BY <2>2
  <2>6. \A x \in ToSet(parked') : \/ x \in ToSet(parked)
                                  \/ kind = "read" /\ x = Len(races) + Len(c)
    BY <1>1, <2>1, <2>4
  <2> QED BY <1>2, <2>3, <2>5, <2>6, OpenedLines
<1> QED BY <1>3, <1>4

LEMMA TypeLines ==
  ASSUME ProcInv, LinesInv, Type
  PROVE  LinesInv'
<1>1. /\ UNCHANGED <<races, timers>> /\ stack = <<>> /\ interrupted' = FALSE
      /\ \/ parked = <<>> /\ UNCHANGED <<stack, parked>>
         \/ parked # <<>> /\ stack' = <<Pushing(parked)>> /\ parked' = <<>>
  BY DEF Type, Idle
<1>2. KindsInv'
  BY <1>1 DEF LinesInv, KindsInv
<1>3. \A x : x \notin ToSet(<<>>)
  BY DEF ToSet
<1>4. parked' = <<>>
  BY <1>1
<1>5. ParkedInv'
  BY <1>3, <1>4 DEF ParkedInv
<1>6. TakenInv'
  <2>1. CASE stack' = <<>>
    BY <2>1 DEF TakenInv
  <2>2. CASE parked # <<>> /\ stack' = <<Pushing(parked)>>
    <3>1. PICK g : g = Pushing(parked)
      OBVIOUS
    <3>2. g.todo = parked /\ g.spoilt = interrupted /\ g.k = "push"
      BY <3>1, FrameKinds
    <3>3. stack' = <<g>> /\ Head(stack') = g /\ Below' = <<>>
      BY <2>2, <3>1 DEF Below
    <3>4. \A f : ~Occurs(<<>>, f)
      BY DEF Occurs
    <3>5. Head(parked) \in ToSet(parked)
      <4>1. PICK s : s = parked
        OBVIOUS
      <4>2. s \in Seq(1 .. Len(races)) /\ s # <<>>
        BY <2>2, <4>1, TypesAre
      <4>3. \A x : x \in ToSet(s) <=> (x = Head(s) \/ x \in ToSet(Tail(s)))
        BY <4>2, HeadOrTail
      <4> QED BY <4>1, <4>3
    <3>6. interrupted \/ Reaches(Head(parked))
      BY <3>5 DEF LinesInv, ParkedInv
    <3>7. PICK r : r = Head(parked)
      OBVIOUS
    <3>8. Reaches(r) => Reaches(r)'
      BY <1>1 DEF Reaches, Open
    <3>9. g.spoilt \/ (g.todo # <<>> /\ Reaches(r)' /\ r = Head(g.todo))
      BY <2>2, <3>2, <3>6, <3>7, <3>8
    <3>10. \/ Sure(Head(stack))'
           \/ Head(stack').todo # <<>> /\ Reaches(Head(Head(stack).todo))'
      <4>1. CASE g.spoilt
        BY <3>3, <4>1 DEF Sure
      <4>2. CASE g.todo # <<>> /\ Reaches(r)' /\ r = Head(g.todo)
        BY <3>3, <4>2 DEF Reaches, Open
      <4> QED BY <3>9, <4>1, <4>2
    <3>11. \A f : ~Occurs(Below, f)'
      BY <3>3, <3>4
    <3> QED BY <3>10, <3>11 DEF TakenInv
  <2> QED BY <1>1, <2>1, <2>2
<1> QED BY <1>2, <1>5, <1>6 DEF LinesInv

LEMMA LinesInit == Init => LinesInv
<1> SUFFICES ASSUME Init PROVE LinesInv
  OBVIOUS
<1>1. races = <<>> /\ timers = {} /\ parked = <<>> /\ stack = <<Run(Shell)>>
  BY DEF Init
<1>2. PICK g : g = Run(Shell)
  OBVIOUS
<1>3. g.k = "run" /\ stack = <<g>>
  BY <1>1, <1>2, FrameKinds
<1>4. /\ \A f : Occurs(stack, f) <=> f = g
      /\ Head(stack) = g /\ Below = <<>>
  BY <1>3 DEF Occurs, Below
<1>5. \A x : x \notin ToSet(<<>>) /\ ~Occurs(<<>>, x)
  BY DEF ToSet, Occurs
<1>6. Len(races) = 0
  BY <1>1
<1>7. KindsInv /\ ParkedInv
  BY <1>1, <1>3, <1>4, <1>5, <1>6 DEF KindsInv, ParkedInv
<1>8. TakenInv
  BY <1>3, <1>4, <1>5 DEF TakenInv, Sure
<1> QED BY <1>7, <1>8 DEF LinesInv

LEMMA LinesStep == ProcInv /\ LinesInv /\ [Next]_vars => LinesInv'
<1> SUFFICES ASSUME ProcInv, LinesInv, [Next]_vars PROVE LinesInv'
  OBVIOUS
<1>1. ASSUME NEW p \in Pids, Program(p) PROVE LinesInv'
  BY <1>1, ProgramLines, SuspendLines DEF Program
<1>2. CASE UNCHANGED vars
  <2>1. UNCHANGED <<races, timers, parked, stack, interrupted>>
    BY <1>2 DEF vars
  <2>2. KindsInv' /\ ParkedInv'
    BY <2>1 DEF LinesInv, KindsInv, ParkedInv, Root, Reaches, Open
  <2>3. TakenInv'
    BY <2>1 DEF LinesInv, TakenInv, Sure, Below, Reaches, Open
  <2> QED BY <2>2, <2>3 DEF LinesInv
<1> QED BY <1>1, <1>2, PopLines, KillFromElsewhereLines, SignalCallLines,
           PushCallLines, TypeLines, FireLines DEF Next, Turn

LEMMA LinesFollow ==
  LinesInv => ((On("push") /\ Head(stack).todo = <<>>) =>
                 (Head(stack).taken \/ Head(stack).spoilt \/ interrupted))
BY DEF LinesInv, TakenInv, Sure, On

\* A line offered to those who were parked is taken by one of them, whatever
\* the readers do with theirs on the way, unless a read was interrupted since
\* the line before (MessageQueue::push, Proc::read's race).
THEOREM LinesAreTaken == Spec => LinesTaken
<1> DEFINE Settled == (On("push") /\ Head(stack).todo = <<>>) =>
                        (Head(stack).taken \/ Head(stack).spoilt \/ interrupted)
<1>1. Init => ProcInv /\ LinesInv
  BY ProcInit, LinesInit
<1>2. ProcInv /\ LinesInv /\ [Next]_vars => ProcInv' /\ LinesInv'
  BY ProcStep, LinesStep
<1>3. LinesInv => Settled
  BY LinesFollow
<1>4. Spec => []Settled
  BY <1>1, <1>2, <1>3, PTL DEF Spec
<1>5. []Settled => [][Settled]_vars
  BY PTL
<1> QED BY <1>4, <1>5 DEF LinesTaken
=============================================================================
