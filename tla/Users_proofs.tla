---------------------------- MODULE Users_proofs ----------------------------
(* For any sessions, names, passwords, uids and times: memory and files agree *)
(* except where an edit was not read yet, login and sudo follow the files,    *)
(* and useradd takes nobody's row away.                                       *)
EXTENDS Users, TLAPS

\* A partial function, and one that gives no value twice.
Partial(f, S, T) == DOMAIN f \subseteq S /\ f \in [DOMAIN f -> T]
OneToOne(f) == \A x, y \in DOMAIN f : f[x] = f[y] => x = y

ShadowRow == [name : Names, password : Passwords]

FilesInv ==
  /\ Partial(passwdFile, Uids, Names) /\ OneToOne(passwdFile)
  /\ Partial(shadowFile, Names, Passwords)
  /\ groupFile \in [DOMAIN groupFile -> Range(groupFile)]
  /\ DOMAIN malformed = DbFiles

\* What memory says of users agrees with itself: each name is known under its
\* number, a name has one shadow row, and a row is under its name's number if
\* shadow_ was read after the names.
Names2Uid(pw, names) ==
  /\ Partial(pw, Uids, Names) /\ Partial(names, Names, Uids)
  /\ \A u \in DOMAIN pw : pw[u] \in DOMAIN names /\ names[pw[u]] = u

ShadowKeys(names, sh, k) ==
  /\ Partial(sh, Uids, ShadowRow)
  /\ \A u \in DOMAIN sh : sh[u].name \in DOMAIN names
  /\ \A u, v \in DOMAIN sh : sh[u].name = sh[v].name => u = v
  /\ k => \A u \in DOMAIN sh : names[sh[u].name] = u

MemoryInv ==
  /\ Names2Uid(passwd, nameToUid) /\ ShadowKeys(nameToUid, shadow, keyed)
  /\ groups \in [DOMAIN groups -> Range(groups)]
  /\ keyed \in BOOLEAN
  /\ counter \in FirstUid .. MaxUid

\* No row of the shadow file that can be keyed is missing in memory.
NoRowMissing ==
  keyed /\ "shadow" \notin unread =>
    \A n \in DOMAIN ShadowRows \cap DOMAIN nameToUid : nameToUid[n] \in DOMAIN shadow

UsersInv == FilesInv /\ MemoryInv /\ NoRowMissing /\ CacheFollowsFiles

----------------------------------------------------------------------------
(* The operators on partial functions *)

LEMMA PutPartial ==
  ASSUME NEW S, NEW T, NEW f, Partial(f, S, T), NEW k \in S, NEW v \in T
  PROVE  /\ Partial(Put(f, k, v), S, T)
         /\ DOMAIN Put(f, k, v) = DOMAIN f \cup {k}
         /\ Put(f, k, v)[k] = v
         /\ \A x \in DOMAIN f \ {k} : Put(f, k, v)[x] = f[x]
  BY DEF Partial, Put

LEMMA DropPartial ==
  ASSUME NEW S, NEW T, NEW f, Partial(f, S, T), NEW k
  PROVE  /\ Partial(Drop(f, k), S, T)
         /\ DOMAIN Drop(f, k) = DOMAIN f \ {k}
         /\ \A x \in DOMAIN f \ {k} : Drop(f, k)[x] = f[x]
  BY DEF Partial, Drop, Restrict

LEMMA OverPartial ==
  ASSUME NEW S, NEW T, NEW g, NEW f, Partial(g, S, T), Partial(f, S, T)
  PROVE  Partial(Over(g, f), S, T)
  BY DEF Partial, Over

\* The names of a file, each with its number.
LEMMA AntiPartial ==
  ASSUME NEW S, NEW T, NEW f, Partial(f, S, T), OneToOne(f)
  PROVE  /\ Partial(AntiFunction(f), T, S)
         /\ DOMAIN AntiFunction(f) = Range(f)
         /\ \A x \in DOMAIN f : AntiFunction(f)[f[x]] = x
<1>1. DOMAIN AntiFunction(f) = Range(f)
  BY DEF AntiFunction, Inverse
<1>2. Range(f) \subseteq T
  BY DEF Range, Partial
<1>3. ASSUME NEW x \in DOMAIN f PROVE AntiFunction(f)[f[x]] = x
  <2>1. f[x] \in Range(f)
    BY DEF Range
  <2>2. AntiFunction(f)[f[x]] = CHOOSE z \in DOMAIN f : f[x] \in Range(f) => f[z] = f[x]
    BY <2>1 DEF AntiFunction, Inverse
  <2> QED BY <2>1, <2>2 DEF OneToOne
<1>4. \A y \in Range(f) : AntiFunction(f)[y] \in S
  BY <1>3 DEF Range, Partial
<1>5. AntiFunction(f) \in [Range(f) -> S]
  BY <1>4 DEF AntiFunction, Inverse
<1> QED BY <1>1, <1>2, <1>3, <1>5 DEF Partial

\* The rows of a file that have their shape.
LEMMA RowsPartial ==
  ASSUME NEW S, NEW T, NEW file, Partial(file, S, T), NEW f
  PROVE  /\ Partial(Rows(file, f), S, T)
         /\ DOMAIN Rows(file, f) = DOMAIN file \ malformed[f]
         /\ \A x \in DOMAIN file \ malformed[f] : Rows(file, f)[x] = file[x]
  BY DEF Partial, Rows, Restrict

LEMMA ReadPartial ==
  ASSUME FilesInv
  PROVE  /\ Partial(PasswdRows, Uids, Names) /\ OneToOne(PasswdRows)
         /\ Partial(ShadowRows, Names, Passwords)
<1>1. Partial(PasswdRows, Uids, Names) /\ Partial(ShadowRows, Names, Passwords)
  BY RowsPartial DEF FilesInv, PasswdRows, ShadowRows
<1>2. OneToOne(PasswdRows)
  <2>1. /\ DOMAIN PasswdRows \subseteq DOMAIN passwdFile
        /\ \A u \in DOMAIN PasswdRows : PasswdRows[u] = passwdFile[u]
    BY DEF PasswdRows, Rows, Restrict
  <2> QED BY <2>1 DEF FilesInv, OneToOne
<1> QED BY <1>1, <1>2

----------------------------------------------------------------------------
(* Reading *)

\* get_shadow_data: one row per number, under the number of its name.
LEMMA ShadowsKeyed ==
  ASSUME NEW known, Partial(known, Names, Uids), FilesInv, NEW sh \in ShadowsRead(known)
  PROVE  /\ ShadowKeys(known, sh, TRUE)
         /\ \A u \in DOMAIN sh : /\ sh[u].name \in DOMAIN ShadowRows
                                 /\ ShadowRows[sh[u].name] = sh[u].password
         /\ \A n \in DOMAIN ShadowRows \cap DOMAIN known : known[n] \in DOMAIN sh
<1> DEFINE rows(u) == {n \in DOMAIN ShadowRows \cap DOMAIN known : known[n] = u}
           us == {u \in Uids : rows(u) # {}}
<1>1. PICK pick \in [us -> Names] :
        /\ \A u \in us : pick[u] \in rows(u)
        /\ sh = [u \in us |-> [name |-> pick[u], password |-> ShadowRows[pick[u]]]]
  BY DEF ShadowsRead
<1>2. \A u \in us : /\ pick[u] \in DOMAIN ShadowRows /\ pick[u] \in DOMAIN known
                    /\ known[pick[u]] = u
  BY <1>1
<1>3. \A u \in us : ShadowRows[pick[u]] \in Passwords
  BY <1>2, ReadPartial DEF Partial
<1>4. /\ DOMAIN sh = us
      /\ \A u \in us : sh[u] = [name |-> pick[u], password |-> ShadowRows[pick[u]]]
  BY <1>1
<1>5. sh \in [us -> ShadowRow] /\ us \subseteq Uids
  BY <1>1, <1>3 DEF ShadowRow
<1>6. ASSUME NEW n \in DOMAIN ShadowRows \cap DOMAIN known PROVE known[n] \in us
  <2>1. n \in rows(known[n]) /\ known[n] \in Uids
    BY DEF Partial
  <2> QED BY <2>1
<1> HIDE DEF us, rows
<1> QED BY <1>2, <1>4, <1>5, <1>6 DEF ShadowKeys, Partial

LEMMA FilesStay ==
  ASSUME UNCHANGED files
  PROVE  /\ FilesInv => FilesInv'
         /\ PasswdRows' = PasswdRows /\ ShadowRows' = ShadowRows /\ GroupRows' = GroupRows
  BY DEF files, FilesInv, PasswdRows, ShadowRows, GroupRows, Rows

\* prepare() leaves memory in order, and reads what is stale.
LEMMA PrepareKeeps ==
  ASSUME UsersInv, Prepare, UNCHANGED <<files, counter>>
  PROVE  UsersInv'
<1>1. /\ FilesInv' /\ PasswdRows' = PasswdRows /\ ShadowRows' = ShadowRows
      /\ GroupRows' = GroupRows
  BY FilesStay DEF UsersInv
<1>2. Names2Uid(passwd', nameToUid') /\ DOMAIN nameToUid \subseteq DOMAIN nameToUid'
  <2>1. CASE Stale("passwd")
    <3>1. passwd' = PasswdRows /\ nameToUid' = Over(AntiFunction(PasswdRows), nameToUid)
      BY <2>1 DEF Prepare, NamesRead
    <3>2. /\ Partial(AntiFunction(PasswdRows), Names, Uids)
          /\ DOMAIN AntiFunction(PasswdRows) = Range(PasswdRows)
          /\ \A u \in DOMAIN PasswdRows : AntiFunction(PasswdRows)[PasswdRows[u]] = u
      BY AntiPartial, ReadPartial DEF UsersInv
    <3>3. Partial(nameToUid, Names, Uids)
      BY DEF UsersInv, MemoryInv, Names2Uid
    <3>4. /\ Partial(nameToUid', Names, Uids)
          /\ DOMAIN nameToUid' = Range(PasswdRows) \cup DOMAIN nameToUid
          /\ \A n \in Range(PasswdRows) : nameToUid'[n] = AntiFunction(PasswdRows)[n]
      <4> DEFINE read == AntiFunction(PasswdRows)
      <4>1. Partial(read, Names, Uids)
        BY <3>2
      <4> HIDE DEF read
      <4>2. /\ Partial(Over(read, nameToUid), Names, Uids)
            /\ DOMAIN Over(read, nameToUid) = DOMAIN read \cup DOMAIN nameToUid
            /\ \A n \in DOMAIN read : Over(read, nameToUid)[n] = read[n]
        BY <3>3, <4>1, OverPartial DEF Over
      <4> QED BY <3>1, <3>2, <4>2 DEF read
    <3>5. \A u \in DOMAIN PasswdRows : PasswdRows[u] \in Range(PasswdRows)
      BY DEF Range
    <3> QED BY <3>1, <3>2, <3>4, <3>5, ReadPartial DEF Names2Uid, UsersInv
  <2>2. CASE ~Stale("passwd")
    BY <2>2 DEF Prepare, UsersInv, MemoryInv
  <2> QED BY <2>1, <2>2
<1>3. Partial(nameToUid', Names, Uids)
  BY <1>2 DEF Names2Uid
<1>6. "passwd" \notin unread' =>
        passwd' = PasswdRows /\ \A u \in DOMAIN PasswdRows : nameToUid'[PasswdRows[u]] = u
  <2>1. "passwd" \notin unread' => passwd' = PasswdRows
    BY DEF Prepare, UsersInv, CacheFollowsFiles
  <2> QED BY <1>2, <2>1 DEF Names2Uid
<1>7. "group" \notin unread' => groups' = GroupRows
  BY DEF Prepare, UsersInv, CacheFollowsFiles
<1>8. groups' \in [DOMAIN groups' -> Range(groups')]
  BY DEF Prepare, UsersInv, MemoryInv, GroupRows, Rows, Restrict, Range
<1>4. CASE Stale("shadow")
  <2>1. shadow' \in ShadowsRead(nameToUid') /\ keyed' = TRUE /\ "shadow" \notin unread'
    BY <1>4 DEF Prepare
  <2>2. /\ ShadowKeys(nameToUid', shadow', TRUE)
        /\ \A u \in DOMAIN shadow' : /\ shadow'[u].name \in DOMAIN ShadowRows
                                     /\ ShadowRows[shadow'[u].name] = shadow'[u].password
        /\ \A n \in DOMAIN ShadowRows \cap DOMAIN nameToUid' :
             nameToUid'[n] \in DOMAIN shadow'
    BY <1>3, <2>1, ShadowsKeyed DEF UsersInv
  <2>3. MemoryInv'
    BY <1>2, <1>8, <2>1, <2>2 DEF UsersInv, MemoryInv
  <2>4. NoRowMissing'
    BY <1>1, <2>1, <2>2 DEF NoRowMissing
  <2>5. CacheFollowsFiles'
    BY <1>1, <1>6, <1>7, <2>1, <2>2 DEF CacheFollowsFiles
  <2> QED BY <1>1, <2>3, <2>4, <2>5 DEF UsersInv
<1>5. CASE ~Stale("shadow")
  <2>1. shadow' = shadow /\ keyed' = (keyed /\ ~Stale("passwd"))
    BY <1>5 DEF Prepare
  <2>2. MemoryInv'
    <3>1. ShadowKeys(nameToUid', shadow', keyed')
      <4>1. CASE Stale("passwd")
        BY <1>2, <2>1, <4>1 DEF UsersInv, MemoryInv, ShadowKeys
      <4>2. CASE ~Stale("passwd")
        <5>1. nameToUid' = nameToUid
          BY <4>2 DEF Prepare
        <5> QED BY <2>1, <4>2, <5>1 DEF UsersInv, MemoryInv, ShadowKeys
      <4> QED BY <4>1, <4>2
    <3> QED BY <1>2, <1>8, <2>1, <3>1 DEF UsersInv, MemoryInv
  <2>3. "shadow" \in unread' <=> "shadow" \in unread
    BY <1>5 DEF Prepare
  <2>4. NoRowMissing'
    <3>1. keyed' => nameToUid' = nameToUid
      BY <2>1 DEF Prepare
    <3> QED BY <1>1, <2>1, <2>3, <3>1 DEF UsersInv, NoRowMissing
  <2>5. CacheFollowsFiles'
    BY <1>1, <1>6, <1>7, <2>1, <2>3 DEF UsersInv, CacheFollowsFiles
  <2> QED BY <1>1, <2>2, <2>4, <2>5 DEF UsersInv
<1> QED BY <1>4, <1>5

----------------------------------------------------------------------------
(* Writing *)

\* add_user: memory stays in order, and commit makes the files say the same.
LEMMA AddKeeps ==
  ASSUME UsersInv, NEW n \in Names, NEW typed \in Passwords, NEW wanted,
         AddUser(n, typed, wanted)
  PROVE  UsersInv'
<1> DEFINE u == counter + 1
           row == [name |-> n, password |-> typed]
<1>1. /\ n \notin DOMAIN nameToUid /\ counter' = u /\ keyed' = keyed
      /\ nameToUid' = Put(nameToUid, n, u) /\ passwd' = Put(passwd, u, n)
      /\ shadow' = Put(shadow, u, row)
  BY DEF AddUser, NewNumber
<1>2. u \in FirstUid .. MaxUid /\ u \in Uids
  BY ConstantsAssumption DEF UsersInv, MemoryInv, AddUser, Uids, FirstUid
<1>3. row \in ShadowRow
  BY DEF ShadowRow
<1> HIDE DEF u, row
<1>4. Names2Uid(passwd', nameToUid')
  <2>1. Partial(passwd', Uids, Names) /\ Partial(nameToUid', Names, Uids)
    BY <1>1, <1>2 DEF Put, UsersInv, MemoryInv, Names2Uid, Partial
  <2>2. ASSUME NEW v \in DOMAIN passwd'
        PROVE  passwd'[v] \in DOMAIN nameToUid' /\ nameToUid'[passwd'[v]] = v
    <3>1. CASE v = u
      BY <1>1, <2>2, <3>1 DEF Put
    <3>2. CASE v # u
      <4>1. v \in DOMAIN passwd /\ passwd'[v] = passwd[v]
        BY <1>1, <2>2, <3>2 DEF Put
      <4>2. passwd[v] \in DOMAIN nameToUid /\ nameToUid[passwd[v]] = v
        BY <4>1 DEF UsersInv, MemoryInv, Names2Uid
      <4> QED BY <1>1, <4>1, <4>2 DEF Put
    <3> QED BY <3>1, <3>2
  <2> QED BY <2>1, <2>2 DEF Names2Uid
<1>5. ShadowKeys(nameToUid', shadow', keyed')
  <2>1. Partial(shadow', Uids, ShadowRow)
    BY <1>1, <1>2, <1>3 DEF Put, UsersInv, MemoryInv, ShadowKeys, Partial
  <2>2. /\ DOMAIN shadow' = DOMAIN shadow \cup {u} /\ shadow'[u] = row
        /\ \A v \in DOMAIN shadow \ {u} : shadow'[v] = shadow[v]
    BY <1>1 DEF Put
  <2>3. \A v \in DOMAIN shadow \ {u} :
          /\ shadow'[v].name \in DOMAIN nameToUid /\ shadow'[v].name # n
          /\ nameToUid'[shadow'[v].name] = nameToUid[shadow[v].name]
    BY <1>1, <2>2 DEF Put, UsersInv, MemoryInv, ShadowKeys
  <2>4. row.name = n /\ nameToUid'[n] = u /\ DOMAIN nameToUid' = DOMAIN nameToUid \cup {n}
    BY <1>1 DEF Put, row
  <2>5. \A v, w \in DOMAIN shadow : shadow[v].name = shadow[w].name => v = w
    BY DEF UsersInv, MemoryInv, ShadowKeys
  <2>6. keyed => \A v \in DOMAIN shadow : nameToUid[shadow[v].name] = v
    BY DEF UsersInv, MemoryInv, ShadowKeys
  <2>7. \A v, w \in DOMAIN shadow' : shadow'[v].name = shadow'[w].name => v = w
    BY <2>2, <2>3, <2>4, <2>5
  <2> QED BY <1>1, <2>1, <2>2, <2>3, <2>4, <2>6, <2>7 DEF ShadowKeys
<1>6. MemoryInv'
  <2>1. groups' \in [DOMAIN groups' -> Range(groups')]
    BY DEF AddUser, Grouped, Joined, Put, Range
  <2> QED BY <1>1, <1>2, <1>4, <1>5, <2>1 DEF UsersInv, MemoryInv
<1>7. /\ passwdFile' = passwd' /\ groupFile' = groups' /\ unread' = {}
      /\ malformed' = [f \in DbFiles |-> {}]
      /\ shadowFile' = [m \in {shadow'[v].name : v \in DOMAIN shadow'} |->
                         (CHOOSE r \in Range(shadow') : r.name = m).password]
  BY DEF AddUser, Commit
<1>8. ASSUME NEW v \in DOMAIN shadow'
      PROVE  /\ shadow'[v].name \in DOMAIN shadowFile'
             /\ shadowFile'[shadow'[v].name] = shadow'[v].password
  <2>1. shadow'[v] \in Range(shadow')
    BY DEF Range
  <2>2. \A r \in Range(shadow') : r.name = shadow'[v].name => r = shadow'[v]
    BY <1>5 DEF Range, ShadowKeys
  <2>3. (CHOOSE r \in Range(shadow') : r.name = shadow'[v].name) = shadow'[v]
    BY <2>1, <2>2
  <2> QED BY <1>7, <2>3
<1>9. FilesInv'
  <2>1. Partial(passwdFile', Uids, Names) /\ OneToOne(passwdFile')
    BY <1>4, <1>7 DEF Names2Uid, OneToOne
  <2>2. Partial(shadowFile', Names, Passwords)
    <3>1. \A v \in DOMAIN shadow' : shadow'[v].name \in Names /\ shadow'[v].password \in Passwords
      BY <1>5 DEF ShadowKeys, Partial, ShadowRow
    <3>2. DOMAIN shadowFile' = {shadow'[v].name : v \in DOMAIN shadow'}
      BY <1>7
    <3>3. \A m \in DOMAIN shadowFile' : m \in Names /\ shadowFile'[m] \in Passwords
      BY <1>8, <3>1, <3>2
    <3>4. shadowFile' = [m \in DOMAIN shadowFile' |-> shadowFile'[m]]
      BY <1>7
    <3> QED BY <3>3, <3>4 DEF Partial
  <2>3. groupFile' \in [DOMAIN groupFile' -> Range(groupFile')]
    BY <1>6, <1>7 DEF MemoryInv
  <2> QED BY <1>7, <2>1, <2>2, <2>3 DEF FilesInv
<1>10. PasswdRows' = passwd' /\ ShadowRows' = shadowFile' /\ GroupRows' = groups'
  <2>1. \A f \in DbFiles : malformed'[f] = {}
    BY <1>7
  <2>2. /\ passwd' = [x \in DOMAIN passwd' |-> passwd'[x]]
        /\ groups' = [x \in DOMAIN groups' |-> groups'[x]]
        /\ shadowFile' = [x \in DOMAIN shadowFile' |-> shadowFile'[x]]
    BY <1>6, <1>7 DEF MemoryInv, Names2Uid, Partial
  <2> QED BY <1>7, <2>1, <2>2
          DEF PasswdRows, ShadowRows, GroupRows, Rows, Restrict, DbFiles
<1>11. NoRowMissing'
  <2>1. DOMAIN shadowFile' = {shadow'[v].name : v \in DOMAIN shadow'}
    BY <1>7
  <2>2. keyed' => \A v \in DOMAIN shadow' : nameToUid'[shadow'[v].name] = v
    BY <1>5 DEF ShadowKeys
  <2> QED BY <1>10, <2>1, <2>2 DEF NoRowMissing
<1>12. CacheFollowsFiles'
  BY <1>4, <1>8, <1>10 DEF CacheFollowsFiles, Names2Uid
<1> QED BY <1>6, <1>9, <1>11, <1>12 DEF UsersInv

\* An edit of one file leaves memory and the rows of the others alone.
LEMMA EditKeeps ==
  ASSUME UsersInv, NEW u, NEW f \in DbFiles, NEW k, Write(u, f),
         FilesInv', WellFormed(f, k) \/ Malformed(f, k),
         f # "passwd" => UNCHANGED passwdFile,
         f # "shadow" => UNCHANGED shadowFile,
         f # "group" => UNCHANGED groupFile
  PROVE  UsersInv'
<1>1. unread' = unread \cup {f} /\ UNCHANGED <<memory, counter, keyed>>
  BY DEF Write
<1>2. \A g \in DbFiles \ {f} : malformed'[g] = malformed[g]
  BY DEF WellFormed, Malformed, UsersInv, FilesInv
<1>3. /\ f # "passwd" => PasswdRows' = PasswdRows
      /\ f # "shadow" => ShadowRows' = ShadowRows
      /\ f # "group" => GroupRows' = GroupRows
  BY <1>2 DEF PasswdRows, ShadowRows, GroupRows, Rows, DbFiles
<1>4. MemoryInv'
  BY <1>1 DEF memory, UsersInv, MemoryInv
<1>5. NoRowMissing' /\ CacheFollowsFiles'
  BY <1>1, <1>3 DEF memory, UsersInv, NoRowMissing, CacheFollowsFiles
<1> QED BY <1>4, <1>5 DEF UsersInv

LEMMA EditPasswdKeeps ==
  ASSUME UsersInv, NEW s \in Sessions, EditPasswd(s)
  PROVE  UsersInv'
<1>1. Write(uid[s], "passwd") /\ UNCHANGED <<shadowFile, groupFile>>
  BY DEF EditPasswd
<1>2. Partial(passwdFile, Uids, Names) /\ OneToOne(passwdFile)
  BY DEF UsersInv, FilesInv
<1>3. PICK u \in Uids :
        \/ passwdFile' = Drop(passwdFile, u) /\ WellFormed("passwd", u)
        \/ \E n \in Names :
             /\ n \notin Range(passwdFile)
             /\ passwdFile' = Put(passwdFile, u, n) /\ WellFormed("passwd", u)
        \/ \E v \in Uids \ DOMAIN passwdFile :
             /\ u \in DOMAIN passwdFile
             /\ passwdFile' = Put(Drop(passwdFile, u), v, passwdFile[u])
             /\ WellFormed("passwd", u)
        \/ Malformed("passwd", u) /\ UNCHANGED passwdFile
  BY DEF EditPasswd
<1>4. WellFormed("passwd", u) \/ Malformed("passwd", u)
  BY <1>3
<1>5. Partial(passwdFile', Uids, Names) /\ OneToOne(passwdFile')
  <2>1. CASE passwdFile' = Drop(passwdFile, u)
    BY <1>2, <2>1 DEF Drop, Restrict, Partial, OneToOne
  <2>2. ASSUME NEW n \in Names, n \notin Range(passwdFile), passwdFile' = Put(passwdFile, u, n)
        PROVE  Partial(passwdFile', Uids, Names) /\ OneToOne(passwdFile')
    BY <1>2, <2>2 DEF Put, Range, Partial, OneToOne
  <2>3. ASSUME NEW v \in Uids \ DOMAIN passwdFile, u \in DOMAIN passwdFile,
               passwdFile' = Put(Drop(passwdFile, u), v, passwdFile[u])
        PROVE  Partial(passwdFile', Uids, Names) /\ OneToOne(passwdFile')
    BY <1>2, <2>3 DEF Put, Drop, Restrict, Partial, OneToOne
  <2>4. CASE UNCHANGED passwdFile
    BY <1>2, <2>4 DEF OneToOne
  <2> QED BY <1>3, <2>1, <2>2, <2>3, <2>4
<1>6. FilesInv'
  BY <1>1, <1>4, <1>5 DEF UsersInv, FilesInv, WellFormed, Malformed
<1> QED BY <1>1, <1>4, <1>6, EditKeeps DEF DbFiles

LEMMA EditShadowKeeps ==
  ASSUME UsersInv, NEW s \in Sessions, EditShadow(s)
  PROVE  UsersInv'
<1>1. Write(uid[s], "shadow") /\ UNCHANGED <<passwdFile, groupFile>>
  BY DEF EditShadow
<1>2. Partial(shadowFile, Names, Passwords)
  BY DEF UsersInv, FilesInv
<1>3. PICK n \in Names :
        \/ shadowFile' = Drop(shadowFile, n) /\ WellFormed("shadow", n)
        \/ \E p \in Passwords : shadowFile' = Put(shadowFile, n, p) /\ WellFormed("shadow", n)
        \/ Malformed("shadow", n) /\ UNCHANGED shadowFile
  BY DEF EditShadow
<1>4. WellFormed("shadow", n) \/ Malformed("shadow", n)
  BY <1>3
<1>5. Partial(shadowFile', Names, Passwords)
  BY <1>2, <1>3 DEF Put, Drop, Restrict, Partial
<1>6. FilesInv'
  BY <1>1, <1>4, <1>5 DEF UsersInv, FilesInv, WellFormed, Malformed, OneToOne
<1> QED BY <1>1, <1>4, <1>6, EditKeeps DEF DbFiles

LEMMA EditGroupKeeps ==
  ASSUME UsersInv, NEW s \in Sessions, EditGroup(s)
  PROVE  UsersInv'
<1>1. Write(uid[s], "group") /\ UNCHANGED <<passwdFile, shadowFile>>
  BY DEF EditGroup
<1>2. PICK g \in DOMAIN groupFile :
        \/ \E n \in Names :
             /\ groupFile' = [groupFile EXCEPT ![g].members =
                                IF n \in @ THEN @ \ {n} ELSE @ \cup {n}]
             /\ WellFormed("group", g)
        \/ Malformed("group", g) /\ UNCHANGED groupFile
  BY DEF EditGroup
<1>3. WellFormed("group", g) \/ Malformed("group", g)
  BY <1>2
<1>4. groupFile' \in [DOMAIN groupFile' -> Range(groupFile')]
  <2>1. groupFile = [h \in DOMAIN groupFile |-> groupFile[h]]
    BY DEF UsersInv, FilesInv
  <2>2. groupFile' = [h \in DOMAIN groupFile' |-> groupFile'[h]]
    BY <1>2, <2>1
  <2> QED BY <2>2 DEF Range
<1>5. FilesInv'
  BY <1>1, <1>3, <1>4 DEF UsersInv, FilesInv, WellFormed, Malformed, OneToOne
<1> QED BY <1>1, <1>3, <1>5, EditKeeps DEF DbFiles

----------------------------------------------------------------------------
LEMMA UsersInit == Init => UsersInv
<1> SUFFICES ASSUME Init PROVE UsersInv
  OBVIOUS
<1>1. PICK pw \in [{Root, First} -> Passwords] :
        /\ passwdFile = FirstPasswd /\ passwd = FirstPasswd /\ shadowFile = pw
        /\ shadow = [u \in {RootUid, FirstUid} |->
                       [name |-> FirstPasswd[u], password |-> pw[FirstPasswd[u]]]]
        /\ nameToUid = [n \in {Root, First} |-> IF n = Root THEN RootUid ELSE FirstUid]
        /\ groupFile = groups /\ malformed = [f \in DbFiles |-> {}]
        /\ counter = FirstUid /\ unread = {} /\ keyed = TRUE
  BY DEF Init
<1>2. {RootUid, FirstUid} \subseteq Uids /\ {Root, First} \subseteq Names
      /\ FirstUid \in FirstUid .. MaxUid /\ RootUid # FirstUid /\ Root # First
  BY ConstantsAssumption DEF RootUid, FirstUid, Uids, Root, First, Names
<1>3. /\ DOMAIN FirstPasswd = {RootUid, FirstUid}
      /\ FirstPasswd[RootUid] = Root /\ FirstPasswd[FirstUid] = First
      /\ FirstPasswd \in [{RootUid, FirstUid} -> {Root, First}]
  BY <1>2 DEF FirstPasswd
<1>4. groups \in [DOMAIN groups -> Range(groups)]
  <2>1. groups = [g \in DOMAIN groups |-> groups[g]]
    BY DEF Init
  <2> QED BY <2>1 DEF Range
<1>5. FilesInv
  <2>1. Partial(passwdFile, Uids, Names) /\ OneToOne(passwdFile)
    BY <1>1, <1>2, <1>3 DEF Partial, OneToOne
  <2>2. Partial(shadowFile, Names, Passwords)
    BY <1>1, <1>2 DEF Partial
  <2> QED BY <1>1, <1>4, <2>1, <2>2 DEF FilesInv
<1>6. /\ DOMAIN shadow = {RootUid, FirstUid}
      /\ shadow[RootUid] = [name |-> Root, password |-> pw[Root]]
      /\ shadow[FirstUid] = [name |-> First, password |-> pw[First]]
      /\ DOMAIN nameToUid = {Root, First}
      /\ nameToUid[Root] = RootUid /\ nameToUid[First] = FirstUid
  BY <1>1, <1>2, <1>3
<1>7. Names2Uid(passwd, nameToUid)
  BY <1>1, <1>2, <1>3, <1>6 DEF Names2Uid, Partial
<1>8. ShadowKeys(nameToUid, shadow, keyed)
  <2>1. Partial(shadow, Uids, ShadowRow)
    <3>1. \A u \in {RootUid, FirstUid} : shadow[u] \in ShadowRow
      BY <1>2, <1>6 DEF ShadowRow
    <3> QED BY <1>1, <1>2, <1>6, <3>1 DEF Partial
  <2> QED BY <1>2, <1>6, <2>1 DEF ShadowKeys
<1>9. PasswdRows = passwdFile /\ ShadowRows = shadowFile /\ GroupRows = groupFile
  BY <1>1, <1>4, <1>5 DEF PasswdRows, ShadowRows, GroupRows, Rows, Restrict, DbFiles,
                          FilesInv, Partial
<1>10. NoRowMissing
  BY <1>1, <1>6, <1>9 DEF NoRowMissing
<1>11. CacheFollowsFiles
  BY <1>1, <1>2, <1>3, <1>6, <1>9 DEF CacheFollowsFiles
<1> QED BY <1>1, <1>2, <1>4, <1>5, <1>7, <1>8, <1>10, <1>11 DEF UsersInv, MemoryInv

LEMMA UsersStep == UsersInv /\ [Next]_vars => UsersInv'
<1> SUFFICES ASSUME UsersInv, [Next]_vars PROVE UsersInv'
  OBVIOUS
<1>1. CASE Tick \/ UNCHANGED users \/ UNCHANGED vars
  <2>1. UNCHANGED <<files, memory, counter, unread, keyed>>
    BY <1>1 DEF Tick, users, vars, files, memory
  <2>2. /\ FilesInv' /\ PasswdRows' = PasswdRows /\ ShadowRows' = ShadowRows
        /\ GroupRows' = GroupRows
    BY <2>1, FilesStay DEF UsersInv
  <2> QED BY <2>1, <2>2
          DEF memory, UsersInv, MemoryInv, NoRowMissing, CacheFollowsFiles
<1>2. ASSUME NEW s \in Sessions, EditPasswd(s) \/ EditShadow(s) \/ EditGroup(s)
      PROVE  UsersInv'
  BY <1>2, EditPasswdKeeps, EditShadowKeeps, EditGroupKeeps
<1>3. ASSUME NEW s \in Sessions, NEW n \in Names, NEW p \in Passwords, Login(s, n, p)
      PROVE  UsersInv'
  BY <1>3, PrepareKeeps DEF Login
<1>4. ASSUME NEW s \in Sessions, NEW n \in NewNames, NEW p \in Passwords, NEW w,
             AddUser(n, p, w)
      PROVE  UsersInv'
  BY <1>4, AddKeeps DEF Names
<1>5. CASE Next
  <2>1. ASSUME NEW s \in Sessions, Commands(s) PROVE UsersInv'
    BY <1>1, <1>2, <1>3, <1>4, <2>1, Zenon DEF Commands, UserAdd, SudoAsk
  <2>2. ASSUME NEW s \in Sessions, Answers(s) PROVE UsersInv'
    BY <1>1, <1>4, <2>2, Zenon DEF Answers, SudoWrong, SudoOther, SudoUserAdd
  <2> QED BY <1>1, <1>5, <2>1, <2>2, Zenon DEF Next
<1> QED BY <1>1, <1>5

LEMMA UsersInvariant == Spec => []UsersInv
  BY UsersInit, UsersStep, PTL DEF Spec

\* Memory and files agree but for edits nobody has read (prepare and commit).
THEOREM MemoryFollowsFiles == Spec => []CacheFollowsFiles
<1>1. UsersInv => CacheFollowsFiles
  BY DEF UsersInv
<1> QED BY <1>1, UsersInvariant, PTL

----------------------------------------------------------------------------
\* The rows of passwd and shadow, and memory: what nothing unread, shadow rows
\* that are keyed and no leftovers make of the invariant.
Agreed(rows, srows, sh, names) ==
  /\ \A u \in DOMAIN rows : rows[u] \in DOMAIN names /\ names[rows[u]] = u
  /\ \A u \in DOMAIN sh : /\ sh[u].name \in DOMAIN srows
                          /\ srows[sh[u].name] = sh[u].password
                          /\ names[sh[u].name] = u
  /\ \A n \in DOMAIN srows \cap DOMAIN names : names[n] \in DOMAIN sh
  /\ DOMAIN srows \subseteq Range(rows)

\* Then a number has the shadow row of its name.
LEMMA RowOfItsUser ==
  ASSUME NEW rows, NEW srows, NEW sh, NEW names, Agreed(rows, srows, sh, names),
         NEW u \in DOMAIN rows
  PROVE  /\ u \in DOMAIN sh => /\ sh[u].name = rows[u]
                               /\ rows[u] \in DOMAIN srows
                               /\ srows[rows[u]] = sh[u].password
         /\ rows[u] \in DOMAIN srows => u \in DOMAIN sh
<1>1. ASSUME u \in DOMAIN sh PROVE sh[u].name = rows[u]
  <2>1. PICK v \in DOMAIN rows : rows[v] = sh[u].name
    BY <1>1 DEF Agreed, Range
  <2> QED BY <1>1, <2>1 DEF Agreed
<1> QED BY <1>1 DEF Agreed

LEMMA NowAgreed ==
  ASSUME UsersInv, unread = {}, keyed, NoLeftovers
  PROVE  passwd = PasswdRows /\ Agreed(PasswdRows, ShadowRows, shadow, nameToUid)
  BY DEF UsersInv, CacheFollowsFiles, MemoryInv, ShadowKeys, Names2Uid, NoRowMissing,
         NoLeftovers, Agreed

\* What memory makes of a name and a password is what the files make of it, but
\* for a name that is gone from them.
LEMMA ByTheFiles ==
  ASSUME NEW names, NEW sh, NEW n, NEW typed,
         Agreed(PasswdRows, ShadowRows, sh, names)
  PROVE  LET ok == Authenticates(names, PasswdRows, sh, n, typed) IN
         /\ FilesAccept(n, typed) => ok
         /\ ok => \/ FilesAccept(n, typed)
                  \/ n \notin Range(PasswdRows) /\ names[n] \in DOMAIN PasswdRows
<1>1. CASE n \in Range(PasswdRows)
  <2>1. PICK u \in DOMAIN PasswdRows : n = PasswdRows[u]
    BY <1>1 DEF Range
  <2>2. n \in DOMAIN names /\ names[n] = u
    BY <2>1 DEF Agreed
  <2>3. Authenticates(names, PasswdRows, sh, n, typed) <=>
          u \in DOMAIN sh /\ sh[u].password = typed
    BY <2>1, <2>2 DEF Authenticates
  <2> QED BY <1>1, <2>1, <2>3, RowOfItsUser DEF FilesAccept
<1>2. CASE n \notin Range(PasswdRows)
  BY <1>2 DEF FilesAccept, Authenticates
<1> QED BY <1>1, <1>2

\* What a step may be, as far as last and counter tell.
LEMMA StepKinds ==
  ASSUME Next
  PROVE  \/ last' = Nothing /\ counter' = counter
         \/ \E s \in Sessions, n \in Names, p \in Passwords : Login(s, n, p)
         \/ \E s \in Sessions, own \in Passwords : SudoAnswer(s, own) /\ counter' = counter
         \/ \E n \in NewNames, p \in Passwords, w \in SUBSET {Shared} :
              /\ AddUser(n, p, w)
              /\ \/ last' = Nothing
                 \/ \E s \in Sessions, own \in Passwords : SudoAnswer(s, own)
<1> DEFINE Adds == \E n \in NewNames, p \in Passwords, w \in SUBSET {Shared} :
                     /\ AddUser(n, p, w)
                     /\ \/ last' = Nothing
                        \/ \E s \in Sessions, own \in Passwords : SudoAnswer(s, own)
<1>1. CASE Tick
  BY <1>1 DEF Tick
<1>2. ASSUME NEW s \in Sessions, EditPasswd(s) \/ EditShadow(s) \/ EditGroup(s)
      PROVE  last' = Nothing /\ counter' = counter
  <2>1. \E f : Write(uid[s], f)
    <3>1. CASE EditPasswd(s)
      BY <3>1, Zenon DEF EditPasswd
    <3>2. CASE EditShadow(s)
      BY <3>2, Zenon DEF EditShadow
    <3>3. CASE EditGroup(s)
      BY <3>3, Zenon DEF EditGroup
    <3> QED BY <1>2, <3>1, <3>2, <3>3
  <2> QED BY <2>1 DEF Write
<1>3. ASSUME NEW s \in Sessions, SudoAsk(s)
      PROVE  last' = Nothing /\ counter' = counter
  BY <1>3 DEF SudoAsk, users
<1>4. ASSUME NEW s \in Sessions, NEW n \in NewNames, NEW p \in Passwords,
             NEW w \in SUBSET {Shared}, UserAdd(s, n, p, w)
      PROVE  Adds
  BY <1>4, Zenon DEF UserAdd
<1>5. ASSUME NEW s \in Sessions, NEW own \in Passwords,
             SudoWrong(s, own) \/ SudoOther(s, own)
      PROVE  SudoAnswer(s, own) /\ counter' = counter
  BY <1>5 DEF SudoWrong, SudoOther, SudoRight, users
<1>6. ASSUME NEW s \in Sessions, NEW own \in Passwords, NEW n \in NewNames,
             NEW p \in Passwords, NEW w \in SUBSET {Shared}, SudoUserAdd(s, own, n, p, w)
      PROVE  Adds
  BY <1>6, Zenon DEF SudoUserAdd, SudoRight
<1> HIDE DEF Adds
<1>7. ASSUME NEW s \in Sessions, Commands(s)
      PROVE  \/ last' = Nothing /\ counter' = counter
             \/ \E n \in Names, p \in Passwords : Login(s, n, p)
             \/ Adds
  BY <1>2, <1>3, <1>4, <1>7, Zenon DEF Commands
<1>8. ASSUME NEW s \in Sessions, Answers(s)
      PROVE  Adds \/ \E own \in Passwords : SudoAnswer(s, own) /\ counter' = counter
  BY <1>5, <1>6, <1>8, Zenon DEF Answers
<1> QED BY <1>1, <1>7, <1>8, Zenon DEF Next, Adds

\* login (which prepares first) accepts what the files say, but in the cases
\* LoginFollowsFiles names.
THEOREM LoginIsByTheFiles == Spec => LoginFollowsFiles
<1> DEFINE Ok == (last'.op = "login" /\ unread' = {} /\ keyed' /\ NoLeftovers) =>
                   /\ FilesAccept(last'.name, last'.typed) => last'.ok
                   /\ last'.ok => \/ FilesAccept(last'.name, last'.typed)
                                  \/ /\ last'.name \notin Range(PasswdRows)
                                     /\ nameToUid'[last'.name] \in DOMAIN PasswdRows
<1>1. ASSUME UsersInv, UsersInv', [Next]_vars PROVE [Ok]_vars
  <2> SUFFICES ASSUME Next, last'.op = "login", unread' = {}, keyed', NoLeftovers
               PROVE  /\ FilesAccept(last'.name, last'.typed) => last'.ok
                      /\ last'.ok => \/ FilesAccept(last'.name, last'.typed)
                                     \/ /\ last'.name \notin Range(PasswdRows)
                                        /\ nameToUid'[last'.name] \in DOMAIN PasswdRows
    BY <1>1
  <2>1. PICK s \in Sessions, n \in Names, p \in Passwords : Login(s, n, p)
    BY StepKinds DEF Nothing, SudoAnswer
  <2>2. /\ last'.name = n /\ last'.typed = p
        /\ last'.ok = Authenticates(nameToUid', passwd', shadow', n, p)
    BY <2>1 DEF Login
  <2>3. PasswdRows' = PasswdRows /\ ShadowRows' = ShadowRows
    BY <2>1, FilesStay DEF Login
  <2>4. passwd' = PasswdRows /\ Agreed(PasswdRows, ShadowRows, shadow', nameToUid')
    BY <1>1, <2>3 DEF UsersInv, CacheFollowsFiles, MemoryInv, ShadowKeys, Names2Uid,
                      NoRowMissing, NoLeftovers, Agreed
  <2> QED BY <2>2, <2>4, ByTheFiles
<1> QED BY <1>1, UsersInvariant, UsersStep, PTL DEF Spec, LoginFollowsFiles

\* sudo, which does not prepare, accepts what the files say of the name it asked
\* the password for, whatever came between the question and the answer, but in
\* the cases SudoFollowsFiles names.
THEOREM SudoIsByTheFiles == Spec => SudoFollowsFiles
<1> DEFINE Ok == (last'.op = "sudo" /\ unread = {} /\ keyed /\ NoLeftovers) =>
                   /\ FilesAccept(last'.name, last'.typed) => last'.ok
                   /\ last'.ok => \/ FilesAccept(last'.name, last'.typed)
                                  \/ /\ last'.name \notin Range(PasswdRows)
                                     /\ nameToUid[last'.name] \in DOMAIN PasswdRows
<1>1. ASSUME UsersInv, [Next]_vars PROVE [Ok]_vars
  <2> SUFFICES ASSUME Next, last'.op = "sudo", unread = {}, keyed, NoLeftovers
               PROVE  /\ FilesAccept(last'.name, last'.typed) => last'.ok
                      /\ last'.ok => \/ FilesAccept(last'.name, last'.typed)
                                     \/ /\ last'.name \notin Range(PasswdRows)
                                        /\ nameToUid[last'.name] \in DOMAIN PasswdRows
    BY <1>1
  <2>1. PICK s \in Sessions, own \in Passwords : SudoAnswer(s, own)
    BY StepKinds DEF Nothing, Login
  <2>2. /\ last'.typed = own
        /\ last'.ok = Authenticates(nameToUid, passwd, shadow, last'.name, own)
    BY <2>1 DEF SudoAnswer, SudoAccepts
  <2>3. passwd = PasswdRows /\ Agreed(PasswdRows, ShadowRows, shadow, nameToUid)
    BY <1>1, NowAgreed
  <2> QED BY <2>2, <2>3, ByTheFiles
<1> QED BY <1>1, UsersInvariant, PTL DEF Spec, SudoFollowsFiles

\* useradd, which writes three files whole (commit), keeps the rows of everybody
\* else, but in the cases AddKeepsUsers names.
THEOREM UserAddKeepsOthers == Spec => AddKeepsUsers
<1> DEFINE Ok == counter' = counter + 1 /\ unread = {} =>
        /\ \A u \in DOMAIN PasswdRows \ {counter'} :
             u \in DOMAIN passwdFile' /\ passwdFile'[u] = PasswdRows[u]
        /\ (keyed /\ NoLeftovers) =>
             \A u \in DOMAIN PasswdRows \ {counter'} :
               PasswdRows[u] \in DOMAIN ShadowRows =>
                 /\ PasswdRows[u] \in DOMAIN shadowFile'
                 /\ shadowFile'[PasswdRows[u]] = ShadowRows[PasswdRows[u]]
<1>1. ASSUME UsersInv, UsersInv', [Next]_vars PROVE [Ok]_vars
  <2> SUFFICES ASSUME Next, counter' = counter + 1, unread = {},
                      NEW u \in DOMAIN PasswdRows \ {counter'}
               PROVE  /\ u \in DOMAIN passwdFile' /\ passwdFile'[u] = PasswdRows[u]
                      /\ keyed /\ NoLeftovers /\ PasswdRows[u] \in DOMAIN ShadowRows =>
                           /\ PasswdRows[u] \in DOMAIN shadowFile'
                           /\ shadowFile'[PasswdRows[u]] = ShadowRows[PasswdRows[u]]
    BY <1>1
  <2>1. counter \in Nat
    BY <1>1 DEF UsersInv, MemoryInv, FirstUid
  <2>2. PICK n \in NewNames, p \in Passwords, w \in SUBSET {Shared} : AddUser(n, p, w)
    BY <2>1, StepKinds DEF Login, SudoAnswer
  <2>3. /\ passwdFile' = Put(passwd, counter', n) /\ malformed' = [f \in DbFiles |-> {}]
        /\ shadow' = Put(shadow, counter', [name |-> n, password |-> p])
        /\ unread' = {}
    BY <2>2 DEF AddUser, Commit, NewNumber
  <2>4. passwd = PasswdRows
    BY <1>1 DEF UsersInv, CacheFollowsFiles
  <2>5. u \in DOMAIN passwdFile' /\ passwdFile'[u] = PasswdRows[u]
    BY <2>3, <2>4 DEF Put
  <2>6. ASSUME keyed, NoLeftovers, PasswdRows[u] \in DOMAIN ShadowRows
        PROVE  /\ PasswdRows[u] \in DOMAIN shadowFile'
               /\ shadowFile'[PasswdRows[u]] = ShadowRows[PasswdRows[u]]
    <3>1. Agreed(PasswdRows, ShadowRows, shadow, nameToUid)
      BY <1>1, <2>6, NowAgreed
    <3>2. /\ u \in DOMAIN shadow /\ shadow[u].name = PasswdRows[u]
          /\ shadow[u].password = ShadowRows[PasswdRows[u]]
      BY <2>6, <3>1, RowOfItsUser
    <3>3. u \in DOMAIN shadow' /\ shadow'[u] = shadow[u]
      BY <2>3, <3>2 DEF Put
    <3>4. /\ shadow'[u].name \in DOMAIN ShadowRows'
          /\ ShadowRows'[shadow'[u].name] = shadow'[u].password
      BY <1>1, <2>3, <3>3 DEF UsersInv, CacheFollowsFiles
    <3>5. /\ DOMAIN ShadowRows' \subseteq DOMAIN shadowFile'
          /\ \A m \in DOMAIN ShadowRows' : ShadowRows'[m] = shadowFile'[m]
      BY DEF ShadowRows, Rows, Restrict
    <3> QED BY <3>2, <3>3, <3>4, <3>5
  <2> QED BY <2>5, <2>6
<1> QED BY <1>1, UsersInvariant, UsersStep, PTL DEF Spec, AddKeepsUsers
=============================================================================
