------------------------------- MODULE Users -------------------------------
(* tech/users_mgr: UsersManager keeps the users of a host in memory, beside   *)
(* the files it reads them from and writes them to, /etc/passwd, /etc/shadow  *)
(* and /etc/group; login, sudo and useradd are the programs that use it.      *)
(*                                                                            *)
(* The files can also be written by an editor or a redirection.  Memory is    *)
(* refreshed by prepare(), which only login and the boot call, and only when  *)
(* the modification time of a file, in whole seconds, is not the one cached.  *)
(* Writing the files back (commit) goes past FileSystem::write and leaves     *)
(* their modification times alone.                                            *)
(*                                                                            *)
(* A row is what the programs use of it: passwd maps a uid to a name, shadow  *)
(* a name to a password (its hash), group a gid to a name and its members.    *)
(* The gid of a user is the number of its uid, as useradd hands them out.     *)
(*                                                                            *)
(* login reads name and password before it looks at either, so it is one      *)
(* step.  sudo looks up the name of the session's user first and waits for    *)
(* the password then, up to three times: a prompt is open in between, and the *)
(* other sessions go on.  (So does its own, when sudo runs in the background; *)
(* whether that one edits and logs in or another makes no difference to it.)  *)
EXTENDS Integers, FiniteSets, Functions

CONSTANTS Sessions,    \* shells with a session leader of their own
          NewNames,    \* names useradd is called with
          Sudoers,     \* names that occur in /etc/sudoers
          Passwords,   \* what is typed, identified with its hash
          MaxUid,      \* bound on uids
          MaxClock,    \* bound on the seconds that pass
          MaxEdits,    \* bound on the writes by an editor
          MaxPrompts   \* bound on the prompts that are open at a time

Root == "root"
First == "fredr"       \* the user the constructor of BasicOS adds
Shared == "users"      \* stands for the groups of the initial file
RootUid == 0
FirstUid == 1000
SharedGid == 100

SudoMaxTries == 3

NoNumber == -1         \* what a column that is no number is read as

Names == {Root, First} \cup NewNames
Uids == {NoNumber, RootUid} \cup (FirstUid .. MaxUid)
DbFiles == {"passwd", "shadow", "group"}

ASSUME ConstantsAssumption ==
  /\ NewNames \cap {Root, First, Shared} = {}
  /\ Sudoers \subseteq Names
  /\ MaxUid \in Nat /\ MaxUid >= FirstUid
  /\ MaxClock \in Nat /\ MaxEdits \in Nat /\ MaxPrompts \in Nat

\* Partial functions: f with one entry more or less, g laid over f.
Put(f, k, v) == [x \in DOMAIN f \cup {k} |-> IF x = k THEN v ELSE f[x]]
Drop(f, k) == Restrict(f, DOMAIN f \ {k})
Over(g, f) == [x \in DOMAIN g \cup DOMAIN f |-> IF x \in DOMAIN g THEN g[x] ELSE f[x]]

VARIABLES
  passwdFile,   \* [uid -> name]
  shadowFile,   \* [name -> password]
  groupFile,    \* [gid -> [name, members]]
  malformed,    \* [DbFiles]: the rows with a column too many or too few
  modified,     \* [DbFiles]: get_last_modified
  homes,        \* [name -> uid]: the owner of /home/name
  clock,        \* system_clock, in seconds
  passwd,       \* passwd_, as the file
  shadow,       \* shadow_: [uid -> [name, password]]
  groups,       \* groups_, as the file
  nameToUid,    \* name_to_uid_
  nameToGid,    \* name_to_gid_
  seenModified, \* passwd_mod_, shadow_mod_, groups_mod_
  counter,      \* uid_counter_, and gid_counter_ which moves with it
  uid,          \* [Sessions]: the uid of the session leader
  prompt,       \* [Sessions]: the sudo that waits for a password, if any
  edits,        \* writes by an editor so far
  unread,       \* files edited since memory last agreed with them
  keyed,        \* shadow_ was read after the names it is keyed by
  last          \* what the last program did

files == <<passwdFile, shadowFile, groupFile, malformed>>
memory == <<passwd, shadow, groups, nameToUid, nameToGid, seenModified>>
vars == <<passwdFile, shadowFile, groupFile, malformed, modified, homes, clock,
          passwd, shadow, groups, nameToUid, nameToGid, seenModified,
          counter, uid, prompt, edits, unread, keyed, last>>

\* What a program that changes no users leaves alone.
users == <<files, modified, homes, clock, memory, counter, uid, edits, unread, keyed>>

Nothing == [op |-> "none"]
NoPrompt == [name |-> "", tries |-> 0]
Group(n, ms) == [name |-> n, members |-> ms]
FirstPasswd == [u \in {RootUid, FirstUid} |-> IF u = RootUid THEN Root ELSE First]

\* The constructor of BasicOS creates the files, prepares (which reads the
\* groups), adds root and fredr, and commits.  root keeps the group of that
\* name which is in the file.
Init ==
  \E pw \in [{Root, First} -> Passwords] :
    /\ passwdFile = FirstPasswd /\ passwd = FirstPasswd
    /\ shadowFile = pw
    /\ shadow = [u \in {RootUid, FirstUid} |->
                   [name |-> FirstPasswd[u], password |-> pw[FirstPasswd[u]]]]
    /\ nameToUid = [n \in {Root, First} |-> IF n = Root THEN RootUid ELSE FirstUid]
    /\ groups = [g \in {RootUid, SharedGid, FirstUid} |->
                   CASE g = RootUid -> Group(Root, {})
                     [] g = SharedGid -> Group(Shared, {})
                     [] OTHER -> Group(First, {First})]
    /\ groupFile = groups
    /\ nameToGid = [n \in {Root, Shared, First} |->
                      CHOOSE g \in DOMAIN groups : groups[g].name = n]
    /\ malformed = [f \in DbFiles |-> {}]
    /\ modified = [f \in DbFiles |-> 1] /\ seenModified = modified
    /\ homes = [n \in {First} |-> FirstUid]
    /\ clock = 1 /\ counter = FirstUid
    /\ uid = [s \in Sessions |-> RootUid]
    /\ prompt = [s \in Sessions |-> NoPrompt]
    /\ edits = 0 /\ unread = {} /\ keyed = TRUE /\ last = Nothing

----------------------------------------------------------------------------
\* parse_passwd_row, parse_shadow_row, parse_group_row: the rows that count.
Rows(file, f) == Restrict(file, DOMAIN file \ malformed[f])
PasswdRows == Rows(passwdFile, "passwd")
ShadowRows == Rows(shadowFile, "shadow")
GroupRows == Rows(groupFile, "group")

\* Mutant: the names that were there win.
NamesReadOldWins == Over(nameToUid, AntiFunction(PasswdRows))

\* get_passwd_data and get_group_data: the names a file lists, each with its
\* number, go over the names that are there, which are not cleared.
NamesRead == Over(AntiFunction(PasswdRows), nameToUid)
GroupNamesRead ==
  Over(AntiFunction([g \in DOMAIN GroupRows |-> GroupRows[g].name]), nameToGid)

\* Mutant: shadow_ is not cleared.
ShadowsReadAdds(known) ==
  LET ns == DOMAIN known \cap DOMAIN ShadowRows
      name(u) == CHOOSE n \in ns : known[n] = u
  IN {Over([u \in {known[n] : n \in ns} |->
              [name |-> name(u), password |-> ShadowRows[name(u)]]], shadow)}

\* get_shadow_data keeps the rows whose name is known, under the uid of that
\* name; of two rows for one uid the later one wins, and commit writes them in
\* the order of an unordered map.
ShadowsRead(known) ==
  LET rows(u) == {n \in DOMAIN ShadowRows \cap DOMAIN known : known[n] = u}
      us == {u \in Uids : rows(u) # {}}
  IN {[u \in us |-> [name |-> pick[u], password |-> ShadowRows[pick[u]]]] :
        pick \in {p \in [us -> Names] : \A u \in us : p[u] \in rows(u)}}

Stale(f) == modified[f] # seenModified[f]

\* prepare()
Prepare ==
  /\ passwd' = IF Stale("passwd") THEN PasswdRows ELSE passwd
  /\ nameToUid' = IF Stale("passwd") THEN NamesRead ELSE nameToUid
  /\ IF Stale("shadow") THEN shadow' \in ShadowsRead(nameToUid')
                        ELSE shadow' = shadow
  /\ groups' = IF Stale("group") THEN GroupRows ELSE groups
  /\ nameToGid' = IF Stale("group") THEN GroupNamesRead ELSE nameToGid
  /\ seenModified' = modified
  /\ unread' = {f \in unread : ~Stale(f)}
  /\ keyed' = (Stale("shadow") \/ (keyed /\ ~Stale("passwd")))

\* Mutant: any hash in the cache will do.
AuthenticatesAny(names, pw, sh, n, typed) ==
  /\ n \in DOMAIN names /\ names[n] \in DOMAIN pw
  /\ \E u \in DOMAIN sh : sh[u].password = typed

\* authenticate and get_password_hash; the password column is always "x".
Authenticates(names, pw, sh, n, typed) ==
  /\ n \in DOMAIN names
  /\ names[n] \in DOMAIN pw /\ names[n] \in DOMAIN sh
  /\ sh[names[n]].password = typed

\* login: on success the leader of the session takes the user's uid.
Login(s, n, typed) ==
  LET ok == Authenticates(nameToUid', passwd', shadow', n, typed) IN
  /\ Prepare
  /\ uid' = IF ok THEN [uid EXCEPT ![s] = nameToUid'[n]] ELSE uid
  /\ last' = [op |-> "login", name |-> n, typed |-> typed, ok |-> ok]
  /\ UNCHANGED <<files, modified, homes, clock, counter, prompt, edits>>

\* sudo: the name of the session's user is looked up, without prepare, before the
\* password is asked for ...
SudoAsk(s) ==
  /\ uid[s] \in DOMAIN passwd
  /\ Cardinality({x \in Sessions : prompt[x] # NoPrompt}) < MaxPrompts
  /\ prompt' = [prompt EXCEPT ![s] = [name |-> passwd[uid[s]], tries |-> 0]]
  /\ last' = Nothing
  /\ UNCHANGED users

\* Mutant: the session's user is looked up again for the answer.
SudoAcceptsNow(s, typed) ==
  /\ uid[s] \in DOMAIN passwd
  /\ Authenticates(nameToUid, passwd, shadow, passwd[uid[s]], typed)

\* ... and that name is what each answer is held against.
SudoAccepts(s, typed) ==
  Authenticates(nameToUid, passwd, shadow, prompt[s].name, typed)

SudoAnswer(s, typed) ==
  /\ prompt[s] # NoPrompt
  /\ last' = [op |-> "sudo", name |-> prompt[s].name, typed |-> typed,
              ok |-> SudoAccepts(s, typed)]

\* A wrong answer: the prompt comes back, but not after the third.
SudoWrong(s, typed) ==
  /\ SudoAnswer(s, typed)
  /\ ~SudoAccepts(s, typed)
  /\ prompt' = [prompt EXCEPT ![s] = IF @.tries + 1 < SudoMaxTries
                                       THEN [@ EXCEPT !.tries = @ + 1] ELSE NoPrompt]
  /\ UNCHANGED users

\* The right answer, of a user that is not in the sudoers file, or for a program
\* that does nothing to the users.
SudoRight(s, typed) ==
  /\ SudoAnswer(s, typed)
  /\ SudoAccepts(s, typed)
  /\ prompt' = [prompt EXCEPT ![s] = NoPrompt]

SudoOther(s, typed) == SudoRight(s, typed) /\ UNCHANGED users

----------------------------------------------------------------------------
\* check_belongs and check_permission, for the modes of the three files: root
\* owns them, its group and the others may read passwd and group.
CheckBelongs(u, g) ==
  /\ g \in DOMAIN groups
  /\ \E n \in groups[g].members : n \in DOMAIN nameToUid /\ nameToUid[n] = u

Perms(f) == IF f = "shadow" THEN [owner |-> {}, group |-> {}, users |-> {}]
            ELSE [owner |-> {"r", "w"}, group |-> {"r"}, users |-> {"r"}]

CheckPermission(u, f, modes) ==
  \/ u = RootUid
  \/ \A m \in modes : \/ m \in Perms(f).users
                      \/ m \in Perms(f).group /\ CheckBelongs(u, RootUid)

\* commit: write_passwd, write_shadow and write_group write each file whole,
\* with what is in memory.
Commit ==
  /\ passwdFile' = passwd'
  /\ shadowFile' = [m \in {shadow'[v].name : v \in DOMAIN shadow'} |->
                      (CHOOSE row \in Range(shadow') : row.name = m).password]
  /\ groupFile' = groups'
  /\ malformed' = [f \in DbFiles |-> {}]
  /\ unread' = {}

\* add_user_to_group for every group asked for ...
Joined(n, wanted) ==
  [g \in DOMAIN groups |->
     IF groups[g].name \in wanted /\ nameToGid[groups[g].name] = g
       THEN Group(groups[g].name, groups[g].members \cup {n}) ELSE groups[g]]

\* ... then add_group for the group of the user's own, unless there is one of
\* that name.
Grouped(n, u, wanted) ==
  IF n \in DOMAIN nameToGid
  THEN groups' = Joined(n, wanted) /\ nameToGid' = nameToGid
  ELSE /\ groups' = Put(Joined(n, wanted), u, Group(n, {n}))
       /\ nameToGid' = Put(nameToGid, n, u)

\* Mutant: uid_counter_++.
NewNumberPost == counter

\* add_user, as useradd calls it: a new number, memory, the groups, the home,
\* and the three files.
NewNumber == counter + 1

AddUser(n, typed, wanted) ==
  LET u == NewNumber IN
  /\ n \notin DOMAIN nameToUid
  /\ counter < MaxUid
  /\ counter' = counter + 1
  /\ nameToUid' = Put(nameToUid, n, u)
  /\ passwd' = Put(passwd, u, n)
  /\ shadow' = Put(shadow, u, [name |-> n, password |-> typed])
  /\ Grouped(n, u, wanted)
  /\ homes' = IF n \in DOMAIN homes THEN homes ELSE Put(homes, n, u)
  /\ Commit
  /\ UNCHANGED <<modified, seenModified, clock, uid, edits, keyed>>

\* useradd, run by root's session or through sudo.
UserAdd(s, n, typed, wanted) ==
  /\ CheckPermission(uid[s], "passwd", {"r", "w"})
  /\ AddUser(n, typed, wanted)
  /\ last' = Nothing
  /\ UNCHANGED prompt

SudoUserAdd(s, own, n, typed, wanted) ==
  /\ SudoRight(s, own)
  /\ prompt[s].name \in Sudoers
  /\ CheckPermission(RootUid, "passwd", {"r", "w"})
  /\ AddUser(n, typed, wanted)

----------------------------------------------------------------------------
\* An editor or a redirection writes a file: FileSystem::write.  The contents
\* are those of a careful hand, which keeps names and numbers unique: one row
\* is put in, taken out or changed, or loses its shape.
Write(u, f) ==
  /\ CheckPermission(u, f, {"w"})
  /\ edits < MaxEdits
  /\ edits' = edits + 1
  /\ modified' = [modified EXCEPT ![f] = clock]
  /\ unread' = unread \cup {f}
  /\ last' = Nothing
  /\ UNCHANGED <<homes, clock, memory, counter, uid, prompt, keyed>>

WellFormed(f, k) == malformed' = [malformed EXCEPT ![f] = @ \ {k}]
Malformed(f, k) == malformed' = [malformed EXCEPT ![f] = @ \cup {k}]

EditPasswd(s) ==
  /\ Write(uid[s], "passwd")
  /\ \E u \in Uids \ {RootUid} :
       \/ /\ u \in DOMAIN passwdFile
          /\ passwdFile' = Drop(passwdFile, u) /\ WellFormed("passwd", u)
       \/ \E n \in Names \ {Root} :
            /\ n \notin Range(passwdFile)
            /\ passwdFile' = Put(passwdFile, u, n) /\ WellFormed("passwd", u)
       \/ \E v \in Uids \ DOMAIN passwdFile :
            /\ u \in DOMAIN passwdFile
            /\ passwdFile' = Put(Drop(passwdFile, u), v, passwdFile[u])
            /\ WellFormed("passwd", u)
       \/ /\ u \in DOMAIN PasswdRows
          /\ Malformed("passwd", u) /\ UNCHANGED passwdFile
  /\ UNCHANGED <<shadowFile, groupFile>>

EditShadow(s) ==
  /\ Write(uid[s], "shadow")
  /\ \E n \in Names \ {Root} :
       \/ /\ n \in DOMAIN shadowFile
          /\ shadowFile' = Drop(shadowFile, n) /\ WellFormed("shadow", n)
       \/ \E p \in Passwords :
            shadowFile' = Put(shadowFile, n, p) /\ WellFormed("shadow", n)
       \/ /\ n \in DOMAIN ShadowRows
          /\ Malformed("shadow", n) /\ UNCHANGED shadowFile
  /\ UNCHANGED <<passwdFile, groupFile>>

EditGroup(s) ==
  /\ Write(uid[s], "group")
  /\ \E g \in DOMAIN groupFile :
       \/ \E n \in Names \ {Root} :
            /\ groupFile' = [groupFile EXCEPT ![g].members =
                               IF n \in @ THEN @ \ {n} ELSE @ \cup {n}]
            /\ WellFormed("group", g)
       \/ Malformed("group", g) /\ UNCHANGED groupFile
  /\ UNCHANGED <<passwdFile, shadowFile>>

Tick ==
  /\ clock < MaxClock
  /\ clock' = clock + 1
  /\ last' = Nothing
  /\ UNCHANGED <<files, modified, homes, memory, counter, uid, prompt, edits,
                 unread, keyed>>

Commands(s) ==
  \/ EditPasswd(s) \/ EditShadow(s) \/ EditGroup(s)
  \/ SudoAsk(s)
  \/ \E n \in Names, p \in Passwords : Login(s, n, p)
  \/ \E n \in NewNames, p \in Passwords, w \in SUBSET {Shared} : UserAdd(s, n, p, w)

Answers(s) ==
  \E own \in Passwords :
    \/ SudoWrong(s, own) \/ SudoOther(s, own)
    \/ \E n \in NewNames, p \in Passwords, w \in SUBSET {Shared} :
         SudoUserAdd(s, own, n, p, w)

Next ==
  \/ Tick
  \/ \E s \in Sessions : prompt[s] = NoPrompt /\ Commands(s)
  \/ \E s \in Sessions : Answers(s)

Spec == Init /\ [][Next]_vars

----------------------------------------------------------------------------
\* Memory and files agree except where a file was edited and neither read nor
\* written over since: useradd's commit, which changes the files behind their
\* modification time, is not such an edit.  Every name of the file is known
\* under its number; the shadow rows in memory are rows of the file.
CacheFollowsFiles ==
  /\ "passwd" \notin unread =>
       /\ passwd = PasswdRows
       /\ \A u \in DOMAIN PasswdRows : nameToUid[PasswdRows[u]] = u
  /\ "shadow" \notin unread =>
       \A u \in DOMAIN shadow : /\ shadow[u].name \in DOMAIN ShadowRows
                                /\ ShadowRows[shadow[u].name] = shadow[u].password
  /\ "group" \notin unread => groups = GroupRows

\* What the rows of the files say of a name and a password.
FilesAccept(n, typed) ==
  n \in Range(PasswdRows) /\ n \in DOMAIN ShadowRows /\ ShadowRows[n] = typed

NoLeftovers == DOMAIN ShadowRows \subseteq Range(PasswdRows)

\* login follows the files, whatever useradd wrote in the same second or was
\* edited before, with four exceptions: an edit in the second that was already
\* read, a passwd file read again without the shadow file, a shadow row whose
\* user is gone from passwd, and a name that is gone but whose number is not.
LoginFollowsFiles ==
  [][ (last'.op = "login" /\ unread' = {} /\ keyed' /\ NoLeftovers) =>
        /\ FilesAccept(last'.name, last'.typed) => last'.ok
        /\ last'.ok => \/ FilesAccept(last'.name, last'.typed)
                       \/ /\ last'.name \notin Range(PasswdRows)
                          /\ nameToUid'[last'.name] \in DOMAIN PasswdRows ]_vars

\* sudo, which does not prepare, follows the files in the same way for the name
\* that was the session's user's when it asked, unless a file was edited that no
\* login has read: whatever happened while the prompt was open, a name that has
\* another number by now, or none, is held against its own row.
SudoFollowsFiles ==
  [][ (last'.op = "sudo" /\ unread = {} /\ keyed /\ NoLeftovers) =>
        /\ FilesAccept(last'.name, last'.typed) => last'.ok
        /\ last'.ok => \/ FilesAccept(last'.name, last'.typed)
                       \/ /\ last'.name \notin Range(PasswdRows)
                          /\ nameToUid[last'.name] \in DOMAIN PasswdRows ]_vars

\* useradd, which writes three files whole, takes nobody else's row away, with
\* four exceptions: edits that no login has read yet, a row that has lost its
\* shape, a number that was given out by hand, and shadow rows that memory
\* could not or did not key.
AddKeepsUsers ==
  [][ counter' = counter + 1 /\ unread = {} =>
        /\ \A u \in DOMAIN PasswdRows \ {counter'} :
             u \in DOMAIN passwdFile' /\ passwdFile'[u] = PasswdRows[u]
        /\ (keyed /\ NoLeftovers) =>
             \A u \in DOMAIN PasswdRows \ {counter'} :
               PasswdRows[u] \in DOMAIN ShadowRows =>
                 /\ PasswdRows[u] \in DOMAIN shadowFile'
                 /\ shadowFile'[PasswdRows[u]] = ShadowRows[PasswdRows[u]] ]_vars
=============================================================================
