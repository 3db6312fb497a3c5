------------------------------ MODULE FileTree ------------------------------
(* tech/filesystem: FileSystem, the tree of one disk.  The tree is kept five  *)
(* times over: files_, path -> fid, fid -> path, fid -> parent and parent ->  *)
(* children, with the metadata beside them; every operation must keep them in *)
(* step.  All of it runs on one thread without suspending, so an operation    *)
(* (recursion included) is one action.                                        *)
(*                                                                            *)
(* A path is the sequence of its names; its string form is left out.  Of the  *)
(* metadata only the Directory flag is kept.                                  *)
EXTENDS Integers, Sequences

CONSTANTS Names,        \* file names
          MaxDepth,     \* bound on the length of a path
          MaxFiles      \* bound on the files ever created

ASSUME ConstantsAssumption ==
  /\ MaxDepth \in Nat /\ MaxFiles \in Nat
  /\ 0 \notin Names     \* a name is not mistaken for NoFid

Root == 1               \* root_
NoFid == 0
FirstFid == 1024        \* fid_counter_ at the start
Fids == FirstFid + 1 .. FirstFid + MaxFiles

RootPath == <<>>
Paths == UNION {[1 .. d -> Names] : d \in 1 .. MaxDepth}
NoPath == <<NoFid>>     \* the empty entry of a map; no sequence of names

VARIABLES
  fidCounter,   \* fid_counter_
  files,        \* the keys of files_
  pathOf,       \* fid_to_path_
  fidAt,        \* path_to_fid_
  parentOf,     \* roots_
  children,     \* mappings_, as pairs <<parent, child>>
  kind,         \* metadata_: "none", "file" or, with the Directory flag, "dir"
  strays        \* files created under something that was not a directory

treeVars ==
  <<fidCounter, files, pathOf, fidAt, parentOf, children, kind, strays>>

Init ==
  /\ fidCounter = FirstFid
  /\ files = {}
  /\ pathOf = [f \in Fids |-> NoPath]
  /\ fidAt = [p \in Paths |-> NoFid]
  /\ parentOf = [f \in Fids |-> NoFid]
  /\ children = {}
  /\ kind = [f \in Fids \cup {Root} |-> IF f = Root THEN "dir" ELSE "none"]
  /\ strays = {}

----------------------------------------------------------------------------
(* Look-ups *)

GetFid(p) == IF p = RootPath THEN Root ELSE fidAt[p]
IsFile(f) == f = Root \/ f \in files
IsDir(f) == f # NoFid /\ kind[f] = "dir"
GetFiles(f) == IF IsDir(f) THEN {c \in Fids : <<f, c>> \in children} ELSE {}
IsEmpty(f) == GetFiles(f) = {}
ParentPath(p) == SubSeq(p, 1, Len(p) - 1)
IsPrefixOf(p, q) == Len(p) <= Len(q) /\ p = SubSeq(q, 1, Len(p))

----------------------------------------------------------------------------
(* Creation *)

\* add_file for a run of paths, each the parent of the next, starting under
\* an existing parent: the paths first .. Len(p) prefixes of p.  All but the
\* last are the directories create_ensure_path fills in.
AddFiles(p, first, last) ==
  LET n == Len(p) - first + 1
      new == fidCounter + 1 .. fidCounter + n
      path(f) == SubSeq(p, 1, first + f - fidCounter - 1)
      above(f) == IF f = fidCounter + 1 THEN GetFid(SubSeq(p, 1, first - 1))
                                        ELSE f - 1
  IN /\ fidCounter + n <= FirstFid + MaxFiles
     /\ fidCounter' = fidCounter + n
     /\ files' = files \cup new
     /\ pathOf' = [f \in Fids |-> IF f \in new THEN path(f) ELSE pathOf[f]]
     /\ fidAt' = [q \in Paths |->
                    IF IsPrefixOf(q, p) /\ Len(q) >= first
                    THEN fidCounter + Len(q) - first + 1 ELSE fidAt[q]]
     /\ parentOf' = [f \in Fids |-> IF f \in new THEN above(f) ELSE parentOf[f]]
     /\ children' = children \cup {<<above(f), f>> : f \in new}
     /\ kind' = [f \in Fids \cup {Root} |->
                   IF f = fidCounter + n THEN last
                   ELSE IF f \in new THEN "dir" ELSE kind[f]]
     /\ strays' = IF IsDir(GetFid(SubSeq(p, 1, first - 1))) THEN strays
                  ELSE strays \cup {fidCounter + 1}

\* create_file / create_directory without recursion: ENOENT unless the parent
\* exists.  That it is a directory is not asked.
Create(p, last) ==
  /\ GetFid(p) = NoFid
  /\ GetFid(ParentPath(p)) # NoFid
  /\ AddFiles(p, Len(p), last)

\* Mutant: the missing ancestors are not made.
CreateUnderNothing(p, last) ==
  /\ GetFid(p) = NoFid
  /\ AddFiles(p, Len(p), last)

\* ... and with it: create_ensure_path makes the missing ancestors first.
CreateRecursive(p, last) ==
  /\ GetFid(p) = NoFid
  /\ \E d \in 1 .. Len(p) :
       /\ GetFid(SubSeq(p, 1, d)) = NoFid
       /\ GetFid(SubSeq(p, 1, d - 1)) # NoFid
       /\ \A e \in d .. Len(p) : GetFid(SubSeq(p, 1, e)) = NoFid
       /\ AddFiles(p, d, last)

\* mkdir: opens the path for writing, creating the file if it is not there,
\* and turns whatever it opened into a directory.
MakeDirectory(p) ==
  \/ Create(p, "dir")
  \/ /\ GetFid(p) \in files
     /\ kind' = [kind EXCEPT ![GetFid(p)] = "dir"]
     /\ UNCHANGED <<fidCounter, files, pathOf, fidAt, parentOf, children, strays>>

----------------------------------------------------------------------------
(* Removal *)

\* Mutant: the recursion stops one level down.
SubtreeOneLevel(f) == {f} \cup GetFiles(f)

\* What the recursion of remove_file reaches from f, level by level.
Subtree(f) ==
  LET Level[n \in Nat] ==
        IF n = 0 THEN {f}
        ELSE Level[n - 1] \cup UNION {GetFiles(g) : g \in Level[n - 1]}
  IN Level[MaxFiles]

\* Mutants: path_to_fid_ is not cleared; the parent's mapping is not cleared.
EraseKeepsPath(set) ==
  /\ files' = files \ set
  /\ pathOf' = [f \in Fids |-> IF f \in set THEN NoPath ELSE pathOf[f]]
  /\ parentOf' = [f \in Fids |-> IF f \in set THEN NoFid ELSE parentOf[f]]
  /\ children' = {c \in children : c[2] \notin set}
  /\ UNCHANGED <<fidCounter, fidAt, kind, strays>>

EraseKeepsMapping(set) ==
  /\ files' = files \ set
  /\ pathOf' = [f \in Fids |-> IF f \in set THEN NoPath ELSE pathOf[f]]
  /\ fidAt' = [q \in Paths |->
                 IF \E f \in set \cap files : pathOf[f] = q THEN NoFid ELSE fidAt[q]]
  /\ parentOf' = [f \in Fids |-> IF f \in set THEN NoFid ELSE parentOf[f]]
  /\ UNCHANGED <<fidCounter, children, kind, strays>>

\* remove_file of every member of a set: the maps, the parent's mapping and
\* the file go; the metadata stays.  The root has no entries to erase.
Erase(set) ==
  /\ files' = files \ set
  /\ pathOf' = [f \in Fids |-> IF f \in set THEN NoPath ELSE pathOf[f]]
  /\ fidAt' = [q \in Paths |->
                 IF \E f \in set \cap files : pathOf[f] = q THEN NoFid ELSE fidAt[q]]
  /\ parentOf' = [f \in Fids |-> IF f \in set THEN NoFid ELSE parentOf[f]]
  /\ children' = {c \in children : c[2] \notin set}
  /\ UNCHANGED <<fidCounter, kind, strays>>

\* Mutant: what is below the file stays.
RemoveFileOnly(f, recurse) ==
  /\ IsFile(f)
  /\ IsEmpty(f) \/ recurse
  /\ Erase({f})

RemoveFile(f, recurse) ==
  /\ IsFile(f)
  /\ IsEmpty(f) \/ recurse
  /\ Erase(Subtree(f))

\* rm: remove_file with a callback that lets a non-empty directory be emptied
\* under -r, and the root be touched under --no-preserve-root.
Rm(p, recurse, noPreserveRoot) ==
  /\ p = RootPath => noPreserveRoot
  /\ RemoveFile(GetFid(p), recurse)

TreeNext ==
  \/ \E p \in Paths :
       \/ \E k \in {"file", "dir"} : Create(p, k) \/ CreateRecursive(p, k)
       \/ MakeDirectory(p)
       \/ \E r \in BOOLEAN : Rm(p, r, FALSE)
  \/ \E r \in BOOLEAN : Rm(RootPath, r, TRUE)

TreeSpec == Init /\ [][TreeNext]_treeVars

----------------------------------------------------------------------------
TypeOK ==
  /\ fidCounter \in FirstFid .. FirstFid + MaxFiles
  /\ files \subseteq FirstFid + 1 .. fidCounter
  /\ pathOf \in [Fids -> Paths \cup {NoPath}]
  /\ fidAt \in [Paths -> Fids \cup {NoFid}]
  /\ parentOf \in [Fids -> Fids \cup {Root, NoFid}]
  /\ children \subseteq (Fids \cup {Root}) \X Fids
  /\ kind \in [Fids \cup {Root} -> {"none", "file", "dir"}]
  /\ strays \subseteq Fids

\* path_to_fid_ and fid_to_path_ are each other's inverse, on the files there
\* are: no path leads to a removed file and no file loses its path.
PathsAgree ==
  /\ \A f \in Fids : pathOf[f] # NoPath <=> f \in files
  /\ \A f \in files : fidAt[pathOf[f]] = f
  /\ \A p \in Paths : fidAt[p] # NoFid => fidAt[p] \in files /\ pathOf[fidAt[p]] = p

\* roots_ and mappings_ say the same: a directory lists the files whose parent
\* it is, and none that was removed.
ChildrenAgree ==
  /\ children = {<<parentOf[f], f>> : f \in files}
  /\ \A f \in Fids : parentOf[f] # NoFid <=> f \in files

\* A file's parent exists and is where its path says, unless the file was
\* created under something that was not a directory (add_file does not ask):
\* removing that parent leaves the file behind.
OrphansAreStrays ==
  \A f \in files \ strays :
    /\ IsFile(parentOf[f])
    /\ GetFid(ParentPath(pathOf[f])) = parentOf[f]

\* "Walks a provided path and creates all the directories that are missing"
\* (filesystem.h): so it does, unless it meets a stray, where it stops walking.
FillsInDirectories ==
  [][\A p \in Paths : \A k \in {"file", "dir"} :
       (/\ CreateRecursive(p, k)
        /\ \A d \in 1 .. Len(p) : fidAt[SubSeq(p, 1, d)] \notin strays) =>
         \A d \in 1 .. Len(p) - 1 :
           LET q == SubSeq(p, 1, d)
           IN fidAt'[q] # NoFid /\ (fidAt[q] = NoFid => kind'[fidAt'[q]] = "dir")]_treeVars

\* A recursive removal leaves nothing under the path, but for strays and what
\* is below them; and it touches nothing else.
RemovesSubtree ==
  [][\A p \in Paths : Rm(p, TRUE, FALSE) =>
       \A f \in files :
         IF IsPrefixOf(p, pathOf[f])
         THEN f \in files' => \E d \in Len(p) .. Len(pathOf[f]) :
                                fidAt[SubSeq(pathOf[f], 1, d)] \in strays
         ELSE f \in files']_treeVars
=============================================================================
