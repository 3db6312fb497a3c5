-------------------------- MODULE OpenFiles_proofs --------------------------
(* For any file names, any depth and any number of files: the maps of the     *)
(* file system agree after every operation, only strays are orphans, and a    *)
(* recursive creation or removal does what it says.                           *)
(*                                                                            *)
(* For any number of processes, openings, names and files: a descriptor      *)
(* leads to the opening it was made for, an entry counts the descriptors that *)
(* hold it, and handles and descriptors in use are not free for reuse.        *)
EXTENDS OpenFiles, TLAPS, SequenceTheorems, FiniteSetTheorems, WellFoundedInduction

\* A set of numbers has a smallest one (< on Nat is well founded).
LEMMA LeastExists ==
  ASSUME NEW S \in SUBSET Nat, S # {}
  PROVE  \E i \in S : \A j \in S : i <= j
<1>1. PICK x \in S : \A y \in S : ~(<<y, x>> \in OpToRel(<, Nat))
  BY NatLessThanWellFounded, WFMin, Zenon
<1>2. \A y \in S : ~(y < x)
  BY <1>1, Zenon DEF OpToRel
<1> QED BY <1>2

----------------------------------------------------------------------------
(* The tree *)

MapInv == TypeOK /\ PathsAgree /\ ChildrenAgree

----------------------------------------------------------------------------
(* Paths *)

LEMMA PathType ==
  ASSUME NEW p \in Paths
  PROVE  p \in Seq(Names) /\ Len(p) \in 1 .. MaxDepth /\ p # RootPath /\ p # NoPath
<1>1. PICK d \in 1 .. MaxDepth : p \in [1 .. d -> Names]
  BY DEF Paths
<1>2. p \in Seq(Names) /\ Len(p) = d
  BY <1>1, ConstantsAssumption
<1>3. p # RootPath
  BY <1>2, <1>1, ConstantsAssumption DEF RootPath
<1>4. p # NoPath
  BY <1>1, <1>2, ConstantsAssumption DEF NoPath, NoFid
<1> QED BY <1>1, <1>2, <1>3, <1>4, ConstantsAssumption

\* A prefix of a path, but for the root's, is a path.
LEMMA PrefixType ==
  ASSUME NEW p \in Paths, NEW n \in 1 .. Len(p)
  PROVE  SubSeq(p, 1, n) \in Paths /\ Len(SubSeq(p, 1, n)) = n
<1>1. p \in Seq(Names) /\ Len(p) \in 1 .. MaxDepth
  BY PathType
<1>2. \A i \in 1 .. n : p[i] \in Names
  BY <1>1
<1>3. SubSeq(p, 1, n) \in Seq(Names) /\ Len(SubSeq(p, 1, n)) = n
  BY <1>1, <1>2, SubSeqProperties
<1>4. SubSeq(p, 1, n) \in [1 .. n -> Names] /\ n \in 1 .. MaxDepth
  <2>1. SubSeq(p, 1, n) \in [1 .. Len(SubSeq(p, 1, n)) -> Names]
    BY <1>3, LenProperties
  <2> QED BY <1>1, <1>3, <2>1, ConstantsAssumption
<1> QED BY <1>3, <1>4, ConstantsAssumption DEF Paths

LEMMA PrefixOfPrefix ==
  ASSUME NEW p \in Paths, NEW m \in 1 .. Len(p), NEW k \in 0 .. m
  PROVE  SubSeq(SubSeq(p, 1, m), 1, k) = SubSeq(p, 1, k)
<1>1. p \in Seq(Names) /\ Len(p) \in 1 .. MaxDepth /\ MaxDepth \in Nat
  BY PathType, ConstantsAssumption
<1>2. SubSeq(p, 1, m) \in Seq(Names) /\ Len(SubSeq(p, 1, m)) = m
  BY <1>1, PrefixType, PathType
<1>3. \A i \in 1 .. m : SubSeq(p, 1, m)[i] = p[i]
  BY <1>1
<1> QED BY <1>1, <1>2, <1>3

\* The parent of a path is the root or a path, one name shorter.
LEMMA ParentIsPath ==
  ASSUME NEW p \in Paths
  PROVE  /\ ParentPath(p) = RootPath \/ ParentPath(p) \in Paths
         /\ Len(p) = 1 <=> ParentPath(p) = RootPath
         /\ Len(p) \in Nat \ {0} /\ SubSeq(p, 1, Len(p)) = p
<1>1. p \in Seq(Names) /\ Len(p) \in 1 .. MaxDepth /\ MaxDepth \in Nat
  BY PathType, ConstantsAssumption
<1>2. Len(p) = 1 => ParentPath(p) = RootPath
  BY <1>1, SubSeqEmpty DEF ParentPath, RootPath
<1>3. ASSUME Len(p) # 1 PROVE ParentPath(p) \in Paths /\ ParentPath(p) # RootPath
  <2>1. Len(p) - 1 \in 1 .. Len(p)
    <3>1. PICK k : k = Len(p)
      OBVIOUS
    <3>2. k \in 1 .. MaxDepth /\ k # 1
      BY <1>1, <1>3, <3>1
    <3>3. k - 1 \in 1 .. k
      BY <1>1, <3>2
    <3> QED BY <3>1, <3>3
  <2> QED BY <2>1, PrefixType, PathType DEF ParentPath
<1>4. SubSeq(p, 1, Len(p)) = p
  BY <1>1, SubSeqFull
<1> QED BY <1>1, <1>2, <1>3, <1>4

----------------------------------------------------------------------------
LEMMA MapInit == Init => MapInv
  BY ConstantsAssumption DEF Init, MapInv, TypeOK, PathsAgree, ChildrenAgree,
     Fids, FirstFid, Root, NoFid

\* remove_file takes the same files out of every map, whatever they are.
LEMMA EraseKeepsMaps ==
  ASSUME MapInv, NEW set, Erase(set)
  PROVE  MapInv'
<1> USE DEF MapInv, Erase
<1>1. TypeOK'
  <2>1. files' \subseteq FirstFid + 1 .. fidCounter' /\ fidCounter' = fidCounter
    BY DEF TypeOK
  <2>2. pathOf' \in [Fids -> Paths \cup {NoPath}]
    BY DEF TypeOK
  <2>3. fidAt' \in [Paths -> Fids \cup {NoFid}]
    BY DEF TypeOK
  <2>4. parentOf' \in [Fids -> Fids \cup {Root, NoFid}]
    BY DEF TypeOK
  <2>5. children' \subseteq (Fids \cup {Root}) \X Fids
    BY DEF TypeOK
  <2> QED BY <2>1, <2>2, <2>3, <2>4, <2>5 DEF TypeOK
<1>2. PathsAgree'
  <2>1. files \subseteq Fids
    BY ConstantsAssumption DEF TypeOK, Fids, FirstFid
  <2>2. \A f \in Fids : pathOf'[f] # NoPath <=> f \in files'
    BY DEF PathsAgree
  <2>3. ASSUME NEW f \in files' PROVE fidAt'[pathOf'[f]] = f
    <3>1. f \in files /\ f \in Fids /\ f \notin set /\ pathOf'[f] = pathOf[f]
      BY <2>1, <2>3
    <3>2. pathOf[f] \in Paths /\ fidAt[pathOf[f]] = f
      BY <3>1 DEF TypeOK, PathsAgree
    <3>3. ~ \E g \in set \cap files : pathOf[g] = pathOf[f]
      BY <3>1, <3>2 DEF PathsAgree
    <3> QED BY <3>1, <3>2, <3>3
  <2>4. ASSUME NEW q \in Paths, fidAt'[q] # NoFid
        PROVE  fidAt'[q] \in files' /\ pathOf'[fidAt'[q]] = q
    <3>1. fidAt'[q] = fidAt[q] /\ ~ \E g \in set \cap files : pathOf[g] = q
      BY <2>4
    <3>2. fidAt[q] \in files /\ pathOf[fidAt[q]] = q
      BY <2>4, <3>1 DEF PathsAgree
    <3> QED BY <2>1, <3>1, <3>2
  <2> QED BY <2>2, <2>3, <2>4 DEF PathsAgree
<1>3. ChildrenAgree'
  <2>1. files \subseteq Fids
    BY ConstantsAssumption DEF TypeOK, Fids, FirstFid
  <2>2. \A f \in files' : f \in files \ set /\ parentOf'[f] = parentOf[f]
    BY <2>1
  <2>3. ASSUME NEW c \in children' PROVE c \in {<<parentOf'[f], f>> : f \in files'}
    <3>1. PICK f \in files : c = <<parentOf[f], f>>
      BY <2>3 DEF ChildrenAgree
    <3>2. f \in files'
      BY <2>3, <3>1
    <3> QED BY <2>2, <3>1, <3>2
  <2>4. ASSUME NEW f \in files' PROVE <<parentOf'[f], f>> \in children'
    BY <2>2, <2>4 DEF ChildrenAgree
  <2>5. children' = {<<parentOf'[f], f>> : f \in files'}
    BY <2>3, <2>4
  <2>6. \A f \in Fids : parentOf'[f] # NoFid <=> f \in files'
    BY DEF ChildrenAgree
  <2> QED BY <2>5, <2>6 DEF ChildrenAgree
<1> QED BY <1>1, <1>2, <1>3

\* add_file for the missing end of a path gives each prefix a file of its own.
LEMMA AddFilesKeepsMaps ==
  ASSUME MapInv, NEW p \in Paths, NEW first \in 1 .. Len(p),
         NEW last \in {"file", "dir"}, AddFiles(p, first, last),
         GetFid(SubSeq(p, 1, first - 1)) # NoFid,
         \A e \in first .. Len(p) : fidAt[SubSeq(p, 1, e)] = NoFid
  PROVE  MapInv'
<1> DEFINE n == Len(p) - first + 1
           new == fidCounter + 1 .. fidCounter + n
           len(f) == first + f - fidCounter - 1
           path(f) == SubSeq(p, 1, len(f))
           above(f) == IF f = fidCounter + 1 THEN GetFid(SubSeq(p, 1, first - 1))
                                             ELSE f - 1
           ends(q) == IsPrefixOf(q, p) /\ Len(q) >= first
           fidOf(q) == fidCounter + Len(q) - first + 1
<1>1. /\ fidCounter + n <= FirstFid + MaxFiles
      /\ fidCounter' = fidCounter + n
      /\ files' = files \cup new
      /\ pathOf' = [f \in Fids |-> IF f \in new THEN path(f) ELSE pathOf[f]]
      /\ fidAt' = [q \in Paths |-> IF ends(q) THEN fidOf(q) ELSE fidAt[q]]
      /\ parentOf' = [f \in Fids |-> IF f \in new THEN above(f) ELSE parentOf[f]]
      /\ children' = children \cup {<<above(f), f>> : f \in new}
      /\ kind' = [f \in Fids \cup {Root} |->
                    IF f = fidCounter + n THEN last
                    ELSE IF f \in new THEN "dir" ELSE kind[f]]
      /\ strays' \subseteq strays \cup {fidCounter + 1}
  BY DEF AddFiles
<1>2. /\ Len(p) \in Nat /\ first \in Nat /\ n \in Nat \ {0}
      /\ fidCounter \in Nat /\ fidCounter >= FirstFid
  BY PathType, ConstantsAssumption DEF MapInv, TypeOK, FirstFid
<1>3. new \subseteq Fids /\ new \cap files = {} /\ NoFid \notin Fids
  <2>1. new \subseteq Fids /\ NoFid \notin Fids
    BY <1>1, <1>2, ConstantsAssumption DEF Fids, FirstFid, NoFid
  <2>2. files \subseteq FirstFid + 1 .. fidCounter
    BY DEF MapInv, TypeOK
  <2> QED BY <1>2, <2>1, <2>2 DEF FirstFid
<1>4. \A f \in new : len(f) \in first .. Len(p) /\ len(f) \in 1 .. Len(p)
  BY <1>2
<1>5. \A f \in new : path(f) \in Paths /\ Len(path(f)) = len(f)
  BY <1>4, PrefixType
<1>6. \A f \in new : ends(path(f)) /\ fidOf(path(f)) = f
  <2> SUFFICES ASSUME NEW f \in new PROVE ends(path(f)) /\ fidOf(path(f)) = f
    OBVIOUS
  <2>1. Len(path(f)) = len(f) /\ len(f) \in first .. Len(p)
    BY <1>4, <1>5
  <2> QED BY <1>2, <2>1 DEF IsPrefixOf
<1>7. ASSUME NEW q \in Paths, ends(q)
      PROVE  fidOf(q) \in new /\ path(fidOf(q)) = q /\ fidAt[q] = NoFid
  <2>1. Len(q) \in first .. Len(p) /\ q = SubSeq(p, 1, Len(q))
    BY <1>2, <1>7, PathType DEF IsPrefixOf
  <2>2. len(fidOf(q)) = Len(q) /\ fidOf(q) \in new
    BY <1>2, <2>1
  <2> QED BY <2>1, <2>2
<1>8. \A f \in new : above(f) \in Fids \cup {Root} /\ above(f) # NoFid
  <2>1. GetFid(SubSeq(p, 1, first - 1)) \in Fids \cup {Root}
    <3>1. CASE SubSeq(p, 1, first - 1) = RootPath
      BY <3>1 DEF GetFid
    <3>2. CASE SubSeq(p, 1, first - 1) # RootPath
      <4>1. first # 1
        BY <3>2, SubSeqEmpty DEF RootPath
      <4>2. SubSeq(p, 1, first - 1) \in Paths
        BY <1>2, <4>1, PrefixType
      <4> QED BY <3>2, <4>2 DEF GetFid, MapInv, TypeOK
    <3> QED BY <3>1, <3>2
  <2>2. \A f \in new : f # fidCounter + 1 => f - 1 \in Fids
    BY <1>1, <1>2, ConstantsAssumption DEF Fids, FirstFid
  <2> QED BY <1>3, <2>1, <2>2 DEF Root, NoFid
<1> HIDE DEF n, new, len, path, above, ends, fidOf
<1>9. TypeOK'
  <2>1. fidCounter' \in FirstFid .. FirstFid + MaxFiles
    BY <1>1, <1>2, ConstantsAssumption DEF FirstFid
  <2>2. files' \subseteq FirstFid + 1 .. fidCounter'
    <3>1. files \subseteq FirstFid + 1 .. fidCounter
      BY DEF MapInv, TypeOK
    <3>2. new \subseteq FirstFid + 1 .. fidCounter + n
      BY <1>2 DEF FirstFid, new
    <3>3. FirstFid + 1 .. fidCounter \subseteq FirstFid + 1 .. fidCounter + n
      BY <1>2 DEF FirstFid
    <3> QED BY <1>1, <3>1, <3>2, <3>3
  <2>3. pathOf' \in [Fids -> Paths \cup {NoPath}] /\ fidAt' \in [Paths -> Fids \cup {NoFid}]
    BY <1>1, <1>3, <1>5, <1>7 DEF MapInv, TypeOK
  <2>4. /\ parentOf' \in [Fids -> Fids \cup {Root, NoFid}]
        /\ children' \subseteq (Fids \cup {Root}) \X Fids
    BY <1>1, <1>3, <1>8 DEF MapInv, TypeOK
  <2>5. kind' \in [Fids \cup {Root} -> {"none", "file", "dir"}]
    BY <1>1 DEF MapInv, TypeOK
  <2>6. strays' \subseteq Fids
    BY <1>1, <1>2, <1>3 DEF MapInv, TypeOK, new
  <2> QED BY <2>1, <2>2, <2>3, <2>4, <2>5, <2>6 DEF TypeOK
<1>10. PathsAgree'
  <2>1. \A f \in Fids : pathOf'[f] # NoPath <=> f \in files'
    BY <1>1, <1>5, PathType DEF MapInv, PathsAgree
  <2>2. ASSUME NEW f \in files' PROVE fidAt'[pathOf'[f]] = f
    <3>1. CASE f \in new
      BY <1>1, <1>3, <1>5, <1>6, <3>1
    <3>2. CASE f \notin new
      <4>1. f \in files /\ f \in Fids /\ pathOf'[f] = pathOf[f]
        <5>1. f \in files
          BY <1>1, <2>2, <3>2
        <5>2. f \in Fids
          BY <1>2, <5>1, ConstantsAssumption DEF MapInv, TypeOK, Fids, FirstFid
        <5> QED BY <1>1, <3>2, <5>1, <5>2
      <4>2. pathOf[f] \in Paths /\ fidAt[pathOf[f]] = f /\ f # NoFid
        BY <1>3, <4>1 DEF MapInv, TypeOK, PathsAgree
      <4>3. ~ends(pathOf[f])
        BY <1>7, <4>2
      <4> QED BY <1>1, <4>1, <4>2, <4>3
    <3> QED BY <3>1, <3>2
  <2>3. ASSUME NEW q \in Paths, fidAt'[q] # NoFid
        PROVE  fidAt'[q] \in files' /\ pathOf'[fidAt'[q]] = q
    <3>1. CASE ends(q)
      BY <1>1, <1>3, <1>7, <3>1
    <3>2. CASE ~ends(q)
      <4>1. fidAt'[q] = fidAt[q] /\ fidAt[q] \in files /\ pathOf[fidAt[q]] = q
        BY <1>1, <2>3, <3>2 DEF MapInv, PathsAgree
      <4>2. fidAt[q] \in Fids /\ fidAt[q] \notin new
        BY <1>3, <2>3, <4>1 DEF MapInv, TypeOK
      <4> QED BY <1>1, <4>1, <4>2
    <3> QED BY <3>1, <3>2
  <2> QED BY <2>1, <2>2, <2>3 DEF PathsAgree
<1>11. ChildrenAgree'
  <2>1. files \subseteq Fids
    BY <1>2, ConstantsAssumption DEF MapInv, TypeOK, Fids, FirstFid
  <2>2. /\ \A f \in new : parentOf'[f] = above(f)
        /\ \A f \in files : parentOf'[f] = parentOf[f]
    BY <1>1, <1>3, <2>1
  <2>3. children' = {<<parentOf'[f], f>> : f \in files'}
    BY <1>1, <2>2 DEF MapInv, ChildrenAgree
  <2>4. \A f \in Fids : parentOf'[f] # NoFid <=> f \in files'
    BY <1>1, <1>8 DEF MapInv, ChildrenAgree
  <2> QED BY <2>3, <2>4 DEF ChildrenAgree
<1> QED BY <1>9, <1>10, <1>11 DEF MapInv

\* create_file and create_directory: one file at a path that has none.
LEMMA CreateIsAdd ==
  ASSUME MapInv, NEW p \in Paths, NEW k \in {"file", "dir"}, Create(p, k)
  PROVE  /\ Len(p) \in 1 .. Len(p)
         /\ GetFid(SubSeq(p, 1, Len(p) - 1)) # NoFid
         /\ \A e \in Len(p) .. Len(p) : fidAt[SubSeq(p, 1, e)] = NoFid
         /\ AddFiles(p, Len(p), k)
<1>1. Len(p) \in Nat \ {0} /\ p # RootPath /\ SubSeq(p, 1, Len(p)) = p
  BY PathType, ParentIsPath
<1>2. \A e \in Len(p) .. Len(p) : e = Len(p)
  <2>1. PICK m : m = Len(p)
    OBVIOUS
  <2>2. m \in Nat
    BY <1>1, <2>1
  <2>3. \A e \in m .. m : e = m
    BY <2>2
  <2> QED BY <2>1, <2>3
<1>3. fidAt[p] = NoFid
  BY <1>1 DEF Create, GetFid
<1>4. Len(p) \in 1 .. Len(p)
  <2>1. PICK m : m = Len(p)
    OBVIOUS
  <2>2. m \in 1 .. m
    BY <1>1, <2>1
  <2> QED BY <2>1, <2>2
<1>5. \A e \in Len(p) .. Len(p) : fidAt[SubSeq(p, 1, e)] = NoFid
  BY <1>1, <1>2, <1>3
<1>6. GetFid(SubSeq(p, 1, Len(p) - 1)) # NoFid /\ AddFiles(p, Len(p), k)
  BY DEF Create, ParentPath
<1> QED BY <1>4, <1>5, <1>6

\* ... and with the directories that are missing above it.
LEMMA RecursiveIsAdd ==
  ASSUME NEW p \in Paths, NEW k \in {"file", "dir"}, CreateRecursive(p, k)
  PROVE  \E d \in 1 .. Len(p) :
           /\ GetFid(SubSeq(p, 1, d - 1)) # NoFid
           /\ \A e \in d .. Len(p) : fidAt[SubSeq(p, 1, e)] = NoFid
           /\ AddFiles(p, d, k)
<1>1. PICK d \in 1 .. Len(p) :
        /\ GetFid(SubSeq(p, 1, d - 1)) # NoFid
        /\ \A e \in d .. Len(p) : GetFid(SubSeq(p, 1, e)) = NoFid
        /\ AddFiles(p, d, k)
  BY DEF CreateRecursive
<1>2. \A e \in d .. Len(p) : fidAt[SubSeq(p, 1, e)] = NoFid
  BY <1>1 DEF GetFid, Root, NoFid
<1> QED BY <1>1, <1>2

LEMMA CreateKeepsMaps ==
  ASSUME MapInv, NEW p \in Paths, NEW k \in {"file", "dir"},
         Create(p, k) \/ CreateRecursive(p, k)
  PROVE  MapInv'
<1>1. CASE Create(p, k)
  BY <1>1, CreateIsAdd, AddFilesKeepsMaps
<1>2. CASE CreateRecursive(p, k)
  <2>1. PICK d \in 1 .. Len(p) :
           /\ GetFid(SubSeq(p, 1, d - 1)) # NoFid
           /\ \A e \in d .. Len(p) : fidAt[SubSeq(p, 1, e)] = NoFid
           /\ AddFiles(p, d, k)
    BY <1>2, RecursiveIsAdd
  <2> QED BY <2>1, AddFilesKeepsMaps
<1> QED BY <1>1, <1>2

\* mkdir creates a directory, or marks what it found as one.
LEMMA MakeDirectoryKeepsMaps ==
  ASSUME MapInv, NEW p \in Paths, MakeDirectory(p)
  PROVE  MapInv'
<1>1. CASE Create(p, "dir")
  <2>1. PICK k \in {"file", "dir"} : k = "dir"
    OBVIOUS
  <2>2. Create(p, k)
    BY <1>1, <2>1
  <2> QED BY <2>2, CreateKeepsMaps
<1>2. CASE /\ kind' = [kind EXCEPT ![GetFid(p)] = "dir"]
           /\ UNCHANGED <<fidCounter, files, pathOf, fidAt, parentOf, children,
                          strays>>
  <2>1. kind' \in [Fids \cup {Root} -> {"none", "file", "dir"}]
    BY <1>2 DEF MapInv, TypeOK
  <2> QED BY <1>2, <2>1 DEF MapInv, TypeOK, PathsAgree, ChildrenAgree
<1> QED BY <1>1, <1>2 DEF MakeDirectory

LEMMA RmKeepsMaps ==
  ASSUME MapInv, NEW p, NEW r, NEW np, Rm(p, r, np)
  PROVE  MapInv'
  BY EraseKeepsMaps DEF Rm, RemoveFile

LEMMA MapStep == MapInv /\ [TreeNext]_treeVars => MapInv'
<1> SUFFICES ASSUME MapInv, [TreeNext]_treeVars PROVE MapInv'
  OBVIOUS
<1>1. ASSUME NEW p \in Paths, NEW k \in {"file", "dir"},
             Create(p, k) \/ CreateRecursive(p, k)
      PROVE  MapInv'
  BY <1>1, CreateKeepsMaps
<1>2. ASSUME NEW p \in Paths, MakeDirectory(p) PROVE MapInv'
  BY <1>2, MakeDirectoryKeepsMaps
<1>3. ASSUME NEW p, NEW r, NEW np, Rm(p, r, np) PROVE MapInv'
  BY <1>3, RmKeepsMaps
<1>4. CASE UNCHANGED treeVars
  BY <1>4 DEF treeVars, MapInv, TypeOK, PathsAgree, ChildrenAgree
<1> QED BY <1>1, <1>2, <1>3, <1>4 DEF TreeNext

----------------------------------------------------------------------------
LEMMA MapInvariant == TreeSpec => []MapInv
  BY MapInit, MapStep, PTL DEF TreeSpec

\* path_to_fid_ and fid_to_path_ are each other's inverse (add_file, remove_file).
THEOREM PathsAlwaysAgree == TreeSpec => []PathsAgree
<1>1. MapInv => PathsAgree
  BY DEF MapInv
<1> QED BY <1>1, MapInvariant, PTL

\* roots_ and mappings_ say the same of every file (add_file, remove_file).
THEOREM ChildrenAlwaysAgree == TreeSpec => []ChildrenAgree
<1>1. MapInv => ChildrenAgree
  BY DEF MapInv
<1> QED BY <1>1, MapInvariant, PTL

----------------------------------------------------------------------------
(* The subtree of a file.  Level is a recursive function; that there is one   *)
(* with the equation it is defined by is what has to be proved: what can be   *)
(* walked to in n steps is one.                                               *)

Levels(L, f) ==
  L = [n \in Nat |-> IF n = 0 THEN {f}
                     ELSE L[n - 1] \cup UNION {GetFiles(g) : g \in L[n - 1]}]

Walk(s, k, f, g) ==
  s[0] = f /\ s[k] = g /\ \A i \in 1 .. k : s[i] \in GetFiles(s[i - 1])

Reach(f, n) == {g \in Fids \cup {f} : \E k \in 0 .. n : \E s : Walk(s, k, f, g)}

LEMMA FilesAreFids ==
  ASSUME NEW g, NEW c \in GetFiles(g)
  PROVE  c \in Fids /\ <<g, c>> \in children /\ IsDir(g)
BY DEF GetFiles

LEMMA ReachGrows ==
  ASSUME NEW f, NEW n \in Nat \ {0}
  PROVE  Reach(f, n) = Reach(f, n - 1) \cup UNION {GetFiles(g) : g \in Reach(f, n - 1)}
<1>1. ASSUME NEW c \in Reach(f, n)
      PROVE  c \in Reach(f, n - 1) \/ \E g \in Reach(f, n - 1) : c \in GetFiles(g)
  <2>1. PICK k \in 0 .. n : \E s : Walk(s, k, f, c)
    BY <1>1 DEF Reach
  <2>5. PICK s : Walk(s, k, f, c)
    BY <2>1
  <2>2. CASE k \in 0 .. n - 1
    BY <1>1, <2>5, <2>2 DEF Reach
  <2>3. CASE k = n
    <3>1. c \in GetFiles(s[n - 1])
      BY <2>5, <2>3 DEF Walk
    <3>2. Walk(s, n - 1, f, s[n - 1])
      <4>1. \A i \in 1 .. n - 1 : i \in 1 .. n
        OBVIOUS
      <4> QED BY <2>5, <2>3, <4>1 DEF Walk
    <3>3. s[n - 1] \in Fids \cup {f}
      <4>1. CASE n - 1 = 0
        BY <2>5, <4>1 DEF Walk
      <4>2. CASE n - 1 # 0
        <5>1. n - 1 \in 1 .. n
          BY <4>2
        <5>2. s[n - 1] \in GetFiles(s[(n - 1) - 1])
          BY <2>5, <2>3, <5>1 DEF Walk
        <5> QED BY <5>2, FilesAreFids
      <4> QED BY <4>1, <4>2
    <3>4. n - 1 \in 0 .. n - 1
      OBVIOUS
    <3>5. s[n - 1] \in Reach(f, n - 1)
      BY <3>2, <3>3, <3>4 DEF Reach
    <3> QED BY <3>1, <3>5
  <2>4. k \in 0 .. n - 1 \/ k = n
    BY <2>1
  <2> QED BY <2>2, <2>3, <2>4
<1>2. Reach(f, n - 1) \subseteq Reach(f, n)
  <2>1. \A k \in 0 .. n - 1 : k \in 0 .. n
    OBVIOUS
  <2> QED BY <2>1 DEF Reach
<1>3. ASSUME NEW g \in Reach(f, n - 1), NEW c \in GetFiles(g)
      PROVE  c \in Reach(f, n)
  <2>1. PICK k \in 0 .. n - 1 : \E s : Walk(s, k, f, g)
    BY <1>3 DEF Reach
  <2>7. PICK s : Walk(s, k, f, g)
    BY <2>1
  <2>2. PICK t : t = [i \in 0 .. k + 1 |-> IF i = k + 1 THEN c ELSE s[i]]
    OBVIOUS
  <2>3. t[0] = f /\ t[k + 1] = c
    BY <2>7, <2>2 DEF Walk
  <2>4. ASSUME NEW i \in 1 .. k + 1 PROVE t[i] \in GetFiles(t[i - 1])
    <3>1. CASE i = k + 1
      <4>1. t[i] = c /\ t[i - 1] = s[k]
        BY <2>1, <2>2, <3>1
      <4> QED BY <1>3, <2>7, <4>1 DEF Walk
    <3>2. CASE i # k + 1
      <4>1. i \in 1 .. k /\ t[i] = s[i] /\ t[i - 1] = s[i - 1]
        BY <2>1, <2>2, <2>4, <3>2
      <4> QED BY <2>7, <4>1 DEF Walk
    <3> QED BY <3>1, <3>2
  <2>5. Walk(t, k + 1, f, c)
    BY <2>3, <2>4 DEF Walk
  <2>6. k + 1 \in 0 .. n /\ c \in Fids
    <3>1. c \in Fids
      BY <1>3, FilesAreFids
    <3> QED BY <2>1, <3>1
  <2> QED BY <2>5, <2>6 DEF Reach
<1> QED BY <1>1, <1>2, <1>3

LEMMA LevelsExist ==
  ASSUME NEW f
  PROVE  \E L : Levels(L, f)
<1>1. Reach(f, 0) = {f}
  <2>1. \A g \in Reach(f, 0) : g = f
    BY DEF Reach, Walk
  <2>2. PICK s : s = [i \in 0 .. 0 |-> f]
    OBVIOUS
  <2>3. Walk(s, 0, f, f)
    BY <2>2 DEF Walk
  <2>4. f \in Reach(f, 0)
    BY <2>3 DEF Reach
  <2> QED BY <2>1, <2>4
<1>2. PICK L : L = [n \in Nat |-> Reach(f, n)]
  OBVIOUS
<1>3. ASSUME NEW n \in Nat
      PROVE  L[n] = IF n = 0 THEN {f}
                    ELSE L[n - 1] \cup UNION {GetFiles(g) : g \in L[n - 1]}
  <2>1. CASE n = 0
    BY <1>1, <1>2, <2>1
  <2>2. CASE n # 0
    <3>1. n \in Nat \ {0} /\ n - 1 \in Nat
      BY <2>2
    <3>2. L[n] = Reach(f, n) /\ L[n - 1] = Reach(f, n - 1)
      BY <1>2, <3>1
    <3> QED BY <2>2, <3>1, <3>2, ReachGrows
  <2> QED BY <2>1, <2>2
<1> QED BY <1>2, <1>3 DEF Levels

LEMMA SubtreeIs ==
  ASSUME NEW f
  PROVE  \E L : /\ Subtree(f) = L[MaxFiles]
                /\ L[0] = {f}
                /\ \A n \in Nat : L[n + 1] = L[n] \cup UNION {GetFiles(g) : g \in L[n]}
<1> DEFINE level == CHOOSE L : L = [n \in Nat |->
              IF n = 0 THEN {f}
              ELSE L[n - 1] \cup UNION {GetFiles(g) : g \in L[n - 1]}]
<1>5. \E L : L = [n \in Nat |->
              IF n = 0 THEN {f}
              ELSE L[n - 1] \cup UNION {GetFiles(g) : g \in L[n - 1]}]
  BY LevelsExist DEF Levels
<1>1. level = [n \in Nat |->
              IF n = 0 THEN {f}
              ELSE level[n - 1] \cup UNION {GetFiles(g) : g \in level[n - 1]}]
  BY <1>5
<1>2. Subtree(f) = level[MaxFiles]
  BY DEF Subtree
<1> HIDE DEF level
<1>3. level[0] = {f}
  BY <1>1
<1>4. ASSUME NEW n \in Nat
      PROVE  level[n + 1] = level[n] \cup UNION {GetFiles(g) : g \in level[n]}
  <2>1. PICK m : m = n + 1
    OBVIOUS
  <2>2. m \in Nat /\ m # 0 /\ m - 1 = n
    BY <2>1
  <2>3. level[m] = level[m - 1] \cup UNION {GetFiles(g) : g \in level[m - 1]}
    BY <1>1, <2>2
  <2> QED BY <2>1, <2>2, <2>3
<1> QED BY <1>2, <1>3, <1>4

\* What every level is within.
LEMMA LevelsWithin ==
  ASSUME NEW f, NEW L, L[0] = {f},
         \A n \in Nat : L[n + 1] = L[n] \cup UNION {GetFiles(g) : g \in L[n]},
         NEW S, f \in S, \A g \in S : GetFiles(g) \subseteq S
  PROVE  \A n \in Nat : L[n] \subseteq S
<1> DEFINE Bad == {n \in Nat : ~(L[n] \subseteq S)}
<1> SUFFICES ASSUME Bad # {} PROVE FALSE
  OBVIOUS
<1>1. Bad \in SUBSET Nat
  OBVIOUS
<1>2. PICK n \in Bad : \A j \in Bad : n <= j
  BY <1>1, LeastExists
<1>3. n # 0
  BY <1>2
<1>4. PICK m \in Nat : n = m + 1
  <2>1. n - 1 \in Nat /\ n = (n - 1) + 1
    BY <1>2, <1>3
  <2> QED BY <2>1
<1>5. L[m] \subseteq S
  <2>1. m \notin Bad
    BY <1>2, <1>4
  <2> QED BY <2>1
<1>6. L[m + 1] \subseteq S
  BY <1>5
<1> QED BY <1>2, <1>4, <1>6

LEMMA SubtreeWithin ==
  ASSUME NEW f, NEW S, f \in S, \A g \in S : GetFiles(g) \subseteq S
  PROVE  Subtree(f) \subseteq S
<1>1. PICK L : /\ Subtree(f) = L[MaxFiles]
               /\ L[0] = {f}
               /\ \A n \in Nat : L[n + 1] = L[n] \cup UNION {GetFiles(g) : g \in L[n]}
  BY SubtreeIs
<1> QED BY <1>1, LevelsWithin, ConstantsAssumption

\* A file is made after its parent, and its path says where, while the parent
\* is there; only a stray's may be gone or no directory.
ParentsInv ==
  /\ kind[Root] = "dir"
  /\ \A f \in files :
       /\ parentOf[f] < f
       /\ IsFile(parentOf[f]) => GetFid(ParentPath(pathOf[f])) = parentOf[f]
       /\ f \notin strays => (IsFile(parentOf[f]) /\ IsDir(parentOf[f]))

TreeInv == MapInv /\ ParentsInv

\* A directory's files are files, each made after it.
LEMMA FilesAreBelow ==
  ASSUME TreeInv, NEW g, NEW c \in GetFiles(g)
  PROVE  c \in files /\ parentOf[c] = g /\ g < c /\ c \in Fids
<1>1. <<g, c>> \in children /\ c \in Fids
  BY FilesAreFids
<1>2. PICK x \in files : <<g, c>> = <<parentOf[x], x>>
  BY <1>1 DEF TreeInv, MapInv, ChildrenAgree
<1> QED BY <1>1, <1>2 DEF TreeInv, ParentsInv

\* The number of levels is enough: a file is reached within as many steps as
\* its number allows, since each step leads to a larger one.
LEMMA SubtreeClosed ==
  ASSUME TreeInv, NEW f \in Fids \cup {Root}
  PROVE  /\ f \in Subtree(f)
         /\ \A g \in Subtree(f) : GetFiles(g) \subseteq Subtree(f)
<1>1. PICK L : /\ Subtree(f) = L[MaxFiles]
               /\ L[0] = {f}
               /\ \A n \in Nat : L[n + 1] = L[n] \cup UNION {GetFiles(g) : g \in L[n]}
  BY SubtreeIs
<1>2. \A n \in Nat : \A m \in Nat : n <= m => L[n] \subseteq L[m]
  <2> DEFINE Bad == {m \in Nat : \E n \in Nat : n <= m /\ ~(L[n] \subseteq L[m])}
  <2> SUFFICES ASSUME Bad # {} PROVE FALSE
    OBVIOUS
  <2>1. Bad \in SUBSET Nat
    OBVIOUS
  <2>2. PICK m \in Bad : \A j \in Bad : m <= j
    BY <2>1, LeastExists
  <2>3. PICK n \in Nat : n <= m /\ ~(L[n] \subseteq L[m])
    BY <2>2
  <2>4. n # m /\ m \in Nat
    BY <2>2, <2>3
  <2>5. PICK k \in Nat : m = k + 1
    <3>1. m - 1 \in Nat /\ m = (m - 1) + 1
      BY <2>3, <2>4
    <3> QED BY <3>1
  <2>6. n <= k /\ k \notin Bad
    BY <2>2, <2>3, <2>4, <2>5
  <2>7. L[n] \subseteq L[k]
    BY <2>6
  <2>8. L[k] \subseteq L[k + 1]
    BY <1>1
  <2> QED BY <2>3, <2>5, <2>7, <2>8
<1>3. \A c \in Fids : c - FirstFid \in 1 .. MaxFiles
  BY ConstantsAssumption DEF Fids, FirstFid
<1> DEFINE S == {g \in Fids \cup {f} : g = f \/ (g \in Fids /\ g \in L[g - FirstFid])}
<1>4. ASSUME NEW g \in S, NEW c \in GetFiles(g) PROVE c \in S
  <2>1. c \in Fids /\ g < c
    BY FilesAreBelow
  <2>2. PICK d : d = c - FirstFid
    OBVIOUS
  <2>3. d \in 1 .. MaxFiles
    BY <1>3, <2>1, <2>2
  <2>4. c \in L[d]
    <3>1. CASE g = f
      <4>1. c \in L[0 + 1] /\ 0 + 1 = 1
        BY <1>1, <3>1
      <4>2. L[1] \subseteq L[d]
        BY <1>2, <2>3
      <4> QED BY <4>1, <4>2
    <3>2. CASE g # f
      <4>1. PICK e : e = g - FirstFid
        OBVIOUS
      <4>2. g \in Fids /\ g \in L[e] /\ e \in 1 .. MaxFiles
        BY <1>3, <1>4, <3>2, <4>1
      <4>3. c \in L[e + 1]
        BY <1>1, <4>2
      <4>4. e + 1 <= d
        BY <2>1, <2>2, <4>1, <4>2 DEF Fids, FirstFid
      <4>5. L[e + 1] \subseteq L[d]
        BY <1>2, <2>3, <4>2, <4>4
      <4> QED BY <4>3, <4>5
    <3> QED BY <3>1, <3>2
  <2> QED BY <2>1, <2>2, <2>4
<1>5. f \in S
  OBVIOUS
<1>6. \A n \in Nat : L[n] \subseteq S
  <2>1. \A g \in S : GetFiles(g) \subseteq S
    BY <1>4
  <2> HIDE DEF S
  <2> QED BY <1>1, <1>5, <2>1, LevelsWithin
<1>7. MaxFiles \in Nat
  BY ConstantsAssumption
<1>8. f \in Subtree(f)
  <2>1. L[0] \subseteq L[MaxFiles]
    BY <1>2, <1>7
  <2> QED BY <1>1, <2>1
<1>9. ASSUME NEW g \in Subtree(f), NEW c \in GetFiles(g) PROVE c \in Subtree(f)
  <2>1. g \in S
    BY <1>1, <1>6, <1>7, <1>9
  <2>2. c \in S
    BY <1>4, <1>9, <2>1
  <2>3. CASE c = f
    BY <1>8, <2>3
  <2>4. CASE c # f
    <3>1. PICK d : d = c - FirstFid
      OBVIOUS
    <3>2. c \in L[d] /\ d \in 1 .. MaxFiles
      BY <1>3, <2>2, <2>4, <3>1
    <3>3. L[d] \subseteq L[MaxFiles]
      BY <1>2, <1>7, <3>2
    <3> QED BY <1>1, <3>2, <3>3
  <2> QED BY <2>3, <2>4
<1> QED BY <1>8, <1>9

----------------------------------------------------------------------------
\* Where get_fid leads.
LEMMA FidIsFile ==
  ASSUME MapInv, NEW q \in Paths \cup {RootPath}, GetFid(q) # NoFid
  PROVE  \/ q = RootPath /\ GetFid(q) = Root
         \/ /\ q \in Paths /\ q # RootPath /\ GetFid(q) = fidAt[q] /\ fidAt[q] \in files
            /\ fidAt[q] \in Fids /\ fidAt[q] # Root /\ pathOf[fidAt[q]] = q
<1>1. CASE q = RootPath
  BY <1>1 DEF GetFid
<1>2. CASE q # RootPath
  <2>1. q \in Paths /\ GetFid(q) = fidAt[q] /\ fidAt[q] # NoFid
    BY <1>2 DEF GetFid
  <2>2. fidAt[q] \in files /\ pathOf[fidAt[q]] = q /\ fidAt[q] \in Fids
    BY <2>1 DEF MapInv, PathsAgree, TypeOK
  <2>3. Root \notin Fids
    BY ConstantsAssumption DEF Root, Fids, FirstFid
  <2> QED BY <1>2, <2>1, <2>2, <2>3
<1> QED BY <1>1, <1>2

LEMMA FilesAre ==
  ASSUME MapInv, NEW f \in files
  PROVE  /\ f \in Fids /\ f \in Int /\ f # Root /\ f # NoFid /\ f <= fidCounter
         /\ fidCounter \in Nat
         /\ pathOf[f] \in Paths /\ fidAt[pathOf[f]] = f
         /\ parentOf[f] \in Fids \cup {Root} /\ parentOf[f] # NoFid /\ parentOf[f] \in Int
<1>1. f \in FirstFid + 1 .. fidCounter /\ fidCounter \in FirstFid .. FirstFid + MaxFiles
  BY DEF MapInv, TypeOK
<1>2. f \in Fids /\ f \in Int /\ f # Root /\ f # NoFid /\ f <= fidCounter /\ fidCounter \in Nat
  BY <1>1, ConstantsAssumption DEF Fids, FirstFid, Root, NoFid
<1>3. pathOf[f] \in Paths /\ fidAt[pathOf[f]] = f
  BY <1>2 DEF MapInv, TypeOK, PathsAgree
<1>4. parentOf[f] \in Fids \cup {Root} /\ parentOf[f] # NoFid
  BY <1>2 DEF MapInv, TypeOK, ChildrenAgree
<1>5. parentOf[f] \in Int
  BY <1>4, ConstantsAssumption DEF Fids, FirstFid, Root
<1> QED BY <1>2, <1>3, <1>4, <1>5

LEMMA TreeInit == Init => TreeInv
<1> SUFFICES ASSUME Init PROVE TreeInv
  OBVIOUS
<1>1. MapInv
  BY MapInit
<1>2. kind[Root] = "dir" /\ files = {}
  BY DEF Init
<1> QED BY <1>1, <1>2 DEF TreeInv, ParentsInv

\* add_file: each new file is below the one before it, the first below the
\* parent that was there.
LEMMA AddFilesKeepsParents ==
  ASSUME TreeInv, NEW p \in Paths, NEW first \in 1 .. Len(p),
         NEW last \in {"file", "dir"}, AddFiles(p, first, last),
         GetFid(SubSeq(p, 1, first - 1)) # NoFid,
         \A e \in first .. Len(p) : fidAt[SubSeq(p, 1, e)] = NoFid
  PROVE  TreeInv'
<1>0. PICK top : top = GetFid(SubSeq(p, 1, first - 1))
  OBVIOUS
<1> DEFINE n == Len(p) - first + 1
           new == fidCounter + 1 .. fidCounter + n
           len(f) == first + f - fidCounter - 1
           path(f) == SubSeq(p, 1, len(f))
           above(f) == IF f = fidCounter + 1 THEN top ELSE f - 1
           ends(q) == IsPrefixOf(q, p) /\ Len(q) >= first
           fidOf(q) == fidCounter + Len(q) - first + 1
<1>1. /\ fidCounter + n <= FirstFid + MaxFiles
      /\ fidCounter' = fidCounter + n
      /\ files' = files \cup new
      /\ pathOf' = [f \in Fids |-> IF f \in new THEN path(f) ELSE pathOf[f]]
      /\ fidAt' = [q \in Paths |-> IF ends(q) THEN fidOf(q) ELSE fidAt[q]]
      /\ parentOf' = [f \in Fids |-> IF f \in new THEN above(f) ELSE parentOf[f]]
      /\ kind' = [f \in Fids \cup {Root} |->
                    IF f = fidCounter + n THEN last
                    ELSE IF f \in new THEN "dir" ELSE kind[f]]
      /\ strays \subseteq strays'
      /\ ~IsDir(top) => fidCounter + 1 \in strays'
  BY <1>0 DEF AddFiles
<1>2. /\ Len(p) \in Nat /\ first \in Nat /\ n \in Nat \ {0}
      /\ fidCounter \in Nat /\ fidCounter >= FirstFid
      /\ MapInv
  BY PathType, ConstantsAssumption DEF TreeInv, MapInv, TypeOK, FirstFid
<1>3. MapInv'
  BY <1>2, AddFilesKeepsMaps
<1>4. new \subseteq Fids
  BY <1>1, <1>2, ConstantsAssumption DEF Fids, FirstFid
<1>5. top = Root \/ (top \in files /\ top \in Fids)
  <2>1. SubSeq(p, 1, first - 1) \in Paths \cup {RootPath}
    <3>1. CASE first = 1
      BY <3>1, SubSeqEmpty DEF RootPath
    <3>2. CASE first # 1
      <4>1. first - 1 \in 1 .. Len(p)
        BY <1>2, <3>2
      <4> QED BY <4>1, PrefixType
    <3> QED BY <3>1, <3>2
  <2> QED BY <1>0, <1>2, <2>1, FidIsFile
<1>6. top \in Int /\ top <= fidCounter /\ top # NoFid /\ top \notin new
  <2>1. top \in Int /\ top <= fidCounter
    BY <1>2, <1>5, FilesAre DEF Root, FirstFid
  <2> QED BY <1>0, <1>2, <2>1
<1>7. ASSUME NEW q \in Paths \cup {RootPath}, GetFid(q) # NoFid
      PROVE  GetFid(q)' = GetFid(q)
  <2>1. CASE q = RootPath
    BY <2>1 DEF GetFid
  <2>2. CASE q # RootPath
    <3>1. q \in Paths /\ fidAt[q] # NoFid
      BY <1>7, <2>2 DEF GetFid
    <3>2. ~ends(q)
      <4> SUFFICES ASSUME ends(q) PROVE FALSE
        OBVIOUS
      <4>1. Len(q) \in first .. Len(p) /\ q = SubSeq(p, 1, Len(q))
        BY <1>2, <3>1, PathType DEF IsPrefixOf
      <4> QED BY <3>1, <4>1
    <3> QED BY <1>1, <2>2, <3>1, <3>2 DEF GetFid
  <2> QED BY <2>1, <2>2
<1>8. ASSUME NEW f \in files
      PROVE  /\ parentOf'[f] < f
             /\ IsFile(parentOf[f])' => (GetFid(ParentPath(pathOf[f])) = parentOf[f])'
             /\ f \notin strays' => (IsFile(parentOf[f])' /\ IsDir(parentOf[f])')
  <2>1. /\ f \in Fids /\ f \in Int /\ f <= fidCounter /\ pathOf[f] \in Paths
        /\ parentOf[f] \in Fids \cup {Root} /\ parentOf[f] # NoFid /\ parentOf[f] \in Int
    BY <1>2, <1>8, FilesAre
  <2>2. /\ parentOf[f] < f
        /\ IsFile(parentOf[f]) => GetFid(ParentPath(pathOf[f])) = parentOf[f]
        /\ f \notin strays => (IsFile(parentOf[f]) /\ IsDir(parentOf[f]))
    BY <1>8 DEF TreeInv, ParentsInv
  <2>3. f \notin new /\ parentOf[f] \notin new /\ parentOf[f] # fidCounter + n
    BY <1>2, <2>1, <2>2
  <2>4. parentOf'[f] = parentOf[f] /\ pathOf'[f] = pathOf[f]
    BY <1>1, <2>1, <2>3
  <2>5. kind'[parentOf[f]] = kind[parentOf[f]]
    BY <1>1, <2>1, <2>3
  <2>6. (parentOf[f] \in files' => parentOf[f] \in files) /\ files \subseteq files'
    BY <1>1, <2>3
  <2>7. ParentPath(pathOf[f]) \in Paths \cup {RootPath}
    BY <2>1, ParentIsPath
  <2>8. ASSUME IsFile(parentOf[f])
        PROVE  (GetFid(ParentPath(pathOf[f])) = parentOf[f])'
    <3>1. PICK q : q = ParentPath(pathOf[f])
      OBVIOUS
    <3>2. GetFid(q) = parentOf[f] /\ GetFid(q)' = GetFid(q)
      BY <1>7, <2>1, <2>2, <2>7, <2>8, <3>1
    <3>3. ParentPath(pathOf'[f]) = q
      BY <2>4, <3>1
    <3> QED BY <2>4, <3>2, <3>3
  <2> QED BY <1>1, <2>2, <2>4, <2>5, <2>6, <2>8 DEF IsFile, IsDir
<1>9. ASSUME NEW f \in new
      PROVE  /\ parentOf'[f] < f
             /\ (GetFid(ParentPath(pathOf[f])) = parentOf[f])'
             /\ f \notin strays' => (IsFile(parentOf[f])' /\ IsDir(parentOf[f])')
  <2>1. f \in Fids /\ f \in Int /\ len(f) \in first .. Len(p) /\ len(f) \in 1 .. Len(p)
    BY <1>2, <1>4
  <2>2. parentOf'[f] = above(f) /\ pathOf'[f] = path(f)
    BY <1>1, <2>1
  <2>3. ParentPath(path(f)) = SubSeq(p, 1, len(f) - 1)
    <3>1. Len(path(f)) = len(f)
      BY <2>1, PrefixType
    <3>2. len(f) - 1 \in 0 .. len(f)
      BY <1>2, <2>1
    <3>3. SubSeq(path(f), 1, len(f) - 1) = SubSeq(p, 1, len(f) - 1)
      BY <2>1, <3>2, PrefixOfPrefix
    <3> QED BY <3>1, <3>3 DEF ParentPath
  <2>4. CASE f = fidCounter + 1
    <3>1. above(f) = top /\ len(f) = first
      BY <1>2, <2>4
    <3>2. ParentPath(pathOf'[f]) = SubSeq(p, 1, first - 1)
      BY <2>2, <2>3, <3>1
    <3>3. (GetFid(ParentPath(pathOf[f])) = parentOf[f])'
      <4>1. SubSeq(p, 1, first - 1) \in Paths \cup {RootPath}
        <5>1. ParentPath(path(f)) \in Paths \cup {RootPath}
          BY <2>1, PrefixType, ParentIsPath
        <5> QED BY <2>3, <3>1, <5>1
      <4>2. PICK q : q = SubSeq(p, 1, first - 1)
        OBVIOUS
      <4>3. GetFid(q)' = GetFid(q) /\ GetFid(q) = top
        BY <1>0, <1>6, <1>7, <4>1, <4>2
      <4> QED BY <2>2, <3>1, <3>2, <4>2, <4>3
    <3>4. f \notin strays' => IsDir(top)
      BY <1>1, <2>4
    <3>5. kind'[top] = kind[top]
      <4>1. top # fidCounter + n /\ top \in Fids \cup {Root}
        BY <1>2, <1>5, <1>6
      <4> QED BY <1>1, <1>6, <4>1
    <3>6. IsFile(top)' /\ (IsDir(top) => IsDir(top)')
      BY <1>1, <1>5, <3>5 DEF IsFile, IsDir
    <3>7. parentOf'[f] = top /\ top < f
      BY <1>2, <1>6, <2>2, <2>4, <3>1
    <3> QED BY <3>3, <3>4, <3>6, <3>7 DEF IsFile, IsDir
  <2>5. CASE f # fidCounter + 1
    <3>1. PICK g : g = f - 1
      OBVIOUS
    <3>2. g \in new /\ g \in Fids /\ g # fidCounter + n /\ g < f /\ len(g) = len(f) - 1
      BY <1>2, <1>4, <2>5, <3>1
    <3>3. parentOf'[f] = g /\ g \in files'
      BY <1>1, <2>2, <2>5, <3>1, <3>2
    <3>4. kind'[g] = "dir"
      BY <1>1, <3>2
    <3>5. ParentPath(pathOf'[f]) = pathOf'[g]
      BY <1>1, <2>2, <2>3, <3>2
    <3>6. PICK q : q = path(g)
      OBVIOUS
    <3>9. q \in Paths /\ len(g) \in 1 .. Len(p)
      BY <1>2, <3>2, <3>6, PrefixType
    <3>10. pathOf'[g] = q /\ fidAt'[q] = g
      <4>1. pathOf'[g] = q
        BY <1>1, <3>2, <3>6
      <4>2. \A x \in files' : fidAt'[pathOf'[x]] = x
        BY <1>3 DEF MapInv, PathsAgree
      <4> QED BY <3>3, <4>1, <4>2
    <3>11. GetFid(q)' = g
      BY <3>9, <3>10, PathType DEF GetFid
    <3>7. GetFid(ParentPath(pathOf[f]))' = g
      BY <3>5, <3>10, <3>11
    <3>8. g # NoFid
      BY <1>2, <3>2 DEF NoFid, FirstFid
    <3> QED BY <3>2, <3>3, <3>4, <3>5, <3>7, <3>8 DEF IsFile, IsDir
  <2> QED BY <2>4, <2>5
<1>10. kind'[Root] = "dir"
  <2>1. Root \notin new /\ Root # fidCounter + n
    BY <1>2 DEF Root, FirstFid
  <2> QED BY <1>1, <2>1 DEF TreeInv, ParentsInv
<1> HIDE DEF n, new, path, above, ends, fidOf
<1> QED BY <1>1, <1>3, <1>8, <1>9, <1>10 DEF TreeInv, ParentsInv

\* remove_file: who is not removed keeps its parent, unless it is a stray.
LEMMA EraseKeepsParents ==
  ASSUME TreeInv, NEW f \in Fids \cup {Root}, Erase(Subtree(f))
  PROVE  TreeInv'
<1>1. PICK set : set = Subtree(f)
  OBVIOUS
<1>2. MapInv /\ MapInv'
  BY EraseKeepsMaps DEF TreeInv
<1>3. /\ files' = files \ set
      /\ pathOf' = [g \in Fids |-> IF g \in set THEN NoPath ELSE pathOf[g]]
      /\ fidAt' = [q \in Paths |->
                    IF \E g \in set \cap files : pathOf[g] = q THEN NoFid ELSE fidAt[q]]
      /\ parentOf' = [g \in Fids |-> IF g \in set THEN NoFid ELSE parentOf[g]]
      /\ UNCHANGED <<kind, strays>>
  BY <1>1 DEF Erase
<1>4. ASSUME NEW g \in files'
      PROVE  /\ parentOf'[g] < g
             /\ IsFile(parentOf[g])' => (GetFid(ParentPath(pathOf[g])) = parentOf[g])'
             /\ g \notin strays' => (IsFile(parentOf[g])' /\ IsDir(parentOf[g])')
  <2>1. /\ g \in files /\ g \notin set /\ g \in Fids /\ pathOf[g] \in Paths
        /\ parentOf[g] \in Fids \cup {Root}
    BY <1>2, <1>3, <1>4, FilesAre
  <2>2. parentOf'[g] = parentOf[g] /\ pathOf'[g] = pathOf[g]
    BY <1>3, <2>1
  <2>3. /\ parentOf[g] < g
        /\ IsFile(parentOf[g]) => GetFid(ParentPath(pathOf[g])) = parentOf[g]
        /\ g \notin strays => (IsFile(parentOf[g]) /\ IsDir(parentOf[g]))
    BY <2>1 DEF TreeInv, ParentsInv
  <2>4. PICK h : h = parentOf[g]
    OBVIOUS
  <2>5. PICK q : q = ParentPath(pathOf[g])
    OBVIOUS
  <2>6. q \in Paths \cup {RootPath}
    BY <2>1, <2>5, ParentIsPath
  <2>7. ASSUME h = Root \/ h \in files \ set
        PROVE  GetFid(q)' = h
    <3>1. GetFid(q) = h /\ h # NoFid
      BY <1>2, <2>3, <2>4, <2>5, <2>7, FilesAre DEF IsFile, Root, NoFid
    <3>2. CASE q = RootPath
      BY <3>1, <3>2 DEF GetFid
    <3>3. CASE q # RootPath
      <4>1. q \in Paths /\ fidAt[q] = h /\ h \in files /\ h # Root
        BY <1>2, <2>6, <3>1, <3>3, FidIsFile
      <4>2. ~ \E x \in set \cap files : pathOf[x] = q
        BY <1>2, <2>7, <4>1, FilesAre
      <4> QED BY <1>3, <3>3, <4>1, <4>2 DEF GetFid
    <3> QED BY <3>2, <3>3
  <2>8. ASSUME g \notin strays
        PROVE  h = Root \/ h \in files \ set
    <3>1. IsFile(h) /\ IsDir(h)
      BY <2>3, <2>4, <2>8
    <3>2. <<h, g>> \in children
      BY <1>2, <2>1, <2>4 DEF MapInv, ChildrenAgree
    <3>3. g \in GetFiles(h)
      BY <2>1, <3>1, <3>2 DEF GetFiles
    <3>4. h \notin set
      BY <1>1, <2>1, <3>3, SubtreeClosed
    <3> QED BY <3>1, <3>4 DEF IsFile
  <2>9. IsFile(parentOf[g])' <=> (h = Root \/ h \in files \ set)
    BY <1>3, <2>2, <2>4 DEF IsFile
  <2>10. IsDir(h) => IsDir(parentOf[g])'
    BY <1>3, <2>2, <2>4 DEF IsDir
  <2>11. GetFid(q)' = h => (GetFid(ParentPath(pathOf[g])) = parentOf[g])'
    BY <2>2, <2>4, <2>5
  <2> QED BY <1>3, <2>2, <2>3, <2>4, <2>7, <2>8, <2>9, <2>10, <2>11
<1>5. kind'[Root] = "dir"
  BY <1>3 DEF TreeInv, ParentsInv
<1> QED BY <1>2, <1>4, <1>5 DEF TreeInv, ParentsInv

LEMMA MakeDirectoryKeepsParents ==
  ASSUME TreeInv, NEW p \in Paths, MakeDirectory(p)
  PROVE  TreeInv'
<1>1. CASE Create(p, "dir")
  <2>1. MapInv
    BY DEF TreeInv
  <2>2. PICK k \in {"file", "dir"} : k = "dir"
    OBVIOUS
  <2>3. Create(p, k)
    BY <1>1, <2>2
  <2> QED BY <2>1, <2>3, CreateIsAdd, AddFilesKeepsParents
<1>2. CASE /\ kind' = [kind EXCEPT ![GetFid(p)] = "dir"]
           /\ UNCHANGED <<fidCounter, files, pathOf, fidAt, parentOf, children,
                          strays>>
  <2>1. MapInv' /\ MapInv
    BY MakeDirectoryKeepsMaps DEF TreeInv
  <2>2. \A x \in Fids \cup {Root} : kind[x] = "dir" => kind'[x] = "dir"
    BY <1>2, <2>1 DEF MapInv, TypeOK
  <2>3. kind'[Root] = "dir"
    BY <2>2 DEF TreeInv, ParentsInv
  <2>4. ASSUME NEW f \in files'
        PROVE  /\ parentOf'[f] < f
               /\ IsFile(parentOf[f])' => (GetFid(ParentPath(pathOf[f])) = parentOf[f])'
               /\ f \notin strays' => (IsFile(parentOf[f])' /\ IsDir(parentOf[f])')
    <3>1. f \in files /\ parentOf[f] \in Fids \cup {Root} /\ strays' = strays
      BY <1>2, <2>1, <2>4, FilesAre
    <3>2. /\ parentOf[f] < f
          /\ IsFile(parentOf[f]) => GetFid(ParentPath(pathOf[f])) = parentOf[f]
          /\ f \notin strays => (IsFile(parentOf[f]) /\ IsDir(parentOf[f]))
      BY <3>1 DEF TreeInv, ParentsInv
    <3>3. parentOf'[f] < f /\ (IsFile(parentOf[f])' <=> IsFile(parentOf[f]))
      BY <1>2, <3>2 DEF IsFile
    <3>4. (GetFid(ParentPath(pathOf[f])) = parentOf[f])'
            <=> GetFid(ParentPath(pathOf[f])) = parentOf[f]
      BY <1>2 DEF GetFid, ParentPath
    <3>5. IsDir(parentOf[f]) => IsDir(parentOf[f])'
      BY <1>2, <2>2, <3>1 DEF IsDir
    <3> QED BY <3>1, <3>2, <3>3, <3>4, <3>5
  <2> QED BY <2>1, <2>3, <2>4 DEF TreeInv, ParentsInv
<1> QED BY <1>1, <1>2 DEF MakeDirectory

LEMMA RmKeepsParents ==
  ASSUME TreeInv, NEW p \in Paths \cup {RootPath}, NEW r, NEW np, Rm(p, r, np)
  PROVE  TreeInv'
<1>1. MapInv
  BY DEF TreeInv
<1>2. IsFile(GetFid(p)) /\ Erase(Subtree(GetFid(p)))
  BY DEF Rm, RemoveFile
<1>3. GetFid(p) \in Fids \cup {Root}
  BY <1>1, <1>2, FilesAre DEF IsFile
<1> QED BY <1>2, <1>3, EraseKeepsParents

LEMMA TreeStep == TreeInv /\ [TreeNext]_treeVars => TreeInv'
<1> SUFFICES ASSUME TreeInv, [TreeNext]_treeVars PROVE TreeInv'
  OBVIOUS
<1>1. MapInv
  BY DEF TreeInv
<1>2. ASSUME NEW p \in Paths, NEW k \in {"file", "dir"}, Create(p, k)
      PROVE  TreeInv'
  BY <1>1, <1>2, CreateIsAdd, AddFilesKeepsParents
<1>3. ASSUME NEW p \in Paths, NEW k \in {"file", "dir"}, CreateRecursive(p, k)
      PROVE  TreeInv'
  <2>1. PICK d \in 1 .. Len(p) :
           /\ GetFid(SubSeq(p, 1, d - 1)) # NoFid
           /\ \A e \in d .. Len(p) : fidAt[SubSeq(p, 1, e)] = NoFid
           /\ AddFiles(p, d, k)
    BY <1>3, RecursiveIsAdd
  <2> QED BY <2>1, AddFilesKeepsParents
<1>4. ASSUME NEW p \in Paths, MakeDirectory(p) PROVE TreeInv'
  BY <1>4, MakeDirectoryKeepsParents
<1>5. ASSUME NEW p \in Paths \cup {RootPath}, NEW r, NEW np, Rm(p, r, np)
      PROVE  TreeInv'
  BY <1>5, RmKeepsParents
<1>6. CASE UNCHANGED treeVars
  <2>1. MapInv'
    BY <1>1, <1>6, MapStep
  <2> QED BY <1>6, <2>1 DEF treeVars, TreeInv, ParentsInv, IsFile, IsDir, GetFid,
          ParentPath
<1> QED BY <1>2, <1>3, <1>4, <1>5, <1>6 DEF TreeNext

LEMMA TreeInvariant == TreeSpec => []TreeInv
  BY TreeInit, TreeStep, PTL DEF TreeSpec

\* A file that was not created under a plain file has its parent, where its
\* path says (add_file, remove_file's recursion): only strays are orphans.
THEOREM OrphansAlwaysStrays == TreeSpec => []OrphansAreStrays
<1>1. TreeInv => OrphansAreStrays
  BY DEF TreeInv, ParentsInv, OrphansAreStrays
<1> QED BY <1>1, TreeInvariant, PTL

----------------------------------------------------------------------------
\* The file at a path, no stray, has its parent at the path's parent.
LEMMA StepUp ==
  ASSUME TreeInv, NEW p \in Paths, NEW m \in 2 .. Len(p),
         fidAt[SubSeq(p, 1, m)] # NoFid, fidAt[SubSeq(p, 1, m)] \notin strays
  PROVE  /\ fidAt[SubSeq(p, 1, m - 1)] \in files
         /\ fidAt[SubSeq(p, 1, m)] \in GetFiles(fidAt[SubSeq(p, 1, m - 1)])
<1>1. Len(p) \in Nat /\ MapInv
  BY ParentIsPath DEF TreeInv
<1>2. m \in 1 .. Len(p) /\ m - 1 \in 1 .. Len(p) /\ m - 1 \in 0 .. m /\ m - 1 # 0
  BY <1>1
<1>3. PICK q : q = SubSeq(p, 1, m)
  OBVIOUS
<1>4. PICK up : up = SubSeq(p, 1, m - 1)
  OBVIOUS
<1>5. q \in Paths /\ Len(q) = m /\ up \in Paths /\ up # RootPath /\ ParentPath(q) = up
  <2>1. q \in Paths /\ Len(q) = m /\ up \in Paths
    BY <1>2, <1>3, <1>4, PrefixType
  <2>2. SubSeq(q, 1, m - 1) = up
    BY <1>2, <1>3, <1>4, PrefixOfPrefix
  <2> QED BY <2>1, <2>2, PathType DEF ParentPath
<1>6. PICK g : g = fidAt[q]
  OBVIOUS
<1>7. g \in files /\ g \notin strays /\ pathOf[g] = q /\ g \in Fids
  BY <1>1, <1>3, <1>5, <1>6, FilesAre DEF MapInv, PathsAgree
<1>8. PICK h : h = parentOf[g]
  OBVIOUS
<1>9. IsFile(h) /\ IsDir(h) /\ GetFid(up) = h /\ h # NoFid
  <2>1. IsFile(h) /\ IsDir(h) /\ GetFid(ParentPath(pathOf[g])) = h
    BY <1>7, <1>8 DEF TreeInv, ParentsInv
  <2> QED BY <1>1, <1>5, <1>7, <1>8, <2>1, FilesAre
<1>10. fidAt[up] = h /\ h \in files
  BY <1>1, <1>5, <1>9, FidIsFile
<1>11. <<h, g>> \in children
  BY <1>1, <1>7, <1>8 DEF MapInv, ChildrenAgree
<1>12. g \in GetFiles(h)
  BY <1>7, <1>9, <1>11 DEF GetFiles
<1> QED BY <1>3, <1>4, <1>6, <1>10, <1>12

\* Where there is a file that is no stray, and none above it is, there is one
\* at each prefix of its path.
LEMMA WalkUp ==
  ASSUME TreeInv, NEW p \in Paths, NEW last \in 1 .. Len(p), NEW d \in 1 .. last,
         fidAt[SubSeq(p, 1, last)] # NoFid,
         \A e \in 1 .. Len(p) : fidAt[SubSeq(p, 1, e)] \notin strays
  PROVE  fidAt[SubSeq(p, 1, d)] # NoFid
<1> DEFINE Good == {e \in 1 .. last : fidAt[SubSeq(p, 1, e)] # NoFid
                      /\ \A x \in e .. last : fidAt[SubSeq(p, 1, x)] # NoFid}
<1>1. Len(p) \in Nat /\ last \in Nat /\ last \in 1 .. last
  BY ParentIsPath
<1>2. Good \in SUBSET Nat /\ last \in Good
  <2>1. \A x \in last .. last : x = last
    BY <1>1
  <2> QED BY <1>1, <2>1
<1>3. PICK m \in Good : \A j \in Good : m <= j
  BY <1>2, LeastExists
<1>4. m = 1
  <2> SUFFICES ASSUME m # 1 PROVE FALSE
    OBVIOUS
  <2>1. m \in 2 .. Len(p) /\ m \in 1 .. last /\ fidAt[SubSeq(p, 1, m)] # NoFid
    BY <1>1, <1>3
  <2>2. fidAt[SubSeq(p, 1, m)] \notin strays
    BY <1>1, <2>1
  <2>3. fidAt[SubSeq(p, 1, m - 1)] \in files
    BY <2>1, <2>2, StepUp
  <2>4. NoFid \notin files
    BY FilesAre DEF TreeInv
  <2>5. m - 1 \in 1 .. last
    BY <1>1, <2>1
  <2>6. \A x \in m - 1 .. last : x = m - 1 \/ x \in m .. last
    BY <1>1, <2>1
  <2>7. m - 1 \in Good
    BY <1>3, <2>3, <2>4, <2>5, <2>6
  <2> QED BY <1>3, <2>1, <2>7
<1> QED BY <1>3, <1>4

\* Creating recursively gives every missing prefix of the path a directory
\* (create_ensure_path), unless it met a stray.
THEOREM MissingDirectoriesMade == TreeSpec => FillsInDirectories
<1>1. ASSUME TreeInv, NEW p \in Paths, NEW k \in {"file", "dir"}, CreateRecursive(p, k),
             \A d \in 1 .. Len(p) : fidAt[SubSeq(p, 1, d)] \notin strays,
             NEW d \in 1 .. Len(p) - 1
      PROVE  LET q == SubSeq(p, 1, d)
             IN fidAt'[q] # NoFid /\ (fidAt[q] = NoFid => kind'[fidAt'[q]] = "dir")
  <2>1. PICK first \in 1 .. Len(p) :
           /\ GetFid(SubSeq(p, 1, first - 1)) # NoFid
           /\ \A e \in first .. Len(p) : fidAt[SubSeq(p, 1, e)] = NoFid
           /\ AddFiles(p, first, k)
    BY <1>1, RecursiveIsAdd
  <2>2. PICK n : n = Len(p) - first + 1
    OBVIOUS
  <2>3. PICK new : new = fidCounter + 1 .. fidCounter + n
    OBVIOUS
  <2>4. PICK q : q = SubSeq(p, 1, d)
    OBVIOUS
  <2>5. /\ Len(p) \in Nat /\ first \in Nat /\ n \in Nat \ {0}
        /\ fidCounter \in Nat /\ fidCounter >= FirstFid
        /\ d \in 1 .. Len(p) /\ d # Len(p)
    BY <2>2, PathType, ParentIsPath, ConstantsAssumption, <1>1
       DEF TreeInv, MapInv, TypeOK, FirstFid
  <2>6. q \in Paths /\ Len(q) = d
    BY <2>4, <2>5, PrefixType
  <2>7. /\ fidCounter + n <= FirstFid + MaxFiles
        /\ fidAt' = [x \in Paths |->
                       IF IsPrefixOf(x, p) /\ Len(x) >= first
                       THEN fidCounter + Len(x) - first + 1 ELSE fidAt[x]]
        /\ kind' = [f \in Fids \cup {Root} |->
                      IF f = fidCounter + n THEN k
                      ELSE IF f \in new THEN "dir" ELSE kind[f]]
    BY <2>1, <2>2, <2>3 DEF AddFiles
  <2>8. CASE d >= first
    <3>1. PICK f : f = fidCounter + d - first + 1
      OBVIOUS
    <3>2. f \in new /\ f # fidCounter + n /\ f # NoFid /\ f \in Fids
      BY <2>2, <2>3, <2>5, <2>7, <2>8, <3>1, ConstantsAssumption
         DEF Fids, FirstFid, NoFid
    <3>3. IsPrefixOf(q, p)
      BY <2>4, <2>5, <2>6 DEF IsPrefixOf
    <3>4. fidAt'[q] = f
      BY <2>6, <2>7, <2>8, <3>1, <3>3
    <3>5. kind'[f] = "dir"
      BY <2>7, <3>2
    <3> QED BY <2>4, <3>2, <3>4, <3>5
  <2>9. CASE d < first
    <3>1. first - 1 \in 1 .. Len(p) /\ d \in 1 .. first - 1
      BY <2>5, <2>9
    <3>2. fidAt[SubSeq(p, 1, first - 1)] # NoFid
      <4>1. SubSeq(p, 1, first - 1) \in Paths
        BY <3>1, PrefixType
      <4> QED BY <2>1, <4>1, PathType DEF GetFid
    <3>3. fidAt[q] # NoFid
      BY <1>1, <2>4, <3>1, <3>2, WalkUp
    <3>4. fidAt'[q] = fidAt[q]
      BY <2>5, <2>6, <2>7, <2>9
    <3> QED BY <2>4, <3>3, <3>4
  <2> QED BY <2>5, <2>8, <2>9
<1>2. ASSUME TreeInv, NEW p \in Paths, NEW k \in {"file", "dir"}
      PROVE  (/\ CreateRecursive(p, k)
              /\ \A d \in 1 .. Len(p) : fidAt[SubSeq(p, 1, d)] \notin strays) =>
                \A d \in 1 .. Len(p) - 1 :
                  LET q == SubSeq(p, 1, d)
                  IN fidAt'[q] # NoFid /\ (fidAt[q] = NoFid => kind'[fidAt'[q]] = "dir")
  BY <1>1, <1>2
<1>3. TreeInv => \A p \in Paths : \A k \in {"file", "dir"} :
        (/\ CreateRecursive(p, k)
         /\ \A d \in 1 .. Len(p) : fidAt[SubSeq(p, 1, d)] \notin strays) =>
           \A d \in 1 .. Len(p) - 1 :
             LET q == SubSeq(p, 1, d)
             IN fidAt'[q] # NoFid /\ (fidAt[q] = NoFid => kind'[fidAt'[q]] = "dir")
  BY <1>2
<1> QED BY <1>3, TreeInvariant, PTL DEF FillsInDirectories

\* A recursive removal takes all that is below the path and nothing else
\* (remove_file, rm -r), but for strays and what is below them.
THEOREM RemovalTakesSubtree == TreeSpec => RemovesSubtree
<1>1. ASSUME TreeInv, NEW p \in Paths, Rm(p, TRUE, FALSE), NEW f \in files
      PROVE  IF IsPrefixOf(p, pathOf[f])
             THEN f \in files' => \E d \in Len(p) .. Len(pathOf[f]) :
                                    fidAt[SubSeq(pathOf[f], 1, d)] \in strays
             ELSE f \in files'
  <2>1. MapInv /\ p # RootPath
    BY <1>1, PathType DEF TreeInv
  <2>2. PICK top : top = fidAt[p]
    OBVIOUS
  <2>3. IsFile(top) /\ files' = files \ Subtree(top)
    BY <1>1, <2>1, <2>2 DEF Rm, RemoveFile, GetFid, Erase
  <2>4. top \in files /\ pathOf[top] = p /\ top \in Fids
    <3>1. fidAt[p] # Root
      BY <1>1, <2>1, ConstantsAssumption DEF MapInv, TypeOK, Fids, FirstFid, Root, NoFid
    <3>2. top \in files
      BY <2>2, <2>3, <3>1 DEF IsFile
    <3>3. top # NoFid
      BY <2>1, <3>2, FilesAre
    <3> QED BY <1>1, <2>1, <2>2, <3>2, <3>3, FilesAre DEF MapInv, PathsAgree
  <2>5. PICK set : set = Subtree(top)
    OBVIOUS
  <2>6. top \in set /\ \A g \in set : GetFiles(g) \subseteq set
    BY <1>1, <2>4, <2>5, SubtreeClosed
  <2>7. Len(p) \in Nat \ {0}
    BY <1>1, ParentIsPath
  <2>8. PICK path : path = pathOf[f]
    OBVIOUS
  <2>9. path \in Paths /\ Len(path) \in Nat \ {0} /\ SubSeq(path, 1, Len(path)) = path
        /\ fidAt[path] = f
    BY <1>1, <2>1, <2>8, FilesAre, ParentIsPath
  <2>10. ASSUME ~IsPrefixOf(p, path) PROVE f \notin set
    <3> DEFINE S == {g \in files : IsPrefixOf(p, pathOf[g])}
    <3>1. top \in S
      <4>1. p = SubSeq(p, 1, Len(p)) /\ Len(p) <= Len(p)
        BY <1>1, <2>7, ParentIsPath
      <4> QED BY <2>4, <4>1 DEF IsPrefixOf
    <3>2. ASSUME NEW g \in S, NEW c \in GetFiles(g) PROVE c \in S
      <4>1. c \in files /\ parentOf[c] = g /\ IsFile(g)
        BY <1>1, <3>2, FilesAreBelow DEF IsFile
      <4>2. PICK q : q = pathOf[c]
        OBVIOUS
      <4>3. GetFid(ParentPath(q)) = g
        BY <1>1, <4>1, <4>2 DEF TreeInv, ParentsInv
      <4>4. q \in Paths /\ g # NoFid /\ g # Root
        BY <2>1, <3>2, <4>1, <4>2, FilesAre
      <4>5. ParentPath(q) \in Paths \cup {RootPath}
        BY <4>4, ParentIsPath
      <4>6. PICK up : up = ParentPath(q)
        OBVIOUS
      <4>7. up \in Paths /\ pathOf[g] = up
        BY <2>1, <4>3, <4>4, <4>5, <4>6, FidIsFile
      <4>8. IsPrefixOf(p, up)
        BY <3>2, <4>7
      <4>9. Len(up) \in Nat \ {0} /\ Len(q) \in Nat \ {0}
        BY <4>4, <4>7, ParentIsPath
      <4>10. PICK m : m = Len(q) - 1
        OBVIOUS
      <4>11. m \in 1 .. Len(q) /\ up = SubSeq(q, 1, m) /\ Len(up) = m
        <5>1. Len(q) # 1
          BY <4>4, <4>6, <4>7, ParentIsPath, PathType
        <5>2. m \in 1 .. Len(q)
          BY <4>9, <4>10, <5>1
        <5> QED BY <4>4, <4>6, <4>10, <5>2, PrefixType DEF ParentPath
      <4>12. Len(p) \in 0 .. m /\ p = SubSeq(up, 1, Len(p))
        BY <2>7, <4>8, <4>9, <4>11 DEF IsPrefixOf
      <4>13. p = SubSeq(q, 1, Len(p))
        BY <4>4, <4>11, <4>12, PrefixOfPrefix
      <4>14. IsPrefixOf(p, q)
        BY <2>7, <4>9, <4>11, <4>12, <4>13 DEF IsPrefixOf
      <4> QED BY <4>1, <4>2, <4>14
    <3>3. f \notin S
      BY <2>8, <2>10
    <3>4. \A g \in S : GetFiles(g) \subseteq S
      BY <3>2
    <3> HIDE DEF S
    <3>5. set \subseteq S
      BY <2>5, <3>1, <3>4, SubtreeWithin
    <3> QED BY <3>3, <3>5
  <2>11. ASSUME IsPrefixOf(p, path), f \notin set,
                \A d \in Len(p) .. Len(path) : fidAt[SubSeq(path, 1, d)] \notin strays
         PROVE  FALSE
    <3> DEFINE Kept == {d \in Len(p) .. Len(path) :
                          fidAt[SubSeq(path, 1, d)] \in files \ set}
    <3>1. Len(p) <= Len(path) /\ p = SubSeq(path, 1, Len(p))
      BY <2>11 DEF IsPrefixOf
    <3>2. Kept \in SUBSET Nat /\ Len(path) \in Kept
      <4>1. Len(path) \in Len(p) .. Len(path)
        BY <2>7, <2>9, <3>1
      <4>2. fidAt[SubSeq(path, 1, Len(path))] \in files \ set
        BY <1>1, <2>9, <2>11
      <4>3. Len(p) .. Len(path) \subseteq Nat
        BY <2>7, <2>9
      <4> QED BY <4>1, <4>2, <4>3
    <3>3. PICK m \in Kept : \A j \in Kept : m <= j
      BY <3>2, LeastExists
    <3>4. m \in Len(p) .. Len(path) /\ fidAt[SubSeq(path, 1, m)] \in files \ set
      BY <3>3
    <3>5. CASE m = Len(p)
      BY <2>2, <2>6, <3>1, <3>4, <3>5
    <3>6. CASE m # Len(p)
      <4>1. m \in 2 .. Len(path) /\ m - 1 \in Len(p) .. Len(path)
        BY <2>7, <2>9, <3>4, <3>6
      <4>2. fidAt[SubSeq(path, 1, m)] # NoFid
        BY <2>1, <3>4, FilesAre
      <4>3. fidAt[SubSeq(path, 1, m)] \notin strays
        BY <2>11, <3>4
      <4>4. PICK h : h = fidAt[SubSeq(path, 1, m - 1)]
        OBVIOUS
      <4>5. h \in files /\ fidAt[SubSeq(path, 1, m)] \in GetFiles(h)
        BY <1>1, <2>9, <4>1, <4>2, <4>3, <4>4, StepUp
      <4>6. h \notin set
        BY <2>6, <3>4, <4>5
      <4>7. m - 1 \in Kept
        BY <4>1, <4>4, <4>5, <4>6
      <4> QED BY <2>7, <3>3, <3>4, <4>7
    <3> QED BY <3>5, <3>6
  <2> QED BY <1>1, <2>3, <2>5, <2>8, <2>10, <2>11
<1>2. TreeInv => \A p \in Paths : Rm(p, TRUE, FALSE) =>
        \A f \in files :
          IF IsPrefixOf(p, pathOf[f])
          THEN f \in files' => \E d \in Len(p) .. Len(pathOf[f]) :
                                 fidAt[SubSeq(pathOf[f], 1, d)] \in strays
          ELSE f \in files'
  BY <1>1
<1> QED BY <1>2, TreeInvariant, PTL DEF RemovesSubtree

----------------------------------------------------------------------------
(* The open file table *)

Pairs == {Unused} \cup [h : Handles, serial : Serials]
Entries == {Closed} \cup [serial : Serials, node : Nodes, count : Nat \ {0}]

\* No two entries are of one opening, none is of an opening to come.
Numbered ==
  /\ \A h \in Handles : openFiles[h].serial <= serial
  /\ \A h, i \in Handles :
       openFiles[h] # Closed /\ openFiles[h].serial = openFiles[i].serial => h = i

\* The first two parts of HandlesAccountedFor, handle by handle.
FreeIsClosed ==
  \A h \in Handles : /\ h \in freeHandles <=> h < handleCounter /\ openFiles[h] = Closed
                     /\ h >= handleCounter => openFiles[h] = Closed

TableTypes ==
  /\ openFiles \in [Handles -> Entries]
  /\ handleCounter \in 0 .. MaxOpens /\ freeHandles \subseteq Handles
  /\ serial \in 0 .. MaxOpens
  /\ fdTable \in [Pids -> [Fds -> Pairs]]
  /\ overcounted \subseteq 1 .. serial

\* The open file table with the descriptors that lead into it ...
TableInv ==
  TableTypes /\ Numbered /\ FreeIsClosed /\ NoDanglingFd /\ CountsInstances

\* ... and the processes with the descriptors they gave back.
ProcInv ==
  /\ life \in [Pids -> {"unborn", "running", "gone"}]
  /\ returnedFds \in [Pids -> SUBSET Fds]
  /\ \A p \in Pids : /\ life[p] = "unborn" => returnedFds[p] = {}
                     /\ life[p] # "running" => Held(p) = {}
                     /\ returnedFds[p] \cap Held(p) = {}

OpenInv == TableInv /\ ProcInv

----------------------------------------------------------------------------
(* Facts about one state *)

\* The handle an opening gets has no entry.
LEMMA NewHandleClosed ==
  ASSUME TableInv, HandleTaken
  PROVE  /\ NewHandle \in Handles
         /\ openFiles[NewHandle] = Closed
         /\ IF freeHandles # {} THEN NewHandle \in freeHandles
                                ELSE NewHandle = handleCounter
<1>1. NewHandle \in Handles
  BY DEF HandleTaken
<1>2. freeHandles \subseteq Nat
  BY OpenAssumption DEF TableInv, TableTypes, Handles
<1>3. CASE freeHandles # {}
  <2>1. NewHandle \in freeHandles
    BY <1>2, <1>3, LeastExists DEF NewHandle, Smallest
  <2> QED BY <1>1, <1>3, <2>1 DEF TableInv, FreeIsClosed
<1>4. CASE freeHandles = {}
  <2>1. NewHandle = handleCounter
    BY <1>4 DEF NewHandle
  <2> QED BY <1>1, <1>4, <2>1
          DEF TableInv, TableTypes, FreeIsClosed
<1> QED BY <1>3, <1>4

LEMMA Accounted ==
  ASSUME handleCounter \in 0 .. MaxOpens, freeHandles \subseteq Handles
  PROVE  FreeIsClosed <=>
           /\ freeHandles = {h \in 0 .. handleCounter - 1 : openFiles[h] = Closed}
           /\ \A h \in Handles : h >= handleCounter => openFiles[h] = Closed
<1>1. 0 .. handleCounter - 1 = {h \in Handles : h < handleCounter}
  BY OpenAssumption DEF Handles
<1>2. {h \in 0 .. handleCounter - 1 : openFiles[h] = Closed}
        = {h \in Handles : h < handleCounter /\ openFiles[h] = Closed}
  BY <1>1
<1> HIDE DEF Closed
<1> QED BY <1>2, Zenon DEF FreeIsClosed

\* What the handles look like when one was taken, and filled or given back.
LEMMA TakenAccounted ==
  ASSUME TableInv, HandleTaken,
         \/ freeHandles' = freeHandles \cup {NewHandle} /\ openFiles' = openFiles
         \/ /\ freeHandles' = freeHandles \ {NewHandle}
            /\ \E entry : /\ openFiles' = [openFiles EXCEPT ![NewHandle] = entry]
                          /\ entry # Closed
  PROVE  /\ handleCounter' \in 0 .. MaxOpens /\ freeHandles' \subseteq Handles
         /\ FreeIsClosed'
<1> USE DEF TableInv, TableTypes
<1>1. /\ NewHandle \in Handles /\ openFiles[NewHandle] = Closed
      /\ IF freeHandles # {} THEN NewHandle \in freeHandles
                             ELSE NewHandle = handleCounter
  BY NewHandleClosed
<1>2. FreeIsClosed
  OBVIOUS
<1>3. /\ handleCounter' \in 0 .. MaxOpens
      /\ NewHandle < handleCounter'
      /\ handleCounter' = handleCounter \/ handleCounter' = handleCounter + 1
      /\ \A h \in Handles : h < handleCounter' <=> h < handleCounter \/ h = NewHandle
  BY <1>1, <1>2, OpenAssumption DEF HandleTaken, Handles, FreeIsClosed
<1> HIDE DEF Closed
<1>4. ASSUME NEW h \in Handles
      PROVE  /\ h \in freeHandles' <=> h < handleCounter' /\ openFiles'[h] = Closed
             /\ h >= handleCounter' => openFiles'[h] = Closed
  <2>1. h >= handleCounter' => h >= handleCounter /\ h # NewHandle
    BY <1>3, OpenAssumption DEF Handles
  <2> QED BY <1>1, <1>2, <1>3, <2>1 DEF FreeIsClosed
<1> QED BY <1>1, <1>3, <1>4 DEF FreeIsClosed

\* The descriptors that hold an entry are finitely many.
LEMMA RefsFinite ==
  /\ \A h : /\ AllRefs(h) \subseteq Pids \X Fds
            /\ IsFiniteSet(AllRefs(h)) /\ Cardinality(AllRefs(h)) \in Nat
  /\ \A h, p : IsFiniteSet(Refs(p, h)) /\ Cardinality(Refs(p, h)) \in Nat
<1>1. IsFiniteSet(Fds) /\ IsFiniteSet(Pids)
  BY FS_Interval, OpenAssumption DEF Fds, FirstFd, Pids
<1>2. IsFiniteSet(Pids \X Fds)
  BY <1>1, FS_Product
<1>3. \A h : AllRefs(h) \subseteq Pids \X Fds
  BY DEF AllRefs
<1>4. \A h, p : Refs(p, h) \subseteq Fds
  BY DEF Refs
<1> QED BY <1>1, <1>2, <1>3, <1>4, FS_Subset, FS_CardinalityType

\* A row of descriptors counts as many pairs as it has descriptors.
LEMMA RowCounts ==
  ASSUME NEW p, NEW ds, IsFiniteSet(ds)
  PROVE  /\ IsFiniteSet({p} \X ds)
         /\ Cardinality({p} \X ds) = Cardinality(ds)
<1>1. IsFiniteSet({p}) /\ Cardinality({p}) = 1
  BY FS_Singleton
<1>2. /\ IsFiniteSet({p} \X ds)
      /\ Cardinality({p} \X ds) = Cardinality({p}) * Cardinality(ds)
  BY <1>1, FS_Product
<1>3. Cardinality(ds) \in Nat
  BY FS_CardinalityType
<1>4. 1 * Cardinality(ds) = Cardinality(ds)
  BY <1>3
<1> QED BY <1>1, <1>2, <1>4

\* An entry that a descriptor holds is there.
LEMMA Referenced ==
  ASSUME TableInv, NEW p \in Pids, NEW d \in Fds, fdTable[p][d] # Unused
  PROVE  /\ fdTable[p][d].h \in Handles
         /\ fdTable[p][d].serial \in 1 .. serial
         /\ openFiles[fdTable[p][d].h] # Closed
         /\ openFiles[fdTable[p][d].h].serial = fdTable[p][d].serial
<1>1. fdTable[p][d] \in [h : Handles, serial : Serials]
  BY DEF TableInv, TableTypes, Pairs
<1>2. openFiles[fdTable[p][d].h].serial = fdTable[p][d].serial
  BY DEF TableInv, NoDanglingFd, Held
<1>3. fdTable[p][d].serial >= 1 /\ fdTable[p][d].serial <= serial
  BY <1>1, <1>2, OpenAssumption DEF TableInv, Numbered, Serials
<1> QED BY <1>1, <1>2, <1>3, OpenAssumption DEF Serials, Closed

\* What CountsInstances says of one entry, for a count n of descriptors.
Agrees(h, over, n) ==
  IF openFiles[h].serial \in over THEN openFiles[h].count > n
                                  ELSE openFiles[h].count = n

\* Taking one descriptor off an entry without telling it leaves it overcounted.
LEMMA Overwriting ==
  ASSUME TableInv, NEW p \in Pids, NEW d \in Fds,
         NEW h \in Handles, openFiles[h] # Closed
  PROVE  Agrees(h, overcounted \cup Overwritten(p, d),
                Cardinality(AllRefs(h) \ {<<p, d>>}))
<1>1. Agrees(h, overcounted, Cardinality(AllRefs(h)))
  BY DEF TableInv, CountsInstances, Agrees
<1>2. openFiles[h].count \in Nat /\ openFiles[h].serial \in Serials
  BY DEF TableInv, TableTypes, Entries
<1>3. Cardinality(AllRefs(h)) \in Nat /\ IsFiniteSet(AllRefs(h))
  BY RefsFinite
<1>4. CASE <<p, d>> \in AllRefs(h)
  <2>1. fdTable[p][d] # Unused /\ fdTable[p][d].h = h
    BY <1>4 DEF AllRefs
  <2>2. openFiles[h].serial \in Overwritten(p, d)
    BY <2>1, Referenced DEF Overwritten
  <2>3. Cardinality(AllRefs(h) \ {<<p, d>>}) = Cardinality(AllRefs(h)) - 1
    BY <1>3, <1>4, FS_RemoveElement
  <2> QED BY <1>1, <1>2, <1>3, <2>2, <2>3 DEF Agrees
<1>5. CASE <<p, d>> \notin AllRefs(h)
  <2>1. AllRefs(h) \ {<<p, d>>} = AllRefs(h)
    BY <1>5
  <2>2. openFiles[h].serial \notin Overwritten(p, d)
    <3>1. SUFFICES ASSUME openFiles[h].serial = fdTable[p][d].serial,
                          openFiles[h].serial # 0
                   PROVE  FALSE
      BY DEF Overwritten
    <3>2. fdTable[p][d] # Unused
      BY <3>1 DEF Unused
    <3>3. fdTable[p][d].h = h
      BY <3>1, <3>2, Referenced DEF TableInv, Numbered
    <3> QED BY <1>5, <3>2, <3>3 DEF AllRefs
  <2> QED BY <1>1, <2>1, <2>2 DEF Agrees
<1> QED BY <1>4, <1>5

----------------------------------------------------------------------------
(* Opening *)

\* What Open and ExecRedirected have in common: a descriptor is taken (with
\* whatever sat there lost), an entry is made and led to by a descriptor that is
\* unused by then; count instances are counted.
Filling(node, count, p, d, q, e) ==
  /\ node \in Nodes /\ count \in {1, 2} /\ Opened(node, count)
  /\ p \in Pids /\ d \in Fds /\ q \in Pids /\ e \in Fds
  /\ <<q, e>> = <<p, d>> \/ fdTable[q][e] = Unused
  /\ fdTable' = [fdTable EXCEPT ![p][d] = Unused, ![q][e] = NewPair]
  /\ overcounted' = overcounted \cup Overwritten(p, d)
                      \cup IF count = 1 THEN {} ELSE {serial + 1}

LEMMA FilledTypes ==
  ASSUME TableInv, NEW node, NEW count, NEW p, NEW d, NEW q, NEW e,
         Filling(node, count, p, d, q, e)
  PROVE  TableTypes' /\ Numbered' /\ FreeIsClosed'
<1> /\ node \in Nodes /\ count \in {1, 2} /\ Opened(node, count)
    /\ p \in Pids /\ d \in Fds /\ q \in Pids /\ e \in Fds
    /\ <<q, e>> = <<p, d>> \/ fdTable[q][e] = Unused
    /\ fdTable' = [fdTable EXCEPT ![p][d] = Unused, ![q][e] = NewPair]
    /\ overcounted' = overcounted \cup Overwritten(p, d)
                        \cup IF count = 1 THEN {} ELSE {serial + 1}
  BY DEF Filling
<1>1. NewHandle \in Handles /\ openFiles[NewHandle] = Closed
  BY NewHandleClosed DEF Opened
<1>2. /\ serial' = serial + 1 /\ serial' \in 1 .. MaxOpens /\ serial' \in Serials
      /\ \A h \in Handles : openFiles[h].serial <= serial /\ openFiles[h].serial \in Nat
  BY OpenAssumption
     DEF Opened, TableInv, TableTypes, Serials, Numbered, Entries, Closed
<1> DEFINE entry == [serial |-> serial + 1, node |-> node, count |-> count]
<1>3. /\ entry \in Entries /\ entry # Closed /\ entry.serial = serial + 1
      /\ openFiles' = [openFiles EXCEPT ![NewHandle] = entry]
  BY <1>2, OpenAssumption DEF Opened, Entries, Closed, TableInv, TableTypes
<1> HIDE DEF entry
<1>4. handleCounter' \in 0 .. MaxOpens /\ freeHandles' \subseteq Handles /\ FreeIsClosed'
  BY <1>3, TakenAccounted DEF Opened
<1>5. Overwritten(p, d) \subseteq 1 .. serial
  BY Referenced DEF Overwritten, Unused
<1>6. overcounted' \subseteq 1 .. serial'
  <2>1. /\ serial \in Nat /\ overcounted \subseteq 1 .. serial
        /\ overcounted' \subseteq overcounted \cup Overwritten(p, d) \cup {serial + 1}
    BY DEF TableInv, TableTypes
  <2> QED BY <1>2, <1>5, <2>1
<1>7. NewPair \in Pairs /\ Unused \in Pairs
  BY <1>1, <1>2 DEF NewPair, Pairs
<1>8. TableTypes'
  <2>1. fdTable' \in [Pids -> [Fds -> Pairs]]
    <3>1. fdTable \in [Pids -> [Fds -> Pairs]]
      BY DEF TableInv, TableTypes
    <3> HIDE DEF NewPair, Unused
    <3> QED BY <1>7, <3>1
  <2>2. openFiles' \in [Handles -> Entries]
    BY <1>1, <1>3 DEF TableInv, TableTypes
  <2>3. serial' \in 0 .. MaxOpens
    BY <1>2
  <2> QED BY <1>4, <1>6, <2>1, <2>2, <2>3 DEF TableTypes
<1>9. Numbered'
  BY <1>1, <1>2, <1>3, OpenAssumption DEF TableInv, TableTypes, Numbered
<1> QED BY <1>4, <1>8, <1>9

LEMMA FilledRefs ==
  ASSUME TableInv, NEW node, NEW count, NEW p, NEW d, NEW q, NEW e,
         Filling(node, count, p, d, q, e)
  PROVE  /\ NoDanglingFd'
         /\ \A h \in Handles :
              AllRefs(h)' = IF h = NewHandle THEN {<<q, e>>}
                                             ELSE AllRefs(h) \ {<<p, d>>}
<1> /\ node \in Nodes /\ count \in {1, 2} /\ Opened(node, count)
    /\ p \in Pids /\ d \in Fds /\ q \in Pids /\ e \in Fds
    /\ <<q, e>> = <<p, d>> \/ fdTable[q][e] = Unused
    /\ fdTable' = [fdTable EXCEPT ![p][d] = Unused, ![q][e] = NewPair]
    /\ overcounted' = overcounted \cup Overwritten(p, d)
                        \cup IF count = 1 THEN {} ELSE {serial + 1}
  BY DEF Filling
<1>1. NewHandle \in Handles /\ openFiles[NewHandle] = Closed
  BY NewHandleClosed DEF Opened
<1>2. \A x \in Pids, f \in Fds :
        fdTable'[x][f] = IF x = q /\ f = e THEN NewPair
                         ELSE IF x = p /\ f = d THEN Unused ELSE fdTable[x][f]
  <2>1. fdTable \in [Pids -> [Fds -> Pairs]]
    BY DEF TableInv, TableTypes
  <2> HIDE DEF NewPair, Unused
  <2> QED BY <2>1
<1>3. NewPair # Unused /\ NewPair.h = NewHandle /\ NewPair.serial = serial + 1
  BY DEF NewPair, Unused, TableInv, TableTypes
<1>4. \A x \in Pids, f \in Fds :
        fdTable[x][f] # Unused =>
          /\ fdTable[x][f].h \in Handles \ {NewHandle}
          /\ openFiles[fdTable[x][f].h].serial = fdTable[x][f].serial
  BY <1>1, Referenced
<1>5. /\ openFiles'[NewHandle].serial = serial + 1
      /\ \A h \in Handles \ {NewHandle} : openFiles'[h] = openFiles[h]
  BY <1>1 DEF Opened, TableInv, TableTypes
<1>6. NoDanglingFd'
  <2> SUFFICES ASSUME NEW x \in Pids, NEW f \in Fds, fdTable'[x][f] # Unused
               PROVE  openFiles'[fdTable'[x][f].h].serial = fdTable'[x][f].serial
    BY DEF NoDanglingFd, Held
  <2>1. fdTable'[x][f] = IF x = q /\ f = e THEN NewPair
                         ELSE IF x = p /\ f = d THEN Unused ELSE fdTable[x][f]
    BY <1>2, Zenon
  <2>2. CASE x = q /\ f = e
    <3>1. fdTable'[x][f] = NewPair
      BY <2>1, <2>2
    <3> QED BY <1>3, <1>5, <3>1, Zenon
  <2>3. CASE ~(x = q /\ f = e)
    <3>1. fdTable'[x][f] = IF x = p /\ f = d THEN Unused ELSE fdTable[x][f]
      BY <2>1, <2>3
    <3>2. fdTable'[x][f] = fdTable[x][f]
      BY <3>1
    <3> QED BY <1>4, <1>5, <3>2
  <2> QED BY <2>2, <2>3
<1>7. ASSUME NEW h \in Handles, NEW x \in Pids, NEW f \in Fds
      PROVE  <<x, f>> \in AllRefs(h)' <=>
               <<x, f>> \in IF h = NewHandle THEN {<<q, e>>}
                                             ELSE AllRefs(h) \ {<<p, d>>}
  <2>1. <<x, f>> \in AllRefs(h) <=> fdTable[x][f] # Unused /\ fdTable[x][f].h = h
    BY DEF AllRefs
  <2>2. <<x, f>> \in AllRefs(h)' <=> fdTable'[x][f] # Unused /\ fdTable'[x][f].h = h
    BY DEF AllRefs
  <2>3. CASE x = q /\ f = e
    <3>1. <<x, f>> \in AllRefs(h)' <=> h = NewHandle
      BY <1>2, <1>3, <2>2, <2>3
    <3>2. <<x, f>> \notin AllRefs(h) \ {<<p, d>>}
      BY <2>1, <2>3
    <3> QED BY <2>3, <3>1, <3>2
  <2>4. CASE ~(x = q /\ f = e)
    <3>1. <<x, f>> \in AllRefs(h)' <=>
            /\ <<x, f>> # <<p, d>>
            /\ fdTable[x][f] # Unused /\ fdTable[x][f].h = h
      BY <1>2, <2>2, <2>4
    <3> QED BY <1>4, <2>1, <2>4, <3>1
  <2> QED BY <2>3, <2>4
<1>8. ASSUME NEW h \in Handles
      PROVE  AllRefs(h)' = IF h = NewHandle THEN {<<q, e>>}
                                            ELSE AllRefs(h) \ {<<p, d>>}
  <2>1. AllRefs(h) \subseteq Pids \X Fds /\ AllRefs(h)' \subseteq Pids \X Fds
    BY DEF AllRefs
  <2>2. CASE h = NewHandle
    <3>1. \A x \in Pids, f \in Fds : <<x, f>> \in AllRefs(h)' <=> <<x, f>> = <<q, e>>
      BY <1>7, <2>2
    <3>2. AllRefs(h)' = {<<q, e>>}
      BY <2>1, <3>1
    <3> QED BY <2>2, <3>2
  <2>3. CASE h # NewHandle
    <3>1. \A x \in Pids, f \in Fds :
            <<x, f>> \in AllRefs(h)' <=> <<x, f>> \in AllRefs(h) \ {<<p, d>>}
      BY <1>7, <2>3
    <3>2. AllRefs(h)' = AllRefs(h) \ {<<p, d>>}
      BY <2>1, <3>1
    <3> QED BY <2>3, <3>2
  <2> QED BY <2>2, <2>3
<1> QED BY <1>6, <1>8

LEMMA Filled ==
  ASSUME TableInv, NEW node, NEW count, NEW p, NEW d, NEW q, NEW e,
         Filling(node, count, p, d, q, e)
  PROVE  TableInv'
<1> /\ node \in Nodes /\ count \in {1, 2} /\ Opened(node, count)
    /\ p \in Pids /\ d \in Fds /\ q \in Pids /\ e \in Fds
    /\ <<q, e>> = <<p, d>> \/ fdTable[q][e] = Unused
    /\ fdTable' = [fdTable EXCEPT ![p][d] = Unused, ![q][e] = NewPair]
    /\ overcounted' = overcounted \cup Overwritten(p, d)
                        \cup IF count = 1 THEN {} ELSE {serial + 1}
  BY DEF Filling
<1>1. NewHandle \in Handles /\ openFiles[NewHandle] = Closed
  BY NewHandleClosed DEF Opened
<1>2. /\ openFiles'[NewHandle] = [serial |-> serial + 1, node |-> node, count |-> count]
      /\ \A h \in Handles \ {NewHandle} : openFiles'[h] = openFiles[h]
  BY <1>1 DEF Opened, TableInv, TableTypes
<1>3. serial \in Nat /\ \A h \in Handles : openFiles[h].serial # serial + 1
  BY DEF TableInv, TableTypes, Numbered, Entries, Closed, Serials
<1>4. /\ NoDanglingFd'
      /\ \A h \in Handles :
           AllRefs(h)' = IF h = NewHandle THEN {<<q, e>>}
                                          ELSE AllRefs(h) \ {<<p, d>>}
  BY FilledRefs
<1>5. serial + 1 \in overcounted' <=> count = 2
  <2>1. Overwritten(p, d) \subseteq 1 .. serial
    BY Referenced DEF Overwritten, Unused
  <2>2. serial + 1 \notin overcounted \cup Overwritten(p, d)
    BY <1>3, <2>1 DEF TableInv, TableTypes
  <2> QED BY <2>2
<1>6. ASSUME NEW h \in Handles, openFiles'[h] # Closed
      PROVE  IF openFiles'[h].serial \in overcounted'
             THEN openFiles'[h].count > Cardinality(AllRefs(h)')
             ELSE openFiles'[h].count = Cardinality(AllRefs(h)')
  <2>1. CASE h = NewHandle
    <3>1. Cardinality(AllRefs(h)') = 1
      BY <1>4, <2>1, FS_Singleton
    <3>2. openFiles'[h].serial = serial + 1 /\ openFiles'[h].count = count
      BY <1>2, <2>1
    <3> QED BY <1>5, <3>1, <3>2
  <2>2. CASE h # NewHandle
    <3>1. openFiles'[h] = openFiles[h]
      BY <1>2, <2>2
    <3>2. Agrees(h, overcounted \cup Overwritten(p, d),
                 Cardinality(AllRefs(h) \ {<<p, d>>}))
      BY <1>6, <3>1, Overwriting
    <3>3. AllRefs(h)' = AllRefs(h) \ {<<p, d>>}
      BY <1>4, <2>2
    <3>4. openFiles[h].serial \in overcounted'
            <=> openFiles[h].serial \in overcounted \cup Overwritten(p, d)
      BY <1>3
    <3> QED BY <3>1, <3>2, <3>3, <3>4 DEF Agrees
  <2> QED BY <2>1, <2>2
<1>7. CountsInstances'
  BY <1>6 DEF CountsInstances
<1>8. TableTypes' /\ Numbered' /\ FreeIsClosed'
  BY FilledTypes
<1> QED BY <1>4, <1>7, <1>8 DEF TableInv

\* exec's probe: a handle and a descriptor are taken and given back.
LEMMA ProbeKeeps ==
  ASSUME TableInv, NEW p \in Pids, NEW d \in Fds,
         HandleTaken, freeHandles' = freeHandles \cup {NewHandle},
         fdTable' = [fdTable EXCEPT ![p][d] = Unused],
         overcounted' = overcounted \cup Overwritten(p, d),
         UNCHANGED <<openFiles, serial>>
  PROVE  TableInv'
<1>1. handleCounter' \in 0 .. MaxOpens /\ freeHandles' \subseteq Handles /\ FreeIsClosed'
  BY TakenAccounted
<1>2. overcounted' \subseteq 1 .. serial
  <2>1. Overwritten(p, d) \subseteq 1 .. serial
    BY Referenced DEF Overwritten, Unused
  <2> QED BY <2>1 DEF TableInv, TableTypes
<1>3. \A x \in Pids, f \in Fds :
        fdTable'[x][f] = IF x = p /\ f = d THEN Unused ELSE fdTable[x][f]
  BY DEF TableInv, TableTypes
<1>4. TableTypes'
  <2>1. Unused \in Pairs
    BY DEF Pairs
  <2>2. fdTable' \in [Pids -> [Fds -> Pairs]]
    BY <2>1 DEF TableInv, TableTypes
  <2> QED BY <1>1, <1>2, <2>2 DEF TableInv, TableTypes
<1>5. Numbered'
  BY DEF TableInv, Numbered
<1>6. NoDanglingFd'
  BY <1>3 DEF TableInv, NoDanglingFd, Held
<1>7. ASSUME NEW h \in Handles
      PROVE  AllRefs(h)' = AllRefs(h) \ {<<p, d>>}
  BY <1>3 DEF AllRefs
<1>8. ASSUME NEW h \in Handles, openFiles[h] # Closed
      PROVE  IF openFiles[h].serial \in overcounted'
             THEN openFiles[h].count > Cardinality(AllRefs(h)')
             ELSE openFiles[h].count = Cardinality(AllRefs(h)')
  BY <1>7, <1>8, Overwriting DEF Agrees
<1>9. CountsInstances'
  BY <1>8 DEF CountsInstances
<1> QED BY <1>1, <1>4, <1>5, <1>6, <1>9 DEF TableInv

----------------------------------------------------------------------------
(* Closing and forking *)

\* What close and close_all leave of the references.
LEMMA ClosedRefs ==
  ASSUME TableInv, NEW p \in Pids, NEW ds \in SUBSET Held(p), Closing(p, ds),
         NEW h \in Handles
  PROVE  /\ Refs(p, h) \cap ds \subseteq Fds
         /\ AllRefs(h)' = AllRefs(h) \ ({p} \X (Refs(p, h) \cap ds))
         /\ Cardinality(AllRefs(h)') = Cardinality(AllRefs(h))
                                         - Cardinality(Refs(p, h) \cap ds)
<1> DEFINE gone == Refs(p, h) \cap ds
<1>1. \A x \in Pids, f \in Fds :
        fdTable'[x][f] = IF x = p /\ f \in ds THEN Unused ELSE fdTable[x][f]
  BY DEF Closing, TableInv, TableTypes
<1>2. gone \subseteq Fds
  BY DEF Refs
<1>3. ASSUME NEW x \in Pids, NEW f \in Fds
      PROVE  <<x, f>> \in AllRefs(h)' <=> <<x, f>> \in AllRefs(h) \ ({p} \X gone)
  <2>1. <<x, f>> \in AllRefs(h) <=> fdTable[x][f] # Unused /\ fdTable[x][f].h = h
    BY DEF AllRefs
  <2>2. <<x, f>> \in AllRefs(h)' <=> fdTable'[x][f] # Unused /\ fdTable'[x][f].h = h
    BY DEF AllRefs
  <2>3. <<x, f>> \in {p} \X gone <=>
          x = p /\ f \in ds /\ fdTable[x][f] # Unused /\ fdTable[x][f].h = h
    BY DEF Refs
  <2>4. CASE x = p /\ f \in ds
    BY <1>1, <2>1, <2>2, <2>3, <2>4
  <2>5. CASE ~(x = p /\ f \in ds)
    <3>1. fdTable'[x][f] = fdTable[x][f]
      BY <1>1, <2>5
    <3> QED BY <2>1, <2>2, <2>3, <2>5, <3>1
  <2> QED BY <2>4, <2>5
<1>4. AllRefs(h)' = AllRefs(h) \ ({p} \X gone)
  <2>1. AllRefs(h) \subseteq Pids \X Fds /\ AllRefs(h)' \subseteq Pids \X Fds
    BY DEF AllRefs
  <2> QED BY <1>3, <2>1
<1>5. AllRefs(h) \cap ({p} \X gone) = {p} \X gone
  BY DEF AllRefs, Refs
<1>6. IsFiniteSet(gone)
  BY RefsFinite, FS_Intersection
<1>7. Cardinality({p} \X gone) = Cardinality(gone)
  BY <1>6, RowCounts
<1>8. Cardinality(AllRefs(h) \ ({p} \X gone))
        = Cardinality(AllRefs(h)) - Cardinality({p} \X gone)
  <2>1. IsFiniteSet(AllRefs(h))
    BY RefsFinite
  <2>2. Cardinality(AllRefs(h) \ ({p} \X gone)) = Cardinality(AllRefs(h))
          - Cardinality(AllRefs(h) \cap ({p} \X gone))
    BY <2>1, FS_Difference
  <2> HIDE DEF gone
  <2> QED BY <1>5, <2>2, Zenon
<1> QED BY <1>2, <1>4, <1>7, <1>8

LEMMA ClosingKeeps ==
  ASSUME TableInv, NEW p \in Pids, NEW ds \in SUBSET Held(p), Closing(p, ds),
         UNCHANGED <<handleCounter, serial, overcounted>>
  PROVE  TableInv'
<1> DEFINE hit == {h \in Handles : Refs(p, h) \cap ds # {}}
           dead == {h \in hit : Left(p, ds, h) = 0}
<1>1. /\ \A h \in Handles : openFiles'[h] =
           IF h \in dead THEN Closed
           ELSE IF h \in hit THEN [openFiles[h] EXCEPT !.count = Left(p, ds, h)]
           ELSE openFiles[h]
      /\ freeHandles' = freeHandles \cup dead
      /\ openFiles' = [h \in Handles |-> openFiles'[h]]
  BY DEF Closing
<1>2. ASSUME NEW h \in Handles
      PROVE  /\ AllRefs(h)' = AllRefs(h) \ ({p} \X (Refs(p, h) \cap ds))
             /\ Cardinality(AllRefs(h)') = Cardinality(AllRefs(h))
                                             - Cardinality(Refs(p, h) \cap ds)
             /\ Cardinality(AllRefs(h)) \in Nat /\ Cardinality(AllRefs(h)') \in Nat
             /\ Cardinality(Refs(p, h) \cap ds) \in Nat
             /\ Refs(p, h) \cap ds = {} => Cardinality(Refs(p, h) \cap ds) = 0
  <2>1. IsFiniteSet(AllRefs(h)) /\ IsFiniteSet(Refs(p, h))
    BY RefsFinite
  <2>2. IsFiniteSet(Refs(p, h) \cap ds)
    BY <2>1, FS_Intersection
  <2>3. IsFiniteSet(AllRefs(h) \ ({p} \X (Refs(p, h) \cap ds)))
    BY <2>1, FS_Difference
  <2>4. AllRefs(h)' = AllRefs(h) \ ({p} \X (Refs(p, h) \cap ds))
    BY ClosedRefs
  <2>5. Cardinality(AllRefs(h)') = Cardinality(AllRefs(h))
                                     - Cardinality(Refs(p, h) \cap ds)
    BY ClosedRefs
  <2>6. Cardinality(AllRefs(h)') \in Nat
    BY <2>3, <2>4, FS_CardinalityType
  <2> QED BY <2>1, <2>2, <2>4, <2>5, <2>6, FS_CardinalityType, FS_EmptySet
\* A handle in hit has its entry, and what is left of the count is enough.
<1>3. ASSUME NEW h \in hit
      PROVE  /\ h \in Handles /\ openFiles[h] # Closed
             /\ openFiles[h] \in [serial : Serials, node : Nodes, count : Nat \ {0}]
             /\ Left(p, ds, h) \in Nat
             /\ IF openFiles[h].serial \in overcounted
                THEN Left(p, ds, h) > Cardinality(AllRefs(h)')
                ELSE Left(p, ds, h) = Cardinality(AllRefs(h)')
  <2>1. PICK d \in Fds : fdTable[p][d] # Unused /\ fdTable[p][d].h = h
    BY DEF Refs
  <2>2. openFiles[h] # Closed
    BY <2>1, Referenced
  <2>3. openFiles[h] \in [serial : Serials, node : Nodes, count : Nat \ {0}]
    BY <2>2 DEF TableInv, TableTypes, Entries
  <2>4. IF openFiles[h].serial \in overcounted
        THEN openFiles[h].count > Cardinality(AllRefs(h))
        ELSE openFiles[h].count = Cardinality(AllRefs(h))
    BY <2>2 DEF TableInv, CountsInstances
  <2>5. Left(p, ds, h) = openFiles[h].count - Cardinality(Refs(p, h) \cap ds)
    BY DEF Left
  <2>6. openFiles[h].count \in Nat
    BY <2>3
  <2> QED BY <1>2, <2>2, <2>3, <2>4, <2>5, <2>6
<1>4. ASSUME NEW h \in dead PROVE AllRefs(h)' = {}
  <2>1. h \in hit /\ h \in Handles /\ Left(p, ds, h) = 0
    OBVIOUS
  <2>2. IsFiniteSet(AllRefs(h)') /\ Cardinality(AllRefs(h)') \in Nat
    <3>1. IsFiniteSet(AllRefs(h) \ ({p} \X (Refs(p, h) \cap ds)))
      BY RefsFinite, FS_Difference
    <3> QED BY <1>2, <2>1, <3>1
  <2>3. Cardinality(AllRefs(h)') = 0
    <3>1. 0 > Cardinality(AllRefs(h)') \/ 0 = Cardinality(AllRefs(h)')
      BY <1>3, <2>1
    <3> QED BY <2>2, <3>1
  <2> QED BY <2>2, <2>3, FS_EmptySet
<1>5. TableTypes'
  <2>1. \A x \in Pids : fdTable'[x] \in [Fds -> Pairs]
    BY DEF Closing, TableInv, TableTypes, Pairs
  <2>2. fdTable' \in [Pids -> [Fds -> Pairs]]
    BY <2>1 DEF Closing, TableInv, TableTypes
  <2>3. ASSUME NEW h \in Handles PROVE openFiles'[h] \in Entries
    <3>1. CASE h \in dead
      BY <1>1, <3>1 DEF Entries
    <3>2. CASE h \in hit \ dead
      <4>1. Left(p, ds, h) \in Nat \ {0}
        BY <1>3, <3>2
      <4>2. openFiles[h] \in [serial : Serials, node : Nodes, count : Nat \ {0}]
        BY <1>3, <3>2
      <4>3. openFiles'[h] = [openFiles[h] EXCEPT !.count = Left(p, ds, h)]
        BY <1>1, <3>2
      <4> QED BY <4>1, <4>2, <4>3 DEF Entries
    <3>3. CASE h \notin hit
      BY <1>1, <3>3 DEF TableInv, TableTypes
    <3> QED BY <3>1, <3>2, <3>3
  <2>4. openFiles' \in [Handles -> Entries]
    BY <1>1, <2>3
  <2> QED BY <1>1, <2>2, <2>4 DEF TableInv, TableTypes
<1>6. ASSUME NEW h \in Handles
      PROVE  /\ openFiles'[h] = Closed <=> openFiles[h] = Closed \/ h \in dead
             /\ h \notin dead => openFiles'[h].serial = openFiles[h].serial
  <2>1. CASE h \in dead
    BY <1>1, <2>1
  <2>2. CASE h \in hit \ dead
    <3>1. /\ openFiles'[h].serial = openFiles[h].serial
          /\ openFiles[h].serial \in Serials
      BY <1>1, <1>3, <2>2
    <3> QED BY <1>3, <2>2, <3>1, OpenAssumption DEF Closed, Serials
  <2>3. CASE h \notin hit
    BY <1>1, <2>3
  <2> QED BY <2>1, <2>2, <2>3
<1> HIDE DEF hit, dead
<1>7. FreeIsClosed'
  <2>1. \A h \in dead : h \in Handles /\ openFiles[h] # Closed
    BY <1>3 DEF dead
  <2>2. FreeIsClosed
    BY DEF TableInv
  <2>3. ASSUME NEW h \in Handles
        PROVE  /\ h \in freeHandles' <=> h < handleCounter /\ openFiles'[h] = Closed
               /\ h >= handleCounter => openFiles'[h] = Closed
    <3>1. h \in freeHandles' <=> h \in freeHandles \/ h \in dead
      BY <1>1
    <3>2. h \in dead => h < handleCounter
      BY <2>1, <2>2, OpenAssumption DEF FreeIsClosed, Handles, TableInv, TableTypes
    <3> QED BY <1>6, <2>2, <3>1, <3>2 DEF FreeIsClosed
  <2> QED BY <2>3 DEF FreeIsClosed
<1>8. Numbered'
  <2>1. \A h \in Handles : openFiles'[h].serial \in {0, openFiles[h].serial}
    BY <1>1, <1>6 DEF Closed
  <2>2. \A h \in Handles : openFiles'[h].serial <= serial
    BY <2>1 DEF TableInv, Numbered, TableTypes
  <2>3. \A h \in Handles : openFiles'[h] # Closed =>
           /\ openFiles[h] # Closed /\ openFiles'[h].serial = openFiles[h].serial
           /\ openFiles[h].serial # 0
    BY <1>6, OpenAssumption DEF TableInv, TableTypes, Entries, Serials
  <2>4. ASSUME NEW h \in Handles, NEW i \in Handles, openFiles'[h] # Closed,
               openFiles'[h].serial = openFiles'[i].serial
        PROVE  h = i
    BY <2>1, <2>3, <2>4 DEF TableInv, Numbered
  <2>5. \A h, i \in Handles :
          openFiles'[h] # Closed /\ openFiles'[h].serial = openFiles'[i].serial => h = i
    BY <2>4
  <2> QED BY <2>2, <2>5 DEF Numbered
<1>9. NoDanglingFd'
  <2> SUFFICES ASSUME NEW x \in Pids, NEW f \in Fds, fdTable'[x][f] # Unused
               PROVE  openFiles'[fdTable'[x][f].h].serial = fdTable'[x][f].serial
    BY DEF NoDanglingFd, Held
  <2>1. fdTable'[x][f] = fdTable[x][f]
    BY DEF Closing, TableInv, TableTypes
  <2>2. PICK h \in Handles : /\ h = fdTable[x][f].h
                             /\ openFiles[h].serial = fdTable[x][f].serial
    BY <2>1, Referenced
  <2>3. <<x, f>> \in AllRefs(h)'
    BY <2>1, <2>2 DEF AllRefs
  <2>4. h \notin dead
    BY <1>4, <2>3
  <2> QED BY <1>6, <2>1, <2>2, <2>4
<1>10. CountsInstances'
  <2>1. ASSUME NEW h \in Handles, openFiles'[h] # Closed
        PROVE  IF openFiles'[h].serial \in overcounted'
               THEN openFiles'[h].count > Cardinality(AllRefs(h)')
               ELSE openFiles'[h].count = Cardinality(AllRefs(h)')
    <3>1. /\ h \notin dead /\ openFiles[h] # Closed
          /\ openFiles'[h].serial = openFiles[h].serial
      BY <1>6, <2>1
    <3>2. CASE h \in hit
      <4>1. openFiles'[h].count = Left(p, ds, h)
        BY <1>1, <1>3, <3>1, <3>2
      <4> QED BY <1>3, <3>1, <3>2, <4>1
    <3>3. CASE h \notin hit
      <4>1. Cardinality(AllRefs(h)') = Cardinality(AllRefs(h))
        BY <1>2, <3>3 DEF hit
      <4>2. openFiles'[h] = openFiles[h]
        BY <1>1, <3>1, <3>3
      <4> QED BY <3>1, <4>1, <4>2 DEF TableInv, CountsInstances
    <3> QED BY <3>2, <3>3
  <2> QED BY <2>1 DEF CountsInstances
<1> QED BY <1>5, <1>7, <1>8, <1>9, <1>10 DEF TableInv

\* enter counts every descriptor the new process starts with.
LEMMA ForkKeeps ==
  ASSUME OpenInv, NEW p \in Pids, NEW c \in Pids, Fork(p, c)
  PROVE  TableInv'
<1>1. /\ TableInv /\ TableTypes /\ serial' = serial /\ overcounted' = overcounted
      /\ handleCounter' = handleCounter /\ freeHandles' = freeHandles
      /\ \A d \in Fds : fdTable[c][d] = Unused
      /\ p # c
  BY DEF OpenInv, TableInv, ProcInv, Held, Fork, Born, Running
<1>2. \A x \in Pids, f \in Fds :
        fdTable'[x][f] = IF x = c THEN fdTable[p][f] ELSE fdTable[x][f]
  BY <1>1 DEF Fork, TableTypes
<1>3. ASSUME NEW h \in Handles
      PROVE  openFiles'[h] = [openFiles[h] EXCEPT
                                !.count = @ + Cardinality(Refs(p, h))]
  BY DEF Fork
<1>4. ASSUME NEW h \in Handles
      PROVE  /\ AllRefs(h)' = AllRefs(h) \cup ({c} \X Refs(p, h))
             /\ Cardinality(AllRefs(h)') = Cardinality(AllRefs(h))
                                             + Cardinality(Refs(p, h))
  <2>1. ASSUME NEW x \in Pids, NEW f \in Fds
        PROVE  <<x, f>> \in AllRefs(h)'
                 <=> <<x, f>> \in AllRefs(h) \cup ({c} \X Refs(p, h))
    <3>1. <<x, f>> \in AllRefs(h) <=> fdTable[x][f] # Unused /\ fdTable[x][f].h = h
      BY DEF AllRefs
    <3>2. <<x, f>> \in AllRefs(h)' <=> fdTable'[x][f] # Unused /\ fdTable'[x][f].h = h
      BY DEF AllRefs
    <3>3. <<x, f>> \in {c} \X Refs(p, h) <=>
            x = c /\ fdTable[p][f] # Unused /\ fdTable[p][f].h = h
      BY DEF Refs
    <3> QED BY <1>1, <1>2, <3>1, <3>2, <3>3
  <2>2. AllRefs(h) \subseteq Pids \X Fds /\ AllRefs(h)' \subseteq Pids \X Fds
        /\ {c} \X Refs(p, h) \subseteq Pids \X Fds
    BY DEF AllRefs, Refs
  <2>3. AllRefs(h)' = AllRefs(h) \cup ({c} \X Refs(p, h))
    BY <2>1, <2>2
  <2>4. AllRefs(h) \cap ({c} \X Refs(p, h)) = {}
    BY <1>1 DEF AllRefs
  <2>5. /\ IsFiniteSet(AllRefs(h)) /\ Cardinality(AllRefs(h)) \in Nat
        /\ IsFiniteSet(Refs(p, h)) /\ Cardinality(Refs(p, h)) \in Nat
    BY RefsFinite
  <2>6. /\ IsFiniteSet({c} \X Refs(p, h))
        /\ Cardinality({c} \X Refs(p, h)) = Cardinality(Refs(p, h))
    BY <2>5, RowCounts
  <2>7. Cardinality(AllRefs(h) \cup ({c} \X Refs(p, h)))
          = Cardinality(AllRefs(h)) + Cardinality({c} \X Refs(p, h))
              - Cardinality(AllRefs(h) \cap ({c} \X Refs(p, h)))
    BY <2>5, <2>6, FS_Union
  <2>8. Cardinality(AllRefs(h) \cap ({c} \X Refs(p, h))) = 0
    BY <2>4, FS_EmptySet
  <2> QED BY <2>3, <2>5, <2>6, <2>7, <2>8
<1>5. ASSUME NEW h \in Handles
      PROVE  /\ openFiles[h] = Closed => openFiles'[h] = Closed
             /\ openFiles[h] # Closed =>
                  /\ openFiles'[h] \in [serial : Serials, node : Nodes, count : Nat \ {0}]
                  /\ openFiles'[h] # Closed
                  /\ openFiles'[h].count
                       = openFiles[h].count + Cardinality(Refs(p, h))
             /\ openFiles'[h].serial = openFiles[h].serial
  <2>1. CASE openFiles[h] = Closed
    <3>1. Refs(p, h) = {}
      BY <1>1, <2>1, Referenced DEF Refs
    <3>2. Cardinality(Refs(p, h)) = 0
      BY <3>1, FS_EmptySet
    <3> QED BY <1>3, <2>1, <3>2 DEF Closed
  <2>2. CASE openFiles[h] # Closed
    <3>1. openFiles[h] \in [serial : Serials, node : Nodes, count : Nat \ {0}]
      BY <1>1, <2>2 DEF TableTypes, Entries
    <3>2. Cardinality(Refs(p, h)) \in Nat
      BY RefsFinite
    <3>3. openFiles[h].count + Cardinality(Refs(p, h)) \in Nat \ {0}
      BY <3>1, <3>2
    <3>4. openFiles'[h].serial = openFiles[h].serial /\ openFiles[h].serial \in Serials
      BY <1>3, <3>1
    <3>5. openFiles'[h] # Closed
      BY <3>4, OpenAssumption DEF Closed, Serials
    <3> QED BY <1>3, <2>2, <3>1, <3>3, <3>4, <3>5
  <2> QED BY <2>1, <2>2
<1>6. TableTypes'
  <2>1. \A h \in Handles : openFiles'[h] \in Entries
    BY <1>5 DEF Entries
  <2>2. openFiles' \in [Handles -> Entries]
    BY <2>1 DEF Fork
  <2>3. fdTable' \in [Pids -> [Fds -> Pairs]]
    BY <1>1 DEF Fork, TableTypes
  <2> QED BY <1>1, <2>2, <2>3 DEF TableTypes
<1>7. Numbered'
  <2>1. /\ \A h \in Handles : openFiles[h].serial <= serial
        /\ \A h, i \in Handles :
             openFiles[h] # Closed /\ openFiles[h].serial = openFiles[i].serial => h = i
    BY <1>1 DEF TableInv, Numbered
  <2> QED BY <1>1, <1>5, <2>1 DEF Numbered
<1>8. FreeIsClosed'
  <2>1. \A h \in Handles : openFiles'[h] = Closed <=> openFiles[h] = Closed
    BY <1>5
  <2>2. FreeIsClosed
    BY <1>1 DEF TableInv
  <2> QED BY <1>1, <2>1, <2>2 DEF FreeIsClosed
<1>9. NoDanglingFd'
  <2> SUFFICES ASSUME NEW x \in Pids, NEW f \in Fds, fdTable'[x][f] # Unused
               PROVE  openFiles'[fdTable'[x][f].h].serial = fdTable'[x][f].serial
    BY DEF NoDanglingFd, Held
  <2>1. PICK y \in Pids : fdTable'[x][f] = fdTable[y][f]
    BY <1>2
  <2>2. /\ fdTable[y][f].h \in Handles
        /\ openFiles[fdTable[y][f].h].serial = fdTable[y][f].serial
    BY <1>1, <2>1, Referenced
  <2> QED BY <1>5, <2>1, <2>2
<1>10. CountsInstances'
  <2>1. ASSUME NEW h \in Handles, openFiles'[h] # Closed
        PROVE  IF openFiles'[h].serial \in overcounted'
               THEN openFiles'[h].count > Cardinality(AllRefs(h)')
               ELSE openFiles'[h].count = Cardinality(AllRefs(h)')
    <3>1. /\ openFiles[h] # Closed /\ openFiles'[h].serial = openFiles[h].serial
          /\ openFiles'[h].count = openFiles[h].count + Cardinality(Refs(p, h))
      BY <1>5, <2>1
    <3>2. IF openFiles[h].serial \in overcounted
          THEN openFiles[h].count > Cardinality(AllRefs(h))
          ELSE openFiles[h].count = Cardinality(AllRefs(h))
      BY <1>1, <3>1 DEF TableInv, CountsInstances
    <3>3. /\ Cardinality(AllRefs(h)) \in Nat /\ Cardinality(Refs(p, h)) \in Nat
          /\ openFiles[h].count \in Nat
      BY <1>1, <3>1, RefsFinite DEF TableTypes, Entries
    <3> QED BY <1>1, <1>4, <3>1, <3>2, <3>3
  <2> QED BY <2>1 DEF CountsInstances
<1> QED BY <1>6, <1>7, <1>8, <1>9, <1>10 DEF TableInv

----------------------------------------------------------------------------
(* One lemma per action, with what it does to the processes *)

LEMMA OpenStep ==
  ASSUME OpenInv, NEW p \in Pids, NEW path, Open(p, path)
  PROVE  OpenInv'
<1>1. PICK node \in Nodes : Opened(node, 1)
  BY DEF Open
<1>2. /\ TableInv /\ TableTypes /\ ProcInv /\ life[p] = "running" /\ life' = life
      /\ NewFd(p) \in Fds
      /\ returnedFds' = [returnedFds EXCEPT ![p] = @ \ {NewFd(p)}]
      /\ fdTable' = [fdTable EXCEPT ![p][NewFd(p)] = NewPair]
  BY DEF OpenInv, TableInv, Open, Running, FdTaken
<1>3. TableInv'
  <2>1. fdTable' = [fdTable EXCEPT ![p][NewFd(p)] = Unused, ![p][NewFd(p)] = NewPair]
    BY <1>2 DEF TableTypes
  <2>2. overcounted' = overcounted \cup Overwritten(p, NewFd(p))
                         \cup IF 1 = 1 THEN {} ELSE {serial + 1}
    BY DEF Open
  <2>3. Filling(node, 1, p, NewFd(p), p, NewFd(p))
    BY <1>1, <1>2, <2>1, <2>2 DEF Filling
  <2> QED BY <1>2, <2>3, Filled
<1>4. ProcInv'
  <2>1. \A x \in Pids, f \in Fds : x # p \/ f # NewFd(p) => fdTable'[x][f] = fdTable[x][f]
    BY <1>2 DEF TableTypes
  <2>2. returnedFds' \in [Pids -> SUBSET Fds]
    BY <1>2 DEF ProcInv
  <2>3. ASSUME NEW x \in Pids
        PROVE  /\ life[x] = "unborn" => returnedFds'[x] = {}
               /\ life[x] # "running" => Held(x)' = {}
               /\ returnedFds'[x] \cap Held(x)' = {}
    BY <1>2, <2>1 DEF ProcInv, Held
  <2> QED BY <1>2, <2>2, <2>3 DEF ProcInv
<1> QED BY <1>3, <1>4 DEF OpenInv

LEMMA ExecStep ==
  ASSUME OpenInv, NEW p \in Pids, NEW c \in Pids, NEW path, Exec(p, c, path)
  PROVE  OpenInv'
<1>1. /\ TableInv /\ TableTypes /\ ProcInv /\ life[p] = "running" /\ life[c] = "unborn"
      /\ NewFd(p) \in Fds
      /\ returnedFds' = [returnedFds EXCEPT ![p] = @ \cup {NewFd(p)}]
      /\ fdTable' = [fdTable EXCEPT ![p][NewFd(p)] = Unused]
      /\ life' = life \/ life' = [life EXCEPT ![c] = "running"]
  BY DEF OpenInv, TableInv, Exec, Running, Born, Probed
<1>2. TableInv'
  BY <1>1, ProbeKeeps DEF Exec
<1>3. ProcInv'
  <2>1. \A x \in Pids, f \in Fds :
          fdTable'[x][f] = IF x = p /\ f = NewFd(p) THEN Unused ELSE fdTable[x][f]
    BY <1>1 DEF TableTypes
  <2>2. /\ returnedFds' \in [Pids -> SUBSET Fds]
        /\ life' \in [Pids -> {"unborn", "running", "gone"}]
    BY <1>1 DEF ProcInv
  <2>3. ASSUME NEW x \in Pids
        PROVE  /\ life'[x] = "unborn" => returnedFds'[x] = {}
               /\ life'[x] # "running" => Held(x)' = {}
               /\ returnedFds'[x] \cap Held(x)' = {}
    <3>1. life'[x] # "running" => life[x] = life'[x] /\ x # p
      BY <1>1 DEF ProcInv
    <3>2. Held(x)' = IF x = p THEN Held(x) \ {NewFd(p)} ELSE Held(x)
      BY <2>1 DEF Held
    <3>3. returnedFds'[x] = IF x = p THEN returnedFds[x] \cup {NewFd(p)} ELSE returnedFds[x]
      BY <1>1 DEF ProcInv
    <3> QED BY <1>1, <3>1, <3>2, <3>3 DEF ProcInv
  <2> QED BY <2>2, <2>3 DEF ProcInv
<1> QED BY <1>2, <1>3 DEF OpenInv

LEMMA RedirectedStep ==
  ASSUME OpenInv, NEW p \in Pids, NEW c \in Pids, NEW path, ExecRedirected(p, c, path)
  PROVE  OpenInv'
<1>1. PICK node \in Nodes : Opened(node, 2)
  BY DEF ExecRedirected
<1>2. /\ TableInv /\ TableTypes /\ ProcInv /\ life[p] = "running" /\ life[c] = "unborn"
      /\ p # c /\ NewFd(p) \in Fds
      /\ returnedFds' = [returnedFds EXCEPT ![p] = @ \cup {NewFd(p)}]
      /\ life' = [life EXCEPT ![c] = "running"]
      /\ fdTable' = [fdTable EXCEPT ![p][NewFd(p)] = Unused, ![c][FirstFd] = NewPair]
  BY DEF OpenInv, TableInv, ExecRedirected, Running, Born, Probed
<1>3. FirstFd \in Fds /\ fdTable[c][FirstFd] = Unused
  <2>1. serial \in Nat /\ serial < MaxOpens
    BY <1>1, <1>2 DEF Opened, TableTypes
  <2>2. FirstFd \in Fds
    BY <2>1, OpenAssumption DEF Fds, FirstFd
  <2> QED BY <1>2, <2>2 DEF ProcInv, Held
<1>4. TableInv'
  <2>1. overcounted' = overcounted \cup Overwritten(p, NewFd(p))
                         \cup IF 2 = 1 THEN {} ELSE {serial + 1}
    BY DEF ExecRedirected
  <2>2. Filling(node, 2, p, NewFd(p), c, FirstFd)
    BY <1>1, <1>2, <1>3, <2>1 DEF Filling
  <2> QED BY <1>2, <2>2, Filled
<1>5. ProcInv'
  <2>1. \A x \in Pids, f \in Fds :
          x # c => fdTable'[x][f] =
                     IF x = p /\ f = NewFd(p) THEN Unused ELSE fdTable[x][f]
    BY <1>2 DEF TableTypes
  <2>2. /\ returnedFds' \in [Pids -> SUBSET Fds]
        /\ life' \in [Pids -> {"unborn", "running", "gone"}]
    BY <1>2 DEF ProcInv
  <2>3. ASSUME NEW x \in Pids
        PROVE  /\ life'[x] = "unborn" => returnedFds'[x] = {}
               /\ life'[x] # "running" => Held(x)' = {}
               /\ returnedFds'[x] \cap Held(x)' = {}
    <3>1. life'[x] # "running" => life[x] = life'[x] /\ x # p /\ x # c
      BY <1>2 DEF ProcInv
    <3>2. x # c => Held(x)' = IF x = p THEN Held(x) \ {NewFd(p)} ELSE Held(x)
      BY <2>1 DEF Held
    <3>3. returnedFds'[x] = IF x = p THEN returnedFds[x] \cup {NewFd(p)} ELSE returnedFds[x]
      BY <1>2 DEF ProcInv
    <3>4. x = c => life'[x] = "running" /\ returnedFds'[x] = {}
      BY <1>2, <3>3 DEF ProcInv
    <3> QED BY <1>2, <3>1, <3>2, <3>3, <3>4 DEF ProcInv
  <2> QED BY <2>2, <2>3 DEF ProcInv
<1> QED BY <1>4, <1>5 DEF OpenInv

\* close, and exit, which closes all that the process holds.
LEMMA CloseStep ==
  ASSUME OpenInv, NEW p \in Pids, NEW ds \in SUBSET Held(p), life[p] = "running",
         Closing(p, ds), UNCHANGED <<handleCounter, serial, overcounted>>,
         \/ life' = life
         \/ life' = [life EXCEPT ![p] = "gone"] /\ ds = Held(p)
  PROVE  OpenInv'
<1>1. TableInv /\ TableTypes /\ ProcInv
  BY DEF OpenInv, TableInv
<1>2. TableInv'
  BY <1>1, ClosingKeeps
<1>3. ProcInv'
  <2>1. \A x \in Pids, f \in Fds :
          fdTable'[x][f] = IF x = p /\ f \in ds THEN Unused ELSE fdTable[x][f]
    BY <1>1 DEF Closing, TableTypes
  <2>2. returnedFds' = [returnedFds EXCEPT ![p] = @ \cup ds] /\ ds \subseteq Fds
    BY DEF Closing, Held
  <2>3. /\ returnedFds' \in [Pids -> SUBSET Fds]
        /\ life' \in [Pids -> {"unborn", "running", "gone"}]
    BY <1>1, <2>2 DEF ProcInv
  <2>4. ASSUME NEW x \in Pids
        PROVE  /\ life'[x] = "unborn" => returnedFds'[x] = {}
               /\ life'[x] # "running" => Held(x)' = {}
               /\ returnedFds'[x] \cap Held(x)' = {}
    <3>1. /\ x # p => life'[x] = life[x]
          /\ x = p => life'[x] # "unborn" /\ (life'[x] # "running" => ds = Held(x))
      BY <1>1 DEF ProcInv
    <3>2. Held(x)' = IF x = p THEN Held(x) \ ds ELSE Held(x)
      BY <2>1 DEF Held
    <3>3. returnedFds'[x] = IF x = p THEN returnedFds[x] \cup ds ELSE returnedFds[x]
      BY <1>1, <2>2 DEF ProcInv
    <3> QED BY <1>1, <3>1, <3>2, <3>3 DEF ProcInv
  <2> QED BY <2>3, <2>4 DEF ProcInv
<1> QED BY <1>2, <1>3 DEF OpenInv

LEMMA ForkStep ==
  ASSUME OpenInv, NEW p \in Pids, NEW c \in Pids, Fork(p, c)
  PROVE  OpenInv'
<1>1. /\ TableInv /\ TableTypes /\ ProcInv /\ life[p] = "running" /\ life[c] = "unborn"
      /\ returnedFds' = returnedFds
      /\ life' = [life EXCEPT ![c] = "running"]
      /\ fdTable' = [fdTable EXCEPT ![c] = fdTable[p]]
  BY DEF OpenInv, TableInv, Fork, Running, Born
<1>2. ProcInv'
  <2>1. ASSUME NEW x \in Pids
        PROVE  /\ life'[x] = "unborn" => returnedFds'[x] = {}
               /\ life'[x] # "running" => Held(x)' = {}
               /\ returnedFds'[x] \cap Held(x)' = {}
    <3>1. x # c => life'[x] = life[x] /\ Held(x)' = Held(x)
      BY <1>1 DEF ProcInv, TableTypes, Held
    <3>2. x = c => life'[x] = "running" /\ returnedFds'[x] = {}
      BY <1>1 DEF ProcInv
    <3> QED BY <1>1, <3>1, <3>2 DEF ProcInv
  <2> QED BY <1>1, <2>1 DEF ProcInv
<1> QED BY <1>2, ForkKeeps DEF OpenInv

----------------------------------------------------------------------------
LEMMA OpenInvInit == OpenInit => OpenInv
<1> SUFFICES ASSUME OpenInit PROVE OpenInv
  OBVIOUS
<1>1. TableTypes
  BY OpenAssumption DEF OpenInit, TableTypes, Entries, Pairs
<1>2. Numbered
  BY DEF OpenInit, Numbered, Closed
<1>3. FreeIsClosed
  BY OpenAssumption DEF OpenInit, FreeIsClosed, Handles
<1>4. NoDanglingFd
  BY DEF OpenInit, NoDanglingFd, Held
<1>5. CountsInstances
  BY DEF OpenInit, CountsInstances
<1>6. ProcInv
  BY DEF OpenInit, ProcInv, Held
<1> QED BY <1>1, <1>2, <1>3, <1>4, <1>5, <1>6 DEF OpenInv, TableInv

LEMMA OpenInvStep == OpenInv /\ [OpenNext]_vars => OpenInv'
<1> SUFFICES ASSUME OpenInv, [OpenNext]_vars PROVE OpenInv'
  OBVIOUS
<1>1. CASE UNCHANGED <<openFiles, handleCounter, freeHandles, serial, life, fdTable,
                       returnedFds, overcounted>>
  <2>1. TableTypes' /\ Numbered' /\ FreeIsClosed'
    BY <1>1 DEF OpenInv, TableInv, TableTypes, Numbered, FreeIsClosed
  <2>2. NoDanglingFd' /\ CountsInstances'
    BY <1>1 DEF OpenInv, TableInv, NoDanglingFd, CountsInstances, Held, AllRefs
  <2>3. ProcInv'
    BY <1>1 DEF OpenInv, ProcInv, Held
  <2> QED BY <2>1, <2>2, <2>3 DEF OpenInv, TableInv
<1>2. ASSUME NEW p \in Pids, NEW path, Open(p, path) PROVE OpenInv'
  BY <1>2, OpenStep
<1>3. ASSUME NEW p \in Pids, NEW c \in Pids, NEW path,
             Exec(p, c, path) \/ ExecRedirected(p, c, path)
      PROVE  OpenInv'
  BY <1>3, ExecStep, RedirectedStep
<1>4. ASSUME NEW p \in Pids, NEW d \in Fds, Close(p, d) PROVE OpenInv'
  <2>1. {d} \in SUBSET Held(p) /\ life[p] = "running" /\ life' = life
        /\ UNCHANGED <<handleCounter, serial, overcounted>> /\ Closing(p, {d})
    BY <1>4 DEF Close, Running
  <2> QED BY <2>1, CloseStep
<1>5. ASSUME NEW p \in Pids, Exit(p) PROVE OpenInv'
  <2>1. /\ life[p] = "running" /\ life' = [life EXCEPT ![p] = "gone"]
        /\ UNCHANGED <<handleCounter, serial, overcounted>> /\ Closing(p, Held(p))
    BY <1>5 DEF Exit, Running
  <2> QED BY <2>1, CloseStep
<1>6. ASSUME NEW p \in Pids, NEW c \in Pids, Fork(p, c) PROVE OpenInv'
  BY <1>6, ForkStep
<1>7. CASE Tree \/ \E path \in Paths : Install(path)
  BY <1>1, <1>7 DEF Tree, Install, fileVars, tableVars, procVars
<1>8. CASE \E p \in Pids, d \in Fds : Use(p, d)
  BY <1>1, <1>8 DEF Use, tableVars, procVars
<1>9. CASE UNCHANGED vars
  BY <1>1, <1>9 DEF vars, fileVars, tableVars, procVars
<1> QED BY <1>2, <1>3, <1>4, <1>5, <1>6, <1>7, <1>8, <1>9 DEF OpenNext

LEMMA OpenInvHolds == OpenSpec => []OpenInv
  BY OpenInvInit, OpenInvStep, PTL DEF OpenSpec

(* NoDanglingFd of module OpenFiles: whatever processes fork, exit and open   *)
(* again, a descriptor leads to the opening it was made for.                  *)
THEOREM DescriptorsLeadHome == OpenSpec => []NoDanglingFd
<1>1. OpenInv => NoDanglingFd
  BY DEF OpenInv, TableInv
<1> QED BY <1>1, OpenInvHolds, PTL

(* CountsInstances of module OpenFiles: an entry counts the descriptors that  *)
(* hold it, or more if a redirection or an overwritten descriptor says so.    *)
THEOREM InstancesCounted == OpenSpec => []CountsInstances
<1>1. OpenInv => CountsInstances
  BY DEF OpenInv, TableInv
<1> QED BY <1>1, OpenInvHolds, PTL

(* HandlesAccountedFor of module OpenFiles: what get_handle and               *)
(* get_descriptor hand out is not in use.                                     *)
THEOREM HandlesNeverShared == OpenSpec => []HandlesAccountedFor
<1>1. OpenInv => HandlesAccountedFor
  <2> SUFFICES ASSUME OpenInv PROVE HandlesAccountedFor
    OBVIOUS
  <2>1. /\ FreeIsClosed /\ freeHandles \subseteq Handles
        /\ handleCounter \in 0 .. MaxOpens /\ ProcInv
    BY DEF OpenInv, TableInv, TableTypes
  <2>2. /\ freeHandles = {h \in 0 .. handleCounter - 1 : openFiles[h] = Closed}
        /\ \A h \in Handles : h >= handleCounter => openFiles[h] = Closed
    BY <2>1, Accounted
  <2> QED BY <2>1, <2>2 DEF HandlesAccountedFor, ProcInv
<1> QED BY <1>1, OpenInvHolds, PTL
=============================================================================
