---------------------------- MODULE DriversProofs --------------------------
(***************************************************************************)
(* Proofs about the driver library (module Drivers), for any files,        *)
(* folders, images and limits:                                             *)
(*   - of the descent of _setup_tree: it finds the topmost directories     *)
(*     that can be walked, so nothing sound is lost and nothing broken met;*)
(*   - of the queue of setup_paths and the orders of _mark_inject and      *)
(*     winpe_inject_files: a sequence with every element once;             *)
(*   - of the folds of _mark_inject and winpe_inject_files: what holds of  *)
(*     the files chosen so far.                                            *)
(* What the state adds is LibraryOK, which is inductive.                   *)
(***************************************************************************)
EXTENDS Drivers, FiniteSetTheorems, FunctionTheorems, SequenceTheorems,
        WellFoundedInduction, TLAPS

INSTANCE DataLemmas WITH Op <- PutOwn
PutFold    == INSTANCE DataLemmas WITH Op <- PutFirst
FollowFold == INSTANCE DataLemmas WITH Op <- FollowInf

-----------------------------------------------------------------------------
(* Paths.                                                                  *)

\* The directories of the files, as paths.
Paths == Seq(STRING)

\* A path is below another when it starts with its elements.
LEMMA PrefixByPlace ==
    ASSUME NEW s \in Paths, NEW t \in Paths
    PROVE  IsPrefix(s, t) <=> (/\ Len(s) <= Len(t)
                               /\ \A n \in 1..Len(s) : s[n] = t[n])
<1>1. /\ Len(s) \in Nat /\ Len(t) \in Nat
      /\ \A n \in 1..Len(s) : s[n] \in STRING
      /\ \A n \in 1..Len(t) : t[n] \in STRING
    BY LenProperties, ElementOfSeq DEF Paths
<1>2. PICK m : m = Len(s)
    OBVIOUS
<1>3. ASSUME m <= Len(t)
      PROVE  SubSeq(s, 1, m) = SubSeq(t, 1, m) <=> \A n \in 1..m : s[n] = t[n]
    <2>0. m \in Nat /\ 1 \in Int /\ m \in Int
        BY <1>1, <1>2
    <2>a. (\A n \in 1..m : s[n] \in STRING) /\ (\A n \in 1..m : t[n] \in STRING)
        BY <1>1, <1>2, <1>3
    <2>1. PICK a : a = SubSeq(s, 1, m)
        OBVIOUS
    <2>2. PICK b : b = SubSeq(t, 1, m)
        OBVIOUS
    <2>3. a \in Seq(STRING) /\ Len(a) = (IF 1 <= m THEN m - 1 + 1 ELSE 0)
          /\ \A n \in 1..m - 1 + 1 : a[n] = s[1 + n - 1]
        BY <2>0, <2>a, <2>1, SubSeqProperties
    <2>4. b \in Seq(STRING) /\ Len(b) = (IF 1 <= m THEN m - 1 + 1 ELSE 0)
          /\ \A n \in 1..m - 1 + 1 : b[n] = t[1 + n - 1]
        BY <2>0, <2>a, <2>2, SubSeqProperties
    <2>5. Len(a) = m /\ Len(b) = m /\ m - 1 + 1 = m
        BY <2>0, <2>3, <2>4
    <2>6. \A n \in 1..m : n \in 1..m - 1 + 1 /\ 1 + n - 1 = n
        BY <2>0
    <2>7. \A n \in 1..m : a[n] = s[n] /\ b[n] = t[n]
        BY <2>3, <2>4, <2>6
    <2>8. (\A n \in 1..m : s[n] = t[n]) => a = b
        BY <2>3, <2>4, <2>5, <2>7, SeqEqual
    <2> QED
        BY <2>1, <2>2, <2>7, <2>8
<1> QED
    BY <1>2, <1>3 DEF IsPrefix

\* The first k elements of a path.
LEMMA Cut ==
    ASSUME NEW t \in Paths, NEW k \in 0..Len(t)
    PROVE  /\ SubSeq(t, 1, k) \in Paths /\ Len(SubSeq(t, 1, k)) = k
           /\ \A n \in 1..k : SubSeq(t, 1, k)[n] = t[n]
<1>1. Len(t) \in Nat /\ \A n \in 1..Len(t) : t[n] \in STRING
    BY LenProperties, ElementOfSeq DEF Paths
<1>2. k \in Nat /\ 1 \in Int /\ k \in Int /\ \A n \in 1..k : t[n] \in STRING
    BY <1>1
<1>3. PICK b : b = SubSeq(t, 1, k)
    OBVIOUS
<1>4. b \in Seq(STRING) /\ Len(b) = (IF 1 <= k THEN k - 1 + 1 ELSE 0)
      /\ \A n \in 1..k - 1 + 1 : b[n] = t[1 + n - 1]
    BY <1>2, <1>3, SubSeqProperties
<1>5. Len(b) = k
    BY <1>2, <1>4
<1>6. \A n \in 1..k : n \in 1..k - 1 + 1 /\ 1 + n - 1 = n
    BY <1>2
<1> QED
    BY <1>3, <1>4, <1>5, <1>6 DEF Paths

\* Being a prefix is an order, and two prefixes of a path are comparable.
LEMMA PrefixOrder ==
    /\ \A s \in Paths : IsPrefix(<<>>, s) /\ IsPrefix(s, s)
    /\ \A s, t \in Paths : IsPrefix(s, t) /\ Len(s) = Len(t) => s = t
    /\ \A s, t, u \in Paths : IsPrefix(s, t) /\ IsPrefix(t, u) => IsPrefix(s, u)
    /\ \A s, t, u \in Paths :
         IsPrefix(s, u) /\ IsPrefix(t, u) /\ Len(s) <= Len(t) => IsPrefix(s, t)
<1>0. \A s \in Paths : Len(s) \in Nat
    BY LenProperties DEF Paths
<1>1. ASSUME NEW s \in Paths PROVE IsPrefix(<<>>, s) /\ IsPrefix(s, s)
    <2>1. <<>> \in Paths /\ Len(<<>>) = 0
        BY DEF Paths
    <2>2. 0 <= Len(s) /\ Len(s) <= Len(s)
        BY <1>0
    <2> QED
        BY <2>1, <2>2, PrefixByPlace
<1>2. ASSUME NEW s \in Paths, NEW t \in Paths, IsPrefix(s, t), Len(s) = Len(t)
      PROVE  s = t
    <2>1. \A n \in 1..Len(s) : s[n] = t[n]
        BY <1>2, PrefixByPlace
    <2> QED
        BY <1>2, <2>1, SeqEqual DEF Paths
<1>3. ASSUME NEW s \in Paths, NEW t \in Paths, NEW u \in Paths
      PROVE  /\ IsPrefix(s, t) /\ IsPrefix(t, u) => IsPrefix(s, u)
             /\ IsPrefix(s, u) /\ IsPrefix(t, u) /\ Len(s) <= Len(t) => IsPrefix(s, t)
    <2>0. Len(s) \in Nat /\ Len(t) \in Nat /\ Len(u) \in Nat
        BY <1>0
    <2>1. /\ IsPrefix(s, t) <=> (Len(s) <= Len(t) /\ \A n \in 1..Len(s) : s[n] = t[n])
          /\ IsPrefix(s, u) <=> (Len(s) <= Len(u) /\ \A n \in 1..Len(s) : s[n] = u[n])
          /\ IsPrefix(t, u) <=> (Len(t) <= Len(u) /\ \A n \in 1..Len(t) : t[n] = u[n])
        BY PrefixByPlace
    <2>2. Len(s) <= Len(t) => \A n \in 1..Len(s) : n \in 1..Len(t)
        BY <2>0
    <2> QED
        BY <2>0, <2>1, <2>2
<1> QED
    BY <1>1, <1>2, <1>3

-----------------------------------------------------------------------------
(* The descent of _setup_tree.                                             *)

\* The files are typed.
LEMMA FileTypes ==
    /\ Len(Files) \in Nat /\ FileIds = 1..Len(Files)
    /\ \A i \in FileIds : Dir(i) \in Paths /\ Files[i].folder \in ToSet(Folders)
<1>1. /\ Len(Files) \in Nat /\ DOMAIN Files = 1..Len(Files)
      /\ \A i \in 1..Len(Files) :
           Files[i] \in [folder : ToSet(Folders), dir : Seq(STRING), name : STRING,
                         size : Nat, copied : SUBSET STRING, services : SUBSET STRING,
                         catalogue : SUBSET STRING]
    BY FilesAssumption, LenProperties, ElementOfSeq
<1> QED
    BY <1>1 DEF FileIds, Dir, Paths

\* A directory is the root or leads to a file.
LEMMA StartsOfFiles ==
    ASSUME NEW here \in SUBSET FileIds, NEW d
    PROVE  d \in Dirs(here) <=>
             (d = <<>> \/ \E i \in here : \E k \in 0..Len(Dir(i)) : d = SubSeq(Dir(i), 1, k))
<1> DEFINE Starts(i) == {SubSeq(Dir(i), 1, k) : k \in 0..Len(Dir(i))}
<1>a. \A e : e \in Dirs(here) <=> (e = <<>> \/ \E i \in here : e \in Starts(i))
    <2>1. PICK all : all = {Starts(i) : i \in here}
        OBVIOUS
    <2>2. Dirs(here) = {<<>>} \union UNION all
        BY <2>1 DEF Dirs
    <2>3. \A a : a \in all <=> \E i \in here : a = Starts(i)
        <3> HIDE DEF Starts
        <3> QED
            BY <2>1
    <2>4. \A e : e \in Dirs(here) <=> (e = <<>> \/ \E a \in all : e \in a)
        BY <2>2
    <2>5. ASSUME NEW e
          PROVE  (\E a \in all : e \in a) <=> \E i \in here : e \in Starts(i)
        <3> HIDE DEF Starts
        <3>1. ASSUME NEW a \in all, e \in a PROVE \E i \in here : e \in Starts(i)
            BY <2>3, <3>1
        <3>2. ASSUME NEW i \in here, e \in Starts(i) PROVE \E a \in all : e \in a
            BY <2>3, <3>2
        <3> QED
            BY <3>1, <3>2
    <2> HIDE DEF Starts
    <2> QED
        BY <2>4, <2>5
<1> QED
    BY <1>a

\* The directories of some files are paths, with those of the files and with
\* all that they start with.
LEMMA DirsArePaths ==
    ASSUME NEW here \in SUBSET FileIds
    PROVE  /\ Dirs(here) \subseteq Paths /\ <<>> \in Dirs(here) /\ <<>> \in Paths
           /\ \A i \in here : Dir(i) \in Dirs(here)
           /\ \A d \in Dirs(here) : \A k \in 0..Len(d) : SubSeq(d, 1, k) \in Dirs(here)
<1>0. <<>> \in Paths /\ Len(<<>>) = 0
    BY DEF Paths
<1>1. ASSUME NEW i \in here
      PROVE  /\ Dir(i) \in Paths /\ Len(Dir(i)) \in Nat
             /\ \A k \in 0..Len(Dir(i)) : /\ SubSeq(Dir(i), 1, k) \in Paths
                                          /\ SubSeq(Dir(i), 1, k) \in Dirs(here)
    <2>1. Dir(i) \in Paths
        BY FileTypes
    <2>2. Len(Dir(i)) \in Nat
        BY <2>1, LenProperties DEF Paths
    <2>3. PICK t \in Paths : t = Dir(i)
        BY <2>1
    <2>4. \A k \in 0..Len(t) : SubSeq(t, 1, k) \in Paths
        BY Cut
    <2>5. \A k \in 0..Len(t) : SubSeq(t, 1, k) \in Dirs(here)
        BY <2>3, StartsOfFiles
    <2> QED
        BY <2>1, <2>2, <2>3, <2>4, <2>5
<1>2. ASSUME NEW d \in Dirs(here)
      PROVE  d = <<>> \/ \E i \in here : \E m \in 0..Len(Dir(i)) : d = SubSeq(Dir(i), 1, m)
    BY StartsOfFiles
<1>3. Dirs(here) \subseteq Paths
    BY ZenonT(40), <1>0, <1>1, <1>2
<1>4. <<>> \in Dirs(here)
    BY StartsOfFiles
<1>5. ASSUME NEW i \in here PROVE Dir(i) \in Dirs(here)
    <2>1. PICK t \in Paths : t = Dir(i)
        BY <1>1
    <2>2. Len(t) \in 0..Len(t)
        BY <1>1, <2>1
    <2>3. SubSeq(t, 1, Len(t)) = t
        <3>1. PICK a : a = SubSeq(t, 1, Len(t))
            OBVIOUS
        <3>2. a \in Paths /\ Len(a) = Len(t) /\ \A n \in 1..Len(t) : a[n] = t[n]
            BY <2>2, <3>1, Cut
        <3>3. a = t
            BY <3>2, SeqEqual DEF Paths
        <3> QED
            BY <3>1, <3>3
    <2> QED
        BY <1>1, <2>1, <2>2, <2>3
<1>6. ASSUME NEW d \in Dirs(here), NEW k \in 0..Len(d)
      PROVE  SubSeq(d, 1, k) \in Dirs(here)
    <2>0. d \in Paths
        BY <1>3
    <2>1. PICK b : b = SubSeq(d, 1, k)
        OBVIOUS
    <2>2. b \in Paths /\ Len(b) = k /\ \A n \in 1..k : b[n] = d[n]
        BY <2>0, <2>1, Cut
    <2>3. CASE d = <<>>
        <3>1. k = 0
            BY <1>0, <2>3
        <3>2. b = <<>>
            BY <1>0, <2>2, <3>1, SeqEqual DEF Paths
        <3> QED
            BY <1>4, <2>1, <3>2
    <2>4. CASE \E i \in here : \E m \in 0..Len(Dir(i)) : d = SubSeq(Dir(i), 1, m)
        <3>1. PICK i \in here : \E m \in 0..Len(Dir(i)) : d = SubSeq(Dir(i), 1, m)
            BY <2>4
        <3>2. PICK t \in Paths : t = Dir(i)
            BY <1>1
        <3>3. PICK m \in 0..Len(t) : d = SubSeq(t, 1, m)
            BY <3>1, <3>2
        <3>4. Len(d) = m /\ \A n \in 1..m : d[n] = t[n]
            BY <3>3, Cut
        <3>5. Len(t) \in Nat
            BY <1>1, <3>2
        <3>6. k \in 0..Len(t) /\ \A n \in 1..k : n \in 1..m
            BY <3>4, <3>5
        <3>7. PICK a : a = SubSeq(t, 1, k)
            OBVIOUS
        <3>8. a \in Paths /\ Len(a) = k /\ \A n \in 1..k : a[n] = t[n]
            BY <3>6, <3>7, Cut
        <3>9. a = b
            BY <2>2, <3>4, <3>6, <3>8, SeqEqual DEF Paths
        <3> QED
            BY <1>1, <2>1, <3>2, <3>6, <3>7, <3>9
    <2> QED
        BY <1>2, <2>3, <2>4
<1> QED
    BY <1>0, <1>3, <1>4, <1>5, <1>6

\* There is a number over the depth of any file.
LEMMA DepthIsBounded == \E m \in Nat : \A i \in FileIds : Len(Dir(i)) < m
<1> DEFINE U == {n \in Nat : \E m \in Nat : \A i \in FileIds : i <= n => Len(Dir(i)) < m}
<1>1. \A i \in FileIds : Len(Dir(i)) \in Nat
    BY FileTypes, LenProperties DEF Paths
<1>2. 0 \in U
    BY FileTypes
<1>3. ASSUME NEW n \in U PROVE n + 1 \in U
    <2>1. n \in Nat
        OBVIOUS
    <2>2. PICK m \in Nat : \A i \in FileIds : i <= n => Len(Dir(i)) < m
        OBVIOUS
    <2>3. CASE n + 1 \in FileIds
        <3>1. PICK l \in Nat : l = Len(Dir(n + 1))
            BY <1>1, <2>3
        <3>2. PICK k \in Nat : k >= m /\ k > l
            <4>1. m + l + 1 \in Nat /\ m + l + 1 >= m /\ m + l + 1 > l
                OBVIOUS
            <4> QED
                BY <4>1
        <3>3. ASSUME NEW i \in FileIds, i <= n + 1 PROVE Len(Dir(i)) < k
            <4>1. i \in Nat
                BY FileTypes
            <4>2. i <= n \/ i = n + 1
                BY <2>1, <3>3, <4>1
            <4>3. CASE i <= n
                <5>1. Len(Dir(i)) < m /\ Len(Dir(i)) \in Nat
                    BY <1>1, <2>2, <4>3
                <5> QED
                    BY <3>2, <5>1
            <4>4. CASE i = n + 1
                BY <3>1, <3>2, <4>4
            <4> QED
                BY <4>2, <4>3, <4>4
        <3> QED
            BY <2>1, <3>3
    <2>4. CASE n + 1 \notin FileIds
        <3>1. ASSUME NEW i \in FileIds, i <= n + 1 PROVE i <= n
            <4>1. i \in Nat /\ i # n + 1
                BY <2>4, FileTypes
            <4> QED
                BY <2>1, <3>1, <4>1
        <3> QED
            BY <2>1, <2>2, <3>1
    <2> QED
        BY <2>3, <2>4
<1>4. U = Nat
    <2> HIDE DEF U
    <2>1. U \in SUBSET Nat
        BY DEF U
    <2> QED
        BY <1>2, <1>3, <2>1, SetInduction
<1>5. Len(Files) \in U
    <2> HIDE DEF U
    <2> QED
        BY <1>4, FileTypes
<1> QED
    BY <1>5, FileTypes

-----------------------------------------------------------------------------
\* f is a descent: what _setup_tree finds from each directory.
Descent(f, here) ==
    f = [d \in Dirs(here) |->
            IF InfsBelow(d, here) = {} THEN {}
            ELSE IF Walkable(d, here) THEN {d}
            ELSE UNION {f[c] : c \in {x \in Dirs(here) : /\ Len(x) = Len(d) + 1
                                                         /\ IsPrefix(d, x)}}]

\* The topmost directories below d that can be walked and have a .inf.
Topmost(d, here) ==
    {e \in Dirs(here) :
       /\ IsPrefix(d, e) /\ InfsBelow(e, here) # {} /\ Walkable(e, here)
       /\ \A c \in Dirs(here) : IsPrefix(d, c) /\ IsPrefix(c, e) /\ Walkable(c, here) => c = e}

\* What is below a directory has no more than it.
LEMMA LessBelow ==
    ASSUME NEW here \in SUBSET FileIds, NEW d \in Paths, NEW e \in Paths, IsPrefix(d, e)
    PROVE  /\ InfsBelow(e, here) \subseteq InfsBelow(d, here)
           /\ Walkable(d, here) => Walkable(e, here)
<1>1. \A i \in here : Dir(i) \in Paths
    BY FileTypes
<1>2. \A i \in here : IsPrefix(e, Dir(i)) => IsPrefix(d, Dir(i))
    BY <1>1, PrefixOrder
<1> QED
    BY <1>2 DEF InfsBelow, Below, Walkable

\* The child of d that leads to e.
LEMMA Child ==
    ASSUME NEW here \in SUBSET FileIds, NEW d \in Dirs(here), NEW e \in Dirs(here),
           IsPrefix(d, e), d # e
    PROVE  \E x \in Dirs(here) : /\ Len(x) = Len(d) + 1 /\ IsPrefix(d, x) /\ IsPrefix(x, e)
                                 /\ \A c \in Dirs(here) :
                                      IsPrefix(d, c) /\ IsPrefix(c, e) /\ c # d => IsPrefix(x, c)
<1>1. \A c \in Dirs(here) : c \in Paths /\ Len(c) \in Nat
    BY DirsArePaths, LenProperties DEF Paths
<1>2. Len(d) <= Len(e) /\ Len(d) # Len(e)
    BY <1>1, PrefixOrder, PrefixByPlace
<1>3. PICK k \in 0..Len(e) : k = Len(d) + 1
    BY <1>1, <1>2
<1>4. PICK x \in Dirs(here) : x = SubSeq(e, 1, k)
    BY DirsArePaths
<1>5. Len(x) = k /\ \A n \in 1..k : x[n] = e[n]
    BY <1>1, <1>4, Cut
<1>6. IsPrefix(x, e)
    <2>1. Len(x) <= Len(e)
        BY <1>1, <1>3, <1>5
    <2> QED
        BY <1>1, <1>5, <2>1, PrefixByPlace
<1>7. IsPrefix(d, x)
    <2>1. Len(d) <= Len(x)
        BY <1>1, <1>3, <1>5
    <2> QED
        BY <1>1, <1>6, <2>1, PrefixOrder
<1>8. ASSUME NEW c \in Dirs(here), IsPrefix(d, c), IsPrefix(c, e), c # d
      PROVE  IsPrefix(x, c)
    <2>1. Len(d) <= Len(c) /\ Len(d) # Len(c)
        BY <1>1, <1>8, PrefixOrder, PrefixByPlace
    <2>2. Len(x) <= Len(c)
        BY <1>1, <1>3, <1>5, <2>1
    <2> QED
        BY <1>1, <1>6, <1>8, <2>2, PrefixOrder
<1> QED
    BY <1>3, <1>5, <1>6, <1>7, <1>8

\* The topmost directories below d are those below its children, when it
\* cannot be walked itself.
LEMMA TopmostBelow ==
    ASSUME NEW here \in SUBSET FileIds, NEW d \in Dirs(here)
    PROVE  /\ InfsBelow(d, here) = {} => Topmost(d, here) = {}
           /\ InfsBelow(d, here) # {} /\ Walkable(d, here) => Topmost(d, here) = {d}
           /\ ~Walkable(d, here) =>
                \A e : e \in Topmost(d, here) <=>
                         \E x \in Dirs(here) : /\ Len(x) = Len(d) + 1 /\ IsPrefix(d, x)
                                               /\ e \in Topmost(x, here)
<1>1. \A c \in Dirs(here) : c \in Paths /\ IsPrefix(c, c) /\ Len(c) \in Nat
    BY DirsArePaths, PrefixOrder, LenProperties DEF Paths
<1>2. ASSUME InfsBelow(d, here) = {} PROVE Topmost(d, here) = {}
    <2>1. ASSUME NEW e \in Topmost(d, here) PROVE FALSE
        <3>1. e \in Dirs(here) /\ IsPrefix(d, e) /\ InfsBelow(e, here) # {}
            BY DEF Topmost
        <3>2. InfsBelow(e, here) \subseteq InfsBelow(d, here)
            BY <1>1, <3>1, LessBelow
        <3> QED
            BY <1>2, <3>1, <3>2
    <2> QED
        BY <2>1
<1>3. ASSUME InfsBelow(d, here) # {}, Walkable(d, here) PROVE Topmost(d, here) = {d}
    <2>1. d \in Topmost(d, here)
        <3>1. ASSUME NEW c \in Dirs(here), IsPrefix(d, c), IsPrefix(c, d) PROVE c = d
            <4>1. Len(c) <= Len(d) /\ Len(d) <= Len(c)
                BY <1>1, <3>1, PrefixByPlace
            <4>2. Len(c) = Len(d)
                BY <1>1, <4>1
            <4> QED
                BY <1>1, <3>1, <4>2, PrefixOrder
        <3> QED
            BY <1>1, <1>3, <3>1 DEF Topmost
    <2>2. ASSUME NEW e \in Topmost(d, here) PROVE e = d
        BY <1>1, <1>3 DEF Topmost
    <2> QED
        BY <2>1, <2>2
<1>4. ASSUME ~Walkable(d, here), NEW e \in Topmost(d, here)
      PROVE  \E x \in Dirs(here) : /\ Len(x) = Len(d) + 1 /\ IsPrefix(d, x)
                                   /\ e \in Topmost(x, here)
    <2>1. e \in Dirs(here) /\ IsPrefix(d, e) /\ Walkable(e, here)
        BY DEF Topmost
    <2>2. d # e
        BY <1>4, <2>1
    <2>3. PICK x \in Dirs(here) : Len(x) = Len(d) + 1 /\ IsPrefix(d, x) /\ IsPrefix(x, e)
        BY <2>1, <2>2, Child
    <2>4. ASSUME NEW c \in Dirs(here), IsPrefix(x, c) PROVE IsPrefix(d, c)
        BY <1>1, <2>3, <2>4, PrefixOrder
    <2>5. e \in Topmost(x, here)
        BY <2>3, <2>4 DEF Topmost
    <2> QED
        BY <2>3, <2>5
<1>5. ASSUME ~Walkable(d, here), NEW x \in Dirs(here), Len(x) = Len(d) + 1,
             IsPrefix(d, x), NEW e \in Topmost(x, here)
      PROVE  e \in Topmost(d, here)
    <2>1. /\ e \in Dirs(here) /\ IsPrefix(x, e) /\ Walkable(e, here)
          /\ InfsBelow(e, here) # {}
        BY DEF Topmost
    <2>2. IsPrefix(d, e)
        BY <1>1, <1>5, <2>1, PrefixOrder
    <2>3. ASSUME NEW c \in Dirs(here), IsPrefix(d, c), IsPrefix(c, e), Walkable(c, here)
          PROVE  c = e
        <3>1. c # d
            BY <1>5, <2>3
        <3>2. Len(d) <= Len(c) /\ Len(d) # Len(c)
            BY <1>1, <2>3, <3>1, PrefixOrder, PrefixByPlace
        <3>3. Len(x) <= Len(c)
            BY <1>1, <1>5, <3>2
        <3>4. IsPrefix(x, c)
            BY <1>1, <2>1, <2>3, <3>3, PrefixOrder
        <3> QED
            BY <2>3, <3>4 DEF Topmost
    <2> QED
        BY <2>1, <2>2, <2>3 DEF Topmost
<1> QED
    BY <1>2, <1>3, <1>4, <1>5

\* The topmost directories are a descent.
LEMMA TopmostIsDescent ==
    ASSUME NEW here \in SUBSET FileIds
    PROVE  Descent([d \in Dirs(here) |-> Topmost(d, here)], here)
<1> DEFINE g == [d \in Dirs(here) |-> Topmost(d, here)]
           Under(d) == {x \in Dirs(here) : Len(x) = Len(d) + 1 /\ IsPrefix(d, x)}
           Found(d) == IF InfsBelow(d, here) = {} THEN {}
                       ELSE IF Walkable(d, here) THEN {d}
                       ELSE UNION {g[c] : c \in Under(d)}
<1>1. ASSUME NEW d \in Dirs(here) PROVE Topmost(d, here) = Found(d)
    <2>1. CASE InfsBelow(d, here) = {}
        BY <2>1, TopmostBelow
    <2>2. CASE InfsBelow(d, here) # {} /\ Walkable(d, here)
        BY <2>2, TopmostBelow
    <2>3. CASE InfsBelow(d, here) # {} /\ ~Walkable(d, here)
        <3>1. \A c \in Under(d) : g[c] = Topmost(c, here)
            OBVIOUS
        <3>2. \A e : e \in Topmost(d, here) <=> \E c \in Under(d) : e \in g[c]
            <4>1. \A e : e \in Topmost(d, here) <=> \E c \in Under(d) : e \in Topmost(c, here)
                BY <2>3, TopmostBelow
            <4> HIDE DEF g, Under
            <4> QED
                BY <3>1, <4>1
        <3>3. \A e : e \in UNION {g[c] : c \in Under(d)} <=> \E c \in Under(d) : e \in g[c]
            <4> HIDE DEF g, Under
            <4> QED
                OBVIOUS
        <3>4. Topmost(d, here) = UNION {g[c] : c \in Under(d)}
            <4> HIDE DEF g, Under
            <4> QED
                BY <3>2, <3>3
        <3> HIDE DEF g, Under
        <3> QED
            BY <2>3, <3>4
    <2> QED
        BY <2>1, <2>2, <2>3
<1>2. g = [d \in Dirs(here) |-> Found(d)]
    <2> HIDE DEF Found
    <2> QED
        BY <1>1
<1> QED
    BY <1>2 DEF Descent

\* There is one descent.
LEMMA OneDescent ==
    ASSUME NEW here \in SUBSET FileIds, NEW f, NEW g, Descent(f, here), Descent(g, here)
    PROVE  \A d \in Dirs(here) : f[d] = g[d]
<1> DEFINE Under(d) == {x \in Dirs(here) : Len(x) = Len(d) + 1 /\ IsPrefix(d, x)}
<1>1. PICK m \in Nat : \A i \in FileIds : Len(Dir(i)) < m
    BY DepthIsBounded
<1>2. ASSUME NEW d \in Dirs(here) PROVE Len(d) \in Nat /\ Len(d) <= m
    <2>1. d \in Paths /\ Len(d) \in Nat
        BY DirsArePaths, LenProperties DEF Paths
    <2>2. CASE d = <<>>
        BY <2>1, <2>2
    <2>3. CASE d # <<>>
        <3>0. PICK i \in here : \E k \in 0..Len(Dir(i)) : d = SubSeq(Dir(i), 1, k)
            BY <2>3, StartsOfFiles
        <3>1. PICK k \in 0..Len(Dir(i)) : d = SubSeq(Dir(i), 1, k)
            BY <3>0
        <3>2. Len(d) = k /\ Len(Dir(i)) \in Nat /\ Len(Dir(i)) < m
            BY <1>1, <3>1, FileTypes, Cut, LenProperties DEF Paths
        <3> QED
            BY <2>1, <3>2
    <2> QED
        BY <2>2, <2>3
<1> DEFINE U == {n \in Nat : \A d \in Dirs(here) : Len(d) + n > m => f[d] = g[d]}
<1>3. 0 \in U
    BY <1>2
<1>4. ASSUME NEW n \in U PROVE n + 1 \in U
    <2>0. n \in Nat
        OBVIOUS
    <2>1. ASSUME NEW d \in Dirs(here), Len(d) + (n + 1) > m PROVE f[d] = g[d]
        <3>1. ASSUME NEW c \in Under(d) PROVE f[c] = g[c]
            <4>1. Len(c) + n > m
                BY <1>1, <1>2, <2>0, <2>1
            <4> QED
                BY <4>1
        <3>2. {f[c] : c \in Under(d)} = {g[c] : c \in Under(d)}
            <4> HIDE DEF Under
            <4> QED
                BY <3>1
        <3>3. f[d] = IF InfsBelow(d, here) = {} THEN {}
                     ELSE IF Walkable(d, here) THEN {d} ELSE UNION {f[c] : c \in Under(d)}
            BY DEF Descent
        <3>4. g[d] = IF InfsBelow(d, here) = {} THEN {}
                     ELSE IF Walkable(d, here) THEN {d} ELSE UNION {g[c] : c \in Under(d)}
            BY DEF Descent
        <3> HIDE DEF Under
        <3> QED
            BY <3>2, <3>3, <3>4
    <2> QED
        BY <2>0, <2>1
<1>5. U = Nat
    <2> HIDE DEF U
    <2>1. U \in SUBSET Nat
        BY DEF U
    <2> QED
        BY <1>3, <1>4, <2>1, SetInduction
<1>6. m + 1 \in U
    <2> HIDE DEF U
    <2> QED
        BY <1>5
<1> QED
    BY <1>2, <1>6

\* What _setup_tree finds is the topmost directories that can be walked.
LEMMA DescendIsTopmost ==
    ASSUME NEW here \in SUBSET FileIds
    PROVE  Descend(here) = Topmost(<<>>, here)
<1> DEFINE g == [d \in Dirs(here) |-> Topmost(d, here)]
           f == CHOOSE h : Descent(h, here)
<1>1. Descent(g, here)
    BY TopmostIsDescent
<1>2. Descent(f, here)
    BY <1>1, Zenon
<1>3. Descend(here) = f[<<>>]
    BY DEF Descend, Descent
<1>4. f[<<>>] = g[<<>>]
    <2> HIDE DEF f, g
    <2>1. \A d \in Dirs(here) : f[d] = g[d]
        BY <1>1, <1>2, OneDescent
    <2>2. <<>> \in Dirs(here)
        BY DirsArePaths
    <2> QED
        BY <2>1, <2>2
<1> QED
    BY <1>3, <1>4, DirsArePaths

\* A directory that can be walked and has a .inf is in a topmost one.
LEMMA TopmostAbove ==
    ASSUME NEW here \in SUBSET FileIds, NEW d \in Dirs(here), Walkable(d, here),
           InfsBelow(d, here) # {}
    PROVE  \E e \in Topmost(<<>>, here) : IsPrefix(e, d)
<1>1. \A c \in Dirs(here) : /\ c \in Paths /\ Len(c) \in Nat
                            /\ IsPrefix(<<>>, c) /\ IsPrefix(c, c)
    BY DirsArePaths, PrefixOrder, LenProperties DEF Paths
<1> DEFINE Above == {c \in Dirs(here) : IsPrefix(c, d) /\ Walkable(c, here)}
           Lens == {Len(c) : c \in Above}
<1>2. PICK m \in Lens : \A k \in Lens : m <= k
    <2>1. Lens \in SUBSET Nat /\ Len(d) \in Lens
        BY <1>1
    <2> HIDE DEF Lens
    <2> QED
        BY <2>1, Least
<1>3. PICK e \in Above : Len(e) = m
    OBVIOUS
<1>4. \A c \in Above : Len(e) <= Len(c)
    BY <1>2, <1>3
<1>5. e \in Dirs(here) /\ IsPrefix(e, d) /\ Walkable(e, here)
    OBVIOUS
<1>6. InfsBelow(e, here) # {}
    <2>1. InfsBelow(d, here) \subseteq InfsBelow(e, here)
        BY <1>1, <1>5, LessBelow
    <2> QED
        BY <2>1
<1>7. ASSUME NEW c \in Dirs(here), IsPrefix(c, e), Walkable(c, here) PROVE c = e
    <2>1. IsPrefix(c, d)
        BY <1>1, <1>5, <1>7, PrefixOrder
    <2>2. Len(e) <= Len(c)
        BY <1>4, <1>7, <2>1
    <2>3. Len(c) <= Len(e)
        BY <1>1, <1>5, <1>7, PrefixByPlace
    <2>4. Len(c) = Len(e)
        BY <1>1, <1>5, <2>2, <2>3
    <2> QED
        BY <1>1, <1>5, <1>7, <2>4, PrefixOrder
<1>8. e \in Topmost(<<>>, here)
    BY <1>1, <1>5, <1>6, <1>7 DEF Topmost
<1> QED
    BY <1>5, <1>8

\* A .inf is in a folder that _setup_tree finds when what is beside it and
\* below it is complete, and only then.
LEMMA GoodIsFound ==
    ASSUME NEW here \in SUBSET FileIds, NEW i \in InfsBelow(<<>>, here)
    PROVE  (\A j \in InfsBelow(Dir(i), here) : InfComplete(j, here))
             <=> \E d \in Descend(here) : IsPrefix(d, Dir(i))
<1>1. i \in here /\ IsInf(i)
    BY DEF InfsBelow, Below
<1>2. Dir(i) \in Dirs(here) /\ Dir(i) \in Paths /\ IsPrefix(Dir(i), Dir(i))
    BY <1>1, DirsArePaths, PrefixOrder
<1>3. i \in InfsBelow(Dir(i), here)
    BY <1>1, <1>2 DEF InfsBelow, Below
<1>4. Descend(here) = Topmost(<<>>, here)
    BY DescendIsTopmost
<1>5. ASSUME Walkable(Dir(i), here) PROVE \E d \in Descend(here) : IsPrefix(d, Dir(i))
    BY <1>2, <1>3, <1>4, <1>5, TopmostAbove
<1>6. ASSUME NEW d \in Descend(here), IsPrefix(d, Dir(i)) PROVE Walkable(Dir(i), here)
    <2>1. d \in Dirs(here) /\ Walkable(d, here)
        BY <1>4 DEF Topmost
    <2>2. d \in Paths
        BY <2>1, DirsArePaths
    <2> QED
        BY <1>2, <1>6, <2>1, <2>2, LessBelow
<1> QED
    BY <1>5, <1>6 DEF Walkable

-----------------------------------------------------------------------------
\* The files are some of Files, and what is offered is one of the modes.
LibraryOK ==
    /\ present \subseteq FileIds /\ exists \subseteq ToSet(Folders)
    /\ DOMAIN flags = ToSet(Folders)
    /\ \A f \in ToSet(Folders) : /\ "setup_offer" \in DOMAIN flags[f]
                                 /\ flags[f].setup_offer \in Offers

\* An empty library is such a one.
LEMMA InitLibraryOK == Init => LibraryOK
BY DEF Init, LibraryOK, DefaultFlags, Offers

\* The steps that leave the flags alone keep it.
LEMMA FlagsStay ==
    ASSUME LibraryOK, present' \subseteq FileIds, exists' \subseteq ToSet(Folders),
           UNCHANGED flags
    PROVE  LibraryOK'
BY DEF LibraryOK

\* A patch offers only what set_flags accepts.
LEMMA SetFlagsKeeps ==
    ASSUME LibraryOK, NEW names, NEW patch \in Patches, SetFlags(names, patch)
    PROVE  LibraryOK'
<1> DEFINE F(f) == IF f \in names \intersect exists \intersect ValidNames
                   THEN Patched(flags[f], patch) ELSE flags[f]
<1>1. flags' = [f \in DOMAIN flags |-> F(f)] /\ UNCHANGED <<exists, present, subfolders>>
    BY DEF SetFlags
<1>2. ASSUME NEW f \in ToSet(Folders)
      PROVE  "setup_offer" \in DOMAIN F(f) /\ F(f).setup_offer \in Offers
    <2>1. "setup_offer" \in DOMAIN flags[f] /\ flags[f].setup_offer \in Offers
        BY DEF LibraryOK
    <2>2. "setup_offer" \in DOMAIN patch => patch.setup_offer \in Offers
        BY InputsAssumption
    <2>3. /\ "setup_offer" \in DOMAIN Patched(flags[f], patch)
          /\ Patched(flags[f], patch).setup_offer \in Offers
        BY <2>1, <2>2 DEF Patched
    <2> QED
        BY <2>1, <2>3
<1> HIDE DEF F
<1> QED
    BY <1>1, <1>2 DEF LibraryOK

\* Excluding a file changes no other flag.
LEMMA SetExcludedKeeps ==
    ASSUME LibraryOK, NEW i, NEW out, SetExcluded(i, out)
    PROVE  LibraryOK'
<1>1. UNCHANGED <<exists, present, subfolders>> /\ DOMAIN flags' = DOMAIN flags
    BY DEF SetExcluded
<1>2. ASSUME NEW f \in ToSet(Folders)
      PROVE  "setup_offer" \in DOMAIN flags'[f] /\ flags'[f].setup_offer \in Offers
    <2>1. /\ f \in DOMAIN flags /\ "setup_offer" \in DOMAIN flags[f]
          /\ flags[f].setup_offer \in Offers
        BY DEF LibraryOK
    <2>2. PICK e : e = IF out THEN flags[Files[i].folder].excluded \union {i}
                       ELSE flags[Files[i].folder].excluded \ {i}
        OBVIOUS
    <2>3. flags'[f] = IF f = Files[i].folder THEN [flags[f] EXCEPT !.excluded = e]
                      ELSE flags[f]
        BY <2>1, <2>2 DEF SetExcluded
    <2> QED
        BY <2>1, <2>3
<1> QED
    BY <1>1, <1>2 DEF LibraryOK

\* A folder that goes leaves the default flags.
LEMMA DeleteFolderKeeps ==
    ASSUME LibraryOK, NEW f \in ToSet(Folders), DeleteFolder(f)
    PROVE  LibraryOK'
<1>1. /\ present' \subseteq present /\ exists' \subseteq exists
      /\ flags' = [flags EXCEPT ![f] = DefaultFlags]
    BY DEF DeleteFolder
<1>2. "setup_offer" \in DOMAIN DefaultFlags /\ DefaultFlags.setup_offer \in Offers
    BY DEF DefaultFlags, Offers
<1> QED
    BY <1>1, <1>2 DEF LibraryOK

\* Every step keeps the files and the modes.
LEMMA LibraryStep == LibraryOK /\ [Next]_vars => LibraryOK'
<1> SUFFICES ASSUME LibraryOK, [Next]_vars PROVE LibraryOK'
    OBVIOUS
<1>0. CASE UNCHANGED vars
    BY <1>0 DEF vars, LibraryOK
<1>1. ASSUME NEW f \in ToSet(Folders), CreateFolder(f) \/ CleanFolder(f) PROVE LibraryOK'
    BY <1>1, FlagsStay DEF CreateFolder, CleanFolder, LibraryOK
<1>2. ASSUME NEW f \in ToSet(Folders), DeleteFolder(f) PROVE LibraryOK'
    BY <1>2, DeleteFolderKeeps
<1>3. ASSUME NEW i \in Touched, ShareFile(i) \/ DeleteFile(i) PROVE LibraryOK'
    <2>1. i \in FileIds
        BY InputsAssumption
    <2>2. Files[i].folder \in ToSet(Folders)
        BY <2>1, FileTypes
    <2> QED
        BY <1>3, <2>1, <2>2, FlagsStay DEF ShareFile, DeleteFile, LibraryOK
<1>4. ASSUME NEW i \in Excludable, NEW out \in BOOLEAN, SetExcluded(i, out) PROVE LibraryOK'
    BY <1>4, SetExcludedKeeps
<1>5. ASSUME NEW names \in SUBSET ToSet(Folders), NEW patch \in Patches, SetFlags(names, patch)
      PROVE  LibraryOK'
    BY <1>5, SetFlagsKeeps
<1>6. ASSUME NEW members \in Archives,
             NEW f \in {Files[i].folder : i \in ToSet(members)},
             NEW opened \in 0..Len(members), NEW whole \in BOOLEAN,
             ExtractZip(f, members, opened, whole)
      PROVE  LibraryOK'
    <2>1. members \in Seq(FileIds)
        BY InputsAssumption
    <2>2. PICK out : out = SubSeq(members, 1, opened)
        OBVIOUS
    <2>3. ToSet(out) \subseteq FileIds
        <3>1. Len(members) \in Nat /\ \A n \in 1..Len(members) : members[n] \in FileIds
            BY <2>1, LenProperties, ElementOfSeq
        <3>2. 1 \in Int /\ opened \in Int /\ \A n \in 1..opened : members[n] \in FileIds
            BY <3>1
        <3>3. out \in Seq(FileIds)
            BY <2>2, <3>2, SubSeqProperties
        <3>4. DOMAIN out = 1..Len(out) /\ \A n \in 1..Len(out) : out[n] \in FileIds
            BY <3>3, LenProperties, ElementOfSeq
        <3> QED
            BY <3>4 DEF ToSet
    <2>4. /\ UNCHANGED flags
          /\ present' = IF whole THEN present \union ToSet(out)
                        ELSE present \ ToSet(out)
        BY <1>6, <2>2 DEF ExtractZip
    <2>5. present' \subseteq FileIds
        BY <2>3, <2>4 DEF LibraryOK
    <2>6. f \in ToSet(Folders)
        <3>1. PICK i \in ToSet(members) : f = Files[i].folder
            OBVIOUS
        <3>2. i \in FileIds
            BY <2>1, LenProperties, ElementOfSeq DEF ToSet
        <3> QED
            BY <3>1, <3>2, FileTypes
    <2>7. exists' \subseteq ToSet(Folders)
        BY <1>6, <2>6 DEF ExtractZip, LibraryOK
    <2> QED
        BY <2>4, <2>5, <2>7, FlagsStay
<1> QED
    BY <1>0, <1>1, <1>2, <1>3, <1>4, <1>5, <1>6 DEF Next

\* The library is such a one in every state that can be reached.
LEMMA LibraryInvariant == Spec => []LibraryOK
BY InitLibraryOK, LibraryStep, PTL DEF Spec

\* In such a library nothing good is lost.
LEMMA NothingLost == LibraryOK => NothingGoodIsLost
<1> SUFFICES ASSUME LibraryOK, NEW f, ~Truncated(f), NEW i \in InfsBelow(<<>>, In(f))
             PROVE  (\A j \in InfsBelow(Dir(i), In(f)) : InfComplete(j, In(f)))
                      <=> \E d \in SetupTree(f, "auto") : IsPrefix(d, Dir(i))
    BY DEF NothingGoodIsLost
<1>1. PICK here : here = In(f)
    OBVIOUS
<1>2. here \in SUBSET FileIds
    BY <1>1 DEF In, LibraryOK
<1>3. SetupTree(f, "auto") = Descend(here)
    BY <1>1 DEF SetupTree
<1> QED
    BY <1>1, <1>2, <1>3, GoodIsFound

\* Nothing that could be offered to the setup is left out, whatever the
\* library holds, of the folders that have not so many files, nor so many or so
\* deep directories, that _setup_names gives up on them.
THEOREM NothingGoodIsEverLost == Spec => []NothingGoodIsLost
BY LibraryInvariant, NothingLost, PTL

-----------------------------------------------------------------------------
(* The queue of setup_paths.                                               *)

\* What the paths of one folder are: each has a file at or below it, none is
\* above another, and the ones that were not forced can be walked.
LEMMA TreePaths ==
    ASSUME NEW f, In(f) \in SUBSET FileIds, NEW offer \in Offers,
           NEW d \in SetupTree(f, offer)
    PROVE  /\ offer # "mai" /\ d \in Paths
           /\ \E i \in In(f) : IsPrefix(d, Dir(i))
           /\ offer = "auto" => Walkable(d, In(f))
           /\ \A e \in SetupTree(f, offer) : IsPrefix(d, e) => d = e
<1> DEFINE here == In(f)
<1>1. CASE offer = "mai"
    BY <1>1 DEF SetupTree
<1>2. CASE offer = "sempre"
    <2>1. SetupTree(f, offer) = IF \A i \in here : TooDeep(Dir(i)) THEN {} ELSE {<<>>}
        BY <1>2 DEF SetupTree
    <2>2. (\E i \in here : TRUE) /\ d = <<>> /\ SetupTree(f, offer) = {<<>>}
        BY <2>1
    <2>3. PICK i \in here : TRUE
        BY <2>2
    <2>4. d \in Paths /\ Dir(i) \in Paths /\ IsPrefix(<<>>, Dir(i))
        BY <2>2, DirsArePaths, FileTypes, PrefixOrder
    <2> QED
        BY <1>2, <2>2, <2>4
<1>3. CASE offer = "auto"
    <2>1. SetupTree(f, offer) = IF Truncated(f) THEN {} ELSE Descend(here)
        BY <1>3 DEF SetupTree
    <2>2. SetupTree(f, offer) = Topmost(<<>>, here)
        BY <2>1, DescendIsTopmost
    <2>3. d \in Dirs(here) /\ InfsBelow(d, here) # {} /\ Walkable(d, here)
        BY <2>2 DEF Topmost
    <2>4. \E i \in here : IsPrefix(d, Dir(i))
        BY <2>3 DEF InfsBelow, Below
    <2>5. d \in Paths
        BY <2>3, DirsArePaths
    <2>6. ASSUME NEW e \in Topmost(<<>>, here), IsPrefix(d, e) PROVE d = e
        <3>1. IsPrefix(<<>>, d)
            BY <2>5, PrefixOrder
        <3> QED
            BY <2>3, <2>6, <3>1 DEF Topmost
    <2> QED
        BY <1>3, <2>2, <2>3, <2>4, <2>5, <2>6
<1> QED
    BY <1>1, <1>2, <1>3 DEF Offers

\* What is offered, for any image.
LEMMA OfferedPaths ==
    ASSUME LibraryOK, NEW iso, NEW p \in Offered(iso)
    PROVE  /\ p = <<p[1], p[2]>> /\ ApplyMatches(Flags(p[1]).apply_to, iso)
           /\ Flags(p[1]).setup_offer # "mai" /\ p[2] \in Paths
           /\ \E i \in FileIds : Files[i].folder = p[1] /\ IsPrefix(p[2], Dir(i))
           /\ Flags(p[1]).setup_offer = "auto" => Walkable(p[2], In(p[1]))
           /\ \A q \in Offered(iso) : p[1] = q[1] /\ IsPrefix(p[2], q[2]) => p = q
<1> DEFINE Of(f) == {f} \X SetupTree(f, Flags(f).setup_offer)
           Fs == {x \in exists \intersect ValidNames : ApplyMatches(Flags(x).apply_to, iso)}
<1>1. ASSUME NEW q \in Offered(iso)
      PROVE  /\ q = <<q[1], q[2]>> /\ q[1] \in Fs
             /\ q[2] \in SetupTree(q[1], Flags(q[1]).setup_offer)
    <2>1. PICK f \in Fs : q \in Of(f)
        <3> HIDE DEF Of, Fs
        <3>1. Offered(iso) = (UNION {Of(f) : f \in Fs}) \ TooLong
            BY Zenon DEF Offered, Of, Fs
        <3> QED
            BY <3>1
    <2>2. q = <<q[1], q[2]>> /\ q[1] = f /\ q[2] \in SetupTree(f, Flags(f).setup_offer)
        BY <2>1
    <2> HIDE DEF Of, Fs
    <2> QED
        BY <2>1, <2>2
<1>2. PICK f : f = p[1]
    OBVIOUS
<1>3. In(f) \in SUBSET FileIds
    BY DEF In, LibraryOK
<1>4. Flags(f).setup_offer \in Offers
    BY <1>1, <1>2 DEF Flags, LibraryOK
<1>5. PICK offer : offer = Flags(f).setup_offer
    OBVIOUS
<1>6. p[2] \in SetupTree(f, offer) /\ offer \in Offers
    BY <1>1, <1>2, <1>4, <1>5
<1>7. /\ offer # "mai" /\ p[2] \in Paths
      /\ \E i \in In(f) : IsPrefix(p[2], Dir(i))
      /\ offer = "auto" => Walkable(p[2], In(f))
      /\ \A e \in SetupTree(f, offer) : IsPrefix(p[2], e) => p[2] = e
    BY <1>3, <1>6, TreePaths
<1>8. \E i \in FileIds : Files[i].folder = f /\ IsPrefix(p[2], Dir(i))
    BY <1>3, <1>7 DEF In
<1>9. ASSUME NEW q \in Offered(iso), p[1] = q[1], IsPrefix(p[2], q[2]) PROVE p = q
    <2>1. q[2] \in SetupTree(f, offer)
        BY <1>1, <1>2, <1>5, <1>9
    <2>2. p[2] = q[2]
        BY <1>7, <1>9, <2>1
    <2> QED
        BY <1>1, <1>9, <2>2
<1> QED
    BY <1>1, <1>2, <1>5, <1>7, <1>8, <1>9

\* The first file of a path is one of its files.
LEMMA FirstFileIs ==
    ASSUME LibraryOK, NEW iso, NEW p \in Offered(iso)
    PROVE  /\ FirstFile(p) \in FileIds /\ Files[FirstFile(p)].folder = p[1]
           /\ IsPrefix(p[2], Dir(FirstFile(p)))
<1> DEFINE S == {i \in FileIds : Files[i].folder = p[1] /\ IsPrefix(p[2], Dir(i))}
<1>1. S # {} /\ S \in SUBSET Nat
    BY OfferedPaths, FileTypes
<1>2. \E m \in S : \A k \in S : m <= k
    <2> HIDE DEF S
    <2> QED
        BY <1>1, Least
<1>3. FirstFile(p) \in S
    <2>1. FirstFile(p) = CHOOSE x \in S : \A y \in S : x <= y
        BY DEF FirstFile, Min
    <2> HIDE DEF S
    <2> QED
        BY <1>2, <2>1
<1> QED
    BY <1>3

\* Two paths that are offered have no first file in common.
LEMMA FirstFilesDiffer ==
    ASSUME LibraryOK, NEW iso, NEW p \in Offered(iso), NEW q \in Offered(iso),
           FirstFile(p) = FirstFile(q)
    PROVE  p = q
<1>1. PICK i : i = FirstFile(p)
    OBVIOUS
<1>2. /\ i \in FileIds /\ Files[i].folder = p[1] /\ Files[i].folder = q[1]
      /\ IsPrefix(p[2], Dir(i)) /\ IsPrefix(q[2], Dir(i))
    BY <1>1, FirstFileIs
<1>3. p[2] \in Paths /\ q[2] \in Paths /\ Dir(i) \in Paths
    BY <1>2, OfferedPaths, FileTypes
<1>4. Len(p[2]) \in Nat /\ Len(q[2]) \in Nat
    BY <1>3, LenProperties DEF Paths
<1>5. Len(p[2]) <= Len(q[2]) \/ Len(q[2]) <= Len(p[2])
    BY <1>4
<1>6. IsPrefix(p[2], q[2]) \/ IsPrefix(q[2], p[2])
    BY <1>2, <1>3, <1>5, PrefixOrder
<1> QED
    BY <1>2, <1>6, OfferedPaths

\* There are finitely many paths.
LEMMA OfferedIsFinite ==
    ASSUME LibraryOK, NEW iso
    PROVE  IsFiniteSet(Offered(iso))
<1> DEFINE f == [p \in Offered(iso) |-> FirstFile(p)]
<1>1. IsFiniteSet(FileIds)
    <2>1. PICK n \in Nat : FileIds = 1..n
        BY FileTypes
    <2>2. 1 \in Int /\ n \in Int
        OBVIOUS
    <2> QED
        BY <2>1, <2>2, FS_Interval
<1>2. f \in [Offered(iso) -> FileIds]
    BY FirstFileIs
<1>3. \A p, q \in Offered(iso) : f[p] = f[q] => p = q
    BY FirstFilesDiffer
<1>4. f \in Injection(Offered(iso), FileIds)
    <2> HIDE DEF f
    <2> QED
        BY <1>2, <1>3 DEF Injection, IsInjective
<1> HIDE DEF f
<1> QED
    BY <1>1, <1>4, FS_Injection

\* Where a path is in the queue of setup_paths.
Turn(p) == Priority(p[1]) * Width + FirstFile(p)

\* No two have the same place.
LEMMA TurnsDiffer ==
    ASSUME LibraryOK, NEW iso
    PROVE  /\ \A p \in Offered(iso) : Turn(p) \in Int
           /\ \A p, q \in Offered(iso) : Turn(p) = Turn(q) => p = q
<1>1. PICK w \in Nat : w = Width /\ w = Len(Files) + 1
    BY FileTypes DEF Width
<1>2. ASSUME NEW p \in Offered(iso)
      PROVE  /\ FirstFile(p) \in 1..w - 1
             /\ Turn(p) \in {FirstFile(p), w + FirstFile(p), w + w + FirstFile(p)}
    <2>1. FirstFile(p) \in 1..w - 1
        BY <1>1, FirstFileIs, FileTypes
    <2>2. PICK x \in Int : x = FirstFile(p)
        BY <2>1
    <2>3. PICK a : a = Priority(p[1])
        OBVIOUS
    <2>4. a \in {0, 1, 2}
        BY <2>3 DEF Priority
    <2>5. Turn(p) = a * w + x
        BY <1>1, <2>2, <2>3 DEF Turn
    <2>6. a * w + x \in {x, w + x, w + w + x}
        BY <2>4
    <2> QED
        BY <2>1, <2>2, <2>5, <2>6
<1>3. ASSUME NEW p \in Offered(iso), NEW q \in Offered(iso), Turn(p) = Turn(q)
      PROVE  FirstFile(p) = FirstFile(q)
    <2>1. PICK x \in 1..w - 1 : x = FirstFile(p)
        BY <1>2
    <2>2. PICK y \in 1..w - 1 : y = FirstFile(q)
        BY <1>2
    <2>3. PICK t : t = Turn(p)
        OBVIOUS
    <2>4. t \in {x, w + x, w + w + x} /\ t \in {y, w + y, w + w + y}
        BY <1>2, <1>3, <2>1, <2>2, <2>3
    <2>5. x = y
        BY <2>4
    <2> QED
        BY <2>1, <2>2, <2>5
<1>4. ASSUME NEW p \in Offered(iso) PROVE Turn(p) \in Int
    <2>1. PICK x \in Int : x = FirstFile(p)
        BY <1>2
    <2> QED
        BY <1>2, <2>1
<1> QED
    BY <1>3, <1>4, FirstFilesDiffer

\* The queue holds the paths that are offered.
LEMMA QueueIsOffered ==
    ASSUME LibraryOK, NEW iso
    PROVE  /\ Ordered(Offered(iso), Turn) \in Seq(Offered(iso))
           /\ Len(Ordered(Offered(iso), Turn)) = Cardinality(Offered(iso))
           /\ Cardinality(Offered(iso)) \in Nat
<1> DEFINE S == Offered(iso)
           k == [p \in S |-> Turn(p)]
<1>1. k \in [S -> Int] /\ \A p, q \in S : k[p] = k[q] => p = q
    BY TurnsDiffer
<1>2. Ordered(S, Turn) = Listing(S, k)
    <2>1. {<<Turn(p), p>> : p \in S} = {<<k[p], p>> : p \in S}
        OBVIOUS
    <2> DEFINE nth(K, n) ==
                   CHOOSE p \in K : Cardinality({q \in K : q[1] < p[1]}) = n - 1
    <2>2. Ordered(S, Turn)
            = [n \in 1..Cardinality(S) |-> nth({<<Turn(p), p>> : p \in S}, n)[2]]
        <3> HIDE DEF S, k
        <3> QED
            BY Zenon DEF Ordered
    <2>3. Listing(S, k) = [n \in 1..Cardinality(S) |-> nth({<<k[p], p>> : p \in S}, n)[2]]
        <3> HIDE DEF S, k
        <3> QED
            BY Zenon DEF Listing
    <2> HIDE DEF S, k, nth
    <2> QED
        BY <2>1, <2>2, <2>3
<1>3. IsFiniteSet(S)
    BY OfferedIsFinite
<1> HIDE DEF S, k
<1>4. /\ Listing(S, k) \in Seq(S) /\ Len(Listing(S, k)) = Cardinality(S)
      /\ Cardinality(S) \in Nat
    BY <1>1, <1>3, ListingIsWhole
<1> QED
    BY <1>2, <1>4 DEF S

\* The paths that are given are some of those that are offered, as many as
\* there may be.
LEMMA PathsAreOffered ==
    ASSUME LibraryOK, NEW iso
    PROVE  /\ SetupPaths(iso) \subseteq Offered(iso)
           /\ Cardinality(SetupPaths(iso)) <= MaxSetupPaths
<1>1. PICK S : S = Offered(iso)
    OBVIOUS
<1>2. PICK queue : queue = Ordered(Offered(iso), Turn)
    OBVIOUS
<1>3. PICK c : c = Cardinality(S)
    OBVIOUS
<1>4. queue \in Seq(S) /\ Len(queue) = c /\ c \in Nat
    BY <1>1, <1>2, <1>3, QueueIsOffered
<1>5. PICK m : m = IF Len(queue) < MaxSetupPaths THEN Len(queue) ELSE MaxSetupPaths
    OBVIOUS
<1>6. m \in 0..c /\ m <= MaxSetupPaths /\ MaxSetupPaths \in Nat
    BY <1>4, <1>5, FilesAssumption
<1>7. PICK s : s = SubSeq(queue, 1, m)
    OBVIOUS
<1>8. s \in Seq(S) /\ Len(s) = m
    <2>1. \A n \in 1..m : queue[n] \in S
        BY <1>4, <1>6, ElementOfSeq
    <2>2. 1 \in Int /\ m \in Int
        BY <1>4, <1>6
    <2>3. s \in Seq(S) /\ Len(s) = IF 1 <= m THEN m - 1 + 1 ELSE 0
        BY <1>7, <2>1, <2>2, SubSeqProperties
    <2> QED
        BY <1>4, <1>6, <2>3
<1>9. SetupPaths(iso) = ToSet(s)
    <2>1. SetupPaths(iso)
            = ToSet(SubSeq(queue, 1, IF Len(queue) < MaxSetupPaths THEN Len(queue)
                                     ELSE MaxSetupPaths))
        BY <1>2 DEF SetupPaths, Turn
    <2> QED
        BY <1>5, <1>7, <2>1
<1>10. s \in [1..m -> S] /\ DOMAIN s = 1..m
    BY <1>8, LenProperties
<1>11. ToSet(s) \subseteq S
    BY <1>10 DEF ToSet
<1>12. s \in Surjection(1..m, ToSet(s))
    <2>1. s \in [1..m -> ToSet(s)]
        BY <1>10 DEF ToSet
    <2>2. \A t \in ToSet(s) : \E n \in 1..m : s[n] = t
        BY <1>10 DEF ToSet
    <2> QED
        BY <2>1, <2>2 DEF Surjection
<1>13. IsFiniteSet(1..m) /\ Cardinality(1..m) = m
    <2>1. 1 \in Int /\ m \in Int /\ m \in Nat
        BY <1>4, <1>6
    <2>2. IsFiniteSet(1..m) /\ Cardinality(1..m) = IF 1 > m THEN 0 ELSE m - 1 + 1
        BY <2>1, FS_Interval
    <2> QED
        BY <2>1, <2>2
<1>14. Cardinality(ToSet(s)) <= m /\ Cardinality(ToSet(s)) \in Nat
    BY <1>12, <1>13, FS_Surjection, FS_CardinalityType
<1>15. Cardinality(ToSet(s)) <= MaxSetupPaths
    BY <1>4, <1>6, <1>14
<1> QED
    BY <1>1, <1>9, <1>11, <1>15

\* In such a library the setup meets no broken .inf.
LEMMA NoBroken == LibraryOK => SetupMeetsNoBroken
<1> SUFFICES ASSUME LibraryOK, NEW iso \in Isos \union {Preview}
             PROVE
        /\ Cardinality(SetupPaths(iso)) <= MaxSetupPaths
        /\ \A p \in SetupPaths(iso) :
              /\ Flags(p[1]).setup_offer # "mai" /\ ApplyMatches(Flags(p[1]).apply_to, iso)
              /\ Flags(p[1]).setup_offer = "auto" =>
                     \A i \in In(p[1]) :
                         (IsInf(i) /\ IsPrefix(p[2], Dir(i))) =>
                             \A n \in Promised(i) :
                                 \E j \in In(p[1]) : Name(j) = n /\ IsPrefix(Dir(i), Dir(j))
              /\ \A q \in SetupPaths(iso) \ {p} : p[1] = q[1] => ~IsPrefix(p[2], q[2])
    BY Zenon DEF SetupMeetsNoBroken
<1>1. SetupPaths(iso) \subseteq Offered(iso) /\ Cardinality(SetupPaths(iso)) <= MaxSetupPaths
    BY PathsAreOffered
<1>2. ASSUME NEW p \in SetupPaths(iso)
      PROVE  /\ Flags(p[1]).setup_offer # "mai" /\ ApplyMatches(Flags(p[1]).apply_to, iso)
             /\ \A q \in SetupPaths(iso) \ {p} : p[1] = q[1] => ~IsPrefix(p[2], q[2])
             /\ Flags(p[1]).setup_offer = "auto" => Walkable(p[2], In(p[1]))
    <2>1. p \in Offered(iso)
        BY <1>1
    <2> QED
        BY <1>1, <2>1, OfferedPaths
<1>3. ASSUME NEW p \in SetupPaths(iso), Flags(p[1]).setup_offer = "auto",
             NEW i \in In(p[1]), IsInf(i), IsPrefix(p[2], Dir(i)), NEW n \in Promised(i)
      PROVE  \E j \in In(p[1]) : Name(j) = n /\ IsPrefix(Dir(i), Dir(j))
    <2>1. Walkable(p[2], In(p[1]))
        BY <1>2, <1>3
    <2>2. InfComplete(i, In(p[1]))
        BY <1>3, <2>1 DEF Walkable, InfsBelow, Below
    <2>3. n \in {Name(j) : j \in Below(Dir(i), In(p[1]))}
        BY <2>2 DEF InfComplete
    <2>4. PICK j \in Below(Dir(i), In(p[1])) : n = Name(j)
        BY <2>3
    <2> QED
        BY <2>4 DEF Below
<1> QED
    BY <1>1, <1>2, <1>3

\* The setup never meets a .inf that lacks a file, whatever the library holds.
THEOREM NoBrokenIsMet == Spec => []SetupMeetsNoBroken
BY LibraryInvariant, NoBroken, PTL

-----------------------------------------------------------------------------
(* What is injected in WinPE: the orders, the files of a folder, and the   *)
(* two passes of winpe_inject_files.                                       *)

\* Of two keys in one number, neither is lost.
LEMMA TwoKeys ==
    ASSUME NEW w \in Nat, NEW a \in Int, NEW b \in Int, NEW x \in 1..w - 1, NEW y \in 1..w - 1,
           a * w + x = b * w + y
    PROVE  a = b /\ x = y
<1>1. ASSUME NEW c \in Int, NEW d \in Int, NEW u \in 1..w - 1, NEW v \in 1..w - 1, c < d
      PROVE  c * w + u < d * w + v
    <2>1. PICK k \in Nat : d = c + 1 + k
        <3>1. d - c - 1 \in Nat /\ d = c + 1 + (d - c - 1)
            BY <1>1
        <3> QED
            BY <3>1
    <2>2. d * w = c * w + w + k * w
        BY <2>1
    <2>3. c * w \in Int /\ d * w \in Int /\ k * w \in Nat
        OBVIOUS
    <2>4. PICK p \in Int : p = c * w
        BY <2>3
    <2>5. PICK q \in Nat : q = k * w
        BY <2>3
    <2>6. d * w = p + w + q
        BY <2>2, <2>4, <2>5
    <2>7. p + u < p + w + q + v
        OBVIOUS
    <2> QED
        BY <2>4, <2>6, <2>7
<1>2. ~(a < b)
    <2>1. a < b => a * w + x < b * w + y
        BY <1>1
    <2>2. a * w + x \in Int
        OBVIOUS
    <2> QED
        BY <2>1, <2>2
<1>3. ~(b < a)
    <2>1. b < a => b * w + y < a * w + x
        BY <1>1
    <2>2. a * w + x \in Int
        OBVIOUS
    <2> QED
        BY <2>1, <2>2
<1>4. a = b
    BY <1>2, <1>3
<1>5. PICK p \in Int : p = a * w
    OBVIOUS
<1>6. p + x = p + y
    BY <1>4, <1>5
<1> QED
    BY <1>4, <1>6

\* The files, their ranks and the places of their folders are numbers.
LEMMA FileNumbers ==
    /\ Width \in Nat /\ IsFiniteSet(FileIds) /\ FileIds = 1..Width - 1
    /\ \A i \in FileIds : /\ Rank(i) \in Nat /\ Place(Files[i].folder) \in Nat
                          /\ Files[i].size \in Nat /\ Files[i].folder \in ToSet(Folders)
<1>1. Len(Files) \in Nat /\ FileIds = 1..Len(Files)
    BY FileTypes
<1>2. Width \in Nat /\ Width - 1 = Len(Files)
    BY <1>1 DEF Width
<1>3. IsFiniteSet(FileIds)
    <2>1. PICK n \in Nat : n = Len(Files)
        BY <1>1
    <2>2. 1 \in Int /\ n \in Int
        OBVIOUS
    <2> QED
        BY <1>1, <2>1, <2>2, FS_Interval
<1>4. ASSUME NEW i \in FileIds
      PROVE  /\ Rank(i) \in Nat /\ Place(Files[i].folder) \in Nat
             /\ Files[i].size \in Nat /\ Files[i].folder \in ToSet(Folders)
    <2>1. Dir(i) \in Paths /\ Files[i].folder \in ToSet(Folders)
        BY FileTypes
    <2>2. Len(Dir(i)) \in Nat
        BY <2>1, LenProperties DEF Paths
    <2>3. Rank(i) \in Nat
        <3>1. PICK n \in Nat : n = Len(Dir(i))
            BY <2>2
        <3>2. 2 + n \in Nat
            OBVIOUS
        <3> QED
            BY <3>1, <3>2 DEF Rank
    <2>4. Place(Files[i].folder) \in Nat
        <3>1. DOMAIN Folders \in SUBSET Nat
            <4>1. Folders \in Seq(STRING)
                BY FilesAssumption
            <4>2. DOMAIN Folders = 1..Len(Folders) /\ Len(Folders) \in Nat
                BY <4>1, LenProperties
            <4> QED
                BY <4>2
        <3>2. \E k \in DOMAIN Folders : Folders[k] = Files[i].folder
            BY <2>1 DEF ToSet
        <3>3. Place(Files[i].folder) \in DOMAIN Folders
            BY <3>2 DEF Place
        <3> QED
            BY <3>1, <3>3
    <2>5. Files[i].size \in Nat
        <3>1. Files[i] \in [folder : ToSet(Folders), dir : Seq(STRING), name : STRING,
                            size : Nat, copied : SUBSET STRING, services : SUBSET STRING,
                            catalogue : SUBSET STRING]
            BY FilesAssumption, ElementOfSeq, <1>1
        <3> QED
            BY <3>1
    <2> QED
        BY <2>1, <2>3, <2>4, <2>5
<1> QED
    BY <1>1, <1>2, <1>3, <1>4

\* Two files are never preferred alike, nor injected at once.
LEMMA OrdersTell ==
    /\ \A i \in FileIds : Preference(i) \in Nat /\ InjectOrder(i) \in Nat
    /\ \A i, j \in FileIds : Preference(i) = Preference(j) => i = j
    /\ \A i, j \in FileIds : InjectOrder(i) = InjectOrder(j) => i = j
<1> DEFINE First(i) == (IF IsInf(i) /\ Missing(i) # {} THEN 1000 ELSE 0) + Rank(i)
           Second(i) == Place(Files[i].folder) * 1000 + Rank(i)
<1>1. PICK w \in Nat : w = Width
    BY FileNumbers
<1>2. ASSUME NEW i \in FileIds
      PROVE  /\ i \in 1..w - 1 /\ First(i) \in Nat /\ Second(i) \in Nat
             /\ Preference(i) = First(i) * w + i /\ InjectOrder(i) = Second(i) * w + i
    <2>1. PICK r \in Nat : r = Rank(i)
        BY FileNumbers
    <2>2. PICK p \in Nat : p = Place(Files[i].folder)
        BY FileNumbers
    <2>3. First(i) \in Nat /\ Second(i) \in Nat
        BY <2>1, <2>2
    <2> HIDE DEF First, Second
    <2>4. i \in 1..w - 1
        BY <1>1, FileNumbers
    <2>5. Preference(i) = First(i) * w + i
        BY <1>1 DEF Preference, First
    <2>6. InjectOrder(i) = Second(i) * w + i
        BY <1>1 DEF InjectOrder, Second
    <2> QED
        BY <2>3, <2>4, <2>5, <2>6
<1> HIDE DEF First, Second
<1>3. ASSUME NEW i \in FileIds PROVE Preference(i) \in Nat /\ InjectOrder(i) \in Nat
    <2>1. PICK a \in Nat : a = First(i)
        BY <1>2
    <2>2. PICK b \in Nat : b = Second(i)
        BY <1>2
    <2>3. a * w + i \in Nat /\ b * w + i \in Nat
        <3>1. a * w \in Nat /\ b * w \in Nat /\ i \in Nat
            BY <1>2
        <3> QED
            BY <3>1
    <2> QED
        BY <1>2, <2>1, <2>2, <2>3
<1>4. ASSUME NEW i \in FileIds, NEW j \in FileIds, Preference(i) = Preference(j) PROVE i = j
    BY <1>2, <1>4, TwoKeys
<1>5. ASSUME NEW i \in FileIds, NEW j \in FileIds, InjectOrder(i) = InjectOrder(j) PROVE i = j
    BY <1>2, <1>5, TwoKeys
<1> QED
    BY <1>3, <1>4, <1>5

\* Nor are two of the pairs that the .inf files ask for.
LEMMA AskOrderTells ==
    /\ \A p \in FileIds \X FileIds : AskOrder(p) \in Int
    /\ \A p, q \in FileIds \X FileIds : AskOrder(p) = AskOrder(q) => p = q
<1> DEFINE Bit(p) == IF Name(p[2]) \in WinpeNames THEN 0 ELSE 1
           Key(p) == InjectOrder(p[1]) * 2 + Bit(p)
<1>1. PICK w \in Nat : w = Width
    BY FileNumbers
<1>2. ASSUME NEW p \in FileIds \X FileIds
      PROVE  /\ p[1] \in FileIds /\ p[2] \in FileIds /\ p = <<p[1], p[2]>>
             /\ p[2] \in 1..w - 1 /\ InjectOrder(p[1]) \in Nat /\ Key(p) \in Int
             /\ AskOrder(p) = Key(p) * w + p[2]
    <2>1. p[1] \in FileIds /\ p[2] \in FileIds /\ p = <<p[1], p[2]>>
        OBVIOUS
    <2>2. p[2] \in 1..w - 1
        BY <1>1, <2>1, FileNumbers
    <2>3. PICK o \in Nat : o = InjectOrder(p[1])
        BY <2>1, OrdersTell
    <2>4. Key(p) \in Int
        BY <2>3
    <2>5. AskOrder(p) = Key(p) * w + p[2]
        BY <1>1 DEF AskOrder
    <2> QED
        BY <2>1, <2>2, <2>3, <2>4, <2>5
<1>3. ASSUME NEW p \in FileIds \X FileIds PROVE AskOrder(p) \in Int
    <2> HIDE DEF Key
    <2>1. PICK k \in Int : k = Key(p)
        BY <1>2
    <2>2. PICK x \in Int : x = p[2]
        BY <1>2
    <2>3. k * w + x \in Int
        OBVIOUS
    <2> QED
        BY <1>2, <2>1, <2>2, <2>3
<1>4. ASSUME NEW p \in FileIds \X FileIds, NEW q \in FileIds \X FileIds,
             AskOrder(p) = AskOrder(q)
      PROVE  p = q
    <2>1. Key(p) = Key(q) /\ p[2] = q[2]
        <3> HIDE DEF Key
        <3> QED
            BY <1>2, <1>4, TwoKeys
    <2>2. Bit(p) = Bit(q)
        BY <2>1
    <2>3. PICK o \in Nat : o = InjectOrder(p[1])
        BY <1>2
    <2>4. PICK u \in Nat : u = InjectOrder(q[1])
        BY <1>2
    <2>5. PICK b \in {0, 1} : b = Bit(p)
        OBVIOUS
    <2>6. o * 2 + b = u * 2 + b
        BY <2>1, <2>2, <2>3, <2>4, <2>5
    <2>7. o = u
        BY <2>6
    <2>8. p[1] = q[1]
        BY <1>2, <2>3, <2>4, <2>7, OrdersTell
    <2> QED
        BY <1>2, <2>1, <2>8
<1> QED
    BY <1>3, <1>4

\* What is injected from a folder, and the lists of the three folds.
LEMMA FolderFiles ==
    ASSUME LibraryOK, NEW f
    PROVE  /\ In(f) \subseteq FileIds /\ Usable(f) \subseteq In(f)
           /\ Infs(f) \subseteq Usable(f) /\ Candidates(f) \subseteq Usable(f)
           /\ Candidates(f) \subseteq Injectable(f) /\ Injectable(f) \subseteq Usable(f)
           /\ \A i \in In(f) : Files[i].folder = f /\ OwnFiles(i) \subseteq Injectable(f)
<1>1. In(f) \subseteq FileIds
    BY DEF LibraryOK, In
<1>2. \A i \in In(f) : Files[i].folder = f
    BY DEF In
<1>3. \A i \in In(f) : OwnFiles(i) \subseteq Injectable(f)
    BY <1>2 DEF OwnFiles
<1> QED
    BY <1>1, <1>2, <1>3 DEF Usable, Infs, Candidates, Injectable

\* The preferred candidate of a name is a candidate of that name.
LEMMA FirstChoiceIs ==
    ASSUME LibraryOK, NEW f, NEW n \in DOMAIN FirstChoice(f)
    PROVE  FirstChoice(f)[n] \in Candidates(f)
<1> DEFINE cand == {<<Preference(i), i>> : i \in Candidates(f)}
           first(m) == CHOOSE p \in cand : /\ Name(p[2]) = m
                                           /\ \A q \in cand : Name(q[2]) = m => p[1] <= q[1]
           keys == {Preference(i) : i \in {j \in Candidates(f) : Name(j) = n}}
<1>1. FirstChoice(f) = [m \in {Name(i) : i \in Candidates(f)} |-> first(m)[2]]
    BY Zenon DEF FirstChoice
<1>2. n \in {Name(i) : i \in Candidates(f)}
    <2> HIDE DEF first
    <2> QED
        BY <1>1
<1>3. Candidates(f) \subseteq FileIds
    BY FolderFiles
<1>4. keys # {} /\ keys \in SUBSET Nat
    BY <1>2, <1>3, OrdersTell
<1>5. PICK k \in keys : \A l \in keys : k <= l
    <2> HIDE DEF keys
    <2> QED
        BY <1>4, Least
<1>6. PICK i \in Candidates(f) : Name(i) = n /\ Preference(i) = k
    OBVIOUS
<1>7. PICK p : p = <<Preference(i), i>>
    OBVIOUS
<1>8. p \in cand /\ Name(p[2]) = n /\ \A q \in cand : Name(q[2]) = n => p[1] <= q[1]
    <2>1. \A q \in cand : Name(q[2]) = n => q[1] \in keys
        OBVIOUS
    <2> QED
        BY <1>5, <1>6, <1>7, <2>1
<1>9. first(n) \in cand
    <2> HIDE DEF cand
    <2> QED
        BY <1>8
<1>10. first(n)[2] \in Candidates(f)
    <2>1. \A q \in cand : q[2] \in Candidates(f)
        OBVIOUS
    <2> HIDE DEF cand, first
    <2> QED
        BY <1>9, <2>1
<1> HIDE DEF first
<1> QED
    BY <1>1, <1>2, <1>10

\* The .inf files of a folder in the order of preference.
LEMMA InfsInOrder ==
    ASSUME LibraryOK, NEW f
    PROVE  Ordered(Infs(f), Preference) \in Seq(Infs(f))
<1> DEFINE S == Infs(f)
           k == [i \in S |-> Preference(i)]
<1>1. S \subseteq FileIds
    BY FolderFiles
<1>2. k \in [S -> Int] /\ \A i, j \in S : k[i] = k[j] => i = j
    BY <1>1, OrdersTell
<1>3. IsFiniteSet(S)
    BY <1>1, FileNumbers, FS_Subset
<1>4. Ordered(S, Preference) = Listing(S, k)
    <2>1. {<<Preference(i), i>> : i \in S} = {<<k[i], i>> : i \in S}
        OBVIOUS
    <2> DEFINE nth(K, n) ==
                   CHOOSE p \in K : Cardinality({q \in K : q[1] < p[1]}) = n - 1
    <2>2. Ordered(S, Preference)
            = [n \in 1..Cardinality(S) |-> nth({<<Preference(i), i>> : i \in S}, n)[2]]
        <3> HIDE DEF S, k
        <3> QED
            BY Zenon DEF Ordered
    <2>3. Listing(S, k) = [n \in 1..Cardinality(S) |-> nth({<<k[i], i>> : i \in S}, n)[2]]
        <3> HIDE DEF S, k
        <3> QED
            BY Zenon DEF Listing
    <2> HIDE DEF S, k, nth
    <2> QED
        BY <2>1, <2>2, <2>3
<1> HIDE DEF S, k
<1>5. Listing(S, k) \in Seq(S)
    BY <1>2, <1>3, ListingIsWhole
<1> QED
    BY <1>4, <1>5 DEF S

\* A set of files in the order in which they are injected.
LEMMA FilesInOrder ==
    ASSUME NEW S \in SUBSET FileIds
    PROVE  Ordered(S, InjectOrder) \in Seq(S)
<1> DEFINE k == [i \in S |-> InjectOrder(i)]
<1>2. k \in [S -> Int] /\ \A i, j \in S : k[i] = k[j] => i = j
    BY OrdersTell
<1>3. IsFiniteSet(S)
    BY FileNumbers, FS_Subset
<1>4. Ordered(S, InjectOrder) = Listing(S, k)
    <2>1. {<<InjectOrder(i), i>> : i \in S} = {<<k[i], i>> : i \in S}
        OBVIOUS
    <2> DEFINE nth(K, n) ==
                   CHOOSE p \in K : Cardinality({q \in K : q[1] < p[1]}) = n - 1
    <2>2. Ordered(S, InjectOrder)
            = [n \in 1..Cardinality(S) |-> nth({<<InjectOrder(i), i>> : i \in S}, n)[2]]
        <3> HIDE DEF k
        <3> QED
            BY Zenon DEF Ordered
    <2>3. Listing(S, k) = [n \in 1..Cardinality(S) |-> nth({<<k[i], i>> : i \in S}, n)[2]]
        <3> HIDE DEF k
        <3> QED
            BY Zenon DEF Listing
    <2> HIDE DEF k, nth
    <2> QED
        BY <2>1, <2>2, <2>3
<1> HIDE DEF k
<1>5. Listing(S, k) \in Seq(S)
    BY <1>2, <1>3, ListingIsWhole
<1> QED
    BY <1>4, <1>5

\* All that the .inf files ask for, in order.
LEMMA AsksInOrder ==
    ASSUME NEW S \in SUBSET (FileIds \X FileIds)
    PROVE  \E s \in Seq(S) : s = Ordered(S, AskOrder) /\ \A p \in S : \E n \in 1..Len(s) : s[n] = p
<1> DEFINE k == [p \in S |-> AskOrder(p)]
<1>2. k \in [S -> Int] /\ \A p, q \in S : k[p] = k[q] => p = q
    BY AskOrderTells
<1>3. IsFiniteSet(S)
    BY FileNumbers, FS_Subset, FS_Product
<1>4. Ordered(S, AskOrder) = Listing(S, k)
    <2>1. {<<AskOrder(p), p>> : p \in S} = {<<k[p], p>> : p \in S}
        OBVIOUS
    <2> DEFINE nth(K, n) ==
                   CHOOSE p \in K : Cardinality({q \in K : q[1] < p[1]}) = n - 1
    <2>2. Ordered(S, AskOrder)
            = [n \in 1..Cardinality(S) |-> nth({<<AskOrder(p), p>> : p \in S}, n)[2]]
        <3> HIDE DEF k
        <3> QED
            BY Zenon DEF Ordered
    <2>3. Listing(S, k) = [n \in 1..Cardinality(S) |-> nth({<<k[p], p>> : p \in S}, n)[2]]
        <3> HIDE DEF k
        <3> QED
            BY Zenon DEF Listing
    <2> HIDE DEF k, nth
    <2> QED
        BY <2>1, <2>2, <2>3
<1> HIDE DEF k
<1>5. PICK s : s = Listing(S, k)
    OBVIOUS
<1>6. /\ s \in Seq(S) /\ Len(s) = Cardinality(S)
      /\ \A p \in S : \E n \in 1..Cardinality(S) : s[n] = p
    BY SMTT(30), <1>2, <1>3, <1>5, ListingIsWhole
<1> QED
    BY <1>4, <1>5, <1>6

\* A .inf that is followed leaves only files of the folder.
LEMMA FollowKeeps ==
    ASSUME LibraryOK, NEW f, NEW c, \A n \in DOMAIN c.chosen : c.chosen[n] \in Injectable(f),
           NEW i \in Infs(f), NEW d, d = FollowInf(c, i)
    PROVE  \A n \in DOMAIN d.chosen : d.chosen[n] \in Injectable(f)
<1> DEFINE own == {j \in OwnFiles(i) : Name(j) \notin c.blocked}
           names == {Name(j) : j \in own}
           g == [n \in DOMAIN c.chosen \union names |->
                    IF n \in names THEN CHOOSE j \in own : Name(j) = n ELSE c.chosen[n]]
<1>1. OwnFiles(i) \subseteq Injectable(f)
    BY FolderFiles
<1>2. own \subseteq Injectable(f)
    BY <1>1
<1>3. d = c \/ d.chosen = g
    <2>1. d = IF c.chosen[Name(i)] # i THEN c
              ELSE [chosen |-> g, blocked |-> c.blocked \union names]
        BY Zenon DEF FollowInf
    <2> HIDE DEF g
    <2> QED
        BY <2>1
<1>4. ASSUME NEW n \in DOMAIN g PROVE g[n] \in Injectable(f)
    <2>1. CASE n \in names
        <3>1. \E j \in own : Name(j) = n
            BY <2>1
        <3>2. g[n] = CHOOSE j \in own : Name(j) = n
            BY <1>4, <2>1
        <3> HIDE DEF own, g
        <3> QED
            BY <1>2, <3>1, <3>2
    <2>2. CASE n \notin names
        <3> HIDE DEF names
        <3> QED
            BY <1>4, <2>2
    <2> QED
        BY <2>1, <2>2
<1> HIDE DEF g
<1> QED
    BY <1>3, <1>4

\* Nothing but the files of the folder that may be is injected from it.
LEMMA MarksInjectable ==
    ASSUME LibraryOK, NEW f
    PROVE  MarkInject(f) \subseteq Injectable(f)
<1>1. PICK base : base = [chosen |-> FirstChoice(f), blocked |-> {}]
    OBVIOUS
<1>2. PICK s : s = Ordered(Infs(f), Preference)
    OBVIOUS
<1>3. s \in Seq(Infs(f)) /\ Len(s) \in Nat /\ \A k \in 1..Len(s) : s[k] \in Infs(f)
    BY <1>2, InfsInOrder, LenProperties, ElementOfSeq
<1>4. PICK g : FollowFold!Steps(g, base, s) /\ FollowFold!Folded(base, s) = g[Len(s)]
    BY <1>3, FollowFold!FoldSteps
<1>5. FollowFold!Folded(base, s) = FoldLeft(FollowInf, base, s)
    BY DEF FollowFold!Folded, FoldLeft, MapThenFoldSet, Max, FollowFold!FoldLeft,
           FollowFold!MapThenFoldSet, FollowFold!Max
<1> DEFINE Kept(c) == \A n \in DOMAIN c.chosen : c.chosen[n] \in Injectable(f)
           U == {k \in Nat : Kept(g[k])}
<1>6. 0 \in U
    <2>1. base.chosen = FirstChoice(f)
        BY <1>1
    <2>2. Kept(base)
        BY <2>1, FirstChoiceIs, FolderFiles
    <2>3. g[0] = base
        BY <1>4 DEF FollowFold!Steps
    <2> HIDE DEF Kept
    <2> QED
        BY <2>2, <2>3
<1>7. ASSUME NEW k \in Nat, k < Len(s), k \in U PROVE k + 1 \in U
    <2>1. k + 1 \in 1..Len(s) /\ (k + 1) - 1 = k /\ k + 1 \in Nat
        BY <1>3, <1>7
    <2>2. g[k + 1] = FollowInf(g[k], s[k + 1])
        BY <1>4, <2>1 DEF FollowFold!Steps
    <2>3. Kept(g[k])
        BY <1>7
    <2>4. Kept(g[k + 1])
        <3>1. s[k + 1] \in Infs(f)
            BY <1>3, <2>1
        <3> QED
            BY <2>2, <2>3, <3>1, FollowKeeps
    <2> HIDE DEF Kept
    <2> QED
        BY <2>1, <2>4
<1>8. \A k \in 0..Len(s) : k \in U
    <2> HIDE DEF U
    <2> QED
        BY <1>3, <1>6, <1>7, UpTo
<1>9. Len(s) \in U
    BY <1>3, <1>8
<1>10. PICK c : c = g[Len(s)]
    OBVIOUS
<1>11. Kept(c)
    BY <1>9, <1>10
<1>12. MarkInject(f) = {i \in In(f) : Name(i) \in DOMAIN c.chosen /\ c.chosen[Name(i)] = i}
    BY <1>1, <1>2, <1>4, <1>5, <1>10, Zenon DEF MarkInject, Keepers
<1> QED
    BY <1>11, <1>12

\* The bytes of some files.
LEMMA SizeFacts ==
    /\ Size({}) = 0
    /\ \A S \in SUBSET FileIds : Size(S) \in Nat
    /\ \A S \in SUBSET FileIds : \A T \in SUBSET S : Size(T) <= Size(S)
    /\ \A S \in SUBSET FileIds : \A i \in S : Size(S) = Files[i].size + Size(S \ {i})
<1>1. \A S : Size(S) = Sigma(S, Sizes)
    BY DEF Size, Sigma
<1>2. \A i \in FileIds : Sizes[i] = Files[i].size /\ Sizes[i] \in Nat
    BY FileNumbers DEF Sizes
<1>3. PICK f : f = Sizes
    OBVIOUS
<1>4. \A S \in SUBSET FileIds : IsFiniteSet(S) /\ \A i \in S : f[i] \in Nat
    BY <1>2, <1>3, FileNumbers, FS_Subset
<1>5. \A S : Size(S) = Sigma(S, f)
    BY <1>1, <1>3
<1>6. Size({}) = 0
    BY <1>5, SigmaEmpty
<1>7. ASSUME NEW S \in SUBSET FileIds PROVE Size(S) \in Nat
    BY <1>4, <1>5, SigmaNat
<1>8. ASSUME NEW S \in SUBSET FileIds, NEW T \in SUBSET S PROVE Size(T) <= Size(S)
    BY <1>4, <1>5, SigmaMore
<1>9. ASSUME NEW S \in SUBSET FileIds, NEW i \in S
      PROVE  Size(S) = Files[i].size + Size(S \ {i})
    <2>1. Sigma(S, f) = f[i] + Sigma(S \ {i}, f)
        BY <1>4, SigmaRemove
    <2>2. f[i] = Files[i].size
        BY <1>2, <1>3
    <2> QED
        BY <1>5, <2>1, <2>2
<1> QED
    BY <1>6, <1>7, <1>8, <1>9

\* What is to be injected so far, all of it from A: each file under its own
\* name, with the bytes that are counted, within those allowed.
Taken(o) == {o.out[n] : n \in DOMAIN o.out}
PutOK(o, A) ==
    /\ o = [out |-> o.out, total |-> o.total, blocked |-> o.blocked]
    /\ \A n \in DOMAIN o.out : o.out[n] \in A /\ Name(o.out[n]) = n
    /\ o.total = Size(Taken(o)) /\ o.total <= MaxInject

\* One more file: it takes the place of the one of that name, and the bytes
\* are counted again.
LEMMA PutKeeps ==
    ASSUME NEW A \in SUBSET FileIds, NEW o, PutOK(o, A), NEW i \in A, NEW r, r = Put(o, i)
    PROVE  /\ PutOK(r, A) /\ r.blocked = o.blocked
           /\ \A n \in DOMAIN o.out : n # Name(i) => n \in DOMAIN r.out /\ r.out[n] = o.out[n]
           /\ Size(A) <= MaxInject => Name(i) \in DOMAIN r.out /\ r.out[Name(i)] = i
<1> DEFINE n == Name(i)
           there == n \in DOMAIN o.out
           total == o.total + Files[i].size - (IF there THEN Files[o.out[n]].size ELSE 0)
           out == [m \in DOMAIN o.out \union {n} |-> IF m = n THEN i ELSE o.out[m]]
           New == {out[m] : m \in DOMAIN out}
<1>1. r = IF total > MaxInject THEN o
          ELSE [o EXCEPT !.out = out, !.total = total]
    BY Zenon DEF Put
<1>2. CASE total > MaxInject
    <2>1. r = o
        BY <1>1, <1>2
    <2>2. ASSUME Size(A) <= MaxInject PROVE FALSE
        <3>1. total > MaxInject
            BY <1>2, <2>2
        <3>2. Taken(o) \in SUBSET A
            BY DEF PutOK, Taken
        <3>3. PICK T : T = Taken(o)
            OBVIOUS
        <3>4. PICK a \in Nat : a = Size(A)
            BY SizeFacts
        <3>5. PICK t \in Nat : t = Size(T) /\ t = o.total
            BY <3>2, <3>3, SizeFacts DEF PutOK
        <3>6. PICK s \in Nat : s = Files[i].size
            BY FileNumbers
        <3>7. CASE there
            <4>1. PICK x : x = o.out[n]
                OBVIOUS
            <4>2. x \in T /\ x \in A /\ T \in SUBSET FileIds
                BY <3>2, <3>3, <3>7, <4>1 DEF Taken
            <4>3. PICK z \in Nat : z = Files[x].size
                BY <4>2, FileNumbers
            <4>4. PICK R : R = T \ {x}
                OBVIOUS
            <4>5. t = z + Size(R)
                BY <3>5, <4>2, <4>3, <4>4, SizeFacts
            <4>6. i \notin R
                <5>1. \A y \in T : Name(y) = n => y = x
                    BY <3>3, <4>1 DEF Taken, PutOK
                <5> QED
                    BY <4>4, <5>1
            <4>7. R \union {i} \in SUBSET A /\ (R \union {i}) \ {i} = R
                BY <3>2, <3>3, <4>4, <4>6
            <4>8. PICK Q : Q = R \union {i}
                OBVIOUS
            <4>9. Q \in SUBSET FileIds /\ i \in Q /\ Q \ {i} = R /\ Q \in SUBSET A
                BY <4>7, <4>8
            <4>10. Size(Q) = s + Size(R) /\ Size(Q) <= a /\ Size(R) \in Nat
                BY <3>4, <3>6, <4>2, <4>4, <4>9, SizeFacts
            <4>11. PICK b \in Nat : b = Size(R)
                BY <4>10
            <4>12. total = t + s - z
                BY <3>5, <3>6, <3>7, <4>1, <4>3
            <4>13. t = z + b /\ s + b <= a
                BY <4>5, <4>10, <4>11
            <4>14. total <= a
                <5> HIDE DEF total
                <5> QED
                    BY <4>12, <4>13
            <4> HIDE DEF total
            <4> QED
                BY <2>2, <3>1, <3>4, <4>12, <4>14, FilesAssumption
        <3>8. CASE ~there
            <4>1. i \notin T
                BY <3>3, <3>8 DEF Taken, PutOK
            <4>2. PICK Q : Q = T \union {i}
                OBVIOUS
            <4>3. Q \in SUBSET FileIds /\ i \in Q /\ Q \ {i} = T /\ Q \in SUBSET A
                BY <3>2, <3>3, <4>1, <4>2
            <4>4. Size(Q) = s + t /\ Size(Q) <= a
                BY <3>4, <3>5, <3>6, <4>3, SizeFacts
            <4>5. total = t + s
                BY <3>5, <3>6, <3>8
            <4>6. total <= a
                <5>1. s + t <= a /\ s + t = t + s
                    BY <4>4
                <5> HIDE DEF total
                <5> QED
                    BY <4>5, <5>1
            <4> HIDE DEF total
            <4> QED
                BY <2>2, <3>1, <3>4, <4>5, <4>6, FilesAssumption
        <3> QED
            BY <3>7, <3>8
    <2> QED
        BY <2>1, <2>2
<1>3. CASE ~(total > MaxInject)
    <2>1. r = [o EXCEPT !.out = out, !.total = total]
        <3> HIDE DEF out, total
        <3> QED
            BY <1>1, <1>3
    <2>2. r.out = out /\ r.total = total /\ r.blocked = o.blocked
          /\ r = [out |-> out, total |-> total, blocked |-> o.blocked]
        <3>1. o = [out |-> o.out, total |-> o.total, blocked |-> o.blocked]
            BY DEF PutOK
        <3> HIDE DEF out, total
        <3> QED
            BY <2>1, <3>1
    <2>3. DOMAIN out = DOMAIN o.out \union {n} /\ out[n] = i
          /\ \A m \in DOMAIN o.out : m # n => out[m] = o.out[m]
        OBVIOUS
    <2>4. \A m \in DOMAIN out : out[m] \in A /\ Name(out[m]) = m
        <3>1. \A m \in DOMAIN o.out : o.out[m] \in A /\ Name(o.out[m]) = m
            BY DEF PutOK
        <3> HIDE DEF out
        <3> QED
            BY <2>3, <3>1
    <2>5. New = (IF there THEN Taken(o) \ {o.out[n]} ELSE Taken(o)) \union {i}
        <3>1. \A m \in DOMAIN o.out : Name(o.out[m]) = m
            BY DEF PutOK
        <3>2. \A x : x \in New <=> (x = i \/ \E m \in DOMAIN o.out : m # n /\ x = o.out[m])
            <4> HIDE DEF out
            <4> QED
                BY <2>3
        <3>3. \A x : x \in Taken(o) <=> \E m \in DOMAIN o.out : x = o.out[m]
            BY DEF Taken
        <3>4. \A x \in Taken(o) : (\E m \in DOMAIN o.out : m # n /\ x = o.out[m]) <=> Name(x) # n
            BY <3>1, <3>3
        <3>5. there => (o.out[n] \in Taken(o) /\ \A x \in Taken(o) : Name(x) = n <=> x = o.out[n])
            BY <3>1, <3>3
        <3>6. ~there => \A x \in Taken(o) : Name(x) # n
            BY <3>1, <3>3
        <3> HIDE DEF New, n
        <3>7. CASE there
            BY <3>2, <3>3, <3>4, <3>5, <3>7
        <3>8. CASE ~there
            BY <3>2, <3>3, <3>4, <3>6, <3>8
        <3> QED
            BY <3>7, <3>8
    <2>6. total = Size(New)
        <3>1. PICK T : T = Taken(o)
            OBVIOUS
        <3>2. T \in SUBSET A
            BY <3>1 DEF PutOK, Taken
        <3>3. PICK t \in Nat : t = Size(T) /\ t = o.total
            BY <3>1, <3>2, SizeFacts DEF PutOK
        <3>4. PICK s \in Nat : s = Files[i].size
            BY FileNumbers
        <3>5. \A x \in T : Name(x) = n => there /\ x = o.out[n]
            BY <3>1 DEF Taken, PutOK
        <3>6. CASE there
            <4>1. PICK x : x = o.out[n]
                OBVIOUS
            <4>2. x \in T /\ T \in SUBSET FileIds
                BY <3>1, <3>2, <3>6, <4>1 DEF Taken
            <4>3. PICK z \in Nat : z = Files[x].size
                BY <4>2, FileNumbers
            <4>4. PICK R : R = T \ {x}
                OBVIOUS
            <4>5. t = z + Size(R) /\ Size(R) \in Nat
                BY <3>3, <4>2, <4>3, <4>4, SizeFacts
            <4>6. i \notin R
                BY <3>5, <4>1, <4>4
            <4>7. PICK Q : Q = R \union {i}
                OBVIOUS
            <4>8. Q \in SUBSET FileIds /\ i \in Q /\ Q \ {i} = R
                BY <4>2, <4>4, <4>6, <4>7
            <4>9. Size(Q) = s + Size(R)
                BY <3>4, <4>8, SizeFacts
            <4>10. total = t + s - z
                BY <3>3, <3>4, <3>6, <4>1, <4>3
            <4>11. New = Q
                <5> HIDE DEF New
                <5> QED
                    BY <2>5, <3>1, <3>6, <4>1, <4>4, <4>7
            <4> HIDE DEF New, total
            <4> QED
                BY <4>5, <4>9, <4>10, <4>11
        <3>7. CASE ~there
            <4>1. i \notin T
                BY <3>5, <3>7
            <4>2. PICK Q : Q = T \union {i}
                OBVIOUS
            <4>3. Q \in SUBSET FileIds /\ i \in Q /\ Q \ {i} = T
                BY <3>2, <4>1, <4>2
            <4>4. Size(Q) = s + Size(T)
                BY <3>4, <4>3, SizeFacts
            <4>5. total = t + s
                BY <3>3, <3>4, <3>7
            <4>6. New = Q
                <5> HIDE DEF New
                <5> QED
                    BY <2>5, <3>1, <3>7, <4>2
            <4> HIDE DEF New, total
            <4> QED
                BY <3>3, <4>4, <4>5, <4>6
        <3> QED
            BY <3>6, <3>7
    <2>7. total <= MaxInject
        <3>1. New \in SUBSET FileIds
            <4> HIDE DEF out
            <4> QED
                BY <2>4
        <3>2. PICK t \in Nat : t = total
            <4> HIDE DEF New, total
            <4> QED
                BY <2>6, <3>1, SizeFacts
        <3>3. ~(t > MaxInject)
            BY <1>3, <3>2
        <3> HIDE DEF total
        <3> QED
            BY <3>2, <3>3, FilesAssumption
    <2>8. Taken(r) = New
        <3> HIDE DEF out
        <3> QED
            BY <2>2 DEF Taken
    <2>9. PutOK(r, A)
        <3> HIDE DEF out, New, total
        <3> QED
            BY <2>2, <2>4, <2>6, <2>7, <2>8 DEF PutOK
    <2> HIDE DEF out
    <2> QED
        BY <2>2, <2>3, <2>9
<1> QED
    BY <1>2, <1>3

\* All that could be injected for an image.
AllOf(iso) == UNION {Injectable(f) : f \in Injecting(iso)}

\* What is chosen and what the .inf files ask for is some of it.
LEMMA ChosenFiles ==
    ASSUME LibraryOK, NEW iso
    PROVE  /\ AllOf(iso) \in SUBSET FileIds /\ Chosen(iso) \subseteq AllOf(iso)
           /\ \A i \in AllOf(iso) : /\ Files[i].folder \in Injecting(iso)
                                    /\ i \in Injectable(Files[i].folder)
           /\ Asks(Chosen(iso)) \subseteq FileIds \X FileIds
           /\ \A p \in Asks(Chosen(iso)) : p[2] \in AllOf(iso)
<1>1. \A i : i \in AllOf(iso) <=> \E f \in Injecting(iso) : i \in Injectable(f)
    BY DEF AllOf
<1>2. \A i : i \in Chosen(iso) <=> \E f \in Injecting(iso) : i \in MarkInject(f)
    BY DEF Chosen
<1>3. \A f : \A i \in Injectable(f) : i \in FileIds /\ Files[i].folder = f
    BY FolderFiles
<1>4. \A f : MarkInject(f) \subseteq Injectable(f)
    BY MarksInjectable
<1>5. \A i \in AllOf(iso) : /\ i \in FileIds /\ Files[i].folder \in Injecting(iso)
                            /\ i \in Injectable(Files[i].folder)
    BY <1>1, <1>3
<1>6. Chosen(iso) \subseteq AllOf(iso)
    BY <1>1, <1>2, <1>4
<1>7. ASSUME NEW p \in Asks(Chosen(iso))
      PROVE  p \in FileIds \X FileIds /\ p[2] \in AllOf(iso)
    <2> DEFINE Infs2 == {k \in Chosen(iso) : IsInf(k)}
               own(i) == {i} \X OwnFiles(i)
    <2>1. PICK i \in Infs2 : p \in own(i)
        <3>1. Asks(Chosen(iso)) = UNION {own(i) : i \in Infs2}
            BY Zenon DEF Asks
        <3> HIDE DEF own, Infs2
        <3> QED
            BY <3>1
    <2>2. p = <<i, p[2]>> /\ p[2] \in OwnFiles(i) /\ i \in Chosen(iso)
        BY <2>1
    <2>3. i \in FileIds /\ Files[i].folder \in Injecting(iso)
        BY <1>5, <1>6, <2>2
    <2>4. p[2] \in Injectable(Files[i].folder)
        BY <2>2 DEF OwnFiles
    <2>5. p[2] \in AllOf(iso)
        BY <1>1, <2>3, <2>4
    <2> QED
        BY <1>5, <2>2, <2>3, <2>5
<1> QED
    BY <1>5, <1>6, <1>7

\* The first pass: the files that were chosen, each under its name.
LEMMA FirstPass ==
    ASSUME LibraryOK, NEW iso, NEW o,
           o = FoldLeft(PutFirst, NoFiles, Ordered(Chosen(iso), InjectOrder))
    PROVE  PutOK(o, AllOf(iso)) /\ o.blocked = {}
<1>1. PICK A \in SUBSET FileIds : A = AllOf(iso)
    BY ChosenFiles
<1>2. PICK C \in SUBSET FileIds : C = Chosen(iso)
    BY ChosenFiles
<1>3. C \subseteq A
    BY <1>1, <1>2, ChosenFiles
<1>4. PICK s : s = Ordered(C, InjectOrder)
    OBVIOUS
<1>5. s \in Seq(C) /\ Len(s) \in Nat /\ \A k \in 1..Len(s) : s[k] \in A
    BY <1>3, <1>4, FilesInOrder, LenProperties, ElementOfSeq
<1>6. PICK g : PutFold!Steps(g, NoFiles, s) /\ PutFold!Folded(NoFiles, s) = g[Len(s)]
    BY <1>5, PutFold!FoldSteps
<1>7. PutFold!Folded(NoFiles, s) = FoldLeft(PutFirst, NoFiles, s)
    BY DEF PutFold!Folded, FoldLeft, MapThenFoldSet, Max, PutFold!FoldLeft,
           PutFold!MapThenFoldSet, PutFold!Max
<1> DEFINE Fine(c) == PutOK(c, A) /\ c.blocked = {}
           U == {k \in Nat : Fine(g[k])}
<1>8. 0 \in U
    <2>1. PICK b : b = NoFiles
        OBVIOUS
    <2>2. b.out = <<>> /\ b.total = 0 /\ b.blocked = {}
          /\ b = [out |-> b.out, total |-> b.total, blocked |-> b.blocked]
        BY <2>1 DEF NoFiles
    <2>3. DOMAIN b.out = {}
        BY <2>2
    <2>4. Taken(b) = {}
        BY <2>3 DEF Taken
    <2>5. 0 <= MaxInject
        BY FilesAssumption
    <2>6. PutOK(b, A)
        BY <2>2, <2>3, <2>4, <2>5, SizeFacts DEF PutOK
    <2>7. g[0] = b
        BY <1>6, <2>1 DEF PutFold!Steps
    <2> QED
        BY <2>2, <2>6, <2>7
<1>9. ASSUME NEW k \in Nat, k < Len(s), k \in U PROVE k + 1 \in U
    <2>1. k + 1 \in 1..Len(s) /\ (k + 1) - 1 = k /\ k + 1 \in Nat
        BY <1>5, <1>9
    <2>2. g[k + 1] = PutFirst(g[k], s[k + 1])
        BY <1>6, <2>1 DEF PutFold!Steps
    <2>3. PICK c : c = g[k]
        OBVIOUS
    <2>4. PICK r : r = g[k + 1]
        OBVIOUS
    <2>5. PICK i \in A : i = s[k + 1]
        BY <1>5, <2>1
    <2>6. r = PutFirst(c, i) /\ PutOK(c, A) /\ c.blocked = {}
        BY <1>9, <2>2, <2>3, <2>4, <2>5
    <2>7. PutOK(r, A) /\ r.blocked = {}
        BY <2>6, PutKeeps DEF PutFirst
    <2> QED
        BY <2>1, <2>4, <2>7
<1>10. \A k \in 0..Len(s) : k \in U
    <2> HIDE DEF U
    <2> QED
        BY <1>5, <1>8, <1>9, UpTo
<1>11. Fine(g[Len(s)])
    BY <1>5, <1>10
<1> HIDE DEF Fine
<1>12. o = g[Len(s)]
    BY <1>2, <1>4, <1>6, <1>7
<1> QED
    BY <1>1, <1>11, <1>12 DEF Fine

\* What each .inf asked for is there, when there is room for everything.
Answered(o, A, asks) ==
    Size(A) <= MaxInject =>
        \A n \in o.blocked :
            \E q \in asks : Name(q[2]) = n /\ n \in DOMAIN o.out /\ o.out[n] = q[2]

\* One more of the files that are asked for.
LEMMA OwnKeeps ==
    ASSUME NEW A \in SUBSET FileIds, NEW asks, NEW o, PutOK(o, A), Answered(o, A, asks),
           NEW p \in asks, p[2] \in A, NEW r, r = PutOwn(o, p)
    PROVE  /\ PutOK(r, A) /\ Answered(r, A, asks)
           /\ o.blocked \subseteq r.blocked /\ Name(p[2]) \in r.blocked
<1>1. PICK i \in A : i = p[2]
    OBVIOUS
<1>2. CASE Name(i) \in o.blocked
    <2>1. r = o
        BY <1>1, <1>2 DEF PutOwn
    <2> QED
        BY <1>1, <1>2, <2>1
<1>3. CASE Name(i) \notin o.blocked
    <2>1. PICK u : u = Put(o, i)
        OBVIOUS
    <2>2. r = [u EXCEPT !.blocked = u.blocked \union {Name(i)}]
        BY <1>1, <1>3, <2>1 DEF PutOwn
    <2>3. /\ PutOK(u, A) /\ u.blocked = o.blocked
          /\ \A n \in DOMAIN o.out : n # Name(i) => n \in DOMAIN u.out /\ u.out[n] = o.out[n]
          /\ Size(A) <= MaxInject => Name(i) \in DOMAIN u.out /\ u.out[Name(i)] = i
        BY <2>1, PutKeeps
    <2>4. u = [out |-> u.out, total |-> u.total, blocked |-> u.blocked]
        BY <2>3 DEF PutOK
    <2>5. /\ r.out = u.out /\ r.total = u.total /\ r.blocked = o.blocked \union {Name(i)}
          /\ r = [out |-> r.out, total |-> r.total, blocked |-> r.blocked]
        BY <2>2, <2>3, <2>4
    <2>6. Taken(r) = Taken(u)
        BY <2>5 DEF Taken
    <2>7. PutOK(r, A)
        BY <2>3, <2>5, <2>6 DEF PutOK
    <2>8. Answered(r, A, asks)
        <3> SUFFICES ASSUME Size(A) <= MaxInject, NEW n \in r.blocked
                     PROVE  \E q \in asks : /\ Name(q[2]) = n /\ n \in DOMAIN r.out
                                            /\ r.out[n] = q[2]
            BY DEF Answered
        <3>1. CASE n = Name(i)
            BY <1>1, <2>3, <2>5, <3>1
        <3>2. CASE n # Name(i)
            <4>1. n \in o.blocked
                BY <2>5, <3>2
            <4>2. PICK q \in asks : Name(q[2]) = n /\ n \in DOMAIN o.out /\ o.out[n] = q[2]
                BY <4>1 DEF Answered
            <4> QED
                BY <2>3, <2>5, <3>2, <4>2
        <3> QED
            BY <3>1, <3>2
    <2> QED
        BY <1>1, <2>5, <2>7, <2>8
<1> QED
    BY <1>2, <1>3

\* The second pass: what the .inf files ask for, each name once.
LEMMA SecondPass ==
    ASSUME LibraryOK, NEW iso
    PROVE  \E o : /\ WinpeInjectFiles(iso) = o.out /\ PutOK(o, AllOf(iso))
                  /\ Answered(o, AllOf(iso), Asks(Chosen(iso)))
                  /\ \A p \in Asks(Chosen(iso)) : Name(p[2]) \in o.blocked
<1>1. PICK A \in SUBSET FileIds : A = AllOf(iso)
    BY ChosenFiles
<1>2. PICK asks \in SUBSET (FileIds \X FileIds) : asks = Asks(Chosen(iso))
    BY ChosenFiles
<1>3. \A p \in asks : p[2] \in A
    BY <1>1, <1>2, ChosenFiles
<1>4. PICK base : base = FoldLeft(PutFirst, NoFiles, Ordered(Chosen(iso), InjectOrder))
    OBVIOUS
<1>5. PutOK(base, A) /\ base.blocked = {}
    BY <1>1, <1>4, FirstPass
<1>6. PICK s \in Seq(asks) : /\ s = Ordered(asks, AskOrder)
                             /\ \A p \in asks : \E n \in 1..Len(s) : s[n] = p
    BY AsksInOrder
<1>7. Len(s) \in Nat /\ \A k \in 1..Len(s) : s[k] \in asks
    BY LenProperties, ElementOfSeq
<1>8. PICK g : Steps(g, base, s) /\ Folded(base, s) = g[Len(s)]
    BY FoldSteps
<1>9. Folded(base, s) = FoldLeft(PutOwn, base, s)
    BY DEF Folded
<1> DEFINE Seen(c, k) == \A m \in 1..k : Name(s[m][2]) \in c.blocked
           Fine(c, k) == PutOK(c, A) /\ Answered(c, A, asks) /\ Seen(c, k)
           U == {k \in Nat : Fine(g[k], k)}
<1>10. 0 \in U
    <2>1. Answered(base, A, asks)
        BY <1>5 DEF Answered
    <2>2. g[0] = base
        BY <1>8 DEF Steps
    <2>3. 1..0 = {}
        OBVIOUS
    <2> QED
        BY <1>5, <2>1, <2>2, <2>3
<1>11. ASSUME NEW k \in Nat, k < Len(s), k \in U PROVE k + 1 \in U
    <2>1. k + 1 \in 1..Len(s) /\ (k + 1) - 1 = k /\ k + 1 \in Nat
        BY <1>7, <1>11
    <2>2. g[k + 1] = PutOwn(g[k], s[k + 1])
        BY <1>8, <2>1 DEF Steps
    <2>3. PICK c : c = g[k]
        OBVIOUS
    <2>4. PICK r : r = g[k + 1]
        OBVIOUS
    <2>5. PICK p \in asks : p = s[k + 1]
        BY <1>7, <2>1
    <2>6. PutOK(c, A) /\ Answered(c, A, asks) /\ Seen(c, k)
        BY <1>11, <2>3
    <2>7. r = PutOwn(c, p) /\ p[2] \in A
        BY <1>3, <2>2, <2>3, <2>4, <2>5
    <2>8. /\ PutOK(r, A) /\ Answered(r, A, asks)
          /\ c.blocked \subseteq r.blocked /\ Name(p[2]) \in r.blocked
        BY <2>6, <2>7, OwnKeeps
    <2>9. \A m \in 1..k + 1 : m \in 1..k \/ m = k + 1
        OBVIOUS
    <2>10. Seen(r, k + 1)
        BY <2>5, <2>6, <2>8, <2>9
    <2> HIDE DEF Seen
    <2> QED
        BY <2>1, <2>4, <2>8, <2>10
<1>12. \A k \in 0..Len(s) : k \in U
    <2> HIDE DEF U
    <2> QED
        BY <1>7, <1>10, <1>11, UpTo
<1>13. PICK o : o = g[Len(s)]
    OBVIOUS
<1>14. PutOK(o, A) /\ Answered(o, A, asks) /\ \A m \in 1..Len(s) : Name(s[m][2]) \in o.blocked
    BY <1>7, <1>12, <1>13
<1>15. \A p \in asks : Name(p[2]) \in o.blocked
    BY <1>6, <1>14
<1>16. WinpeInjectFiles(iso) = o.out
    BY <1>2, <1>4, <1>6, <1>8, <1>9, <1>13, Zenon DEF WinpeInjectFiles, InjectAll
<1> QED
    BY <1>1, <1>2, <1>14, <1>15, <1>16

\* What is injected from such a library is sound.
LEMMA SoundFiles == LibraryOK => InjectionIsSound
<1> SUFFICES ASSUME LibraryOK, NEW iso \in Isos \union {Preview}
             PROVE  Sound(Injected(iso), Asks(Chosen(iso)), iso)
    BY Zenon DEF InjectionIsSound
<1>1. PICK A : A = AllOf(iso)
    OBVIOUS
<1>2. PICK o : /\ WinpeInjectFiles(iso) = o.out /\ PutOK(o, A)
               /\ Answered(o, A, Asks(Chosen(iso)))
               /\ \A p \in Asks(Chosen(iso)) : Name(p[2]) \in o.blocked
    BY <1>1, SecondPass
<1>3. Injected(iso) = Taken(o)
    BY <1>2 DEF Injected, Taken, Range
<1>4. Size(Injected(iso)) <= MaxInject
    BY <1>2, <1>3 DEF PutOK
<1>5. Injected(iso) \subseteq A
    BY <1>2, <1>3 DEF PutOK, Taken
<1>6. ASSUME NEW i \in Injected(iso)
      PROVE  /\ i \in present \ Flags(Files[i].folder).excluded /\ ~Skipped(i)
             /\ Flags(Files[i].folder).winpe_inject
             /\ ApplyMatches(Flags(Files[i].folder).apply_to, iso)
             /\ Name(i) \notin WinpeNames =>
                    /\ Name(i) \notin SystemNames
                    /\ \E k \in Infs(Files[i].folder) : Dir(k) = Dir(i) /\ Name(i) \in Declared(k)
    <2>1. PICK f : f = Files[i].folder
        OBVIOUS
    <2>2. f \in Injecting(iso) /\ i \in Injectable(f)
        BY <1>1, <1>5, <2>1, ChosenFiles
    <2>3. i \in Usable(f)
        BY <2>2, FolderFiles
    <2>4. i \in present \ Flags(f).excluded /\ ~Skipped(i)
        BY <2>3 DEF Usable, In
    <2>5. Flags(f).winpe_inject /\ ApplyMatches(Flags(f).apply_to, iso)
        BY <2>2 DEF Injecting
    <2>6. ASSUME Name(i) \notin WinpeNames
          PROVE  /\ Name(i) \notin SystemNames
                 /\ \E k \in Infs(f) : Dir(k) = Dir(i) /\ Name(i) \in Declared(k)
        <3>1. i \notin Candidates(f)
            BY <2>6 DEF Candidates
        <3>2. \E k \in Infs(f) : /\ Dir(k) = Dir(i)
                                 /\ Name(i) \in Declared(k) \ (WinpeNames \union SystemNames)
            BY <2>2, <3>1 DEF Injectable
        <3> QED
            BY <3>2
    <2> QED
        BY <2>1, <2>4, <2>5, <2>6
<1>7. ASSUME AllFits(iso), NEW p \in Asks(Chosen(iso))
      PROVE  \E q \in Asks(Chosen(iso)) : q[2] \in Injected(iso) /\ Name(q[2]) = Name(p[2])
    <2>1. Size(A) <= MaxInject
        BY <1>1, <1>7 DEF AllFits, AllOf
    <2>2. Name(p[2]) \in o.blocked
        BY <1>2
    <2>3. PICK q \in Asks(Chosen(iso)) : /\ Name(q[2]) = Name(p[2])
                                         /\ Name(p[2]) \in DOMAIN o.out /\ o.out[Name(p[2])] = q[2]
        BY <1>2, <2>1, <2>2 DEF Answered
    <2>4. q[2] \in Taken(o)
        BY <2>3 DEF Taken
    <2> QED
        BY <1>3, <2>3, <2>4
<1> QED
    BY <1>4, <1>6, <1>7 DEF Sound

\* WinPE gets what it may, whatever the library holds.
THEOREM WinpeGetsWhatItMay == Spec => []InjectionIsSound
BY LibraryInvariant, SoundFiles, PTL
=============================================================================
