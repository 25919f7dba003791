------------------------------- MODULE VfsProofs -------------------------------
(***************************************************************************)
(* Proofs about Vfs, for every set of paths and any number of descriptors, *)
(* objects and inodes.  The inductive invariant adds to the counts and the *)
(* tree that what is linked to an entry exists and that what covers it is  *)
(* newer (Links): so the walk over mounted_dir ends (Top is defined), and  *)
(* every walk over a path answers an entry or goes wild.                   *)
(***************************************************************************)
EXTENDS Vfs, NaturalsInduction, WellFoundedInduction, FiniteSetTheorems, TLAPS

\* What is linked to an entry exists, and what covers it is newer.
Links ==
  \A e \in Known :
    /\ dirs[e].children \in Seq(Known) /\ dirs[e].parent \in Known
    /\ dirs[e].mounted \in Known \cup {NULL}
    /\ dirs[e].mounted # NULL => e < dirs[e].mounted

IInv == RefCounts /\ TreeSound /\ Links

-----------------------------------------------------------------------------
(* Numbers.                                                                *)

\* A set of numbers that is not empty has a least one.
LEMMA LeastExists ==
  ASSUME NEW S, S \subseteq Nat, S # {}
  PROVE  \E x \in S : \A y \in S : x =< y
<1> DEFINE Below == OpToRel(<, Nat)
<1>1. IsWellFoundedOn(Below, Nat)
  BY NatLessThanWellFounded
<1> HIDE DEF Below
<1>2. \E x \in S : \A y \in S : ~(<<y, x>> \in Below)
  BY <1>1, WFMin
<1>3. PICK x \in S : \A y \in S : ~(<<y, x>> \in Below)
  BY <1>2
<1>4. \A y \in S : ~(y < x)
  BY <1>3 DEF Below, OpToRel
<1>5. \A y \in S : x =< y
  BY <1>4
<1>6. QED
  BY <1>5

\* Induction over the numbers.
LEMMA SetInduction ==
  ASSUME NEW T, 0 \in T, \A n \in Nat : n \in T => n + 1 \in T
  PROVE  Nat \subseteq T
<1> DEFINE U == Nat \ T
<1> SUFFICES ASSUME U # {} PROVE FALSE
  OBVIOUS
<1> HIDE DEF U
<1>1. U \subseteq Nat
  BY DEF U
<1>2. PICK x \in U : \A y \in U : x =< y
  BY <1>1, LeastExists
<1>3. x \in Nat /\ x \notin T /\ x # 0
  BY <1>2 DEF U
<1>4. x - 1 \in Nat /\ (x - 1) + 1 = x /\ ~(x =< x - 1)
  BY <1>3
<1>5. x - 1 \in U
  BY <1>3, <1>4 DEF U
<1>6. QED
  BY <1>2, <1>4, <1>5

Recurses(f, m, a, step) == \A i \in 0..m : f[i] = IF i = 0 THEN a ELSE step[i][f[i-1]]

\* A recursive function over 0..m exists.
LEMMA Recursion ==
  ASSUME NEW S, NEW m \in Nat, NEW a \in S, NEW step \in [1..m -> [S -> S]]
  PROVE  \E f \in [0..m -> S] : Recurses(f, m, a, step)
<1> DEFINE Upto(f, k) == \A i \in 0..k : f[i] = IF i = 0 THEN a ELSE step[i][f[i-1]]
           T == {k \in Nat : k > m \/ \E f \in [0..m -> S] : Upto(f, k)}
<1>1. 0 \in T
  <2> DEFINE f == [i \in 0..m |-> a]
  <2>1. f \in [0..m -> S] /\ Upto(f, 0)
    OBVIOUS
  <2>2. QED
    BY <2>1
<1>2. ASSUME NEW k \in Nat, k \in T PROVE k + 1 \in T
  <2>1. CASE k + 1 > m
    BY <2>1
  <2>2. CASE k + 1 <= m
    <3>1. PICK f \in [0..m -> S] : Upto(f, k)
      BY <1>2, <2>2
    <3> DEFINE g == [f EXCEPT ![k+1] = step[k+1][f[k]]]
    <3>2. k \in 0..m /\ k + 1 \in 1..m /\ k + 1 \in 0..m /\ (k + 1) - 1 = k /\ k + 1 # k
      BY <2>2
    <3>3. step[k+1][f[k]] \in S
      BY <3>1, <3>2
    <3>4. /\ g \in [0..m -> S] /\ g[k+1] = step[k+1][f[k]]
          /\ \A i \in 0..m : i # k + 1 => g[i] = f[i]
      BY <3>2, <3>3
    <3> HIDE DEF g
    <3>5. ASSUME NEW i \in 0..k+1
          PROVE  g[i] = IF i = 0 THEN a ELSE step[i][g[i-1]]
      <4>1. CASE i = k + 1
        BY <4>1, <3>2, <3>4
      <4>2. CASE i # k + 1
        <5>1. i \in 0..k /\ i \in 0..m /\ (i # 0 => i - 1 \in 0..m /\ i - 1 # k + 1)
          BY <4>2, <3>2
        <5>2. g[i] = f[i] /\ (i # 0 => g[i-1] = f[i-1])
          BY <5>1, <4>2, <3>4
        <5>3. QED
          BY <5>1, <5>2, <3>1
      <4>3. QED
        BY <4>1, <4>2
    <3>6. QED
      BY <3>4, <3>5
  <2>3. QED
    BY <2>1, <2>2
<1> HIDE DEF T
<1>3. m \in T
  BY <1>1, <1>2, SetInduction
<1>4. QED
  BY <1>3 DEF T, Recurses

-----------------------------------------------------------------------------
(* Path names.                                                             *)

LEMMA KnownIs ==
  ASSUME TypeOK
  PROVE  /\ Len(dirs) \in Nat \ {0} /\ Known = 1..Len(dirs) /\ Known \subseteq Entries
         /\ NULL \notin Known /\ WILD \notin Known /\ UNSET \notin Known
         /\ \A e \in Known : e \in Nat /\ e >= 1 /\ e <= Len(dirs)
<1> DEFINE n == Len(dirs)
<1>1. Known = 1..n /\ n \in 1..NInodes /\ NInodes \in Nat
  BY VfsAssumption DEF TypeOK, Known, Entries
<1> HIDE DEF n
<1>2. /\ n \in Nat \ {0} /\ Known = 1..n /\ Known \subseteq Entries
      /\ NULL \notin Known /\ WILD \notin Known /\ UNSET \notin Known
      /\ \A e \in Known : e \in Nat /\ e >= 1 /\ e <= n
  BY <1>1 DEF Entries, NULL, WILD, UNSET
<1>3. QED
  BY <1>2 DEF n

\* One step of the walk over mounted_dir.
Covering(f, e) == IF dirs[e].mounted # NULL THEN f[dirs[e].mounted] ELSE e

\* The walk over mounted_dir ends, at an entry.
LEMMA TopIs ==
  ASSUME TypeOK, Links
  PROVE  \A e \in Known : Top[e] \in Known /\ Top[e] = Covering(Top, e)
<1> DEFINE n == Len(dirs)
           Good(f, k) == \A e \in Known : e > n - k => f[e] = Covering(f, e)
           T == {k \in Nat : \E f \in [Known -> Known] : Good(f, k)}
<1>1. /\ n \in Nat \ {0} /\ Known = 1..n /\ NULL \notin Known
      /\ \A e \in Known : e \in Nat /\ e >= 1 /\ e <= n
      /\ \A e \in Known : dirs[e].mounted \in Known \cup {NULL}
                          /\ (dirs[e].mounted # NULL => e < dirs[e].mounted)
  BY KnownIs DEF Links
<1> HIDE DEF n
<1>2. 0 \in T
  <2> DEFINE f == [e \in Known |-> e]
  <2>1. f \in [Known -> Known] /\ Good(f, 0)
    BY <1>1
  <2>2. QED
    BY <2>1
<1>3. ASSUME NEW k \in Nat, k \in T PROVE k + 1 \in T
  <2>1. PICK f \in [Known -> Known] : Good(f, k)
    BY <1>3
  <2>2. CASE n - k \notin Known
    <3>1. Good(f, k + 1)
      BY <2>1, <2>2, <1>1
    <3>2. QED
      BY <3>1
  <2>3. CASE n - k \in Known
    <3> DEFINE h == n - k
               g == [f EXCEPT ![h] = Covering(f, h)]
    <3>1. Covering(f, h) \in Known
      BY <2>3, <1>1 DEF Covering
    <3>2. g \in [Known -> Known] /\ g[h] = Covering(f, h) /\ \A e \in Known : e # h => g[e] = f[e]
      BY <2>3, <3>1
    <3> HIDE DEF g
    <3>3. ASSUME NEW e \in Known, e > n - (k + 1) PROVE g[e] = Covering(g, e)
      <4>1. e >= h /\ (dirs[e].mounted # NULL => dirs[e].mounted \in Known /\ dirs[e].mounted # h)
        BY <3>3, <1>1
      <4>2. Covering(g, e) = Covering(f, e)
        BY <4>1, <3>2 DEF Covering
      <4>3. CASE e = h
        BY <4>2, <4>3, <3>2
      <4>4. CASE e # h
        <5>1. e > n - k
          BY <4>1, <4>4, <1>1
        <5>2. QED
          BY <5>1, <4>2, <4>4, <2>1, <3>2
      <4>5. QED
        BY <4>3, <4>4
    <3>4. QED
      BY <3>2, <3>3
  <2>4. QED
    BY <2>2, <2>3
<1>4. n \in T
  <2> HIDE DEF T
  <2>1. QED
    BY <1>1, <1>2, <1>3, SetInduction
<1>5. PICK f \in [Known -> Known] : Good(f, n)
  BY <1>4
<1>6. f = [e \in Known |-> Covering(f, e)]
  <2>1. \A e \in Known : f[e] = Covering(f, e)
    BY <1>1, <1>5
  <2>2. QED
    BY <2>1
<1>7. Top = [e \in Known |-> Covering(Top, e)]
  BY <1>6 DEF Top, Covering
<1>8. \A e \in Known : Top[e] = Covering(Top, e)
  BY <1>7
<1> DEFINE U == {k \in Nat : \A e \in Known : e > n - k => Top[e] \in Known}
<1>9. 0 \in U
  BY <1>1
<1>10. ASSUME NEW k \in Nat, k \in U PROVE k + 1 \in U
  <2>1. ASSUME NEW e \in Known, e > n - (k + 1) PROVE Top[e] \in Known
    <3>1. dirs[e].mounted # NULL => dirs[e].mounted \in Known /\ dirs[e].mounted > n - k
      BY <2>1, <1>1
    <3>2. Covering(Top, e) \in Known
      BY <3>1, <1>10 DEF Covering
    <3>3. QED
      BY <3>2, <1>8
  <2>2. QED
    BY <2>1
<1>11. n \in U
  <2> HIDE DEF U
  <2>1. QED
    BY <1>1, <1>9, <1>10, SetInduction
<1>12. QED
  BY <1>1, <1>8, <1>11

LEMMA LookupAnswers ==
  ASSUME TypeOK, Links, NEW d \in Known, NEW n
  PROVE  lookup(d, n) \in Known \cup {UNSET, WILD}
<1>1. CASE n \in {".", ""}
  <2>1. lookup(d, n) = d
    BY <1>1 DEF lookup
  <2>2. QED
    BY <2>1
<1>2. CASE n = ".."
  <2>1. lookup(d, n) = dirs[d].parent
    BY <1>2 DEF lookup
  <2>2. QED
    BY <2>1 DEF Links
<1>3. CASE n \notin {".", "", ".."} /\ find_children(d, n) # {}
  <2> DEFINE c == dirs[d].children
             first == CHOOSE i \in find_children(d, n) : \A j \in find_children(d, n) : i =< j
  <2>1. lookup(d, n) = Top[c[first]]
    BY <1>3 DEF lookup
  <2>2. c \in Seq(Known)
    BY DEF Links
  <2>3. find_children(d, n) \subseteq DOMAIN c /\ DOMAIN c \subseteq Nat
    BY <2>2 DEF find_children
  <2>4. \E i \in find_children(d, n) : \A j \in find_children(d, n) : i =< j
    BY <1>3, <2>3, LeastExists
  <2>5. first \in DOMAIN c
    BY <2>3, <2>4
  <2> HIDE DEF first, c
  <2>6. c[first] \in Known
    BY <2>2, <2>5
  <2>7. QED
    BY <2>1, <2>6, TopIs
<1>4. CASE n \notin {".", "", ".."} /\ find_children(d, n) = {}
  <2>1. lookup(d, n) = IF dirs[d].ops THEN UNSET ELSE WILD
    BY <1>4 DEF lookup
  <2>2. QED
    BY <2>1
<1>5. QED
  BY <1>1, <1>2, <1>3, <1>4

\* One component of the walk of get_parent_dir_entry.
Walked == [dir : Known \cup {WILD}, mid : Known \cup {WILD}]
Go(w, n) ==
  LET r == IF w.dir = WILD THEN WILD ELSE lookup(w.dir, n)
  IN  IF r = UNSET THEN [dir |-> w.mid, mid |-> w.mid] ELSE [dir |-> r, mid |-> r]

LEMMA GoWalks ==
  ASSUME TypeOK, Links, NEW w \in Walked, NEW n
  PROVE  Go(w, n) \in Walked
<1> DEFINE r == IF w.dir = WILD THEN WILD ELSE lookup(w.dir, n)
<1>1. r \in Known \cup {UNSET, WILD}
  BY LookupAnswers DEF Walked
<1>2. Go(w, n) = IF r = UNSET THEN [dir |-> w.mid, mid |-> w.mid] ELSE [dir |-> r, mid |-> r]
  BY DEF Go
<1> HIDE DEF r
<1>3. QED
  BY <1>1, <1>2 DEF Walked

LEMMA ParentAnswers ==
  ASSUME TypeOK, Links, NEW p \in Paths \cup DevPaths, NEW base \in Known
  PROVE  get_parent_dir_entry(p, base) \in Known \cup {WILD}
<1> DEFINE m == Len(p.comps) - 1
           a == [dir |-> IF p.abs THEN root ELSE base, mid |-> WILD]
           step == [i \in 1..m |-> [w \in Walked |-> Go(w, p.comps[i])]]
           walk[i \in 0..Len(p.comps)-1] ==
             IF i = 0 THEN [dir |-> IF p.abs THEN root ELSE base, mid |-> WILD]
             ELSE LET w == walk[i-1]
                      r == IF w.dir = WILD THEN WILD ELSE lookup(w.dir, p.comps[i])
                  IN  IF r = UNSET THEN [dir |-> w.mid, mid |-> w.mid]
                                   ELSE [dir |-> r, mid |-> r]
           Fits(f) == f = [i \in 0..Len(p.comps)-1 |->
                             IF i = 0 THEN [dir |-> IF p.abs THEN root ELSE base, mid |-> WILD]
                             ELSE LET w == f[i-1]
                                      r == IF w.dir = WILD THEN WILD ELSE lookup(w.dir, p.comps[i])
                                  IN  IF r = UNSET THEN [dir |-> w.mid, mid |-> w.mid]
                                                   ELSE [dir |-> r, mid |-> r]]
<1>1. get_parent_dir_entry(p, base) = walk[m].dir
  BY DEF get_parent_dir_entry
<1>2. m \in Nat
  BY VfsAssumption
<1>3. a \in Walked
  <2>1. root \in Known
    BY DEF TypeOK
  <2>2. QED
    BY <2>1 DEF Walked
<1>4. step \in [1..m -> [Walked -> Walked]]
  <2>1. \A i \in 1..m, w \in Walked : Go(w, p.comps[i]) \in Walked
    BY GoWalks
  <2> HIDE DEF m
  <2>2. QED
    BY <2>1
<1>5. \A f : Fits(f) <=> f = [i \in 0..m |-> IF i = 0 THEN a ELSE Go(f[i-1], p.comps[i])]
  BY DEF Go
<1> HIDE DEF a, m, step, Walked
<1>6. PICK f \in [0..m -> Walked] : Recurses(f, m, a, step)
  <2> HIDE DEF Fits, walk
  <2>1. QED
    BY <1>2, <1>3, <1>4, Recursion
<1>7. \A i \in 0..m : f[i] = IF i = 0 THEN a ELSE Go(f[i-1], p.comps[i])
  <2> TAKE i \in 0..m
  <2>1. CASE i = 0
    BY <2>1, <1>6 DEF Recurses
  <2>2. CASE i # 0
    <3>1. i \in 1..m /\ i - 1 \in 0..m
      BY <2>2, <1>2
    <3>2. f[i-1] \in Walked
      BY <3>1, <1>6
    <3>3. step[i][f[i-1]] = Go(f[i-1], p.comps[i])
      BY <3>1, <3>2 DEF step
    <3>4. QED
      BY <3>3, <2>2, <1>6 DEF Recurses
  <2>3. QED
    BY <2>1, <2>2
<1>8. Fits(f)
  <2> HIDE DEF Fits
  <2>1. f = [i \in 0..m |-> IF i = 0 THEN a ELSE Go(f[i-1], p.comps[i])]
    BY <1>6, <1>7
  <2>2. QED
    BY <2>1, <1>5
<1>9. Fits(walk)
  <2>1. Fits(CHOOSE h : Fits(h))
    <3> HIDE DEF Fits
    <3>1. QED
      BY <1>8
  <2>2. QED
    BY <2>1
<1> HIDE DEF walk
<1>10. \A i \in 0..m : walk[i] = IF i = 0 THEN a ELSE Go(walk[i-1], p.comps[i])
  <2> HIDE DEF Fits
  <2>1. walk = [i \in 0..m |-> IF i = 0 THEN a ELSE Go(walk[i-1], p.comps[i])]
    BY <1>5, <1>9
  <2>2. QED
    BY <2>1
<1> DEFINE T == {k \in Nat : k <= m => walk[k] \in Walked}
<1>11. 0 \in T
  BY <1>2, <1>3, <1>10
<1>12. ASSUME NEW k \in Nat, k \in T PROVE k + 1 \in T
  <2>1. ASSUME k + 1 <= m PROVE walk[k + 1] \in Walked
    <3>1. k + 1 \in 0..m /\ k + 1 # 0 /\ (k + 1) - 1 = k /\ k <= m
      BY <2>1, <1>2
    <3>2. walk[k] \in Walked
      BY <3>1, <1>12
    <3>3. walk[k + 1] = Go(walk[k], p.comps[k + 1])
      BY <3>1, <1>10
    <3>4. QED
      BY <3>2, <3>3, GoWalks
  <2>2. QED
    BY <2>1
<1>13. m \in T
  <2> HIDE DEF T
  <2>1. QED
    BY <1>2, <1>11, <1>12, SetInduction
<1>14. QED
  BY <1>1, <1>13, <1>2 DEF Walked

LEMMA NameiAnswers ==
  ASSUME TypeOK, Links, NEW p \in Paths \cup DevPaths
  PROVE  namei(p) \in Known \cup {WILD}
<1> DEFINE d == get_parent_dir_entry(p, pwd)
           r == IF d = WILD THEN WILD ELSE lookup(d, Last(p.comps))
<1>1. d \in Known \cup {WILD}
  BY ParentAnswers DEF TypeOK
<1>2. namei(p) = IF r = UNSET THEN WILD ELSE r
  BY DEF namei
<1> HIDE DEF d
<1>3. r \in Known \cup {UNSET, WILD}
  BY <1>1, LookupAnswers
<1> HIDE DEF r
<1>4. QED
  BY <1>2, <1>3

-----------------------------------------------------------------------------
(* The tables: their records, who uses them, and how a step changes them.   *)

Object == [inode : Known \cup {NULL}, pos : -(MaxPos+1)..MaxPos, used_count : Nat]

\* The descriptors open on an object, and on an inode.
Users(d) == {fd \in Slots : file_table[fd] = d}
Holders(e) == {fd \in Slots : file_table[fd] # NULL /\ f_desc_table[file_table[fd]].inode = e}

Counted ==
  /\ \A d \in Descs : f_desc_table[d].used_count = Cardinality(Users(d))
  /\ \A e \in Known : dirs[e].used = Cardinality(Holders(e))
  /\ \A fd \in Slots : file_table[fd] # NULL => f_desc_table[file_table[fd]].inode # NULL

LEMMA RefCountsIs == RefCounts <=> TypeOK /\ Counted
BY DEF RefCounts, Counted, Users, Holders

LEMMA Numbers ==
  /\ NULL \notin Entries /\ WILD \notin Entries /\ NULL \notin Descs
  /\ 1 \in Entries /\ 0 \in -(MaxPos+1)..MaxPos
BY VfsAssumption DEF Entries, Descs, NULL, WILD

\* Sets of descriptors are finite; one more or one less counts one.
LEMMA SlotSets ==
  ASSUME NEW S, S \subseteq Slots, NEW s \in Slots
  PROVE  /\ Cardinality(S) \in Nat
         /\ s \notin S => Cardinality(S \cup {s}) = Cardinality(S) + 1
         /\ s \in S => Cardinality(S \ {s}) = Cardinality(S) - 1 /\ Cardinality(S) >= 1
<1>1. IsFiniteSet(Slots)
  <2>1. 0 \in Int /\ NSlots - 1 \in Int
    BY VfsAssumption
  <2>2. QED
    BY <2>1, FS_Interval DEF Slots
<1>2. IsFiniteSet(S)
  BY <1>1, FS_Subset
<1>3. Cardinality(S) \in Nat
  BY <1>2, FS_CardinalityType
<1>4. s \notin S => Cardinality(S \cup {s}) = Cardinality(S) + 1
  BY <1>2, FS_AddElement
<1>5. ASSUME s \in S
      PROVE  Cardinality(S \ {s}) = Cardinality(S) - 1 /\ Cardinality(S) >= 1
  <2>1. IsFiniteSet(S \ {s}) /\ Cardinality(S \ {s}) = Cardinality(S) - 1
    BY <1>2, <1>5, FS_RemoveElement
  <2>2. Cardinality(S \ {s}) \in Nat
    BY <2>1, FS_CardinalityType
  <2>3. QED
    BY <2>1, <2>2, <1>3
<1>6. QED
  BY <1>3, <1>4, <1>5

LEMMA FirstFree ==
  /\ FreeSlots # {} => First(FreeSlots) \in FreeSlots
  /\ FreeDescs # {} => First(FreeDescs) \in FreeDescs
<1>1. \A S : S \subseteq Nat /\ S # {} => First(S) \in S
  BY LeastExists DEF First
<1>2. FreeSlots \subseteq Nat /\ FreeDescs \subseteq Nat
  BY VfsAssumption DEF FreeSlots, FreeDescs, Slots, Descs
<1>3. QED
  BY <1>1, <1>2

DirRec == [name : Names, parent : Entries, sb : Entries, ops : BOOLEAN,
           children : Seq(Entries), mounted : Entries \cup {NULL}, used : Nat]

\* Two records that differ in the count at most.
SameLinks(x, y) ==
  /\ x.parent = y.parent /\ x.sb = y.sb /\ x.ops = y.ops
  /\ x.children = y.children /\ x.mounted = y.mounted

LEMMA EntryIs ==
  ASSUME TypeOK, NEW e \in Known
  PROVE  dirs[e] \in DirRec
<1>1. dirs \in Seq(DirRec) /\ e \in DOMAIN dirs
  BY DEF TypeOK, DirRec, Known
<1> HIDE DEF DirRec
<1>2. QED
  BY <1>1

LEMMA UseEntry ==
  ASSUME TypeOK, NEW e \in Known, NEW u \in Nat, dirs' = [dirs EXCEPT ![e].used = u]
  PROVE  /\ dirs' \in Seq(DirRec) /\ Len(dirs') = Len(dirs) /\ Known' = Known
         /\ \A x \in Known : /\ SameLinks(dirs'[x], dirs[x])
                             /\ dirs'[x].used = IF x = e THEN u ELSE dirs[x].used
<1> DEFINE r == [dirs[e] EXCEPT !.used = u]
<1>1. dirs \in Seq(DirRec) /\ dirs[e] \in DirRec
  BY EntryIs DEF TypeOK, DirRec
<1>2. r \in DirRec /\ SameLinks(r, dirs[e]) /\ r.used = u
  BY <1>1 DEF DirRec, SameLinks
<1>3. dirs' = [dirs EXCEPT ![e] = r]
  OBVIOUS
<1> HIDE DEF r, DirRec
<1>4. /\ dirs' \in Seq(DirRec) /\ Len(dirs') = Len(dirs) /\ Known' = Known
      /\ dirs'[e] = r /\ \A x \in Known : x # e => dirs'[x] = dirs[x]
  BY <1>1, <1>2, <1>3 DEF Known
<1>5. QED
  BY <1>2, <1>4 DEF SameLinks

\* Entry d has become r, and entry e is the new one, q.
Grown(d, e, r, q) ==
  /\ dirs' \in Seq(DirRec) /\ Len(dirs') = Len(dirs) + 1 /\ Known' = Known \cup {e}
  /\ dirs'[d] = r /\ dirs'[e] = q
  /\ \A x \in Known : x # d => dirs'[x] = dirs[x]

LEMMA AddEntry ==
  ASSUME TypeOK, NEW d \in Known, NEW e, e = NextInode, NEW r \in DirRec, NEW q \in DirRec,
         dirs' = Append([dirs EXCEPT ![d] = r], q)
  PROVE  Grown(d, e, r, q)
<1> DEFINE m == [dirs EXCEPT ![d] = r]
           n == Len(dirs)
<1>1. dirs \in Seq(DirRec) /\ Known = 1..n /\ n \in Nat /\ e = n + 1
  BY DEF TypeOK, DirRec, Known, NextInode
<1> HIDE DEF DirRec, n
<1>2. /\ m \in Seq(DirRec) /\ Len(m) = n
      /\ m[d] = r /\ \A x \in Known : x # d => m[x] = dirs[x]
  BY <1>1 DEF Known, n
<1> HIDE DEF m
<1>3. /\ dirs' \in Seq(DirRec) /\ Len(dirs') = n + 1 /\ DOMAIN dirs' = 1..n+1
      /\ dirs'[n + 1] = q /\ \A x \in 1..n : dirs'[x] = m[x]
  BY <1>1, <1>2 DEF m
<1>4. QED
  BY <1>1, <1>2, <1>3 DEF Known, n, Grown

LEMMA TreeKept ==
  ASSUME TreeSound, Links, Known' = Known, \A x \in Known : SameLinks(dirs'[x], dirs[x])
  PROVE  TreeSound' /\ Links'
<1>1. \A x \in Known : /\ dirs'[x].parent = dirs[x].parent /\ dirs'[x].sb = dirs[x].sb
                       /\ dirs'[x].ops = dirs[x].ops /\ dirs'[x].children = dirs[x].children
                       /\ dirs'[x].mounted = dirs[x].mounted
  BY DEF SameLinks
<1>2. Links'
  BY <1>1 DEF Links
<1>3. \A e \in Known :
        /\ {d \in Known' : e \in ToSet(dirs'[d].children)} = {d \in Known : e \in ToSet(dirs[d].children)}
        /\ {d \in Known' : dirs'[d].mounted = e} = {d \in Known : dirs[d].mounted = e}
        /\ dirs'[e].parent = dirs[e].parent /\ dirs[e].parent \in Known
  BY <1>1 DEF Links
<1>4. TreeSound'
  <2> DEFINE in(e) == {d \in Known : e \in ToSet(dirs[d].children)}
             covered(e) == {d \in Known : dirs[d].mounted = e}
  <2> SUFFICES ASSUME NEW e \in Known
        PROVE  /\ \/ dirs'[e].ops /\ dirs'[e].parent = e /\ dirs'[e].sb = e /\ in(e) = {}
                  \/ ~dirs'[e].ops /\ in(e) = {dirs'[e].parent} /\ dirs'[e].parent < e
                     /\ dirs'[e].sb = dirs'[dirs'[e].parent].sb
               /\ \A i, j \in DOMAIN dirs'[e].children :
                    i < j => dirs'[e].children[i] > dirs'[e].children[j]
               /\ IF dirs'[e].ops /\ e # 1
                    THEN Cardinality(covered(e)) = 1 /\ \A d \in covered(e) : d < e
                    ELSE covered(e) = {}
    BY <1>3 DEF TreeSound
  <2>1. /\ \/ dirs[e].ops /\ dirs[e].parent = e /\ dirs[e].sb = e /\ in(e) = {}
           \/ ~dirs[e].ops /\ in(e) = {dirs[e].parent} /\ dirs[e].parent < e
              /\ dirs[e].sb = dirs[dirs[e].parent].sb
        /\ \A i, j \in DOMAIN dirs[e].children :
             i < j => dirs[e].children[i] > dirs[e].children[j]
        /\ IF dirs[e].ops /\ e # 1
             THEN Cardinality(covered(e)) = 1 /\ \A d \in covered(e) : d < e
             ELSE covered(e) = {}
    BY DEF TreeSound
  <2> HIDE DEF in, covered
  <2>2. QED
    BY <1>1, <1>3, <2>1
<1>5. QED
  BY <1>2, <1>4

LEMMA Unchanged ==
  ASSUME IInv, UNCHANGED <<tree, files>>, result' \in {"ok", "err"}, wild' \in BOOLEAN
  PROVE  IInv'
<1>1. /\ dirs' = dirs /\ root' = root /\ pwd' = pwd /\ sb_table' = sb_table
      /\ f_desc_table' = f_desc_table /\ file_table' = file_table /\ Known' = Known
  BY DEF tree, files, Known
<1>2. TypeOK /\ Counted /\ TreeSound /\ Links
  BY RefCountsIs DEF IInv
<1>3. TypeOK'
  BY <1>1, <1>2 DEF TypeOK
<1>4. Counted'
  BY <1>1, <1>2 DEF Counted, Users, Holders
<1>5. TreeSound' /\ Links'
  BY <1>1, <1>2, TreeKept DEF SameLinks
<1>6. QED
  BY <1>3, <1>4, <1>5 DEF IInv, RefCounts, Counted, Users, Holders

LEMMA NothingDone ==
  ASSUME IInv
  PROVE  GoWild \/ Fail \/ (Done /\ UNCHANGED <<tree, files>>) => IInv'
BY Unchanged DEF GoWild, Fail, Done, IInv, RefCounts, TypeOK

-----------------------------------------------------------------------------
(* Opening, closing, duplicating, seeking.                                  *)

LEMMA OpenInv ==
  ASSUME IInv, NEW p \in Paths, sys_open(p)
  PROVE  IInv'
<1>1. TypeOK /\ Counted /\ TreeSound /\ Links
  BY RefCountsIs DEF IInv
<1>2. ASSUME NEW s \in FreeSlots, NEW d \in FreeDescs, NEW e \in Known,
             file_table' = [file_table EXCEPT ![s] = d],
             f_desc_table' = [f_desc_table EXCEPT ![d] =
                                [inode |-> e, pos |-> 0, used_count |-> 1]],
             dirs' = [dirs EXCEPT ![e].used = @ + 1],
             UNCHANGED <<root, pwd, sb_table>>, Done
      PROVE  IInv'
  <2>1. s \in Slots /\ file_table[s] = NULL /\ d \in Descs /\ f_desc_table[d].inode = NULL
    BY <1>2 DEF FreeSlots, FreeDescs
  <2>2. d # NULL /\ e # NULL
    BY <2>1, <1>1, Numbers, KnownIs
  <2>3. dirs[e].used \in Nat /\ dirs[e].used + 1 \in Nat
    <3>1. dirs[e] \in DirRec
      BY <1>1, EntryIs
    <3>2. QED
      BY <3>1 DEF DirRec
  <2>4. /\ dirs' \in Seq(DirRec) /\ Len(dirs') = Len(dirs) /\ Known' = Known
        /\ \A x \in Known : /\ SameLinks(dirs'[x], dirs[x])
                            /\ dirs'[x].used = IF x = e THEN dirs[e].used + 1 ELSE dirs[x].used
    <3>1. dirs' = [dirs EXCEPT ![e].used = dirs[e].used + 1]
      BY <1>2
    <3>2. QED
      BY <3>1, <2>3, <1>1, UseEntry
  <2>5. f_desc_table \in [Descs -> Object] /\ file_table \in [Slots -> Descs \cup {NULL}]
    BY <1>1 DEF TypeOK, Object
  <2> DEFINE o == [inode |-> e, pos |-> 0, used_count |-> 1]
  <2>6. o \in Object /\ o.inode = e /\ o.used_count = 1
    BY Numbers DEF Object
  <2> HIDE DEF o
  <2>7. /\ f_desc_table' \in [Descs -> Object] /\ f_desc_table'[d] = o
        /\ \A c \in Descs : c # d => f_desc_table'[c] = f_desc_table[c]
    BY <2>1, <2>5, <2>6, <1>2 DEF o
  <2>8. /\ file_table' \in [Slots -> Descs \cup {NULL}] /\ file_table'[s] = d
        /\ \A fd \in Slots : fd # s => file_table'[fd] = file_table[fd]
    BY <2>1, <2>5, <1>2
  <2>9. TypeOK'
    BY <1>1, <1>2, <2>4, <2>7, <2>8 DEF TypeOK, DirRec, Object, Done
  <2>10. \A fd \in Slots : file_table[fd] # d
    BY <1>1, <2>1, <2>2 DEF Counted
  <2>11. \A c \in Descs : f_desc_table'[c].used_count = Cardinality(Users(c)')
    <3> TAKE c \in Descs
    <3>1. CASE c = d
      <4>1. Users(c)' = {s}
        BY <3>1, <2>1, <2>8, <2>10 DEF Users
      <4>2. QED
        BY <3>1, <4>1, <2>6, <2>7, FS_Singleton
    <3>2. CASE c # d
      <4>1. c # NULL
        BY Numbers
      <4>2. Users(c)' = Users(c)
        BY <3>2, <4>1, <2>1, <2>8 DEF Users
      <4>3. QED
        BY <3>2, <4>2, <2>7, <1>1 DEF Counted
    <3>3. QED
      BY <3>1, <3>2
  <2>12. \A x \in Known : dirs'[x].used = Cardinality(Holders(x)')
    <3> TAKE x \in Known
    <3>1. \A fd \in Slots : fd # s /\ file_table[fd] # NULL =>
             /\ file_table'[fd] = file_table[fd] /\ file_table[fd] \in Descs
             /\ f_desc_table'[file_table'[fd]] = f_desc_table[file_table[fd]]
      BY <2>5, <2>7, <2>8, <2>10
    <3>2. file_table'[s] # NULL /\ f_desc_table'[file_table'[s]].inode = e
      BY <2>2, <2>6, <2>7, <2>8
    <3>3. CASE x = e
      <4>1. Holders(x)' = Holders(x) \cup {s}
        BY <3>1, <3>2, <3>3, <2>1, <2>8 DEF Holders
      <4>2. s \notin Holders(x) /\ Holders(x) \subseteq Slots
        BY <2>1 DEF Holders
      <4>3. Cardinality(Holders(x) \cup {s}) = Cardinality(Holders(x)) + 1
        BY <4>2, <2>1, SlotSets
      <4>4. QED
        BY <3>3, <4>1, <4>3, <2>4, <1>1 DEF Counted
    <3>4. CASE x # e
      <4>1. Holders(x)' = Holders(x)
        BY <3>1, <3>2, <3>4, <2>1, <2>8 DEF Holders
      <4>2. QED
        BY <3>4, <4>1, <2>4, <1>1 DEF Counted
    <3>5. QED
      BY <3>3, <3>4
  <2>13. \A fd \in Slots : file_table'[fd] # NULL => f_desc_table'[file_table'[fd]].inode # NULL
    <3> TAKE fd \in Slots
    <3>1. CASE fd = s
      BY <3>1, <2>2, <2>6, <2>7, <2>8
    <3>2. CASE fd # s
      <4>1. file_table'[fd] = file_table[fd] /\ file_table[fd] # d
        BY <3>2, <2>8, <2>10
      <4>2. QED
        BY <4>1, <2>5, <2>7, <1>1 DEF Counted
    <3>3. QED
      BY <3>1, <3>2
  <2>14. Counted'
    BY <2>4, <2>11, <2>12, <2>13 DEF Counted
  <2>15. TreeSound' /\ Links'
    BY <1>1, <2>4, TreeKept
  <2>16. QED
    BY <2>9, <2>14, <2>15 DEF IInv, RefCounts, Counted, Users, Holders
<1> DEFINE e == namei(p)
<1>3. e # WILD => e \in Known
  BY <1>1, NameiAnswers
<1> HIDE DEF e
<1>4. QED
  BY <1>2, <1>3, FirstFree, NothingDone DEF sys_open, e

\* One descriptor more, or one less, on an object.
LEMMA CountInv ==
  ASSUME IInv, NEW fd \in Slots, file_table[fd] # NULL, NEW k \in {-1, 1}, CountUses(fd, k),
         NEW s \in Slots, NEW t, file_table' = [file_table EXCEPT ![s] = t],
         \/ k = 1 /\ file_table[s] = NULL /\ t = file_table[fd]
         \/ k = -1 /\ s = fd /\ t = NULL
  PROVE  IInv'
<1>1. TypeOK /\ Counted /\ TreeSound /\ Links
  BY RefCountsIs DEF IInv
<1>0. PICK d, e : d = file_table[fd] /\ e = f_desc_table[d].inode
  OBVIOUS
<1>2. f_desc_table \in [Descs -> Object] /\ file_table \in [Slots -> Descs \cup {NULL}]
  BY <1>1 DEF TypeOK, Object
<1>3. d \in Descs /\ d # NULL /\ f_desc_table[d] \in Object /\ e \in Known /\ e # NULL
  BY <1>0, <1>1, <1>2 DEF Counted, Object
<1>4. /\ f_desc_table' = [f_desc_table EXCEPT ![d].used_count = @ + k]
      /\ dirs' = [dirs EXCEPT ![e].used = @ + k]
      /\ UNCHANGED <<root, pwd, sb_table>> /\ Done
  BY <1>0 DEF CountUses
<1>5. /\ Users(d) \subseteq Slots /\ Holders(e) \subseteq Slots
      /\ fd \in Users(d) /\ fd \in Holders(e)
      /\ Cardinality(Users(d)) >= 1 /\ Cardinality(Users(d)) \in Nat
      /\ Cardinality(Holders(e)) >= 1 /\ Cardinality(Holders(e)) \in Nat
  <2>1. /\ Users(d) \subseteq Slots /\ Holders(e) \subseteq Slots
        /\ fd \in Users(d) /\ fd \in Holders(e)
    BY <1>0, <1>3 DEF Users, Holders
  <2>2. QED
    BY <2>1, SlotSets
<1>6. /\ f_desc_table[d].used_count = Cardinality(Users(d))
      /\ dirs[e].used = Cardinality(Holders(e))
      /\ f_desc_table[d].used_count + k \in Nat /\ dirs[e].used + k \in Nat
  <2>1. /\ f_desc_table[d].used_count = Cardinality(Users(d))
        /\ dirs[e].used = Cardinality(Holders(e))
    BY <1>1, <1>3 DEF Counted
  <2>2. QED
    BY <2>1, <1>5
<1>7. /\ dirs' \in Seq(DirRec) /\ Len(dirs') = Len(dirs) /\ Known' = Known
      /\ \A x \in Known : /\ SameLinks(dirs'[x], dirs[x])
                          /\ dirs'[x].used = IF x = e THEN dirs[e].used + k ELSE dirs[x].used
  <2>1. dirs' = [dirs EXCEPT ![e].used = dirs[e].used + k]
    BY <1>4
  <2>2. QED
    BY <2>1, <1>1, <1>3, <1>6, UseEntry
<1> DEFINE o == [f_desc_table[d] EXCEPT !.used_count = @ + k]
<1>8. /\ o \in Object /\ o.inode = f_desc_table[d].inode
      /\ o.used_count = f_desc_table[d].used_count + k
  BY <1>3, <1>6 DEF Object
<1>9. f_desc_table' = [f_desc_table EXCEPT ![d] = o]
  BY <1>4
<1> HIDE DEF o
<1>10. /\ f_desc_table' \in [Descs -> Object] /\ f_desc_table'[d] = o
       /\ \A c \in Descs : c # d => f_desc_table'[c] = f_desc_table[c]
  BY <1>2, <1>3, <1>8, <1>9
<1>11. /\ file_table' \in [Slots -> Descs \cup {NULL}] /\ file_table'[s] = t
       /\ \A x \in Slots : x # s => file_table'[x] = file_table[x]
  BY <1>0, <1>2, <1>3
<1>12. \A c \in Descs : f_desc_table'[c].inode = f_desc_table[c].inode
  BY <1>8, <1>10
<1>13. TypeOK'
  BY <1>1, <1>4, <1>7, <1>10, <1>11 DEF TypeOK, DirRec, Object, Done
\* How the two sets of descriptors change.
<1>14. /\ k = 1 => /\ s \notin Users(d) /\ s \notin Holders(e)
                   /\ Users(d)' = Users(d) \cup {s} /\ Holders(e)' = Holders(e) \cup {s}
       /\ k = -1 => /\ s \in Users(d) /\ s \in Holders(e)
                    /\ Users(d)' = Users(d) \ {s} /\ Holders(e)' = Holders(e) \ {s}
       /\ \A c \in Descs : c # d => Users(c)' = Users(c)
       /\ \A x \in Known : x # e => Holders(x)' = Holders(x)
  <2>1. \A x \in Slots : file_table[x] # NULL =>
           f_desc_table'[file_table[x]].inode = f_desc_table[file_table[x]].inode
    BY <1>2, <1>12
  <2>2. f_desc_table[d].inode = e /\ file_table[fd] = d /\ NULL \notin Descs
    BY <1>0, Numbers
  <2>3. CASE k = 1
    <3>1. file_table[s] = NULL /\ file_table'[s] = d /\ k # -1
      BY <2>3, <2>2, <1>11
    <3>2. s \notin Users(d) /\ s \notin Holders(e)
      BY <3>1, <1>3 DEF Users, Holders
    <3>3. \A c \in Descs : Users(c)' = IF c = d THEN Users(c) \cup {s} ELSE Users(c)
      BY <3>1, <2>2, <1>11 DEF Users
    <3>4. \A x \in Known : Holders(x)' = IF x = e THEN Holders(x) \cup {s} ELSE Holders(x)
      BY <3>1, <2>1, <2>2, <1>3, <1>11, <1>12 DEF Holders
    <3>5. QED
      BY <3>1, <3>2, <3>3, <3>4, <1>3
  <2>4. CASE k = -1
    <3>1. file_table[s] = d /\ s = fd /\ file_table'[s] = NULL /\ k # 1
      BY <2>4, <2>2, <1>11
    <3>2. s \in Users(d) /\ s \in Holders(e)
      BY <3>1, <1>5
    <3>3. \A c \in Descs : Users(c)' = IF c = d THEN Users(c) \ {s} ELSE Users(c)
      BY <3>1, <2>2, <1>11 DEF Users
    <3>4. \A x \in Known : Holders(x)' = IF x = e THEN Holders(x) \ {s} ELSE Holders(x)
      BY <3>1, <2>1, <2>2, <1>3, <1>11, <1>12 DEF Holders
    <3>5. QED
      BY <3>1, <3>2, <3>3, <3>4, <1>3
  <2>5. QED
    BY <2>3, <2>4
<1>15. /\ Cardinality(Users(d)') = Cardinality(Users(d)) + k
       /\ Cardinality(Holders(e)') = Cardinality(Holders(e)) + k
  <2>1. CASE k = 1
    BY <2>1, <1>5, <1>14, SlotSets
  <2>2. CASE k = -1
    BY <2>2, <1>5, <1>14, SlotSets
  <2>3. QED
    BY <2>1, <2>2
<1>16. \A c \in Descs : f_desc_table'[c].used_count = Cardinality(Users(c)')
  BY <1>1, <1>6, <1>8, <1>10, <1>14, <1>15 DEF Counted
<1>17. \A x \in Known : dirs'[x].used = Cardinality(Holders(x)')
  BY <1>1, <1>6, <1>7, <1>14, <1>15 DEF Counted
<1>18. \A x \in Slots : file_table'[x] # NULL => f_desc_table'[file_table'[x]].inode # NULL
  <2>1. t # NULL => t = d
    BY <1>0
  <2>2. \A c \in Descs : f_desc_table[c].inode # NULL => f_desc_table'[c].inode # NULL
    BY <1>12
  <2>3. QED
    BY <2>1, <2>2, <1>1, <1>2, <1>3, <1>11 DEF Counted
<1>19. Counted'
  BY <1>7, <1>16, <1>17, <1>18 DEF Counted
<1>20. TreeSound' /\ Links'
  BY <1>1, <1>7, TreeKept
<1>21. QED
  BY <1>13, <1>19, <1>20 DEF IInv, RefCounts, Counted, Users, Holders

LEMMA CloseInv ==
  ASSUME IInv, NEW fd \in Slots, sys_close(fd)
  PROVE  IInv'
<1>1. CASE file_table[fd] = NULL
  BY <1>1, NothingDone DEF sys_close
<1>2. CASE file_table[fd] # NULL
  <2>1. CountUses(fd, -1) /\ file_table' = [file_table EXCEPT ![fd] = NULL]
    BY <1>2 DEF sys_close
  <2>2. QED
    BY <1>2, <2>1, CountInv
<1>3. QED
  BY <1>1, <1>2

LEMMA DupInv ==
  ASSUME IInv, NEW fd \in Slots, sys_dup(fd)
  PROVE  IInv'
<1>1. CASE FreeSlots = {} \/ file_table[fd] = NULL
  BY <1>1, NothingDone DEF sys_dup
<1>2. CASE FreeSlots # {} /\ file_table[fd] # NULL
  <2> DEFINE s == First(FreeSlots)
  <2>1. CountUses(fd, 1) /\ file_table' = [file_table EXCEPT ![s] = file_table[fd]]
    BY <1>2 DEF sys_dup
  <2>2. s \in Slots /\ file_table[s] = NULL
    <3> HIDE DEF s
    <3>1. s \in FreeSlots
      BY <1>2, FirstFree DEF s
    <3>2. QED
      BY <3>1 DEF FreeSlots
  <2> HIDE DEF s
  <2>3. QED
    BY <1>2, <2>1, <2>2, CountInv
<1>3. QED
  BY <1>1, <1>2

LEMMA WrapIs == \A x \in Int : Wrap(x) \in -(MaxPos+1)..MaxPos
<1> SUFFICES ASSUME NEW x \in Int PROVE Wrap(x) \in -(MaxPos+1)..MaxPos
  OBVIOUS
<1> DEFINE m == 2*(MaxPos+1)
           y == x + MaxPos + 1
<1>1. m \in Nat \ {0} /\ y \in Int /\ MaxPos \in Nat
  BY VfsAssumption
<1>2. Wrap(x) = (y % m) - (MaxPos+1) /\ m = 2*(MaxPos+1)
  BY DEF Wrap
<1> HIDE DEF m, y
<1>3. y % m \in 0..m-1
  BY <1>1
<1> DEFINE z == y % m
<1>4. z \in 0..m-1 /\ Wrap(x) = z - (MaxPos+1)
  BY <1>2, <1>3
<1> HIDE DEF z
<1>5. QED
  BY <1>1, <1>2, <1>4

LEMMA SeekInv ==
  ASSUME IInv, NEW fd \in Slots \cup {NSlots}, NEW off \in Offsets, NEW whence \in 0..3,
         sys_lseek(fd, off, whence)
  PROVE  IInv'
<1>1. TypeOK /\ Counted /\ TreeSound /\ Links
  BY RefCountsIs DEF IInv
<1>2. CASE Fail
  BY <1>2, NothingDone
<1>3. CASE ~Fail
  <2>0. PICK d, n : d = file_table[fd]
                    /\ n = Wrap(IF whence = 1 THEN f_desc_table[d].pos + off ELSE off)
    OBVIOUS
  <2>1. /\ Opened(fd) /\ f_desc_table' = [f_desc_table EXCEPT ![d].pos = n]
        /\ result' = IF n = -1 THEN "err" ELSE "ok"
        /\ UNCHANGED <<tree, file_table, wild>>
    BY <1>3, <2>0 DEF sys_lseek
  <2>2. f_desc_table \in [Descs -> Object] /\ file_table \in [Slots -> Descs \cup {NULL}]
    BY <1>1 DEF TypeOK, Object
  <2>3. d \in Descs /\ f_desc_table[d] \in Object
    BY <2>0, <2>1, <2>2 DEF Opened
  <2>4. n \in -(MaxPos+1)..MaxPos
    <3>1. f_desc_table[d].pos \in Int /\ off \in Int
      BY <2>3, VfsAssumption DEF Object
    <3>2. QED
      BY <3>1, <2>0, WrapIs
  <2> DEFINE o == [f_desc_table[d] EXCEPT !.pos = n]
  <2>5. /\ o \in Object /\ o.inode = f_desc_table[d].inode
        /\ o.used_count = f_desc_table[d].used_count
    BY <2>3, <2>4 DEF Object
  <2>6. f_desc_table' = [f_desc_table EXCEPT ![d] = o]
    BY <2>1
  <2> HIDE DEF o
  <2>7. /\ f_desc_table' \in [Descs -> Object]
        /\ \A c \in Descs : /\ f_desc_table'[c].inode = f_desc_table[c].inode
                            /\ f_desc_table'[c].used_count = f_desc_table[c].used_count
    BY <2>2, <2>3, <2>5, <2>6
  <2>8. /\ dirs' = dirs /\ root' = root /\ pwd' = pwd /\ sb_table' = sb_table /\ Known' = Known
        /\ file_table' = file_table /\ wild' = wild /\ result' \in {"ok", "err"}
    BY <2>1 DEF tree, Known
  <2>9. TypeOK'
    BY <1>1, <2>7, <2>8 DEF TypeOK, Object
  <2>10. (\A c \in Descs : Users(c)' = Users(c)) /\ (\A e \in Known : Holders(e)' = Holders(e))
    <3>1. \A c \in Descs : Users(c)' = Users(c)
      BY <2>8 DEF Users
    <3>2. \A x \in Slots : file_table[x] # NULL =>
            f_desc_table'[file_table[x]].inode = f_desc_table[file_table[x]].inode
      BY <2>2, <2>7
    <3>3. \A e \in Known : Holders(e)' = Holders(e)
      BY <2>8, <3>2 DEF Holders
    <3>4. QED
      BY <3>1, <3>3
  <2>11. Counted'
    BY <1>1, <2>2, <2>7, <2>8, <2>10 DEF Counted
  <2>12. TreeSound' /\ Links'
    BY <1>1, <2>8, TreeKept DEF SameLinks
  <2>13. QED
    BY <2>9, <2>11, <2>12 DEF IInv, RefCounts, Counted, Users, Holders
<1>4. QED
  BY <1>2, <1>3

LEMMA ChangeDirInv ==
  ASSUME IInv, NEW p \in Paths, sys_chroot(p) \/ sys_chdir(p)
  PROVE  IInv'
<1>1. TypeOK /\ Counted /\ TreeSound /\ Links
  BY RefCountsIs DEF IInv
<1>2. CASE GoWild
  BY <1>2, NothingDone
<1>3. CASE ~GoWild
  <2>1. /\ namei(p) # WILD /\ UNCHANGED <<dirs, sb_table, files>> /\ Done
        /\ root' \in {root, namei(p)} /\ pwd' \in {pwd, namei(p)}
    BY <1>3 DEF sys_chroot, sys_chdir
  <2>2. namei(p) \in Known
    BY <1>1, <2>1, NameiAnswers
  <2>3. /\ dirs' = dirs /\ sb_table' = sb_table /\ f_desc_table' = f_desc_table /\ Known' = Known
        /\ file_table' = file_table /\ wild' = wild /\ result' = "ok"
    BY <2>1 DEF files, Done, Known
  <2>4. TypeOK'
    BY <1>1, <2>1, <2>2, <2>3 DEF TypeOK
  <2>5. Counted'
    BY <1>1, <2>3 DEF Counted, Users, Holders
  <2>6. TreeSound' /\ Links'
    BY <1>1, <2>3, TreeKept DEF SameLinks
  <2>7. QED
    BY <2>4, <2>5, <2>6 DEF IInv, RefCounts, Counted, Users, Holders
<1>4. QED
  BY <1>2, <1>3

-----------------------------------------------------------------------------
(* Growing the tree.                                                        *)

\* A new entry that nobody uses leaves the counts right.
LEMMA AddedCounts ==
  ASSUME TypeOK, Counted, NEW e, e \notin Known, e \in Entries, Known' = Known \cup {e},
         \A x \in Known : dirs'[x].used = dirs[x].used, dirs'[e].used = 0,
         UNCHANGED <<f_desc_table, file_table>>
  PROVE  Counted'
<1>1. f_desc_table \in [Descs -> Object] /\ file_table \in [Slots -> Descs \cup {NULL}]
  BY DEF TypeOK, Object
<1>2. \A d \in Descs : f_desc_table[d].inode \in Known \cup {NULL}
  BY <1>1 DEF Object
<1>3. \A d \in Descs : f_desc_table[d].inode # e
  BY <1>2, Numbers
<1>4. Holders(e)' = {}
  BY <1>1, <1>3 DEF Holders
<1>5. \A x \in Known : Holders(x)' = Holders(x)
  BY DEF Holders
<1>6. \A d \in Descs : Users(d)' = Users(d)
  BY DEF Users
<1>7. QED
  BY <1>4, <1>5, <1>6, FS_EmptySet DEF Counted

LEMMA MkdirInv ==
  ASSUME IInv, NEW p \in Paths, sys_mkdir(p)
  PROVE  IInv'
<1>1. TypeOK /\ Counted /\ TreeSound /\ Links
  BY RefCountsIs DEF IInv
<1>2. ASSUME NEW d \in Known, NEW e, e = NextInode, e =< NInodes, NEW name \in Names,
             dirs' = Append([dirs EXCEPT ![d].children = <<e>> \o @],
                            NewDir(name, d, dirs[d].sb)),
             UNCHANGED <<root, pwd, sb_table, files>>, Done
      PROVE  IInv'
  <2> DEFINE c == dirs[d].children
             r == [dirs[d] EXCEPT !.children = <<e>> \o c]
             q == NewDir(name, d, dirs[d].sb)
  <2>0. c = dirs[d].children /\ r = [dirs[d] EXCEPT !.children = <<e>> \o c]
        /\ q = NewDir(name, d, dirs[d].sb)
    OBVIOUS
  <2> HIDE DEF c, r, q
  <2>1. /\ e \notin Known /\ e \in Entries /\ Known \subseteq Entries
        /\ \A x \in Known : x < e /\ x >= 1
    <3> DEFINE n == Len(dirs)
    <3>1. n \in Nat /\ e = n + 1 /\ \A x \in Known : x \in Nat /\ x >= 1 /\ x <= n
      BY <1>1, <1>2, KnownIs DEF NextInode
    <3>2. Known \subseteq Entries
      BY <1>1, KnownIs
    <3> HIDE DEF n
    <3>3. e \notin Known /\ \A x \in Known : x < e /\ x >= 1
      BY <3>1
    <3>4. e \in Entries
      BY <1>2, <3>1, VfsAssumption DEF Entries
    <3>5. QED
      BY <3>2, <3>3, <3>4
  <2>2. dirs[d] \in DirRec
    BY <1>1, EntryIs
  <2>3. c \in Seq(Known) /\ c \in Seq(Entries)
    BY <2>0, <2>2, <1>1 DEF Links, DirRec
  <2>4. /\ <<e>> \o c \in Seq(Entries) /\ DOMAIN (<<e>> \o c) = 1..Len(c)+1 /\ Len(c) \in Nat
        /\ (<<e>> \o c)[1] = e /\ \A i \in 1..Len(c) : (<<e>> \o c)[i + 1] = c[i]
    BY <2>1, <2>3
  <2>5. /\ r \in DirRec /\ r.children = <<e>> \o c /\ r.parent = dirs[d].parent
        /\ r.sb = dirs[d].sb /\ r.ops = dirs[d].ops /\ r.mounted = dirs[d].mounted
        /\ r.used = dirs[d].used
    <3> DEFINE ch == <<e>> \o c
    <3>1. ch \in Seq(Entries)
      BY <2>4
    <3> HIDE DEF ch
    <3>2. r = [dirs[d] EXCEPT !.children = ch]
      BY <2>0 DEF ch
    <3>3. /\ r \in DirRec /\ r.children = ch /\ r.parent = dirs[d].parent
          /\ r.sb = dirs[d].sb /\ r.ops = dirs[d].ops /\ r.mounted = dirs[d].mounted
          /\ r.used = dirs[d].used
      BY <3>1, <3>2, <2>2 DEF DirRec
    <3>4. QED
      BY <3>3 DEF ch
  <2>6. /\ q.children = <<>> /\ q.parent = d /\ q.sb = dirs[d].sb /\ q.ops = FALSE
        /\ q.mounted = NULL /\ q.used = 0
    BY <2>0 DEF NewDir
  <2>7. q \in DirRec
    <3>1. d \in Entries /\ dirs[d].sb \in Entries /\ <<>> \in Seq(Entries) /\ 0 \in Nat
      BY <2>1, <2>2 DEF DirRec
    <3>2. QED
      BY <3>1, <2>0 DEF NewDir, DirRec, NULL
  <2>8. dirs' = Append([dirs EXCEPT ![d] = r], q)
    BY <1>2, <2>0
  <2>9. /\ dirs' \in Seq(DirRec) /\ Len(dirs') = Len(dirs) + 1 /\ Known' = Known \cup {e}
        /\ dirs'[d] = r /\ dirs'[e] = q
        /\ \A x \in Known : x # d => dirs'[x] = dirs[x]
    <3>1. TypeOK /\ e = NextInode /\ r \in DirRec /\ q \in DirRec
      BY <1>1, <1>2, <2>5, <2>7
    <3>2. Grown(d, e, r, q)
      BY <2>8, <3>1, AddEntry
    <3>3. QED
      BY <3>2 DEF Grown
  <2>10. /\ UNCHANGED <<root, pwd, sb_table, f_desc_table, file_table, wild>> /\ result' = "ok"
    BY <1>2 DEF files, Done
  <2>11. TypeOK'
    <3>1. Len(dirs') \in Entries
      <4>1. Len(dirs') = e
        BY <1>2, <2>9 DEF NextInode
      <4>2. QED
        BY <4>1, <2>1
    <3>2. /\ f_desc_table' \in [Descs -> [inode : Known' \cup {NULL}, pos : -(MaxPos+1)..MaxPos,
                                          used_count : Nat]]
          /\ root' \in Known' /\ pwd' \in Known'
      BY <1>1, <2>9, <2>10 DEF TypeOK
    <3>3. sb_table' \in [ToSet(file_system_table) -> Known' \cup {NULL}]
      BY <1>1, <2>9, <2>10 DEF TypeOK
    <3>4. QED
      BY <1>1, <2>9, <2>10, <3>1, <3>2, <3>3 DEF TypeOK, DirRec
  <2>12. Counted'
    <3>1. \A x \in Known : dirs'[x].used = dirs[x].used
      BY <2>5, <2>9
    <3>2. QED
      BY <1>1, <2>1, <2>6, <2>9, <2>10, <3>1, AddedCounts
  <2>13. \A x \in Known : /\ dirs'[x].parent = dirs[x].parent /\ dirs'[x].mounted = dirs[x].mounted
                          /\ dirs'[x].sb = dirs[x].sb /\ dirs'[x].ops = dirs[x].ops
                          /\ x # d => dirs'[x].children = dirs[x].children
    BY <2>5, <2>9
  <2>14. dirs'[d].children = <<e>> \o c
    BY <2>5, <2>9
  <2>15. Links'
    <3>1. \A x \in Known : x # d => dirs'[x].children \in Seq(Known')
      BY <1>1, <2>9, <2>13 DEF Links
    <3>2. dirs'[d].children \in Seq(Known')
      BY <2>3, <2>9, <2>14
    <3>3. \A x \in Known : /\ dirs'[x].parent \in Known' /\ dirs'[x].mounted \in Known' \cup {NULL}
                           /\ dirs'[x].mounted # NULL => x < dirs'[x].mounted
      BY <1>1, <2>9, <2>13 DEF Links
    <3>4. <<>> \in Seq(Known')
      OBVIOUS
    <3>5. dirs'[e].children = <<>> /\ dirs'[e].parent \in Known' /\ dirs'[e].mounted = NULL
      BY <2>6, <2>9
    <3>6. QED
      BY <2>9, <3>1, <3>2, <3>3, <3>4, <3>5 DEF Links
  <2>16. \A x \in Known : e \notin ToSet(dirs[x].children) /\ dirs[x].mounted # e
    <3>1. \A s \in Seq(Known) : ToSet(s) \subseteq Known
      BY DEF ToSet
    <3>2. QED
      BY <3>1, <1>1, <2>1, Numbers DEF Links
  <2>17. ToSet(<<e>> \o c) = {e} \cup ToSet(c)
    <3> DEFINE w == <<e>> \o c
    <3>1. DOMAIN w = 1..Len(c)+1 /\ DOMAIN c = 1..Len(c) /\ Len(c) \in Nat
          /\ w[1] = e /\ \A i \in 1..Len(c) : w[i + 1] = c[i]
      BY <2>3, <2>4
    <3> HIDE DEF w
    <3>2. ASSUME NEW i \in DOMAIN w PROVE w[i] \in {e} \cup ToSet(c)
      <4>1. CASE i = 1
        BY <4>1, <3>1
      <4>2. CASE i # 1
        <5>1. i - 1 \in 1..Len(c) /\ (i - 1) + 1 = i
          BY <4>2, <3>1
        <5>2. w[i] = c[i - 1] /\ i - 1 \in DOMAIN c
          BY <5>1, <3>1
        <5>3. QED
          BY <5>2 DEF ToSet
      <4>3. QED
        BY <4>1, <4>2
    <3>3. e \in ToSet(w)
      BY <3>1 DEF ToSet
    <3>4. ASSUME NEW i \in DOMAIN c PROVE c[i] \in ToSet(w)
      <4>1. i + 1 \in DOMAIN w /\ w[i + 1] = c[i]
        BY <3>1
      <4>2. QED
        BY <4>1 DEF ToSet
    <3>5. ToSet(w) \subseteq {e} \cup ToSet(c)
      BY <3>2 DEF ToSet
    <3>6. {e} \cup ToSet(c) \subseteq ToSet(w)
      BY <3>3, <3>4 DEF ToSet
    <3>7. QED
      BY <3>5, <3>6 DEF w
  <2>18. TreeSound'
    <3> DEFINE in(y) == {x \in Known : y \in ToSet(dirs[x].children)}
               covered(y) == {x \in Known : dirs[x].mounted = y}
               in1(y) == {x \in Known' : y \in ToSet(dirs'[x].children)}
               covered1(y) == {x \in Known' : dirs'[x].mounted = y}
    <3> SUFFICES ASSUME NEW y \in Known'
                 PROVE
           /\ \/ dirs'[y].ops /\ dirs'[y].parent = y /\ dirs'[y].sb = y /\ in1(y) = {}
              \/ ~dirs'[y].ops /\ in1(y) = {dirs'[y].parent} /\ dirs'[y].parent < y
                 /\ dirs'[y].sb = dirs'[dirs'[y].parent].sb
           /\ \A i, j \in DOMAIN dirs'[y].children :
                i < j => dirs'[y].children[i] > dirs'[y].children[j]
           /\ IF dirs'[y].ops /\ y # 1
                THEN Cardinality(covered1(y)) = 1 /\ \A x \in covered1(y) : x < y
                ELSE covered1(y) = {}
      BY DEF TreeSound
    <3>0. \A z : z \notin ToSet(dirs'[e].children)
      BY <2>6, <2>9 DEF ToSet
    <3>1. CASE y = e
      <4>1. in1(y) = {d}
        <5>1. \A x \in Known : e \in ToSet(dirs'[x].children) <=> x = d
          BY <2>13, <2>14, <2>16, <2>17
        <5>2. QED
          BY <3>0, <3>1, <2>9, <5>1
      <4>2. covered1(y) = {}
        <5>1. \A x \in Known : dirs'[x].mounted # e
          BY <2>13, <2>16
        <5>2. dirs'[e].mounted # e
          BY <2>1, <2>6, <2>9, Numbers
        <5>3. QED
          BY <3>1, <2>9, <5>1, <5>2
      <4>3. DOMAIN dirs'[e].children = {}
        BY <2>6, <2>9
      <4>4. d < e /\ dirs'[d].sb = dirs[d].sb
        BY <2>1, <2>13
      <4> HIDE DEF in1, covered1
      <4>5. QED
        BY <3>1, <4>1, <4>2, <4>3, <4>4, <2>6, <2>9
    <3>2. CASE y \in Known
      <4>0. y # e /\ y # NULL
        BY <3>2, <2>1, Numbers
      <4>1. in1(y) = in(y)
        <5>1. \A x \in Known : y \in ToSet(dirs'[x].children) <=> y \in ToSet(dirs[x].children)
          BY <4>0, <2>0, <2>13, <2>14, <2>17
        <5>2. QED
          BY <3>0, <2>9, <5>1
      <4>2. covered1(y) = covered(y)
        BY <4>0, <2>6, <2>9, <2>13
      <4>3. dirs[y].parent \in Known
        BY <3>2, <1>1 DEF Links
      <4>4. /\ \/ dirs[y].ops /\ dirs[y].parent = y /\ dirs[y].sb = y /\ in(y) = {}
               \/ ~dirs[y].ops /\ in(y) = {dirs[y].parent} /\ dirs[y].parent < y
                  /\ dirs[y].sb = dirs[dirs[y].parent].sb
            /\ \A i, j \in DOMAIN dirs[y].children :
                 i < j => dirs[y].children[i] > dirs[y].children[j]
            /\ IF dirs[y].ops /\ y # 1
                 THEN Cardinality(covered(y)) = 1 /\ \A x \in covered(y) : x < y
                 ELSE covered(y) = {}
        BY <3>2, <1>1 DEF TreeSound
      <4>5. /\ dirs'[y].ops = dirs[y].ops /\ dirs'[y].parent = dirs[y].parent
            /\ dirs'[y].sb = dirs[y].sb
            /\ dirs'[dirs[y].parent].sb = dirs[dirs[y].parent].sb
        BY <3>2, <4>3, <2>13
      <4>6. \A i, j \in DOMAIN dirs'[y].children :
               i < j => dirs'[y].children[i] > dirs'[y].children[j]
        <5>1. CASE y # d
          BY <5>1, <3>2, <4>4, <2>13
        <5>2. CASE y = d
          <6> DEFINE w == <<e>> \o c
          <6>1. /\ DOMAIN w = 1..Len(c)+1 /\ DOMAIN c = 1..Len(c) /\ Len(c) \in Nat
                /\ w[1] = e /\ \A i \in 1..Len(c) : w[i + 1] = c[i]
            BY <2>3, <2>4
          <6>2. \A i, j \in DOMAIN c : i < j => c[i] > c[j]
            BY <5>2, <4>4, <2>0
          <6>3. \A i \in DOMAIN c : c[i] < e /\ c[i] \in Nat
            BY <2>1, <2>3, <1>1, KnownIs
          <6>4. e \in Nat
            BY <2>1 DEF Entries
          <6>5. dirs'[y].children = w
            BY <5>2, <2>14
          <6> HIDE DEF w
          <6>6. ASSUME NEW i \in DOMAIN w, NEW j \in DOMAIN w, i < j PROVE w[i] > w[j]
            <7>1. j - 1 \in DOMAIN c /\ w[j] = c[j - 1]
              <8>1. j - 1 \in 1..Len(c) /\ (j - 1) + 1 = j
                BY <6>1, <6>6
              <8>2. QED
                BY <8>1, <6>1
            <7>2. CASE i = 1
              BY <7>1, <7>2, <6>1, <6>3, <6>4
            <7>3. CASE i # 1
              <8>1. i - 1 \in 1..Len(c) /\ (i - 1) + 1 = i /\ i - 1 < j - 1
                BY <7>3, <6>1, <6>6
              <8>2. w[i] = c[i - 1] /\ i - 1 \in DOMAIN c
                BY <8>1, <6>1
              <8>3. QED
                BY <8>1, <8>2, <7>1, <6>2
            <7>4. QED
              BY <7>2, <7>3
          <6>7. QED
            BY <6>5, <6>6
        <5>3. QED
          BY <5>1, <5>2
      <4> HIDE DEF in, in1, covered, covered1
      <4>7. QED
        BY <4>1, <4>2, <4>4, <4>5, <4>6
    <3>3. QED
      BY <3>1, <3>2, <2>9
  <2>19. QED
    BY <2>11, <2>12, <2>15, <2>18 DEF IInv, RefCounts, Counted, Users, Holders
<1>3. Last(p.comps) \in Names
  <2>1. p.comps \in Seq(STRING) /\ p.comps # <<>>
    BY VfsAssumption
  <2>2. Last(p.comps) \in ToSet(p.comps)
    <3> DEFINE n == Len(p.comps)
    <3>1. DOMAIN p.comps = 1..n /\ n \in Nat /\ n # 0
      BY <2>1
    <3> HIDE DEF n
    <3>2. n \in DOMAIN p.comps
      BY <3>1
    <3>3. QED
      BY <3>2 DEF ToSet, Last, n
  <2>3. QED
    BY <2>2 DEF Names
<1>4. root \in Known
  BY <1>1 DEF TypeOK
<1> DEFINE d == get_parent_dir_entry(p, root)
<1>5. d # WILD => d \in Known
  BY <1>1, <1>4, ParentAnswers
<1> HIDE DEF d
<1>6. QED
  BY <1>2, <1>3, <1>5, NothingDone DEF sys_mkdir, d

LEMMA NewRootIs ==
  ASSUME NEW e \in Entries
  PROVE  /\ NewRoot(e) \in DirRec /\ NewRoot(e).children = <<>> /\ NewRoot(e).parent = e
         /\ NewRoot(e).sb = e /\ NewRoot(e).ops = TRUE /\ NewRoot(e).mounted = NULL
         /\ NewRoot(e).used = 0
<1>1. /\ NewRoot(e).children = <<>> /\ NewRoot(e).parent = e
      /\ NewRoot(e).sb = e /\ NewRoot(e).ops = TRUE /\ NewRoot(e).mounted = NULL
      /\ NewRoot(e).used = 0
  BY DEF NewRoot
<1>2. "/" \in Names /\ <<>> \in Seq(Entries) /\ 0 \in Nat /\ TRUE \in BOOLEAN
  BY DEF Names
<1>3. NewRoot(e) \in DirRec
  BY <1>2 DEF NewRoot, DirRec, NULL
<1>4. QED
  BY <1>1, <1>3

LEMMA MountInv ==
  ASSUME IInv, NEW dev \in DevPaths, NEW p \in Paths, NEW fs \in FsNames, sys_mount(dev, p, fs)
  PROVE  IInv'
<1>1. TypeOK /\ Counted /\ TreeSound /\ Links
  BY RefCountsIs DEF IInv
<1>2. ASSUME NEW d \in Known, NEW e, e = NextInode, e =< NInodes, dirs[d].mounted = NULL,
             fs \in ToSet(file_system_table),
             dirs' = Append([dirs EXCEPT ![d].mounted = e], NewRoot(e)),
             sb_table' = [sb_table EXCEPT ![fs] = e],
             UNCHANGED <<root, pwd, files>>, Done
      PROVE  IInv'
  <2> DEFINE r == [dirs[d] EXCEPT !.mounted = e]
             q == NewRoot(e)
  <2>1. /\ e \notin Known /\ e \in Entries /\ Known \subseteq Entries /\ e = Len(dirs) + 1
        /\ \A x \in Known : x < e /\ x >= 1
    <3> DEFINE n == Len(dirs)
    <3>1. n \in Nat /\ e = n + 1 /\ \A x \in Known : x \in Nat /\ x >= 1 /\ x <= n
      BY <1>1, <1>2, KnownIs DEF NextInode
    <3>2. Known \subseteq Entries
      BY <1>1, KnownIs
    <3> HIDE DEF n
    <3>3. e \notin Known /\ \A x \in Known : x < e /\ x >= 1
      BY <3>1
    <3>4. e \in Entries
      BY <1>2, <3>1, VfsAssumption DEF Entries
    <3>5. QED
      BY <3>1, <3>2, <3>3, <3>4 DEF n
  <2>2. dirs[d] \in DirRec
    BY <1>1, EntryIs
  <2>3. /\ r \in DirRec /\ r.children = dirs[d].children /\ r.parent = dirs[d].parent
        /\ r.sb = dirs[d].sb /\ r.ops = dirs[d].ops /\ r.mounted = e
        /\ r.used = dirs[d].used
    BY <2>1, <2>2 DEF DirRec
  <2>4. /\ q \in DirRec /\ q.children = <<>> /\ q.parent = e /\ q.sb = e /\ q.ops = TRUE
        /\ q.mounted = NULL /\ q.used = 0
    BY <2>1, NewRootIs
  <2>5. dirs' = Append([dirs EXCEPT ![d] = r], q)
    BY <1>2
  <2> HIDE DEF r, q
  <2>6. /\ dirs' \in Seq(DirRec) /\ Len(dirs') = Len(dirs) + 1 /\ Known' = Known \cup {e}
        /\ dirs'[d] = r /\ dirs'[e] = q
        /\ \A x \in Known : x # d => dirs'[x] = dirs[x]
    <3>1. TypeOK /\ e = NextInode /\ r \in DirRec /\ q \in DirRec
      BY <1>1, <1>2, <2>3, <2>4
    <3>2. Grown(d, e, r, q)
      BY <2>5, <3>1, AddEntry
    <3>3. QED
      BY <3>2 DEF Grown
  <2>7. /\ UNCHANGED <<root, pwd, f_desc_table, file_table, wild>> /\ result' = "ok"
    BY <1>2 DEF files, Done
  <2>8. TypeOK'
    <3>1. Len(dirs') \in Entries
      BY <2>1, <2>6
    <3>2. /\ f_desc_table' \in [Descs -> [inode : Known' \cup {NULL}, pos : -(MaxPos+1)..MaxPos,
                                          used_count : Nat]]
          /\ root' \in Known' /\ pwd' \in Known'
      BY <1>1, <2>6, <2>7 DEF TypeOK
    <3>3. sb_table' \in [ToSet(file_system_table) -> Known' \cup {NULL}]
      <4>1. sb_table \in [ToSet(file_system_table) -> Known \cup {NULL}]
        BY <1>1 DEF TypeOK
      <4>2. QED
        BY <4>1, <1>2, <2>6
    <3>4. QED
      BY <1>1, <2>6, <2>7, <3>1, <3>2, <3>3 DEF TypeOK, DirRec
  <2>9. Counted'
    <3>1. \A x \in Known : dirs'[x].used = dirs[x].used
      BY <2>3, <2>6
    <3>2. QED
      BY <1>1, <2>1, <2>4, <2>6, <2>7, <3>1, AddedCounts
  <2>10. \A x \in Known : /\ dirs'[x].parent = dirs[x].parent /\ dirs'[x].children = dirs[x].children
                          /\ dirs'[x].sb = dirs[x].sb /\ dirs'[x].ops = dirs[x].ops
                          /\ dirs'[x].mounted = IF x = d THEN e ELSE dirs[x].mounted
    BY <2>3, <2>6
  <2>11. Links'
    <3>1. \A x \in Known : dirs'[x].children \in Seq(Known')
      BY <1>1, <2>6, <2>10 DEF Links
    <3>2. q.children \in Seq(Known')
      <4>1. <<>> \in Seq(Known')
        OBVIOUS
      <4>2. QED
        BY <4>1, <2>4
    <3>3. \A x \in Known : /\ dirs'[x].parent \in Known' /\ dirs'[x].mounted \in Known' \cup {NULL}
                           /\ dirs'[x].mounted # NULL => x < dirs'[x].mounted
      BY <1>1, <2>1, <2>6, <2>10 DEF Links
    <3>4. q.parent \in Known' /\ q.mounted = NULL
      BY <2>4, <2>6
    <3>5. QED
      BY <2>6, <3>1, <3>2, <3>3, <3>4 DEF Links
  <2>12. \A x \in Known : e \notin ToSet(dirs[x].children) /\ dirs[x].mounted # e
    <3>1. \A s \in Seq(Known) : ToSet(s) \subseteq Known
      BY DEF ToSet
    <3>2. QED
      BY <3>1, <1>1, <2>1, Numbers DEF Links
  <2>13. \A y : y \notin ToSet(q.children)
    BY <2>4 DEF ToSet
  <2>14. TreeSound'
    <3> DEFINE in(y) == {x \in Known : y \in ToSet(dirs[x].children)}
               covered(y) == {x \in Known : dirs[x].mounted = y}
               in1(y) == {x \in Known' : y \in ToSet(dirs'[x].children)}
               covered1(y) == {x \in Known' : dirs'[x].mounted = y}
    <3> SUFFICES ASSUME NEW y \in Known'
                 PROVE
           /\ \/ dirs'[y].ops /\ dirs'[y].parent = y /\ dirs'[y].sb = y /\ in1(y) = {}
              \/ ~dirs'[y].ops /\ in1(y) = {dirs'[y].parent} /\ dirs'[y].parent < y
                 /\ dirs'[y].sb = dirs'[dirs'[y].parent].sb
           /\ \A i, j \in DOMAIN dirs'[y].children :
                i < j => dirs'[y].children[i] > dirs'[y].children[j]
           /\ IF dirs'[y].ops /\ y # 1
                THEN Cardinality(covered1(y)) = 1 /\ \A x \in covered1(y) : x < y
                ELSE covered1(y) = {}
      BY DEF TreeSound
    <3>1. CASE y = e
      <4>1. in1(y) = {}
        BY <3>1, <2>6, <2>10, <2>12, <2>13
      <4>2. covered1(y) = {d}
        <5>1. \A x \in Known : dirs'[x].mounted = e <=> x = d
          BY <2>10, <2>12
        <5>2. dirs'[e].mounted # e
          BY <2>1, <2>4, <2>6, Numbers
        <5>3. QED
          BY <3>1, <2>6, <5>1, <5>2
      <4>3. Cardinality({d}) = 1 /\ d < e /\ e # 1
        <5>1. d < e /\ d >= 1 /\ e \in Int /\ d \in Int
          BY <2>1 DEF Entries
        <5>2. e # 1
          BY <5>1
        <5>3. Cardinality({d}) = 1
          BY FS_Singleton
        <5>4. QED
          BY <5>1, <5>2, <5>3
      <4>4. DOMAIN dirs'[e].children = {}
        BY <2>4, <2>6
      <4> HIDE DEF in1, covered1
      <4>5. QED
        BY <3>1, <4>1, <4>2, <4>3, <4>4, <2>4, <2>6
    <3>2. CASE y \in Known
      <4>1. in1(y) = in(y)
        BY <3>2, <2>6, <2>10, <2>13
      <4>2. covered1(y) = covered(y)
        <5>1. y # e /\ y # NULL
          BY <3>2, <2>1, Numbers
        <5>2. \A x \in Known : dirs'[x].mounted = y <=> dirs[x].mounted = y
          BY <1>2, <2>10, <5>1
        <5>3. dirs'[e].mounted # y
          BY <5>1, <2>4, <2>6
        <5>4. QED
          BY <2>6, <5>2, <5>3
      <4>3. dirs[y].parent \in Known
        BY <3>2, <1>1 DEF Links
      <4>4. /\ \/ dirs[y].ops /\ dirs[y].parent = y /\ dirs[y].sb = y /\ in(y) = {}
               \/ ~dirs[y].ops /\ in(y) = {dirs[y].parent} /\ dirs[y].parent < y
                  /\ dirs[y].sb = dirs[dirs[y].parent].sb
            /\ \A i, j \in DOMAIN dirs[y].children :
                 i < j => dirs[y].children[i] > dirs[y].children[j]
            /\ IF dirs[y].ops /\ y # 1
                 THEN Cardinality(covered(y)) = 1 /\ \A x \in covered(y) : x < y
                 ELSE covered(y) = {}
        BY <3>2, <1>1 DEF TreeSound
      <4>5. /\ dirs'[y].ops = dirs[y].ops /\ dirs'[y].parent = dirs[y].parent
            /\ dirs'[y].sb = dirs[y].sb /\ dirs'[y].children = dirs[y].children
            /\ dirs'[dirs[y].parent].sb = dirs[dirs[y].parent].sb
        BY <3>2, <4>3, <2>10
      <4> HIDE DEF in, in1, covered, covered1
      <4>6. QED
        BY <4>1, <4>2, <4>4, <4>5
    <3>3. QED
      BY <3>1, <3>2, <2>6
  <2>15. QED
    BY <2>8, <2>9, <2>11, <2>14 DEF IInv, RefCounts, Counted, Users, Holders
<1> DEFINE d == namei(p)
<1>3. CASE /\ fs \in ToSet(file_system_table) /\ d # WILD
           /\ dirs[d].mounted = NULL /\ NextInode =< NInodes
           /\ dirs' = Append([dirs EXCEPT ![Top[d]].mounted = NextInode], NewRoot(NextInode))
           /\ sb_table' = [sb_table EXCEPT ![fs] = NextInode]
           /\ UNCHANGED <<root, pwd, files>> /\ Done
  <2>1. d \in Known
    BY <1>1, <1>3, NameiAnswers
  <2> HIDE DEF d
  <2>2. Top[d] = d
    BY <1>1, <1>3, <2>1, TopIs DEF Covering
  <2>3. QED
    BY <1>2, <1>3, <2>1, <2>2
<1> HIDE DEF d
<1>4. QED
  BY <1>3, NothingDone DEF sys_mount, d

-----------------------------------------------------------------------------
(* The invariant.                                                          *)

LEMMA InitInv == Init => IInv
<1> SUFFICES ASSUME Init PROVE IInv
  OBVIOUS
<1>1. /\ dirs = <<NewRoot(1)>> /\ Known = {1} /\ Len(dirs) = 1 /\ dirs[1] = NewRoot(1)
  BY DEF Init, Known
<1>2. /\ NewRoot(1) \in DirRec /\ NewRoot(1).children = <<>> /\ NewRoot(1).parent = 1
      /\ NewRoot(1).sb = 1 /\ NewRoot(1).ops = TRUE /\ NewRoot(1).mounted = NULL
      /\ NewRoot(1).used = 0
  BY Numbers, NewRootIs
<1>3. TypeOK
  <2>1. dirs \in Seq(DirRec)
    <3> HIDE DEF DirRec
    <3>1. QED
      BY <1>1, <1>2
  <2>2. f_desc_table \in [Descs -> [inode : Known \cup {NULL}, pos : -(MaxPos+1)..MaxPos,
                                    used_count : Nat]]
    BY Numbers DEF Init
  <2>3. sb_table \in [ToSet(file_system_table) -> Known \cup {NULL}]
    BY <1>1 DEF Init
  <2>4. QED
    BY <1>1, <2>1, <2>2, <2>3, Numbers DEF Init, TypeOK, DirRec
<1>4. Counted
  <2>1. Cardinality({}) = 0
    BY FS_EmptySet
  <2>2. \A d \in Descs : Users(d) = {}
    BY Numbers DEF Init, Users
  <2>3. \A e \in Known : Holders(e) = {}
    BY DEF Init, Holders
  <2>4. QED
    BY <1>1, <1>2, <2>1, <2>2, <2>3 DEF Init, Counted
<1>5. DOMAIN dirs[1].children = {} /\ ToSet(dirs[1].children) = {}
  BY <1>1, <1>2 DEF ToSet
<1>6. Links
  <2>1. <<>> \in Seq(Known)
    OBVIOUS
  <2>2. NewRoot(1).parent \in Known /\ NewRoot(1).mounted = NULL
    BY <1>1, <1>2
  <2>3. QED
    BY <1>1, <1>2, <2>1, <2>2 DEF Links
<1>7. TreeSound
  <2>1. {d \in Known : 1 \in ToSet(dirs[d].children)} = {} /\ {d \in Known : dirs[d].mounted = 1} = {}
    BY <1>1, <1>2, <1>5 DEF NULL
  <2>2. QED
    BY <1>1, <1>2, <1>5, <2>1 DEF TreeSound
<1>8. QED
  BY <1>3, <1>4, <1>6, <1>7, RefCountsIs DEF IInv

LEMMA NextInv == IInv /\ [Next]_vars => IInv'
<1> SUFFICES ASSUME IInv, [Next]_vars PROVE IInv'
  OBVIOUS
<1>1. CASE UNCHANGED vars
  BY <1>1, Unchanged DEF vars, IInv, RefCounts, TypeOK
<1>2. ASSUME NEW p \in Paths, PathCall(p) PROVE IInv'
  BY <1>2, OpenInv, MkdirInv, ChangeDirInv, NothingDone DEF PathCall, sys_stat
<1>3. ASSUME NEW fd \in Slots, sys_close(fd) \/ sys_dup(fd) PROVE IInv'
  BY <1>3, CloseInv, DupInv
<1>4. ASSUME NEW fd \in Slots \cup {NSlots}, Transfer(fd) PROVE IInv'
  BY <1>4, NothingDone DEF Transfer
<1>5. QED
  BY <1>1, <1>2, <1>3, <1>4, MountInv, SeekInv DEF Next

\* The invariant holds in every reachable state.
LEMMA Invariance == Spec => []IInv
BY InitInv, NextInv, PTL DEF Spec

-----------------------------------------------------------------------------
(* The theorems.                                                           *)

\* However opens, dups and closes follow one another, the count of an object and
\* that of an inode are the numbers of descriptors open on them.
THEOREM CountsAreUsers == Spec => []RefCounts
<1>1. IInv => RefCounts
  BY DEF IInv
<1>2. QED
  BY <1>1, Invariance, PTL

\* The tree stays a tree and every mount covers one directory, whatever the order
\* of mkdir and mount.
THEOREM TreeStaysSound == Spec => []TreeSound
<1>1. IInv => TreeSound
  BY DEF IInv
<1>2. QED
  BY <1>1, Invariance, PTL

\* A call that fails leaves nothing behind, but for a seek to position -1.
THEOREM FailureIsClean == Spec => FailureLeavesNoTrace
<1> DEFINE Clean ==
             result' = "err" =>
               /\ UNCHANGED <<tree, file_table>>
               /\ \A d \in Descs : f_desc_table'[d] \in
                     {f_desc_table[d], [f_desc_table[d] EXCEPT !.pos = -1]}
<1>1. IInv /\ [Next]_vars => [Clean]_vars
  <2> SUFFICES ASSUME IInv, Next, result' = "err" PROVE Clean
    OBVIOUS
  <2>1. CASE UNCHANGED <<tree, files>>
    BY <2>1 DEF files
  <2>2. CASE \E p \in Paths : PathCall(p)
    BY <2>1, <2>2 DEF PathCall, sys_open, sys_mkdir, sys_stat, sys_chroot, sys_chdir,
       Fail, GoWild, Done
  <2>3. CASE \E dev \in DevPaths, p \in Paths, fs \in FsNames : sys_mount(dev, p, fs)
    BY <2>1, <2>3 DEF sys_mount, Fail, GoWild, Done
  <2>4. CASE \E fd \in Slots : sys_close(fd) \/ sys_dup(fd)
    BY <2>1, <2>4 DEF sys_close, sys_dup, CountUses, Fail, GoWild, Done
  <2>5. CASE \E fd \in Slots \cup {NSlots} : Transfer(fd)
    BY <2>1, <2>5 DEF Transfer, Fail, Done
  <2>6. ASSUME NEW fd \in Slots \cup {NSlots}, NEW off \in Offsets, NEW whence \in 0..3,
               sys_lseek(fd, off, whence), ~Fail
        PROVE  Clean
    <3> DEFINE d == file_table[fd]
               n == Wrap(IF whence = 1 THEN f_desc_table[d].pos + off ELSE off)
    <3>1. /\ f_desc_table' = [f_desc_table EXCEPT ![d].pos = n]
          /\ result' = IF n = -1 THEN "err" ELSE "ok"
          /\ UNCHANGED <<tree, file_table, wild>>
      BY <2>6 DEF sys_lseek
    <3>2. n = -1
      BY <3>1
    <3> HIDE DEF n, d
    <3>3. f_desc_table \in [Descs -> Object]
      BY DEF IInv, RefCounts, TypeOK, Object
    <3>4. \A c \in Descs : f_desc_table'[c] \in
            {f_desc_table[c], [f_desc_table[c] EXCEPT !.pos = -1]}
      BY <3>1, <3>2, <3>3
    <3>5. QED
      BY <3>1, <3>4
  <2>7. CASE Fail
    BY <2>1, <2>7 DEF Fail
  <2>8. QED
    BY <2>2, <2>3, <2>4, <2>5, <2>6, <2>7 DEF Next
<1>2. QED
  BY <1>1, Invariance, PTL DEF Spec, FailureLeavesNoTrace

=============================================================================
