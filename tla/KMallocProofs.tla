---------------------------- MODULE KMallocProofs ----------------------------
(***************************************************************************)
(* Proofs about KMalloc, for any number of pages, descriptors per page and *)
(* sizes of blocks.  What keeps the heap sound does not depend on where a  *)
(* search has got to: kfree checks, with interrupts off, that the block is *)
(* of the bucket it found and what precedes that bucket on its chain.      *)
(***************************************************************************)
EXTENDS KMalloc, TLAPS, FiniteSetTheorems, WellFoundedInduction

\* The functions whose range TypeOK gives element by element.
Shape ==
  /\ freeptr \in [Desc -> SUBSET (Nat \ {0})]
  /\ obj \in [Ctx -> Block \union {NoBlock}]
  /\ live \subseteq Block /\ IsFiniteSet(live)

\* A descriptor is in one place: on one chain, or on the list of unused ones.
Apart ==
  /\ \A d, e \in Dirs : \A i \in 1..Len(bucket[d]), j \in 1..Len(bucket[e]) :
       bucket[d][i] = bucket[e][j] => d = e /\ i = j
  /\ \A i, j \in 1..Len(spare) : spare[i] = spare[j] => i = j
  /\ \A d \in Dirs : \A i \in 1..Len(bucket[d]), j \in 1..Len(spare) :
       bucket[d][i] # spare[j]

OnChain(b) == \E d \in Dirs : \E i \in 1..Len(bucket[d]) : bucket[d][i] = b
OnSpare(b) == \E j \in 1..Len(spare) : spare[j] = b

\* Those created so far, and no others.
AllPlaced == \A b \in Desc : b <= born <=> OnChain(b) \/ OnSpare(b)

Linked == /\ \A d \in Dirs : IsList(chain[d], bucket[d])
          /\ IsList(free_bucket_desc, spare)

\* The descriptors of a page to come are zero.
Unborn == \A b \in Desc : b > born => next[b] = NULL

Lists == Apart /\ AllPlaced /\ Linked /\ Unborn /\ born <= NPages * PerPage

Out(b) == {o \in live : o.page = page[b]}

\* The bucket of descriptor b holds blocks of the size of bucket_dir[d].
BucketOf(b, d) ==
  /\ freeptr[b] \subseteq 1..Blocks[d]
  /\ \A o \in live : o.page = page[b] => o.dir = d /\ o.slot \in (1..Blocks[d]) \ freeptr[b]
  /\ \A k \in (1..Blocks[d]) \ freeptr[b] : [page |-> page[b], slot |-> k, dir |-> d] \in live
  /\ refcnt[b] = Cardinality(Out(b)) /\ refcnt[b] > 0
  /\ page[b] \in mem_map

Buckets ==
  /\ \A d \in Dirs : \A i \in 1..Len(bucket[d]) : BucketOf(bucket[d][i], d)
  /\ \A d, e \in Dirs : \A i \in 1..Len(bucket[d]), j \in 1..Len(bucket[e]) :
       page[bucket[d][i]] = page[bucket[e][j]] => d = e /\ i = j
  /\ \A o \in live : \E d \in Dirs : \E i \in 1..Len(bucket[d]) : page[bucket[d][i]] = o.page
  /\ \A b \in Desc : refcnt[b] > 0 => OnChain(b)

\* A context at work holds a block of its own, and points at descriptors that
\* have been created.
Search(c) ==
  /\ bdesc[c] \in 0..born /\ prev[c] \in 0..born
  /\ pc[c] = "idle" => obj[c] = NoBlock
  /\ pc[c] # "idle" => obj[c] \in live /\ bdir[c] \in Dirs
  /\ \A e \in Ctx : e # c /\ pc[c] # "idle" => obj[e] # obj[c]

\* Undisturbed, it is on the chain of its block, not past its bucket.
Track(c) ==
  ~raced[c] =>
    /\ pc[c] # "panic"
    /\ pc[c] \in {"search", "found"} =>
         /\ bdir[c] = obj[c].dir
         /\ \E i, j \in 1..Len(bucket[bdir[c]]) :
              i <= j /\ bucket[bdir[c]][i] = bdesc[c]
                     /\ page[bucket[bdir[c]][j]] = obj[c].page
    /\ pc[c] = "found" => page[bdesc[c]] = obj[c].page

Searches == \A c \in Ctx : Search(c) /\ Track(c)

IInv == TypeOK /\ Shape /\ Lists /\ PagesAccounted /\ Buckets /\ Searches

-----------------------------------------------------------------------------
(* Numbers and sequences.                                                  *)

LEMMA Times ==
  ASSUME NEW w \in Nat, NEW a \in Int, NEW b \in Int
  PROVE  /\ a * w \in Int /\ (a + 1) * w = a * w + w /\ (a + 2) * w = a * w + w + w
         /\ (a - 1) * w = a * w - w
         /\ a <= b => a * w <= b * w
         /\ a >= 0 => a * w >= 0
<1>1. a * w \in Int /\ b * w \in Int /\ (a + 1) * w = a * w + w /\ (a + 2) * w = a * w + w + w
      /\ (a - 1) * w = a * w - w
  OBVIOUS
<1>2. a <= b => a * w <= b * w
  <2> SUFFICES ASSUME a <= b PROVE a * w <= b * w
    OBVIOUS
  <2>1. b * w = a * w + (b - a) * w
    OBVIOUS
  <2>2. b - a \in Nat
    OBVIOUS
  <2>3. (b - a) * w >= 0
    BY <2>2
  <2>4. QED
    BY <2>1, <2>3, <1>1
<1>3. a >= 0 => a * w >= 0
  OBVIOUS
<1>4. QED
  BY <1>1, <1>2, <1>3

LEMMA Constants ==
  /\ NPages \in Nat /\ PerPage \in Nat /\ PerPage >= 1 /\ NPages * PerPage \in Nat
  /\ Len(Blocks) \in Nat /\ 1 \in Dirs /\ Dirs \subseteq Nat
  /\ \A d \in Dirs : Blocks[d] \in Nat \ {0}
  /\ Desc \subseteq Nat \ {0} /\ NULL \notin Desc /\ NULL = 0
  /\ \A x : x \in Desc <=> x \in Nat /\ 1 <= x /\ x <= NPages * PerPage
  /\ NULL \notin Pages /\ Pages \subseteq Nat
  /\ NoBlock \notin Block
  /\ IsFiniteSet(Pages) /\ Cardinality(Pages) = NPages /\ IsFiniteSet(Desc)
<1>1. /\ NPages \in Nat /\ PerPage \in Nat /\ PerPage >= 1
      /\ Blocks \in Seq(Nat \ {0}) /\ Blocks # <<>>
  BY KMallocAssumption
<1>2. NPages * PerPage \in Nat
  BY <1>1
<1>3. Len(Blocks) \in Nat /\ Len(Blocks) # 0 /\ \A d \in 1..Len(Blocks) : Blocks[d] \in Nat \ {0}
  BY <1>1
<1>4. IsFiniteSet(Pages) /\ Cardinality(Pages) = NPages
  <2>1. IsFiniteSet(1..NPages) /\ Cardinality(1..NPages) = IF 1 > NPages THEN 0 ELSE NPages - 1 + 1
    <3>1. 1 \in Int /\ NPages \in Int
      BY <1>1
    <3>2. QED
      BY <3>1, FS_Interval, Zenon
  <2>2. (IF 1 > NPages THEN 0 ELSE NPages - 1 + 1) = NPages
    BY <1>1
  <2>3. QED
    BY <2>1, <2>2 DEF Pages
<1>5. NULL \notin Pages /\ Pages \subseteq Nat
  BY <1>1 DEF NULL, Pages
<1> DEFINE top == NPages * PerPage
<1>6. Desc = 1..top
  BY DEF Desc
<1>7. top \in Nat
  BY <1>2
<1> HIDE DEF top
<1>8. /\ Desc \subseteq Nat \ {0} /\ NULL \notin Desc /\ NULL = 0 /\ IsFiniteSet(Desc)
      /\ \A x : x \in Desc <=> x \in Nat /\ 1 <= x /\ x <= top
  BY <1>6, <1>7, FS_Interval DEF NULL
<1>9. NoBlock \notin Block
  BY <1>5 DEF NoBlock, Block
<1>10. 1 \in Dirs /\ Dirs \subseteq Nat /\ Len(Blocks) \in Nat /\ \A d \in Dirs : Blocks[d] \in Nat \ {0}
  BY <1>3 DEF Dirs
<1>11. QED
  BY <1>1, <1>4, <1>5, <1>7, <1>8, <1>9, <1>10 DEF top

LEMMA Least ==
  ASSUME NEW S, S \subseteq Nat, S # {}
  PROVE  \E m \in S : \A n \in S : m <= n
<1> DEFINE R == OpToRel(<, Nat)
<1>1. IsWellFoundedOn(R, Nat)
  BY NatLessThanWellFounded
<1>2. \A x, y \in Nat : <<x, y>> \in R <=> x < y
  BY DEF OpToRel
<1> HIDE DEF R
<1>3. PICK m \in S : \A n \in S : ~ (<<n, m>> \in R)
  BY <1>1, WFMin
<1>4. ASSUME NEW n \in S PROVE m <= n
  <2>1. m \in Nat /\ n \in Nat
    OBVIOUS
  <2>2. ~(n < m)
    BY <2>1, <1>2, <1>3
  <2>3. QED
    BY <2>1, <2>2
<1>5. QED
  BY <1>4

LEMMA ConsFacts ==
  ASSUME NEW S, NEW s \in Seq(S), NEW x \in S
  PROVE  /\ <<x>> \o s \in Seq(S) /\ Len(<<x>> \o s) = Len(s) + 1 /\ Len(s) \in Nat
         /\ (<<x>> \o s)[1] = x
         /\ \A k \in 1..Len(s) : k + 1 \in 1..Len(s)+1 /\ (<<x>> \o s)[k+1] = s[k]
         /\ \A k \in 1..Len(s)+1 : k = 1 \/ (k - 1 \in 1..Len(s) /\ (<<x>> \o s)[k] = s[k-1])
<1>1. Len(s) \in Nat /\ <<x>> \o s \in Seq(S) /\ Len(<<x>> \o s) = Len(s) + 1
  OBVIOUS
<1>2. (<<x>> \o s)[1] = x
  OBVIOUS
<1>3. ASSUME NEW k \in 1..Len(s)+1, k # 1
      PROVE  k - 1 \in 1..Len(s) /\ (<<x>> \o s)[k] = s[k-1]
  BY <1>1, <1>3
<1>4. ASSUME NEW k \in 1..Len(s)
      PROVE  k + 1 \in 1..Len(s)+1 /\ (<<x>> \o s)[k+1] = s[k]
  <2>1. k + 1 \in 1..Len(s)+1 /\ k + 1 # 1 /\ (k + 1) - 1 = k
    BY <1>1
  <2>2. QED
    BY <2>1, <1>3
<1>5. QED
  BY <1>1, <1>2, <1>3, <1>4

LEMMA TailFacts ==
  ASSUME NEW S, NEW s \in Seq(S), s # <<>>
  PROVE  /\ Tail(s) \in Seq(S) /\ Len(s) \in Nat /\ Len(s) >= 1 /\ Len(Tail(s)) = Len(s) - 1
         /\ s[1] \in S
         /\ \A k \in 1..Len(Tail(s)) : k + 1 \in 1..Len(s) /\ Tail(s)[k] = s[k+1]
         /\ \A k \in 1..Len(s) : k = 1 \/ (k - 1 \in 1..Len(Tail(s)) /\ Tail(s)[k-1] = s[k])
<1>1. Tail(s) \in Seq(S) /\ Len(s) \in Nat /\ Len(s) >= 1 /\ Len(Tail(s)) = Len(s) - 1 /\ s[1] \in S
  OBVIOUS
<1>2. ASSUME NEW k \in 1..Len(Tail(s)) PROVE k + 1 \in 1..Len(s) /\ Tail(s)[k] = s[k+1]
  BY <1>1
<1>3. ASSUME NEW k \in 1..Len(s), k # 1 PROVE k - 1 \in 1..Len(Tail(s)) /\ Tail(s)[k-1] = s[k]
  <2>1. k - 1 \in 1..Len(Tail(s)) /\ (k - 1) + 1 = k
    BY <1>1, <1>3
  <2>2. QED
    BY <2>1, <1>2
<1>4. QED
  BY <1>1, <1>2, <1>3

\* What is left of a sequence without its place i.
LEMMA RemoveFacts ==
  ASSUME NEW S, NEW s \in Seq(S), NEW i \in 1..Len(s)
  PROVE  /\ RemoveAt(s, i) \in Seq(S) /\ Len(RemoveAt(s, i)) = Len(s) - 1 /\ Len(s) \in Nat
         /\ \A k \in 1..Len(s)-1 :
              RemoveAt(s, i)[k] = IF k < i THEN s[k] ELSE s[k+1]
<1>1. Len(s) \in Nat /\ i \in Nat /\ i >= 1 /\ i <= Len(s)
  OBVIOUS
<1> DEFINE a == SubSeq(s, 1, i-1)
           b == SubSeq(s, i+1, Len(s))
<1>2. a \in Seq(S) /\ Len(a) = i - 1 /\ \A k \in 1..i-1 : a[k] = s[k]
  BY <1>1
<1>3. b \in Seq(S) /\ Len(b) = Len(s) - i /\ \A k \in 1..Len(s)-i : b[k] = s[i+k]
  BY <1>1
<1> HIDE DEF a, b
<1>4. a \o b \in Seq(S) /\ Len(a \o b) = Len(s) - 1
  <2>1. a \o b \in Seq(S) /\ Len(a \o b) = Len(a) + Len(b)
    <3>1. a \in Seq(S) /\ b \in Seq(S)
      BY <1>2, <1>3
    <3>2. QED
      BY <3>1
  <2>2. Len(a) + Len(b) = Len(s) - 1
    BY <1>1, <1>2, <1>3
  <2>3. QED
    BY <2>1, <2>2
<1>5. ASSUME NEW k \in 1..Len(s)-1 PROVE (a \o b)[k] = IF k < i THEN s[k] ELSE s[k+1]
  <2>1. k \in 1..Len(a)+Len(b) /\ (a \o b)[k] = IF k <= Len(a) THEN a[k] ELSE b[k - Len(a)]
    BY <1>1, <1>2, <1>3
  <2>2. CASE k < i
    <3>1. k \in 1..i-1
      BY <2>2, <1>1
    <3>2. QED
      BY <3>1, <2>1, <2>2, <1>1, <1>2
  <2>3. CASE ~(k < i)
    <3>1. k - (i - 1) \in 1..Len(s)-i /\ i + (k - (i - 1)) = k + 1 /\ ~(k <= i - 1)
      BY <2>3, <1>1
    <3>2. QED
      BY <3>1, <2>1, <2>3, <1>1, <1>2, <1>3
  <2>4. QED
    BY <2>2, <2>3
<1>6. RemoveAt(s, i) = a \o b
  BY DEF RemoveAt, a, b
<1>7. QED
  BY <1>1, <1>4, <1>5, <1>6

-----------------------------------------------------------------------------
(* The heap.                                                               *)

heapVars == <<mem_map, descVars, listVars, live>>

LEMMA UnusedPage ==
  ASSUME NEW except, Unused \ except # {}
  PROVE  FirstUnused(except) \in Unused \ except
<1> DEFINE S == Unused \ except
<1>1. S \subseteq Nat /\ S # {}
  BY Constants DEF Unused
<1> HIDE DEF S
<1>2. \E p \in S : \A q \in S : p <= q
  BY <1>1, Least
<1>3. (CHOOSE p \in S : \A q \in S : p <= q) \in S
  BY <1>2
<1>4. QED
  BY <1>3 DEF FirstUnused, S

\* Where descriptors are.
LEMMA Places ==
  ASSUME TypeOK, Lists
  PROVE  /\ \A d \in Dirs : /\ bucket[d] \in Seq(Desc) /\ Len(bucket[d]) \in Nat
                            /\ DOMAIN bucket[d] = 1..Len(bucket[d])
                            /\ \A i \in 1..Len(bucket[d]) :
                                 /\ bucket[d][i] \in Desc /\ bucket[d][i] # NULL
                                 /\ bucket[d][i] <= born
         /\ spare \in Seq(Desc) /\ Len(spare) \in Nat /\ DOMAIN spare = 1..Len(spare)
         /\ \A j \in 1..Len(spare) : spare[j] \in Desc /\ spare[j] # NULL /\ spare[j] <= born
<1>1. \A d \in Dirs : /\ bucket[d] \in Seq(Desc) /\ Len(bucket[d]) \in Nat
                      /\ DOMAIN bucket[d] = 1..Len(bucket[d])
                      /\ \A i \in 1..Len(bucket[d]) : bucket[d][i] \in Desc
  <2>1. \A d \in Dirs : bucket[d] \in Seq(Desc)
    BY DEF TypeOK
  <2>2. QED
    BY <2>1
<1>2. /\ spare \in Seq(Desc) /\ Len(spare) \in Nat /\ DOMAIN spare = 1..Len(spare)
      /\ \A j \in 1..Len(spare) : spare[j] \in Desc
  <2>1. spare \in Seq(Desc)
    BY DEF TypeOK
  <2>2. QED
    BY <2>1
<1>3. \A d \in Dirs : \A i \in 1..Len(bucket[d]) : bucket[d][i] <= born
  BY <1>1 DEF Lists, AllPlaced, OnChain
<1>4. \A j \in 1..Len(spare) : spare[j] <= born
  BY <1>2 DEF Lists, AllPlaced, OnSpare
<1>5. QED
  BY <1>1, <1>2, <1>3, <1>4, Constants

\* The pointers of a chain and of the list of unused descriptors.
LEMMA Links ==
  ASSUME TypeOK, Lists
  PROVE  /\ \A d \in Dirs :
              /\ chain[d] = IF Len(bucket[d]) = 0 THEN NULL ELSE bucket[d][1]
              /\ \A i \in 1..Len(bucket[d]) : next[bucket[d][i]] =
                   IF i = Len(bucket[d]) THEN NULL ELSE bucket[d][i+1]
         /\ free_bucket_desc = IF Len(spare) = 0 THEN NULL ELSE spare[1]
         /\ \A j \in 1..Len(spare) : next[spare[j]] =
              IF j = Len(spare) THEN NULL ELSE spare[j+1]
<1>1. \A d \in Dirs : IsList(chain[d], bucket[d])
  BY DEF Lists, Linked
<1>2. IsList(free_bucket_desc, spare)
  BY DEF Lists, Linked
<1>3. \A d \in Dirs : bucket[d] = <<>> <=> Len(bucket[d]) = 0
  <2>1. \A d \in Dirs : bucket[d] \in Seq(Desc)
    BY Places
  <2>2. QED
    BY <2>1
<1>4. spare = <<>> <=> Len(spare) = 0
  <2>1. spare \in Seq(Desc)
    BY Places
  <2>2. QED
    BY <2>1
<1>5. \A d \in Dirs : DOMAIN bucket[d] = 1..Len(bucket[d])
  BY Places
<1>6. DOMAIN spare = 1..Len(spare)
  BY Places
<1>7. ASSUME NEW d \in Dirs
      PROVE  /\ chain[d] = IF Len(bucket[d]) = 0 THEN NULL ELSE bucket[d][1]
             /\ \A i \in 1..Len(bucket[d]) : next[bucket[d][i]] =
                  IF i = Len(bucket[d]) THEN NULL ELSE bucket[d][i+1]
  <2>1. chain[d] = IF Len(bucket[d]) = 0 THEN NULL ELSE bucket[d][1]
    BY <1>1, <1>3 DEF IsList
  <2>2. \A i \in 1..Len(bucket[d]) : next[bucket[d][i]] =
          IF i = Len(bucket[d]) THEN NULL ELSE bucket[d][i+1]
    BY <1>1, <1>5 DEF IsList
  <2>3. QED
    BY <2>1, <2>2
<1>8. free_bucket_desc = IF Len(spare) = 0 THEN NULL ELSE spare[1]
  BY <1>2, <1>4 DEF IsList
<1>9. \A j \in 1..Len(spare) : next[spare[j]] = IF j = Len(spare) THEN NULL ELSE spare[j+1]
  BY <1>2, <1>6 DEF IsList
<1>10. QED
  BY <1>7, <1>8, <1>9

\* The converse: what is left to show of the lists.
LinkFacts ==
  /\ bucket \in [Dirs -> Seq(Desc)] /\ spare \in Seq(Desc)
  /\ \A d \in Dirs :
       /\ chain[d] = IF Len(bucket[d]) = 0 THEN NULL ELSE bucket[d][1]
       /\ \A i \in 1..Len(bucket[d]) : next[bucket[d][i]] =
            IF i = Len(bucket[d]) THEN NULL ELSE bucket[d][i+1]
  /\ free_bucket_desc = IF Len(spare) = 0 THEN NULL ELSE spare[1]
  /\ \A j \in 1..Len(spare) : next[spare[j]] = IF j = Len(spare) THEN NULL ELSE spare[j+1]

LEMMA LinkedFrom == LinkFacts => Linked
<1> SUFFICES ASSUME LinkFacts PROVE Linked
  OBVIOUS
<1>1. \A d \in Dirs : bucket[d] \in Seq(Desc)
  BY DEF LinkFacts
<1>2. ASSUME NEW d \in Dirs PROVE IsList(chain[d], bucket[d])
  <2>1. (bucket[d] = <<>> <=> Len(bucket[d]) = 0) /\ DOMAIN bucket[d] = 1..Len(bucket[d])
    BY <1>1
  <2>2. QED
    BY <2>1 DEF IsList, LinkFacts
<1>3. IsList(free_bucket_desc, spare)
  <2>1. spare \in Seq(Desc)
    BY DEF LinkFacts
  <2>2. (spare = <<>> <=> Len(spare) = 0) /\ DOMAIN spare = 1..Len(spare)
    BY <2>1
  <2>3. QED
    BY <2>2 DEF IsList, LinkFacts
<1>4. QED
  BY <1>2, <1>3 DEF Linked

LEMMA LinkedNext == LinkFacts' => Linked'
BY LinkedFrom, PTL

LEMMA ListsFrame ==
  ASSUME Lists, UNCHANGED <<next, listVars>>
  PROVE  Lists' /\ Owned' = Owned
<1>1. next' = next /\ chain' = chain /\ free_bucket_desc' = free_bucket_desc
      /\ bucket' = bucket /\ spare' = spare /\ born' = born
  BY DEF listVars
<1>2. QED
  BY <1>1 DEF Lists, Apart, AllPlaced, OnChain, OnSpare, Linked, IsList, Unborn, Owned

LEMMA HeapFrame ==
  ASSUME IInv, UNCHANGED heapVars
  PROVE  /\ Lists' /\ PagesAccounted' /\ Buckets'
         /\ mem_map' = mem_map /\ next' = next /\ page' = page /\ freeptr' = freeptr
         /\ refcnt' = refcnt /\ live' = live /\ chain' = chain
         /\ free_bucket_desc' = free_bucket_desc /\ bucket' = bucket /\ spare' = spare
         /\ born' = born
<1>1. /\ mem_map' = mem_map /\ next' = next /\ page' = page /\ freeptr' = freeptr
      /\ refcnt' = refcnt /\ live' = live /\ chain' = chain
      /\ free_bucket_desc' = free_bucket_desc /\ bucket' = bucket /\ spare' = spare
      /\ born' = born
  BY DEF heapVars, descVars, listVars
<1>2. Lists' /\ Owned' = Owned
  BY <1>1, ListsFrame DEF IInv, listVars
<1>3. PagesAccounted'
  BY <1>1, <1>2 DEF IInv, PagesAccounted
<1>4. Buckets'
  <2>1. ASSUME NEW b, NEW d PROVE BucketOf(b, d) => BucketOf(b, d)'
    BY <1>1 DEF BucketOf, Out
  <2>2. Buckets
    BY DEF IInv
  <2>3. \A d \in Dirs : \A i \in 1..Len(bucket'[d]) : BucketOf(bucket[d][i], d)'
    BY <2>1, <2>2, <1>1 DEF Buckets
  <2>4. QED
    BY <2>2, <2>3, <1>1 DEF Buckets, OnChain
<1>5. QED
  BY <1>1, <1>2, <1>3, <1>4

-----------------------------------------------------------------------------
(* The search.                                                             *)

\* Context c is at here of a search for block o: its registers, and what they
\* mean when no one raced with it.
SearchAt(c, here, o, d, b, q) ==
  /\ pc' = [pc EXCEPT ![c] = here] /\ obj' = [obj EXCEPT ![c] = o]
  /\ bdir' = [bdir EXCEPT ![c] = d] /\ bdesc' = [bdesc EXCEPT ![c] = b]
  /\ prev' = [prev EXCEPT ![c] = q]
  /\ \A e \in Ctx : e # c => obj[e] # o
  /\ ~raced[c] =>
       /\ here # "panic" /\ d = o.dir
       /\ \E i, j \in 1..Len(bucket[d]) :
            i <= j /\ bucket[d][i] = b /\ page[bucket[d][j]] = o.page
       /\ here = "found" => page[b] = o.page

LEMMA SearchStep ==
  ASSUME IInv, NEW c \in Ctx, UNCHANGED heapVars, UNCHANGED <<stopped, raced>>,
         NEW here \in {"search", "found", "panic"}, NEW o \in live, NEW d \in Dirs,
         NEW b \in 0..born, NEW q \in 0..born, SearchAt(c, here, o, d, b, q)
  PROVE  IInv'
<1>1. TypeOK /\ Shape /\ Lists /\ Searches
  BY DEF IInv
<1>2. /\ Lists' /\ PagesAccounted' /\ Buckets'
      /\ mem_map' = mem_map /\ next' = next /\ page' = page /\ freeptr' = freeptr
      /\ refcnt' = refcnt /\ live' = live /\ chain' = chain
      /\ free_bucket_desc' = free_bucket_desc /\ bucket' = bucket /\ spare' = spare
      /\ born' = born
  BY HeapFrame
<1>3. born \in Nat /\ born <= NPages * PerPage /\ 0..born \subseteq Desc \union {NULL}
  <2>1. born \in Nat /\ born <= NPages * PerPage /\ NPages * PerPage \in Nat
    BY <1>1, Constants DEF TypeOK, Lists
  <2>2. QED
    BY <2>1, Constants
<1>4. /\ pc'[c] = here /\ obj'[c] = o /\ bdir'[c] = d /\ bdesc'[c] = b /\ prev'[c] = q
      /\ raced'[c] = raced[c]
      /\ \A e \in Ctx : e # c => /\ pc'[e] = pc[e] /\ obj'[e] = obj[e] /\ bdir'[e] = bdir[e]
                                 /\ bdesc'[e] = bdesc[e] /\ prev'[e] = prev[e]
                                 /\ raced'[e] = raced[e]
  BY <1>1 DEF TypeOK, Shape, SearchAt
<1>5. Shape'
  BY <1>1, <1>2, <1>4 DEF Shape, SearchAt
<1>6. TypeOK'
  <2>1. /\ pc' \in [Ctx -> {"idle", "search", "found", "panic"}]
        /\ bdir' \in [Ctx -> Dirs \union {0}]
        /\ bdesc' \in [Ctx -> Desc \union {NULL}]
        /\ prev' \in [Ctx -> Desc \union {NULL}]
    BY <1>1, <1>3 DEF TypeOK, SearchAt
  <2>2. \A e \in Ctx : obj'[e] \in live' \union {NoBlock}
    BY <1>1, <1>2, <1>4 DEF TypeOK, SearchAt
  <2>3. stopped' = stopped /\ raced' = raced
    OBVIOUS
  <2>4. QED
    BY <2>1, <2>2, <2>3, <1>1, <1>2 DEF TypeOK
<1>7. ASSUME NEW e \in Ctx PROVE Search(e)' /\ Track(e)'
  <2>1. CASE e = c
    <3>1. Search(e)'
      <4>1. \A x \in Ctx : x # c => obj[x] # o
        BY DEF SearchAt
      <4>2. QED
        BY <4>1, <2>1, <1>2, <1>4 DEF Search
    <3>2. Track(e)'
      <4>1. /\ here # "panic" \/ raced[c]
            /\ ~raced[c] => /\ d = o.dir
                            /\ \E i, j \in 1..Len(bucket[d]) :
                                 i <= j /\ bucket[d][i] = b /\ page[bucket[d][j]] = o.page
                            /\ here = "found" => page[b] = o.page
        BY DEF SearchAt
      <4>2. QED
        BY <4>1, <2>1, <1>2, <1>4, SMTT(30) DEF Track
    <3>3. QED
      BY <3>1, <3>2
  <2>2. CASE e # c
    <3>1. Search(e) /\ Track(e)
      BY <1>1 DEF Searches
    <3>2. Search(e)'
      <4>1. obj[e] # o
        BY <2>2 DEF SearchAt
      <4>2. QED
        BY <4>1, <3>1, <2>2, <1>2, <1>4 DEF Search
    <3>3. Track(e)'
      BY <3>1, <2>2, <1>2, <1>4 DEF Track
    <3>4. QED
      BY <3>2, <3>3
  <2>3. QED
    BY <2>1, <2>2
<1>8. QED
  BY <1>2, <1>5, <1>6, <1>7 DEF IInv, Searches

\* A step that only stops the model.
LEMMA StopStep ==
  ASSUME IInv, UNCHANGED heapVars, UNCHANGED <<kfreeVars, raced>>,
         stopped' \in {"no", "memory", "chains", "damaged"}
  PROVE  IInv'
<1>1. TypeOK /\ Shape /\ Searches
  BY DEF IInv
<1>2. /\ Lists' /\ PagesAccounted' /\ Buckets'
      /\ mem_map' = mem_map /\ next' = next /\ page' = page /\ freeptr' = freeptr
      /\ refcnt' = refcnt /\ live' = live /\ chain' = chain
      /\ free_bucket_desc' = free_bucket_desc /\ bucket' = bucket /\ spare' = spare
      /\ born' = born
  BY HeapFrame
<1>3. /\ pc' = pc /\ obj' = obj /\ bdir' = bdir /\ bdesc' = bdesc /\ prev' = prev
      /\ raced' = raced
  BY DEF kfreeVars
<1>4. TypeOK' /\ Shape'
  BY <1>1, <1>2, <1>3 DEF TypeOK, Shape
<1>5. Searches'
  BY <1>1, <1>2, <1>3 DEF Searches, Search, Track
<1>6. QED
  BY <1>2, <1>4, <1>5 DEF IInv

\* Where a pointer to a descriptor leads.
LEMMA NextBorn ==
  ASSUME TypeOK, Lists, NEW b \in 0..born, b # NULL
  PROVE  next[b] \in 0..born /\ b \in Desc
<1>1. born \in Nat /\ born <= NPages * PerPage /\ NPages * PerPage \in Nat
  BY Constants DEF TypeOK, Lists
<1>2. b \in Desc
  BY <1>1, Constants
<1>3. OnChain(b) \/ OnSpare(b)
  BY <1>1, <1>2 DEF Lists, AllPlaced
<1>4. ASSUME NEW d \in Dirs, NEW i \in 1..Len(bucket[d]), bucket[d][i] = b
      PROVE  next[b] \in 0..born
  <2>1. next[b] = IF i = Len(bucket[d]) THEN NULL ELSE bucket[d][i+1]
    BY <1>4, Links
  <2>2. i # Len(bucket[d]) => i + 1 \in 1..Len(bucket[d])
    BY Places
  <2>3. QED
    BY <2>1, <2>2, <1>1, Places, Constants
<1>5. ASSUME NEW j \in 1..Len(spare), spare[j] = b PROVE next[b] \in 0..born
  <2>1. next[b] = IF j = Len(spare) THEN NULL ELSE spare[j+1]
    BY <1>5, Links
  <2>2. /\ Len(spare) \in Nat
        /\ \A k \in 1..Len(spare) : spare[k] \in Nat /\ spare[k] <= born
    BY Places, Constants
  <2>3. j # Len(spare) => j + 1 \in 1..Len(spare)
    BY <2>2
  <2>4. QED
    BY <2>1, <2>2, <2>3, <1>1, Constants
<1>6. QED
  BY <1>2, <1>3, <1>4, <1>5 DEF OnChain, OnSpare

LEMMA HeadBorn ==
  ASSUME TypeOK, Lists, NEW d \in Dirs
  PROVE  chain[d] \in 0..born
<1>1. born \in Nat
  BY DEF TypeOK
<1>2. chain[d] = IF Len(bucket[d]) = 0 THEN NULL ELSE bucket[d][1]
  BY Links
<1>3. Len(bucket[d]) # 0 => 1 \in 1..Len(bucket[d])
  BY Places
<1>4. QED
  BY <1>1, <1>2, <1>3, Places, Constants

LEMMA KfreeInv ==
  ASSUME IInv, NEW c \in Ctx, NEW o \in live \ Claimed, Kfree(c, o)
  PROVE  IInv'
<1>1. TypeOK /\ Shape /\ Lists /\ Buckets /\ Searches
  BY DEF IInv
<1>2. o \in live /\ o \in Block /\ o.dir \in Dirs
  BY <1>1 DEF Shape, Block
<1> DEFINE d == o.dir
<1>3. /\ pc[c] = "idle" /\ UNCHANGED heapVars /\ UNCHANGED <<stopped, raced>>
      /\ pc' = [pc EXCEPT ![c] = "search"] /\ obj' = [obj EXCEPT ![c] = o]
      /\ bdir' = [bdir EXCEPT ![c] = d] /\ bdesc' = [bdesc EXCEPT ![c] = chain[d]]
      /\ prev' = [prev EXCEPT ![c] = 0]
  BY DEF Kfree, StartAt, heapVars, NULL
<1>4. \A e \in Ctx : e # c => obj[e] # o
  <2> SUFFICES ASSUME NEW e \in Ctx, e # c PROVE obj[e] # o
    OBVIOUS
  <2>1. CASE pc[e] = "idle"
    BY <2>1, <1>1, <1>2, Constants DEF Searches, Search
  <2>2. CASE pc[e] # "idle"
    BY <2>2 DEF Claimed
  <2>3. QED
    BY <2>1, <2>2
<1>5. \E i, j \in 1..Len(bucket[d]) :
        i <= j /\ bucket[d][i] = chain[d] /\ page[bucket[d][j]] = o.page
  <2>1. PICK e \in Dirs : \E j \in 1..Len(bucket[e]) : page[bucket[e][j]] = o.page
    BY <1>1, <1>2 DEF Buckets
  <2>2. PICK j \in 1..Len(bucket[e]) : page[bucket[e][j]] = o.page
    BY <2>1
  <2>3. BucketOf(bucket[e][j], e)
    BY <1>1 DEF Buckets
  <2>4. e = d
    BY <2>2, <2>3, <1>2 DEF BucketOf
  <2>5. Len(bucket[d]) \in Nat /\ Len(bucket[d]) # 0 /\ 1 \in 1..Len(bucket[d]) /\ 1 <= j
    BY <2>4, <1>1, <1>2, Places
  <2>6. bucket[d][1] = chain[d]
    BY <2>5, <1>1, <1>2, Links
  <2>7. QED
    BY <2>2, <2>4, <2>5, <2>6
<1>6. chain[d] \in 0..born /\ 0 \in 0..born
  BY <1>1, <1>2, HeadBorn DEF TypeOK
<1> DEFINE bb == chain[d]
           qq == 0
<1>7. /\ UNCHANGED heapVars /\ UNCHANGED <<stopped, raced>>
      /\ o \in live /\ d \in Dirs /\ bb \in 0..born /\ qq \in 0..born
      /\ pc' = [pc EXCEPT ![c] = "search"] /\ obj' = [obj EXCEPT ![c] = o]
      /\ bdir' = [bdir EXCEPT ![c] = d] /\ bdesc' = [bdesc EXCEPT ![c] = bb]
      /\ prev' = [prev EXCEPT ![c] = qq]
      /\ \A e \in Ctx : e # c => obj[e] # o
  BY <1>2, <1>3, <1>4, <1>6
<1>8. ~raced[c] =>
        /\ "search" # "panic" /\ d = o.dir
        /\ \E i, j \in 1..Len(bucket[d]) :
             i <= j /\ bucket[d][i] = bb /\ page[bucket[d][j]] = o.page
        /\ "search" = "found" => page[bb] = o.page
  BY <1>5
<1> HIDE DEF d, bb, qq
<1>9. "search" \in {"search", "found", "panic"}
  OBVIOUS
<1>10. SearchAt(c, "search", o, d, bb, qq)
  BY <1>7, <1>8 DEF SearchAt
<1>11. QED
  BY <1>7, <1>9, <1>10, SearchStep

\* What the invariant says of a search.
LEMMA Searcher ==
  ASSUME IInv, NEW c \in Ctx, pc[c] # "idle"
  PROVE  /\ TypeOK /\ Lists /\ obj[c] \in live /\ bdir[c] \in Dirs
         /\ bdesc[c] \in 0..born /\ prev[c] \in 0..born
         /\ \A e \in Ctx : e # c => obj[e] # obj[c]
         /\ Track(c)
         /\ obj = [obj EXCEPT ![c] = obj[c]] /\ bdir = [bdir EXCEPT ![c] = bdir[c]]
         /\ bdesc = [bdesc EXCEPT ![c] = bdesc[c]] /\ prev = [prev EXCEPT ![c] = prev[c]]
         /\ 0 \in 0..born
<1>1. TypeOK /\ Shape /\ Lists /\ Search(c) /\ Track(c)
  BY DEF IInv, Searches
<1>2. obj = [obj EXCEPT ![c] = obj[c]] /\ bdir = [bdir EXCEPT ![c] = bdir[c]]
      /\ bdesc = [bdesc EXCEPT ![c] = bdesc[c]] /\ prev = [prev EXCEPT ![c] = prev[c]]
  BY <1>1 DEF TypeOK, Shape
<1>3. 0 \in 0..born
  BY <1>1 DEF TypeOK
<1>4. QED
  BY <1>1, <1>2, <1>3 DEF Search

LEMMA FoundInv == ASSUME IInv, NEW c \in Ctx, Found(c) PROVE IInv'
<1>1. /\ pc[c] = "search" /\ page[bdesc[c]] = obj[c].page
      /\ UNCHANGED heapVars /\ UNCHANGED <<stopped, raced>>
      /\ pc' = [pc EXCEPT ![c] = "found"]
      /\ obj' = obj /\ bdir' = bdir /\ bdesc' = bdesc /\ prev' = prev
  BY DEF Found, heapVars
<1>2. /\ obj[c] \in live /\ bdir[c] \in Dirs
      /\ bdesc[c] \in 0..born /\ prev[c] \in 0..born
      /\ \A e \in Ctx : e # c => obj[e] # obj[c]
      /\ Track(c)
      /\ obj = [obj EXCEPT ![c] = obj[c]] /\ bdir = [bdir EXCEPT ![c] = bdir[c]]
      /\ bdesc = [bdesc EXCEPT ![c] = bdesc[c]] /\ prev = [prev EXCEPT ![c] = prev[c]]
  BY <1>1, Searcher
<1>3. ~raced[c] =>
        /\ bdir[c] = obj[c].dir
        /\ \E i, j \in 1..Len(bucket[bdir[c]]) :
             i <= j /\ bucket[bdir[c]][i] = bdesc[c] /\ page[bucket[bdir[c]][j]] = obj[c].page
  BY <1>1, <1>2 DEF Track
<1>4. "found" \in {"search", "found", "panic"} /\ "found" # "panic"
  OBVIOUS
<1> DEFINE oo == obj[c]
           dd == bdir[c]
           bb == bdesc[c]
           qq == prev[c]
<1>5. /\ UNCHANGED heapVars /\ UNCHANGED <<stopped, raced>>
      /\ oo \in live /\ dd \in Dirs /\ bb \in 0..born /\ qq \in 0..born
      /\ pc' = [pc EXCEPT ![c] = "found"] /\ obj' = [obj EXCEPT ![c] = oo]
      /\ bdir' = [bdir EXCEPT ![c] = dd] /\ bdesc' = [bdesc EXCEPT ![c] = bb]
      /\ prev' = [prev EXCEPT ![c] = qq]
      /\ \A e \in Ctx : e # c => obj[e] # oo
  BY <1>1, <1>2, <1>3
<1>6. ~raced[c] =>
        /\ "found" # "panic" /\ dd = oo.dir
        /\ \E i, j \in 1..Len(bucket[dd]) :
             i <= j /\ bucket[dd][i] = bb /\ page[bucket[dd][j]] = oo.page
        /\ "found" = "found" => page[bb] = oo.page
  BY <1>1, <1>2, <1>3
<1> HIDE DEF oo, dd, bb, qq
<1>7. "found" \in {"search", "found", "panic"}
  OBVIOUS
<1>8. SearchAt(c, "found", oo, dd, bb, qq)
  BY <1>5, <1>6 DEF SearchAt
<1>9. QED
  BY <1>5, <1>7, <1>8, SearchStep

LEMMA StepInv == ASSUME IInv, NEW c \in Ctx, Step(c) PROVE IInv'
<1>1. /\ pc[c] = "search" /\ bdesc[c] # NULL /\ page[bdesc[c]] # obj[c].page
      /\ UNCHANGED heapVars /\ UNCHANGED <<stopped, raced>>
      /\ pc' = pc /\ obj' = obj /\ bdir' = bdir
      /\ prev' = [prev EXCEPT ![c] = bdesc[c]]
      /\ bdesc' = [bdesc EXCEPT ![c] = next[bdesc[c]]]
  BY DEF Step, heapVars
<1>2. /\ TypeOK /\ Lists /\ obj[c] \in live /\ bdir[c] \in Dirs
      /\ bdesc[c] \in 0..born
      /\ \A e \in Ctx : e # c => obj[e] # obj[c]
      /\ Track(c)
      /\ obj = [obj EXCEPT ![c] = obj[c]] /\ bdir = [bdir EXCEPT ![c] = bdir[c]]
  BY <1>1, Searcher
<1>3. next[bdesc[c]] \in 0..born
  BY <1>1, <1>2, NextBorn
<1>4. pc = [pc EXCEPT ![c] = "search"]
  BY <1>1, <1>2 DEF TypeOK
<1>5. ASSUME ~raced[c]
      PROVE  /\ bdir[c] = obj[c].dir
             /\ \E i, j \in 1..Len(bucket[bdir[c]]) :
                  i <= j /\ bucket[bdir[c]][i] = next[bdesc[c]]
                         /\ page[bucket[bdir[c]][j]] = obj[c].page
  <2>1. bdir[c] = obj[c].dir
    BY <1>1, <1>2, <1>5 DEF Track
  <2> DEFINE s == bucket[bdir[c]]
  <2>2. PICK i \in 1..Len(s), j \in 1..Len(s) :
          i <= j /\ s[i] = bdesc[c] /\ page[s[j]] = obj[c].page
    BY <1>1, <1>2, <1>5 DEF Track
  <2>3. Len(s) \in Nat
    BY <1>2, Places
  <2>4. next[s[i]] = IF i = Len(s) THEN NULL ELSE s[i+1]
    BY <1>2, Links
  <2> HIDE DEF s
  <2>5. i # j
    BY <2>2, <1>1
  <2>6. i + 1 \in 1..Len(s) /\ i + 1 <= j /\ i # Len(s)
    BY <2>2, <2>3, <2>5
  <2>7. s[i+1] = next[bdesc[c]]
    BY <2>2, <2>4, <2>6
  <2>8. QED
    BY <2>1, <2>2, <2>6, <2>7 DEF s
<1>6. "search" \in {"search", "found", "panic"} /\ "search" # "panic" /\ "search" # "found"
  OBVIOUS
<1> DEFINE oo == obj[c]
           dd == bdir[c]
           bb == next[bdesc[c]]
           qq == bdesc[c]
<1>7. /\ UNCHANGED heapVars /\ UNCHANGED <<stopped, raced>>
      /\ oo \in live /\ dd \in Dirs /\ bb \in 0..born /\ qq \in 0..born
      /\ pc' = [pc EXCEPT ![c] = "search"] /\ obj' = [obj EXCEPT ![c] = oo]
      /\ bdir' = [bdir EXCEPT ![c] = dd] /\ bdesc' = [bdesc EXCEPT ![c] = bb]
      /\ prev' = [prev EXCEPT ![c] = qq]
      /\ \A e \in Ctx : e # c => obj[e] # oo
  BY <1>1, <1>2, <1>3, <1>4, <1>5
<1>8. ~raced[c] =>
        /\ "search" # "panic" /\ dd = oo.dir
        /\ \E i, j \in 1..Len(bucket[dd]) :
             i <= j /\ bucket[dd][i] = bb /\ page[bucket[dd][j]] = oo.page
        /\ "search" = "found" => page[bb] = oo.page
  BY <1>1, <1>2, <1>3, <1>4, <1>5
<1> HIDE DEF oo, dd, bb, qq
<1>9. "search" \in {"search", "found", "panic"}
  OBVIOUS
<1>10. SearchAt(c, "search", oo, dd, bb, qq)
  BY <1>7, <1>8 DEF SearchAt
<1>11. QED
  BY <1>7, <1>9, <1>10, SearchStep

LEMMA NextDirInv == ASSUME IInv, NEW c \in Ctx, NextDir(c) PROVE IInv'
<1> DEFINE d == bdir[c] + 1
<1>1. /\ pc[c] = "search" /\ bdesc[c] = NULL /\ bdir[c] < Len(Blocks)
      /\ UNCHANGED heapVars /\ UNCHANGED <<stopped, raced>>
      /\ pc' = pc /\ obj' = obj
      /\ bdir' = [bdir EXCEPT ![c] = d]
      /\ bdesc' = [bdesc EXCEPT ![c] = chain[d]]
      /\ prev' = [prev EXCEPT ![c] = 0]
  BY DEF NextDir, heapVars, NULL
<1>2. /\ TypeOK /\ Lists /\ obj[c] \in live /\ bdir[c] \in Dirs
      /\ \A e \in Ctx : e # c => obj[e] # obj[c]
      /\ Track(c)
      /\ obj = [obj EXCEPT ![c] = obj[c]]
      /\ 0 \in 0..born
  BY <1>1, Searcher
<1>3. d \in Dirs
  BY <1>1, <1>2, Constants DEF Dirs
<1>4. chain[d] \in 0..born
  BY <1>2, <1>3, HeadBorn
<1>5. pc = [pc EXCEPT ![c] = "search"]
  BY <1>1, <1>2 DEF TypeOK
<1>6. raced[c]
  <2> SUFFICES ASSUME ~raced[c] PROVE FALSE
    OBVIOUS
  <2>1. PICK i \in 1..Len(bucket[bdir[c]]) : bucket[bdir[c]][i] = bdesc[c]
    BY <1>1, <1>2 DEF Track
  <2>2. QED
    BY <2>1, <1>1, <1>2, Places
<1> HIDE DEF d
<1>7. "search" \in {"search", "found", "panic"}
  OBVIOUS
<1> DEFINE oo == obj[c]
           dd == d
           bb == chain[d]
           qq == 0
<1>8. /\ UNCHANGED heapVars /\ UNCHANGED <<stopped, raced>>
      /\ oo \in live /\ dd \in Dirs /\ bb \in 0..born /\ qq \in 0..born
      /\ pc' = [pc EXCEPT ![c] = "search"] /\ obj' = [obj EXCEPT ![c] = oo]
      /\ bdir' = [bdir EXCEPT ![c] = dd] /\ bdesc' = [bdesc EXCEPT ![c] = bb]
      /\ prev' = [prev EXCEPT ![c] = qq]
      /\ \A e \in Ctx : e # c => obj[e] # oo
  BY <1>1, <1>2, <1>3, <1>4, <1>5, <1>6
<1>9. ~raced[c] =>
        /\ "search" # "panic" /\ dd = oo.dir
        /\ \E i, j \in 1..Len(bucket[dd]) :
             i <= j /\ bucket[dd][i] = bb /\ page[bucket[dd][j]] = oo.page
        /\ "search" = "found" => page[bb] = oo.page
  BY <1>1, <1>2, <1>3, <1>4, <1>5, <1>6
<1> HIDE DEF oo, dd, bb, qq
<1>10. "search" \in {"search", "found", "panic"}
  OBVIOUS
<1>11. SearchAt(c, "search", oo, dd, bb, qq)
  BY <1>8, <1>9 DEF SearchAt
<1>12. QED
  BY <1>8, <1>10, <1>11, SearchStep

LEMMA NotFoundInv == ASSUME IInv, NEW c \in Ctx, NotFound(c) PROVE IInv'
<1>1. /\ pc[c] = "search" /\ bdesc[c] = NULL
      /\ UNCHANGED heapVars /\ UNCHANGED <<stopped, raced>>
      /\ pc' = [pc EXCEPT ![c] = "panic"]
      /\ obj' = obj /\ bdir' = bdir /\ bdesc' = bdesc /\ prev' = prev
  BY DEF NotFound, heapVars
<1>2. /\ TypeOK /\ Lists /\ obj[c] \in live /\ bdir[c] \in Dirs
      /\ bdesc[c] \in 0..born /\ prev[c] \in 0..born
      /\ \A e \in Ctx : e # c => obj[e] # obj[c]
      /\ Track(c)
      /\ obj = [obj EXCEPT ![c] = obj[c]] /\ bdir = [bdir EXCEPT ![c] = bdir[c]]
      /\ bdesc = [bdesc EXCEPT ![c] = bdesc[c]] /\ prev = [prev EXCEPT ![c] = prev[c]]
  BY <1>1, Searcher
<1>3. raced[c]
  <2> SUFFICES ASSUME ~raced[c] PROVE FALSE
    OBVIOUS
  <2>1. PICK i \in 1..Len(bucket[bdir[c]]) : bucket[bdir[c]][i] = bdesc[c]
    BY <1>1, <1>2 DEF Track
  <2>2. QED
    BY <2>1, <1>1, <1>2, Places
<1>4. "panic" \in {"search", "found", "panic"}
  OBVIOUS
<1> DEFINE oo == obj[c]
           dd == bdir[c]
           bb == bdesc[c]
           qq == prev[c]
<1>5. /\ UNCHANGED heapVars /\ UNCHANGED <<stopped, raced>>
      /\ oo \in live /\ dd \in Dirs /\ bb \in 0..born /\ qq \in 0..born
      /\ pc' = [pc EXCEPT ![c] = "panic"] /\ obj' = [obj EXCEPT ![c] = oo]
      /\ bdir' = [bdir EXCEPT ![c] = dd] /\ bdesc' = [bdesc EXCEPT ![c] = bb]
      /\ prev' = [prev EXCEPT ![c] = qq]
      /\ \A e \in Ctx : e # c => obj[e] # oo
  BY <1>1, <1>2, <1>3
<1>6. ~raced[c] =>
        /\ "panic" # "panic" /\ dd = oo.dir
        /\ \E i, j \in 1..Len(bucket[dd]) :
             i <= j /\ bucket[dd][i] = bb /\ page[bucket[dd][j]] = oo.page
        /\ "panic" = "found" => page[bb] = oo.page
  BY <1>1, <1>2, <1>3
<1> HIDE DEF oo, dd, bb, qq
<1>7. "panic" \in {"search", "found", "panic"}
  OBVIOUS
<1>8. SearchAt(c, "panic", oo, dd, bb, qq)
  BY <1>5, <1>6 DEF SearchAt
<1>9. QED
  BY <1>5, <1>7, <1>8, SearchStep

LEMMA StoppingInv ==
  ASSUME IInv, (\E c \in Ctx : Damage(c) \/ Corrupted(c)) \/ \E d \in Dirs : MallocPanics(d)
  PROVE  IInv'
<1>1. /\ UNCHANGED heapVars /\ UNCHANGED <<kfreeVars, raced>>
      /\ stopped' \in {"no", "memory", "chains", "damaged"}
  <2>1. ASSUME NEW c \in Ctx, Damage(c)
        PROVE  /\ UNCHANGED heapVars /\ UNCHANGED <<kfreeVars, raced>>
               /\ stopped' \in {"no", "memory", "chains", "damaged"}
    BY <2>1 DEF Damage, heapVars
  <2>2. ASSUME NEW c \in Ctx, Corrupted(c)
        PROVE  /\ UNCHANGED heapVars /\ UNCHANGED <<kfreeVars, raced>>
               /\ stopped' \in {"no", "memory", "chains", "damaged"}
    BY <2>2 DEF Corrupted, heapVars
  <2>3. ASSUME NEW d \in Dirs, MallocPanics(d)
        PROVE  /\ UNCHANGED heapVars /\ UNCHANGED <<kfreeVars, raced>>
               /\ stopped' \in {"no", "memory", "chains", "damaged"}
    BY <2>3 DEF MallocPanics, heapVars
  <2>4. QED
    BY <2>1, <2>2, <2>3
<1>2. QED
  BY <1>1, StopStep

-----------------------------------------------------------------------------
(* Blocks.                                                                 *)

LEMMA BlockEq ==
  ASSUME NEW o \in Block, NEW q \in Block, o.page = q.page, o.slot = q.slot, o.dir = q.dir
  PROVE  o = q
BY DEF Block

LEMMA BlockNew ==
  ASSUME NEW p \in Pages, NEW k \in Nat \ {0}, NEW d \in Dirs
  PROVE  LET o == [page |-> p, slot |-> k, dir |-> d]
         IN o \in Block /\ o.page = p /\ o.slot = k /\ o.dir = d
BY DEF Block

LEMMA OutFinite ==
  ASSUME IsFiniteSet(live), NEW b
  PROVE  IsFiniteSet(Out(b)) /\ Cardinality(Out(b)) \in Nat
<1>1. Out(b) \in SUBSET live
  BY DEF Out
<1>2. IsFiniteSet(Out(b))
  BY <1>1, FS_Subset
<1>3. QED
  BY <1>2, FS_CardinalityType

\* A bucket has no more blocks out than it holds.
RefBounded == \A b \in Desc : \E d \in Dirs : refcnt[b] <= Blocks[d]

LEMMA RefBound ==
  (refcnt \in [Desc -> Nat] /\ IsFiniteSet(live) /\ live \subseteq Block /\ Buckets) => RefBounded
<1> SUFFICES ASSUME refcnt \in [Desc -> Nat], IsFiniteSet(live), live \subseteq Block, Buckets,
                    NEW b \in Desc
             PROVE  \E d \in Dirs : refcnt[b] <= Blocks[d]
  BY DEF RefBounded
<1>1. CASE refcnt[b] = 0
  BY <1>1, Constants
<1>2. CASE refcnt[b] # 0
  <2>1. refcnt[b] > 0
    BY <1>2
  <2>2. PICK d \in Dirs : \E i \in 1..Len(bucket[d]) : bucket[d][i] = b
    BY <2>1 DEF Buckets, OnChain
  <2>3. BucketOf(b, d)
    BY <2>2 DEF Buckets
  <2>4. \A o \in Out(b) : o \in Block /\ o.page = page[b] /\ o.dir = d /\ o.slot \in 1..Blocks[d]
    BY <2>3 DEF BucketOf, Out
  <2> DEFINE f == [o \in Out(b) |-> o.slot]
  <2>5. f \in [Out(b) -> 1..Blocks[d]]
    BY <2>4
  <2>6. ASSUME NEW o \in Out(b), NEW q \in Out(b), f[o] = f[q] PROVE o = q
    <3>1. o.slot = q.slot
      BY <2>6
    <3>2. QED
      BY <3>1, <2>4, BlockEq
  <2>7. f \in Injection(Out(b), 1..Blocks[d])
    <3> HIDE DEF f
    <3>1. QED
      BY <2>5, <2>6 DEF Injection, IsInjective
  <2> DEFINE n == Blocks[d]
  <2>8. n \in Nat /\ n >= 1
    BY Constants
  <2> HIDE DEF f
  <2>9. IsFiniteSet(Out(b)) /\ IsFiniteSet(1..n) /\ Cardinality(1..n) = n
    <3>1. 1 \in Int /\ n \in Int /\ ~(1 > n) /\ n - 1 + 1 = n
      BY <2>8
    <3> HIDE DEF n
    <3>2. IsFiniteSet(1..n) /\ Cardinality(1..n) = IF 1 > n THEN 0 ELSE n - 1 + 1
      BY <3>1, FS_Interval
    <3>3. QED
      BY <3>1, <3>2, OutFinite
  <2>10. Cardinality(Out(b)) <= n
    BY <2>7, <2>9, FS_Injection
  <2>11. QED
    BY <2>3, <2>10 DEF BucketOf
<1>3. QED
  BY <1>1, <1>2

LEMMA RefBoundNext ==
  (refcnt \in [Desc -> Nat] /\ IsFiniteSet(live) /\ live \subseteq Block /\ Buckets)' => RefBounded'
BY RefBound, PTL

\* A bucket whose page and count nobody has touched.
LEMMA BucketSame ==
  ASSUME NEW b, NEW d, BucketOf(b, d), page'[b] = page[b], freeptr'[b] = freeptr[b],
         refcnt'[b] = refcnt[b], page[b] \in mem_map',
         \A o : o.page = page[b] => (o \in live' <=> o \in live)
  PROVE  BucketOf(b, d)'
<1>1. Out(b)' = Out(b)
  BY DEF Out
<1>2. /\ freeptr'[b] \subseteq 1..Blocks[d]
      /\ \A o \in live' : o.page = page'[b] => o.dir = d /\ o.slot \in (1..Blocks[d]) \ freeptr'[b]
      /\ refcnt'[b] = Cardinality(Out(b)') /\ refcnt'[b] > 0
      /\ page'[b] \in mem_map'
  BY <1>1 DEF BucketOf
<1>3. ASSUME NEW k \in (1..Blocks[d]) \ freeptr'[b]
      PROVE  [page |-> page'[b], slot |-> k, dir |-> d] \in live'
  <2>1. [page |-> page[b], slot |-> k, dir |-> d] \in live
    BY <1>3 DEF BucketOf
  <2>2. QED
    BY <2>1
<1>4. QED
  BY <1>2, <1>3 DEF BucketOf

\* Only the blocks of one bucket change hands.
LEMMA OneBucket ==
  ASSUME IInv, NEW d \in Dirs, NEW i \in 1..Len(bucket[d]), NEW b \in Desc, b = bucket[d][i],
         UNCHANGED <<mem_map, next, page, listVars>>,
         \A x \in Desc : x # b => freeptr'[x] = freeptr[x] /\ refcnt'[x] = refcnt[x],
         \A o : o.page # page[b] => (o \in live' <=> o \in live),
         BucketOf(b, d)'
  PROVE  Lists' /\ PagesAccounted' /\ Buckets'
<1>1. TypeOK /\ Lists /\ Buckets /\ PagesAccounted
  BY DEF IInv
<1>2. /\ mem_map' = mem_map /\ page' = page /\ bucket' = bucket /\ born' = born
      /\ Lists' /\ Owned' = Owned
  BY <1>1, ListsFrame DEF listVars
<1>3. PagesAccounted'
  BY <1>1, <1>2 DEF PagesAccounted
<1>5. \A e \in Dirs : \A k \in 1..Len(bucket[e]) :
        /\ bucket[e][k] \in Desc
        /\ bucket[e][k] # b => page[bucket[e][k]] # page[b]
        /\ bucket[e][k] = b => e = d /\ k = i
  BY <1>1, Places DEF Buckets, Lists, Apart
<1>6. ASSUME NEW e \in Dirs, NEW k \in 1..Len(bucket[e]), NEW x \in Desc, x = bucket[e][k]
      PROVE  BucketOf(x, e)'
  <2>1. CASE x = b
    BY <2>1, <1>5, <1>6
  <2>2. CASE x # b
    <3>1. page[x] # page[b] /\ BucketOf(x, e)
      BY <2>2, <1>1, <1>5, <1>6 DEF Buckets
    <3>2. /\ page'[x] = page[x] /\ freeptr'[x] = freeptr[x] /\ refcnt'[x] = refcnt[x]
          /\ page[x] \in mem_map'
      BY <3>1, <2>2, <1>2 DEF BucketOf
    <3>3. \A o : o.page = page[x] => (o \in live' <=> o \in live)
      BY <3>1
    <3>4. QED
      BY <3>1, <3>2, <3>3, BucketSame
  <2>3. QED
    BY <2>1, <2>2
<1>7. \A e, f \in Dirs : \A k \in 1..Len(bucket[e]), j \in 1..Len(bucket[f]) :
        page[bucket[e][k]] = page[bucket[f][j]] => e = f /\ k = j
  BY <1>1 DEF Buckets
<1>8. ASSUME NEW o \in live'
      PROVE  \E e \in Dirs : \E k \in 1..Len(bucket[e]) : page[bucket[e][k]] = o.page
  <2>1. CASE o.page = page[b]
    BY <2>1
  <2>2. CASE o.page # page[b]
    BY <2>2, <1>1 DEF Buckets
  <2>3. QED
    BY <2>1, <2>2
<1>9. ASSUME NEW x \in Desc, refcnt'[x] > 0 PROVE OnChain(x)
  <2>1. CASE x = b
    BY <2>1 DEF OnChain
  <2>2. CASE x # b
    BY <2>2, <1>1, <1>9 DEF Buckets
  <2>3. QED
    BY <2>1, <2>2
<1>10. Buckets'
  <2>1. \A e \in Dirs : \A k \in 1..Len(bucket'[e]) : BucketOf(bucket[e][k], e)'
    BY <1>2, <1>5, <1>6
  <2>2. \A e, f \in Dirs : \A k \in 1..Len(bucket'[e]), j \in 1..Len(bucket'[f]) :
          page'[bucket'[e][k]] = page'[bucket'[f][j]] => e = f /\ k = j
    BY <1>2, <1>7
  <2>3. \A o \in live' : \E e \in Dirs : \E k \in 1..Len(bucket'[e]) : page'[bucket'[e][k]] = o.page
    BY <1>2, <1>8
  <2>4. \A x \in Desc : refcnt'[x] > 0 => OnChain(x)'
    BY <1>2, <1>9 DEF OnChain
  <2>5. QED
    BY <2>1, <2>2, <2>3, <2>4 DEF Buckets
<1>11. QED
  BY <1>2, <1>3, <1>10

-----------------------------------------------------------------------------
(* Blocks change hands, the chains stay.                                   *)

\* kmalloc of a handler leaves the searches it interrupts where they are.
LEMMA SearchesGrow ==
  ASSUME IInv, UNCHANGED <<kfreeVars, raced>>, live \subseteq live', born' \in Nat, born <= born',
         \A d \in Dirs : \E m \in Nat : \A i \in 1..Len(bucket[d]) :
           /\ i + m \in 1..Len(bucket'[d]) /\ bucket'[d][i+m] = bucket[d][i]
           /\ page'[bucket[d][i]] = page[bucket[d][i]]
  PROVE  Searches'
<1>1. TypeOK /\ Lists /\ Searches
  BY DEF IInv
<1>2. /\ pc' = pc /\ obj' = obj /\ bdir' = bdir /\ bdesc' = bdesc /\ prev' = prev
      /\ raced' = raced
  BY DEF kfreeVars
<1>3. ASSUME NEW c \in Ctx PROVE Search(c)'
  <2>1. Search(c)
    BY <1>1 DEF Searches
  <2>2. \A x \in 0..born : x \in 0..born'
    BY <1>1 DEF TypeOK
  <2>3. QED
    BY <2>1, <2>2, <1>2 DEF Search
<1>4. ASSUME NEW c \in Ctx PROVE Track(c)'
  <2> SUFFICES ASSUME ~raced[c], pc[c] \in {"search", "found", "panic"}
               PROVE  /\ pc[c] # "panic"
                      /\ bdir[c] = obj[c].dir
                      /\ \E i, j \in 1..Len(bucket'[bdir[c]]) :
                           i <= j /\ bucket'[bdir[c]][i] = bdesc[c]
                                  /\ page'[bucket'[bdir[c]][j]] = obj[c].page
                      /\ pc[c] = "found" => page'[bdesc[c]] = obj[c].page
    BY <1>2 DEF Track
  <2> DEFINE d == bdir[c]
  <2>1. /\ pc[c] # "panic" /\ d = obj[c].dir /\ d \in Dirs
        /\ \E i, j \in 1..Len(bucket[d]) :
             i <= j /\ bucket[d][i] = bdesc[c] /\ page[bucket[d][j]] = obj[c].page
        /\ pc[c] = "found" => page[bdesc[c]] = obj[c].page
    BY <1>1 DEF Searches, Search, Track
  <2> HIDE DEF d
  <2>2. PICK i \in 1..Len(bucket[d]), j \in 1..Len(bucket[d]) :
          i <= j /\ bucket[d][i] = bdesc[c] /\ page[bucket[d][j]] = obj[c].page
    BY <2>1
  <2>3. PICK m \in Nat : \A k \in 1..Len(bucket[d]) :
          /\ k + m \in 1..Len(bucket'[d]) /\ bucket'[d][k+m] = bucket[d][k]
          /\ page'[bucket[d][k]] = page[bucket[d][k]]
    BY <2>1
  <2>4. i + m <= j + m
    BY <2>2
  <2>5. /\ i + m \in 1..Len(bucket'[d]) /\ bucket'[d][i+m] = bdesc[c]
        /\ j + m \in 1..Len(bucket'[d]) /\ page'[bucket'[d][j+m]] = obj[c].page
        /\ page'[bdesc[c]] = page[bdesc[c]]
    BY <2>2, <2>3
  <2>6. QED
    BY <2>1, <2>4, <2>5 DEF d
<1>5. QED
  BY <1>3, <1>4 DEF Searches

\* The first bucket with room.
LEMMA FirstRoom ==
  ASSUME TypeOK, Lists, NEW d \in Dirs, WithRoom(d) # {}
  PROVE  (CHOOSE i \in WithRoom(d) : \A j \in WithRoom(d) : i <= j) \in 1..Len(bucket[d])
<1> DEFINE S == WithRoom(d)
<1>1. Len(bucket[d]) \in Nat /\ DOMAIN bucket[d] = 1..Len(bucket[d])
  BY Places
<1>2. S \subseteq 1..Len(bucket[d])
  BY <1>1 DEF WithRoom
<1>3. S \subseteq Nat /\ S # {}
  BY <1>1, <1>2
<1> HIDE DEF S
<1>4. \E m \in S : \A j \in S : m <= j
  BY <1>3, Least
<1>5. (CHOOSE i \in S : \A j \in S : i <= j) \in S
  BY <1>4
<1>6. QED
  BY <1>2, <1>5 DEF S

LEMMA MallocOldInv == ASSUME IInv, NEW d \in Dirs, MallocOld(d, 1) PROVE IInv'
<1>1. TypeOK /\ Shape /\ Lists /\ Buckets
  BY DEF IInv
<1>2. \E i \in 1..Len(bucket[d]) : \E slot \in freeptr[bucket[d][i]] :
        HandOut(d, bucket[d][i], slot, freeptr[bucket[d][i]] \ {slot}, page[bucket[d][i]],
                refcnt[bucket[d][i]] + 1)
  <2> DEFINE m == CHOOSE i \in WithRoom(d) : \A j \in WithRoom(d) : i <= j
  <2>1. m \in 1..Len(bucket[d])
    BY <1>1, FirstRoom DEF MallocOld
  <2>2. \E slot \in freeptr[bucket[d][m]] :
        HandOut(d, bucket[d][m], slot, freeptr[bucket[d][m]] \ {slot}, page[bucket[d][m]],
                refcnt[bucket[d][m]] + 1)
    BY DEF MallocOld
  <2> HIDE DEF m
  <2>3. QED
    BY <2>1, <2>2
<1>5. PICK i \in 1..Len(bucket[d]), b \in Desc :
        b = bucket[d][i] /\ \E slot \in freeptr[b] :
          HandOut(d, b, slot, freeptr[b] \ {slot}, page[b], refcnt[b] + 1)
  <2>1. \A i \in 1..Len(bucket[d]) : bucket[d][i] \in Desc
    BY <1>1, Places
  <2>2. QED
    BY <1>2, <2>1
<1>3. PICK slot \in freeptr[b] :
        b = bucket[d][i] /\ HandOut(d, b, slot, freeptr[b] \ {slot}, page[b], refcnt[b] + 1)
  BY <1>5
<1>4. UNCHANGED <<mem_map, next, page, listVars>>
  BY DEF MallocOld
<1>6. BucketOf(b, d)
  BY <1>1, <1>3 DEF Buckets
<1> DEFINE o == [page |-> page[b], slot |-> slot, dir |-> d]
<1>7. /\ freeptr' = [freeptr EXCEPT ![b] = freeptr[b] \ {slot}]
      /\ refcnt' = [refcnt EXCEPT ![b] = refcnt[b] + 1]
      /\ live' = live \union {o}
      /\ UNCHANGED <<kfreeVars, stopped, raced>>
  BY <1>3 DEF HandOut
<1>8. /\ slot \in 1..Blocks[d] /\ slot \in Nat \ {0}
      /\ freeptr[b] \in SUBSET (Nat \ {0}) /\ refcnt[b] \in Nat
      /\ freeptr'[b] = freeptr[b] \ {slot} /\ refcnt'[b] = refcnt[b] + 1
      /\ page[b] \in mem_map /\ page[b] \in Pages
  <2>1. slot \in 1..Blocks[d] /\ page[b] \in mem_map
    BY <1>6 DEF BucketOf
  <2>2. freeptr[b] \in SUBSET (Nat \ {0}) /\ freeptr'[b] = freeptr[b] \ {slot}
    BY <1>1, <1>7 DEF Shape
  <2>3. refcnt[b] \in Nat /\ refcnt'[b] = refcnt[b] + 1
    BY <1>1, <1>7 DEF TypeOK
  <2>4. page[b] \in Pages
    BY <2>1, <1>1 DEF TypeOK
  <2>5. slot \in Nat \ {0}
    BY <2>2
  <2>6. QED
    BY <2>1, <2>2, <2>3, <2>4, <2>5
<1>9. o \in Block /\ o.page = page[b] /\ o.slot = slot /\ o.dir = d
  BY <1>8, BlockNew
<1>10. o \notin live
  BY <1>6, <1>9 DEF BucketOf
<1> HIDE DEF o
<1>11. Shape'
  <2>1. freeptr' \in [Desc -> SUBSET (Nat \ {0})]
    BY <1>1, <1>7, <1>8 DEF Shape
  <2>2. live' \subseteq Block /\ IsFiniteSet(live')
    BY <1>1, <1>7, <1>9, FS_AddElement DEF Shape
  <2>3. obj' = obj
    BY <1>7 DEF kfreeVars
  <2>4. QED
    BY <2>1, <2>2, <2>3, <1>1 DEF Shape
<1>12. refcnt' \in [Desc -> Nat]
  BY <1>1, <1>7, <1>8 DEF TypeOK
<1>13. BucketOf(b, d)'
  <2>1. page'[b] = page[b] /\ mem_map' = mem_map
    BY <1>4
  <2>2. freeptr'[b] \subseteq 1..Blocks[d]
    BY <1>6, <1>8 DEF BucketOf
  <2>3. ASSUME NEW q \in live', q.page = page[b]
        PROVE  q.dir = d /\ q.slot \in (1..Blocks[d]) \ freeptr'[b]
    <3>1. CASE q = o
      BY <3>1, <1>8, <1>9
    <3>2. CASE q \in live
      BY <3>2, <2>3, <1>6, <1>8 DEF BucketOf
    <3>3. QED
      BY <3>1, <3>2, <1>7
  <2>4. ASSUME NEW k \in (1..Blocks[d]) \ freeptr'[b]
        PROVE  [page |-> page[b], slot |-> k, dir |-> d] \in live'
    <3>1. CASE k = slot
      BY <3>1, <1>7 DEF o
    <3>2. CASE k # slot
      <4>1. k \in (1..Blocks[d]) \ freeptr[b]
        BY <3>2, <1>8
      <4>2. [page |-> page[b], slot |-> k, dir |-> d] \in live
        BY <4>1, <1>6 DEF BucketOf
      <4>3. QED
        BY <4>2, <1>7
    <3>3. QED
      BY <3>1, <3>2
  <2>5. refcnt'[b] = Cardinality(Out(b)') /\ refcnt'[b] > 0
    <3>1. Out(b)' = Out(b) \union {o}
      BY <2>1, <1>7, <1>9 DEF Out
    <3>2. IsFiniteSet(Out(b)) /\ o \notin Out(b)
      BY <1>1, <1>10, OutFinite DEF Shape, Out
    <3>3. Cardinality(Out(b)') = Cardinality(Out(b)) + 1
      BY <3>1, <3>2, FS_AddElement
    <3>4. QED
      BY <3>3, <1>6, <1>8 DEF BucketOf
  <2>6. QED
    BY <2>1, <2>2, <2>3, <2>4, <2>5, <1>8 DEF BucketOf
<1>14. Lists' /\ PagesAccounted' /\ Buckets'
  <2>1. \A x \in Desc : x # b => freeptr'[x] = freeptr[x] /\ refcnt'[x] = refcnt[x]
    BY <1>1, <1>7 DEF TypeOK, Shape
  <2>2. \A q : q.page # page[b] => (q \in live' <=> q \in live)
    BY <1>7, <1>9
  <2>3. QED
    BY <2>1, <2>2, <1>3, <1>4, <1>13, OneBucket
<1>15. /\ mem_map' = mem_map /\ next' = next /\ page' = page /\ chain' = chain
       /\ free_bucket_desc' = free_bucket_desc /\ bucket' = bucket /\ spare' = spare
       /\ born' = born /\ pc' = pc /\ obj' = obj /\ bdir' = bdir /\ bdesc' = bdesc /\ prev' = prev
       /\ stopped' = stopped /\ raced' = raced
  BY <1>4, <1>7 DEF listVars, kfreeVars
<1>16. TypeOK'
  <2>1. RefBounded'
    BY <1>11, <1>12, <1>14, RefBoundNext DEF Shape
  <2>2. \A x \in Desc : \E e \in Dirs : refcnt'[x] <= Blocks[e]
    BY <2>1 DEF RefBounded
  <2>3. \A x \in Desc : freeptr'[x] \subseteq Nat \ {0}
    BY <1>11 DEF Shape
  <2>4. \A q \in live' : q.page \in Pages /\ q.slot \in Nat \ {0} /\ q.dir \in Dirs
    BY <1>11 DEF Shape, Block
  <2>5. \A c \in Ctx : obj'[c] \in live' \union {NoBlock}
    BY <1>1, <1>7, <1>15 DEF TypeOK
  <2>6. QED
    BY <2>2, <2>3, <2>4, <2>5, <1>1, <1>12, <1>15 DEF TypeOK
<1>17. Searches'
  <2>1. live \subseteq live' /\ born' \in Nat /\ born <= born'
    BY <1>1, <1>7, <1>15 DEF TypeOK
  <2>2. ASSUME NEW e \in Dirs
        PROVE  \E m \in Nat : \A k \in 1..Len(bucket[e]) :
                 /\ k + m \in 1..Len(bucket'[e]) /\ bucket'[e][k+m] = bucket[e][k]
                 /\ page'[bucket[e][k]] = page[bucket[e][k]]
    <3>1. \A k \in 1..Len(bucket[e]) : k + 0 = k
      OBVIOUS
    <3>2. QED
      BY <3>1, <1>15
  <2>3. QED
    BY <2>1, <2>2, <1>7, SearchesGrow
<1>18. QED
  BY <1>11, <1>14, <1>16, <1>17 DEF IInv

\* kfree returns: the other searches keep their blocks.
LEMMA SearchDone ==
  ASSUME IInv, NEW c \in Ctx, pc[c] # "idle", Done(c), live' = live \ {obj[c]}, born' = born,
         \A e \in Ctx : e # c /\ ~raced'[e] =>
           ~raced[e] /\ (Searching(e) => bucket' = bucket /\ page' = page)
  PROVE  /\ Searches'
         /\ obj' \in [Ctx -> Block \union {NoBlock}]
         /\ \A e \in Ctx : obj'[e] \in live' \union {NoBlock}
         /\ pc' \in [Ctx -> {"idle", "search", "found", "panic"}]
         /\ bdir' \in [Ctx -> Dirs \union {0}]
         /\ bdesc' \in [Ctx -> Desc \union {NULL}]
         /\ prev' \in [Ctx -> Desc \union {NULL}]
<1>1. TypeOK /\ Shape /\ Searches /\ born \in Nat
  BY DEF IInv, TypeOK
<1>2. /\ pc' \in [Ctx -> {"idle", "search", "found", "panic"}]
      /\ obj' \in [Ctx -> Block \union {NoBlock}]
      /\ bdir' \in [Ctx -> Dirs \union {0}]
      /\ bdesc' \in [Ctx -> Desc \union {NULL}]
      /\ prev' \in [Ctx -> Desc \union {NULL}]
  BY <1>1 DEF Done, TypeOK, Shape
<1>3. /\ pc'[c] = "idle" /\ obj'[c] = NoBlock /\ bdesc'[c] = 0 /\ prev'[c] = 0
      /\ \A e \in Ctx : e # c => /\ pc'[e] = pc[e] /\ obj'[e] = obj[e] /\ bdir'[e] = bdir[e]
                                 /\ bdesc'[e] = bdesc[e] /\ prev'[e] = prev[e]
  BY <1>1 DEF Done, TypeOK, Shape, NULL
<1>4. obj[c] \in live /\ NoBlock \notin live
  BY <1>1, Constants DEF Searches, Search, Shape
<1>5. ASSUME NEW e \in Ctx PROVE Search(e)' /\ obj'[e] \in live' \union {NoBlock}
  <2>1. CASE e = c
    <3>1. 0 \in 0..born'
      BY <1>1
    <3>2. QED
      BY <3>1, <2>1, <1>3 DEF Search
  <2>2. CASE e # c
    <3>1. Search(e) /\ Search(c)
      BY <1>1 DEF Searches
    <3>2. pc[e] # "idle" => obj[e] \in live /\ obj[e] # obj[c] /\ obj[e] # NoBlock
      BY <3>1, <2>2, <1>4 DEF Search
    <3>3. pc[e] # "idle" => obj'[e] \in live' /\ obj'[e] # obj'[c]
      BY <3>2, <2>2, <1>3
    <3>4. \A f \in Ctx : f # e /\ pc'[e] # "idle" => obj'[f] # obj'[e]
      BY <3>1, <3>3, <2>2, <1>3 DEF Search
    <3>5. QED
      BY <3>1, <3>3, <3>4, <2>2, <1>3 DEF Search
  <2>3. QED
    BY <2>1, <2>2
<1>6. ASSUME NEW e \in Ctx PROVE Track(e)'
  <2>1. CASE e = c
    BY <2>1, <1>3 DEF Track
  <2>2. CASE e # c
    <3>1. Track(e)
      BY <1>1 DEF Searches
    <3>2. CASE raced'[e]
      BY <3>2 DEF Track
    <3>3. CASE ~raced'[e] /\ Searching(e)
      <4>1. ~raced[e] /\ bucket' = bucket /\ page' = page
        BY <3>3, <2>2
      <4>2. QED
        BY <4>1, <3>1, <2>2, <1>3 DEF Track
    <3>4. CASE ~raced'[e] /\ ~Searching(e)
      <4>1. ~raced[e] /\ pc[e] \notin {"search", "found"}
        BY <3>4, <2>2 DEF Searching
      <4>2. QED
        BY <4>1, <3>1, <2>2, <1>3 DEF Track
    <3>5. QED
      BY <3>2, <3>3, <3>4
  <2>3. QED
    BY <2>1, <2>2
<1>7. QED
  BY <1>2, <1>5, <1>6 DEF Searches

\* What kfree has found: the descriptor of its block's bucket, in its place.
LEMMA OwnBucket ==
  ASSUME IInv, NEW c \in Ctx, pc[c] = "found", Own(c)
  PROVE  \E d \in Dirs : \E i \in 1..Len(bucket[d]) : \E b \in Desc : \E o \in Block :
           /\ b = bucket[d][i] /\ bdesc[c] = b /\ obj[c] = o /\ o \in live /\ o.dir = d
           /\ page[b] = o.page /\ BucketOf(b, d)
           /\ o.slot \in 1..Blocks[d] /\ o.slot \notin freeptr[b]
<1>1. TypeOK /\ Shape /\ Lists /\ Buckets /\ Searches
  BY DEF IInv
<1>2. obj[c] \in live /\ obj[c] \in Block
  BY <1>1 DEF Searches, Search, Shape
<1>3. PICK o \in Block : o = obj[c]
  BY <1>2
<1>4. PICK d \in Dirs : d = o.dir
  BY DEF Block
<1>5. \E i \in 1..Len(bucket[d]) : bucket[d][i] = bdesc[c] /\ page[bdesc[c]] = o.page
  BY <1>1, <1>3, <1>4, Places DEF Own
<1>6. PICK i \in 1..Len(bucket[d]), b \in Desc :
        b = bucket[d][i] /\ bucket[d][i] = bdesc[c] /\ page[bdesc[c]] = o.page
  <2>1. \A i \in 1..Len(bucket[d]) : bucket[d][i] \in Desc
    BY <1>1, Places
  <2>2. QED
    BY <1>5, <2>1
<1>7. BucketOf(b, d)
  BY <1>1, <1>6 DEF Buckets
<1>8. o.slot \in 1..Blocks[d] /\ o.slot \notin freeptr[b]
  BY <1>2, <1>3, <1>6, <1>7 DEF BucketOf
<1>9. QED
  BY <1>2, <1>3, <1>4, <1>6, <1>7, <1>8

LEMMA ReleaseInv == ASSUME IInv, NEW c \in Ctx, Release(c) PROVE IInv'
<1>1. TypeOK /\ Shape /\ Lists /\ Buckets
  BY DEF IInv
<1>2. PICK d \in Dirs : \E i \in 1..Len(bucket[d]) : \E b \in Desc : \E o \in Block :
        /\ b = bucket[d][i] /\ bdesc[c] = b /\ obj[c] = o /\ o \in live /\ o.dir = d
        /\ page[b] = o.page /\ BucketOf(b, d)
        /\ o.slot \in 1..Blocks[d] /\ o.slot \notin freeptr[b]
  BY OwnBucket DEF Release
<1>3. PICK i \in 1..Len(bucket[d]), b \in Desc, o \in Block :
        /\ b = bucket[d][i] /\ bdesc[c] = b /\ obj[c] = o /\ o \in live /\ o.dir = d
        /\ page[b] = o.page /\ BucketOf(b, d)
        /\ o.slot \in 1..Blocks[d] /\ o.slot \notin freeptr[b]
  BY <1>2
<1>4. /\ refcnt[b] # 1
      /\ freeptr' = [freeptr EXCEPT ![b] = freeptr[b] \union {o.slot}]
      /\ refcnt' = [refcnt EXCEPT ![b] = refcnt[b] - 1]
      /\ live' = live \ {o} /\ raced' = [raced EXCEPT ![c] = FALSE]
      /\ Done(c) /\ pc[c] = "found"
      /\ UNCHANGED <<mem_map, next, page, listVars, stopped>>
  BY <1>3 DEF Release
<1>5. /\ mem_map' = mem_map /\ next' = next /\ page' = page /\ chain' = chain
      /\ free_bucket_desc' = free_bucket_desc /\ bucket' = bucket /\ spare' = spare
      /\ born' = born /\ stopped' = stopped
  BY <1>4 DEF listVars
<1>6. /\ freeptr[b] \in SUBSET (Nat \ {0}) /\ refcnt[b] \in Nat /\ refcnt[b] > 1
      /\ freeptr'[b] = freeptr[b] \union {o.slot} /\ refcnt'[b] = refcnt[b] - 1
      /\ o.slot \in Nat \ {0} /\ page[b] \in mem_map
  <2>1. freeptr[b] \in SUBSET (Nat \ {0}) /\ freeptr'[b] = freeptr[b] \union {o.slot}
    BY <1>1, <1>4 DEF Shape
  <2>2. refcnt[b] \in Nat /\ refcnt'[b] = refcnt[b] - 1
    BY <1>1, <1>4 DEF TypeOK
  <2>3. refcnt[b] > 0 /\ page[b] \in mem_map
    BY <1>3 DEF BucketOf
  <2>4. o.slot \in Nat \ {0}
    BY DEF Block
  <2>5. QED
    BY <2>1, <2>2, <2>3, <2>4, <1>4
<1>7. /\ Searches'
      /\ obj' \in [Ctx -> Block \union {NoBlock}]
      /\ \A e \in Ctx : obj'[e] \in live' \union {NoBlock}
      /\ pc' \in [Ctx -> {"idle", "search", "found", "panic"}]
      /\ bdir' \in [Ctx -> Dirs \union {0}]
      /\ bdesc' \in [Ctx -> Desc \union {NULL}]
      /\ prev' \in [Ctx -> Desc \union {NULL}]
  <2>1. \A e \in Ctx : e # c /\ ~raced'[e] =>
          ~raced[e] /\ (Searching(e) => bucket' = bucket /\ page' = page)
    BY <1>1, <1>4, <1>5 DEF TypeOK
  <2>2. pc[c] # "idle" /\ Done(c) /\ live' = live \ {obj[c]} /\ born' = born
    BY <1>3, <1>4, <1>5
  <2>3. QED
    BY <2>1, <2>2, SearchDone
<1>8. Shape'
  <2>1. freeptr' \in [Desc -> SUBSET (Nat \ {0})]
    BY <1>1, <1>4, <1>6 DEF Shape
  <2>2. live' \subseteq Block /\ IsFiniteSet(live')
    BY <1>1, <1>4, FS_RemoveElement DEF Shape
  <2>3. QED
    BY <2>1, <2>2, <1>7 DEF Shape
<1>9. refcnt' \in [Desc -> Nat]
  <2>1. refcnt[b] - 1 \in Nat
    BY <1>6
  <2>2. QED
    BY <2>1, <1>1, <1>4 DEF TypeOK
<1>10. BucketOf(b, d)'
  <2>1. page'[b] = page[b] /\ page[b] = o.page /\ o.dir = d
    BY <1>3, <1>5
  <2>2. freeptr'[b] \subseteq 1..Blocks[d]
    BY <1>3, <1>6 DEF BucketOf
  <2>3. ASSUME NEW q \in live', q.page = page[b]
        PROVE  q.dir = d /\ q.slot \in (1..Blocks[d]) \ freeptr'[b]
    <3>1. q \in live /\ q # o /\ q \in Block
      BY <1>1, <1>4 DEF Shape
    <3>2. q.dir = d /\ q.slot \in (1..Blocks[d]) \ freeptr[b]
      BY <3>1, <2>3, <1>3 DEF BucketOf
    <3>3. q.slot # o.slot
      BY <3>1, <3>2, <2>1, <2>3, BlockEq
    <3>4. QED
      BY <3>2, <3>3, <1>6
  <2>4. ASSUME NEW k \in (1..Blocks[d]) \ freeptr'[b]
        PROVE  [page |-> page[b], slot |-> k, dir |-> d] \in live'
    <3>1. k \in (1..Blocks[d]) \ freeptr[b] /\ k # o.slot
      BY <1>6
    <3>2. [page |-> page[b], slot |-> k, dir |-> d] \in live
      BY <3>1, <1>3 DEF BucketOf
    <3>3. [page |-> page[b], slot |-> k, dir |-> d] # o
      BY <3>1
    <3>4. QED
      BY <3>2, <3>3, <1>4
  <2>5. refcnt'[b] = Cardinality(Out(b)') /\ refcnt'[b] > 0
    <3>1. Out(b)' = Out(b) \ {o}
      BY <2>1, <1>4 DEF Out
    <3>2. IsFiniteSet(Out(b)) /\ o \in Out(b)
      BY <1>1, <1>3, OutFinite DEF Shape, Out
    <3>3. Cardinality(Out(b)') = Cardinality(Out(b)) - 1
      BY <3>1, <3>2, FS_RemoveElement
    <3>4. QED
      BY <3>3, <1>3, <1>6 DEF BucketOf
  <2>6. QED
    BY <2>1, <2>2, <2>3, <2>4, <2>5, <1>5, <1>6 DEF BucketOf
<1>11. Lists' /\ PagesAccounted' /\ Buckets'
  <2>1. \A x \in Desc : x # b => freeptr'[x] = freeptr[x] /\ refcnt'[x] = refcnt[x]
    BY <1>1, <1>4 DEF TypeOK, Shape
  <2>2. \A q : q.page # page[b] => (q \in live' <=> q \in live)
    BY <1>3, <1>4
  <2>3. QED
    BY <2>1, <2>2, <1>3, <1>4, <1>10, OneBucket
<1>12. TypeOK'
  <2>1. RefBounded'
    BY <1>8, <1>9, <1>11, RefBoundNext DEF Shape
  <2>2. \A x \in Desc : \E e \in Dirs : refcnt'[x] <= Blocks[e]
    BY <2>1 DEF RefBounded
  <2>3. \A x \in Desc : freeptr'[x] \subseteq Nat \ {0}
    BY <1>8 DEF Shape
  <2>4. \A q \in live' : q.page \in Pages /\ q.slot \in Nat \ {0} /\ q.dir \in Dirs
    BY <1>8 DEF Shape, Block
  <2>5. raced' \in [Ctx -> BOOLEAN]
    BY <1>1, <1>4 DEF TypeOK
  <2>6. QED
    BY <2>2, <2>3, <2>4, <2>5, <1>1, <1>5, <1>7, <1>9 DEF TypeOK
<1>13. QED
  BY <1>7, <1>8, <1>11, <1>12 DEF IInv

-----------------------------------------------------------------------------
(* A bucket leaves its chain.                                              *)

\* What is left of the chains without the place i of chain d.
Shift(d, i) ==
  /\ bucket' \in [Dirs -> Seq(Desc)]
  /\ Len(bucket[d]) \in Nat /\ Len(bucket'[d]) = Len(bucket[d]) - 1
  /\ \A k \in 1..Len(bucket[d])-1 :
       bucket'[d][k] = IF k < i THEN bucket[d][k] ELSE bucket[d][k+1]
  /\ \A e \in Dirs : e # d => bucket'[e] = bucket[e]
  /\ \A e \in Dirs : \A k \in 1..Len(bucket'[e]) : \E m \in 1..Len(bucket[e]) :
       /\ m = IF e = d /\ k >= i THEN k + 1 ELSE k
       /\ ~(e = d /\ m = i) /\ bucket'[e][k] = bucket[e][m]
  /\ \A e \in Dirs : \A m \in 1..Len(bucket[e]) :
       (e = d /\ m = i) \/ \E k \in 1..Len(bucket'[e]) : bucket'[e][k] = bucket[e][m]

LEMMA Removed ==
  ASSUME bucket \in [Dirs -> Seq(Desc)], NEW d \in Dirs, NEW i \in 1..Len(bucket[d]),
         bucket' = [bucket EXCEPT ![d] = RemoveAt(bucket[d], i)]
  PROVE  Shift(d, i)
<1>1. PICK s \in Seq(Desc) : s = bucket[d]
  OBVIOUS
<1>2. /\ RemoveAt(s, i) \in Seq(Desc) /\ Len(RemoveAt(s, i)) = Len(s) - 1 /\ Len(s) \in Nat
      /\ \A k \in 1..Len(s)-1 :
           RemoveAt(s, i)[k] = IF k < i THEN s[k] ELSE s[k+1]
  BY <1>1, RemoveFacts
<1>3. PICK t \in Seq(Desc) : t = RemoveAt(s, i)
  BY <1>2
<1>4. bucket' = [bucket EXCEPT ![d] = t]
  BY <1>1, <1>3
<1>5. bucket' \in [Dirs -> Seq(Desc)] /\ bucket'[d] = t /\ \A e \in Dirs : e # d => bucket'[e] = bucket[e]
  BY <1>4
<1>6. /\ Len(t) = Len(s) - 1 /\ Len(s) \in Nat /\ i \in Nat /\ i >= 1 /\ i <= Len(s)
      /\ \A k \in 1..Len(s)-1 : t[k] = IF k < i THEN s[k] ELSE s[k+1]
  BY <1>1, <1>2, <1>3
<1>7. ASSUME NEW e \in Dirs, NEW k \in 1..Len(bucket'[e])
      PROVE  \E m \in 1..Len(bucket[e]) :
              /\ m = IF e = d /\ k >= i THEN k + 1 ELSE k
              /\ ~(e = d /\ m = i) /\ bucket'[e][k] = bucket[e][m]
  <2>1. CASE e # d
    BY <2>1, <1>5
  <2>2. CASE e = d /\ k < i
    <3>1. k \in 1..Len(s)-1 /\ k \in 1..Len(s) /\ k # i /\ ~(k >= i)
      BY <2>2, <1>5, <1>6
    <3>2. t[k] = s[k]
      BY <3>1, <2>2, <1>6
    <3>3. QED
      BY <3>1, <3>2, <2>2, <1>1, <1>5
  <2>3. CASE e = d /\ ~(k < i)
    <3>1. k \in 1..Len(s)-1 /\ k + 1 \in 1..Len(s) /\ k + 1 # i /\ k >= i
      BY <2>3, <1>5, <1>6
    <3>2. t[k] = s[k+1]
      BY <3>1, <2>3, <1>6
    <3>3. QED
      BY <3>1, <3>2, <2>3, <1>1, <1>5
  <2>4. QED
    BY <2>1, <2>2, <2>3
<1>8. ASSUME NEW e \in Dirs, NEW m \in 1..Len(bucket[e]), ~(e = d /\ m = i)
      PROVE  \E k \in 1..Len(bucket'[e]) : bucket'[e][k] = bucket[e][m]
  <2>1. CASE e # d
    BY <2>1, <1>5
  <2>2. CASE e = d /\ m < i
    <3>1. m \in 1..Len(s)-1 /\ m \in 1..Len(t)
      BY <2>2, <1>1, <1>6
    <3>2. t[m] = s[m]
      BY <3>1, <2>2, <1>6
    <3>3. QED
      BY <3>1, <3>2, <2>2, <1>1, <1>5
  <2>3. CASE e = d /\ ~(m < i)
    <3>1. m - 1 \in 1..Len(s)-1 /\ m - 1 \in 1..Len(t) /\ ~(m - 1 < i) /\ (m - 1) + 1 = m
      BY <2>3, <1>1, <1>6, <1>8
    <3>2. t[m-1] = s[m]
      BY <3>1, <1>6
    <3>3. QED
      BY <3>1, <3>2, <2>3, <1>1, <1>5
  <2>4. QED
    BY <2>1, <2>2, <2>3
<1>9. QED
  BY <1>1, <1>5, <1>6, <1>7, <1>8 DEF Shift

\* Only the descriptor before it leads to a bucket, and only its own chain
\* starts with it.
LEMMA Predecessor ==
  ASSUME TypeOK, Lists, NEW d \in Dirs, NEW i \in 1..Len(bucket[d]), NEW b \in Desc, b = bucket[d][i]
  PROVE  /\ \A x \in 0..born : x # NULL /\ next[x] = b =>
              i > 1 /\ i - 1 \in 1..Len(bucket[d]) /\ x = bucket[d][i-1]
         /\ \A e \in Dirs : chain[e] = b => e = d /\ i = 1
<1>1. /\ Len(bucket[d]) \in Nat /\ i \in Nat /\ i >= 1 /\ i <= Len(bucket[d]) /\ b # NULL
  BY Places, Constants
<1>2. ASSUME NEW x \in 0..born, x # NULL, next[x] = b
      PROVE  i > 1 /\ i - 1 \in 1..Len(bucket[d]) /\ x = bucket[d][i-1]
  <2>1. x \in Desc
    BY <1>2, NextBorn
  <2>2. OnChain(x) \/ OnSpare(x)
    BY <1>2, <2>1 DEF Lists, AllPlaced
  <2>3. ASSUME NEW e \in Dirs, NEW k \in 1..Len(bucket[e]), bucket[e][k] = x
        PROVE  i > 1 /\ i - 1 \in 1..Len(bucket[d]) /\ x = bucket[d][i-1]
    <3>1. Len(bucket[e]) \in Nat
      BY Places
    <3>2. k # Len(bucket[e]) /\ bucket[e][k+1] = b
      BY <2>3, <1>1, <1>2, Links
    <3>3. k + 1 \in 1..Len(bucket[e]) /\ (k + 1) - 1 = k /\ k >= 1
      BY <3>1, <3>2
    <3>4. e = d /\ k + 1 = i
      BY <3>2, <3>3 DEF Lists, Apart
    <3>5. QED
      BY <3>3, <3>4, <2>3
  <2>4. ASSUME NEW j \in 1..Len(spare), spare[j] = x PROVE FALSE
    <3>1. Len(spare) \in Nat
      BY Places
    <3>2. j # Len(spare) /\ spare[j+1] = b
      BY <2>4, <1>1, <1>2, Links
    <3>3. j + 1 \in 1..Len(spare)
      BY <3>1, <3>2
    <3>4. QED
      BY <3>2, <3>3 DEF Lists, Apart
  <2>5. QED
    BY <2>2, <2>3, <2>4 DEF OnChain, OnSpare
<1>3. ASSUME NEW e \in Dirs, chain[e] = b PROVE e = d /\ i = 1
  <2>1. Len(bucket[e]) \in Nat /\ Len(bucket[e]) # 0 /\ bucket[e][1] = b
    BY <1>1, <1>3, Links, Places
  <2>2. 1 \in 1..Len(bucket[e])
    BY <2>1
  <2>3. QED
    BY <2>1, <2>2 DEF Lists, Apart
<1>4. QED
  BY <1>2, <1>3

\* kfree unlinks its bucket from what precedes it.
LEMMA UnlinkPlace ==
  ASSUME IInv, NEW c \in Ctx, pc[c] = "found", NEW d \in Dirs, NEW i \in 1..Len(bucket[d]),
         NEW b \in Desc, b = bucket[d][i], bdesc[c] = b,
         NEW before, before = CheckedPrev(c), before # NULL \/ chain[bdir[c]] = b
  PROVE  \/ i = 1 /\ before = NULL /\ bdir[c] = d
         \/ i > 1 /\ i - 1 \in 1..Len(bucket[d]) /\ before = bucket[d][i-1]
<1>1. TypeOK /\ Lists /\ bdir[c] \in Dirs /\ prev[c] \in 0..born
  BY Searcher
<1>2. /\ \A x \in 0..born : x # NULL /\ next[x] = b =>
           i > 1 /\ i - 1 \in 1..Len(bucket[d]) /\ x = bucket[d][i-1]
      /\ \A e \in Dirs : chain[e] = b => e = d /\ i = 1
  BY <1>1, Predecessor
<1>3. CASE before = NULL
  BY <1>3, <1>1, <1>2
<1>4. CASE before # NULL /\ ~Stale(c)
  <2>1. before = prev[c] /\ next[prev[c]] = b
    BY <1>4 DEF CheckedPrev, Stale
  <2>2. QED
    BY <2>1, <1>1, <1>2, <1>4
<1>5. CASE before # NULL /\ Stale(c)
  <2> DEFINE s == bucket[bdir[c]]
             at == {k \in 1..Len(s)-1 : s[k+1] = b}
  <2>1. before = IF at = {} THEN NULL ELSE s[CHOOSE k \in at : TRUE]
    BY <1>5 DEF CheckedPrev, Before
  <2>2. at # {} /\ before = s[CHOOSE k \in at : TRUE]
    BY <2>1, <1>5
  <2>3. PICK k \in at : before = s[k]
    BY <2>2
  <2>4. Len(s) \in Nat
    BY <1>1, Places
  <2>5. k + 1 \in 1..Len(s) /\ k \in 1..Len(s) /\ k >= 1 /\ s[k+1] = b /\ (k + 1) - 1 = k
    BY <2>4
  <2> HIDE DEF s, at
  <2>6. bdir[c] = d /\ k + 1 = i
    BY <2>5, <1>1 DEF Lists, Apart, s
  <2>7. QED
    BY <2>3, <2>5, <2>6 DEF s
<1>6. QED
  BY <1>3, <1>4, <1>5

\* What is done to the lists, where before precedes b, at place i of chain d.
TakeOut(d, i, b, before) ==
  /\ b = bucket[d][i]
  /\ \/ i = 1 /\ before = NULL
     \/ i > 1 /\ i - 1 \in 1..Len(bucket[d]) /\ before = bucket[d][i-1]
  /\ bucket' = [bucket EXCEPT ![d] = RemoveAt(bucket[d], i)]
  /\ spare' = <<b>> \o spare /\ free_bucket_desc' = b /\ born' = born
  /\ chain' = IF before = NULL THEN [chain EXCEPT ![d] = next[b]] ELSE chain
  /\ next' = [x \in Desc |-> IF x = b THEN free_bucket_desc
                             ELSE IF x = before THEN next[b] ELSE next[x]]

LEMMA UnlinkLists ==
  ASSUME TypeOK, Lists, NEW d \in Dirs, NEW i \in 1..Len(bucket[d]), NEW b \in Desc, NEW before,
         TakeOut(d, i, b, before)
  PROVE  /\ Lists' /\ Owned' = Owned \ {b} /\ b \in Owned
         /\ next' \in [Desc -> Desc \union {NULL}]
         /\ chain' \in [Dirs -> Desc \union {NULL}]
         /\ bucket' \in [Dirs -> Seq(Desc)] /\ spare' \in Seq(Desc)
<1>0. /\ b = bucket[d][i]
      /\ \/ i = 1 /\ before = NULL
         \/ i > 1 /\ i - 1 \in 1..Len(bucket[d]) /\ before = bucket[d][i-1]
      /\ bucket' = [bucket EXCEPT ![d] = RemoveAt(bucket[d], i)]
      /\ spare' = <<b>> \o spare /\ free_bucket_desc' = b /\ born' = born
      /\ chain' = IF before = NULL THEN [chain EXCEPT ![d] = next[b]] ELSE chain
      /\ next' = [x \in Desc |-> IF x = b THEN free_bucket_desc
                                 ELSE IF x = before THEN next[b] ELSE next[x]]
  BY DEF TakeOut
<1> USE <1>0
<1>1. /\ \A e \in Dirs : /\ bucket[e] \in Seq(Desc) /\ Len(bucket[e]) \in Nat
                         /\ DOMAIN bucket[e] = 1..Len(bucket[e])
                         /\ \A k \in 1..Len(bucket[e]) : bucket[e][k] \in Desc /\ bucket[e][k] # NULL
      /\ spare \in Seq(Desc) /\ Len(spare) \in Nat
      /\ \A j \in 1..Len(spare) : spare[j] \in Desc /\ spare[j] # NULL
  BY Places
<1>2. /\ bucket' \in [Dirs -> Seq(Desc)]
      /\ Len(bucket[d]) \in Nat /\ Len(bucket'[d]) = Len(bucket[d]) - 1
      /\ \A k \in 1..Len(bucket[d])-1 :
           bucket'[d][k] = IF k < i THEN bucket[d][k] ELSE bucket[d][k+1]
      /\ \A e \in Dirs : e # d => bucket'[e] = bucket[e]
      /\ \A e \in Dirs : \A k \in 1..Len(bucket'[e]) : \E m \in 1..Len(bucket[e]) :
           /\ m = IF e = d /\ k >= i THEN k + 1 ELSE k
           /\ ~(e = d /\ m = i) /\ bucket'[e][k] = bucket[e][m]
      /\ \A e \in Dirs : \A m \in 1..Len(bucket[e]) :
           (e = d /\ m = i) \/ \E k \in 1..Len(bucket'[e]) : bucket'[e][k] = bucket[e][m]
  <2>1. bucket \in [Dirs -> Seq(Desc)]
    BY DEF TypeOK
  <2>2. Shift(d, i)
    BY <2>1, Removed
  <2>3. QED
    BY <2>2 DEF Shift
<1>20. \A e \in Dirs : \A k \in 1..Len(bucket'[e]) : \E m \in 1..Len(bucket[e]) :
         /\ m = IF e = d /\ k >= i THEN k + 1 ELSE k
         /\ ~(e = d /\ m = i) /\ bucket'[e][k] = bucket[e][m]
  BY <1>2
<1>3. /\ spare' \in Seq(Desc) /\ Len(spare') = Len(spare) + 1 /\ spare'[1] = b
      /\ \A k \in 1..Len(spare) : k + 1 \in 1..Len(spare)+1 /\ spare'[k+1] = spare[k]
      /\ \A k \in 1..Len(spare)+1 : k = 1 \/ (k - 1 \in 1..Len(spare) /\ spare'[k] = spare[k-1])
  BY <1>1, ConsFacts
<1>4. /\ \A e, f \in Dirs : \A k \in 1..Len(bucket[e]), j \in 1..Len(bucket[f]) :
           bucket[e][k] = bucket[f][j] => e = f /\ k = j
      /\ \A k, j \in 1..Len(spare) : spare[k] = spare[j] => k = j
      /\ \A e \in Dirs : \A k \in 1..Len(bucket[e]), j \in 1..Len(spare) : bucket[e][k] # spare[j]
  BY DEF Lists, Apart
<1>5. \A e \in Dirs : \A k \in 1..Len(bucket'[e]) :
        \E m \in 1..Len(bucket[e]) : bucket'[e][k] = bucket[e][m] /\ bucket[e][m] # b
  BY <1>2, <1>4
<1>6. Apart'
  <2>1. ASSUME NEW e \in Dirs, NEW f \in Dirs, NEW k \in 1..Len(bucket'[e]), NEW j \in 1..Len(bucket'[f]),
               bucket'[e][k] = bucket'[f][j]
        PROVE  e = f /\ k = j
    <3>1. PICK m \in 1..Len(bucket[e]) :
            /\ m = IF e = d /\ k >= i THEN k + 1 ELSE k
            /\ ~(e = d /\ m = i) /\ bucket'[e][k] = bucket[e][m]
      BY ONLY <1>20, e \in Dirs, k \in 1..Len(bucket'[e])
    <3>2. PICK n \in 1..Len(bucket[f]) :
            /\ n = IF f = d /\ j >= i THEN j + 1 ELSE j
            /\ ~(f = d /\ n = i) /\ bucket'[f][j] = bucket[f][n]
      BY ONLY <1>20, f \in Dirs, j \in 1..Len(bucket'[f])
    <3>3. e = f /\ m = n
      <4>1. bucket[e][m] = bucket[f][n]
        BY <2>1, <3>1, <3>2
      <4>2. QED
        BY <4>1, <1>4
    <3>4. k \in Nat /\ j \in Nat /\ i \in Nat
      <4>1. bucket'[e] \in Seq(Desc) /\ bucket'[f] \in Seq(Desc)
        BY <1>2
      <4>2. Len(bucket'[e]) \in Nat /\ Len(bucket'[f]) \in Nat
        BY <4>1
      <4>3. QED
        BY <4>2
    <3>5. k = j
      BY <3>1, <3>2, <3>3, <3>4
    <3>6. QED
      BY <3>3, <3>5
  <2>2. ASSUME NEW k \in 1..Len(spare'), NEW j \in 1..Len(spare'), spare'[k] = spare'[j]
        PROVE  k = j
    <3>1. k = 1 \/ (k - 1 \in 1..Len(spare) /\ spare'[k] = spare[k-1])
      BY <1>3
    <3>2. j = 1 \/ (j - 1 \in 1..Len(spare) /\ spare'[j] = spare[j-1])
      BY <1>3
    <3>3. \A n \in 1..Len(spare) : spare[n] # b
      BY <1>4
    <3>4. k \in Nat /\ j \in Nat
      BY <1>1, <1>3
    <3>5. CASE k = 1 \/ j = 1
      BY <3>1, <3>2, <3>3, <3>5, <2>2, <1>3
    <3>6. CASE k # 1 /\ j # 1
      <4>1. k - 1 = j - 1
        BY <3>1, <3>2, <3>6, <2>2, <1>4
      <4>2. QED
        BY <4>1, <3>4
    <3>7. QED
      BY <3>5, <3>6
  <2>3. ASSUME NEW e \in Dirs, NEW k \in 1..Len(bucket'[e]), NEW j \in 1..Len(spare')
        PROVE  bucket'[e][k] # spare'[j]
    <3>1. PICK m \in 1..Len(bucket[e]) : bucket'[e][k] = bucket[e][m] /\ bucket[e][m] # b
      BY <1>5
    <3>2. j = 1 \/ (j - 1 \in 1..Len(spare) /\ spare'[j] = spare[j-1])
      BY <1>3
    <3>3. QED
      BY <3>1, <3>2, <1>3, <1>4, SMTT(30)
  <2>4. QED
    BY <2>1, <2>2, <2>3 DEF Apart
<1>7. ASSUME NEW x \in Desc PROVE (OnChain(x)' <=> OnChain(x) /\ x # b)
  <2>1. OnChain(x)' => OnChain(x) /\ x # b
    BY <1>5 DEF OnChain
  <2>2. ASSUME NEW e \in Dirs, NEW m \in 1..Len(bucket[e]), bucket[e][m] = x, x # b
        PROVE  OnChain(x)'
    <3>1. ~(e = d /\ m = i)
      BY <2>2
    <3>2. PICK k \in 1..Len(bucket'[e]) : bucket'[e][k] = bucket[e][m]
      BY <3>1, <1>2
    <3>3. QED
      BY <3>2, <2>2 DEF OnChain
  <2>3. QED
    BY <2>1, <2>2 DEF OnChain
<1>8. ASSUME NEW x \in Desc PROVE (OnSpare(x)' <=> OnSpare(x) \/ x = b)
  <2>1. OnSpare(x)' => OnSpare(x) \/ x = b
    <3> SUFFICES ASSUME NEW j \in 1..Len(spare'), spare'[j] = x PROVE OnSpare(x) \/ x = b
      BY DEF OnSpare
    <3>1. j = 1 \/ (j - 1 \in 1..Len(spare) /\ spare'[j] = spare[j-1])
      BY <1>3
    <3>2. QED
      BY <3>1, <1>3 DEF OnSpare
  <2>2. OnSpare(x) => OnSpare(x)'
    <3> SUFFICES ASSUME NEW j \in 1..Len(spare), spare[j] = x PROVE OnSpare(x)'
      BY DEF OnSpare
    <3>1. j + 1 \in 1..Len(spare') /\ spare'[j+1] = x
      BY <1>3
    <3>2. QED
      BY <3>1 DEF OnSpare
  <2>3. x = b => OnSpare(x)'
    <3>1. 1 \in 1..Len(spare')
      BY <1>1, <1>3
    <3>2. QED
      BY <3>1, <1>3 DEF OnSpare
  <2>4. QED
    BY <2>1, <2>2, <2>3
<1>9. AllPlaced' /\ born' <= NPages * PerPage
  <2>1. OnChain(b)
    BY DEF OnChain
  <2>2. QED
    BY <2>1, <1>7, <1>8 DEF AllPlaced, Lists
<1>10. next' \in [Desc -> Desc \union {NULL}] /\ chain' \in [Dirs -> Desc \union {NULL}]
  <2>1. next[b] \in Desc \union {NULL} /\ free_bucket_desc \in Desc \union {NULL}
        /\ \A x \in Desc : next[x] \in Desc \union {NULL}
    BY DEF TypeOK
  <2>2. next' \in [Desc -> Desc \union {NULL}]
    BY <2>1
  <2>3. chain' \in [Dirs -> Desc \union {NULL}]
    BY <2>1 DEF TypeOK
  <2>4. QED
    BY <2>2, <2>3
<1>11. Linked'
  <2>0. i \in Nat /\ i >= 1 /\ i <= Len(bucket[d]) /\ b # NULL
    BY <1>1, Constants
  <2>1. /\ \A e \in Dirs :
             /\ chain[e] = IF Len(bucket[e]) = 0 THEN NULL ELSE bucket[e][1]
             /\ \A k \in 1..Len(bucket[e]) : next[bucket[e][k]] =
                  IF k = Len(bucket[e]) THEN NULL ELSE bucket[e][k+1]
        /\ free_bucket_desc = IF Len(spare) = 0 THEN NULL ELSE spare[1]
        /\ \A j \in 1..Len(spare) : next[spare[j]] =
             IF j = Len(spare) THEN NULL ELSE spare[j+1]
    BY Links
  <2>2. /\ next'[b] = free_bucket_desc
        /\ i > 1 => next'[bucket[d][i-1]] = next[b]
        /\ \A x \in Desc : x # b /\ x # before => next'[x] = next[x]
    <3>1. i > 1 => before = bucket[d][i-1] /\ before \in Desc /\ before # b
      <4> SUFFICES ASSUME i > 1 PROVE before = bucket[d][i-1] /\ before \in Desc /\ before # b
        OBVIOUS
      <4>1. i - 1 \in 1..Len(bucket[d]) /\ before = bucket[d][i-1]
        OBVIOUS
      <4>2. i - 1 # i
        BY <2>0
      <4>3. QED
        BY <4>1, <4>2, <1>1, <1>4
    <3>2. QED
      BY <3>1
  <2>3. before = NULL <=> i = 1
    BY <1>1, <2>0
  <2>11. \A e \in Dirs : \A k \in 1..Len(bucket[e]) :
           bucket[e][k] = b \/ bucket[e][k] = before => e = d /\ (k = i \/ k = i - 1)
    <3> SUFFICES ASSUME NEW e \in Dirs, NEW k \in 1..Len(bucket[e]),
                        bucket[e][k] = b \/ bucket[e][k] = before
                 PROVE  e = d /\ (k = i \/ k = i - 1)
      OBVIOUS
    <3>1. CASE bucket[e][k] = b
      <4>1. bucket[e][k] = bucket[d][i]
        BY <3>1
      <4>2. e = d /\ k = i
        BY <4>1, <1>4
      <4>3. QED
        BY <4>2
    <3>2. CASE bucket[e][k] = before
      <4>1. i > 1 /\ i - 1 \in 1..Len(bucket[d]) /\ before = bucket[d][i-1]
        BY <3>2, <1>1
      <4>2. QED
        <5>1. bucket[e][k] = bucket[d][i-1]
          BY <3>2, <4>1
        <5>2. e = d /\ k = i - 1
          BY <5>1, <4>1, <1>4
        <5>3. QED
          BY <5>2
    <3>3. QED
      BY <3>1, <3>2
  <2>12. \A j \in 1..Len(spare) : spare[j] \in Desc /\ spare[j] # b /\ spare[j] # before
    <3> SUFFICES ASSUME NEW j \in 1..Len(spare)
                 PROVE  spare[j] \in Desc /\ spare[j] # b /\ spare[j] # before
      OBVIOUS
    <3>1. spare[j] \in Desc /\ spare[j] # b /\ spare[j] # NULL
      BY <1>1, <1>4
    <3>2. CASE before = NULL
      BY <3>1, <3>2
    <3>3. CASE i - 1 \in 1..Len(bucket[d]) /\ before = bucket[d][i-1]
      BY <3>1, <3>3, <1>4
    <3>4. QED
      BY <3>2, <3>3
  <2>13. Len(bucket'[d]) = Len(bucket[d]) - 1 /\ Len(bucket[d]) \in Nat
    BY <1>2
  <2>14. PICK n \in Nat : Len(bucket[d]) = n /\ Len(bucket'[d]) = n - 1
    BY <2>13
  <2>4. ASSUME NEW e \in Dirs, e # d
        PROVE  /\ chain'[e] = IF Len(bucket'[e]) = 0 THEN NULL ELSE bucket'[e][1]
               /\ \A k \in 1..Len(bucket'[e]) : next'[bucket'[e][k]] =
                    IF k = Len(bucket'[e]) THEN NULL ELSE bucket'[e][k+1]
    <3>1. bucket'[e] = bucket[e] /\ chain'[e] = chain[e]
      BY <2>4, <1>2 DEF TypeOK
    <3>2. ASSUME NEW k \in 1..Len(bucket[e]) PROVE next'[bucket[e][k]] = next[bucket[e][k]]
      <4>1. bucket[e][k] # b /\ bucket[e][k] # before /\ bucket[e][k] \in Desc
        BY <2>4, <2>11, <1>1
      <4>2. QED
        BY <4>1, <2>2
    <3>3. QED
      BY <3>1, <3>2, <2>1
  <2>5. chain'[d] = IF Len(bucket'[d]) = 0 THEN NULL ELSE bucket'[d][1]
    <3>1. CASE i = 1
      <4>1. chain'[d] = next[b]
        BY <3>1, <2>3 DEF TypeOK
      <4>2. next[b] = IF 1 = Len(bucket[d]) THEN NULL ELSE bucket[d][1+1]
        BY <3>1, <2>1
      <4>3. Len(bucket'[d]) = 0 <=> 1 = Len(bucket[d])
        BY <2>14
      <4>4. 1 # Len(bucket[d]) => 1 \in 1..Len(bucket[d])-1 /\ ~(1 < i)
        BY <1>2, <2>0, <3>1
      <4>5. QED
        BY <4>1, <4>2, <4>3, <4>4, <1>2
    <3>2. CASE i # 1
      <4>1. chain'[d] = chain[d] /\ Len(bucket[d]) # 0
        BY <3>2, <2>0, <2>3
      <4>2. Len(bucket'[d]) # 0 /\ 1 \in 1..Len(bucket[d])-1 /\ 1 < i
        BY <3>2, <2>0, <1>2
      <4>3. QED
        BY <4>1, <4>2, <1>2, <2>1
    <3>3. QED
      BY <3>1, <3>2
  <2>6. ASSUME NEW k \in 1..Len(bucket'[d])
        PROVE  next'[bucket'[d][k]] = IF k = Len(bucket'[d]) THEN NULL ELSE bucket'[d][k+1]
    <3>1. k \in Nat /\ k >= 1 /\ k <= Len(bucket[d]) - 1 /\ k \in 1..Len(bucket[d])-1
          /\ k \in 1..Len(bucket[d]) /\ k + 1 \in 1..Len(bucket[d])
      BY <1>2
    <3>2. k # Len(bucket'[d]) => k + 1 \in 1..Len(bucket[d])-1
      BY <3>1, <1>2
    <3>3. CASE k < i - 1
      <4>0. k < i /\ k + 1 < i /\ k # i - 1
        BY <3>1, <3>3, <2>0
      <4>1. bucket'[d][k] = bucket[d][k] /\ k # i /\ k # i - 1 /\ k < i /\ k + 1 < i
        BY <4>0, <3>1, <1>2
      <4>2. bucket[d][k] # b /\ bucket[d][k] # before /\ bucket[d][k] \in Desc
        BY <4>1, <3>1, <2>11, <1>1
      <4>3. next'[bucket'[d][k]] = bucket[d][k+1]
        <5>1. k # Len(bucket[d])
          BY <3>1, <1>2
        <5>2. QED
          BY <5>1, <4>1, <4>2, <3>1, <2>1, <2>2
      <4>4. k # Len(bucket'[d]) /\ bucket'[d][k+1] = bucket[d][k+1]
        <5>1. k # Len(bucket'[d])
          BY <3>3, <2>0, <1>2
        <5>2. QED
          BY <5>1, <3>2, <4>1, <1>2
      <4>5. QED
        BY <4>3, <4>4
    <3>4. CASE k = i - 1
      <4>1. bucket'[d][k] = bucket[d][i-1] /\ k < i /\ i > 1 /\ k + 1 = i /\ ~(k + 1 < i)
        BY <3>1, <3>4, <2>0, <1>2
      <4>2. next'[bucket'[d][k]] = IF i = Len(bucket[d]) THEN NULL ELSE bucket[d][i+1]
        BY <4>1, <2>1, <2>2
      <4>3. k = Len(bucket'[d]) <=> i = Len(bucket[d])
        BY <3>1, <3>4, <2>0, <2>14
      <4>4. k # Len(bucket'[d]) => bucket'[d][k+1] = bucket[d][(k+1)+1]
        BY <3>2, <4>1, <1>2
      <4>5. QED
        BY <4>1, <4>2, <4>3, <4>4
    <3>5. CASE k >= i
      <4>1. bucket'[d][k] = bucket[d][k+1] /\ k + 1 # i /\ k + 1 # i - 1 /\ ~(k < i) /\ ~(k + 1 < i)
        BY <3>1, <3>5, <2>0, <1>2
      <4>2. bucket[d][k+1] # b /\ bucket[d][k+1] # before /\ bucket[d][k+1] \in Desc
        BY <4>1, <3>1, <2>11, <1>1
      <4>3. next'[bucket'[d][k]] =
              IF k + 1 = Len(bucket[d]) THEN NULL ELSE bucket[d][(k+1)+1]
        BY <4>1, <4>2, <3>1, <2>1, <2>2
      <4>4. k = Len(bucket'[d]) <=> k + 1 = Len(bucket[d])
        BY <3>1, <2>14
      <4>5. k # Len(bucket'[d]) => bucket'[d][k+1] = bucket[d][(k+1)+1]
        BY <3>2, <4>1, <1>2
      <4>6. QED
        BY <4>3, <4>4, <4>5
    <3>6. QED
      BY <3>1, <3>3, <3>4, <3>5, <2>0
  <2>7. free_bucket_desc' = IF Len(spare') = 0 THEN NULL ELSE spare'[1]
    BY <1>1, <1>3
  <2>8. ASSUME NEW j \in 1..Len(spare')
        PROVE  next'[spare'[j]] = IF j = Len(spare') THEN NULL ELSE spare'[j+1]
    <3>1. CASE j = 1
      <4>1. Len(spare) # 0 => 1 \in 1..Len(spare)
        BY <1>1
      <4>2. Len(spare') = 1 <=> Len(spare) = 0
        BY <1>1, <1>3
      <4>3. QED
        BY <4>1, <4>2, <3>1, <2>1, <2>2, <1>3
    <3>2. CASE j # 1
      <4>1. j - 1 \in 1..Len(spare) /\ spare'[j] = spare[j-1] /\ (j - 1) + 1 = j
        BY <3>2, <1>1, <1>3
      <4>2. spare[j-1] \in Desc /\ spare[j-1] # b /\ spare[j-1] # before
        BY <4>1, <2>12
      <4>3. next'[spare'[j]] = IF j - 1 = Len(spare) THEN NULL ELSE spare[j]
        BY <4>1, <4>2, <2>1, <2>2
      <4>4. j - 1 = Len(spare) <=> j = Len(spare')
        BY <4>1, <1>1, <1>3
      <4>5. j # Len(spare') => j \in 1..Len(spare)
        BY <4>4, <1>1, <1>3
      <4>6. QED
        BY <4>3, <4>4, <4>5, <1>3
    <3>3. QED
      BY <3>1, <3>2
  <2>9. LinkFacts'
    <3>1. ASSUME NEW e \in Dirs
          PROVE  /\ chain'[e] = IF Len(bucket'[e]) = 0 THEN NULL ELSE bucket'[e][1]
                 /\ \A k \in 1..Len(bucket'[e]) : next'[bucket'[e][k]] =
                      IF k = Len(bucket'[e]) THEN NULL ELSE bucket'[e][k+1]
      <4>1. CASE e = d
        BY <4>1, <2>5, <2>6
      <4>2. CASE e # d
        BY <4>2, <2>4
      <4>3. QED
        BY <4>1, <4>2
    <3>2. QED
      BY <3>1, <2>7, <2>8, <1>2, <1>3 DEF LinkFacts
  <2>10. QED
    BY <2>9, LinkedNext
<1>12. Owned' = Owned \ {b} /\ b \in Owned
  <2>1. \A x \in Desc : x \in Owned <=> OnChain(x)
    BY <1>1 DEF Owned, OnChain
  <2>2. \A x \in Desc : x \in Owned' <=> OnChain(x)'
    <3>1. \A e \in Dirs : DOMAIN bucket'[e] = 1..Len(bucket'[e])
      <4>1. \A e \in Dirs : bucket'[e] \in Seq(Desc)
        BY <1>2
      <4>2. QED
        BY <4>1
    <3>2. QED
      BY <3>1 DEF Owned, OnChain
  <2>3. Owned \subseteq Desc /\ Owned' \subseteq Desc
    BY DEF Owned
  <2>4. OnChain(b)
    BY DEF OnChain
  <2>5. QED
    BY <2>1, <2>2, <2>3, <2>4, <1>7
<1>14. Unborn'
  <2> SUFFICES ASSUME NEW x \in Desc, x > born PROVE next'[x] = NULL
    BY DEF Unborn
  <2>1. next[x] = NULL
    BY DEF Lists, Unborn
  <2>2. \A e \in Dirs : \A k \in 1..Len(bucket[e]) : bucket[e][k] \in Nat /\ bucket[e][k] <= born
    BY Places, Constants
  <2>3. b \in Nat /\ b <= born
    BY <2>2
  <2>4. x # before
    <3>1. CASE before = NULL
      BY <3>1, Constants
    <3>2. CASE i - 1 \in 1..Len(bucket[d]) /\ before = bucket[d][i-1]
      <4>1. before \in Nat /\ before <= born
        BY <3>2, <2>2
      <4>2. QED
        BY <4>1, Constants DEF TypeOK
    <3>3. QED
      BY <3>1, <3>2
  <2>5. x # b
    <3>1. born \in Nat
      BY DEF TypeOK
    <3>2. QED
      BY <3>1, <2>3
  <2>6. QED
    BY <2>1, <2>4, <2>5
<1>13. QED
  BY <1>2, <1>3, <1>6, <1>9, <1>10, <1>11, <1>12, <1>14 DEF Lists

LEMMA OwnedFinite == IsFiniteSet(Owned) /\ Cardinality(Owned) \in Nat
<1>1. Owned \in SUBSET Desc
  BY DEF Owned
<1>2. IsFiniteSet(Owned)
  BY <1>1, Constants, FS_Subset
<1>3. QED
  BY <1>2, FS_CardinalityType

LEMMA UnlinkInv == ASSUME IInv, NEW c \in Ctx, Unlink(c) PROVE IInv'
<1>1. TypeOK /\ Shape /\ Lists /\ Buckets /\ PagesAccounted
  BY DEF IInv
<1>2. PICK d \in Dirs : \E i \in 1..Len(bucket[d]) : \E b \in Desc : \E o \in Block :
        /\ b = bucket[d][i] /\ bdesc[c] = b /\ obj[c] = o /\ o \in live /\ o.dir = d
        /\ page[b] = o.page /\ BucketOf(b, d)
        /\ o.slot \in 1..Blocks[d] /\ o.slot \notin freeptr[b]
  BY OwnBucket DEF Unlink, LastBlock
<1>3. PICK i \in 1..Len(bucket[d]), b \in Desc, o \in Block :
        /\ b = bucket[d][i] /\ bdesc[c] = b /\ obj[c] = o /\ o \in live /\ o.dir = d
        /\ page[b] = o.page /\ BucketOf(b, d)
        /\ o.slot \in 1..Blocks[d] /\ o.slot \notin freeptr[b]
  BY <1>2
<1>4. PICK p : p = CheckedPrev(c)
  OBVIOUS
<1>5. /\ refcnt[b] = 1 /\ pc[c] = "found"
      /\ p # NULL \/ chain[bdir[c]] = b
      /\ freeptr' = [freeptr EXCEPT ![b] = freeptr[b] \union {o.slot}]
      /\ refcnt' = [refcnt EXCEPT ![b] = 0]
      /\ live' = live \ {o}
      /\ chain' = IF p = NULL THEN [chain EXCEPT ![bdir[c]] = next[b]] ELSE chain
      /\ next' = [x \in Desc |-> IF x = b THEN free_bucket_desc
                                 ELSE IF x = p THEN next[b] ELSE next[x]]
      /\ mem_map' = mem_map \ {page[b]}
      /\ free_bucket_desc' = b
      /\ bucket' = [bucket EXCEPT ![d] = RemoveAt(bucket[d], Place(c))]
      /\ spare' = <<b>> \o spare
      /\ raced' = [x \in Ctx |-> x # c /\ (raced[x] \/ Searching(x))]
      /\ Done(c)
      /\ page' = page /\ born' = born /\ stopped' = stopped
  <2>1. bucket[d] = bucket[o.dir]
    BY <1>3
  <2>2. QED
    BY <2>1, <1>3, <1>4 DEF Unlink, LastBlock, UnlinkAfter
<1>6. Place(c) = i
  <2>1. DOMAIN bucket[d] = 1..Len(bucket[d])
    BY <1>1, Places
  <2>2. \A k \in 1..Len(bucket[d]) : bucket[d][k] = b <=> k = i
    BY <1>1, <1>3 DEF Lists, Apart
  <2>3. Place(c) = CHOOSE k \in 1..Len(bucket[d]) : bucket[d][k] = b
    BY <2>1, <1>3 DEF Place
  <2>4. QED
    BY <2>2, <2>3
<1>7. \/ i = 1 /\ p = NULL /\ bdir[c] = d
      \/ i > 1 /\ i - 1 \in 1..Len(bucket[d]) /\ p = bucket[d][i-1]
  <2>1. p = CheckedPrev(c) /\ (p # NULL \/ chain[bdir[c]] = b) /\ pc[c] = "found"
        /\ b = bucket[d][i] /\ bdesc[c] = b
    BY <1>3, <1>4, <1>5
  <2>2. QED
    BY <2>1, UnlinkPlace
<1>8. /\ Lists' /\ Owned' = Owned \ {b} /\ b \in Owned
      /\ next' \in [Desc -> Desc \union {NULL}]
      /\ chain' \in [Dirs -> Desc \union {NULL}]
      /\ bucket' \in [Dirs -> Seq(Desc)] /\ spare' \in Seq(Desc)
  <2>1. \/ i = 1 /\ p = NULL
        \/ i > 1 /\ i - 1 \in 1..Len(bucket[d]) /\ p = bucket[d][i-1]
    BY <1>7
  <2>2. chain' = IF p = NULL THEN [chain EXCEPT ![d] = next[b]] ELSE chain
    <3>1. CASE p = NULL
      <4>1. \A k \in 1..Len(bucket[d]) : bucket[d][k] # NULL
        BY <1>1, Places
      <4>2. bdir[c] = d
        BY <3>1, <4>1, <1>7
      <4>3. QED
        BY <4>2, <1>5
    <3>2. CASE p # NULL
      BY <3>2, <1>5
    <3>3. QED
      BY <3>1, <3>2
  <2>3. bucket' = [bucket EXCEPT ![d] = RemoveAt(bucket[d], i)]
    BY <1>5, <1>6
  <2>4. /\ spare' = <<b>> \o spare /\ free_bucket_desc' = b /\ born' = born
        /\ next' = [x \in Desc |-> IF x = b THEN free_bucket_desc
                                   ELSE IF x = p THEN next[b] ELSE next[x]]
        /\ b = bucket[d][i]
    BY <1>3, <1>5
  <2>5. QED
    <3>1. TakeOut(d, i, b, p)
      BY <2>1, <2>2, <2>3, <2>4 DEF TakeOut
    <3>2. QED
      BY <3>1, <1>1, UnlinkLists
<1>9. /\ \A e \in Dirs : \A k \in 1..Len(bucket'[e]) : \E m \in 1..Len(bucket[e]) :
           /\ m = IF e = d /\ k >= i THEN k + 1 ELSE k
           /\ ~(e = d /\ m = i) /\ bucket'[e][k] = bucket[e][m]
      /\ \A e \in Dirs : \A m \in 1..Len(bucket[e]) :
           (e = d /\ m = i) \/ \E k \in 1..Len(bucket'[e]) : bucket'[e][k] = bucket[e][m]
      /\ \A e \in Dirs : bucket'[e] \in Seq(Desc)
  <2>1. bucket \in [Dirs -> Seq(Desc)] /\ bucket' = [bucket EXCEPT ![d] = RemoveAt(bucket[d], i)]
    BY <1>1, <1>5, <1>6 DEF TypeOK
  <2>2. Shift(d, i)
    BY <2>1, Removed
  <2>3. QED
    BY <2>2 DEF Shift
<1>20. \A e \in Dirs : \A k \in 1..Len(bucket'[e]) : \E m \in 1..Len(bucket[e]) :
         /\ m = IF e = d /\ k >= i THEN k + 1 ELSE k
         /\ ~(e = d /\ m = i) /\ bucket'[e][k] = bucket[e][m]
  BY <1>9
<1>10. /\ Searches'
       /\ obj' \in [Ctx -> Block \union {NoBlock}]
       /\ \A e \in Ctx : obj'[e] \in live' \union {NoBlock}
       /\ pc' \in [Ctx -> {"idle", "search", "found", "panic"}]
       /\ bdir' \in [Ctx -> Dirs \union {0}]
       /\ bdesc' \in [Ctx -> Desc \union {NULL}]
       /\ prev' \in [Ctx -> Desc \union {NULL}]
  <2>1. \A e \in Ctx : e # c /\ ~raced'[e] =>
          ~raced[e] /\ (Searching(e) => bucket' = bucket /\ page' = page)
    BY <1>5
  <2>2. pc[c] # "idle" /\ Done(c) /\ live' = live \ {obj[c]} /\ born' = born
    BY <1>3, <1>5
  <2>3. QED
    BY <2>1, <2>2, SearchDone
<1>11. Shape'
  <2>1. o.slot \in Nat \ {0} /\ freeptr[b] \in SUBSET (Nat \ {0})
    BY <1>1 DEF Block, Shape
  <2>2. freeptr' \in [Desc -> SUBSET (Nat \ {0})]
    BY <2>1, <1>1, <1>5 DEF Shape
  <2>3. live' \subseteq Block /\ IsFiniteSet(live')
    BY <1>1, <1>5, FS_RemoveElement DEF Shape
  <2>4. QED
    BY <2>2, <2>3, <1>10 DEF Shape
<1>12. refcnt' \in [Desc -> Nat] /\ refcnt'[b] = 0
       /\ \A x \in Desc : x # b => freeptr'[x] = freeptr[x] /\ refcnt'[x] = refcnt[x]
  BY <1>1, <1>5 DEF TypeOK, Shape
<1>13. PagesAccounted'
  <2>1. /\ IsFiniteSet(mem_map) /\ Cardinality(mem_map) \in Int
        /\ Cardinality(mem_map') = Cardinality(mem_map) - 1
    <3>1. IsFiniteSet(mem_map)
      <4>1. mem_map \in SUBSET Pages
        BY <1>1 DEF TypeOK
      <4>2. QED
        BY <4>1, Constants, FS_Subset
    <3>2. page[b] \in mem_map
      BY <1>3 DEF BucketOf
    <3>3. Cardinality(mem_map) \in Nat
      BY <3>1, FS_CardinalityType
    <3>4. Cardinality(mem_map \ {page[b]}) = Cardinality(mem_map) - 1
      BY <3>1, <3>2, FS_RemoveElement
    <3>5. QED
      BY <3>1, <3>3, <3>4, <1>5
  <2>2. Cardinality(Owned) \in Int /\ Cardinality(Owned') = Cardinality(Owned) - 1
    <3>1. IsFiniteSet(Owned) /\ Cardinality(Owned) \in Nat
      BY OwnedFinite
    <3>2. Cardinality(Owned \ {b}) = Cardinality(Owned) - 1
      BY <3>1, <1>8, FS_RemoveElement
    <3>3. QED
      BY <3>1, <3>2, <1>8
  <2> DEFINE a == Cardinality(mem_map)
             n == Cardinality(Owned)
  <2>3. a \in Int /\ n \in Int /\ Cardinality(mem_map') = a - 1 /\ Cardinality(Owned') = n - 1
    BY <2>1, <2>2
  <2>4. a * PerPage = n * PerPage + born
    BY <1>1 DEF PagesAccounted
  <2> HIDE DEF a, n
  <2>5. PerPage \in Nat /\ born \in Nat
    BY <1>1, Constants DEF TypeOK
  <2>6. a * PerPage \in Int /\ (a - 1) * PerPage = a * PerPage - PerPage
        /\ n * PerPage \in Int /\ (n - 1) * PerPage = n * PerPage - PerPage
    BY <2>3, <2>5, Times
  <2>7. (a - 1) * PerPage = (n - 1) * PerPage + born
    BY <2>4, <2>5, <2>6
  <2>8. QED
    BY <2>3, <2>7, <1>5 DEF PagesAccounted
<1>14. \A e \in Dirs : \A k \in 1..Len(bucket[e]) :
         /\ bucket[e][k] \in Desc
         /\ ~(e = d /\ k = i) => bucket[e][k] # b /\ page[bucket[e][k]] # page[b]
  <2> SUFFICES ASSUME NEW e \in Dirs, NEW k \in 1..Len(bucket[e])
               PROVE  /\ bucket[e][k] \in Desc
                      /\ ~(e = d /\ k = i) => bucket[e][k] # b /\ page[bucket[e][k]] # page[b]
    OBVIOUS
  <2>1. bucket[e][k] \in Desc
    BY <1>1, Places
  <2>2. page[bucket[e][k]] = page[bucket[d][i]] => e = d /\ k = i
    BY <1>1 DEF Buckets
  <2>3. QED
    BY <2>1, <2>2, <1>3
<1>15. \A q \in live : q.page = page[b] => q = o
  <2>1. IsFiniteSet(Out(b)) /\ o \in Out(b) /\ Cardinality(Out(b)) = 1
    BY <1>1, <1>3, <1>5, OutFinite DEF Shape, Out, BucketOf
  <2>2. IsFiniteSet(Out(b) \ {o}) /\ Cardinality(Out(b) \ {o}) = 1 - 1
    BY <2>1, FS_RemoveElement
  <2>3. Out(b) \ {o} = {}
    <3>1. Cardinality(Out(b) \ {o}) = 0
      BY <2>2
    <3>2. QED
      BY <3>1, <2>2, FS_EmptySet
  <2>4. QED
    BY <2>3 DEF Out
<1>16. ASSUME NEW e \in Dirs, NEW k \in 1..Len(bucket[e]), ~(e = d /\ k = i),
              NEW x \in Desc, x = bucket[e][k]
       PROVE  BucketOf(x, e)'
  <2>1. x # b /\ page[x] # page[b] /\ BucketOf(x, e)
    BY <1>1, <1>14, <1>16 DEF Buckets
  <2>2. page'[x] = page[x] /\ freeptr'[x] = freeptr[x] /\ refcnt'[x] = refcnt[x]
    BY <2>1, <1>5, <1>12
  <2>3. page[x] \in mem_map'
    BY <2>1, <1>5 DEF BucketOf
  <2>4. \A q : q.page = page[x] => (q \in live' <=> q \in live)
    BY <2>1, <1>3, <1>5
  <2>5. QED
    BY <2>1, <2>2, <2>3, <2>4, BucketSame
<1>17. Buckets'
  <2>1. ASSUME NEW e \in Dirs, NEW k \in 1..Len(bucket'[e])
        PROVE  \E x \in Desc : x = bucket'[e][k] /\ BucketOf(x, e)'
    <3>1. PICK m \in 1..Len(bucket[e]) : ~(e = d /\ m = i) /\ bucket'[e][k] = bucket[e][m]
      BY <1>9
    <3>2. PICK x \in Desc : x = bucket[e][m]
      BY <1>14
    <3>3. BucketOf(x, e)'
      BY <3>1, <3>2, <1>16
    <3>4. QED
      BY <3>1, <3>2, <3>3
  <2>0. \A e, f \in Dirs : \A m \in 1..Len(bucket[e]), n \in 1..Len(bucket[f]) :
          page[bucket[e][m]] = page[bucket[f][n]] => e = f /\ m = n
    BY <1>1 DEF Buckets
  <2>2. ASSUME NEW e \in Dirs, NEW f \in Dirs, NEW k \in 1..Len(bucket'[e]), NEW j \in 1..Len(bucket'[f]),
               page'[bucket'[e][k]] = page'[bucket'[f][j]]
        PROVE  e = f /\ k = j
    <3>1. PICK m \in 1..Len(bucket[e]) :
            /\ m = IF e = d /\ k >= i THEN k + 1 ELSE k
            /\ ~(e = d /\ m = i) /\ bucket'[e][k] = bucket[e][m]
      BY <1>20
    <3>2. PICK n \in 1..Len(bucket[f]) :
            /\ n = IF f = d /\ j >= i THEN j + 1 ELSE j
            /\ ~(f = d /\ n = i) /\ bucket'[f][j] = bucket[f][n]
      BY <1>20
    <3>3. page[bucket[e][m]] = page[bucket[f][n]]
      BY <2>2, <3>1, <3>2, <1>5
    <3>4. e = f /\ m = n
      BY <3>3, <2>0
    <3>5. k \in Nat /\ j \in Nat /\ i \in Nat
      <4>1. bucket'[e] \in Seq(Desc) /\ bucket'[f] \in Seq(Desc)
        BY <1>9
      <4>2. Len(bucket'[e]) \in Nat /\ Len(bucket'[f]) \in Nat
        BY <4>1
      <4>3. Len(bucket[d]) \in Nat
        BY <1>1, Places
      <4>4. QED
        BY <4>2, <4>3
    <3>6. k = j
      BY <3>1, <3>2, <3>4, <3>5
    <3>7. QED
      BY <3>4, <3>6
  <2>3. ASSUME NEW q \in live'
        PROVE  \E e \in Dirs : \E k \in 1..Len(bucket'[e]) : page'[bucket'[e][k]] = q.page
    <3>1. q \in live /\ q # o
      BY <1>5
    <3>2. PICK e \in Dirs : \E m \in 1..Len(bucket[e]) : page[bucket[e][m]] = q.page
      BY <3>1, <1>1 DEF Buckets
    <3>3. PICK m \in 1..Len(bucket[e]) : page[bucket[e][m]] = q.page
      BY <3>2
    <3>4. ~(e = d /\ m = i)
      BY <3>1, <3>3, <1>3, <1>15
    <3>5. PICK k \in 1..Len(bucket'[e]) : bucket'[e][k] = bucket[e][m]
      BY <3>4, <1>9
    <3>6. QED
      BY <3>3, <3>5, <1>5
  <2>4. ASSUME NEW x \in Desc, refcnt'[x] > 0 PROVE OnChain(x)'
    <3>1. x # b
      BY <2>4, <1>12
    <3>2. OnChain(x)
      BY <3>1, <2>4, <1>1, <1>12 DEF Buckets
    <3>3. PICK e \in Dirs : \E m \in 1..Len(bucket[e]) : bucket[e][m] = x
      BY <3>2 DEF OnChain
    <3>4. PICK m \in 1..Len(bucket[e]) : bucket[e][m] = x
      BY <3>3
    <3>5. ~(e = d /\ m = i)
      BY <3>1, <3>4, <1>3
    <3>6. PICK k \in 1..Len(bucket'[e]) : bucket'[e][k] = bucket[e][m]
      BY <3>5, <1>9
    <3>7. QED
      BY <3>4, <3>6 DEF OnChain
  <2>5. \A e \in Dirs : \A k \in 1..Len(bucket'[e]) : BucketOf(bucket[e][k], e)'
    BY <2>1
  <2>6. QED
    BY <2>2, <2>3, <2>4, <2>5 DEF Buckets
<1>18. TypeOK'
  <2>1. RefBounded'
    BY <1>11, <1>12, <1>17, RefBoundNext DEF Shape
  <2>2. \A x \in Desc : \E e \in Dirs : refcnt'[x] <= Blocks[e]
    BY <2>1 DEF RefBounded
  <2>3. \A x \in Desc : freeptr'[x] \subseteq Nat \ {0}
    BY <1>11 DEF Shape
  <2>4. \A q \in live' : q.page \in Pages /\ q.slot \in Nat \ {0} /\ q.dir \in Dirs
    BY <1>11 DEF Shape, Block
  <2>5. /\ raced' \in [Ctx -> BOOLEAN] /\ mem_map' \subseteq Pages
        /\ free_bucket_desc' \in Desc \union {NULL}
        /\ page' \in [Desc -> Pages \union {NULL}] /\ born' \in Nat
        /\ stopped' \in {"no", "memory", "chains", "damaged"}
    <3>1. raced' \in [Ctx -> BOOLEAN]
      BY <1>5
    <3>2. QED
      BY <3>1, <1>1, <1>5 DEF TypeOK
  <2>6. QED
    BY <2>2, <2>3, <2>4, <2>5, <1>8, <1>10, <1>12 DEF TypeOK
<1>19. QED
  BY <1>10, <1>11, <1>8, <1>13, <1>17, <1>18 DEF IInv

-----------------------------------------------------------------------------
(* A new bucket.                                                           *)

LEMMA MemoryFinite ==
  ASSUME TypeOK
  PROVE  IsFiniteSet(mem_map) /\ Cardinality(mem_map) \in Nat
         /\ IsFiniteSet(Unused) /\ Cardinality(Unused) \in Nat /\ Unused \subseteq Pages
<1>1. mem_map \in SUBSET Pages /\ Unused \in SUBSET Pages
  BY DEF TypeOK, Unused
<1>2. IsFiniteSet(mem_map) /\ IsFiniteSet(Unused)
  BY <1>1, Constants, FS_Subset
<1>3. QED
  BY <1>1, <1>2, FS_CardinalityType

\* get_free_page, called once or twice, returns pages that were not in use.
LEMMA FreshPages ==
  ASSUME TypeOK, Cardinality(Unused) >= Needed
  PROVE  /\ FirstUnused(DescPages) \in Pages /\ FirstUnused(DescPages) \notin mem_map
         /\ mem_map \union DescPages \union {FirstUnused(DescPages)} \subseteq Pages
         /\ Cardinality(mem_map \union DescPages \union {FirstUnused(DescPages)})
              = Cardinality(mem_map) + Needed
         /\ Cardinality(mem_map) + Needed <= NPages
<1>1. IsFiniteSet(mem_map) /\ Cardinality(mem_map) \in Nat
      /\ IsFiniteSet(Unused) /\ Cardinality(Unused) \in Nat
      /\ mem_map \subseteq Pages
  BY MemoryFinite DEF TypeOK
<1> DEFINE p == FirstUnused(DescPages)
           m == mem_map \union DescPages \union {p}
<1>2. /\ p \in Pages /\ p \notin mem_map /\ m \subseteq Pages
      /\ Cardinality(m) = Cardinality(mem_map) + Needed
  <2>1. CASE spare # <<>>
    <3>1. DescPages = {} /\ Needed = 1
      BY <2>1 DEF DescPages, Needed
    <3>2. Unused # {}
      <4>1. Cardinality(Unused) # 0
        BY <3>1, <1>1
      <4>2. QED
        BY <4>1, FS_EmptySet
    <3>3. Unused \ {} # {}
      BY <3>2
    <3>4. p \in Unused \ {}
      BY <3>1, <3>3, UnusedPage
    <3>5. p \in Pages /\ p \notin mem_map
      BY <3>4 DEF Unused
    <3> HIDE DEF p
    <3>6. m = mem_map \union {p}
      BY <3>1
    <3>7. Cardinality(mem_map \union {p}) = Cardinality(mem_map) + 1
      BY <3>5, <1>1, FS_AddElement
    <3>8. QED
      BY <3>1, <3>5, <3>6, <3>7, <1>1
  <2>2. CASE spare = <<>>
    <3> DEFINE q == FirstUnused({})
    <3>1. DescPages = {q} /\ Needed = 2
      BY <2>2 DEF DescPages, Needed
    <3>2. Unused # {}
      <4>1. Cardinality(Unused) # 0
        BY <3>1, <1>1
      <4>2. QED
        BY <4>1, FS_EmptySet
    <3>3. Unused \ {} # {}
      BY <3>2
    <3>4. q \in Unused
      BY <3>3, UnusedPage
    <3> HIDE DEF q
    <3>5. Unused \ {q} # {}
      <4>1. Cardinality(Unused \ {q}) = Cardinality(Unused) - 1
        BY <3>4, <1>1, FS_RemoveElement
      <4>2. Cardinality(Unused \ {q}) # 0
        BY <4>1, <3>1, <1>1
      <4>3. QED
        BY <4>2, FS_EmptySet
    <3>6. FirstUnused({q}) \in Unused \ {q}
      BY <3>5, UnusedPage
    <3>7. p \in Unused /\ p # q
      BY <3>1, <3>6
    <3> HIDE DEF p
    <3>8. p \in Pages /\ p \notin mem_map /\ q \in Pages /\ q \notin mem_map
      BY <3>4, <3>7 DEF Unused
    <3>9. IsFiniteSet(mem_map \union {q}) /\ Cardinality(mem_map \union {q}) = Cardinality(mem_map) + 1
      BY <3>8, <1>1, FS_AddElement
    <3>10. p \notin mem_map \union {q}
      BY <3>7, <3>8
    <3>11. Cardinality((mem_map \union {q}) \union {p}) = Cardinality(mem_map) + 1 + 1
      BY <3>9, <3>10, FS_AddElement
    <3>12. m = (mem_map \union {q}) \union {p}
      BY <3>1
    <3>13. Cardinality(m) = Cardinality(mem_map) + 2
      BY <3>11, <3>12, <1>1
    <3>14. QED
      BY <3>1, <3>8, <3>12, <3>13, <1>1
  <2>3. QED
    BY <2>1, <2>2
<1>3. Cardinality(m) <= NPages
  <2>1. m \in SUBSET Pages
    BY <1>2
  <2> HIDE DEF m
  <2>2. IsFiniteSet(Pages) /\ Cardinality(Pages) = NPages
    BY Constants
  <2>3. Cardinality(m) <= Cardinality(Pages)
    BY <2>1, <2>2, FS_Subset
  <2>4. QED
    BY <2>2, <2>3
<1>4. QED
  BY <1>2, <1>3

\* The list of unused descriptors, after init_bucket_desc if it was empty.
BornThen == IF spare = <<>> THEN born + PerPage ELSE born

NextThen(x) == IF spare = <<>> /\ x \in born+1..born+PerPage-1 THEN x + 1 ELSE next[x]

BatchGood ==
  /\ Batch \in Seq(Desc) /\ Batch # <<>>
  /\ \A i, j \in 1..Len(Batch) : Batch[i] = Batch[j] => i = j
  /\ \A d \in Dirs : \A i \in 1..Len(bucket[d]), j \in 1..Len(Batch) : bucket[d][i] # Batch[j]
  /\ \A x \in Desc : x <= BornThen <=> OnChain(x) \/ \E j \in 1..Len(Batch) : Batch[j] = x
  /\ \A j \in 1..Len(Batch) : NextThen(Batch[j]) = IF j = Len(Batch) THEN NULL ELSE Batch[j+1]
  /\ BornThen \in Nat /\ born <= BornThen /\ BornThen <= NPages * PerPage

LEMMA BatchFacts ==
  ASSUME TypeOK, Lists, PagesAccounted, Cardinality(Unused) >= Needed
  PROVE  BatchGood
<1>1. CASE spare # <<>>
  <2>1. Batch = spare /\ BornThen = born /\ \A x : NextThen(x) = next[x]
    BY <1>1 DEF Batch, BornThen, NextThen
  <2>2. spare \in Seq(Desc)
    BY DEF TypeOK
  <2>3. /\ \A i, j \in 1..Len(spare) : spare[i] = spare[j] => i = j
        /\ \A d \in Dirs : \A i \in 1..Len(bucket[d]), j \in 1..Len(spare) : bucket[d][i] # spare[j]
    BY DEF Lists, Apart
  <2>4. \A x \in Desc : x <= born <=> OnChain(x) \/ \E j \in 1..Len(spare) : spare[j] = x
    BY DEF Lists, AllPlaced, OnSpare
  <2>5. \A j \in 1..Len(spare) : next[spare[j]] = IF j = Len(spare) THEN NULL ELSE spare[j+1]
    BY Links
  <2>6. born \in Nat /\ born <= born /\ born <= NPages * PerPage
    BY DEF TypeOK, Lists
  <2>7. QED
    BY <1>1, <2>1, <2>2, <2>3, <2>4, <2>5, <2>6 DEF BatchGood
<1>2. CASE spare = <<>>
  <2>1. BornThen = born + PerPage /\ Needed = 2
    BY <1>2 DEF BornThen, Needed
  <2>2. born \in Nat /\ PerPage \in Nat /\ PerPage >= 1 /\ NPages \in Nat /\ NPages * PerPage \in Nat
    BY Constants DEF TypeOK
  <2>3. born + PerPage <= NPages * PerPage
    <3> DEFINE m == Cardinality(mem_map)
               n == Cardinality(Owned)
    <3>1. m \in Nat /\ n \in Nat
      BY MemoryFinite, OwnedFinite
    <3>2. m + 2 <= NPages
      BY <2>1, FreshPages
    <3>3. m * PerPage = n * PerPage + born
      BY DEF PagesAccounted
    <3> HIDE DEF m, n
    <3>4. m * PerPage \in Int /\ (m + 1) * PerPage = m * PerPage + PerPage
      BY <3>1, <2>2, Times
    <3>5. n * PerPage \in Int /\ n * PerPage >= 0
      BY <3>1, <2>2, Times
    <3>6. m + 1 \in Int /\ m + 1 <= NPages /\ NPages \in Int
      BY <3>1, <3>2, <2>2
    <3>7. (m + 1) * PerPage <= NPages * PerPage
      BY <3>6, <2>2, Times
    <3>8. QED
      BY <3>3, <3>4, <3>5, <3>7, <2>2
  <2>4. Batch = [k \in 1..PerPage |-> born + k]
    BY <1>2 DEF Batch
  <2>5. \A k \in 1..PerPage : born + k \in Desc
    BY <2>2, <2>3, Constants
  <2>6. Batch \in Seq(Desc) /\ Len(Batch) = PerPage /\ Batch # <<>> /\ \A k \in 1..PerPage : Batch[k] = born + k
    <3>1. Batch \in Seq(Desc) /\ Len(Batch) = PerPage
      BY <2>2, <2>4, <2>5
    <3>2. \A k \in 1..PerPage : Batch[k] = born + k
      BY <2>4
    <3>3. Len(Batch) # 0
      BY <3>1, <2>2
    <3>4. Batch # <<>>
      <4>1. Len(<<>>) = 0
        OBVIOUS
      <4>2. QED
        BY <3>3, <4>1, Zenon
    <3>5. QED
      BY <3>1, <3>2, <3>4, Zenon
  <2>7. \A i, j \in 1..Len(Batch) : Batch[i] = Batch[j] => i = j
    BY <2>2, <2>6
  <2>8. \A d \in Dirs : \A i \in 1..Len(bucket[d]) : bucket[d][i] \in Nat /\ bucket[d][i] <= born
    BY Places, Constants
  <2>9. \A d \in Dirs : \A i \in 1..Len(bucket[d]), j \in 1..Len(Batch) : bucket[d][i] # Batch[j]
    <3> SUFFICES ASSUME NEW d \in Dirs, NEW i \in 1..Len(bucket[d]), NEW j \in 1..Len(Batch)
                 PROVE  bucket[d][i] # Batch[j]
      OBVIOUS
    <3>1. j \in 1..PerPage /\ Batch[j] = born + j
      BY <2>6
    <3>2. bucket[d][i] \in Nat /\ bucket[d][i] <= born
      BY <2>8
    <3>3. QED
      BY <3>1, <3>2, <2>2
  <2>10. ASSUME NEW x \in Desc
         PROVE  x <= BornThen <=> OnChain(x) \/ \E j \in 1..Len(Batch) : Batch[j] = x
    <3>1. x \in Nat /\ (x <= born <=> OnChain(x))
      <4>1. Len(spare) = 0
        BY <1>2
      <4>2. QED
        BY <4>1, Constants DEF Lists, AllPlaced, OnSpare
    <3>2. (x <= born + PerPage /\ ~(x <= born)) => x - born \in 1..PerPage /\ born + (x - born) = x
      BY <3>1, <2>2
    <3>3. \A j \in 1..PerPage : born + j = x => x <= born + PerPage
      BY <3>1, <2>2
    <3>4. x <= born => x <= born + PerPage
      BY <3>1, <2>2
    <3>5. (\E j \in 1..Len(Batch) : Batch[j] = x) <=> \E j \in 1..PerPage : born + j = x
      BY <2>6
    <3>6. QED
      BY <3>1, <3>2, <3>3, <3>4, <3>5, <2>1
  <2>11. ASSUME NEW j \in 1..Len(Batch)
         PROVE  NextThen(Batch[j]) = IF j = Len(Batch) THEN NULL ELSE Batch[j+1]
    <3>1. j \in 1..PerPage /\ Batch[j] = born + j
      BY <2>6
    <3>2. CASE j = PerPage
      <4>1. born + j \notin born+1..born+PerPage-1 /\ born + j > born
        BY <3>1, <3>2, <2>2
      <4>2. next[born+j] = NULL
        BY <3>1, <4>1, <2>5 DEF Lists, Unborn
      <4>3. QED
        BY <3>1, <3>2, <4>1, <4>2, <2>6 DEF NextThen
    <3>3. CASE j # PerPage
      <4>1. born + j \in born+1..born+PerPage-1 /\ j + 1 \in 1..PerPage /\ born + j + 1 = born + (j + 1)
        BY <3>1, <3>3, <2>2
      <4>2. QED
        BY <3>1, <3>3, <4>1, <2>6, <1>2 DEF NextThen
    <3>4. QED
      BY <3>2, <3>3
  <2>12. BornThen \in Nat /\ born <= BornThen /\ BornThen <= NPages * PerPage
    BY <2>1, <2>2, <2>3
  <2>13. QED
    BY <2>6, <2>7, <2>9, <2>10, <2>11, <2>12 DEF BatchGood
<1>3. QED
  BY <1>1, <1>2

\* What kmalloc does to the lists for a new bucket b.
PutIn(d, b) ==
  /\ b = Batch[1]
  /\ bucket' = [bucket EXCEPT ![d] = <<b>> \o bucket[d]]
  /\ spare' = Tail(Batch)
  /\ free_bucket_desc' = IF Len(Batch) > 1 THEN Batch[2] ELSE NULL
  /\ born' = BornThen
  /\ chain' = [chain EXCEPT ![d] = b]
  /\ next' = [x \in Desc |-> IF x = b THEN chain[d] ELSE NextThen(x)]

LEMMA PutInLists ==
  ASSUME TypeOK, Lists, BatchGood, NEW d \in Dirs, NEW b \in Desc, PutIn(d, b)
  PROVE  /\ Lists' /\ Owned' = Owned \union {b} /\ b \notin Owned
         /\ next' \in [Desc -> Desc \union {NULL}]
         /\ chain' \in [Dirs -> Desc \union {NULL}]
         /\ free_bucket_desc' \in Desc \union {NULL}
         /\ bucket' \in [Dirs -> Seq(Desc)] /\ spare' \in Seq(Desc)
         /\ born' \in Nat /\ born <= born'
<1>1. /\ \A e \in Dirs : /\ bucket[e] \in Seq(Desc) /\ Len(bucket[e]) \in Nat
                         /\ \A k \in 1..Len(bucket[e]) : bucket[e][k] \in Desc /\ bucket[e][k] <= born
      /\ born \in Nat /\ born' = BornThen /\ BornThen \in Nat /\ born <= BornThen
      /\ BornThen <= NPages * PerPage
      /\ \A e \in Dirs : \A k \in 1..Len(bucket[e]) : bucket[e][k] \in Nat
  BY Places, Constants DEF BatchGood, PutIn, TypeOK
<1>2. /\ Batch \in Seq(Desc) /\ Batch # <<>> /\ b = Batch[1]
      /\ \A j, k \in 1..Len(Batch) : Batch[j] = Batch[k] => j = k
      /\ \A e \in Dirs : \A k \in 1..Len(bucket[e]), j \in 1..Len(Batch) : bucket[e][k] # Batch[j]
      /\ \A x \in Desc : x <= BornThen <=> OnChain(x) \/ \E j \in 1..Len(Batch) : Batch[j] = x
      /\ \A j \in 1..Len(Batch) : NextThen(Batch[j]) = IF j = Len(Batch) THEN NULL ELSE Batch[j+1]
  BY DEF BatchGood, PutIn
<1>3. PICK t \in Seq(Desc) : t = Tail(Batch)
  <2>1. Tail(Batch) \in Seq(Desc)
    BY <1>2, TailFacts
  <2>2. QED
    BY <2>1
<1>4. /\ spare' = t /\ Len(Batch) \in Nat /\ Len(Batch) >= 1 /\ Len(t) = Len(Batch) - 1
      /\ \A k \in 1..Len(t) : k + 1 \in 1..Len(Batch) /\ t[k] = Batch[k+1]
      /\ \A k \in 1..Len(Batch) : k = 1 \/ (k - 1 \in 1..Len(t) /\ t[k-1] = Batch[k])
  BY <1>2, <1>3, TailFacts DEF PutIn
<1>5. PICK s \in Seq(Desc) : s = bucket[d]
  BY <1>1
<1>6. PICK r \in Seq(Desc) : r = <<b>> \o s
  <2>1. <<b>> \o s \in Seq(Desc)
    BY ConsFacts
  <2>2. QED
    BY <2>1
<1>7. /\ Len(r) = Len(s) + 1 /\ Len(s) \in Nat /\ r[1] = b
      /\ \A k \in 1..Len(s) : k + 1 \in 1..Len(s)+1 /\ r[k+1] = s[k]
      /\ \A k \in 1..Len(s)+1 : k = 1 \/ (k - 1 \in 1..Len(s) /\ r[k] = s[k-1])
  BY <1>6, ConsFacts
<1>8. /\ bucket' = [bucket EXCEPT ![d] = r] /\ bucket' \in [Dirs -> Seq(Desc)]
      /\ bucket'[d] = r /\ bucket[d] = s
      /\ \A e \in Dirs : e # d => bucket'[e] = bucket[e]
  <2>1. bucket' = [bucket EXCEPT ![d] = r] /\ bucket \in [Dirs -> Seq(Desc)]
    BY <1>5, <1>6 DEF PutIn, TypeOK
  <2>2. QED
    BY <2>1, <1>5
<1>9. \A e \in Dirs : \A k \in 1..Len(bucket[e]) : bucket[e][k] # b
  <2>1. 1 \in 1..Len(Batch)
    BY <1>4
  <2>2. QED
    BY <2>1, <1>2, SMTT(30)
<1>10. \A k \in 1..Len(t) : t[k] # b /\ t[k] \in Desc
  <2> SUFFICES ASSUME NEW k \in 1..Len(t) PROVE t[k] # b /\ t[k] \in Desc
    OBVIOUS
  <2>1. k + 1 \in 1..Len(Batch) /\ t[k] = Batch[k+1] /\ 1 \in 1..Len(Batch) /\ k + 1 # 1
    BY <1>4
  <2>2. Batch[k+1] # Batch[1]
    BY <2>1, <1>2
  <2>3. QED
    BY <2>1, <2>2, <1>2
\* Each place of a chain after the step: the new bucket, or a place before it.
<1>11. ASSUME NEW e \in Dirs, NEW k \in 1..Len(bucket'[e])
       PROVE  \/ e = d /\ k = 1 /\ bucket'[e][k] = b
              \/ \E m \in 1..Len(bucket[e]) :
                   m = (IF e = d THEN k - 1 ELSE k) /\ bucket'[e][k] = bucket[e][m]
  <2>1. CASE e = d
    BY <2>1, <1>7, <1>8
  <2>2. CASE e # d
    BY <2>2, <1>8
  <2>3. QED
    BY <2>1, <2>2
<1>12. ASSUME NEW e \in Dirs, NEW m \in 1..Len(bucket[e])
       PROVE  \E k \in 1..Len(bucket'[e]) : bucket'[e][k] = bucket[e][m]
  <2>1. CASE e = d
    BY <2>1, <1>7, <1>8
  <2>2. CASE e # d
    BY <2>2, <1>8
  <2>3. QED
    BY <2>1, <2>2
<1>13. \A e \in Dirs : Len(bucket'[e]) \in Nat
  <2>1. \A e \in Dirs : bucket'[e] \in Seq(Desc)
    BY <1>8
  <2>2. QED
    BY <2>1
<1>14. Apart'
  <2>0. \A e, f \in Dirs : \A m \in 1..Len(bucket[e]), n \in 1..Len(bucket[f]) :
          bucket[e][m] = bucket[f][n] => e = f /\ m = n
    BY DEF Lists, Apart
  <2>1. ASSUME NEW e \in Dirs, NEW f \in Dirs, NEW k \in 1..Len(bucket'[e]), NEW j \in 1..Len(bucket'[f]),
               bucket'[e][k] = bucket'[f][j]
        PROVE  e = f /\ k = j
    <3>1. CASE bucket'[e][k] = b
      <4>1. e = d /\ k = 1
        BY <3>1, <1>9, <1>11
      <4>2. f = d /\ j = 1
        BY <3>1, <2>1, <1>9, <1>11
      <4>3. QED
        BY <4>1, <4>2
    <3>2. CASE bucket'[e][k] # b
      <4>1. PICK m \in 1..Len(bucket[e]) :
              m = (IF e = d THEN k - 1 ELSE k) /\ bucket'[e][k] = bucket[e][m]
        BY <3>2, <1>11
      <4>2. PICK n \in 1..Len(bucket[f]) :
              n = (IF f = d THEN j - 1 ELSE j) /\ bucket'[f][j] = bucket[f][n]
        BY <3>2, <2>1, <1>11
      <4>3. e = f /\ m = n
        <5>1. bucket[e][m] = bucket[f][n]
          BY <4>1, <4>2, <2>1
        <5>2. QED
          BY <5>1, <2>0
      <4>4. k \in Nat /\ j \in Nat
        BY <1>13
      <4>5. QED
        BY <4>1, <4>2, <4>3, <4>4
    <3>3. QED
      BY <3>1, <3>2
  <2>2. ASSUME NEW k \in 1..Len(t), NEW j \in 1..Len(t), t[k] = t[j] PROVE k = j
    <3>1. /\ k + 1 \in 1..Len(Batch) /\ t[k] = Batch[k+1]
          /\ j + 1 \in 1..Len(Batch) /\ t[j] = Batch[j+1]
          /\ k \in Nat /\ j \in Nat
      BY <1>4
    <3>2. k + 1 = j + 1
      BY <3>1, <2>2, <1>2
    <3>3. QED
      BY <3>1, <3>2
  <2>3. ASSUME NEW e \in Dirs, NEW k \in 1..Len(bucket'[e]), NEW j \in 1..Len(t)
        PROVE  bucket'[e][k] # t[j]
    <3>1. CASE bucket'[e][k] = b
      BY <3>1, <1>10
    <3>2. CASE bucket'[e][k] # b
      <4>1. PICK m \in 1..Len(bucket[e]) : bucket'[e][k] = bucket[e][m]
        BY <3>2, <1>11
      <4>2. j + 1 \in 1..Len(Batch) /\ t[j] = Batch[j+1]
        BY <1>4
      <4>3. QED
        BY <4>1, <4>2, <1>2
    <3>3. QED
      BY <3>1, <3>2
  <2>4. QED
    BY <2>1, <2>2, <2>3, <1>4 DEF Apart
<1>15. ASSUME NEW x \in Desc PROVE OnChain(x)' <=> OnChain(x) \/ x = b
  <2>1. OnChain(x)' => OnChain(x) \/ x = b
    BY <1>11 DEF OnChain
  <2>2. OnChain(x) => OnChain(x)'
    <3> SUFFICES ASSUME NEW e \in Dirs, NEW m \in 1..Len(bucket[e]), bucket[e][m] = x
                 PROVE  OnChain(x)'
      BY DEF OnChain
    <3>1. PICK k \in 1..Len(bucket'[e]) : bucket'[e][k] = bucket[e][m]
      BY <1>12
    <3>2. QED
      BY <3>1 DEF OnChain
  <2>3. x = b => OnChain(x)'
    <3>1. 1 \in 1..Len(bucket'[d]) /\ bucket'[d][1] = b
      BY <1>7, <1>8
    <3>2. QED
      BY <3>1 DEF OnChain
  <2>4. QED
    BY <2>1, <2>2, <2>3
<1>16. ASSUME NEW x \in Desc
       PROVE  (\E j \in 1..Len(Batch) : Batch[j] = x) <=> OnSpare(x)' \/ x = b
  <2>1. OnSpare(x)' <=> \E j \in 1..Len(t) : t[j] = x
    BY <1>4 DEF OnSpare
  <2>2. 1 \in 1..Len(Batch)
    BY <1>4
  <2>3. ASSUME NEW j \in 1..Len(Batch), Batch[j] = x PROVE OnSpare(x)' \/ x = b
    BY <2>1, <2>3, <1>2, <1>4
  <2>4. ASSUME NEW k \in 1..Len(t), t[k] = x PROVE \E j \in 1..Len(Batch) : Batch[j] = x
    BY <2>4, <1>4
  <2>5. x = b => \E j \in 1..Len(Batch) : Batch[j] = x
    BY <2>2, <1>2
  <2>6. QED
    BY <2>1, <2>3, <2>4, <2>5
<1>17. AllPlaced' /\ born' <= NPages * PerPage
  BY <1>1, <1>2, <1>15, <1>16 DEF AllPlaced
<1>18. /\ next'[b] = chain[d]
       /\ \A x \in Desc : x # b => next'[x] = NextThen(x)
       /\ \A e \in Dirs : e # d => chain'[e] = chain[e]
       /\ chain'[d] = b
  BY DEF PutIn, TypeOK
<1>19. next' \in [Desc -> Desc \union {NULL}] /\ chain' \in [Dirs -> Desc \union {NULL}]
  <2>1. chain \in [Dirs -> Desc \union {NULL}] /\ next \in [Desc -> Desc \union {NULL}]
    BY DEF TypeOK
  <2>2. \A x \in Desc : NextThen(x) \in Desc \union {NULL}
    <3> SUFFICES ASSUME NEW x \in Desc PROVE NextThen(x) \in Desc \union {NULL}
      OBVIOUS
    <3>1. CASE spare = <<>> /\ x \in born+1..born+PerPage-1
      <4>1. BornThen = born + PerPage
        BY <3>1 DEF BornThen
      <4>2. PerPage \in Nat /\ NPages * PerPage \in Nat
        BY Constants
      <4>3. x + 1 \in Nat /\ 1 <= x + 1 /\ x + 1 <= NPages * PerPage
        BY <3>1, <4>1, <4>2, <1>1
      <4>4. QED
        BY <3>1, <4>3, Constants DEF NextThen
    <3>2. CASE ~(spare = <<>> /\ x \in born+1..born+PerPage-1)
      BY <3>2, <2>1 DEF NextThen
    <3>3. QED
      BY <3>1, <3>2
  <2>3. next' \in [Desc -> Desc \union {NULL}]
    BY <2>1, <2>2 DEF PutIn
  <2>4. chain' \in [Dirs -> Desc \union {NULL}]
    BY <2>1 DEF PutIn
  <2>5. QED
    BY <2>3, <2>4
<1>20. free_bucket_desc' = (IF Len(t) = 0 THEN NULL ELSE t[1]) /\ free_bucket_desc' \in Desc \union {NULL}
  <2>1. CASE Len(Batch) > 1
    <3>1. Len(t) # 0 /\ 1 \in 1..Len(t) /\ t[1] = Batch[1+1] /\ free_bucket_desc' = Batch[2]
      BY <2>1, <1>4 DEF PutIn
    <3>2. QED
      BY <3>1, <1>10
  <2>2. CASE ~(Len(Batch) > 1)
    <3>1. Len(t) = 0 /\ free_bucket_desc' = NULL
      BY <2>2, <1>4 DEF PutIn
    <3>2. QED
      BY <3>1
  <2>3. QED
    BY <2>1, <2>2
<1>21. Linked'
  <2>1. \A e \in Dirs : \A k \in 1..Len(bucket[e]) : next'[bucket[e][k]] = next[bucket[e][k]]
    <3> SUFFICES ASSUME NEW e \in Dirs, NEW k \in 1..Len(bucket[e])
                 PROVE  next'[bucket[e][k]] = next[bucket[e][k]]
      OBVIOUS
    <3>1. bucket[e][k] # b /\ bucket[e][k] \in Desc /\ bucket[e][k] \in Nat /\ bucket[e][k] <= born
      BY <1>1, <1>9
    <3>2. bucket[e][k] \notin born+1..born+PerPage-1
      BY <3>1, <1>1
    <3>3. QED
      BY <3>1, <3>2, <1>18 DEF NextThen
  <2>2. \A e \in Dirs :
          /\ chain[e] = IF Len(bucket[e]) = 0 THEN NULL ELSE bucket[e][1]
          /\ \A k \in 1..Len(bucket[e]) : next[bucket[e][k]] =
               IF k = Len(bucket[e]) THEN NULL ELSE bucket[e][k+1]
    BY Links
  <2>3. ASSUME NEW e \in Dirs, e # d
        PROVE  /\ chain'[e] = IF Len(bucket'[e]) = 0 THEN NULL ELSE bucket'[e][1]
               /\ \A k \in 1..Len(bucket'[e]) : next'[bucket'[e][k]] =
                    IF k = Len(bucket'[e]) THEN NULL ELSE bucket'[e][k+1]
    <3>1. bucket'[e] = bucket[e] /\ chain'[e] = chain[e]
      BY <2>3, <1>8, <1>18
    <3>2. QED
      BY <3>1, <2>1, <2>2
  <2>4. chain'[d] = IF Len(r) = 0 THEN NULL ELSE r[1]
    BY <1>7, <1>18
  <2>5. ASSUME NEW k \in 1..Len(r)
        PROVE  next'[r[k]] = IF k = Len(r) THEN NULL ELSE r[k+1]
    <3>1. CASE k = 1
      <4>1. next'[r[k]] = IF Len(s) = 0 THEN NULL ELSE s[1]
        BY <3>1, <2>2, <1>7, <1>8, <1>18
      <4>2. Len(s) # 0 => 1 \in 1..Len(s) /\ r[1+1] = s[1] /\ k # Len(r)
        BY <3>1, <1>7
      <4>3. Len(s) = 0 => k = Len(r)
        BY <3>1, <1>7
      <4>4. QED
        BY <3>1, <4>1, <4>2, <4>3
    <3>2. CASE k # 1
      <4>1. k - 1 \in 1..Len(s) /\ r[k] = s[k-1] /\ (k - 1) + 1 = k
        BY <3>2, <1>7
      <4>2. next'[s[k-1]] = next[s[k-1]]
        BY <4>1, <2>1, <1>8
      <4>3. next[s[k-1]] = IF k - 1 = Len(s) THEN NULL ELSE s[(k-1)+1]
        BY <4>1, <2>2, <1>8
      <4>4. (k - 1 = Len(s) <=> k = Len(r)) /\ (k # Len(r) => k \in 1..Len(s))
        BY <4>1, <1>7
      <4>5. k # Len(r) => r[k+1] = s[k]
        BY <4>4, <1>7
      <4>6. QED
        BY <4>1, <4>2, <4>3, <4>4, <4>5
    <3>3. QED
      BY <3>1, <3>2
  <2>6. ASSUME NEW j \in 1..Len(t)
        PROVE  next'[t[j]] = IF j = Len(t) THEN NULL ELSE t[j+1]
    <3>1. j + 1 \in 1..Len(Batch) /\ t[j] = Batch[j+1]
      BY <1>4
    <3>2. next'[t[j]] = NextThen(Batch[j+1])
      BY <3>1, <1>10, <1>18
    <3>3. NextThen(Batch[j+1]) = IF j + 1 = Len(Batch) THEN NULL ELSE Batch[(j+1)+1]
      BY <3>1, <1>2
    <3>4. j + 1 = Len(Batch) <=> j = Len(t)
      BY <1>4
    <3>5. j # Len(t) => j + 1 \in 1..Len(t) /\ t[j+1] = Batch[(j+1)+1]
      <4>1. j # Len(t) => j + 1 \in 1..Len(t)
        BY <1>4
      <4>2. QED
        BY <4>1, <1>4
    <3>6. QED
      BY <3>2, <3>3, <3>4, <3>5
  <2>7. LinkFacts'
    <3>1. ASSUME NEW e \in Dirs
          PROVE  /\ chain'[e] = IF Len(bucket'[e]) = 0 THEN NULL ELSE bucket'[e][1]
                 /\ \A k \in 1..Len(bucket'[e]) : next'[bucket'[e][k]] =
                      IF k = Len(bucket'[e]) THEN NULL ELSE bucket'[e][k+1]
      <4>1. CASE e = d
        BY <4>1, <2>4, <2>5, <1>8
      <4>2. CASE e # d
        BY <4>2, <2>3
      <4>3. QED
        BY <4>1, <4>2
    <3>2. spare' = t /\ t \in Seq(Desc)
      BY <1>4
    <3>3. QED
      BY <3>1, <3>2, <2>6, <1>8, <1>20 DEF LinkFacts
  <2>8. QED
    BY <2>7, LinkedNext
<1>22. Unborn'
  <2> SUFFICES ASSUME NEW x \in Desc, x > BornThen PROVE next'[x] = NULL
    BY <1>1 DEF Unborn
  <2>1. x \in Nat /\ x > born
    BY <1>1, Constants
  <2>2. next[x] = NULL
    BY <2>1 DEF Lists, Unborn
  <2>3. ~(spare = <<>> /\ x \in born+1..born+PerPage-1)
    <3>1. PerPage \in Nat
      BY Constants
    <3>2. spare = <<>> => BornThen = born + PerPage
      BY DEF BornThen
    <3>3. QED
      BY <3>1, <3>2, <2>1, <1>1
  <2>4. x # b
    <3>1. 1 \in 1..Len(Batch)
      BY <1>4
    <3>2. b <= BornThen
      BY <3>1, <1>2
    <3>3. b \in Nat
      BY Constants
    <3>4. QED
      BY <3>2, <3>3, <1>1
  <2>5. QED
    BY <2>2, <2>3, <2>4, <1>18 DEF NextThen
<1>23. Owned' = Owned \union {b} /\ b \notin Owned
  <2>1. \A x \in Desc : x \in Owned <=> OnChain(x)
    BY Places DEF Owned, OnChain
  <2>2. \A x \in Desc : x \in Owned' <=> OnChain(x)'
    <3>1. \A e \in Dirs : DOMAIN bucket'[e] = 1..Len(bucket'[e])
      <4>1. \A e \in Dirs : bucket'[e] \in Seq(Desc)
        BY <1>8
      <4>2. QED
        BY <4>1
    <3>2. QED
      BY <3>1 DEF Owned, OnChain
  <2>3. Owned \subseteq Desc /\ Owned' \subseteq Desc
    BY DEF Owned
  <2>4. ~OnChain(b)
    BY <1>9 DEF OnChain
  <2>5. QED
    BY <2>1, <2>2, <2>3, <2>4, <1>15
<1>24. QED
  BY <1>1, <1>4, <1>8, <1>14, <1>17, <1>19, <1>20, <1>21, <1>22, <1>23 DEF Lists

LEMMA MallocNewInv == ASSUME IInv, NEW d \in Dirs, MallocNew(d) PROVE IInv'
<1>1. TypeOK /\ Shape /\ Lists /\ Buckets /\ PagesAccounted
  BY DEF IInv
<1>2. Cardinality(Unused) >= Needed
  BY DEF MallocNew
<1>3. BatchGood
  BY <1>1, <1>2, BatchFacts
<1>4. PICK b \in Desc : b = Batch[1]
  <2>1. Batch \in Seq(Desc) /\ Batch # <<>>
    BY <1>3 DEF BatchGood
  <2>2. Batch[1] \in Desc
    BY <2>1
  <2>3. QED
    BY <2>2
<1>5. PICK p \in Pages : p = FirstUnused(DescPages)
  BY <1>1, <1>2, FreshPages
<1>6. PICK m : m = mem_map \union DescPages \union {p}
  OBVIOUS
<1>7. /\ p \notin mem_map /\ m \subseteq Pages
      /\ Cardinality(m) = Cardinality(mem_map) + Needed
      /\ Cardinality(mem_map) \in Nat
  BY <1>1, <1>2, <1>5, <1>6, FreshPages, MemoryFinite
<1> DEFINE o == [page |-> p, slot |-> 1, dir |-> d]
<1>8. /\ mem_map' = m /\ page' = [page EXCEPT ![b] = p]
      /\ freeptr' = [freeptr EXCEPT ![b] = 2..Blocks[d]]
      /\ refcnt' = [refcnt EXCEPT ![b] = 1]
      /\ live' = live \union {o}
      /\ UNCHANGED <<kfreeVars, stopped, raced>>
  BY <1>4, <1>5, <1>6 DEF MallocNew, HandOut
<1>9. PutIn(d, b)
  BY <1>4 DEF MallocNew, PutIn, BornThen, NextThen
<1>10. /\ Lists' /\ Owned' = Owned \union {b} /\ b \notin Owned
       /\ next' \in [Desc -> Desc \union {NULL}]
       /\ chain' \in [Dirs -> Desc \union {NULL}]
       /\ free_bucket_desc' \in Desc \union {NULL}
       /\ bucket' \in [Dirs -> Seq(Desc)] /\ spare' \in Seq(Desc)
       /\ born' \in Nat /\ born <= born'
  BY <1>1, <1>3, <1>9, PutInLists
<1>11. o \in Block /\ o.page = p /\ o.slot = 1 /\ o.dir = d
  <2>1. 1 \in Nat \ {0}
    OBVIOUS
  <2>2. QED
    BY <2>1, BlockNew
<1> HIDE DEF o
<1>12. Blocks[d] \in Nat /\ Blocks[d] >= 1
  BY Constants
<1>13. Shape'
  <2>1. 2..Blocks[d] \subseteq Nat \ {0}
    BY <1>12
  <2>2. freeptr' \in [Desc -> SUBSET (Nat \ {0})]
    BY <2>1, <1>1, <1>8 DEF Shape
  <2>3. live' \subseteq Block /\ IsFiniteSet(live')
    BY <1>1, <1>8, <1>11, FS_AddElement DEF Shape
  <2>4. obj' = obj
    BY <1>8 DEF kfreeVars
  <2>5. QED
    BY <2>2, <2>3, <2>4, <1>1 DEF Shape
<1>14. /\ refcnt' \in [Desc -> Nat] /\ refcnt'[b] = 1 /\ page'[b] = p
       /\ freeptr'[b] = 2..Blocks[d]
       /\ \A x \in Desc : x # b =>
            freeptr'[x] = freeptr[x] /\ refcnt'[x] = refcnt[x] /\ page'[x] = page[x]
       /\ page' \in [Desc -> Pages \union {NULL}]
  BY <1>1, <1>8 DEF TypeOK, Shape
\* The new page is the page of no bucket and of no block in use.
<1>15. \A e \in Dirs : \A k \in 1..Len(bucket[e]) :
         /\ bucket[e][k] \in Desc /\ bucket[e][k] # b
         /\ page[bucket[e][k]] \in mem_map /\ page[bucket[e][k]] # p
  <2> SUFFICES ASSUME NEW e \in Dirs, NEW k \in 1..Len(bucket[e])
               PROVE  /\ bucket[e][k] \in Desc /\ bucket[e][k] # b
                      /\ page[bucket[e][k]] \in mem_map /\ page[bucket[e][k]] # p
    OBVIOUS
  <2>1. bucket[e][k] \in Desc /\ DOMAIN bucket[e] = 1..Len(bucket[e])
    BY <1>1, Places
  <2>2. bucket[e][k] # b
    BY <2>1, <1>10 DEF Owned
  <2>3. page[bucket[e][k]] \in mem_map
    BY <1>1 DEF Buckets, BucketOf
  <2>4. QED
    BY <2>1, <2>2, <2>3, <1>7
<1>16. \A q \in live : q.page # p
  <2> SUFFICES ASSUME NEW q \in live PROVE q.page # p
    OBVIOUS
  <2>1. PICK e \in Dirs : \E k \in 1..Len(bucket[e]) : page[bucket[e][k]] = q.page
    BY <1>1 DEF Buckets
  <2>2. QED
    BY <2>1, <1>15
<1>17. PagesAccounted'
  <2>1. Cardinality(Owned') = Cardinality(Owned) + 1 /\ Cardinality(Owned) \in Nat
    BY <1>10, OwnedFinite, FS_AddElement
  <2> DEFINE a == Cardinality(mem_map)
             n == Cardinality(Owned)
  <2>2. a \in Int /\ n \in Int /\ Cardinality(mem_map') = a + Needed /\ Cardinality(Owned') = n + 1
    BY <2>1, <1>7, <1>8
  <2>3. a * PerPage = n * PerPage + born
    BY <1>1 DEF PagesAccounted
  <2> HIDE DEF a, n
  <2>4. PerPage \in Nat /\ born \in Nat
    BY <1>1, Constants DEF TypeOK
  <2>5. /\ a * PerPage \in Int /\ (a + 1) * PerPage = a * PerPage + PerPage
        /\ (a + 2) * PerPage = a * PerPage + PerPage + PerPage
        /\ n * PerPage \in Int /\ (n + 1) * PerPage = n * PerPage + PerPage
    BY <2>2, <2>4, Times
  <2>6. born' = BornThen
    BY <1>9 DEF PutIn
  <2>7. CASE spare = <<>>
    <3>1. Needed = 2 /\ BornThen = born + PerPage
      BY <2>7 DEF Needed, BornThen
    <3>2. (a + 2) * PerPage = (n + 1) * PerPage + (born + PerPage)
      BY <2>3, <2>4, <2>5
    <3>3. QED
      BY <3>1, <3>2, <2>2, <2>6 DEF PagesAccounted
  <2>8. CASE spare # <<>>
    <3>1. Needed = 1 /\ BornThen = born
      BY <2>8 DEF Needed, BornThen
    <3>2. (a + 1) * PerPage = (n + 1) * PerPage + born
      BY <2>3, <2>4, <2>5
    <3>3. QED
      BY <3>1, <3>2, <2>2, <2>6 DEF PagesAccounted
  <2>9. QED
    BY <2>7, <2>8
<1>18. BucketOf(b, d)'
  <2>1. freeptr'[b] \subseteq 1..Blocks[d] /\ 1 \notin freeptr'[b] /\ 1 \in 1..Blocks[d]
        /\ \A k \in (1..Blocks[d]) \ freeptr'[b] : k = 1
    BY <1>12, <1>14
  <2>2. \A q \in live' : q.page = p => q = o
    BY <1>8, <1>16
  <2>3. o \in live'
    BY <1>8
  <2>4. Out(b)' = {o}
    BY <2>2, <2>3, <1>11, <1>14 DEF Out
  <2>5. refcnt'[b] = Cardinality(Out(b)') /\ refcnt'[b] > 0
    <3>1. Cardinality({o}) = 1
      BY FS_Singleton
    <3>2. QED
      BY <3>1, <2>4, <1>14
  <2>6. page'[b] \in mem_map'
    BY <1>6, <1>8, <1>14
  <2>7. \A q \in live' : q.page = page'[b] => q.dir = d /\ q.slot \in (1..Blocks[d]) \ freeptr'[b]
    BY <2>1, <2>2, <1>11, <1>14
  <2>8. \A k \in (1..Blocks[d]) \ freeptr'[b] : [page |-> page'[b], slot |-> k, dir |-> d] \in live'
    BY <2>1, <2>3, <1>14 DEF o
  <2>9. QED
    BY <2>1, <2>5, <2>6, <2>7, <2>8 DEF BucketOf
<1>19. ASSUME NEW e \in Dirs, NEW k \in 1..Len(bucket[e]), NEW x \in Desc, x = bucket[e][k]
       PROVE  BucketOf(x, e)'
  <2>1. BucketOf(x, e)
    BY <1>1, <1>19 DEF Buckets
  <2>2. x # b /\ page[x] # p /\ page[x] \in mem_map
    BY <1>15, <1>19
  <2>3. page'[x] = page[x] /\ freeptr'[x] = freeptr[x] /\ refcnt'[x] = refcnt[x] /\ page[x] \in mem_map'
    BY <2>2, <1>6, <1>8, <1>14
  <2>4. \A q : q.page = page[x] => (q \in live' <=> q \in live)
    BY <2>2, <1>8, <1>11
  <2>5. QED
    BY <2>1, <2>3, <2>4, BucketSame
\* Each place of a chain after the step: the new bucket, or a place before it.
<1>20. /\ \A e \in Dirs : bucket[e] \in Seq(Desc) /\ Len(bucket[e]) \in Nat
       /\ \A e \in Dirs : e # d => bucket'[e] = bucket[e]
       /\ Len(bucket'[d]) = Len(bucket[d]) + 1 /\ bucket'[d][1] = b
       /\ \A k \in 1..Len(bucket[d]) :
            k + 1 \in 1..Len(bucket[d])+1 /\ bucket'[d][k+1] = bucket[d][k]
       /\ \A k \in 1..Len(bucket[d])+1 : k = 1 \/
            (k - 1 \in 1..Len(bucket[d]) /\ bucket'[d][k] = bucket[d][k-1])
  <2>1. \A e \in Dirs : bucket[e] \in Seq(Desc) /\ Len(bucket[e]) \in Nat
    BY <1>1, Places
  <2>2. bucket' = [bucket EXCEPT ![d] = <<b>> \o bucket[d]]
    BY <1>9 DEF PutIn
  <2>3. bucket'[d] = <<b>> \o bucket[d] /\ \A e \in Dirs : e # d => bucket'[e] = bucket[e]
    BY <2>2, <1>1 DEF TypeOK
  <2>4. PICK s \in Seq(Desc) : s = bucket[d]
    BY <2>1
  <2>5. /\ Len(<<b>> \o s) = Len(s) + 1 /\ (<<b>> \o s)[1] = b
        /\ \A k \in 1..Len(s) : k + 1 \in 1..Len(s)+1 /\ (<<b>> \o s)[k+1] = s[k]
        /\ \A k \in 1..Len(s)+1 : k = 1 \/ (k - 1 \in 1..Len(s) /\ (<<b>> \o s)[k] = s[k-1])
    BY ConsFacts
  <2>6. PICK r : r = <<b>> \o s
    OBVIOUS
  <2>7. bucket'[d] = r /\ bucket[d] = s
    BY <2>3, <2>4, <2>6
  <2>8. /\ Len(r) = Len(s) + 1 /\ r[1] = b
        /\ \A k \in 1..Len(s) : k + 1 \in 1..Len(s)+1 /\ r[k+1] = s[k]
        /\ \A k \in 1..Len(s)+1 : k = 1 \/ (k - 1 \in 1..Len(s) /\ r[k] = s[k-1])
    BY <2>5, <2>6, Zenon
  <2>9. QED
    BY <2>1, <2>3, <2>7, <2>8
<1>21. ASSUME NEW e \in Dirs, NEW k \in 1..Len(bucket'[e])
       PROVE  \/ e = d /\ k = 1 /\ bucket'[e][k] = b
              \/ \E j \in 1..Len(bucket[e]) :
                   j = (IF e = d THEN k - 1 ELSE k) /\ bucket'[e][k] = bucket[e][j]
  <2>1. CASE e = d
    BY <2>1, <1>20
  <2>2. CASE e # d
    BY <2>2, <1>20
  <2>3. QED
    BY <2>1, <2>2
<1>22. ASSUME NEW e \in Dirs
       PROVE  \E n \in Nat : \A k \in 1..Len(bucket[e]) :
                k + n \in 1..Len(bucket'[e]) /\ bucket'[e][k+n] = bucket[e][k]
  <2>1. CASE e = d
    <3>1. 1 \in Nat /\ \A k \in 1..Len(bucket[e]) :
            k + 1 \in 1..Len(bucket'[e]) /\ bucket'[e][k+1] = bucket[e][k]
      BY <2>1, <1>20
    <3>2. QED
      BY <3>1
  <2>2. CASE e # d
    <3>1. \A k \in 1..Len(bucket[e]) : k + 0 = k
      BY <1>20
    <3>2. 0 \in Nat /\ \A k \in 1..Len(bucket[e]) :
            k + 0 \in 1..Len(bucket'[e]) /\ bucket'[e][k+0] = bucket[e][k]
      BY <2>2, <3>1, <1>20
    <3>3. QED
      BY <3>2
  <2>3. QED
    BY <2>1, <2>2
<1>23. ASSUME NEW e \in Dirs, NEW j \in 1..Len(bucket[e])
       PROVE  \E k \in 1..Len(bucket'[e]) : bucket'[e][k] = bucket[e][j]
  <2>1. PICK n \in Nat : \A k \in 1..Len(bucket[e]) :
          k + n \in 1..Len(bucket'[e]) /\ bucket'[e][k+n] = bucket[e][k]
    BY <1>22
  <2>2. QED
    BY <2>1
<1>24. Buckets'
  <2>1. ASSUME NEW e \in Dirs, NEW k \in 1..Len(bucket'[e])
        PROVE  \E x \in Desc : x = bucket'[e][k] /\ BucketOf(x, e)'
    <3>1. CASE bucket'[e][k] = b
      <4>1. e = d
        BY <3>1, <1>15, <1>21
      <4>2. QED
        BY <3>1, <4>1, <1>18
    <3>2. CASE bucket'[e][k] # b
      <4>1. PICK j \in 1..Len(bucket[e]) : bucket'[e][k] = bucket[e][j]
        BY <3>2, <1>21
      <4>2. PICK x \in Desc : x = bucket[e][j]
        BY <1>15
      <4>3. QED
        BY <4>1, <4>2, <1>19
    <3>3. QED
      BY <3>1, <3>2
  <2>2. ASSUME NEW e \in Dirs, NEW f \in Dirs, NEW k \in 1..Len(bucket'[e]), NEW j \in 1..Len(bucket'[f]),
               page'[bucket'[e][k]] = page'[bucket'[f][j]]
        PROVE  e = f /\ k = j
    <3>0. \A g, h \in Dirs : \A i \in 1..Len(bucket[g]), n \in 1..Len(bucket[h]) :
            page[bucket[g][i]] = page[bucket[h][n]] => g = h /\ i = n
      BY <1>1 DEF Buckets
    <3>1. \A g \in Dirs : \A i \in 1..Len(bucket[g]) :
            page'[bucket[g][i]] = page[bucket[g][i]] /\ page[bucket[g][i]] # p
      BY <1>14, <1>15
    <3>5. ASSUME NEW g \in Dirs, NEW h \in 1..Len(bucket'[g])
          PROVE  page'[bucket'[g][h]] = p <=> bucket'[g][h] = b
      <4>1. CASE bucket'[g][h] = b
        BY <4>1, <1>14
      <4>2. CASE \E i \in 1..Len(bucket[g]) : bucket'[g][h] = bucket[g][i]
        <5>1. PICK i \in 1..Len(bucket[g]) : bucket'[g][h] = bucket[g][i]
          BY <4>2
        <5>2. page'[bucket[g][i]] # p /\ bucket[g][i] # b
          BY <3>1, <1>15
        <5>3. QED
          BY <5>1, <5>2
      <4>3. QED
        BY <4>1, <4>2, <1>21
    <3>2. CASE bucket'[e][k] = b
      <4>1. e = d /\ k = 1
        BY <3>2, <1>15, <1>21
      <4>2. bucket'[f][j] = b
        BY <3>2, <3>5, <2>2
      <4>3. f = d /\ j = 1
        BY <4>2, <1>15, <1>21
      <4>4. QED
        BY <4>1, <4>3
    <3>3. CASE bucket'[e][k] # b
      <4>1. PICK i \in 1..Len(bucket[e]) :
              i = (IF e = d THEN k - 1 ELSE k) /\ bucket'[e][k] = bucket[e][i]
        BY <3>3, <1>21
      <4>2. bucket'[f][j] # b
        BY <3>3, <3>5, <2>2
      <4>3. PICK n \in 1..Len(bucket[f]) :
              n = (IF f = d THEN j - 1 ELSE j) /\ bucket'[f][j] = bucket[f][n]
        BY <4>2, <1>21
      <4>4. page[bucket[e][i]] = page[bucket[f][n]]
        BY <4>1, <4>3, <3>1, <2>2
      <4>5. e = f /\ i = n
        BY <4>4, <3>0
      <4>6. k \in Nat /\ j \in Nat
        <5>1. Len(bucket'[e]) \in Nat /\ Len(bucket'[f]) \in Nat
          <6>1. bucket'[e] \in Seq(Desc) /\ bucket'[f] \in Seq(Desc)
            BY <1>10
          <6>2. QED
            BY <6>1
        <5>2. QED
          BY <5>1
      <4>7. QED
        BY <4>1, <4>3, <4>5, <4>6
    <3>4. QED
      BY <3>2, <3>3
  <2>3. ASSUME NEW q \in live'
        PROVE  \E e \in Dirs : \E k \in 1..Len(bucket'[e]) : page'[bucket'[e][k]] = q.page
    <3>1. CASE q = o
      <4>1. 1 \in 1..Len(bucket'[d]) /\ page'[bucket'[d][1]] = p
        BY <1>14, <1>20
      <4>2. QED
        BY <3>1, <4>1, <1>11
    <3>2. CASE q \in live
      <4>1. PICK e \in Dirs : \E j \in 1..Len(bucket[e]) : page[bucket[e][j]] = q.page
        BY <3>2, <1>1 DEF Buckets
      <4>2. PICK j \in 1..Len(bucket[e]) : page[bucket[e][j]] = q.page
        BY <4>1
      <4>3. PICK k \in 1..Len(bucket'[e]) : bucket'[e][k] = bucket[e][j]
        BY <1>23
      <4>4. page'[bucket[e][j]] = page[bucket[e][j]]
        BY <1>14, <1>15
      <4>5. QED
        BY <4>2, <4>3, <4>4
    <3>3. QED
      BY <3>1, <3>2, <1>8
  <2>4. ASSUME NEW x \in Desc, refcnt'[x] > 0 PROVE OnChain(x)'
    <3>1. CASE x = b
      <4>1. 1 \in 1..Len(bucket'[d]) /\ bucket'[d][1] = b
        BY <1>20
      <4>2. QED
        BY <3>1, <4>1 DEF OnChain
    <3>2. CASE x # b
      <4>1. OnChain(x)
        BY <3>2, <2>4, <1>1, <1>14 DEF Buckets
      <4>2. PICK e \in Dirs : \E j \in 1..Len(bucket[e]) : bucket[e][j] = x
        BY <4>1 DEF OnChain
      <4>3. PICK j \in 1..Len(bucket[e]) : bucket[e][j] = x
        BY <4>2
      <4>4. PICK k \in 1..Len(bucket'[e]) : bucket'[e][k] = bucket[e][j]
        BY <1>23
      <4>5. QED
        BY <4>3, <4>4 DEF OnChain
    <3>3. QED
      BY <3>1, <3>2
  <2>5. \A e \in Dirs : \A k \in 1..Len(bucket'[e]) : BucketOf(bucket[e][k], e)'
    BY <2>1
  <2>6. QED
    BY <2>2, <2>3, <2>4, <2>5 DEF Buckets
<1>25. /\ pc' = pc /\ obj' = obj /\ bdir' = bdir /\ bdesc' = bdesc /\ prev' = prev
       /\ stopped' = stopped /\ raced' = raced
  BY <1>8 DEF kfreeVars
<1>26. TypeOK'
  <2>1. RefBounded'
    BY <1>13, <1>14, <1>24, RefBoundNext DEF Shape
  <2>2. \A x \in Desc : \E e \in Dirs : refcnt'[x] <= Blocks[e]
    BY <2>1 DEF RefBounded
  <2>3. \A x \in Desc : freeptr'[x] \subseteq Nat \ {0}
    BY <1>13 DEF Shape
  <2>4. \A q \in live' : q.page \in Pages /\ q.slot \in Nat \ {0} /\ q.dir \in Dirs
    BY <1>13 DEF Shape, Block
  <2>5. \A c \in Ctx : obj'[c] \in live' \union {NoBlock}
    BY <1>1, <1>8, <1>25 DEF TypeOK
  <2>6. mem_map' \subseteq Pages
    BY <1>7, <1>8
  <2>7. QED
    BY <2>2, <2>3, <2>4, <2>5, <2>6, <1>1, <1>10, <1>14, <1>25 DEF TypeOK
<1>27. Searches'
  <2>1. live \subseteq live' /\ born' \in Nat /\ born <= born'
    BY <1>8, <1>10
  <2>2. ASSUME NEW e \in Dirs
        PROVE  \E n \in Nat : \A k \in 1..Len(bucket[e]) :
                 /\ k + n \in 1..Len(bucket'[e]) /\ bucket'[e][k+n] = bucket[e][k]
                 /\ page'[bucket[e][k]] = page[bucket[e][k]]
    <3>1. \A k \in 1..Len(bucket[e]) : page'[bucket[e][k]] = page[bucket[e][k]]
      BY <1>14, <1>15
    <3>2. QED
      BY <3>1, <1>22
  <2>3. UNCHANGED <<kfreeVars, raced>>
    BY <1>8
  <2>4. QED
    BY <2>1, <2>2, <2>3, SearchesGrow
<1>28. QED
  BY <1>10, <1>13, <1>17, <1>24, <1>26, <1>27 DEF IInv

-----------------------------------------------------------------------------
(* The invariant.                                                          *)

LEMMA InitInv == Init => IInv
<1> SUFFICES ASSUME Init PROVE IInv
  OBVIOUS
<1>1. /\ mem_map = {} /\ chain = [d \in Dirs |-> NULL] /\ free_bucket_desc = NULL
      /\ next = [b \in Desc |-> NULL] /\ page = [b \in Desc |-> NULL]
      /\ freeptr = [b \in Desc |-> {}] /\ refcnt = [b \in Desc |-> 0]
      /\ bucket = [d \in Dirs |-> <<>>] /\ spare = <<>> /\ born = 0 /\ live = {}
      /\ stopped = "no" /\ raced = [c \in Ctx |-> FALSE]
  BY DEF Init
<1>2. /\ pc = [c \in Ctx |-> "idle"] /\ obj = [c \in Ctx |-> NoBlock]
      /\ bdir = [c \in Ctx |-> 0] /\ bdesc = [c \in Ctx |-> NULL] /\ prev = [c \in Ctx |-> NULL]
  BY DEF Init
<1>3. TypeOK
  <2>1. \A b \in Desc : \E d \in Dirs : refcnt[b] <= Blocks[d]
    BY <1>1, Constants
  <2>2. /\ chain \in [Dirs -> Desc \union {NULL}] /\ free_bucket_desc \in Desc \union {NULL}
        /\ next \in [Desc -> Desc \union {NULL}] /\ page \in [Desc -> Pages \union {NULL}]
        /\ refcnt \in [Desc -> Nat] /\ born \in Nat /\ raced \in [Ctx -> BOOLEAN]
    BY <1>1
  <2>3. bucket \in [Dirs -> Seq(Desc)] /\ spare \in Seq(Desc)
    BY <1>1
  <2>4. /\ pc \in [Ctx -> {"idle", "search", "found", "panic"}]
        /\ \A c \in Ctx : obj[c] \in live \union {NoBlock}
        /\ bdir \in [Ctx -> Dirs \union {0}]
        /\ bdesc \in [Ctx -> Desc \union {NULL}] /\ prev \in [Ctx -> Desc \union {NULL}]
    BY <1>2
  <2>5. /\ mem_map \subseteq Pages
        /\ \A b \in Desc : freeptr[b] \subseteq Nat \ {0}
        /\ \A o \in live : o.page \in Pages /\ o.slot \in Nat \ {0} /\ o.dir \in Dirs
        /\ stopped \in {"no", "memory", "chains", "damaged"}
    BY <1>1
  <2>6. QED
    BY <2>1, <2>2, <2>3, <2>4, <2>5 DEF TypeOK
<1>4. Shape
  <2>1. IsFiniteSet(live)
    BY <1>1, FS_EmptySet
  <2>2. QED
    BY <2>1, <1>1, <1>2 DEF Shape
<1>5. \A d \in Dirs : bucket[d] = <<>> /\ Len(bucket[d]) = 0 /\ 1..Len(bucket[d]) = {}
  BY <1>1
<1>6. Len(spare) = 0 /\ 1..Len(spare) = {}
  BY <1>1
<1>7. Lists
  <2>1. Apart
    BY <1>5, <1>6 DEF Apart
  <2>2. AllPlaced
    BY <1>1, <1>5, <1>6, Constants DEF AllPlaced, OnChain, OnSpare
  <2>3. LinkFacts
    BY <1>1, <1>3, <1>5, <1>6 DEF LinkFacts, TypeOK
  <2>4. Linked
    BY <2>3, LinkedFrom
  <2>5. Unborn /\ born <= NPages * PerPage
    BY <1>1, Constants DEF Unborn
  <2>6. QED
    BY <2>1, <2>2, <2>4, <2>5 DEF Lists
<1>8. PagesAccounted
  <2>1. Owned = {}
    <3>1. \A d \in Dirs : DOMAIN bucket[d] = {}
      BY <1>1
    <3>2. QED
      BY <3>1 DEF Owned
  <2>2. Cardinality({}) = 0
    BY FS_EmptySet
  <2>3. QED
    BY <2>1, <2>2, <1>1, Constants DEF PagesAccounted
<1>9. Buckets
  BY <1>1, <1>5 DEF Buckets
<1>10. Searches
  BY <1>1, <1>2, Constants DEF Searches, Search, Track
<1>11. QED
  BY <1>3, <1>4, <1>7, <1>8, <1>9, <1>10 DEF IInv

LEMMA NextInv == IInv /\ [Next]_vars => IInv'
<1> SUFFICES ASSUME IInv, [Next]_vars PROVE IInv'
  OBVIOUS
<1>1. ASSUME NEW d \in Dirs, Malloc(d) PROVE IInv'
  BY <1>1, MallocOldInv, MallocNewInv, StoppingInv DEF Malloc
<1>2. ASSUME NEW c \in Ctx, NEW o \in live \ Claimed, Kfree(c, o) PROVE IInv'
  BY <1>2, KfreeInv
<1>3. ASSUME NEW c \in Ctx, Found(c) PROVE IInv'
  BY <1>3, FoundInv
<1>4. ASSUME NEW c \in Ctx, Step(c) PROVE IInv'
  BY <1>4, StepInv
<1>5. ASSUME NEW c \in Ctx, NextDir(c) PROVE IInv'
  BY <1>5, NextDirInv
<1>6. ASSUME NEW c \in Ctx, NotFound(c) PROVE IInv'
  BY <1>6, NotFoundInv
<1>7. ASSUME NEW c \in Ctx, Release(c) PROVE IInv'
  BY <1>7, ReleaseInv
<1>8. ASSUME NEW c \in Ctx, Unlink(c) PROVE IInv'
  BY <1>8, UnlinkInv
<1>9. ASSUME NEW c \in Ctx, Corrupted(c) \/ Damage(c) PROVE IInv'
  BY <1>9, StoppingInv
<1>10. CASE UNCHANGED vars
  <2>1. UNCHANGED heapVars /\ UNCHANGED <<kfreeVars, raced>> /\ stopped' = stopped
    BY <1>10 DEF vars, heapVars
  <2>2. stopped' \in {"no", "memory", "chains", "damaged"}
    BY <2>1 DEF IInv, TypeOK
  <2>3. QED
    BY <2>1, <2>2, StopStep
<1>11. QED
  BY <1>1, <1>2, <1>3, <1>4, <1>5, <1>6, <1>7, <1>8, <1>9, <1>10 DEF Next

LEMMA Invariance == Spec => []IInv
BY InitInv, NextInv, PTL DEF Spec

-----------------------------------------------------------------------------
(* The theorems.                                                           *)

LEMMA HeapSoundFrom == IInv => HeapSound
<1> SUFFICES ASSUME IInv PROVE HeapSound
  OBVIOUS
<1>1. TypeOK /\ Lists /\ Apart /\ AllPlaced /\ Linked
  BY DEF IInv, Lists
<1>2. /\ \A d \in Dirs : DOMAIN bucket[d] = 1..Len(bucket[d])
      /\ DOMAIN spare = 1..Len(spare)
  BY <1>1, Places
<1>3. /\ \A d \in Dirs : IsInjective(bucket[d])
      /\ IsInjective(spare)
  BY <1>1, <1>2 DEF Apart, IsInjective
<1>4. /\ \A d \in Dirs : Range(bucket[d]) = {bucket[d][i] : i \in 1..Len(bucket[d])}
      /\ Range(spare) = {spare[j] : j \in 1..Len(spare)}
  BY <1>2 DEF Range
<1>5. /\ \A d \in Dirs : Range(bucket[d]) \intersect Range(spare) = {}
      /\ \A d, e \in Dirs : d # e => Range(bucket[d]) \intersect Range(bucket[e]) = {}
  <2>1. ASSUME NEW d \in Dirs, NEW x \in Range(bucket[d]), x \in Range(spare) PROVE FALSE
    <3>1. PICK i \in 1..Len(bucket[d]) : bucket[d][i] = x
      BY <1>4
    <3>2. PICK j \in 1..Len(spare) : spare[j] = x
      BY <2>1, <1>4
    <3>3. QED
      BY <3>1, <3>2, <1>1 DEF Apart
  <2>2. ASSUME NEW d \in Dirs, NEW e \in Dirs, d # e,
               NEW x \in Range(bucket[d]), x \in Range(bucket[e])
        PROVE  FALSE
    <3>1. PICK i \in 1..Len(bucket[d]) : bucket[d][i] = x
      BY <1>4
    <3>2. PICK j \in 1..Len(bucket[e]) : bucket[e][j] = x
      BY <2>2, <1>4
    <3>3. QED
      BY <3>1, <3>2, <2>2, <1>1 DEF Apart
  <2>3. QED
    BY <2>1, <2>2
<1>6. Owned \union Range(spare) = 1..born
  <2>1. \A x \in Desc : x \in Owned <=> OnChain(x)
    BY <1>2 DEF Owned, OnChain
  <2>2. \A x \in Desc : x \in Range(spare) <=> OnSpare(x)
    BY <1>4 DEF OnSpare
  <2>3. Owned \subseteq Desc /\ Range(spare) \subseteq Desc
    BY <1>1, <1>4, Places DEF Owned
  <2>4. born \in Nat /\ born <= NPages * PerPage /\ NPages * PerPage \in Nat
    BY <1>1, Constants DEF TypeOK, Lists
  <2>5. \A x : x \in 1..born <=> x \in Desc /\ x <= born
    BY <2>4, Constants
  <2>6. QED
    BY <2>1, <2>2, <2>3, <2>5, <1>1 DEF AllPlaced
<1>7. QED
  BY <1>1, <1>3, <1>5, <1>6 DEF HeapSound, Linked

LEMMA BlocksFrom == IInv => BlocksAccounted
<1> SUFFICES ASSUME IInv PROVE BlocksAccounted
  OBVIOUS
<1>1. TypeOK /\ Shape /\ Lists /\ Buckets /\ PagesAccounted
  BY DEF IInv
<1>2. \A d \in Dirs : Range(bucket[d]) = {bucket[d][i] : i \in 1..Len(bucket[d])}
  BY <1>1, Places DEF Range
<1>3. ASSUME NEW d \in Dirs, NEW b \in Range(bucket[d])
      PROVE  /\ Out(b) = [page : {page[b]}, slot : (1..Blocks[d]) \ freeptr[b], dir : {d}]
             /\ refcnt[b] = Cardinality(Out(b)) /\ refcnt[b] > 0 /\ page[b] \in mem_map
  <2>1. BucketOf(b, d)
    BY <1>1, <1>2 DEF Buckets
  <2>2. ASSUME NEW o \in Out(b)
        PROVE  o \in [page : {page[b]}, slot : (1..Blocks[d]) \ freeptr[b], dir : {d}]
    <3>1. o \in Block /\ o.page = page[b] /\ o.dir = d /\ o.slot \in (1..Blocks[d]) \ freeptr[b]
      BY <2>1, <1>1 DEF BucketOf, Out, Shape
    <3>2. QED
      BY <3>1 DEF Block
  <2>3. ASSUME NEW o \in [page : {page[b]}, slot : (1..Blocks[d]) \ freeptr[b], dir : {d}]
        PROVE  o \in Out(b)
    <3>1. o = [page |-> page[b], slot |-> o.slot, dir |-> d] /\ o.slot \in (1..Blocks[d]) \ freeptr[b]
      OBVIOUS
    <3>2. o \in live /\ o.page = page[b]
      BY <3>1, <2>1 DEF BucketOf
    <3>3. QED
      BY <3>2 DEF Out
  <2>4. QED
    BY <2>1, <2>2, <2>3 DEF BucketOf
<1>4. ASSUME NEW b \in Owned, NEW c \in Owned, page[b] = page[c] PROVE b = c
  <2>1. PICK d \in Dirs : \E i \in DOMAIN bucket[d] : bucket[d][i] = b
    BY DEF Owned
  <2>2. PICK e \in Dirs : \E j \in DOMAIN bucket[e] : bucket[e][j] = c
    BY DEF Owned
  <2>3. PICK i \in 1..Len(bucket[d]) : bucket[d][i] = b
    BY <2>1, <1>1, Places
  <2>4. PICK j \in 1..Len(bucket[e]) : bucket[e][j] = c
    BY <2>2, <1>1, Places
  <2>5. page[bucket[d][i]] = page[bucket[e][j]]
    BY <2>3, <2>4, <1>4
  <2>6. d = e /\ i = j
    BY <2>5, <1>1 DEF Buckets
  <2>7. QED
    BY <2>3, <2>4, <2>6
<1>5. ASSUME NEW o \in live PROVE \E b \in Owned : page[b] = o.page
  <2>1. PICK d \in Dirs : \E i \in 1..Len(bucket[d]) : page[bucket[d][i]] = o.page
    BY <1>1 DEF Buckets
  <2>2. PICK i \in 1..Len(bucket[d]) : page[bucket[d][i]] = o.page
    BY <2>1
  <2>3. bucket[d][i] \in Desc /\ DOMAIN bucket[d] = 1..Len(bucket[d])
    BY <1>1, Places
  <2>4. bucket[d][i] \in Owned
    BY <2>3 DEF Owned
  <2>5. QED
    BY <2>2, <2>4
<1>6. QED
  BY <1>1, <1>3, <1>4, <1>5 DEF BlocksAccounted, Out

LEMMA StrayFrom == IInv => StrayNeedsRace
<1> SUFFICES ASSUME IInv, NEW c \in Ctx, Astray(c), ~raced[c] PROVE FALSE
  BY DEF StrayNeedsRace, IInv, TypeOK
<1>1. Track(c) /\ TypeOK /\ Lists
  BY DEF IInv, Searches
<1>2. pc[c] = "found" /\ ~Own(c)
  BY <1>1 DEF Astray, Track
<1>3. /\ bdir[c] = obj[c].dir /\ bdir[c] \in Dirs
      /\ \E i \in 1..Len(bucket[bdir[c]]) : bucket[bdir[c]][i] = bdesc[c]
      /\ page[bdesc[c]] = obj[c].page
  BY <1>1, <1>2, Searcher DEF Track
<1>4. Own(c)
  BY <1>1, <1>3, Places DEF Own
<1>5. QED
  BY <1>2, <1>4

\* Whatever interrupts a kfree, the chains and the list of unused descriptors
\* stay null-terminated lists that share nothing and hold every descriptor
\* created: kmalloc (kmalloc.c:125-178) and the release of kfree (kmalloc.c:205-240)
\* change them with interrupts off, and kfree unlinks a bucket through what
\* precedes it then, not through the prev its search remembers.
THEOREM SpecHeapSound == Spec => []HeapSound
BY Invariance, HeapSoundFrom, PTL

\* No block is handed out twice, no page is given back under a block in use or
\* lost with a bucket that empties, and the pages in use are those of the
\* buckets and of the descriptors.
THEOREM SpecBlocksAccounted == Spec => []BlocksAccounted
BY Invariance, BlocksFrom, PTL

\* kfree fails to find the bucket of a block it was given (kmalloc.c:190-204) only
\* if another context has released a bucket since its search began.
THEOREM SpecStrayNeedsRace == Spec => []StrayNeedsRace
BY Invariance, StrayFrom, PTL
=============================================================================
