------------------------------- MODULE KMalloc -------------------------------
(***************************************************************************)
(* The bucket allocator (mm/kmalloc.c) on the page allocator (mm/page.c).  *)
(*                                                                         *)
(* A bucket is a page cut into blocks of one size and a descriptor that    *)
(* counts and chains its free blocks; bucket_dir holds one chain of        *)
(* descriptors per size.  kmalloc works with interrupts off.  kfree looks  *)
(* for the descriptor of its block with interrupts ON and turns them off   *)
(* only to release the block, so a handler that itself calls kmalloc and   *)
(* kfree can change the chains under the search of the code it interrupts. *)
(*                                                                         *)
(* The boot thread calls kfree (arp_send, udp_send) and so does the timer  *)
(* handler on top of it (skb_free, arp_send); kmalloc may be called at any *)
(* point of either by one more handler, the card's.                        *)
(*                                                                         *)
(* panic() prints and loops; printing turns interrupts on again, so that   *)
(* handlers still run on top of it.  The model goes on after the panic of  *)
(* a search, which has changed nothing, and ends at a panic in the middle  *)
(* of a change of the heap, and where kfree damages the heap.              *)
(*                                                                         *)
(* bucket_size is written and never read; the order of the free blocks of  *)
(* a page does not matter to a caller: both are left out.                  *)
(***************************************************************************)
EXTENDS Naturals, Sequences, SequencesExt, FiniteSets

CONSTANTS
  NPages,   \* mem_map_count
  PerPage,  \* descriptors that fit in a page
  MaxLive,  \* bound: blocks in use at a time
  Blocks    \* Blocks[d]: blocks of the size of bucket_dir[d] that fit in a page

Dirs  == 1..Len(Blocks)
Pages == 1..NPages
Desc  == 1..NPages * PerPage   \* the k-th descriptor to be created, k = 1, 2 ...
NULL  == 0

ASSUME KMallocAssumption ==
  /\ NPages \in Nat
  /\ PerPage \in Nat \ {0}
  /\ MaxLive \in Nat
  /\ Blocks \in Seq(Nat \ {0}) /\ Blocks # <<>>

\* Who searches a chain: the boot thread, and the timer handler on top of it.
Ctx == {"thread", "timer"}

\* A block: its page, its place there, and the bucket_dir entry its size selects.
Block == [page : Pages, slot : Nat \ {0}, dir : Dirs]

VARIABLES
  mem_map,           \* the pages in use
  chain,             \* bucket_dir[d].chain
  free_bucket_desc,  \* head of the list of unused descriptors
  next, page, freeptr, refcnt,  \* the fields of a descriptor
  bucket, spare,     \* the descriptors on each chain and on the list of unused
                     \* ones, as sequences (HeapSound: the pointers agree)
  born,              \* descriptors created so far
  live,              \* the blocks handed out and not yet taken back
  pc, obj, bdir, bdesc, prev,   \* kfree of each context
  stopped,           \* why the model goes no further
  raced              \* history: has a bucket been released by another context
                     \* since this context's search began?

descVars == <<next, page, freeptr, refcnt>>
listVars == <<chain, free_bucket_desc, bucket, spare, born>>
kfreeVars == <<pc, obj, bdir, bdesc, prev>>
vars == <<mem_map, descVars, listVars, live, kfreeVars, stopped, raced>>

NoBlock == [page |-> NULL, slot |-> 0, dir |-> 0]

Init ==
  /\ mem_map = {}
  /\ chain = [d \in Dirs |-> NULL]
  /\ free_bucket_desc = NULL
  /\ next = [b \in Desc |-> NULL]
  /\ page = [b \in Desc |-> NULL]
  /\ freeptr = [b \in Desc |-> {}]
  /\ refcnt = [b \in Desc |-> 0]
  /\ bucket = [d \in Dirs |-> <<>>]
  /\ spare = <<>>
  /\ born = 0
  /\ live = {}
  /\ pc = [c \in Ctx |-> "idle"]
  /\ obj = [c \in Ctx |-> NoBlock]
  /\ bdir = [c \in Ctx |-> 0]
  /\ bdesc = [c \in Ctx |-> NULL]
  /\ prev = [c \in Ctx |-> NULL]
  /\ stopped = "no"
  /\ raced = [c \in Ctx |-> FALSE]

\* The timer handler runs to its end before the thread goes on; a context in
\* panic() never ends.
Runs(c) == /\ stopped = "no"
           /\ c = "thread" => pc["timer"] = "idle"

Searching(c) == pc[c] \in {"search", "found"}

-----------------------------------------------------------------------------
(* kmalloc.                                                                *)

\* get_free_page: the first page not in use.
Unused == Pages \ mem_map
FirstUnused(except) ==
  CHOOSE p \in Unused \ except : \A q \in Unused \ except : p <= q

\* The buckets of a chain with room, by their place in the chain.
WithRoom(d) == {i \in DOMAIN bucket[d] : freeptr[bucket[d][i]] # {}}

\* A block of bucket b leaves its free list.
HandOut(d, b, slot, rest, p, count) ==
  /\ freeptr' = [freeptr EXCEPT ![b] = rest]
  /\ refcnt' = [refcnt EXCEPT ![b] = count]
  /\ live' = live \union {[page |-> p, slot |-> slot, dir |-> d]}
  /\ UNCHANGED <<kfreeVars, stopped, raced>>

\* The first bucket of the chain that has room; its count grows by delta.
MallocOld(d, delta) ==
  /\ stopped = "no" /\ Cardinality(live) < MaxLive
  /\ WithRoom(d) # {}
  /\ LET i == CHOOSE i \in WithRoom(d) : \A j \in WithRoom(d) : i <= j
         b == bucket[d][i]
     IN \E slot \in freeptr[b] :
          HandOut(d, b, slot, freeptr[b] \ {slot}, page[b], refcnt[b] + delta)
  /\ UNCHANGED <<mem_map, next, page, listVars>>

\* init_bucket_desc: when no unused descriptor is left, a page of new ones,
\* each linked to the one after it.
DescPages == IF spare = <<>> THEN {FirstUnused({})} ELSE {}
Batch     == IF spare = <<>> THEN [k \in 1..PerPage |-> born + k] ELSE spare
Needed    == IF spare = <<>> THEN 2 ELSE 1

\* A new bucket, put at the head of the chain; its first block is handed out.
MallocNew(d) ==
  /\ stopped = "no" /\ Cardinality(live) < MaxLive
  /\ WithRoom(d) = {}
  /\ Cardinality(Unused) >= Needed
  /\ LET b == Batch[1]
         p == FirstUnused(DescPages)
     IN /\ mem_map' = mem_map \union DescPages \union {p}
        /\ born' = IF spare = <<>> THEN born + PerPage ELSE born
        /\ spare' = Tail(Batch)
        /\ free_bucket_desc' = IF Len(Batch) > 1 THEN Batch[2] ELSE NULL
        /\ next' = [x \in Desc |->
             IF x = b THEN chain[d]
             ELSE IF spare = <<>> /\ x \in born+1..born+PerPage-1 THEN x + 1
             ELSE next[x]]
        /\ page' = [page EXCEPT ![b] = p]
        /\ chain' = [chain EXCEPT ![d] = b]
        /\ bucket' = [bucket EXCEPT ![d] = <<b>> \o @]
        /\ HandOut(d, b, 1, 2..Blocks[d], p, 1)

\* get_free_page panics.
MallocPanics(d) ==
  /\ stopped = "no"
  /\ WithRoom(d) = {}
  /\ Cardinality(Unused) < Needed
  /\ stopped' = "memory"
  /\ UNCHANGED <<mem_map, descVars, listVars, live, kfreeVars, raced>>

\* kmalloc without its refcnt++.
MallocNoCount(d) == MallocOld(d, 0) \/ MallocNew(d) \/ MallocPanics(d)

Malloc(d) == MallocOld(d, 1) \/ MallocNew(d) \/ MallocPanics(d)

-----------------------------------------------------------------------------
(* kfree: the search, interrupts on.                                       *)

\* A caller gives back a block it holds, with the size it asked for; the
\* search starts at the chain of bucket_dir entry d.
StartAt(c, o, d) ==
  /\ Runs(c) /\ pc[c] = "idle"
  /\ pc' = [pc EXCEPT ![c] = "search"]
  /\ obj' = [obj EXCEPT ![c] = o]
  /\ bdir' = [bdir EXCEPT ![c] = d]
  /\ bdesc' = [bdesc EXCEPT ![c] = chain[d]]
  /\ prev' = [prev EXCEPT ![c] = NULL]
  /\ UNCHANGED <<mem_map, descVars, listVars, live, stopped, raced>>

\* "bdir->size <= size": the entry of the exact size is passed over.
KfreeSkipsExact(c, o) ==
  o.dir < Len(Blocks) /\ StartAt(c, o, o.dir + 1)

Kfree(c, o) == StartAt(c, o, o.dir)

\* One pass of the inner loop.  The load of bdesc->next goes with the test before
\* it: what happens between the two changes bdesc->page, if at all, to a page that
\* was not in use, so the test would fail again at the time of the load.
\* if (bdesc->page == page) goto found
Found(c) ==
  /\ Runs(c) /\ pc[c] = "search"
  /\ bdesc[c] # NULL
  /\ page[bdesc[c]] = obj[c].page
  /\ pc' = [pc EXCEPT ![c] = "found"]
  /\ UNCHANGED <<mem_map, descVars, listVars, live, obj, bdir, bdesc, prev,
                 stopped, raced>>

\* prev = bdesc; bdesc = bdesc->next
Step(c) ==
  /\ Runs(c) /\ pc[c] = "search"
  /\ bdesc[c] # NULL
  /\ page[bdesc[c]] # obj[c].page
  /\ prev' = [prev EXCEPT ![c] = bdesc[c]]
  /\ bdesc' = [bdesc EXCEPT ![c] = next[bdesc[c]]]
  /\ UNCHANGED <<mem_map, descVars, listVars, live, pc, obj, bdir, stopped, raced>>

\* The chain ends: the next entry of bucket_dir.
NextDir(c) ==
  /\ Runs(c) /\ pc[c] = "search"
  /\ bdesc[c] = NULL /\ bdir[c] < Len(Blocks)
  /\ bdir' = [bdir EXCEPT ![c] = @ + 1]
  /\ bdesc' = [bdesc EXCEPT ![c] = chain[bdir[c] + 1]]
  /\ prev' = [prev EXCEPT ![c] = NULL]
  /\ UNCHANGED <<mem_map, descVars, listVars, live, pc, obj, stopped, raced>>

\* The last chain ends: panic("Bad address passed to kernel kfree()").
NotFound(c) ==
  /\ Runs(c) /\ pc[c] = "search"
  /\ bdesc[c] = NULL /\ bdir[c] = Len(Blocks)
  /\ pc' = [pc EXCEPT ![c] = "panic"]
  /\ UNCHANGED <<mem_map, descVars, listVars, live, obj, bdir, bdesc, prev,
                 stopped, raced>>

-----------------------------------------------------------------------------
(* kfree: the release, interrupts off.                                     *)

Done(c) ==
  /\ pc' = [pc EXCEPT ![c] = "idle"]
  /\ obj' = [obj EXCEPT ![c] = NoBlock]
  /\ bdir' = [bdir EXCEPT ![c] = 0]
  /\ bdesc' = [bdesc EXCEPT ![c] = NULL]
  /\ prev' = [prev EXCEPT ![c] = NULL]

\* The descriptor that was found is the one of the block's bucket.
Own(c) == \E i \in DOMAIN bucket[obj[c].dir] :
            /\ bucket[obj[c].dir][i] = bdesc[c]
            /\ page[bdesc[c]] = obj[c].page

\* Its place on the chain.
Place(c) == CHOOSE i \in DOMAIN bucket[obj[c].dir] : bucket[obj[c].dir][i] = bdesc[c]

\* The block is chained to the descriptor of no bucket, or of another one.
\* What the heap does from here on is not modelled.
Damage(c) ==
  /\ Runs(c) /\ pc[c] = "found"
  /\ ~Own(c)
  /\ stopped' = "damaged"
  /\ UNCHANGED <<mem_map, descVars, listVars, live, kfreeVars, raced>>

\* The block goes back to its bucket, which has other blocks out.
Release(c) ==
  /\ Runs(c) /\ pc[c] = "found"
  /\ Own(c)
  /\ refcnt[bdesc[c]] # 1
  /\ freeptr' = [freeptr EXCEPT ![bdesc[c]] = @ \union {obj[c].slot}]
  /\ refcnt' = [refcnt EXCEPT ![bdesc[c]] = @ - 1]
  /\ live' = live \ {obj[c]}
  /\ raced' = [raced EXCEPT ![c] = FALSE]
  /\ Done(c)
  /\ UNCHANGED <<mem_map, next, page, listVars, stopped>>

\* prev no longer precedes bdesc.
Stale(c) ==
  \/ prev[c] # NULL /\ next[prev[c]] # bdesc[c]
  \/ prev[c] = NULL /\ chain[bdir[c]] # bdesc[c]

\* The second search, interrupts off: what precedes bdesc on the chain.
Before(c) ==
  LET s == bucket[bdir[c]]
      at == {i \in 1..Len(s)-1 : s[i+1] = bdesc[c]}
  IN IF at = {} THEN NULL ELSE s[CHOOSE i \in at : TRUE]

CheckedPrev(c) == IF Stale(c) THEN Before(c) ELSE prev[c]

\* The last block out: the bucket leaves its chain through what precedes it,
\* its page is freed and its descriptor is unused.
UnlinkAfter(c, before) ==
  LET b == bdesc[c]
  IN /\ before # NULL \/ chain[bdir[c]] = b
     /\ freeptr' = [freeptr EXCEPT ![b] = @ \union {obj[c].slot}]
     /\ refcnt' = [refcnt EXCEPT ![b] = 0]
     /\ live' = live \ {obj[c]}
     /\ chain' = IF before = NULL THEN [chain EXCEPT ![bdir[c]] = next[b]] ELSE chain
     /\ next' = [x \in Desc |-> IF x = b THEN free_bucket_desc
                                ELSE IF x = before THEN next[b] ELSE next[x]]
     /\ mem_map' = mem_map \ {page[b]}
     /\ free_bucket_desc' = b
     /\ bucket' = [bucket EXCEPT ![obj[c].dir] = RemoveAt(@, Place(c))]
     /\ spare' = <<b>> \o spare
     /\ raced' = [x \in Ctx |-> x # c /\ (raced[x] \/ Searching(x))]
     /\ Done(c)
     /\ UNCHANGED <<page, born, stopped>>

LastBlock(c) == Runs(c) /\ pc[c] = "found" /\ Own(c) /\ refcnt[bdesc[c]] = 1

\* kfree that trusts the prev of its search.
UnlinkTrusting(c) == LastBlock(c) /\ UnlinkAfter(c, prev[c])

Unlink(c) == LastBlock(c) /\ UnlinkAfter(c, CheckedPrev(c))

\* panic("malloc bucket chains corrupted")
Corrupted(c) ==
  /\ LastBlock(c)
  /\ CheckedPrev(c) = NULL /\ chain[bdir[c]] # bdesc[c]
  /\ stopped' = "chains"
  /\ UNCHANGED <<mem_map, descVars, listVars, live, kfreeVars, raced>>

-----------------------------------------------------------------------------
\* Callers free what they hold, once.
Claimed == {obj[c] : c \in {x \in Ctx : pc[x] # "idle"}}

Next ==
  \/ \E d \in Dirs : Malloc(d)
  \/ \E c \in Ctx :
       \/ \E o \in live \ Claimed : Kfree(c, o)
       \/ Found(c) \/ Step(c) \/ NextDir(c) \/ NotFound(c)
       \/ Release(c) \/ Unlink(c) \/ Corrupted(c) \/ Damage(c)

Spec == Init /\ [][Next]_vars

-----------------------------------------------------------------------------
(* Correctness.                                                            *)

Owned == {b \in Desc : \E d \in Dirs : \E i \in DOMAIN bucket[d] : bucket[d][i] = b}

\* Every variable keeps its kind of value (a part of HeapSound).
TypeOK ==
  /\ mem_map \subseteq Pages
  /\ chain \in [Dirs -> Desc \union {NULL}]
  /\ free_bucket_desc \in Desc \union {NULL}
  /\ next \in [Desc -> Desc \union {NULL}]
  /\ page \in [Desc -> Pages \union {NULL}]
  /\ \A b \in Desc : freeptr[b] \subseteq Nat \ {0}
  /\ refcnt \in [Desc -> Nat] /\ \A b \in Desc : \E d \in Dirs : refcnt[b] <= Blocks[d]
  /\ bucket \in [Dirs -> Seq(Desc)]
  /\ spare \in Seq(Desc)
  /\ born \in Nat
  /\ \A o \in live : o.page \in Pages /\ o.slot \in Nat \ {0} /\ o.dir \in Dirs
  /\ pc \in [Ctx -> {"idle", "search", "found", "panic"}]
  /\ \A c \in Ctx : obj[c] \in live \union {NoBlock}
  /\ bdir \in [Ctx -> Dirs \union {0}]
  /\ bdesc \in [Ctx -> Desc \union {NULL}]
  /\ prev \in [Ctx -> Desc \union {NULL}]
  /\ stopped \in {"no", "memory", "chains", "damaged"}
  /\ raced \in [Ctx -> BOOLEAN]

\* The list that starts at head and follows the next fields is s.
IsList(head, s) ==
  /\ head = IF s = <<>> THEN NULL ELSE s[1]
  /\ \A i \in DOMAIN s :
       next[s[i]] = IF i = Len(s) THEN NULL ELSE s[i + 1]

\* Whatever interrupts a kfree, the chains and the list of unused descriptors
\* stay null-terminated lists that share nothing, and hold every descriptor.
HeapSound ==
  /\ TypeOK
  /\ \A d \in Dirs : IsList(chain[d], bucket[d])
  /\ IsList(free_bucket_desc, spare)
  /\ \A d \in Dirs : IsInjective(bucket[d]) /\ Range(bucket[d]) \intersect Range(spare) = {}
  /\ \A d, e \in Dirs : d # e => Range(bucket[d]) \intersect Range(bucket[e]) = {}
  /\ IsInjective(spare)
  /\ Owned \union Range(spare) = 1..born

\* The pages in use are those of the buckets and of the descriptors, none else:
\* a bucket that empties gives its page back, once (a part of BlocksAccounted).
PagesAccounted ==
  Cardinality(mem_map) * PerPage = Cardinality(Owned) * PerPage + born

\* A block is either handed out or free, never both, the count of a bucket is
\* the number of its blocks handed out, no bucket stays without any, and two
\* buckets never share a page: no block is handed out twice, and no page is
\* given up under a block in use or lost with a bucket that empties.
BlocksAccounted ==
  /\ PagesAccounted
  /\ \A d \in Dirs : \A b \in Range(bucket[d]) :
       LET out == {o \in live : o.page = page[b]}
       IN /\ out = [page : {page[b]}, slot : (1..Blocks[d]) \ freeptr[b], dir : {d}]
          /\ refcnt[b] = Cardinality(out)
          /\ refcnt[b] > 0
          /\ page[b] \in mem_map
  /\ \A b, c \in Owned : page[b] = page[c] => b = c
  /\ \A o \in live : \E b \in Owned : page[b] = o.page

\* The search of c cannot end well: it has ended in a panic, or at a descriptor
\* that is not the one of its block.
Astray(c) == pc[c] = "panic" \/ (pc[c] = "found" /\ ~Own(c))

\* kfree goes astray over a block that was handed out only if a handler has
\* released a bucket during its search.
StrayNeedsRace == \A c \in Ctx : Astray(c) => raced[c]

\* "so that malloc() and free() can safely be called from interrupt routines"
\* (kmalloc.c:21-22): the search ends at the bucket of its block.
KfreeFinds == \A c \in Ctx : ~Astray(c)
=============================================================================
