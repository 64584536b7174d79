-------------------------------- MODULE Slob --------------------------------
(***************************************************************************)
(* The SLOB allocator of indwriterups/project4/slob.c.  A slob page keeps  *)
(* its free blocks as a list inside the free memory itself; pages with     *)
(* free blocks are on one of several lists, by size of request.  The       *)
(* module has both builds, BEST_FIT 1 and BEST_FIT 0.                      *)
(*                                                                         *)
(* slob_lock makes a search, and a free, one step; it is not held between  *)
(* a search that fails and the arrival of a new page.                      *)
(***************************************************************************)
EXTENDS Integers, FiniteSets, FiniteSetsExt, Sequences, SequencesExt

CONSTANTS
    Pages,          \* bound: the page frames
    Threads,
    PAGE_SIZE, SLOB_UNIT,   \* bytes
    KmallocAlign,           \* max(ARCH_KMALLOC_MINALIGN, ARCH_SLAB_MINALIGN)
    CacheAlign,             \* of a cache
    Breaks,         \* SLOB_BREAK0 ..: sizes at which a new list begins
    KmallocSizes, CacheSizes, RcuSizes, \* sizes asked for, in bytes
    NULL

Units(size) == (size + SLOB_UNIT - 1) \div SLOB_UNIT
PageUnits   == Units(PAGE_SIZE)
Lists       == 0 .. Cardinality(Breaks)
ListOf(size) == Cardinality({b \in Breaks : b <= size})

ASSUME SlobAssumption ==
    /\ {PAGE_SIZE, SLOB_UNIT, KmallocAlign} \subseteq Nat \ {0}
    /\ CacheAlign \in Nat
    /\ \A n \in {PAGE_SIZE, KmallocAlign, CacheAlign} : n % SLOB_UNIT = 0
    /\ PAGE_SIZE % KmallocAlign = 0
    /\ CacheSizes \cup RcuSizes \subseteq 1 .. PAGE_SIZE - 1
    /\ KmallocSizes \subseteq 0 .. PAGE_SIZE
    /\ IsFiniteSet(Breaks) /\ NULL \notin Nat

VARIABLES
    best_fit,       \* the build: #define BEST_FIT
    owner,          \* of a page: "none", "slob", "big"
    slab,           \* PageSlab
    units, free,    \* of struct slob_page
    mem,            \* the units of a page: mem[p][o]
    lists,          \* the lists of pages with free blocks (PageSlobFree)
    blocks,         \* what the callers hold
    rcu,            \* blocks whose free waits for a grace period
    wanted          \* requests between search and new page

pages   == << owner, slab, units, free, mem, lists >>
clients == << blocks, rcu, wanted >>
slob_vars == << best_fit, pages, clients >>

Data == 0       \* a unit whose contents belong to a caller

SlobInit ==
    /\ best_fit \in BOOLEAN
    /\ owner = [p \in Pages |-> "none"] /\ slab = [p \in Pages |-> FALSE]
    /\ units = [p \in Pages |-> 0] /\ free = [p \in Pages |-> PageUnits]
    /\ mem = [p \in Pages |-> [o \in 0 .. PageUnits - 1 |-> Data]]
    /\ lists = [l \in Lists |-> << >>]
    /\ blocks = {} /\ rcu = {} /\ wanted = [t \in Threads |-> NULL]

-----------------------------------------------------------------------------
(* Free blocks.  m is the memory of a page; an offset is in units, and     *)
(* PageUnits as the next block means that there is none.                   *)

SetSlob(m, s, size, next) ==
    IF size > 1 THEN [m EXCEPT ![s] = size, ![s + 1] = next]
    ELSE [m EXCEPT ![s] = -next]

SlobUnits(m, s) == IF m[s] > 0 THEN m[s] ELSE 1
SlobNext(m, s)  == IF m[s] < 0 THEN -m[s] ELSE m[s + 1]
SlobLast(m, s)  == SlobNext(m, s) = PageUnits

\* The free blocks on the way from sp->free to the last one.
FreeOffsets(p) ==
    LET at[n \in 0 .. PageUnits] ==
          IF n = 0 THEN free[p]
          ELSE IF at[n - 1] = PageUnits THEN PageUnits
          ELSE SlobNext(mem[p], at[n - 1])
    IN  {at[n] : n \in 0 .. PageUnits} \ {PageUnits}

\* The block before s on the address-ordered list, or NULL.
PrevBlock(p, s) ==
    LET lower == {o \in FreeOffsets(p) : o < s}
    IN  IF lower = {} THEN NULL ELSE Max(lower)

\* Units skipped to align a block; align 0 asks for none.
Delta(o, align) == IF align = 0 THEN 0 ELSE (-o) % Units(align)

\* slob_page_alloc looks for the first block with room enough.
Roomy(p, r) == {o \in FreeOffsets(p) :
                  SlobUnits(mem[p], o) >= Units(r.size) + Delta(o, r.align)}

\* Mutant: the block in front is not given the new next block.
CarveKeepsPrev(m, first, cur, prev, u, delta) ==
    LET m1 == SetSlob(m, cur + u, SlobUnits(m, cur) - u, SlobNext(m, cur))
    IN  [off |-> cur, free |-> IF prev = NULL THEN cur + u ELSE first,
         mem |-> IF SlobUnits(m, cur) = u THEN m ELSE m1]

\* slob_page_alloc once it has found block cur with prev before it: the head
\* is split off to align, the tail stays free.
Carve(m, first, cur, prev, u, delta) ==
    LET m1 == IF delta = 0 THEN m
              ELSE SetSlob(SetSlob(m, cur + delta, SlobUnits(m, cur) - delta,
                                   SlobNext(m, cur)), cur, delta, cur + delta)
        before == IF delta = 0 THEN prev ELSE cur
        c     == cur + delta
        avail == SlobUnits(m1, c)
        rest  == IF avail = u THEN SlobNext(m1, c) ELSE c + u
        m2    == IF before = NULL THEN m1
                 ELSE SetSlob(m1, before, SlobUnits(m1, before), rest)
        m3    == IF avail = u THEN m2
                 ELSE SetSlob(m2, c + u, avail - u, SlobNext(m1, c))
    IN  [off  |-> c,
         free |-> IF before = NULL THEN rest ELSE first,
         mem  |-> [o \in DOMAIN m |-> IF o \in c .. c + u - 1 THEN Data ELSE m3[o]]]

-----------------------------------------------------------------------------
(* slob_alloc.  A request r has a size, an alignment and the kind of its   *)
(* caller.                                                                 *)

\* Block cur of page p, whose memory is m, goes to r; l is the list p is on.
Take(r, p, m, first, spare, cur, prev, l) ==
    LET u == Units(r.size)
        c == Carve(m, first, cur, prev, u, Delta(cur, r.align))
    IN  /\ units' = [units EXCEPT ![p] = spare - u]
        /\ free' = [free EXCEPT ![p] = c.free]
        /\ mem' = [mem EXCEPT ![p] = c.mem]
        /\ blocks' = blocks \cup {[page |-> p, off |-> c.off, size |-> r.size,
                                   kind |-> r.kind]}
        /\ lists' = [lists EXCEPT ![ListOf(r.size)] = l]

\* The place on its list of the first page that can serve r; NULL if none.
Hit(r) ==
    LET l == lists[ListOf(r.size)]
        hits == {k \in DOMAIN l : units[l[k]] >= Units(r.size) /\ Roomy(l[k], r) # {}}
    IN  IF hits = {} THEN NULL ELSE Min(hits)

\* Mutant: a full page stays on its list.
ListAfterKeepsFull(l, k, full) ==
    IF k = 1 THEN l ELSE SubSeq(l, k, Len(l)) \o SubSeq(l, 1, k - 1)

\* Lines 506-508 and 583-593: a page that is full now leaves its list, and
\* the list is turned so that the next search begins where this one ended.
ListAfter(l, k, full) ==
    LET l1 == IF full THEN RemoveAt(l, k) ELSE l
    IN  IF k = 1 \/ k > Len(l1) THEN l1
        ELSE SubSeq(l1, k, Len(l1)) \o SubSeq(l1, 1, k - 1)

\* Lines 562-596.  With BEST_FIT 1 best_fit() only sets its own copies of the
\* pointers, best_page stays NULL, and line 559 skips the search.
SearchFound(r) ==
    /\ ~best_fit /\ Hit(r) # NULL
    /\ LET l == lists[ListOf(r.size)]
           p == l[Hit(r)]
           cur == Min(Roomy(p, r))
       IN  Take(r, p, mem[p], free[p], units[p], cur, PrevBlock(p, cur),
                ListAfter(l, Hit(r), units[p] = Units(r.size)))
    /\ UNCHANGED << best_fit, owner, slab, rcu, wanted >>

SearchFailed(t, r) ==
    /\ best_fit \/ Hit(r) = NULL
    /\ wanted' = [wanted EXCEPT ![t] = r]
    /\ UNCHANGED << best_fit, pages, blocks, rcu >>

SlobAlloc(t, r) == wanted[t] = NULL /\ (SearchFound(r) \/ SearchFailed(t, r))

\* Lines 602-618.
NewPage(t) ==
    /\ wanted[t] # NULL
    /\ \E p \in Pages :
         /\ owner[p] = "none"
         /\ owner' = [owner EXCEPT ![p] = "slob"]
         /\ slab' = [slab EXCEPT ![p] = TRUE]
         /\ LET r == wanted[t]
                l == lists[ListOf(r.size)]
            IN  Take(r, p, SetSlob(mem[p], 0, PageUnits, PageUnits), 0, PageUnits,
                     0, NULL,
                     IF Units(r.size) = PageUnits THEN l ELSE << p >> \o l)
    /\ wanted' = [wanted EXCEPT ![t] = NULL]
    /\ UNCHANGED << best_fit, rcu >>

NoPage(t) ==
    /\ wanted[t] # NULL
    /\ wanted' = [wanted EXCEPT ![t] = NULL]
    /\ UNCHANGED << best_fit, pages, blocks, rcu >>

-----------------------------------------------------------------------------
(* slob_free of block b. *)

OnList(p) == \E l \in Lists : p \in Range(lists[l])
Unlink(l, p) == IF p \in Range(l) THEN RemoveAt(l, CHOOSE k \in DOMAIN l : l[k] = p) ELSE l
RemoveFromLists(p) == [l \in Lists |-> Unlink(lists[l], p)]

\* Lines 644-653: with b the whole page is free.
FreePage(b) ==
    /\ units[b.page] + Units(b.size) = PageUnits
    /\ lists' = RemoveFromLists(b.page)
    /\ slab' = [slab EXCEPT ![b.page] = FALSE]
    /\ owner' = [owner EXCEPT ![b.page] = "none"]
    /\ units' = [units EXCEPT ![b.page] = 0]
    /\ free' = [free EXCEPT ![b.page] = PageUnits]
    /\ mem' = [mem EXCEPT ![b.page] = [o \in DOMAIN @ |-> Data]]

\* Lines 655-686: the page was full.
FreeFirst(b) ==
    LET p == b.page
        u == Units(b.size)
    IN  /\ units[p] + u # PageUnits /\ ~OnList(p)
        /\ units' = [units EXCEPT ![p] = u]
        /\ free' = [free EXCEPT ![p] = b.off]
        /\ mem' = [mem EXCEPT ![p] = SetSlob(@, b.off, u, PageUnits)]
        /\ lists' = [lists EXCEPT ![ListOf(b.size)] = << p >> \o @]
        /\ UNCHANGED << owner, slab >>

\* Lines 694-700: b is in front of every free block.
PutFirst(m, first, b, u) ==
    IF b + u = first
    THEN SetSlob(m, b, u + SlobUnits(m, first), SlobNext(m, first))
    ELSE SetSlob(m, b, u, first)

\* Lines 709-719: b is behind prev, and joins the block behind and in front.
PutAfter(m, prev, b, u) ==
    LET next == SlobNext(m, prev)
        m1 == IF ~SlobLast(m, prev) /\ b + u = next
              THEN SetSlob(m, b, u + SlobUnits(m, next), SlobNext(m, next))
              ELSE SetSlob(m, b, u, next)
    IN  IF prev + SlobUnits(m1, prev) = b
        THEN SetSlob(m1, prev, SlobUnits(m1, b) + SlobUnits(m1, prev), SlobNext(m1, b))
        ELSE SetSlob(m1, prev, SlobUnits(m1, prev), b)

\* Lines 692-720.
FreeInto(b) ==
    LET p == b.page
        u == Units(b.size)
    IN  /\ units[p] + u # PageUnits /\ OnList(p)
        /\ units' = [units EXCEPT ![p] = @ + u]
        /\ free' = [free EXCEPT ![p] = IF b.off < @ THEN b.off ELSE @]
        /\ mem' = [mem EXCEPT ![p] =
              IF b.off < free[p] THEN PutFirst(@, free[p], b.off, u)
              ELSE PutAfter(@, PrevBlock(p, b.off), b.off, u)]
        /\ UNCHANGED << owner, slab, lists >>

SlobFree(b) == FreePage(b) \/ FreeFirst(b) \/ FreeInto(b)

-----------------------------------------------------------------------------
(* The callers. *)

\* A block of kmalloc begins with a header that holds the size.
Kmalloc(t, size) ==
    /\ size > 0 /\ size < PAGE_SIZE - KmallocAlign
    /\ SlobAlloc(t, [size |-> size + KmallocAlign, align |-> KmallocAlign,
                     kind |-> "kmalloc"])

KmallocPage(size) ==
    /\ size >= PAGE_SIZE - KmallocAlign
    /\ \E p \in Pages :
         /\ owner[p] = "none"
         /\ owner' = [owner EXCEPT ![p] = "big"]
         /\ blocks' = blocks \cup {[page |-> p, off |-> 0, size |-> size, kind |-> "big"]}
    /\ UNCHANGED << best_fit, slab, units, free, mem, lists, rcu, wanted >>

\* kfree asks the page's flag what the block is.
Kfree(b) ==
    /\ b.kind \in {"kmalloc", "big"}
    /\ IF slab[b.page] THEN SlobFree(b)
       ELSE /\ owner' = [owner EXCEPT ![b.page] = "none"]
            /\ UNCHANGED << slab, units, free, mem, lists >>
    /\ blocks' = blocks \ {b}
    /\ UNCHANGED << best_fit, rcu, wanted >>

CacheAlloc(t, size, kind) == SlobAlloc(t, [size |-> size, align |-> CacheAlign, kind |-> kind])

CacheFree(b) ==
    /\ b.kind = "cache"
    /\ SlobFree(b)
    /\ blocks' = blocks \ {b}
    /\ UNCHANGED << best_fit, rcu, wanted >>

\* SLAB_DESTROY_BY_RCU: call_rcu, and later kmem_rcu_free.
CacheFreeRcu(b) ==
    /\ b.kind = "rcu" /\ b \notin rcu
    /\ rcu' = rcu \cup {b}
    /\ UNCHANGED << best_fit, pages, blocks, wanted >>

RcuFree(b) ==
    /\ b \in rcu
    /\ SlobFree(b)
    /\ blocks' = blocks \ {b} /\ rcu' = rcu \ {b}
    /\ UNCHANGED << best_fit, wanted >>

SlobStep ==
    \/ \E t \in Threads :
         \/ \E size \in KmallocSizes : Kmalloc(t, size)
         \/ \E size \in CacheSizes : CacheAlloc(t, size, "cache")
         \/ \E size \in RcuSizes : CacheAlloc(t, size, "rcu")
         \/ NewPage(t) \/ NoPage(t)
    \/ \E size \in KmallocSizes : KmallocPage(size)
    \/ \E b \in blocks : Kfree(b) \/ CacheFree(b) \/ CacheFreeRcu(b) \/ RcuFree(b)

SlobSpec == SlobInit /\ [][SlobStep]_slob_vars

-----------------------------------------------------------------------------
SlobTypeOK ==
    /\ best_fit \in BOOLEAN
    /\ owner \in [Pages -> {"none", "slob", "big"}] /\ slab \in [Pages -> BOOLEAN]
    /\ units \in [Pages -> 0 .. PageUnits] /\ free \in [Pages -> 0 .. PageUnits]
    /\ \A p \in Pages : mem[p] \in [0 .. PageUnits - 1 -> -PageUnits .. PageUnits]
    /\ \A l \in Lists : IsInjective(lists[l]) /\ Range(lists[l]) \subseteq Pages
    /\ rcu \subseteq blocks

SlobPages == {p \in Pages : owner[p] = "slob"}
FreeUnits(p) == UNION {o .. o + SlobUnits(mem[p], o) - 1 : o \in FreeOffsets(p)}
UsedUnits(b) == b.off .. b.off + Units(b.size) - 1

(* Lines 457-514 and 692-720: on every slob page the free blocks and the   *)
(* blocks the callers hold (those waiting for RCU too) cut the page into   *)
(* disjoint pieces, and sp->units is what is free.  Lines 20-24, "inserts  *)
(* objects back into the free list in address order", and 695-719: the     *)
(* list is sorted, and a freed block has joined its free neighbours.       *)
PageIsTiled ==
    \A p \in SlobPages :
        LET held == {b \in blocks : b.page = p}
        IN  /\ \A b \in held : UsedUnits(b) \cap FreeUnits(p) = {}
            /\ \A b, c \in held : b # c => UsedUnits(b) \cap UsedUnits(c) = {}
            /\ FreeUnits(p) \cup UNION {UsedUnits(b) : b \in held} = 0 .. PageUnits - 1
            /\ units[p] = Cardinality(FreeUnits(p))
            /\ \A o \in FreeOffsets(p) :
                  o + SlobUnits(mem[p], o) < SlobNext(mem[p], o) \/ SlobLast(mem[p], o)

(* Line 142: exactly the slob pages with something free are on a list, and *)
(* on one only; a page with nothing in use is given back (line 644). *)
ListsHoldPartialPages ==
    /\ \A p \in Pages : OnList(p) <=> owner[p] = "slob" /\ units[p] > 0
    /\ \A k, l \in Lists : k # l => Range(lists[k]) \cap Range(lists[l]) = {}
    /\ \A p \in SlobPages : \E b \in blocks : b.page = p
=============================================================================
