-------------------------------- MODULE Heap --------------------------------
(***************************************************************************)
(* The allocator of the cryptography a REC does                            *)
(* (lib/allocator/src/memory_alloc.c): blocks, each with a header, that    *)
(* tile the buffer and are chained both ways in the order of their         *)
(* addresses; the free ones are chained both ways once more, in any order. *)
(* A heap has one user at a time, the CPU that runs its REC (HeapAssigned  *)
(* of RecRun), so a call is one step.                                      *)
(***************************************************************************)
EXTENDS Integers, FiniteSets

CONSTANTS Header,     \* sizeof(struct memory_header_s)
          Unit,       \* MBEDTLS_MEMORY_ALIGN_MULTIPLE
          Wrap,       \* 2^64: the arithmetic of size_t
          Buffers,    \* bound: the buffers (address, length) a heap is made of
          Requests    \* bound: the (n, size) that calloc is called with

ASSUME HeapAssumption ==
  /\ Unit \in Nat \ {0} /\ Header \in Nat /\ Header % Unit = 0
  /\ Wrap \in Nat /\ Wrap > Header + Unit
  /\ Buffers \subseteq Nat \X Nat
  /\ Requests \subseteq Nat \X Nat

Null == -1

VARIABLES heap,       \* struct buffer_alloc_ctx, and the headers in the buffer
          live,       \* what callers hold: address, length asked for
          refused     \* the size of the request that failed last, or 0

heapVars == <<heap, live, refused>>

Header_s == [size : Nat, alloc : BOOLEAN, prev : Int, next : Int,
          prev_free : Int, next_free : Int]

NoHeap == [buf |-> Null, len |-> 0, first |-> Null, first_free |-> Null, hdr |-> <<>>]

(* Stores through a pointer that may be NULL are guarded in the code. *)
SetNext(h, a, v)     == IF a = Null THEN h ELSE [h EXCEPT !.hdr[a].next = v]
SetPrev(h, a, v)     == IF a = Null THEN h ELSE [h EXCEPT !.hdr[a].prev = v]
SetNextFree(h, a, v) == IF a = Null THEN [h EXCEPT !.first_free = v]
                                    ELSE [h EXCEPT !.hdr[a].next_free = v]
SetPrevFree(h, a, v) == IF a = Null THEN h ELSE [h EXCEPT !.hdr[a].prev_free = v]

Drop(h, a) == [h EXCEPT !.hdr = [x \in DOMAIN h.hdr \ {a} |-> h.hdr[x]]]

(* Block a leaves the free list; block b takes the place of a in it. *)
Unlink(h, a) ==
  SetPrevFree(SetNextFree(h, h.hdr[a].prev_free, h.hdr[a].next_free),
              h.hdr[a].next_free, h.hdr[a].prev_free)

Replace(h, a, b) ==
  LET p == h.hdr[a].prev_free
      n == h.hdr[a].next_free
      i == [h EXCEPT !.hdr[b].prev_free = p, !.hdr[b].next_free = n]
  IN SetPrevFree(SetNextFree(i, p, b), n, b)

(***************************************************************************)
(* calloc                                                                  *)
(***************************************************************************)
Aligned(l) == IF l % Unit = 0 THEN l ELSE l - (l % Unit) + Unit

(* Mutants: nothing is handed out as if it were something, and the product *)
(* that wraps around is taken for what it became.                          *)
ZeroFits(n, size) ==
  LET l == (n * size) % Wrap
  IN n # 0 /\ size # 0 /\ (l \div n # size \/ l > Wrap - Unit)

WrapFits(n, size) == n = 0 \/ size = 0 \/ (n * size) % Wrap > Wrap - Unit

(* n * size wraps around, or its rounding up would. *)
Overflows(n, size) ==
  LET l == (n * size) % Wrap
  IN n = 0 \/ size = 0 \/ l \div n # size \/ l > Wrap - Unit

(* The free list in its order, and the first block in it that fits. *)
FreeList(h) ==
  LET at[k \in 0 .. Cardinality(DOMAIN h.hdr)] ==
        IF k = 0 THEN h.first_free
        ELSE IF at[k - 1] = Null THEN Null ELSE h.hdr[at[k - 1]].next_free
  IN at

FirstFit(h, l) ==
  LET at      == FreeList(h)
      fits(k) == at[k] # Null /\ h.hdr[at[k]].size >= l
  IN IF \E k \in DOMAIN at : fits(k)
     THEN at[CHOOSE k \in DOMAIN at : fits(k) /\ \A j \in 0 .. k - 1 : ~fits(j)]
     ELSE Null

Splits(h, a, l) == h.hdr[a].size - l >= Header + Unit

Taken(h, a) ==
  [h EXCEPT !.hdr[a].alloc = TRUE, !.hdr[a].prev_free = Null, !.hdr[a].next_free = Null]

Split(h, a, l) ==
  LET b    == a + Header + l
      rest == [size |-> h.hdr[a].size - l - Header, alloc |-> FALSE,
               prev |-> a, next |-> h.hdr[a].next, prev_free |-> Null, next_free |-> Null]
      i    == [h EXCEPT !.hdr = [x \in DOMAIN h.hdr \cup {b} |->
                                   IF x = b THEN rest ELSE h.hdr[x]]]
      j    == Replace(SetPrev(i, rest.next, b), a, b)
  IN Taken([j EXCEPT !.hdr[a].size = l, !.hdr[a].next = b], a)

Refused(n, size) ==
  /\ refused' = n * size
  /\ UNCHANGED <<heap, live>>

Calloc(n, size) ==
  LET l == Aligned((n * size) % Wrap)
      a == FirstFit(heap, l)
  IN IF heap.first = Null \/ Overflows(n, size) \/ a = Null
     THEN Refused(n, size)
     ELSE /\ heap' = IF Splits(heap, a, l) THEN Split(heap, a, l)
                                           ELSE Taken(Unlink(heap, a), a)
          /\ live' = live \cup {[at |-> a + Header, len |-> n * size]}
          /\ refused' = 0

(***************************************************************************)
(* free                                                                    *)
(***************************************************************************)
FreeBefore(h, a) == h.hdr[a].prev # Null /\ ~h.hdr[h.hdr[a].prev].alloc
FreeAfter(h, a)  == h.hdr[a].next # Null /\ ~h.hdr[h.hdr[a].next].alloc

MergeBefore(h, a) ==
  LET p == h.hdr[a].prev
      n == h.hdr[a].next
      i == [h EXCEPT !.hdr[p].size = @ + Header + h.hdr[a].size, !.hdr[p].next = n]
  IN Drop(SetPrev(i, n, p), a)

(* Mutant: the first block of the free list is taken for one outside it. *)
NotFirst(h, a) == h.hdr[a].prev_free # Null

InFreeList(h, a) == h.hdr[a].prev_free # Null \/ h.hdr[a].next_free # Null

MergeAfter(h, a) ==
  LET o == h.hdr[a].next
      n == h.hdr[o].next
      i == [h EXCEPT !.hdr[a].size = @ + Header + h.hdr[o].size, !.hdr[a].next = n]
      j == IF InFreeList(i, a) THEN Unlink(i, a) ELSE i
  IN Drop(SetPrev(Replace(j, o, a), n, a), o)

Prepend(h, a) ==
  SetPrevFree([h EXCEPT !.hdr[a].next_free = h.first_free, !.first_free = a],
              h.first_free, a)

Freed(h, a) ==
  LET f == [h EXCEPT !.hdr[a].alloc = FALSE]
      b == IF FreeBefore(f, a) THEN f.hdr[a].prev ELSE a
      i == IF FreeBefore(f, a) THEN MergeBefore(f, a) ELSE f
      j == IF FreeAfter(i, b) THEN MergeAfter(i, b) ELSE i
  IN IF FreeBefore(f, a) \/ FreeAfter(i, b) THEN j ELSE Prepend(j, b)

FreePtr(p) ==
  /\ heap' = Freed(heap, p.at - Header)
  /\ live' = live \ {p}
  /\ refused' = 0

(***************************************************************************)
(* The heap is made when a REC runs first, and anew for every token.       *)
(***************************************************************************)
Made(b) ==
  LET skew == IF b[1] % Unit = 0 THEN 0 ELSE Unit - (b[1] % Unit)
      buf  == b[1] + skew
      len  == b[2] - skew
  IN IF b[2] < Header + Unit THEN NoHeap
     ELSE [buf |-> buf, len |-> len, first |-> buf, first_free |-> buf,
           hdr |-> [a \in {buf} |->
                      [size |-> len - Header, alloc |-> FALSE, prev |-> Null,
                       next |-> Null, prev_free |-> Null, next_free |-> Null]]]

HeapInit ==
  /\ heap \in {Made(b) : b \in Buffers}
  /\ live = {} /\ refused = 0

HeapReinit(b) ==
  /\ heap' = Made(b)
  /\ live' = {} /\ refused' = 0

HeapNext ==
  \/ \E r \in Requests : Calloc(r[1], r[2])
  \/ \E p \in live : FreePtr(p)
  \/ \E b \in Buffers : HeapReinit(b)

-----------------------------------------------------------------------------
HeapTypeOK ==
  /\ heap.buf \in Int /\ heap.len \in Nat /\ heap.first \in Int /\ heap.first_free \in Int
  /\ \A a \in DOMAIN heap.hdr : heap.hdr[a] \in Header_s
  /\ \A p \in live : p.at \in Nat /\ p.len \in Nat \ {0}
  /\ refused \in Nat

(* verify_header and verify_chain: what the allocator would check of its   *)
(* own blocks if anything ever asked it to.                                *)
Verifies(h) ==
  /\ h.hdr[h.first].prev = Null
  /\ \A a \in DOMAIN h.hdr :
       LET x == h.hdr[a]
       IN /\ x.prev # Null => x.prev # x.next
          /\ x.prev_free # Null => x.prev_free # x.next_free
          /\ x.next # Null => x.next \in DOMAIN h.hdr /\ h.hdr[x.next].prev = a

(* The blocks tile the buffer from end to end, each next where the one     *)
(* before it ends; no two free ones are neighbours; and the free list is   *)
(* exactly the free blocks, each once, the same in both directions.        *)
BlocksTile ==
  LET h  == heap
      at == FreeList(h)
      free == {a \in DOMAIN h.hdr : ~h.hdr[a].alloc}
  IN h.first # Null =>
       /\ Verifies(h)
       /\ \A a \in DOMAIN h.hdr :
            LET x == h.hdr[a]
                e == a + Header + x.size
            IN /\ x.next = IF e = h.buf + h.len THEN Null ELSE e
               /\ x.next # Null => x.alloc \/ h.hdr[x.next].alloc
       /\ {at[k] : k \in DOMAIN at} \ {Null} = free
       /\ \A k \in 0 .. Cardinality(free) : at[k] = Null <=> k = Cardinality(free)
       /\ \A a \in free :
            /\ h.hdr[a].prev_free = Null <=> h.first_free = a
            /\ h.hdr[a].prev_free # Null => h.hdr[h.hdr[a].prev_free].next_free = a
       /\ \A p \in live : p.at - Header \in DOMAIN h.hdr \ free
       /\ Cardinality(live) = Cardinality(DOMAIN h.hdr \ free)

AnArena == INSTANCE Arena WITH
  lo   <- IF heap.first = Null THEN 0 ELSE heap.buf,
  hi   <- IF heap.first = Null THEN 0 ELSE heap.buf + heap.len,
  used <- {[at |-> p.at, len |-> p.len, span |-> heap.hdr[p.at - Header].size] : p \in live}

(* Splitting, merging and the surgery on the two chains keep the promise   *)
(* of Arena: nothing handed out overlaps, no freed byte is lost to the     *)
(* requests that come later, a size that wraps around is refused.          *)
ImplementsArena == AnArena!Spec

=============================================================================
