-------------------------------- MODULE Heap --------------------------------
(***************************************************************************)
(* The kernel heap, mm/heap.c: first fit over a doubly linked list of      *)
(* chunks, each headed by a header_t.                                      *)
(*                                                                         *)
(* Addresses are offsets from HEAP_START, and the unit of length is        *)
(* sizeof(header_t).  "header" is the heap's memory as far as it holds     *)
(* headers; bytes that belong to a user's block hold none.                 *)
(***************************************************************************)
EXTENDS Pages

CONSTANT PGSIZE    \* length of a page

ASSUME HeapAssumption == PGSIZE \in Nat \ {0}

NULL == -1
HEADER == 1

VARIABLES
    heap_first,    \* the first chunk, or NULL
    heap_map,      \* the pages mapped from HEAP_START on
    header         \* address -> [prev, next, allocated, length]

heapVars == <<heap_first, heap_map, header>>

heap_max == PGSIZE * Len(heap_map)
End(c) == c + header[c].length

init_heap == heap_first = NULL /\ heap_map = <<>> /\ header = <<>>

----------------------------------------------------------------------------
\* kmalloc() walks the list from heap_first.  Bound: it is modelled where that
\* leads over headers to the list's end.  Elsewhere it goes round for ever, or
\* reads what a user or nobody has written there.
After(c) == IF c \in DOMAIN header THEN header[c].next ELSE NULL
Walk ==
    LET walk[n \in 0 .. heap_max] ==
            IF n = 0 THEN heap_first ELSE After(walk[n - 1])
    IN  walk
Legible ==
    /\ \A n \in 0 .. heap_max : Walk[n] \in DOMAIN header \cup {NULL}
    /\ Walk[heap_max] = NULL
Chunks == {Walk[n] : n \in 0 .. heap_max} \ {NULL}

Fits_any(c, len) == ~header[c].allocated   \* mutant: length not compared
Fits(c, len) == ~header[c].allocated /\ header[c].length >= len
Fitting(len) == {n \in 0 .. heap_max : Walk[n] # NULL /\ Fits(Walk[n], len)}
FirstFit(len) == LET fits == Fitting(len)
                 IN  Walk[CHOOSE n \in fits : \A m \in fits : n <= m]

\* A header is written.
Written(h, a, r) == [x \in DOMAIN h \cup {a} |-> IF x = a THEN r ELSE h[x]]

\* The user writes over whatever was in the block.
Within(h, a, len) == Restrict(h, {c \in DOMAIN h : c <= a \/ c >= a + len})

\* The chunk after the new one keeps pointing back at the old one.
split_chunk(h, c, len) ==
    LET new  == c + len
        rest == [prev |-> c, next |-> h[c].next, allocated |-> FALSE,
                 length |-> h[c].length - len]
    IN  IF h[c].length - len > HEADER
        THEN Written([h EXCEPT ![c].next = new, ![c].length = len], new, rest)
        ELSE h

\* A free chunk is large enough.  Bound: what is split off begins in memory the
\* heap has mapped.
kmalloc_fit(len) ==
    LET c == FirstFit(len)
        h == split_chunk(header, c, len)
    IN  /\ Fitting(len) # {}
        /\ header[c].length - len > HEADER => c + len < heap_max
        /\ header' = Within([h EXCEPT ![c].allocated = TRUE], c, h[c].length)
        /\ UNCHANGED <<heap_first, heap_map, pageVars>>

\* None is: a new chunk behind the last one, on as many new pages as it takes.
prev_header == CHOOSE c \in Chunks : header[c].next = NULL
chunk_start == IF heap_first = NULL THEN 0 ELSE End(prev_header)
alloc_chunk_short(end) ==    \* mutant: the page the end lies in is left out
    IF end <= heap_max THEN 0 ELSE (end - heap_max) \div PGSIZE
alloc_chunk(end) ==
    IF end <= heap_max THEN 0 ELSE (end - heap_max + PGSIZE - 1) \div PGSIZE

kmalloc_grow(len) ==
    LET k    == alloc_chunk(chunk_start + len)
        new  == [prev |-> IF heap_first = NULL THEN NULL ELSE prev_header,
                 next |-> NULL, allocated |-> TRUE, length |-> len]
        made == Written(header, chunk_start, new)
        h    == IF heap_first = NULL THEN made
                ELSE [made EXCEPT ![prev_header].next = chunk_start]
    IN  /\ Fitting(len) = {}
        /\ Available(k)
        /\ pmm_alloc_pages(k)
        /\ heap_map' = heap_map \o Popped(k)
        /\ heap_first' = IF heap_first = NULL THEN 0 ELSE heap_first
        /\ header' = Within(h, chunk_start, len)

\* The pages do not suffice: those there are have been mapped when the kernel
\* panics, and heap_first has been set, to a page of zeros if there was one.
Cleared == [prev |-> NULL, next |-> NULL, allocated |-> FALSE, length |-> 0]
kmalloc_fails(len) ==
    /\ Fitting(len) = {}
    /\ ~Available(alloc_chunk(chunk_start + len))
    /\ pmm_alloc_fails
    /\ heap_map' = heap_map \o Popped(Left)
    /\ heap_first' = 0
    /\ header' = IF heap_map = <<>> /\ Left > 0
                 THEN Written(header, 0, Cleared) ELSE header

----------------------------------------------------------------------------
\* glue_chunk(): merge with the next chunk, then with the previous one.
NextFree_any(h, c) == h[c].next # NULL   \* mutant: allocated not looked at
NextFree(h, c) == h[c].next # NULL /\ ~h[h[c].next].allocated
PrevFree(h, c) == h[c].prev # NULL /\ ~h[h[c].prev].allocated

SetPrev(h, c, p) == IF c = NULL THEN h ELSE [h EXCEPT ![c].prev = p]

Absorb(h, c, d) ==    \* chunk d becomes part of c
    SetPrev([h EXCEPT ![c].length = @ + h[d].length, ![c].next = h[d].next],
            h[d].next, c)

\* What kfree() reads of the list are headers.  Bound: elsewhere it is not
\* modelled.
Followed(p) ==
    LET Header(c) == c \in DOMAIN header \cup {NULL}
    IN  /\ p \in DOMAIN header
        /\ Header(header[p].next) /\ Header(header[p].prev)
        /\ NextFree(header, p) => Header(header[header[p].next].next)
        /\ PrevFree(header, p) => Header(header[header[p].prev].prev)

\* A chunk's prev does not lead to the chunk before it.
Stale(p) ==
    /\ p # heap_first
    /\ ~\E c \in Chunks : header[p].prev = c /\ header[c].next = p

\* kfree(): p is the address of the chunk.  A chunk that ends up last is given
\* back: the list loses it, and every page that lies wholly behind its start.
kfree(p) ==
    LET freed    == [header EXCEPT ![p].allocated = FALSE]
        forward  == IF NextFree(freed, p) THEN Absorb(freed, p, freed[p].next)
                    ELSE freed
        backward == PrevFree(forward, p)
        c        == IF backward THEN forward[p].prev ELSE p
        glued    == IF backward THEN Absorb(forward, c, p) ELSE forward
        prev     == glued[c].prev
        cut      == IF prev = NULL THEN glued
                    ELSE [glued EXCEPT ![prev].next = NULL]
        pages    == (c + PGSIZE - 1) \div PGSIZE
        keep     == IF pages < Len(heap_map) THEN pages ELSE Len(heap_map)
    IN  IF glued[c].next # NULL
        THEN header' = glued /\ UNCHANGED <<heap_first, heap_map, pageVars>>
        ELSE /\ heap_first' = IF prev = NULL THEN NULL ELSE heap_first
             /\ heap_map' = SubSeq(heap_map, 1, keep)
             /\ page_remove(Reverse(SubSeq(heap_map, keep + 1, Len(heap_map))))
             /\ header' = Restrict(cut, {a \in DOMAIN cut : a < PGSIZE * keep})
=============================================================================
