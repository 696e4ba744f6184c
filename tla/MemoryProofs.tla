----------------------------- MODULE MemoryProofs -----------------------------
(***************************************************************************)
(* Proofs about the pages and the heap, for any number of pages, any       *)
(* lengths, any processes and stacks, and any number of blocks in use, as  *)
(* long as no interrupt falls into the pop of a page.                      *)
(***************************************************************************)
EXTENDS Memory, WellFoundedInduction, FiniteSetTheorems, TLAPS

\* The top of the free stack, and what it is again when a pop is done.
Top == IF pc = "read" THEN reg ELSE pmm_stack_top

Loading == {"load", "store", "read", "insert"}

PageTypes ==
    /\ pmm_stack \in [0 .. MAX_PAGE_NUM -> Page \cup {NoPage}]
    /\ pmm_stack_top \in 0 .. MAX_PAGE_NUM
    /\ pp_ref \in [Page -> 0 .. Refs - 1]
    /\ heap_map \in Seq(Page)
    /\ pc \in Loading \cup {"ready", "fault"}
    /\ pid \in Pids \cup {NULL}
    /\ reg \in 0 .. MAX_PAGE_NUM
    /\ want \in {"stack", "table"}
    /\ page \in Page \cup {NoPage}
    /\ started \subseteq Pids
    /\ stack_map \in [Pids -> Seq(Page)]

\* Only position 1, which init_pmm() leaves empty, ever holds no page.
Full(stack, top) == {i \in 1 .. top : stack[i] # NoPage}
PopInv ==
    /\ \A i \in 2 .. Top : pmm_stack[i] # NoPage
    /\ pc = "store" => reg = pmm_stack_top /\ reg # 0
    /\ pc = "read" => pmm_stack_top = reg - 1

\* How far the shell has got with a stack, and what it has in its hands.
LoadInv ==
    /\ pc \in Loading => pid \in started /\ Len(stack_map[pid]) < StackPages
    /\ pc \in {"ready", "load", "store", "read"} =>
           (page # NoPage <=> want = "table")
    /\ pc \in {"ready", "insert"} => want = "stack"
    /\ pc = "insert" => page # NoPage
    /\ want = "table" => Table(pid) \notin DOMAIN tables
    /\ \A p \in Pids \ started : stack_map[p] = <<>>

\* Every place has a page of its own, and its reference count tells whether
\* the page will be given back; a page without a place once was the heap's.
UseInv ==
    /\ \A u \in Places(Top) : PageAt(u) \in Page \ {0}
    /\ \A u, v \in Places(Top) : PageAt(u) = PageAt(v) => u = v
    /\ \A u \in Places(Top) :
           /\ u[1] \in {"heap", "shell"} => pp_ref[PageAt(u)] = 0
           /\ u[1] = "stack" => pp_ref[PageAt(u)] = 1
    /\ \A p \in Page \ {0} :
           \/ \E u \in Places(Top) : PageAt(u) = p
           \/ pp_ref[p] = Refs - 1

PageInv == PageTypes /\ PopInv /\ LoadInv /\ UseInv

Header == [prev : Nat \cup {NULL}, next : Nat \cup {NULL},
           allocated : BOOLEAN, length : Nat]

HeapTypes ==
    /\ heap_first \in {NULL, 0}
    /\ header \in [DOMAIN header -> Header]
    /\ DOMAIN header \subseteq 0 .. heap_max - 1
    /\ live \subseteq [at : Nat, len : Sizes]
    /\ IsFiniteSet(live) /\ Cardinality(live) <= MaxLive
    /\ misled \in BOOLEAN

\* The chunks L of a list follow each other from address 0 on, in headers h,
\* and end in mapped memory.
Spaced(h, L, max) ==
    /\ \A c \in L : h[c].length >= 1 /\ c + h[c].length <= max
    /\ \A c, d \in L : c < d => c + h[c].length <= d
Linked(h, L) ==
    /\ \A c \in L : \/ h[c].next = NULL
                    \/ h[c].next \in L /\ h[c].next = c + h[c].length
    /\ \A d \in L \ {0} : \E c \in L : h[c].next = d
Chained(h, L, max) ==
    /\ L \subseteq DOMAIN h
    /\ L # {} => 0 \in L /\ h[0].prev = NULL
    /\ Spaced(h, L, max) /\ Linked(h, L)

\* The prev of a chunk leads to the chunk before it, if there is one.
Right(h, L, c) == c # 0 => h[c].prev \in L /\ h[h[c].prev].next = c

\* A free chunk lies between chunks in use, and its prev is right.  (That of a
\* chunk in use is not when the one before it was split off.)
Tiled(h, L, max) ==
    /\ Chained(h, L, max)
    /\ \A c \in L : ~h[c].allocated =>
           /\ h[c].next # NULL /\ h[h[c].next].allocated
           /\ Right(h, L, c)

\* The blocks in use are those in the chunks C, one in each.
HeldIn(h, blocks, C) ==
    /\ \A b \in blocks : /\ b.at - HEADER \in C
                         /\ b.len + HEADER <= h[b.at - HEADER].length
    /\ \A c \in C : \E b \in blocks : b.at = c + HEADER
    /\ \A b, d \in blocks : b.at = d.at => b = d
Used(h, L) == {c \in L : h[c].allocated}

ListIs(L) ==
    /\ heap_first = IF L = {} THEN NULL ELSE 0
    /\ Tiled(header, L, heap_max)
    /\ HeldIn(header, live, Used(header, L))
ListInv == ~misled => \E L \in SUBSET Nat : ListIs(L)

MemoryInv == PageInv /\ HeapTypes /\ ListInv
----------------------------------------------------------------------------
\* The constants, as the provers need them.
LEMMA Constants ==
    /\ MAX_PAGE_NUM \in Nat /\ MAX_PAGE_NUM >= 3
    /\ PGSIZE \in Nat \ {0}
    /\ StackPages \in Nat \ {0} /\ StacksPerTable \in Nat \ {0}
    /\ Sizes \subseteq Nat \ {0} /\ Pids \subseteq Nat /\ MaxLive \in Nat
    /\ PopAtomic \in BOOLEAN
    /\ Refs = 65536
  BY PagesAssumption, HeapAssumption, MemoryAssumption DEF Refs

\* The reference counts a page begins with.
LEMMA RefsZero == 0 \in 0 .. Refs - 1 /\ 1 \in 0 .. Refs - 1
  BY DEF Refs

\* Counting up and down modulo m.
LEMMA ModuloFacts ==
    ASSUME NEW m \in Nat, m > 2
    PROVE  /\ (0 - 1) % m = m - 1
           /\ (1 - 1) % m = 0
           /\ (0 + 1) % m = 1
           /\ \A n \in 0 .. m - 1 : (n - 1) % m \in 0 .. m - 1
           /\ \A n \in 0 .. m - 1 : (n + 1) % m \in 0 .. m - 1
  OBVIOUS

\* page_decref() on a 16-bit count: 0 wraps, 1 frees the page.
LEMMA DecFacts ==
    /\ Dec(0) = Refs - 1
    /\ Dec(1) = 0
    /\ \A n \in 0 .. Refs - 1 : Dec(n) \in 0 .. Refs - 1
    /\ (0 + 1) % Refs = 1
    /\ \A n \in 0 .. Refs - 1 : (n + 1) % Refs \in 0 .. Refs - 1
<1>1. Refs \in Nat /\ Refs > 2
  BY DEF Refs
<1> QED
  BY <1>1, ModuloFacts DEF Dec

\* A set of numbers has a least one.
LEMMA Least ==
    ASSUME NEW T, T \subseteq Nat, T # {}
    PROVE  \E m \in T : \A k \in T : m <= k
<1>1. PICK m \in T : \A k \in T : ~(<<k, m>> \in OpToRel(<, Nat))
  BY NatLessThanWellFounded, WFMin
<1>2. \A k \in T : ~(k < m)
  BY <1>1 DEF OpToRel
<1>3. m \in Nat /\ \A k \in T : k \in Nat
  OBVIOUS
<1> QED
  BY <1>2, <1>3

\* Whatever solves the equation of page_remove()'s loop is what it frees.
LEMMA FreedIs ==
    ASSUME NEW mapped \in Seq(Page), NEW w,
           w = [n \in 0 .. Len(mapped) |->
                   IF n = 0 THEN <<>>
                   ELSE IF Dec(pp_ref[mapped[n]]) = 0
                        THEN Append(w[n - 1], mapped[n])
                   ELSE w[n - 1]]
    PROVE  Freed(mapped) = w[Len(mapped)]
<1> DEFINE D == 0 .. Len(mapped)
           step(f, n) == IF Dec(pp_ref[mapped[n]]) = 0
                         THEN Append(f[n - 1], mapped[n])
                         ELSE f[n - 1]
           body(f) == [n \in D |-> IF n = 0 THEN <<>> ELSE step(f, n)]
<1>0. Len(mapped) \in Nat
  OBVIOUS
<1>1. PICK f : f = CHOOSE g : g = body(g)
  OBVIOUS
<1>2. Freed(mapped) = f[Len(mapped)]
  BY <1>1 DEF Freed
<1>3. f = body(f)
  <2>1. w = body(w)
    OBVIOUS
  <2> HIDE DEF body
  <2> QED
    BY <1>1, <2>1
<1>4. \A n \in D : f[n] = IF n = 0 THEN <<>> ELSE step(f, n)
  <2> HIDE DEF step
  <2> QED
    BY <1>3
<1>5. \A n \in D : w[n] = IF n = 0 THEN <<>> ELSE step(w, n)
  OBVIOUS
<1>6. \A n \in D : f[n] = w[n]
  <2> DEFINE T == {n \in D : f[n] # w[n]}
  <2> SUFFICES ASSUME T # {} PROVE FALSE
    OBVIOUS
  <2>1. PICK n \in T : \A k \in T : n <= k
    <3>1. T \subseteq Nat
      BY <1>0
    <3> HIDE DEF T
    <3> QED
      BY <3>1, Least
  <2>2. n # 0
    <3> HIDE DEF step
    <3> QED
      BY <1>4, <1>5, <2>1
  <2>3. n - 1 \in D /\ n - 1 \notin T
    <3>1. n \in D /\ n - 1 \in D /\ ~(n <= n - 1)
      BY <1>0, <2>1, <2>2
    <3> HIDE DEF T, D
    <3> QED
      BY <2>1, <3>1
  <2>4. step(f, n) = step(w, n)
    BY <2>3
  <2> HIDE DEF step
  <2> QED
    BY <1>4, <1>5, <2>1, <2>2, <2>4
<1> QED
  BY <1>0, <1>2, <1>6

\* Pages that were mapped once are all freed, in the order of the loop.
LEMMA AllFreed ==
    ASSUME NEW mapped \in Seq(Page),
           \A n \in 1 .. Len(mapped) : pp_ref[mapped[n]] = 1
    PROVE  Freed(mapped) = mapped
<1> DEFINE w == [n \in 0 .. Len(mapped) |-> SubSeq(mapped, 1, n)]
<1>0. Len(mapped) \in Nat
  OBVIOUS
<1>1. \A n \in 1 .. Len(mapped) : Dec(pp_ref[mapped[n]]) = 0
  BY Constants DEF Dec
<1>2. ASSUME NEW n \in 0 .. Len(mapped), n # 0
      PROVE  w[n] = Append(w[n - 1], mapped[n])
  <2>1. n - 1 \in 0 .. Len(mapped) /\ n \in 1 .. Len(mapped)
    BY <1>0, <1>2
  <2>2. SubSeq(mapped, 1, n) = Append(SubSeq(mapped, 1, n - 1), mapped[n])
    BY <1>0, <2>1
  <2> QED
    BY <2>1, <2>2
<1>3. w[0] = <<>>
  BY <1>0
<1>4. w = [n \in 0 .. Len(mapped) |->
              IF n = 0 THEN <<>>
              ELSE IF Dec(pp_ref[mapped[n]]) = 0
                   THEN Append(w[n - 1], mapped[n])
              ELSE w[n - 1]]
  <2>1. \A n \in 0 .. Len(mapped) : n # 0 => n \in 1 .. Len(mapped)
    BY <1>0
  <2>2. \A n \in 0 .. Len(mapped) :
            w[n] = IF n = 0 THEN <<>>
                   ELSE IF Dec(pp_ref[mapped[n]]) = 0
                        THEN Append(w[n - 1], mapped[n])
                   ELSE w[n - 1]
    <3> HIDE DEF w
    <3> QED
      BY <1>1, <1>2, <1>3, <2>1
  <2>3. w = [n \in 0 .. Len(mapped) |-> w[n]]
    OBVIOUS
  <2> HIDE DEF w
  <2> QED
    BY <2>2, <2>3
<1>5. Freed(mapped) = w[Len(mapped)]
  <2> HIDE DEF w
  <2> QED
    BY <1>4, FreedIs
<1> QED
  BY <1>0, <1>5

\* Pages that were mapped without counting are not.
LEMMA NoneFreed ==
    ASSUME NEW mapped \in Seq(Page),
           \A n \in 1 .. Len(mapped) : pp_ref[mapped[n]] = 0
    PROVE  Freed(mapped) = <<>>
<1> DEFINE w == [n \in 0 .. Len(mapped) |-> <<>>]
<1>0. Len(mapped) \in Nat
  OBVIOUS
<1>1. \A n \in 1 .. Len(mapped) : Dec(pp_ref[mapped[n]]) # 0
  BY Constants DEF Dec
<1>2. w = [n \in 0 .. Len(mapped) |->
              IF n = 0 THEN <<>>
              ELSE IF Dec(pp_ref[mapped[n]]) = 0
                   THEN Append(w[n - 1], mapped[n])
              ELSE w[n - 1]]
  <2>1. \A n \in 0 .. Len(mapped) :
            n # 0 => n \in 1 .. Len(mapped) /\ n - 1 \in 0 .. Len(mapped)
    BY <1>0
  <2> QED
    BY <1>1, <2>1
<1>3. Freed(mapped) = w[Len(mapped)]
  <2> HIDE DEF w
  <2> QED
    BY <1>2, FreedIs
<1> QED
  BY <1>0, <1>3

----------------------------------------------------------------------------
\* The places, kind by kind.
LEMMA PlaceKinds ==
    ASSUME NEW top, NEW u
    PROVE  u \in Places(top) <=>
               \/ \E i \in Full(pmm_stack, top) : u = <<"free", 0, i>>
               \/ \E i \in DOMAIN heap_map : u = <<"heap", 0, i>>
               \/ \E p \in Pids : \E i \in DOMAIN stack_map[p] :
                      u = <<"stack", p, i>>
               \/ \E t \in DOMAIN tables : u = <<"table", 0, t>>
               \/ page # NoPage /\ u = <<"shell", 0, 0>>
  BY DEF Places, Full

\* The places of the next state.
LEMMA NextKinds ==
    ASSUME NEW u
    PROVE  u \in Places(Top)' <=>
               \/ \E i \in Full(pmm_stack', Top') : u = <<"free", 0, i>>
               \/ \E i \in DOMAIN heap_map' : u = <<"heap", 0, i>>
               \/ \E p \in Pids : \E i \in DOMAIN stack_map'[p] :
                      u = <<"stack", p, i>>
               \/ \E t \in DOMAIN tables' : u = <<"table", 0, t>>
               \/ page' # NoPage /\ u = <<"shell", 0, 0>>
<1>1. NoPage' = NoPage
  BY DEF NoPage
<1> QED
  BY <1>1 DEF Places, Full

\* The page at each kind of place.
LEMMA PagesThere ==
    /\ \A i : PageAt(<<"free", 0, i>>) = pmm_stack[i]
    /\ \A i : PageAt(<<"heap", 0, i>>) = heap_map[i]
    /\ \A p, i : PageAt(<<"stack", p, i>>) = stack_map[p][i]
    /\ \A t : PageAt(<<"table", 0, t>>) = tables[t]
    /\ PageAt(<<"shell", 0, 0>>) = page
  BY DEF PageAt

\* What does not change with the state.
LEMMA Static ==
    Page' = Page /\ Refs' = Refs /\ NoPage' = NoPage /\ NULL' = NULL
  BY DEF Page, Refs, NoPage, NULL

\* UseInv survives when every place of the next state has its page from a
\* place of this one, no two from the same, every place that is lost leaves
\* a page that wrapped, and no other reference counts change.
LEMMA Moves ==
    ASSUME UseInv, NEW Old, NEW New, NEW From,
           Old = Places(Top), New = Places(Top)', From \in [New -> Old],
           \A u, v \in New : From[u] = From[v] => u = v,
           \A u \in New : PageAt(u)' = PageAt(From[u]),
           \A v \in Old : \/ \E u \in New : From[u] = v
                          \/ pp_ref'[PageAt(v)] = Refs - 1,
           \A p \in Page : \/ pp_ref'[p] = pp_ref[p]
                           \/ \E v \in Old : PageAt(v) = p,
           \A u \in New :
               /\ u[1] \in {"heap", "shell"} => pp_ref'[PageAt(From[u])] = 0
               /\ u[1] = "stack" => pp_ref'[PageAt(From[u])] = 1
    PROVE  UseInv'
<1>1. \A u \in New : PageAt(u)' \in Page \ {0}
  BY DEF UseInv
<1>2. \A u, v \in New : PageAt(u)' = PageAt(v)' => u = v
  BY DEF UseInv
<1>3. \A u \in New :
          /\ u[1] \in {"heap", "shell"} => pp_ref'[PageAt(u)'] = 0
          /\ u[1] = "stack" => pp_ref'[PageAt(u)'] = 1
  OBVIOUS
<1>4. ASSUME NEW p \in Page \ {0}, ~ \E u \in New : PageAt(u)' = p
      PROVE  pp_ref'[p] = Refs - 1
  <2>1. CASE \E v \in Old : PageAt(v) = p
    BY <1>4, <2>1
  <2>2. CASE ~ \E v \in Old : PageAt(v) = p
    BY <2>2 DEF UseInv
  <2> QED
    BY <2>1, <2>2
<1>5. Page' = Page /\ Refs' = Refs
  BY DEF Page, Refs
<1> QED
  BY <1>1, <1>2, <1>3, <1>4, <1>5 DEF UseInv

\* Numbers that PageTypes says are numbers.
LEMMA TypeFacts ==
    ASSUME PageTypes
    PROVE  /\ pmm_stack_top \in Nat /\ pmm_stack_top <= MAX_PAGE_NUM
           /\ reg \in Nat /\ Len(heap_map) \in Nat
           /\ DOMAIN heap_map = 1 .. Len(heap_map)
<1>1. /\ pmm_stack_top \in 0 .. MAX_PAGE_NUM
      /\ reg \in 0 .. MAX_PAGE_NUM
      /\ heap_map \in Seq(Page)
  BY DEF PageTypes
<1> QED
  BY <1>1, Constants

\* What k calls that return pop off the free stack, and what they leave; a
\* call that fails leaves nothing.
LEMMA LeftFacts ==
    ASSUME PageTypes, \A i \in 2 .. pmm_stack_top : pmm_stack[i] # NoPage,
           NEW k \in Nat, k <= Left, NEW top,
           top = pmm_stack_top - k \/ (k = Left /\ top = 0)
    PROVE  /\ \A i \in 1 .. k :
                  pmm_stack_top + 1 - i \in Full(pmm_stack, pmm_stack_top)
           /\ \A i : i \in Full(pmm_stack, top) <=>
                  i \in Full(pmm_stack, pmm_stack_top) /\ i <= pmm_stack_top - k
           /\ top \in 0 .. MAX_PAGE_NUM /\ k <= pmm_stack_top
           /\ \A i \in 2 .. top : pmm_stack[i] # NoPage
<1>1. pmm_stack_top \in Nat /\ pmm_stack_top <= MAX_PAGE_NUM
      /\ MAX_PAGE_NUM \in Nat
  BY TypeFacts, Constants
<1>2. CASE pmm_stack_top # 0 /\ pmm_stack[1] = NoPage
  <2>1. Left = pmm_stack_top - 1
    BY <1>2 DEF Left
  <2>2. \A i \in 1 .. k : pmm_stack_top + 1 - i \in 2 .. pmm_stack_top
    BY <1>1, <2>1
  <2>3. top = pmm_stack_top - k \/ (k = pmm_stack_top - 1 /\ top = 0)
    BY <2>1
  <2>4. \A i : i \in 1 .. pmm_stack_top <=> i = 1 \/ i \in 2 .. pmm_stack_top
    BY <1>1, <1>2
  <2>5. \A i \in 2 .. pmm_stack_top :
            i \in 1 .. top <=> i <= pmm_stack_top - k
    BY <1>1, <1>2, <2>1, <2>3
  <2>6. \A i \in 1 .. top : i \in 1 .. pmm_stack_top
    BY <1>1, <1>2, <2>1, <2>3
  <2>7. \A i : i \in Full(pmm_stack, pmm_stack_top) <=>
                   i \in 2 .. pmm_stack_top
    BY <1>2, <2>4 DEF Full
  <2>8. \A i : i \in Full(pmm_stack, top) <=>
                   i \in 2 .. pmm_stack_top /\ i \in 1 .. top
    BY <1>2, <2>4, <2>6 DEF Full
  <2>9. top \in 0 .. MAX_PAGE_NUM /\ k <= pmm_stack_top
        /\ \A i \in 2 .. top : i \in 2 .. pmm_stack_top
    BY <1>1, <1>2, <2>1, <2>3
  <2> QED
    BY <2>2, <2>5, <2>7, <2>8, <2>9
<1>3. CASE ~(pmm_stack_top # 0 /\ pmm_stack[1] = NoPage)
  <2>1. Left = pmm_stack_top
    BY <1>3 DEF Left
  <2>2. top = pmm_stack_top - k /\ k <= pmm_stack_top
    BY <1>1, <2>1
  <2>3. \A i \in 1 .. pmm_stack_top : i = 1 \/ i \in 2 .. pmm_stack_top
    BY <1>1
  <2>4. 1 \in 1 .. pmm_stack_top => pmm_stack_top # 0
    BY <1>1
  <2>5. \A i \in 1 .. pmm_stack_top : pmm_stack[i] # NoPage
    BY <1>3, <2>3, <2>4
  <2>6. /\ \A i \in 1 .. k : pmm_stack_top + 1 - i \in 1 .. pmm_stack_top
        /\ \A i : i \in 1 .. top <=>
                      i \in 1 .. pmm_stack_top /\ i <= pmm_stack_top - k
        /\ top \in 0 .. MAX_PAGE_NUM
        /\ \A i \in 2 .. top : i \in 2 .. pmm_stack_top
    BY <1>1, <2>2
  <2> QED
    BY <2>2, <2>5, <2>6 DEF Full
<1> QED
  BY <1>2, <1>3

\* The pages on top of the free stack.
LEMMA PoppedAre ==
    ASSUME PageTypes, NEW k \in Nat,
           \A i \in 1 .. k :
               pmm_stack_top + 1 - i \in Full(pmm_stack, pmm_stack_top)
    PROVE  /\ Popped(k) \in Seq(Page) /\ Len(Popped(k)) = k
           /\ \A i \in 1 .. k :
                  /\ Popped(k)[i] = pmm_stack[pmm_stack_top + 1 - i]
                  /\ Popped(k)[i] \in Page
           /\ \A p : p \in ToSet(Popped(k)) <=>
                  \E i \in 1 .. k : p = pmm_stack[pmm_stack_top + 1 - i]
<1>1. pmm_stack_top \in Nat /\ pmm_stack_top <= MAX_PAGE_NUM
      /\ MAX_PAGE_NUM \in Nat
  BY TypeFacts, Constants
<1>2. \A i \in Full(pmm_stack, pmm_stack_top) : pmm_stack[i] \in Page
  <2>1. \A i \in 1 .. pmm_stack_top : i \in 0 .. MAX_PAGE_NUM
    BY <1>1
  <2> QED
    BY <2>1 DEF PageTypes, Full
<1>3. Popped(k) = [i \in 1 .. k |-> pmm_stack[pmm_stack_top + 1 - i]]
  BY DEF Popped
<1>4. Popped(k) \in Seq(Page) /\ Len(Popped(k)) = k
  BY <1>2, <1>3
<1>5. \A i \in 1 .. k : Popped(k)[i] = pmm_stack[pmm_stack_top + 1 - i]
  BY <1>3
<1>6. \A p : p \in ToSet(Popped(k)) <=>
                 \E i \in 1 .. k : p = pmm_stack[pmm_stack_top + 1 - i]
  BY <1>3 DEF ToSet
<1> QED
  BY <1>2, <1>4, <1>5, <1>6

\* The heap grows by k pages, whether or not there was a call too many.
LEMMA GrowPages ==
    ASSUME PageInv, NEW k \in Nat, k <= Left,
           pc \notin {"store", "read"}, Zeroed_refs(k), pmm_stack' = pmm_stack,
           \/ pmm_stack_top' = pmm_stack_top - k
           \/ k = Left /\ pmm_stack_top' = 0,
           heap_map' = heap_map \o Popped(k),
           UNCHANGED <<shellVars, stack_map>>
    PROVE  PageInv' /\ Len(heap_map') = Len(heap_map) + k
<1> DEFINE Old == Places(Top)
           New == Places(Top)'
           n == Len(heap_map)
           From == [u \in New |->
                       IF u[1] = "heap" /\ u[3] > n
                       THEN <<"free", 0, pmm_stack_top + 1 - (u[3] - n)>>
                       ELSE u]
<1>0. /\ PageTypes /\ PopInv /\ LoadInv /\ UseInv
      /\ Top = pmm_stack_top /\ Top' = pmm_stack_top'
      /\ pmm_stack_top \in Nat /\ n \in Nat /\ pmm_stack_top <= MAX_PAGE_NUM
      /\ pmm_stack' = pmm_stack
      /\ UNCHANGED <<pc, pid, reg, want, page, started, tables, stack_map>>
  BY TypeFacts DEF PageInv, Top, shellVars
<1>01. /\ \A i \in 1 .. k :
              pmm_stack_top + 1 - i \in Full(pmm_stack, pmm_stack_top)
       /\ \A i : i \in Full(pmm_stack, Top') <=>
              i \in Full(pmm_stack, pmm_stack_top) /\ i <= pmm_stack_top - k
       /\ Top' \in 0 .. MAX_PAGE_NUM /\ k <= pmm_stack_top
       /\ \A i \in 2 .. Top' : pmm_stack[i] # NoPage
  BY <1>0, LeftFacts DEF PopInv
<1>02. \A i \in Full(pmm_stack, pmm_stack_top) : i \in 1 .. pmm_stack_top
  BY DEF Full
<1>1. \A i \in Full(pmm_stack, pmm_stack_top) :
          /\ <<"free", 0, i>> \in Old
          /\ pmm_stack[i] \in Page
  <2>1. \A i \in Full(pmm_stack, pmm_stack_top) : <<"free", 0, i>> \in Old
    BY <1>0, PlaceKinds
  <2> HIDE DEF Old
  <2>2. \A u \in Old : PageAt(u) \in Page
    BY <1>0 DEF UseInv, Old
  <2> QED
    BY <2>1, <2>2, PagesThere
<1>2. /\ Popped(k) \in Seq(Page) /\ Len(Popped(k)) = k
      /\ \A i \in 1 .. k :
             /\ pmm_stack_top + 1 - i \in Full(pmm_stack, pmm_stack_top)
             /\ Popped(k)[i] = pmm_stack[pmm_stack_top + 1 - i]
      /\ \A p : p \in ToSet(Popped(k)) <=>
             \E i \in 1 .. k : p = pmm_stack[pmm_stack_top + 1 - i]
  BY <1>0, <1>01, <1>1, PoppedAre
<1>3. /\ heap_map' \in Seq(Page) /\ DOMAIN heap_map' = 1 .. n + k
      /\ DOMAIN heap_map = 1 .. n
      /\ \A i \in 1 .. n : heap_map'[i] = heap_map[i]
      /\ \A i \in n + 1 .. n + k : heap_map'[i] = Popped(k)[i - n]
  <2>1. heap_map \in Seq(Page) /\ DOMAIN heap_map = 1 .. n
    BY <1>0 DEF PageTypes
  <2> QED
    BY <1>0, <1>2, <2>1
<1>4. \A i \in n + 1 .. n + k :
          /\ pmm_stack_top + 1 - (i - n) \in Full(pmm_stack, pmm_stack_top)
          /\ heap_map'[i] = pmm_stack[pmm_stack_top + 1 - (i - n)]
  <2>1. \A i \in n + 1 .. n + k : i - n \in 1 .. k
    BY <1>0
  <2> QED
    BY <1>2, <1>3, <2>1
<1>00. UNCHANGED <<page, tables, stack_map>>
  BY <1>0
\* The places there are then.
<1>5. ASSUME NEW u \in New
      PROVE  \/ /\ u \in Old /\ From[u] = u /\ PageAt(u)' = PageAt(u)
                /\ u[1] = "free" => u[3] \in 1 .. pmm_stack_top - k
                /\ u[1] = "heap" => u[3] \in 1 .. n
             \/ \E i \in n + 1 .. n + k :
                    /\ u = <<"heap", 0, i>>
                    /\ From[u] = <<"free", 0, pmm_stack_top + 1 - (i - n)>>
                    /\ From[u] \in Old
                    /\ PageAt(u)' = PageAt(From[u])
  <2>0. \/ \E i \in Full(pmm_stack', Top') : u = <<"free", 0, i>>
        \/ \E i \in DOMAIN heap_map' : u = <<"heap", 0, i>>
        \/ \E p \in Pids : \E i \in DOMAIN stack_map[p] :
               u = <<"stack", p, i>>
        \/ \E t \in DOMAIN tables : u = <<"table", 0, t>>
        \/ page # NoPage /\ u = <<"shell", 0, 0>>
    BY <1>00, NextKinds
  <2>1. CASE \E i \in Full(pmm_stack', Top') : u = <<"free", 0, i>>
    <3>1. PICK i \in Full(pmm_stack, Top') : u = <<"free", 0, i>>
      BY <1>0, <2>1
    <3>2. /\ i \in Full(pmm_stack, pmm_stack_top)
          /\ i \in 1 .. pmm_stack_top - k
      BY <1>0, <1>01, <1>02, <3>1
    <3>3. u \in Old
      BY <1>1, <3>1, <3>2
    <3> QED
      BY <1>0, <3>1, <3>2, <3>3 DEF PageAt
  <2>2. CASE \E i \in DOMAIN heap_map' : u = <<"heap", 0, i>>
    <3>1. PICK i \in 1 .. n + k : u = <<"heap", 0, i>>
      BY <1>3, <2>2
    <3>2. CASE i <= n
      <4>1. i \in 1 .. n
        BY <1>0, <3>1, <3>2
      <4>4. u \in Old
        BY <1>3, <3>1, <4>1, PlaceKinds
      <4>2. PageAt(u)' = heap_map'[i] /\ PageAt(u) = heap_map[i]
        BY <3>1 DEF PageAt
      <4>3. From[u] = u
        BY <1>0, <3>1, <3>2
      <4> QED
        BY <1>3, <3>1, <4>1, <4>2, <4>3, <4>4
    <3>3. CASE i > n
      <4>1. i \in n + 1 .. n + k
        BY <1>0, <3>1, <3>3
      <4>2. From[u] = <<"free", 0, pmm_stack_top + 1 - (i - n)>>
        BY <3>1, <3>3
      <4>3. PageAt(u)' = heap_map'[i]
        BY <3>1 DEF PageAt
      <4> QED
        BY <1>1, <1>4, <3>1, <4>1, <4>2, <4>3, PagesThere
    <3>4. i <= n \/ i > n
      BY <1>0
    <3> QED
      BY <3>2, <3>3, <3>4
  <2>3. CASE \E p \in Pids : \E i \in DOMAIN stack_map[p] :
                 u = <<"stack", p, i>>
    BY <1>0, <2>3, PlaceKinds DEF PageAt
  <2>4. CASE \E t \in DOMAIN tables : u = <<"table", 0, t>>
    BY <1>0, <2>4, PlaceKinds DEF PageAt
  <2>5. CASE page # NoPage /\ u = <<"shell", 0, 0>>
    BY <1>0, <2>5, PlaceKinds DEF PageAt
  <2> QED
    BY <2>0, <2>1, <2>2, <2>3, <2>4, <2>5
\* What stays where it was is not among the popped pages.
<1>6. ASSUME NEW u \in Old, u[1] # "free" \/ u[3] \in 1 .. pmm_stack_top - k
      PROVE  PageAt(u) \in Page /\ pp_ref'[PageAt(u)] = pp_ref[PageAt(u)]
  <2>1. PageAt(u) \in Page
    BY <1>0 DEF UseInv
  <2>2. ASSUME NEW i \in 1 .. k,
               PageAt(u) = pmm_stack[pmm_stack_top + 1 - i]
        PROVE  FALSE
    <3>1. u = <<"free", 0, pmm_stack_top + 1 - i>>
      <4>1. /\ <<"free", 0, pmm_stack_top + 1 - i>> \in Old
            /\ PageAt(<<"free", 0, pmm_stack_top + 1 - i>>) = PageAt(u)
        BY <1>1, <1>2, <2>2, PagesThere
      <4> QED
        BY <1>0, <4>1 DEF UseInv
    <3> QED
      BY <1>0, <1>6, <3>1
  <2> QED
    BY <1>2, <2>1, <2>2 DEF Zeroed_refs
<1>7. \A i \in n + 1 .. n + k :
          LET p == PageAt(<<"free", 0, pmm_stack_top + 1 - (i - n)>>)
          IN  p \in Page /\ pp_ref'[p] = 0
  <2> TAKE i \in n + 1 .. n + k
  <2>1. i - n \in 1 .. k
    BY <1>0
  <2>2. PICK j : j = pmm_stack_top + 1 - (i - n)
    OBVIOUS
  <2>3. /\ j \in Full(pmm_stack, pmm_stack_top) /\ pmm_stack[j] \in Page
        /\ pmm_stack[j] \in ToSet(Popped(k))
    BY <1>1, <1>2, <2>1, <2>2
  <2>4. PageAt(<<"free", 0, j>>) = pmm_stack[j]
    BY PagesThere
  <2>5. pp_ref'[pmm_stack[j]] = 0
    BY <2>3 DEF Zeroed_refs
  <2> QED
    BY <2>2, <2>3, <2>4, <2>5
<1> HIDE DEF From, New, Old
<1>8. From \in [New -> Old]
  BY <1>5 DEF From
<1>9. \A u, v \in New : From[u] = From[v] => u = v
  <2> DEFINE Kept(u) == /\ From[u] = u
                        /\ u[1] = "free" => u[3] \in 1 .. pmm_stack_top - k
             Takes(u, i) == /\ u = <<"heap", 0, i>>
                           /\ From[u] =
                                <<"free", 0, pmm_stack_top + 1 - (i - n)>>
             Taken(u) == \E i \in n + 1 .. n + k : Takes(u, i)
  <2>1. \A u \in New : Kept(u) \/ Taken(u)
    BY <1>5
  <2>2. ASSUME NEW u, NEW v, Kept(u), Taken(v), From[u] = From[v]
        PROVE  FALSE
    <3>1. PICK i \in n + 1 .. n + k : Takes(v, i)
      BY <2>2
    <3>2. u = <<"free", 0, pmm_stack_top + 1 - (i - n)>>
      BY <2>2, <3>1
    <3>3. pmm_stack_top + 1 - (i - n) \notin 1 .. pmm_stack_top - k
      BY <1>0
    <3> QED
      BY <2>2, <3>2, <3>3
  <2>3. ASSUME NEW u, NEW v, Taken(u), Taken(v), From[u] = From[v]
        PROVE  u = v
    <3>1. PICK i \in n + 1 .. n + k : Takes(u, i)
      BY <2>3
    <3>2. PICK j \in n + 1 .. n + k : Takes(v, j)
      BY <2>3
    <3>3. <<"free", 0, pmm_stack_top + 1 - (i - n)>>
              = <<"free", 0, pmm_stack_top + 1 - (j - n)>>
      BY <2>3, <3>1, <3>2
    <3>4. pmm_stack_top + 1 - (i - n) = pmm_stack_top + 1 - (j - n)
      BY <3>3
    <3>5. i = j
      BY <1>0, <3>4
    <3> QED
      BY <3>1, <3>2, <3>5
  <2>4. \A u, v : Kept(u) /\ Kept(v) /\ From[u] = From[v] => u = v
    OBVIOUS
  <2> HIDE DEF Kept, Taken
  <2> QED
    BY <2>1, <2>2, <2>3, <2>4
<1>10. \A u \in New : PageAt(u)' = PageAt(From[u])
  BY <1>5
<1>11. \A v \in Old : \E u \in New : From[u] = v
  <2> SUFFICES ASSUME NEW v \in Old PROVE \E u \in New : From[u] = v
    OBVIOUS
  <2>1. CASE \E i \in Full(pmm_stack, pmm_stack_top) : v = <<"free", 0, i>>
    <3>1. PICK i \in Full(pmm_stack, pmm_stack_top) : v = <<"free", 0, i>>
      BY <2>1
    <3>2. CASE i <= pmm_stack_top - k
      <4>1. v \in New
        BY <1>0, <1>01, <3>1, <3>2, NextKinds DEF New
      <4>2. From[v] = v
        BY <3>1, <4>1 DEF From
      <4> QED
        BY <4>1, <4>2
    <3>3. CASE i > pmm_stack_top - k
      <4> DEFINE j == n + pmm_stack_top + 1 - i
      <4>1. j \in n + 1 .. n + k /\ pmm_stack_top + 1 - (j - n) = i
        BY <1>0, <1>02, <3>1, <3>3
      <4>2. <<"heap", 0, j>> \in New
        <5>1. j \in DOMAIN heap_map'
          BY <1>0, <1>3, <4>1
        <5> HIDE DEF j
        <5> QED
          BY <5>1 DEF Places, New
      <4>3. From[<<"heap", 0, j>>] = v
        <5>1. j > n
          BY <1>0, <4>1
        <5> HIDE DEF j
        <5> QED
          BY <3>1, <4>1, <4>2, <5>1 DEF From
      <4> HIDE DEF j
      <4> QED
        BY <4>2, <4>3
    <3> QED
      BY <1>0, <1>02, <3>1, <3>2, <3>3
  <2>2. CASE \E i \in DOMAIN heap_map : v = <<"heap", 0, i>>
    <3>1. PICK i \in 1 .. n : v = <<"heap", 0, i>>
      BY <1>3, <2>2
    <3>2. i \in 1 .. n + k /\ ~(i > n)
      BY <1>0
    <3>3. v \in New
      BY <1>3, <3>1, <3>2 DEF Places, New
    <3> QED
      BY <3>1, <3>2, <3>3 DEF From
  <2>3. CASE \/ \E p \in Pids : \E i \in DOMAIN stack_map[p] :
                    v = <<"stack", p, i>>
             \/ \E t \in DOMAIN tables : v = <<"table", 0, t>>
             \/ page # NoPage /\ v = <<"shell", 0, 0>>
    <3>1. v \in New
      <4>1. CASE \E p \in Pids : \E i \in DOMAIN stack_map[p] :
                     v = <<"stack", p, i>>
        BY <1>00, <4>1, NextKinds DEF New
      <4>2. CASE \E t \in DOMAIN tables : v = <<"table", 0, t>>
        BY <1>00, <4>2, NextKinds DEF New
      <4>3. CASE page # NoPage /\ v = <<"shell", 0, 0>>
        BY <1>00, <4>3, NextKinds DEF New
      <4> QED
        BY <2>3, <4>1, <4>2, <4>3
    <3>2. v[1] # "heap"
      BY <2>3
    <3> QED
      BY <3>1, <3>2 DEF From
  <2> QED
    BY <1>0, <2>1, <2>2, <2>3, PlaceKinds DEF Old
<1>12. \A p \in Page : \/ pp_ref'[p] = pp_ref[p]
                       \/ \E v \in Old : PageAt(v) = p
  <2> TAKE p \in Page
  <2>1. CASE p \in ToSet(Popped(k))
    <3>1. PICK i \in 1 .. k : p = pmm_stack[pmm_stack_top + 1 - i]
      BY <1>2, <2>1
    <3> QED
      BY <1>1, <1>2, <3>1, PagesThere
  <2>2. CASE p \notin ToSet(Popped(k))
    BY <2>2 DEF Zeroed_refs
  <2> QED
    BY <2>1, <2>2
<1>13. \A u \in New :
           /\ u[1] \in {"heap", "shell"} => pp_ref'[PageAt(From[u])] = 0
           /\ u[1] = "stack" => pp_ref'[PageAt(From[u])] = 1
  <2> SUFFICES ASSUME NEW u \in New
               PROVE  /\ u[1] \in {"heap", "shell"} =>
                             pp_ref'[PageAt(From[u])] = 0
                      /\ u[1] = "stack" => pp_ref'[PageAt(From[u])] = 1
    OBVIOUS
  <2>1. CASE u \in Old /\ From[u] = u
             /\ (u[1] = "free" => u[3] \in 1 .. pmm_stack_top - k)
    BY <1>0, <1>6, <2>1 DEF UseInv, Old
  <2>2. CASE \E i \in n + 1 .. n + k :
                 /\ u = <<"heap", 0, i>>
                 /\ From[u] = <<"free", 0, pmm_stack_top + 1 - (i - n)>>
    BY <1>7, <2>2
  <2> QED
    BY <1>5, <2>1, <2>2
<1>14. UseInv'
  BY <1>0, <1>8, <1>9, <1>10, <1>11, <1>12, <1>13, Moves DEF Old, New
<1>15. PageTypes'
  <2>1. pp_ref' \in [Page -> 0 .. Refs - 1]
    <3>1. pp_ref \in [Page -> 0 .. Refs - 1] /\ 0 \in 0 .. Refs - 1
      BY <1>0, RefsZero DEF PageTypes
    <3> QED
      BY <3>1 DEF Zeroed_refs
  <2>2. Page' = Page /\ Refs' = Refs
    BY DEF Page, Refs
  <2>3. pmm_stack_top' \in 0 .. MAX_PAGE_NUM
    BY <1>0, <1>01
  <2> QED
    BY <1>0, <1>3, <2>1, <2>2, <2>3 DEF PageTypes
<1>16. PopInv'
  BY <1>0, <1>01, Static DEF PopInv
<1>17. LoadInv'
  BY <1>0 DEF LoadInv, Table
<1>18. Len(heap_map') = n + k
  <2>1. \A s, t \in Seq(Page) : Len(s \o t) = Len(s) + Len(t)
    OBVIOUS
  <2>2. heap_map \in Seq(Page) /\ Popped(k) \in Seq(Page)
    BY <1>0, <1>2 DEF PageTypes
  <2>3. Len(heap_map \o Popped(k)) = n + k
    BY <1>2, <2>1, <2>2
  <2> QED
    BY <2>3
<1> QED
  BY <1>14, <1>15, <1>16, <1>17, <1>18 DEF PageInv

\* Nothing about the pages and their places changes.
LEMMA SamePlaces ==
    ASSUME UseInv, Top' = Top,
           UNCHANGED <<pmm_stack, pp_ref, heap_map, stack_map, tables, page>>
    PROVE  UseInv'
<1>1. Places(Top)' = Places(Top)
  BY DEF Places, NoPage
<1>2. \A u : PageAt(u)' = PageAt(u)
  BY DEF PageAt
<1>3. Page' = Page /\ Refs' = Refs
  BY DEF Page, Refs
<1> QED
  BY <1>1, <1>2, <1>3 DEF UseInv

\* What a page_remove() loop over the pages behind position keep meets.
LEMMA Backwards ==
    ASSUME NEW s \in Seq(Page), NEW keep \in 0 .. Len(s)
    PROVE  LET r == Reverse(SubSeq(s, keep + 1, Len(s)))
           IN  /\ r \in Seq(Page) /\ Len(r) = Len(s) - keep
               /\ \A i \in 1 .. Len(r) :
                      /\ Len(s) + 1 - i \in keep + 1 .. Len(s)
                      /\ r[i] = s[Len(s) + 1 - i]
               /\ \A p : p \in ToSet(r) <=>
                             \E i \in keep + 1 .. Len(s) : p = s[i]
<1> DEFINE m == Len(s) - keep
           t == SubSeq(s, keep + 1, Len(s))
           r == Reverse(t)
<1>1. /\ m \in Nat /\ Len(t) = m /\ t \in Seq(Page) /\ Len(s) \in Nat
      /\ \A i \in 1 .. m : t[i] = s[keep + i]
  OBVIOUS
<1>2. r = [i \in 1 .. m |-> t[m - i + 1]]
  BY <1>1 DEF Reverse
<1>3. \A i \in 1 .. m : m - i + 1 \in 1 .. m /\ r[i] = s[Len(s) + 1 - i]
  BY <1>1, <1>2
<1>4. \A i \in 1 .. m : r[i] \in Page
  BY <1>1, <1>2, <1>3
<1>5. r \in Seq(Page) /\ Len(r) = m /\ DOMAIN r = 1 .. m
  <2> HIDE DEF m, t
  <2> QED
    BY <1>1, <1>2, <1>4
<1>6. /\ \A i \in 1 .. m : Len(s) + 1 - i \in keep + 1 .. Len(s)
      /\ \A i \in keep + 1 .. Len(s) :
             Len(s) + 1 - i \in 1 .. m /\ i = Len(s) + 1 - (Len(s) + 1 - i)
  BY <1>1
<1>7. \A p : p \in ToSet(r) <=> \E i \in keep + 1 .. Len(s) : p = s[i]
  <2>1. \A p : p \in ToSet(r) <=> \E i \in 1 .. m : p = r[i]
    <3> HIDE DEF r, m
    <3> QED
      BY <1>5 DEF ToSet
  <2>2. \A i \in keep + 1 .. Len(s) : \E j \in 1 .. m : s[i] = r[j]
    <3> TAKE i \in keep + 1 .. Len(s)
    <3>1. Len(s) + 1 - i \in 1 .. m /\ r[Len(s) + 1 - i] = s[i]
      <4> HIDE DEF r, m
      <4> QED
        BY <1>3, <1>6
    <3> HIDE DEF r, m
    <3> QED
      BY <3>1
  <2>3. \A i \in 1 .. m : \E j \in keep + 1 .. Len(s) : r[i] = s[j]
    <3> HIDE DEF r, m
    <3> QED
      BY <1>3, <1>6
  <2>4. ASSUME NEW p, p \in ToSet(r)
        PROVE  \E i \in keep + 1 .. Len(s) : p = s[i]
    <3> HIDE DEF r, m
    <3> QED
      BY <2>1, <2>3, <2>4
  <2>5. ASSUME NEW p, NEW i \in keep + 1 .. Len(s), p = s[i]
        PROVE  p \in ToSet(r)
    <3> HIDE DEF r, m
    <3> QED
      BY <2>1, <2>2, <2>5
  <2> HIDE DEF r
  <2> QED
    BY <2>4, <2>5
<1> HIDE DEF r, m
<1> QED
  BY <1>3, <1>5, <1>6, <1>7 DEF r, m

\* The heap gives back the pages behind position keep.
LEMMA ShrinkPages ==
    ASSUME PageInv, NEW keep \in 0 .. Len(heap_map),
           pc \notin {"store", "read"},
           heap_map' = SubSeq(heap_map, 1, keep),
           page_remove(Reverse(SubSeq(heap_map, keep + 1, Len(heap_map)))),
           UNCHANGED <<shellVars, stack_map>>
    PROVE  PageInv'
<1> DEFINE Old == Places(Top)
           New == Places(Top)'
           n == Len(heap_map)
           mapped == Reverse(SubSeq(heap_map, keep + 1, n))
           From == [u \in New |-> u]
<1>1. /\ PageTypes /\ PopInv /\ LoadInv /\ UseInv
      /\ Top = pmm_stack_top /\ Top' = pmm_stack_top'
      /\ UNCHANGED <<pc, pid, reg, want, page, started, tables, stack_map>>
  BY DEF PageInv, Top, shellVars
<1>2. /\ heap_map \in Seq(Page) /\ n \in Nat
      /\ DOMAIN heap_map = 1 .. n /\ pmm_stack_top \in Nat
  <2>1. heap_map \in Seq(Page)
    BY <1>1, Zenon DEF PageTypes
  <2> QED
    BY <1>1, <2>1, TypeFacts
<1>3. /\ mapped \in Seq(Page) /\ Len(mapped) = n - keep
      /\ \A i \in 1 .. Len(mapped) :
             /\ n + 1 - i \in keep + 1 .. n
             /\ mapped[i] = heap_map[n + 1 - i]
      /\ \A p : p \in ToSet(mapped) <=>
                    \E i \in keep + 1 .. n : p = heap_map[i]
  BY <1>2, Backwards
<1> HIDE DEF mapped
<1>4. \A i \in 1 .. n :
          /\ <<"heap", 0, i>> \in Old
          /\ heap_map[i] \in Page /\ pp_ref[heap_map[i]] = 0
  <2> SUFFICES ASSUME NEW i \in 1 .. n
               PROVE  /\ <<"heap", 0, i>> \in Old
                      /\ heap_map[i] \in Page /\ pp_ref[heap_map[i]] = 0
    OBVIOUS
  <2>1. <<"heap", 0, i>> \in Old
    BY <1>2, PlaceKinds
  <2> QED
    BY <1>1, <1>2, <2>1, PagesThere DEF UseInv
<1>5. Freed(mapped) = <<>>
  <2>1. \A i \in 1 .. Len(mapped) : n + 1 - i \in 1 .. n
    BY <1>2, <1>3
  <2>2. ASSUME NEW i \in 1 .. Len(mapped) PROVE pp_ref[mapped[i]] = 0
    <3>1. PICK j \in 1 .. n : j = n + 1 - i
      BY <2>1
    <3>2. mapped[i] = heap_map[j]
      BY <1>3, <3>1
    <3> QED
      BY <1>4, <3>2
  <2> QED
    BY <1>3, <2>2, NoneFreed
<1>6. /\ pmm_stack_top' = pmm_stack_top
      /\ pmm_stack' = pmm_stack
      /\ pp_ref' = [p \in Page |-> IF p \in ToSet(mapped)
                                   THEN Dec(pp_ref[p]) ELSE pp_ref[p]]
  <2>1. pmm_stack_top' = pmm_stack_top + 0
    BY <1>5 DEF page_remove, mapped
  <2>2. pmm_stack_top' = pmm_stack_top
    BY <1>2, <2>1
  <2>3. \A i : i \notin pmm_stack_top + 1 .. pmm_stack_top'
    BY <1>2, <2>2
  <2>4. pmm_stack' = [i \in DOMAIN pmm_stack |-> pmm_stack[i]]
    BY <2>3 DEF page_remove
  <2>5. pmm_stack = [i \in DOMAIN pmm_stack |-> pmm_stack[i]]
    BY <1>1 DEF PageTypes
  <2> QED
    BY <2>2, <2>4, <2>5 DEF page_remove, mapped
<1>7. /\ heap_map' \in Seq(Page) /\ DOMAIN heap_map' = 1 .. keep
      /\ \A i \in 1 .. keep : heap_map'[i] = heap_map[i] /\ i \in 1 .. n
  BY <1>2
<1>8. \A p \in Page : Dec(pp_ref[p]) \in 0 .. Refs - 1
  BY <1>1, DecFacts DEF PageTypes
<1>9. ASSUME NEW u \in New
      PROVE  /\ u \in Old /\ PageAt(u)' = PageAt(u)
             /\ u[1] = "heap" => u[3] \in 1 .. keep
  <2>1. CASE \E i \in Full(pmm_stack', Top') : u = <<"free", 0, i>>
    BY <1>1, <1>6, <2>1, PlaceKinds DEF PageAt
  <2>2. CASE \E i \in DOMAIN heap_map' : u = <<"heap", 0, i>>
    BY <1>2, <1>7, <2>2, PlaceKinds DEF PageAt
  <2>3. CASE \E p \in Pids : \E i \in DOMAIN stack_map'[p] :
                 u = <<"stack", p, i>>
    BY <1>1, <2>3, PlaceKinds DEF PageAt
  <2>4. CASE \E t \in DOMAIN tables' : u = <<"table", 0, t>>
    BY <1>1, <2>4, PlaceKinds DEF PageAt
  <2>5. CASE page' # NoPage /\ u = <<"shell", 0, 0>>
    BY <1>1, <2>5, PlaceKinds DEF PageAt
  <2> QED
    BY <2>1, <2>2, <2>3, <2>4, <2>5, NextKinds
\* The pages that are given back are not found anywhere else.
<1>10. ASSUME NEW u \in Old, u[1] = "heap" => u[3] \in 1 .. keep
       PROVE  PageAt(u) \in Page /\ pp_ref'[PageAt(u)] = pp_ref[PageAt(u)]
  <2>1. PageAt(u) \in Page
    BY <1>1 DEF UseInv
  <2>2. ASSUME NEW i \in keep + 1 .. n, PageAt(u) = heap_map[i]
        PROVE  FALSE
    <3>1. i \in 1 .. n /\ i \notin 1 .. keep
      BY <1>2
    <3>2. PICK v : v = <<"heap", 0, i>>
      OBVIOUS
    <3>3. v \in Old /\ PageAt(v) = PageAt(u)
      BY <1>4, <2>2, <3>1, <3>2, PagesThere
    <3>4. u = v
      BY <1>1, <3>3 DEF UseInv
    <3> QED
      BY <1>10, <3>1, <3>2, <3>4
  <2>3. PageAt(u) \notin ToSet(mapped)
    BY <1>3, <2>2
  <2> QED
    BY <1>6, <2>1, <2>3
<1>11. ASSUME NEW v \in Old
       PROVE  \/ v \in New
              \/ pp_ref'[PageAt(v)] = Refs - 1
  <2>1. CASE \E i \in Full(pmm_stack, Top) : v = <<"free", 0, i>>
    BY <1>1, <1>6, <2>1, NextKinds
  <2>2. CASE \E i \in DOMAIN heap_map : v = <<"heap", 0, i>>
    <3>1. PICK i \in 1 .. n : v = <<"heap", 0, i>>
      BY <1>2, <2>2
    <3>2. CASE i <= keep
      <4>1. i \in DOMAIN heap_map'
        BY <1>7, <3>2
      <4> QED
        BY <3>1, <4>1, NextKinds
    <3>3. CASE i > keep
      <4>1. i \in keep + 1 .. n
        BY <1>2, <3>3
      <4>2. heap_map[i] \in ToSet(mapped)
        BY <1>3, <4>1
      <4>3. pp_ref'[heap_map[i]] = Dec(0)
        BY <1>4, <1>6, <4>2
      <4>4. Dec(0) = Refs - 1
        BY DecFacts
      <4> QED
        BY <3>1, <4>3, <4>4, PagesThere
    <3>4. i <= keep \/ i > keep
      BY <1>2
    <3> QED
      BY <3>2, <3>3, <3>4
  <2>3. CASE \E p \in Pids : \E i \in DOMAIN stack_map[p] :
                 v = <<"stack", p, i>>
    BY <1>1, <2>3, NextKinds
  <2>4. CASE \E t \in DOMAIN tables : v = <<"table", 0, t>>
    BY <1>1, <2>4, NextKinds
  <2>5. CASE page # NoPage /\ v = <<"shell", 0, 0>>
    BY <1>1, <2>5, NextKinds
  <2> QED
    BY <2>1, <2>2, <2>3, <2>4, <2>5, PlaceKinds
<1> HIDE DEF Old, New
<1>12. From \in [New -> Old] /\ \A u \in New : From[u] = u
  BY <1>9
<1> HIDE DEF From
<1>13. \A p \in Page : \/ pp_ref'[p] = pp_ref[p]
                       \/ \E v \in Old : PageAt(v) = p
  <2> TAKE p \in Page
  <2>1. CASE p \in ToSet(mapped)
    <3>1. PICK i \in keep + 1 .. n : p = heap_map[i]
      BY <1>3, <2>1
    <3>2. i \in 1 .. n
      BY <1>2
    <3> QED
      BY <1>4, <3>1, <3>2, PagesThere
  <2>2. CASE p \notin ToSet(mapped)
    BY <1>6, <2>2
  <2> QED
    BY <2>1, <2>2
<1>14. \A u \in New :
           /\ u[1] \in {"heap", "shell"} => pp_ref'[PageAt(From[u])] = 0
           /\ u[1] = "stack" => pp_ref'[PageAt(From[u])] = 1
  <2>1. \A u \in New : u \in Old /\ pp_ref'[PageAt(u)] = pp_ref[PageAt(u)]
    BY <1>9, <1>10
  <2> QED
    BY <1>1, <1>12, <2>1 DEF UseInv, Old
<1>15. UseInv'
  <2>1. \A u, v \in New : From[u] = From[v] => u = v
    BY <1>12
  <2>2. \A u \in New : PageAt(u)' = PageAt(From[u])
    BY <1>9, <1>12
  <2>3. \A v \in Old : \/ \E u \in New : From[u] = v
                       \/ pp_ref'[PageAt(v)] = Refs - 1
    BY <1>11, <1>12
  <2> QED
    BY <1>1, <1>12, <1>13, <1>14, <2>1, <2>2, <2>3, Moves DEF Old, New
<1>16. PageTypes'
  <2>1. pp_ref' \in [Page -> 0 .. Refs - 1]
    <3>1. pp_ref \in [Page -> 0 .. Refs - 1]
      BY <1>1 DEF PageTypes
    <3> QED
      BY <1>6, <1>8, <3>1
  <2>2. Page' = Page /\ Refs' = Refs
    BY DEF Page, Refs
  <2> QED
    BY <1>1, <1>6, <1>7, <2>1, <2>2 DEF PageTypes
<1>17. PopInv'
  BY <1>1, <1>6 DEF PopInv
<1>18. LoadInv'
  BY <1>1 DEF LoadInv, Table
<1> QED
  BY <1>15, <1>16, <1>17, <1>18 DEF PageInv

\* One page goes from one place to another.
LEMMA OneMoves ==
    ASSUME UseInv, NEW Old, NEW New, NEW v \in Old, NEW w, w \notin Old,
           Old = Places(Top), New = Places(Top)',
           New = (Old \ {v}) \cup {w},
           \A u \in Old \ {v} : PageAt(u)' = PageAt(u),
           PageAt(w)' = PageAt(v),
           \A p \in Page : p # PageAt(v) => pp_ref'[p] = pp_ref[p],
           w[1] \in {"heap", "shell"} => pp_ref'[PageAt(v)] = 0,
           w[1] = "stack" => pp_ref'[PageAt(v)] = 1
    PROVE  UseInv'
<1> DEFINE From == [u \in New |-> IF u = w THEN v ELSE u]
<1>1. From \in [New -> Old] /\ From[w] = v /\ w \in New
  OBVIOUS
<1>2. \A u \in New : u # w => From[u] = u /\ u \in Old /\ u # v
  OBVIOUS
<1>3. \A u \in Old : u # v => u \in New /\ u # w /\ From[u] = u
  OBVIOUS
<1> HIDE DEF From
<1>4. \A u \in Old : u # v =>
          PageAt(u) # PageAt(v) /\ pp_ref'[PageAt(u)] = pp_ref[PageAt(u)]
  BY DEF UseInv
<1>5. \A a, b \in New : From[a] = From[b] => a = b
  BY <1>1, <1>2
<1>6. \A u \in New : PageAt(u)' = PageAt(From[u])
  BY <1>1, <1>2
<1>7. \A u \in Old : \E a \in New : From[a] = u
  BY <1>1, <1>3
<1>8. \A p \in Page : \/ pp_ref'[p] = pp_ref[p]
                      \/ \E u \in Old : PageAt(u) = p
  OBVIOUS
<1>9. \A u \in New :
          /\ u[1] \in {"heap", "shell"} => pp_ref'[PageAt(From[u])] = 0
          /\ u[1] = "stack" => pp_ref'[PageAt(From[u])] = 1
  BY <1>1, <1>2, <1>4 DEF UseInv
<1> QED
  BY <1>1, <1>5, <1>6, <1>7, <1>8, <1>9, Moves

----------------------------------------------------------------------------
\* The shell starts on a stack.
LEMMA LaunchPages == ASSUME PageInv, Launch PROVE PageInv'
<1>1. /\ PageTypes /\ PopInv /\ LoadInv /\ UseInv
      /\ pc = "ready" /\ pc' = "load" /\ want' = "stack"
      /\ UNCHANGED <<pmm_stack, pmm_stack_top, pp_ref, heap_map, reg, page,
                     tables, stack_map>>
  BY DEF PageInv, Launch, pageVars, heapVars
<1>2. PICK p \in Pids \ started :
          pid' = p /\ started' = started \cup {p}
  BY DEF Launch
<1>3. UseInv'
  BY <1>1, SamePlaces DEF Top
<1>4. PageTypes'
  BY <1>1, <1>2, Static DEF PageTypes, Loading
<1>5. PopInv'
  BY <1>1, Static DEF PopInv, Top
<1>6. stack_map[p] = <<>> /\ Len(stack_map[p]) < StackPages
  <2>1. stack_map[p] = <<>>
    BY <1>1, <1>2 DEF LoadInv
  <2>2. Len(<<>>) = 0 /\ 0 < StackPages
    BY Constants
  <2> QED
    BY <2>1, <2>2
<1>7. LoadInv'
  BY <1>1, <1>2, <1>6 DEF LoadInv, Loading, NoPage
<1> QED
  BY <1>3, <1>4, <1>5, <1>7 DEF PageInv

\* It reads the top of the free stack.
LEMMA PopLoadPages == ASSUME PageInv, PopLoad PROVE PageInv'
<1>1. /\ PageTypes /\ PopInv /\ LoadInv /\ UseInv
      /\ pc = "load" /\ pmm_stack_top # 0 /\ pc' = "store"
      /\ reg' = pmm_stack_top
      /\ UNCHANGED <<pmm_stack, pmm_stack_top, pp_ref, heap_map, pid, want,
                     page, started, tables, stack_map>>
  BY DEF PageInv, PopLoad, pageVars, heapVars
<1>2. Top = pmm_stack_top /\ Top' = pmm_stack_top
  BY <1>1 DEF Top
<1>3. UseInv'
  BY <1>1, <1>2, SamePlaces
<1>4. PageTypes'
  BY <1>1, Static DEF PageTypes, Loading
<1>5. PopInv'
  BY <1>1, <1>2 DEF PopInv, NoPage
<1>6. LoadInv'
  BY <1>1 DEF LoadInv, Loading, NoPage, Table
<1> QED
  BY <1>3, <1>4, <1>5, <1>6 DEF PageInv

\* It stores the new top.
LEMMA PopStorePages == ASSUME PageInv, PopStore PROVE PageInv'
<1>1. /\ PageTypes /\ PopInv /\ LoadInv /\ UseInv
      /\ pc = "store" /\ pc' = "read" /\ pmm_stack_top' = reg - 1
      /\ UNCHANGED <<pmm_stack, reg, pp_ref, heap_map, pid, want,
                     page, started, tables, stack_map>>
  BY DEF PageInv, PopStore, heapVars
<1>2. Top = pmm_stack_top /\ Top' = reg /\ reg = pmm_stack_top /\ reg >= 1
  BY <1>1, TypeFacts DEF Top, PopInv
<1>3. UseInv'
  BY <1>1, <1>2, SamePlaces
<1>4. pmm_stack_top' \in 0 .. MAX_PAGE_NUM
  BY <1>1, <1>2, TypeFacts, Constants
<1>5. PageTypes'
  BY <1>1, <1>4, Static DEF PageTypes, Loading
<1>6. PopInv'
  BY <1>1, <1>2 DEF PopInv, NoPage
<1>7. LoadInv'
  BY <1>1 DEF LoadInv, Loading, NoPage, Table
<1> QED
  BY <1>3, <1>5, <1>6, <1>7 DEF PageInv

\* It reads the page there, for the stack or for a page table.
LEMMA PopReadPages == ASSUME PageInv, PopRead PROVE PageInv'
<1> DEFINE p == pmm_stack[reg]
           v == <<"free", 0, reg>>
<1>1. /\ PageTypes /\ PopInv /\ LoadInv /\ UseInv
      /\ pc = "read" /\ p # NoPage
      /\ pp_ref' = [pp_ref EXCEPT ![p] = 0]
      /\ UNCHANGED <<pmm_stack, pmm_stack_top, heap_map, pid, reg, started,
                     stack_map>>
  BY DEF PageInv, PopRead, heapVars, Zeroed
<1>2. /\ \/ pc' = "load" /\ want' = "table" /\ want = "stack"
            /\ Table(pid) \notin DOMAIN tables
         \/ pc' = "insert" /\ want' = "stack"
      /\ \/ want = "stack" /\ page' = p /\ UNCHANGED tables
         \/ want = "table" /\ tables' = Written(tables, Table(pid), p)
            /\ UNCHANGED page
  BY <1>1 DEF PopRead, PageTypes
<1>3. /\ Top = reg /\ Top' = reg - 1 /\ pmm_stack_top = reg - 1
      /\ reg >= 1 /\ reg \in Nat /\ reg <= MAX_PAGE_NUM
  <2>1. Top = reg /\ pmm_stack_top = reg - 1 /\ pmm_stack_top \in Nat
    BY <1>1, TypeFacts DEF Top, PopInv
  <2>2. pc' # "read"
    BY <1>2
  <2>3. reg \in Nat /\ reg \in 0 .. MAX_PAGE_NUM
    BY <1>1, TypeFacts DEF PageTypes
  <2> QED
    BY <1>1, <2>1, <2>2, <2>3, Constants DEF Top
<1>4. v \in Places(Top) /\ PageAt(v) = p /\ p \in Page
  <2>1. v \in Places(Top)
    BY <1>1, <1>3, PlaceKinds DEF Full
  <2> QED
    BY <1>1, <2>1, PagesThere DEF UseInv
<1>5. /\ \A i : i \in Full(pmm_stack', Top') <=>
                     i \in Full(pmm_stack, Top) /\ i # reg
      /\ \A q \in Page : q # p => pp_ref'[q] = pp_ref[q]
      /\ pp_ref'[p] = 0
  <2>0. \A i : i \in 1 .. Top' <=> i \in 1 .. Top /\ i # reg
    BY <1>3
  <2>1. \A i : i \in Full(pmm_stack', Top') <=>
                   i \in Full(pmm_stack, Top) /\ i # reg
    BY <1>1, <2>0 DEF Full
  <2> QED
    BY <1>1, <1>4, <2>1 DEF PageTypes
<1> HIDE DEF p
<1>6. CASE want = "stack"
  <2> DEFINE w == <<"shell", 0, 0>>
  <2>1. page = NoPage /\ page' = p /\ UNCHANGED tables
    BY <1>1, <1>2, <1>6 DEF LoadInv
  <2>2. w \notin Places(Top)
    BY <2>1, PlaceKinds
  <2>3. \A u : u \in Places(Top)' <=> u \in (Places(Top) \ {v}) \cup {w}
    <3> TAKE u
    <3>1. u \in Places(Top)' <=>
              \/ \E i \in Full(pmm_stack, Top) : i # reg /\ u = <<"free", 0, i>>
              \/ \E i \in DOMAIN heap_map : u = <<"heap", 0, i>>
              \/ \E q \in Pids : \E i \in DOMAIN stack_map[q] :
                     u = <<"stack", q, i>>
              \/ \E t \in DOMAIN tables : u = <<"table", 0, t>>
              \/ u = w
      BY <1>1, <1>5, <2>1, NextKinds
    <3>2. u \in Places(Top) <=>
              \/ \E i \in Full(pmm_stack, Top) : u = <<"free", 0, i>>
              \/ \E i \in DOMAIN heap_map : u = <<"heap", 0, i>>
              \/ \E q \in Pids : \E i \in DOMAIN stack_map[q] :
                     u = <<"stack", q, i>>
              \/ \E t \in DOMAIN tables : u = <<"table", 0, t>>
      BY <2>1, PlaceKinds
    <3> QED
      BY <3>1, <3>2
  <2>4. \A u \in Places(Top) \ {v} : PageAt(u)' = PageAt(u)
    BY <1>1, <2>1, PlaceKinds DEF PageAt
  <2>5. PageAt(w)' = p
    BY <2>1 DEF PageAt
  <2>6. PICK Old : Old = Places(Top)
    OBVIOUS
  <2>7. PICK New : New = Places(Top)'
    OBVIOUS
  <2>8. New = (Old \ {v}) \cup {w}
    BY <2>3, <2>6, <2>7
  <2> QED
    <3>1. UseInv'
      BY <1>1, <1>4, <1>5, <2>2, <2>4, <2>5, <2>6, <2>7, <2>8, OneMoves
    <3>2. PageTypes'
      <4>1. pp_ref' \in [Page -> 0 .. Refs - 1]
        BY <1>1, RefsZero DEF PageTypes
      <4> QED
        BY <1>1, <1>2, <1>4, <2>1, <4>1, Static DEF PageTypes, Loading
    <3>3. PopInv'
      BY <1>1, <1>2, <1>3, Static DEF PopInv
    <3>4. LoadInv'
      BY <1>1, <1>2, <2>1 DEF LoadInv, Loading, NoPage, Table
    <3> QED
      BY <3>1, <3>2, <3>3, <3>4 DEF PageInv
<1>7. CASE want = "table"
  <2> DEFINE w == <<"table", 0, Table(pid)>>
  <2>1. /\ tables' = Written(tables, Table(pid), p) /\ UNCHANGED page
        /\ Table(pid) \notin DOMAIN tables
        /\ page # NoPage /\ pc' = "insert" /\ want' = "stack"
    BY <1>1, <1>2, <1>7 DEF LoadInv
  <2>2. /\ DOMAIN tables' = DOMAIN tables \cup {Table(pid)}
        /\ tables'[Table(pid)] = p
        /\ \A t \in DOMAIN tables : tables'[t] = tables[t]
    BY <2>1 DEF Written
  <2>3. w \notin Places(Top)
    BY <2>1, PlaceKinds
  <2>4. \A u : u \in Places(Top)' <=> u \in (Places(Top) \ {v}) \cup {w}
    <3> TAKE u
    <3>1. u \in Places(Top)' <=>
              \/ \E i \in Full(pmm_stack, Top) : i # reg /\ u = <<"free", 0, i>>
              \/ \E i \in DOMAIN heap_map : u = <<"heap", 0, i>>
              \/ \E q \in Pids : \E i \in DOMAIN stack_map[q] :
                     u = <<"stack", q, i>>
              \/ \E t \in DOMAIN tables : u = <<"table", 0, t>>
              \/ u = w
              \/ u = <<"shell", 0, 0>>
      BY <1>1, <1>5, <2>1, <2>2, NextKinds
    <3>2. u \in Places(Top) <=>
              \/ \E i \in Full(pmm_stack, Top) : u = <<"free", 0, i>>
              \/ \E i \in DOMAIN heap_map : u = <<"heap", 0, i>>
              \/ \E q \in Pids : \E i \in DOMAIN stack_map[q] :
                     u = <<"stack", q, i>>
              \/ \E t \in DOMAIN tables : u = <<"table", 0, t>>
              \/ u = <<"shell", 0, 0>>
      BY <2>1, PlaceKinds
    <3> QED
      BY <3>1, <3>2
  <2>5. \A u \in Places(Top) \ {v} : PageAt(u)' = PageAt(u)
    BY <1>1, <2>1, <2>2, PlaceKinds DEF PageAt
  <2>6. PageAt(w)' = p
    <3>1. \A t : PageAt(<<"table", 0, t>>)' = tables'[t]
      BY DEF PageAt
    <3>2. Table(pid)' = Table(pid)
      BY <1>1 DEF Table
    <3> QED
      BY <2>2, <3>1, <3>2
  <2>7. PICK Old : Old = Places(Top)
    OBVIOUS
  <2>8. PICK New : New = Places(Top)'
    OBVIOUS
  <2>9. New = (Old \ {v}) \cup {w}
    BY <2>4, <2>7, <2>8
  <2> QED
    <3>1. UseInv'
      BY <1>1, <1>4, <1>5, <2>3, <2>5, <2>6, <2>7, <2>8, <2>9, OneMoves
    <3>2. PageTypes'
      <4>1. pp_ref' \in [Page -> 0 .. Refs - 1]
        BY <1>1, RefsZero DEF PageTypes
      <4> QED
        BY <1>1, <1>2, <1>4, <2>1, <4>1, Static DEF PageTypes, Loading
    <3>3. PopInv'
      BY <1>1, <1>2, <1>3, Static DEF PopInv
    <3>4. LoadInv'
      BY <1>1, <1>2, <2>1 DEF LoadInv, Loading, NoPage, Table
    <3> QED
      BY <3>1, <3>2, <3>3, <3>4 DEF PageInv
<1> QED
  BY <1>1, <1>6, <1>7 DEF PageTypes

\* There is no page to read, or none on the stack.
LEMMA PopFailsPages ==
    ASSUME PageInv, PopFails \/ PopPanics
    PROVE  PageInv'
<1>1. /\ PageTypes /\ PopInv /\ LoadInv /\ UseInv
      /\ \/ pc = "read" /\ pmm_stack[reg] = NoPage
         \/ pc = "load"
      /\ pc' = "fault"
      /\ UNCHANGED <<pmm_stack, pmm_stack_top, reg, pp_ref, heap_map, pid,
                     want, page, started, tables, stack_map>>
  BY DEF PageInv, PopFails, PopPanics, pageVars, heapVars
<1>2. Top' = pmm_stack_top /\ pmm_stack_top \in Nat
  BY <1>1, TypeFacts DEF Top
<1>3. Full(pmm_stack', Top') = Full(pmm_stack, Top)
  <2>1. CASE pc = "read"
    <3>1. Top = reg /\ reg = pmm_stack_top + 1 /\ pmm_stack[reg] = NoPage
      BY <1>1, <2>1, TypeFacts DEF Top, PopInv
    <3>2. \A i : i \in 1 .. Top <=> i \in 1 .. Top' \/ i = reg
      BY <1>2, <3>1
    <3> QED
      BY <1>1, <3>1, <3>2 DEF Full
  <2>2. CASE pc = "load"
    BY <1>1, <1>2, <2>2 DEF Full, Top
  <2> QED
    BY <1>1, <2>1, <2>2
<1>4. /\ \A i \in 2 .. Top' : i \in 2 .. Top
      /\ \A u : u \in Places(Top)' <=> u \in Places(Top)
  <2>1. \A i \in 2 .. Top' : i \in 2 .. Top
    BY <1>1, <1>2, TypeFacts DEF Top, PopInv
  <2>2. \A u : u \in Places(Top)' <=> u \in Places(Top)
    BY <1>1, <1>3, PlaceKinds, NextKinds
  <2> QED
    BY <2>1, <2>2
<1>5. Places(Top)' = Places(Top)
  BY <1>4
<1>6. \A u : PageAt(u)' = PageAt(u)
  BY <1>1 DEF PageAt
<1>7. UseInv'
  BY <1>1, <1>5, <1>6, Static DEF UseInv
<1>8. PageTypes'
  BY <1>1, Static DEF PageTypes, Loading
<1>9. PopInv'
  BY <1>1, <1>4, Static DEF PopInv
<1>10. LoadInv'
  BY <1>1, Static DEF LoadInv, Loading, Table
<1> QED
  BY <1>7, <1>8, <1>9, <1>10 DEF PageInv

\* A malloc() that runs out of pages leaves those there were in the heap.
LEMMA MallocFailsPages ==
    ASSUME PageInv, NEW size, MallocFails(size), PopAtomic
    PROVE  PageInv' /\ Len(heap_map') = Len(heap_map) + Left
<1>1. /\ pc \notin {"store", "read"} /\ Zeroed_refs(Left)
      /\ pmm_stack' = pmm_stack /\ pmm_stack_top' = 0
      /\ heap_map' = heap_map \o Popped(Left)
      /\ UNCHANGED <<shellVars, stack_map>>
  BY DEF MallocFails, Interruptible, kmalloc_fails, pmm_alloc_fails
<1>2. Left \in Nat /\ Left <= Left
  BY TypeFacts DEF PageInv, Left
<1> QED
  BY <1>1, <1>2, GrowPages

\* The page is mapped in the stack.
LEMMA InsertPages == ASSUME PageInv, Insert PROVE PageInv'
<1>0. PICK k, n : k = pid /\ n = Len(stack_map[pid])
  OBVIOUS
<1> DEFINE v == <<"shell", 0, 0>>
           w == <<"stack", k, n + 1>>
<1>1. /\ PageTypes /\ PopInv /\ LoadInv /\ UseInv
      /\ pc = "insert" /\ page' = NoPage /\ page # NoPage /\ want = "stack"
      /\ pp_ref' = [pp_ref EXCEPT ![page] = (pp_ref[page] + 1) % Refs]
      /\ stack_map' = [stack_map EXCEPT ![pid] = Append(stack_map[pid], page)]
      /\ pc' = IF Len(stack_map'[pid]) = StackPages THEN "ready" ELSE "load"
      /\ UNCHANGED <<pmm_stack, pmm_stack_top, heap_map, pid, reg, want,
                     started, tables>>
  BY DEF PageInv, Insert, heapVars, LoadInv
<1>2. /\ pid \in started /\ pid \in Pids /\ n < StackPages /\ n \in Nat
      /\ stack_map[pid] \in Seq(Page) /\ DOMAIN stack_map[pid] = 1 .. n
      /\ DOMAIN stack_map = Pids /\ stack_map \in [Pids -> Seq(Page)]
      /\ k = pid /\ pid' = pid
  <2>1. pid \in started /\ pid \in Pids /\ n < StackPages
        /\ stack_map \in [Pids -> Seq(Page)]
    BY <1>0, <1>1 DEF LoadInv, Loading, PageTypes
  <2>2. stack_map[pid] \in Seq(Page)
    BY <2>1
  <2> QED
    BY <1>0, <1>1, <2>1, <2>2
<1>3. v \in Places(Top) /\ PageAt(v) = page /\ page \in Page
      /\ pp_ref[page] = 0
  <2>1. v \in Places(Top)
    BY <1>1, PlaceKinds
  <2> QED
    BY <1>1, <2>1, PagesThere DEF UseInv
<1>4. pp_ref' = [pp_ref EXCEPT ![page] = 1]
  BY <1>1, <1>3, DecFacts
<1>5. /\ stack_map'[pid] = Append(stack_map[pid], page)
      /\ \A p \in Pids : p # pid => stack_map'[p] = stack_map[p]
      /\ stack_map' \in [Pids -> Seq(Page)]
  <2>1. Append(stack_map[pid], page) \in Seq(Page)
    BY <1>2, <1>3
  <2> QED
    BY <1>1, <1>2, <2>1
<1>6. /\ DOMAIN stack_map'[pid] = 1 .. n + 1 /\ Len(stack_map'[pid]) = n + 1
      /\ stack_map'[pid][n + 1] = page
      /\ \A i \in 1 .. n : stack_map'[pid][i] = stack_map[pid][i]
  BY <1>0, <1>2, <1>3, <1>5
<1>7. Top' = Top
  BY <1>1 DEF Top
<1>8. w \notin Places(Top)
  <2>1. n + 1 \notin 1 .. n
    BY <1>2
  <2> QED
    BY <1>2, <2>1, PlaceKinds
<1>9. \A u : (\E p \in Pids : \E i \in DOMAIN stack_map'[p] :
                  u = <<"stack", p, i>>)
             <=> \/ \E p \in Pids : \E i \in DOMAIN stack_map[p] :
                        u = <<"stack", p, i>>
                 \/ u = w
  <2>1. \A i : i \in 1 .. n + 1 <=> i \in 1 .. n \/ i = n + 1
    BY <1>2
  <2> QED
    BY <1>2, <1>5, <1>6, <2>1
<1>10. \A u : u \in Places(Top)' <=> u \in (Places(Top) \ {v}) \cup {w}
  <2> TAKE u
  <2>1. u \in Places(Top)' <=>
            \/ \E i \in Full(pmm_stack, Top) : u = <<"free", 0, i>>
            \/ \E i \in DOMAIN heap_map : u = <<"heap", 0, i>>
            \/ \E q \in Pids : \E i \in DOMAIN stack_map[q] :
                   u = <<"stack", q, i>>
            \/ \E t \in DOMAIN tables : u = <<"table", 0, t>>
            \/ u = w
    BY <1>1, <1>7, <1>9, Static, NextKinds
  <2>2. u \in Places(Top) <=>
            \/ \E i \in Full(pmm_stack, Top) : u = <<"free", 0, i>>
            \/ \E i \in DOMAIN heap_map : u = <<"heap", 0, i>>
            \/ \E q \in Pids : \E i \in DOMAIN stack_map[q] :
                   u = <<"stack", q, i>>
            \/ \E t \in DOMAIN tables : u = <<"table", 0, t>>
            \/ u = v
    BY <1>1, PlaceKinds
  <2> QED
    BY <2>1, <2>2
<1>11. ASSUME NEW u \in Places(Top) \ {v}
       PROVE  PageAt(u)' = PageAt(u)
  <2>1. CASE \E p \in Pids : \E i \in DOMAIN stack_map[p] :
                 u = <<"stack", p, i>>
    <3>1. PICK p \in Pids : \E i \in DOMAIN stack_map[p] :
              u = <<"stack", p, i>>
      BY <2>1
    <3>2. PICK i \in DOMAIN stack_map[p] : u = <<"stack", p, i>>
      BY <3>1
    <3>3. PageAt(u)' = stack_map'[p][i] /\ PageAt(u) = stack_map[p][i]
      BY <3>2 DEF PageAt
    <3> QED
      BY <1>2, <1>5, <1>6, <3>2, <3>3
  <2>2. CASE ~ \E p \in Pids : \E i \in DOMAIN stack_map[p] :
                   u = <<"stack", p, i>>
    BY <1>1, <2>2, PlaceKinds DEF PageAt
  <2> QED
    BY <2>1, <2>2
<1>12. PageAt(w)' = page
  <2>1. \A p, i : PageAt(<<"stack", p, i>>)' = stack_map'[p][i]
    BY DEF PageAt
  <2>2. PageAt(w)' = stack_map'[k][n + 1]
    BY <2>1
  <2> QED
    BY <1>2, <1>6, <2>2
<1>13. UseInv'
  <2>1. PICK Old : Old = Places(Top)
    OBVIOUS
  <2>2. PICK New : New = Places(Top)'
    OBVIOUS
  <2>3. New = (Old \ {v}) \cup {w}
    BY <1>10, <2>1, <2>2
  <2>4. /\ \A p \in Page : p # page => pp_ref'[p] = pp_ref[p]
        /\ pp_ref'[page] = 1
    BY <1>1, <1>3, <1>4 DEF PageTypes
  <2> QED
    <3>1. w[1] = "stack" /\ w \notin Old /\ v \in Old
      BY <1>3, <1>8, <2>1
    <3>2. PageAt(w)' = PageAt(v) /\ pp_ref'[PageAt(v)] = 1
      BY <1>3, <1>12, <2>4
    <3>3. \A u \in Old \ {v} : PageAt(u)' = PageAt(u)
      BY <1>11, <2>1
    <3>4. \A p \in Page : p # PageAt(v) => pp_ref'[p] = pp_ref[p]
      BY <1>3, <2>4
    <3>5. PICK x, y : x = v /\ y = w
      OBVIOUS
    <3> HIDE DEF v, w
    <3>6. /\ UseInv /\ x \in Old /\ y \notin Old
          /\ New = (Old \ {x}) \cup {y}
          /\ PageAt(y)' = PageAt(x)
          /\ y[1] = "stack" => pp_ref'[PageAt(x)] = 1
      BY <1>1, <2>3, <3>1, <3>2, <3>5
    <3>7. /\ \A u \in Old \ {x} : PageAt(u)' = PageAt(u)
          /\ \A p \in Page : p # PageAt(x) => pp_ref'[p] = pp_ref[p]
          /\ y[1] \in {"heap", "shell"} => pp_ref'[PageAt(x)] = 0
      BY <3>1, <3>3, <3>4, <3>5
    <3> QED
      BY <2>1, <2>2, <3>6, <3>7, OneMoves
<1>14. PageTypes'
  <2>1. pp_ref' \in [Page -> 0 .. Refs - 1]
    BY <1>1, <1>4, RefsZero DEF PageTypes
  <2> QED
    BY <1>1, <1>5, <2>1, Static DEF PageTypes, Loading
<1>15. PopInv'
  BY <1>1, <1>7, Static DEF PopInv
<1>16. LoadInv'
  <2>1. pc' = "load" => n + 1 < StackPages
    BY <1>1, <1>2, <1>6, Constants
  <2>2. pc' \in Loading => Len(stack_map'[pid]) < StackPages
    BY <1>1, <1>6, <2>1 DEF Loading
  <2>3. \A p \in Pids \ started : stack_map'[p] = <<>>
    BY <1>1, <1>2, <1>5 DEF LoadInv
  <2> QED
    BY <1>1, <1>2, <2>2, <2>3, Static DEF LoadInv, Table
<1> QED
  BY <1>13, <1>14, <1>15, <1>16 DEF PageInv

\* There is room on the free stack for the pages of a stack: together they
\* are different pages, none of them page 0.
LEMMA RoomFor ==
    ASSUME PageInv, NEW p \in Pids, pc # "read"
    PROVE  pmm_stack_top + Len(stack_map[p]) <= MAX_PAGE_NUM
<1>0. PICK m : m = IF pmm_stack_top = 0 THEN 0 ELSE pmm_stack_top - 1
  OBVIOUS
<1> DEFINE k == Len(stack_map[p])
           S == 1 .. m + k
           T == 1 .. MAX_PAGE_NUM - 1
           place(i) == IF i <= m THEN <<"free", 0, i + 1>>
                       ELSE <<"stack", p, i - m>>
           f == [i \in S |-> PageAt(place(i))]
<1>1. /\ UseInv /\ Top = pmm_stack_top /\ pmm_stack_top \in Nat
      /\ m \in Nat /\ pmm_stack_top <= m + 1
      /\ \A i \in 1 .. m : i + 1 \in 2 .. Top
      /\ stack_map[p] \in Seq(Page)
  BY <1>0, TypeFacts DEF PageInv, Top, PageTypes
<1>2. k \in Nat /\ DOMAIN stack_map[p] = 1 .. k
  BY <1>1
<1>3. ASSUME NEW i \in S
      PROVE  place(i) \in Places(Top)
  <2>1. CASE i <= m
    <3>1. i + 1 \in Full(pmm_stack, Top)
      <4>1. i \in 1 .. m
        BY <1>1, <2>1
      <4>2. i + 1 \in 2 .. Top /\ i + 1 \in 1 .. Top
        BY <1>1, <4>1
      <4> QED
        BY <4>2 DEF Full, PageInv, PopInv
    <3> QED
      BY <2>1, <3>1, PlaceKinds
  <2>2. CASE ~(i <= m)
    <3>1. i - m \in 1 .. k
      BY <1>1, <1>2, <2>2
    <3> QED
      BY <1>2, <2>2, <3>1, PlaceKinds
  <2> QED
    BY <2>1, <2>2
<1>4. ASSUME NEW i \in S, NEW j \in S, place(i) = place(j)
      PROVE  i = j
  <2>1. i \in Int /\ j \in Int
    OBVIOUS
  <2>2. CASE i <= m /\ j <= m
    <3>1. <<"free", 0, i + 1>> = <<"free", 0, j + 1>>
      BY <1>4, <2>2
    <3>2. i + 1 = j + 1
      BY <3>1
    <3> QED
      BY <2>1, <3>2
  <2>3. CASE ~(i <= m) /\ ~(j <= m)
    <3>1. <<"stack", p, i - m>>
              = <<"stack", p, j - m>>
      BY <1>4, <2>3
    <3>2. i - m = j - m
      BY <3>1
    <3> QED
      BY <1>1, <2>1, <3>2
  <2>4. place(i)[1] = place(j)[1]
    BY <1>4
  <2>5. CASE i <= m /\ ~(j <= m)
    BY <2>4, <2>5
  <2>6. CASE ~(i <= m) /\ j <= m
    BY <2>4, <2>6
  <2> QED
    BY <2>2, <2>3, <2>5, <2>6
<1>5. \A q \in Page \ {0} : q \in T
  BY Constants DEF Page
<1> HIDE DEF place
<1>6. f \in [S -> T]
  BY <1>1, <1>3, <1>5 DEF UseInv
<1>7. \A i, j \in S : f[i] = f[j] => i = j
  BY <1>1, <1>3, <1>4 DEF UseInv
<1>8. f \in Injection(S, T)
  <2> HIDE DEF f, S, T
  <2> QED
    BY <1>6, <1>7 DEF Injection, IsInjective
<1>9. /\ IsFiniteSet(T) /\ Cardinality(T) = MAX_PAGE_NUM - 1
      /\ Cardinality(S) = m + k
  <2>1. \A b \in Nat : IsFiniteSet(1 .. b) /\ Cardinality(1 .. b) = b
    <3> TAKE b \in Nat
    <3>1. /\ IsFiniteSet(1 .. b)
          /\ Cardinality(1 .. b) = IF 1 > b THEN 0 ELSE b - 1 + 1
      BY FS_Interval
    <3> QED
      BY <3>1
  <2>2. MAX_PAGE_NUM - 1 \in Nat /\ m + k \in Nat
    BY <1>1, <1>2, Constants
  <2> HIDE DEF k
  <2> QED
    BY <2>1, <2>2
<1>10. Cardinality(S) <= Cardinality(T)
  <2> HIDE DEF f, S, T
  <2> QED
    BY <1>8, <1>9, FS_Injection
<1> QED
  <2> HIDE DEF S, T
  <2>1. m + k <= MAX_PAGE_NUM - 1
    BY <1>9, <1>10
  <2> QED
    BY <1>1, <1>2, <2>1, Constants

\* A process exits: its stack's pages go back on the free stack.
LEMMA ExitPages ==
    ASSUME PageInv, PopAtomic, NEW p \in Pids, Exit(p)
    PROVE  PageInv'
<1>0. PICK k, t : k = Len(stack_map[p]) /\ t = pmm_stack_top
  OBVIOUS
<1> DEFINE Old == Places(Top)
           New == Places(Top)'
           mapped == stack_map[p]
           From == [u \in New |-> IF u[1] = "free" /\ u[3] > t
                                  THEN <<"stack", p, u[3] - t>> ELSE u]
<1>1. /\ PageTypes /\ PopInv /\ LoadInv /\ UseInv
      /\ pc \notin {"store", "read"}
      /\ k = StackPages /\ page_remove(mapped)
      /\ stack_map' = [stack_map EXCEPT ![p] = <<>>]
      /\ UNCHANGED <<heap_map, pc, pid, reg, want, page, started, tables>>
  BY <1>0 DEF PageInv, Exit, Interruptible, heapVars, shellVars
<1>2. /\ Top = t /\ t \in Nat /\ k \in Nat \ {0}
      /\ t + k <= MAX_PAGE_NUM /\ MAX_PAGE_NUM \in Nat
      /\ mapped \in Seq(Page) /\ DOMAIN mapped = 1 .. k /\ Len(mapped) = k
      /\ stack_map \in [Pids -> Seq(Page)]
  <2>1. Top = t /\ t \in Nat
    BY <1>0, <1>1, TypeFacts DEF PopInv, Top
  <2>2. t + k <= MAX_PAGE_NUM
    BY <1>0, <1>1, RoomFor
  <2>3. stack_map \in [Pids -> Seq(Page)]
    BY <1>1 DEF PageTypes
  <2>4. mapped \in Seq(Page)
    BY <2>3
  <2>5. k \in Nat \ {0} /\ MAX_PAGE_NUM \in Nat
    BY <1>1, Constants
  <2> QED
    BY <1>0, <2>1, <2>2, <2>3, <2>4, <2>5
<1>3. ASSUME NEW i \in 1 .. k
      PROVE  /\ <<"stack", p, i>> \in Old
             /\ mapped[i] \in Page /\ pp_ref[mapped[i]] = 1
             /\ PageAt(<<"stack", p, i>>) = mapped[i]
  <2>1. <<"stack", p, i>> \in Old
    BY <1>2, PlaceKinds
  <2> QED
    BY <1>1, <1>2, <2>1, PagesThere DEF UseInv
<1>4. Freed(mapped) = mapped
  BY <1>2, <1>3, AllFreed
<1>5. /\ pmm_stack_top' = t + k /\ Top' = t + k
      /\ DOMAIN pmm_stack = 0 .. MAX_PAGE_NUM
      /\ pmm_stack' = [i \in 0 .. MAX_PAGE_NUM |->
                          IF i \in t + 1 .. t + k THEN mapped[i - t]
                          ELSE pmm_stack[i]]
  <2>0. page_remove(mapped) /\ Freed(mapped) = mapped
    BY <1>1, <1>4
  <2>1. /\ pmm_stack_top' = pmm_stack_top + Len(mapped)
        /\ pmm_stack' = [i \in DOMAIN pmm_stack |->
                            IF i \in pmm_stack_top + 1 .. pmm_stack_top'
                            THEN mapped[i - pmm_stack_top]
                            ELSE pmm_stack[i]]
    <3> HIDE DEF mapped
    <3> QED
      BY <2>0 DEF page_remove
  <2>2. Top' = pmm_stack_top'
    BY <1>1 DEF Top
  <2>3. DOMAIN pmm_stack = 0 .. MAX_PAGE_NUM
    BY <1>1 DEF PageTypes
  <2>4. pmm_stack_top' = t + k
    <3>1. Len(mapped) = k /\ t = pmm_stack_top
      BY <1>0
    <3> HIDE DEF mapped
    <3> QED
      BY <2>1, <3>1
  <2>5. t = pmm_stack_top
    BY <1>0
  <2> HIDE DEF mapped
  <2> QED
    BY <2>1, <2>2, <2>3, <2>4, <2>5
<1>6. /\ pp_ref' = [q \in Page |-> IF q \in ToSet(mapped)
                                   THEN Dec(pp_ref[q]) ELSE pp_ref[q]]
      /\ \A q : q \in ToSet(mapped) <=> \E i \in 1 .. k : q = mapped[i]
  BY <1>1, <1>2 DEF page_remove, ToSet
<1>70. /\ \A i \in 1 .. t : /\ i \in 0 .. MAX_PAGE_NUM /\ ~(i > t)
                            /\ i \in 1 .. t + k /\ i \notin t + 1 .. t + k
       /\ \A i \in t + 1 .. t + k :
              /\ i \in 0 .. MAX_PAGE_NUM /\ i > t /\ i \in 1 .. t + k
              /\ i - t \in 1 .. k
       /\ \A i \in 1 .. t + k : i \in 1 .. t \/ i \in t + 1 .. t + k
  BY <1>2
<1>71. /\ \A i \in 1 .. t : pmm_stack'[i] = pmm_stack[i]
       /\ \A i \in t + 1 .. t + k :
              pmm_stack'[i] = mapped[i - t] /\ pmm_stack'[i] # NoPage
  <2>1. NoPage \notin Page
    BY DEF NoPage, Page
  <2> QED
    BY <1>3, <1>5, <1>70, <2>1
<1>72. \A i : i \in Full(pmm_stack', t + k) <=>
                  i \in Full(pmm_stack, t) \/ i \in t + 1 .. t + k
  <2> HIDE DEF mapped
  <2> QED
    BY <1>70, <1>71 DEF Full
<1>7. /\ \A i \in Full(pmm_stack, t) :
             /\ i \in 0 .. MAX_PAGE_NUM /\ ~(i > t) /\ i \in 1 .. t
             /\ i \in Full(pmm_stack', t + k) /\ i \notin t + 1 .. t + k
      /\ \A i \in t + 1 .. t + k :
             /\ i \in 0 .. MAX_PAGE_NUM /\ i > t
             /\ i \in Full(pmm_stack', t + k)
             /\ i - t \in 1 .. k
      /\ \A i \in 1 .. k : t + i \in t + 1 .. t + k /\ t + i - t = i
      /\ \A i \in Full(pmm_stack', t + k) :
             i \in Full(pmm_stack, t) \/ i \in t + 1 .. t + k
  <2>1. \A i \in 1 .. k : t + i \in t + 1 .. t + k /\ t + i - t = i
    BY <1>2
  <2>2. \A i \in Full(pmm_stack, t) : i \in 1 .. t
    BY DEF Full
  <2> HIDE DEF mapped
  <2> QED
    BY <1>70, <1>72, <2>1, <2>2
<1>8. /\ \A i \in Full(pmm_stack, t) : pmm_stack'[i] = pmm_stack[i]
      /\ \A i \in t + 1 .. t + k : pmm_stack'[i] = mapped[i - t]
  BY <1>7, <1>71
<1>9. /\ stack_map' \in [Pids -> Seq(Page)]
      /\ DOMAIN stack_map'[p] = {}
      /\ \A q \in Pids : q # p => stack_map'[q] = stack_map[q]
  BY <1>1, <1>2
<1> DEFINE Kept(u) == /\ u \in Old /\ u \in New /\ From[u] = u
                      /\ ~(u[1] = "stack" /\ u[2] = p)
                      /\ u[1] = "free" => u[3] \in 1 .. t
                      /\ PageAt(u)' = PageAt(u)
           Back(u, i) == /\ u = <<"free", 0, i>> /\ u \in New
                         /\ From[u] = <<"stack", p, i - t>>
                         /\ PageAt(u)' = mapped[i - t]
<1>10. ASSUME NEW i \in t + 1 .. t + k
       PROVE  Back(<<"free", 0, i>>, i)
  <2> DEFINE u == <<"free", 0, i>>
  <2>1. u \in New
    BY <1>5, <1>7, NextKinds
  <2>2. From[u] = <<"stack", p, i - t>>
    BY <1>7, <2>1
  <2>3. PageAt(u)' = pmm_stack'[i]
    BY DEF PageAt
  <2> QED
    BY <1>8, <2>1, <2>2, <2>3
<1>11. ASSUME NEW u \in Old, ~(u[1] = "stack" /\ u[2] = p)
       PROVE  Kept(u)
  <2>1. CASE \E i \in Full(pmm_stack, Top) : u = <<"free", 0, i>>
    <3>1. PICK i \in Full(pmm_stack, t) : u = <<"free", 0, i>>
      BY <1>2, <2>1
    <3>2. u \in New /\ ~(u[3] > t) /\ u[3] \in 1 .. t
      BY <1>5, <1>7, <3>1, NextKinds
    <3>3. PageAt(u)' = pmm_stack'[i] /\ PageAt(u) = pmm_stack[i]
      BY <3>1 DEF PageAt
    <3> QED
      BY <1>8, <3>1, <3>2, <3>3
  <2>2. CASE \E i \in DOMAIN heap_map : u = <<"heap", 0, i>>
    BY <1>1, <2>2, NextKinds DEF PageAt
  <2>3. CASE \E q \in Pids : \E i \in DOMAIN stack_map[q] :
                 u = <<"stack", q, i>>
    <3>1. PICK q \in Pids : \E i \in DOMAIN stack_map[q] :
              u = <<"stack", q, i>>
      BY <2>3
    <3>2. q # p /\ stack_map'[q] = stack_map[q]
      BY <1>9, <1>11, <3>1
    <3>3. u \in New
      BY <3>1, <3>2, NextKinds
    <3> QED
      BY <1>11, <3>1, <3>2, <3>3 DEF PageAt
  <2>4. CASE \E i \in DOMAIN tables : u = <<"table", 0, i>>
    BY <1>1, <2>4, NextKinds DEF PageAt
  <2>5. CASE page # NoPage /\ u = <<"shell", 0, 0>>
    BY <1>1, <2>5, NextKinds, Static DEF PageAt
  <2> QED
    BY <2>1, <2>2, <2>3, <2>4, <2>5, PlaceKinds
<1>12. ASSUME NEW u \in New
       PROVE  Kept(u) \/ \E i \in t + 1 .. t + k : Back(u, i)
  <2>1. CASE \E i \in Full(pmm_stack', Top') : u = <<"free", 0, i>>
    <3>1. PICK i \in Full(pmm_stack', t + k) : u = <<"free", 0, i>>
      BY <1>5, <2>1
    <3>2. CASE i \in t + 1 .. t + k
      BY <1>10, <3>1, <3>2
    <3>3. CASE i \in Full(pmm_stack, t)
      <4>1. u \in Old /\ u[1] # "stack"
        BY <1>2, <3>1, <3>3, PlaceKinds
      <4> HIDE DEF Old, Kept
      <4> QED
        BY <1>11, <4>1
    <3> QED
      BY <1>7, <3>2, <3>3
  <2>2. CASE ~ \E i \in Full(pmm_stack', Top') : u = <<"free", 0, i>>
    <3>1. u \in Old /\ ~(u[1] = "stack" /\ u[2] = p)
      BY <1>1, <1>9, <2>2, NextKinds, PlaceKinds, Static
    <3> HIDE DEF Old, Kept
    <3> QED
      BY <1>11, <3>1
  <2> QED
    BY <2>1, <2>2
<1>13. ASSUME NEW v \in Old, v[1] = "stack", v[2] = p
       PROVE  \E i \in 1 .. k : v = <<"stack", p, i>>
  BY <1>2, <1>13, PlaceKinds
<1>14. \A i \in t + 1 .. t + k : \A u : Back(u, i) =>
           /\ u \in New /\ u = <<"free", 0, i>>
           /\ From[u] = <<"stack", p, i - t>>
           /\ From[u] \in Old /\ PageAt(u)' = PageAt(From[u])
           /\ i - t \in 1 .. k
  BY <1>3, <1>7
<1>15. \A u : Kept(u) => /\ u \in Old /\ u \in New /\ From[u] = u
                         /\ ~(u[1] = "stack" /\ u[2] = p)
                         /\ PageAt(u)' = PageAt(From[u])
  OBVIOUS
<1> HIDE DEF Kept, Back, From, Old, New
<1>16. From \in [New -> Old]
  <2>1. \A u \in New : From[u] \in Old
    BY <1>12, <1>14, <1>15
  <2> QED
    BY <2>1 DEF From
<1>17. \A u \in New : PageAt(u)' = PageAt(From[u])
  BY <1>12, <1>14, <1>15
<1>18. \A u, v \in New : From[u] = From[v] => u = v
  <2>1. ASSUME NEW u, NEW v, NEW i \in t + 1 .. t + k,
               Kept(u), Back(v, i), From[u] = From[v]
        PROVE  FALSE
    BY <1>14, <1>15, <2>1
  <2>2. ASSUME NEW u, NEW v, NEW i \in t + 1 .. t + k,
               NEW j \in t + 1 .. t + k,
               Back(u, i), Back(v, j), From[u] = From[v]
        PROVE  u = v
    <3>1. <<"stack", p, i - t>> = <<"stack", p, j - t>>
      BY <1>14, <2>2
    <3>2. i - t = j - t
      BY <3>1
    <3>3. i = j
      BY <1>2, <3>2
    <3> QED
      BY <1>14, <2>2, <3>3
  <2>3. \A u, v : Kept(u) /\ Kept(v) /\ From[u] = From[v] => u = v
    BY <1>15
  <2> QED
    BY <1>12, <2>1, <2>2, <2>3
<1>19. \A v \in Old : \E u \in New : From[u] = v
  <2> SUFFICES ASSUME NEW v \in Old PROVE \E u \in New : From[u] = v
    OBVIOUS
  <2>1. CASE v[1] = "stack" /\ v[2] = p
    <3>1. PICK i \in 1 .. k : v = <<"stack", p, i>>
      BY <1>13, <2>1
    <3>2. \E j \in t + 1 .. t + k : j - t = i
      <4>1. t + i \in t + 1 .. t + k /\ (t + i) - t = i
        BY <1>2
      <4> QED
        BY <4>1
    <3>4. PICK j \in t + 1 .. t + k : j - t = i
      BY <3>2
    <3>5. Back(<<"free", 0, j>>, j)
      BY <1>10, <3>4
    <3>6. /\ <<"free", 0, j>> \in New
          /\ From[<<"free", 0, j>>] = <<"stack", p, j - t>>
      BY <1>14, <3>4, <3>5
    <3> QED
      BY <3>1, <3>4, <3>6
  <2>2. CASE ~(v[1] = "stack" /\ v[2] = p)
    BY <1>11, <1>15, <2>2
  <2> QED
    BY <2>1, <2>2
<1>20. \A q \in Page : \/ pp_ref'[q] = pp_ref[q]
                       \/ \E v \in Old : PageAt(v) = q
  <2> TAKE q \in Page
  <2>1. CASE q \in ToSet(mapped)
    <3>1. PICK i \in 1 .. k : q = mapped[i]
      BY <1>6, <2>1
    <3> QED
      BY <1>3, <3>1
  <2>2. CASE q \notin ToSet(mapped)
    BY <1>6, <2>2
  <2> QED
    BY <2>1, <2>2
\* No other place has a page of the stack.
<1>21. ASSUME NEW u, Kept(u)
       PROVE  pp_ref'[PageAt(u)] = pp_ref[PageAt(u)]
  <2>1. u \in Old /\ PageAt(u) \in Page
    BY <1>1, <1>15, <1>21 DEF UseInv, Old
  <2>2. ASSUME NEW i \in 1 .. k, PageAt(u) = mapped[i]
        PROVE  FALSE
    <3>1. u = <<"stack", p, i>>
      BY <1>1, <1>3, <2>1, <2>2 DEF UseInv, Old
    <3> QED
      BY <1>15, <1>21, <3>1
  <2>3. PageAt(u) \notin ToSet(mapped)
    BY <1>6, <2>2
  <2> QED
    BY <1>6, <2>1, <2>3
<1>22. \A u \in New :
           /\ u[1] \in {"heap", "shell"} => pp_ref'[PageAt(From[u])] = 0
           /\ u[1] = "stack" => pp_ref'[PageAt(From[u])] = 1
  <2>1. ASSUME NEW u, Kept(u)
        PROVE  /\ u[1] \in {"heap", "shell"} => pp_ref'[PageAt(From[u])] = 0
               /\ u[1] = "stack" => pp_ref'[PageAt(From[u])] = 1
    BY <1>1, <1>15, <1>21, <2>1 DEF UseInv, Old
  <2>2. ASSUME NEW u, NEW i \in t + 1 .. t + k, Back(u, i)
        PROVE  u[1] = "free"
    BY <1>14, <2>2
  <2> QED
    BY <1>12, <2>1, <2>2
<1>23. UseInv'
  <2>1. UseInv /\ Old = Places(Top) /\ New = Places(Top)'
    BY <1>1 DEF Old, New
  <2> QED
    BY <1>16, <1>17, <1>18, <1>19, <1>20, <1>22, <2>1, Moves
<1>24. PageTypes'
  <2>1. pp_ref' \in [Page -> 0 .. Refs - 1]
    <3>1. pp_ref \in [Page -> 0 .. Refs - 1]
      BY <1>1 DEF PageTypes
    <3> QED
      BY <1>6, <3>1, DecFacts
  <2>2. pmm_stack' \in [0 .. MAX_PAGE_NUM -> Page \cup {NoPage}]
    <3>1. pmm_stack \in [0 .. MAX_PAGE_NUM -> Page \cup {NoPage}]
      BY <1>1 DEF PageTypes
    <3>2. \A i \in t + 1 .. t + k : mapped[i - t] \in Page
      BY <1>3, <1>7
    <3> QED
      BY <1>5, <3>1, <3>2
  <2>3. pmm_stack_top' \in 0 .. MAX_PAGE_NUM
    BY <1>2, <1>5
  <2> QED
    BY <1>1, <1>9, <2>1, <2>2, <2>3, Static DEF PageTypes
<1>25. PopInv'
  <2>1. \A i \in 2 .. t + k : i \in 2 .. t \/ i \in t + 1 .. t + k
    BY <1>2
  <2>2. \A i \in 2 .. t : i \in 1 .. t
    OBVIOUS
  <2>3. \A i \in 2 .. t + k : pmm_stack'[i] # NoPage
    BY <1>1, <1>2, <1>71, <2>1, <2>2 DEF PopInv
  <2> QED
    BY <1>1, <1>5, <2>3, Static DEF PopInv
<1>26. LoadInv'
  <2>1. pc \in Loading => pid # p /\ stack_map'[pid] = stack_map[pid]
    <3>1. pc \in Loading => pid \in Pids /\ Len(stack_map[pid]) < StackPages
      BY <1>1 DEF LoadInv, PageTypes
    <3>2. ~(StackPages < StackPages)
      BY Constants
    <3> QED
      BY <1>0, <1>1, <1>9, <3>1, <3>2
  <2>2. \A q \in Pids : stack_map[q] = <<>> => stack_map'[q] = <<>>
    BY <1>1, <1>2
  <2> QED
    BY <1>1, <2>1, <2>2, Static DEF LoadInv, Table
<1> QED
  BY <1>23, <1>24, <1>25, <1>26 DEF PageInv

\* The heap keeps its pages.
LEMMA StillPages ==
    ASSUME PageInv, UNCHANGED <<pageVars, heap_map, shellVars, stack_map>>
    PROVE  PageInv'
<1>1. UNCHANGED <<pmm_stack, pmm_stack_top, pp_ref, heap_map, pc, pid, reg,
                  want, page, started, tables, stack_map>>
  BY DEF pageVars, shellVars
<1>2. Top' = Top
  BY <1>1 DEF Top
<1>3. UseInv'
  BY <1>1, <1>2, SamePlaces DEF PageInv
<1>4. PageTypes' /\ PopInv' /\ LoadInv'
  BY <1>1, <1>2, Static DEF PageInv, PageTypes, PopInv, LoadInv, Table
<1> QED
  BY <1>3, <1>4 DEF PageInv

\* init_pmm() leaves pages 1 to MAX_PAGE_NUM - 1 on the stack, and the empty
\* position below them.
LEMMA InitStack ==
    ASSUME init_pmm
    PROVE  /\ pmm_stack \in [0 .. MAX_PAGE_NUM -> Page \cup {NoPage}]
           /\ pmm_stack[1] = NoPage
           /\ \A i \in 2 .. MAX_PAGE_NUM : pmm_stack[i] \in Page \ {0}
           /\ \A i, j \in 2 .. MAX_PAGE_NUM :
                  pmm_stack[i] = pmm_stack[j] => i = j
           /\ \A p \in Page \ {0} :
                  \E i \in 2 .. MAX_PAGE_NUM : pmm_stack[i] = p
<1> DEFINE N == MAX_PAGE_NUM
           at(i) == IF Swapped(i) THEN N + 1 - i ELSE i
<1>1. N \in Nat /\ N >= 3
  BY Constants
<1>2. PICK m \in Nat : m = (1 + N) \div 2 /\ 2 * m <= N + 1 /\ N <= 2 * m
  <2>1. /\ (1 + N) \div 2 \in Nat
        /\ 2 * ((1 + N) \div 2) <= N + 1 /\ N <= 2 * ((1 + N) \div 2)
    BY <1>1
  <2> QED
    BY <2>1
<1>3. \A i \in 0 .. N : Swapped(i) <=> i # 0 /\ (i < m \/ N + 1 - i < m)
  BY <1>2 DEF Swapped
<1>4. /\ at(1) = N /\ at(0) = 0
      /\ \A i \in 2 .. N : at(i) \in 1 .. N - 1 /\ at(i) \in 0 .. N
      /\ \A i, j \in 2 .. N : at(i) = at(j) => i = j
      /\ \A p \in 1 .. N - 1 : at(p) \in 2 .. N /\ at(at(p)) = p
  <2>1. \A i \in 0 .. N :
            at(i) = IF i # 0 /\ (i < m \/ N + 1 - i < m)
                    THEN N + 1 - i ELSE i
    BY <1>3
  <2> HIDE DEF at
  <2>2. at(1) = N /\ at(0) = 0
    BY <1>1, <1>2, <2>1
  <2>3. \A i \in 2 .. N : at(i) \in 1 .. N - 1 /\ at(i) \in 0 .. N
    BY <1>1, <1>2, <2>1
  <2>4. \A i, j \in 2 .. N : at(i) = at(j) => i = j
    BY <1>1, <1>2, <2>1
  <2>5. \A p \in 1 .. N - 1 : at(p) \in 2 .. N /\ at(at(p)) = p
    BY <1>1, <1>2, <2>1
  <2> QED
    BY <2>2, <2>3, <2>4, <2>5
<1>5. pmm_stack = [i \in 0 .. N |-> Filled(at(i))]
  BY DEF init_pmm
<1> HIDE DEF at
<1>6. /\ \A i \in 0 .. N : pmm_stack[i] = Filled(at(i))
      /\ DOMAIN pmm_stack = 0 .. N
      /\ pmm_stack = [i \in 0 .. N |-> pmm_stack[i]]
  BY <1>5
<1>7. \A i \in 2 .. N : i \in 0 .. N /\ pmm_stack[i] = at(i)
  BY <1>1, <1>4, <1>6 DEF Filled
<1>8. pmm_stack[1] = NoPage /\ pmm_stack[0] = 0
  BY <1>1, <1>4, <1>6 DEF Filled
<1>9. Page = 0 .. N - 1 /\ Page \ {0} = 1 .. N - 1
  BY <1>1 DEF Page
<1>10. \A i \in 0 .. N : i \in 2 .. N \/ i = 1 \/ i = 0
  BY <1>1
<1>11. pmm_stack \in [0 .. N -> Page \cup {NoPage}]
  <2>1. \A i \in 0 .. N : pmm_stack[i] \in Page \cup {NoPage}
    <3>1. 0 \in Page /\ \A i \in 2 .. N : pmm_stack[i] \in Page
      BY <1>1, <1>4, <1>7, <1>9
    <3> QED
      BY <1>8, <1>10, <3>1
  <2> QED
    BY <1>6, <2>1
<1>12. \A p \in Page \ {0} : \E i \in 2 .. N : pmm_stack[i] = p
  <2> TAKE p \in Page \ {0}
  <2>1. at(p) \in 2 .. N /\ at(at(p)) = p
    BY <1>4, <1>9
  <2> QED
    BY <1>7, <2>1
<1>13. /\ \A i \in 2 .. N : pmm_stack[i] \in Page \ {0}
       /\ \A i, j \in 2 .. N : pmm_stack[i] = pmm_stack[j] => i = j
  BY <1>4, <1>7, <1>9
<1> QED
  BY <1>8, <1>11, <1>12, <1>13

\* Every page but page 0 starts on the free stack.
LEMMA InitPages ==
    ASSUME Init
    PROVE  PageInv
<1>1. /\ pmm_stack \in [0 .. MAX_PAGE_NUM -> Page \cup {NoPage}]
      /\ pmm_stack[1] = NoPage
      /\ \A i \in 2 .. MAX_PAGE_NUM : pmm_stack[i] \in Page \ {0}
      /\ \A i, j \in 2 .. MAX_PAGE_NUM :
             pmm_stack[i] = pmm_stack[j] => i = j
      /\ \A p \in Page \ {0} :
             \E i \in 2 .. MAX_PAGE_NUM : pmm_stack[i] = p
  BY InitStack DEF Init
<1>2. /\ pmm_stack_top = MAX_PAGE_NUM /\ pp_ref = [p \in Page |-> 1]
      /\ heap_map = <<>> /\ pc = "ready" /\ pid = NULL /\ reg = 0
      /\ want = "stack" /\ page = NoPage /\ started = {}
      /\ stack_map = [p \in Pids |-> <<>>] /\ tables = <<>>
  BY DEF Init, init_pmm, init_heap
<1>3. Top = MAX_PAGE_NUM /\ MAX_PAGE_NUM \in Nat /\ MAX_PAGE_NUM >= 3
  BY <1>2, Constants DEF Top
<1>4. PageTypes
  <2>1. pp_ref \in [Page -> 0 .. Refs - 1]
    BY <1>2, RefsZero
  <2>2. pmm_stack_top \in 0 .. MAX_PAGE_NUM /\ reg \in 0 .. MAX_PAGE_NUM
    BY <1>2, <1>3
  <2>3. heap_map \in Seq(Page) /\ stack_map \in [Pids -> Seq(Page)]
    BY <1>2
  <2> QED
    BY <1>1, <1>2, <2>1, <2>2, <2>3 DEF PageTypes
<1>5. PopInv
  <2>1. NoPage \notin Page
    BY DEF NoPage, Page
  <2> QED
    BY <1>1, <1>2, <1>3, <2>1 DEF PopInv
<1>6. LoadInv
  BY <1>2 DEF LoadInv, Loading
<1>70. \A i : i \in Full(pmm_stack, Top) <=> i \in 2 .. MAX_PAGE_NUM
  <2>1. \A i : i \in 1 .. MAX_PAGE_NUM <=> i = 1 \/ i \in 2 .. MAX_PAGE_NUM
    BY <1>3
  <2>2. NoPage \notin Page /\ 1 \notin 2 .. MAX_PAGE_NUM
    BY DEF NoPage, Page
  <2> QED
    BY <1>1, <1>3, <2>1, <2>2 DEF Full
<1>7. \A u : u \in Places(Top) <=>
                 \E i \in 2 .. MAX_PAGE_NUM : u = <<"free", 0, i>>
  <2> TAKE u
  <2>1. DOMAIN heap_map = {} /\ DOMAIN tables = {}
        /\ \A p \in Pids : DOMAIN stack_map[p] = {}
    BY <1>2
  <2> QED
    BY <1>2, <1>70, <2>1, PlaceKinds
<1>8. UseInv
  <2>1. \A u \in Places(Top) : PageAt(u) \in Page \ {0}
    BY <1>1, <1>7, PagesThere
  <2>2. ASSUME NEW u \in Places(Top), NEW v \in Places(Top),
               PageAt(u) = PageAt(v)
        PROVE  u = v
    <3>1. PICK i \in 2 .. MAX_PAGE_NUM : u = <<"free", 0, i>>
      BY <1>7
    <3>2. PICK j \in 2 .. MAX_PAGE_NUM : v = <<"free", 0, j>>
      BY <1>7
    <3>3. i = j
      BY <1>1, <2>2, <3>1, <3>2, PagesThere
    <3> QED
      BY <3>1, <3>2, <3>3
  <2>3. \A u \in Places(Top) : u[1] = "free"
    BY <1>7
  <2>4. \A p \in Page \ {0} : \E u \in Places(Top) : PageAt(u) = p
    <3> TAKE p \in Page \ {0}
    <3>1. PICK i \in 2 .. MAX_PAGE_NUM : pmm_stack[i] = p
      BY <1>1
    <3> QED
      BY <1>7, <3>1, PagesThere
  <2> QED
    BY <2>1, <2>2, <2>3, <2>4 DEF UseInv
<1> QED
  BY <1>4, <1>5, <1>6, <1>8 DEF PageInv

----------------------------------------------------------------------------

----------------------------------------------------------------------------
\* How long the heap is.
LEMMA HeapFacts ==
    ASSUME PageTypes
    PROVE  /\ PGSIZE \in Nat /\ PGSIZE >= 1 /\ Len(heap_map) \in Nat
           /\ heap_max = PGSIZE * Len(heap_map) /\ heap_max \in Nat
  BY TypeFacts, Constants DEF heap_max

\* There is a walk along the list of as many steps as one likes.
LEMMA WalkExists ==
    ASSUME NEW m \in Nat
    PROVE  \E f : f = [n \in 0 .. m |->
                          IF n = 0 THEN heap_first ELSE After(f[n - 1])]
<1> DEFINE Walks(k) ==
               \E f : f = [n \in 0 .. k |->
                              IF n = 0 THEN heap_first ELSE After(f[n - 1])]
           T == {k \in Nat : ~Walks(k)}
<1>1. ASSUME NEW k \in T, \A j \in T : k <= j
      PROVE  FALSE
  <2>1. CASE k = 0
    <3>1. PICK f : f = [n \in 0 .. 0 |-> heap_first]
      OBVIOUS
    <3>2. f = [n \in 0 .. 0 |-> IF n = 0 THEN heap_first ELSE After(f[n - 1])]
      BY <3>1
    <3>3. Walks(0)
      BY <3>2
    <3> QED
      BY <1>1, <2>1, <3>3
  <2>2. CASE k # 0
    <3>1. k - 1 \in Nat /\ k - 1 \notin T
      <4>1. k - 1 \in Nat /\ ~(k <= k - 1)
        BY <2>2
      <4> HIDE DEF T
      <4> QED
        BY <1>1, <4>1
    <3>2. PICK f : f = [n \in 0 .. k - 1 |-> IF n = 0 THEN heap_first
                                             ELSE After(f[n - 1])]
      BY <3>1
    <3>3. PICK g : g = [n \in 0 .. k |-> IF n = k THEN After(f[k - 1])
                                         ELSE f[n]]
      OBVIOUS
    <3>4. ASSUME NEW n \in 0 .. k
          PROVE  g[n] = IF n = 0 THEN heap_first ELSE After(g[n - 1])
      <4>1. CASE n = k
        <5>1. k - 1 \in 0 .. k /\ k - 1 # k
          BY <2>2
        <5>2. g[n] = After(f[k - 1]) /\ g[k - 1] = f[k - 1]
          BY <3>3, <4>1, <5>1
        <5> QED
          BY <2>2, <4>1, <5>2
      <4>2. CASE n # k
        <5>1. n \in 0 .. k - 1 /\ (n # 0 => n - 1 \in 0 .. k /\ n - 1 # k)
          BY <4>2
        <5>2. g[n] = f[n] /\ (n # 0 => g[n - 1] = f[n - 1])
          BY <3>3, <4>2, <5>1
        <5>3. f[n] = IF n = 0 THEN heap_first ELSE After(f[n - 1])
          BY <3>2, <5>1
        <5> QED
          BY <5>2, <5>3
      <4> QED
        BY <4>1, <4>2
    <3>5. g = [n \in 0 .. k |-> g[n]]
      BY <3>3
    <3>6. g = [n \in 0 .. k |-> IF n = 0 THEN heap_first ELSE After(g[n - 1])]
      BY <3>4, <3>5
    <3>7. Walks(k)
      BY <3>6
    <3> QED
      BY <1>1, <3>7
  <2> QED
    BY <2>1, <2>2
<1>2. T = {}
  <2>1. T \subseteq Nat
    OBVIOUS
  <2> HIDE DEF T
  <2> QED
    BY <1>1, <2>1, Least
<1> QED
  BY <1>2

\* What kmalloc()'s loop meets.
LEMMA WalkIs ==
    ASSUME PageTypes
    PROVE  /\ Walk[0] = heap_first
           /\ \A n \in 1 .. heap_max : Walk[n] = After(Walk[n - 1])
<1>1. PICK m : m = heap_max
  OBVIOUS
<1>2. m \in Nat
  BY <1>1, HeapFacts
<1> DEFINE body(f) == [n \in 0 .. m |->
                          IF n = 0 THEN heap_first ELSE After(f[n - 1])]
<1>3. PICK g : g = body(g)
  BY <1>2, WalkExists
<1>4. PICK f : f = CHOOSE h : h = body(h)
  OBVIOUS
<1>5. Walk = f
  BY <1>1, <1>4 DEF Walk
<1>6. f = body(f)
  <2> HIDE DEF body
  <2> QED
    BY <1>3, <1>4
<1>7. \A n \in 0 .. m : f[n] = IF n = 0 THEN heap_first ELSE After(f[n - 1])
  BY <1>6
<1>8. 0 \in 0 .. m /\ \A n \in 1 .. m : n \in 0 .. m /\ n # 0
  BY <1>2
<1> QED
  BY <1>1, <1>5, <1>7, <1>8

\* A list that kmalloc() can read ends: its last chunk is there.
LEMMA LastThere ==
    ASSUME PageTypes, HeapTypes, Legible
    PROVE  /\ Chunks \subseteq DOMAIN header /\ DOMAIN header \subseteq Nat
           /\ heap_first # NULL =>
                  prev_header \in Chunks /\ header[prev_header].next = NULL
           /\ chunk_start \in Nat
<1>1. PICK m : m = heap_max /\ m \in Nat
  BY HeapFacts
<1>2. Chunks \subseteq DOMAIN header
  BY DEF Chunks, Legible
<1>3. DOMAIN header \subseteq Nat /\ NULL \notin DOMAIN header
  BY <1>1 DEF HeapTypes, NULL
<1>4. ASSUME heap_first # NULL
      PROVE  \E c \in Chunks : header[c].next = NULL
  <2> DEFINE T == {n \in 0 .. m : Walk[n] = NULL}
  <2>1. m \in T /\ T \subseteq Nat
    BY <1>1 DEF Legible
  <2> HIDE DEF T
  <2>2. PICK n \in T : \A k \in T : n <= k
    BY <2>1, Least
  <2> USE DEF T
  <2>3. n \in 1 .. m /\ n - 1 \in 0 .. m /\ n - 1 \notin T
    <3>1. n \in 0 .. m /\ n # 0
      BY <1>4, <2>2, WalkIs
    <3>2. n \in 1 .. m /\ n - 1 \in 0 .. m /\ ~(n <= n - 1)
      BY <1>1, <3>1
    <3> HIDE DEF T
    <3> QED
      BY <2>2, <3>2
  <2>4. PICK c : c = Walk[n - 1]
    OBVIOUS
  <2>5. c \in DOMAIN header /\ c # NULL /\ c \in Chunks
    BY <1>1, <2>3, <2>4 DEF Legible, Chunks
  <2>6. After(c) = NULL
    BY <1>1, <2>2, <2>3, <2>4, WalkIs
  <2> QED
    BY <2>5, <2>6 DEF After
<1>5. heap_first # NULL =>
          prev_header \in Chunks /\ header[prev_header].next = NULL
  BY <1>4 DEF prev_header
<1>6. chunk_start \in Nat
  <2>1. CASE heap_first = NULL
    BY <2>1 DEF chunk_start
  <2>2. CASE heap_first # NULL
    <3>1. prev_header \in DOMAIN header /\ prev_header \in Nat
      BY <1>2, <1>3, <1>5, <2>2
    <3>2. header[prev_header].length \in Nat
      BY <3>1 DEF HeapTypes, Header
    <3> QED
      BY <2>2, <3>1, <3>2 DEF chunk_start, End
  <2> QED
    BY <2>1, <2>2
<1> QED
  BY <1>2, <1>3, <1>5, <1>6

\* The chunk that is found fits.
LEMMA FitThere ==
    ASSUME PageTypes, HeapTypes, Legible, NEW len, Fitting(len) # {}
    PROVE  /\ FirstFit(len) \in Chunks
           /\ Fits(FirstFit(len), len)
<1>1. PICK T : T = Fitting(len)
  OBVIOUS
<1>2. T \subseteq Nat /\ T # {}
  BY <1>1, HeapFacts DEF Fitting
<1>3. PICK k : k = CHOOSE n \in T : \A j \in T : n <= j
  OBVIOUS
<1>4. k \in T
  BY <1>2, <1>3, Least
<1>5. FirstFit(len) = Walk[k]
  BY <1>1, <1>3 DEF FirstFit
<1> QED
  BY <1>1, <1>4, <1>5 DEF Fitting, Chunks

----------------------------------------------------------------------------
\* The last chunk of a list is the one farthest up.
LEMMA LastIsMax ==
    ASSUME NEW h, NEW L \in SUBSET Nat, NEW max, Chained(h, L, max),
           \A c \in L : h[c].length \in Nat,
           NEW c \in L, h[c].next = NULL
    PROVE  \A d \in L : d <= c
<1>0. \A x, y \in L : x < y => x + h[x].length <= y
  BY DEF Chained, Spaced
<1> DEFINE T == {d \in L : d > c}
<1>1. ASSUME NEW d \in T, \A k \in T : d <= k
      PROVE  FALSE
  <2>1. d \in L /\ d > c /\ d # 0
    OBVIOUS
  <2>2. PICK b \in L : h[b].next = d
    BY <2>1 DEF Chained, Linked
  <2>3. b # c /\ d = b + h[b].length /\ h[b].length >= 1
    <3>1. d # NULL
      BY <2>1 DEF NULL
    <3> QED
      BY <2>2, <3>1 DEF Chained, Linked, Spaced
  <2>4. b < d /\ b \notin T
    <3>1. b < d /\ ~(d <= b)
      BY <2>1, <2>3
    <3> HIDE DEF T
    <3> QED
      BY <1>1, <3>1
  <2>5. b < c
    <3>1. b \in Nat /\ c \in Nat /\ ~(b > c)
      BY <2>4
    <3> QED
      BY <2>3, <3>1
  <2>6. b + h[b].length <= c
    BY <1>0, <2>5
  <2> QED
    BY <2>1, <2>3, <2>6
<1>2. T = {}
  <2>1. T \subseteq Nat
    OBVIOUS
  <2> HIDE DEF T
  <2> QED
    BY <1>1, <2>1, Least
<1> QED
  BY <1>2

\* The walk along such a list meets its chunks and nothing else.
LEMMA ListMet ==
    ASSUME PageTypes, HeapTypes, NEW L \in SUBSET Nat, ListIs(L)
    PROVE  Chunks = L /\ Legible
<1>1. PICK m : m = heap_max /\ m \in Nat
  BY HeapFacts
<1>2. /\ Chained(header, L, m) /\ L \subseteq DOMAIN header
      /\ \A c \in L : header[c].length \in Nat
      /\ NULL \notin DOMAIN header /\ NULL \notin L /\ 0 \in 0 .. m
      /\ heap_first = IF L = {} THEN NULL ELSE 0
      /\ L # {} => 0 \in L
  <2>1. Chained(header, L, m) /\ L \subseteq DOMAIN header
    BY <1>1 DEF ListIs, Tiled, Chained
  <2>2. DOMAIN header \subseteq 0 .. m - 1
    BY <1>1 DEF HeapTypes
  <2>3. header \in [DOMAIN header -> Header]
    BY DEF HeapTypes
  <2>4. \A c \in L : header[c].length \in Nat
    BY <2>1, <2>3 DEF Header
  <2>5. NULL \notin DOMAIN header /\ NULL \notin L
    BY <1>1, <2>2 DEF NULL
  <2> QED
    BY <1>1, <2>1, <2>4, <2>5 DEF ListIs, Chained
<1>3. \A c \in L : After(c) = header[c].next
  BY <1>2 DEF After
<1>4. After(NULL) = NULL
  BY <1>2 DEF After
<1>5. \A c \in L : \/ header[c].next = NULL
                   \/ header[c].next \in L /\ header[c].next >= c + 1
  BY <1>2 DEF Chained, Linked, Spaced
<1> DEFINE Up(n) == Walk[n] = NULL \/ (Walk[n] \in L /\ Walk[n] >= n)
           T == {n \in 0 .. m : ~Up(n)}
<1>6. ASSUME NEW n \in T, \A k \in T : n <= k
      PROVE  FALSE
  <2>1. CASE n = 0
    <3>1. Up(0)
      BY <1>2, WalkIs
    <3> QED
      BY <1>6, <2>1, <3>1
  <2>2. CASE n # 0
    <3>1. n \in 1 .. m /\ n - 1 \in 0 .. m /\ n - 1 \notin T
      <4>1. n \in 1 .. m /\ n - 1 \in 0 .. m /\ ~(n <= n - 1)
        BY <1>1, <2>2
      <4> HIDE DEF T
      <4> QED
        BY <1>6, <4>1
    <3>2. PICK c : c = Walk[n - 1]
      OBVIOUS
    <3>3. c = NULL \/ (c \in L /\ c >= n - 1)
      BY <3>1, <3>2
    <3>4. Walk[n] = After(c)
      BY <1>1, <3>1, <3>2, WalkIs
    <3>5. CASE c = NULL
      BY <1>4, <1>6, <3>4, <3>5
    <3>6. CASE c \in L /\ c >= n - 1
      <4>1. Walk[n] = NULL \/ (Walk[n] \in L /\ Walk[n] >= c + 1)
        BY <1>3, <1>5, <3>4, <3>6
      <4>2. PICK w : w = Walk[n]
        OBVIOUS
      <4>3. ASSUME w \in L, w >= c + 1 PROVE w >= n
        <5>1. w \in Nat /\ c \in Nat /\ n \in Nat /\ c >= n - 1
          BY <1>1, <3>1, <3>6, <4>3
        <5> QED
          BY <4>3, <5>1
      <4>4. Up(n)
        BY <4>1, <4>2, <4>3
      <4> QED
        BY <1>6, <4>4
    <3> QED
      BY <3>3, <3>5, <3>6
  <2> QED
    BY <2>1, <2>2
<1>7. \A n \in 0 .. m : Up(n)
  <2>1. T \subseteq Nat
    OBVIOUS
  <2>2. T = {}
    <3> HIDE DEF T
    <3> QED
      BY <1>6, <2>1, Least
  <2> QED
    BY <2>2
<1>8. \A c \in L : c < m
  BY <1>1, <1>2 DEF Chained, Spaced
<1>9. Walk[m] = NULL
  <2>1. PICK w : w = Walk[m]
    OBVIOUS
  <2>2. w = NULL \/ (w \in L /\ w >= m)
    <3>1. m \in 0 .. m
      BY <1>1
    <3> QED
      BY <1>7, <2>1, <3>1
  <2>3. ASSUME w \in L, w >= m PROVE FALSE
    <3>1. w < m /\ w \in Nat /\ m \in Nat
      BY <1>1, <1>8, <2>3
    <3> QED
      BY <2>3, <3>1
  <2> QED
    BY <2>1, <2>2, <2>3
<1>10. Legible
  <2>1. \A n \in 0 .. m : Walk[n] \in DOMAIN header \cup {NULL}
    BY <1>2, <1>7
  <2> QED
    BY <1>1, <1>9, <2>1 DEF Legible
<1>11. Chunks \subseteq L
  BY <1>1, <1>7 DEF Chunks
<1> DEFINE S == {c \in L : c \notin Chunks}
<1>12. ASSUME NEW c \in S, \A k \in S : c <= k
       PROVE  FALSE
  <2>1. c \in L /\ c # NULL /\ c \notin Chunks
    BY <1>2
  <2>2. CASE c = 0
    <3>1. Walk[0] = 0 /\ 0 \in 0 .. heap_max
      BY <1>1, <1>2, <2>1, WalkIs
    <3> QED
      BY <2>1, <2>2, <3>1 DEF Chunks
  <2>3. CASE c # 0
    <3>1. PICK b \in L : header[b].next = c
      BY <1>2, <2>1, <2>3 DEF Chained, Linked
    <3>2. b < c
      BY <1>5, <2>1, <3>1
    <3>3. b \in Chunks
      <4>1. b \in Nat /\ c \in Nat /\ ~(c <= b)
        BY <3>2
      <4>2. b \notin S
        <5> HIDE DEF S
        <5> QED
          BY <1>12, <4>1
      <4> QED
        BY <4>2
    <3>4. PICK n \in 0 .. m : Walk[n] = b /\ b # NULL
      BY <1>1, <3>3 DEF Chunks
    <3>5. n <= b /\ b < m
      BY <1>7, <1>8, <3>4
    <3>6. n + 1 \in 1 .. m /\ (n + 1) - 1 = n
      BY <1>1, <3>5
    <3>7. Walk[n + 1] = After(b)
      BY <1>1, <3>4, <3>6, WalkIs
    <3>8. Walk[n + 1] = c /\ n + 1 \in 0 .. m
      BY <1>1, <1>3, <3>1, <3>6, <3>7
    <3> QED
      BY <1>1, <2>1, <3>8 DEF Chunks
  <2> QED
    BY <2>2, <2>3
<1>13. S = {}
  <2>1. S \subseteq Nat
    OBVIOUS
  <2> HIDE DEF S
  <2> QED
    BY <1>12, <2>1, Least
<1> QED
  BY <1>10, <1>11, <1>13

----------------------------------------------------------------------------
\* What merging writes.
LEMMA AbsorbWrites ==
    ASSUME NEW D \in SUBSET Nat, NEW h \in [D -> Header], NEW c \in D,
           NEW d \in D
    PROVE  LET g == Absorb(h, c, d)
           IN  /\ g \in [D -> Header]
               /\ \A x \in D :
                      /\ g[x].prev = IF x = h[d].next THEN c ELSE h[x].prev
                      /\ g[x].next = IF x = c THEN h[d].next ELSE h[x].next
                      /\ g[x].allocated = h[x].allocated
                      /\ g[x].length = IF x = c
                                       THEN h[c].length + h[d].length
                                       ELSE h[x].length
<1>1. PICK e, g : e = h[d].next /\ g = Absorb(h, c, d)
  OBVIOUS
<1>2. e \in Nat \cup {NULL} /\ h[d].length \in Nat /\ h[c].length \in Nat
  BY <1>1 DEF Header
<1>3. PICK v, f : /\ v = h[c].length + h[d].length
                  /\ f = [h EXCEPT ![c].length = v, ![c].next = e]
  OBVIOUS
<1>30. v \in Nat /\ f = [[h EXCEPT ![c].length = v] EXCEPT ![c].next = e]
  BY <1>2, <1>3
<1>31. PICK k : k = [h EXCEPT ![c].length = v]
  OBVIOUS
<1>32. /\ k \in [D -> Header]
       /\ \A x \in D : /\ k[x].prev = h[x].prev /\ k[x].next = h[x].next
                       /\ k[x].allocated = h[x].allocated
                       /\ k[x].length = IF x = c THEN v ELSE h[x].length
  BY <1>30, <1>31 DEF Header
<1>33. f = [k EXCEPT ![c].next = e]
  BY <1>30, <1>31
<1>4. /\ f \in [D -> Header]
      /\ \A x \in D :
             /\ f[x].prev = h[x].prev
             /\ f[x].next = IF x = c THEN e ELSE h[x].next
             /\ f[x].allocated = h[x].allocated
             /\ f[x].length = IF x = c THEN h[c].length + h[d].length
                              ELSE h[x].length
  <2>1. /\ f \in [D -> Header]
        /\ f[c].prev = k[c].prev /\ f[c].next = e
        /\ f[c].allocated = k[c].allocated /\ f[c].length = k[c].length
        /\ \A x \in D : x # c => f[x] = k[x]
    BY <1>2, <1>32, <1>33 DEF Header
  <2> QED
    BY <1>3, <1>32, <2>1
<1>5. g = SetPrev(f, e, c)
  BY <1>1, <1>3 DEF Absorb
<1>6. ASSUME e = NULL
      PROVE  /\ g \in [D -> Header]
             /\ \A x \in D :
                    /\ g[x].prev = h[x].prev
                    /\ g[x].next = IF x = c THEN e ELSE h[x].next
                    /\ g[x].allocated = h[x].allocated
                    /\ g[x].length = IF x = c THEN h[c].length + h[d].length
                                     ELSE h[x].length
             /\ NULL \notin D
  <2>1. g = f /\ NULL \notin D
    BY <1>5, <1>6 DEF SetPrev, NULL
  <2> QED
    BY <1>1, <1>4, <1>6, <2>1
<1>7. ASSUME e # NULL
      PROVE  /\ g \in [D -> Header]
             /\ \A x \in D :
                    /\ g[x].prev = IF x = e THEN c ELSE h[x].prev
                    /\ g[x].next = IF x = c THEN e ELSE h[x].next
                    /\ g[x].allocated = h[x].allocated
                    /\ g[x].length = IF x = c THEN h[c].length + h[d].length
                                     ELSE h[x].length
  <2>1. g = [f EXCEPT ![e].prev = c] /\ c \in Nat \cup {NULL}
    BY <1>5, <1>7 DEF SetPrev
  <2>2. /\ g \in [D -> Header]
        /\ \A x \in D : /\ g[x].prev = IF x = e THEN c ELSE f[x].prev
                        /\ g[x].next = f[x].next
                        /\ g[x].allocated = f[x].allocated
                        /\ g[x].length = f[x].length
    <3>1. f \in [D -> Header]
      BY <1>4
    <3>2. PICK j \in Nat \cup {NULL} : j = c
      BY <2>1
    <3>3. g = [f EXCEPT ![e].prev = j]
      BY <2>1, <3>2
    <3>4. /\ g \in [D -> Header]
          /\ \A x \in D : /\ g[x].prev = IF x = e THEN j ELSE f[x].prev
                          /\ g[x].next = f[x].next
                          /\ g[x].allocated = f[x].allocated
                          /\ g[x].length = f[x].length
      <4>1. g \in [D -> Header]
        BY <3>1, <3>3 DEF Header
      <4>2. \A x \in D : x # e => g[x] = f[x]
        BY <3>1, <3>3
      <4>3. ASSUME e \in D
            PROVE  /\ g[e].prev = j /\ g[e].next = f[e].next
                   /\ g[e].allocated = f[e].allocated
                   /\ g[e].length = f[e].length
        BY <3>1, <3>3, <4>3 DEF Header
      <4> QED
        BY <4>1, <4>2, <4>3
    <3> QED
      BY <3>2, <3>4
  <2> QED
    BY <1>1, <1>4, <2>2
<1>8. /\ g \in [D -> Header]
      /\ \A x \in D :
             /\ g[x].prev = IF x = e THEN c ELSE h[x].prev
             /\ g[x].next = IF x = c THEN e ELSE h[x].next
             /\ g[x].allocated = h[x].allocated
             /\ g[x].length = IF x = c THEN h[c].length + h[d].length
                              ELSE h[x].length
  BY <1>6, <1>7
<1> QED
  BY <1>1, <1>8

LEMMA AbsorbTypes ==
    ASSUME NEW D \in SUBSET Nat, NEW h \in [D -> Header], NEW c \in D,
           NEW d \in D
    PROVE  /\ Absorb(h, c, d) \in [D -> Header]
           /\ Absorb(h, c, d)[c].prev \in {h[c].prev, c}
  BY AbsorbWrites

----------------------------------------------------------------------------
\* What a list of chunks is.
LEMMA ChainFacts ==
    ASSUME NEW D \in SUBSET Nat, NEW h \in [D -> Header],
           NEW L \in SUBSET Nat, NEW max \in Nat, Chained(h, L, max)
    PROVE  /\ L \subseteq D /\ NULL \notin D /\ NULL \notin L
           /\ \A x \in L : /\ h[x].length \in Nat /\ h[x].length >= 1
                           /\ x + h[x].length <= max /\ x < max
           /\ \A x \in L :
                  \/ h[x].next = NULL
                  \/ /\ h[x].next \in L /\ h[x].next = x + h[x].length
                     /\ x < h[x].next /\ h[x].next # NULL
           /\ \A x, y \in L : x < y => x + h[x].length <= y
           /\ \A x, y \in L :
                  h[x].next = h[y].next /\ h[x].next # NULL => x = y
           /\ \A x \in L \ {0} : \E y \in L : h[y].next = x
           /\ L # {} => 0 \in L /\ h[0].prev = NULL
<1>1. L \subseteq D /\ NULL \notin D /\ NULL \notin L
  BY DEF Chained, NULL
<1>2. \A x \in L : /\ h[x].length \in Nat /\ h[x].length >= 1
                   /\ x + h[x].length <= max
  BY <1>1 DEF Chained, Spaced, Header
<1>3. \A x \in L : x < max
  <2> TAKE x \in L
  <2>1. PICK l : l = h[x].length
    OBVIOUS
  <2>2. l \in Nat /\ l >= 1 /\ x + l <= max /\ x \in Nat
    BY <1>2, <2>1
  <2> QED
    BY <2>2
<1>4. ASSUME NEW x \in L, h[x].next # NULL
      PROVE  /\ h[x].next \in L /\ h[x].next = x + h[x].length
             /\ x < h[x].next
  <2>1. h[x].next \in L /\ h[x].next = x + h[x].length
    BY <1>4 DEF Chained, Linked
  <2>2. PICK l : l = h[x].length
    OBVIOUS
  <2>3. l \in Nat /\ l >= 1 /\ x \in Nat
    BY <1>2, <2>2
  <2> QED
    BY <2>1, <2>2, <2>3
<1>5. \A x, y \in L : x < y => x + h[x].length <= y
  BY DEF Chained, Spaced
<1>6. ASSUME NEW x \in L, NEW y \in L, h[x].next = h[y].next,
             h[x].next # NULL
      PROVE  x = y
  <2>1. PICK l, m : l = h[x].length /\ m = h[y].length
    OBVIOUS
  <2>2. /\ l \in Nat /\ m \in Nat /\ l >= 1 /\ m >= 1
        /\ x \in Nat /\ y \in Nat /\ x + l = y + m
    BY <1>2, <1>4, <1>6, <2>1
  <2>3. (x < y => x + l <= y) /\ (y < x => y + m <= x)
    BY <1>5, <2>1
  <2> QED
    BY <2>2, <2>3
<1>7. \A x \in L \ {0} : \E y \in L : h[y].next = x
  BY DEF Chained, Linked
<1>8. L # {} => 0 \in L /\ h[0].prev = NULL
  BY DEF Chained
<1> QED
  BY <1>1, <1>2, <1>3, <1>4, <1>5, <1>6, <1>7, <1>8

\* Chunk b is merged into the chunk a before it: headers g are what h become.
Merged(g, h, L, max, a, b) ==
    /\ Chained(g, L \ {b}, max) /\ a < b
    /\ \A x \in L : /\ g[x].next = IF x = a THEN h[b].next ELSE h[x].next
                    /\ g[x].allocated = h[x].allocated
                    /\ x # a => g[x].length = h[x].length
    /\ g[a].prev = h[a].prev
    /\ \A x \in L \ {b} : x = h[b].next \/ Right(h, L, x) =>
                              Right(g, L \ {b}, x)

LEMMA AbsorbChained ==
    ASSUME NEW D \in SUBSET Nat, NEW h \in [D -> Header],
           NEW L \in SUBSET Nat, NEW max \in Nat, Chained(h, L, max),
           NEW a \in L, NEW b \in L, h[a].next = b
    PROVE  /\ Absorb(h, a, b) \in [D -> Header]
           /\ Merged(Absorb(h, a, b), h, L, max, a, b)
<1> DEFINE M == L \ {b}
<1>1. PICK e, la, lb, g : /\ e = h[b].next /\ la = h[a].length
                          /\ lb = h[b].length /\ g = Absorb(h, a, b)
  OBVIOUS
<1>2. /\ L \subseteq D /\ NULL \notin D /\ NULL \notin L
      /\ \A x \in L : /\ h[x].length \in Nat /\ h[x].length >= 1
                      /\ x + h[x].length <= max /\ x < max
      /\ \A x \in L : \/ h[x].next = NULL
                      \/ /\ h[x].next \in L /\ h[x].next = x + h[x].length
                         /\ x < h[x].next /\ h[x].next # NULL
      /\ \A x, y \in L : x < y => x + h[x].length <= y
      /\ \A x, y \in L : h[x].next = h[y].next /\ h[x].next # NULL => x = y
      /\ \A x \in L \ {0} : \E y \in L : h[y].next = x
      /\ 0 \in L /\ h[0].prev = NULL
  BY ChainFacts
<1>3. /\ a \in D /\ b \in D /\ b # NULL /\ a \in Nat /\ b \in Nat
      /\ la \in Nat /\ lb \in Nat /\ la >= 1 /\ lb >= 1
      /\ b = a + la /\ a < b /\ b + lb <= max
  BY <1>1, <1>2
<1>4. e = NULL \/ (e \in L /\ e = b + lb /\ b < e /\ e \in Nat)
  BY <1>1, <1>2
<1>5. /\ g \in [D -> Header]
      /\ \A x \in D :
             /\ g[x].prev = IF x = e THEN a ELSE h[x].prev
             /\ g[x].next = IF x = a THEN e ELSE h[x].next
             /\ g[x].allocated = h[x].allocated
             /\ g[x].length = IF x = a THEN la + lb ELSE h[x].length
  BY <1>1, <1>3, AbsorbWrites
<1>6. a # e /\ 0 # e /\ b # e /\ b # 0 /\ a # b
  BY <1>2, <1>3, <1>4
<1>7. Spaced(g, M, max)
  <2>1. \A x \in M : g[x].length >= 1 /\ x + g[x].length <= max
    <3> TAKE x \in M
    <3>1. x \in L /\ x \in D
      BY <1>2
    <3>2. CASE x = a
      <4>1. g[x].length = la + lb
        BY <1>5, <3>1, <3>2
      <4>2. la + lb >= 1 /\ a + (la + lb) <= max
        BY <1>3
      <4> QED
        BY <3>2, <4>1, <4>2
    <3>3. CASE x # a
      BY <1>2, <1>5, <3>1, <3>3
    <3> QED
      BY <3>2, <3>3
  <2>2. ASSUME NEW x \in M, NEW y \in M, x < y
        PROVE  x + g[x].length <= y
    <3>1. x \in L /\ y \in L /\ x \in D /\ y # b /\ x \in Nat /\ y \in Nat
      BY <1>2
    <3>2. x + h[x].length <= y
      BY <1>2, <2>2, <3>1
    <3>3. CASE x = a
      <4>1. b <= y
        BY <1>1, <1>3, <3>2, <3>3
      <4>2. b < y
        BY <1>3, <3>1, <4>1
      <4>3. b + lb <= y
        BY <1>1, <1>2, <3>1, <4>2
      <4>4. g[x].length = la + lb
        BY <1>5, <3>1, <3>3
      <4>5. a + (la + lb) <= y
        BY <1>3, <3>1, <4>3
      <4> QED
        BY <3>3, <4>4, <4>5
    <3>4. CASE x # a
      BY <1>5, <3>1, <3>2, <3>4
    <3> QED
      BY <3>3, <3>4
  <2> QED
    BY <2>1, <2>2 DEF Spaced
<1>8. Linked(g, M)
  <2>1. ASSUME NEW x \in M
        PROVE  \/ g[x].next = NULL
               \/ g[x].next \in M /\ g[x].next = x + g[x].length
    <3>1. x \in L /\ x \in D
      BY <1>2
    <3>2. CASE x = a
      <4>1. g[x].next = e /\ g[x].length = la + lb
        BY <1>5, <3>1, <3>2
      <4>2. e = NULL \/ (e \in M /\ e = a + (la + lb))
        BY <1>3, <1>4, <1>6
      <4> QED
        BY <3>2, <4>1, <4>2
    <3>3. CASE x # a
      <4>1. g[x].next = h[x].next /\ g[x].length = h[x].length
        BY <1>5, <3>1, <3>3
      <4>2. h[x].next # b
        BY <1>2, <1>3, <3>1, <3>3
      <4> QED
        BY <1>2, <3>1, <4>1, <4>2
    <3> QED
      BY <3>2, <3>3
  <2>2. ASSUME NEW x \in M \ {0}
        PROVE  \E y \in M : g[y].next = x
    <3>1. PICK y \in L : h[y].next = x
      BY <1>2
    <3>2. x # b /\ y # a /\ a \in M /\ a \in D /\ y \in D
      BY <1>2, <1>3, <3>1
    <3>3. CASE y = b
      BY <1>1, <1>5, <3>1, <3>2, <3>3
    <3>4. CASE y # b
      BY <1>5, <3>1, <3>2, <3>4
    <3> QED
      BY <3>3, <3>4
  <2> QED
    BY <2>1, <2>2 DEF Linked
<1>9. Chained(g, M, max)
  <2>1. M \subseteq DOMAIN g /\ 0 \in M
    BY <1>2, <1>5, <1>6
  <2>2. g[0].prev = NULL
    BY <1>2, <1>5, <1>6
  <2> QED
    BY <1>7, <1>8, <2>1, <2>2 DEF Chained
<1>10. ASSUME NEW x \in M, x = e \/ Right(h, L, x), x # 0
       PROVE  g[x].prev \in M /\ g[g[x].prev].next = x
  <2>1. x \in L /\ x \in D /\ x # b
    BY <1>2
  <2>2. CASE x = e
    <3>1. g[x].prev = a /\ g[a].next = e /\ a \in M
      BY <1>3, <1>5, <1>6, <2>1, <2>2
    <3> QED
      BY <2>2, <3>1
  <2>3. CASE x # e
    <3>1. PICK y : y = h[x].prev
      OBVIOUS
    <3>2. y \in L /\ h[y].next = x
      BY <1>10, <2>3, <3>1 DEF Right
    <3>3. y # b /\ y # a /\ y \in D
      BY <1>1, <1>2, <2>1, <2>3, <3>2
    <3>4. g[x].prev = y /\ g[y].next = x
      BY <1>5, <2>1, <2>3, <3>1, <3>2, <3>3
    <3> QED
      BY <3>2, <3>3, <3>4
  <2> QED
    BY <2>2, <2>3
<1>11. \A x \in M : x = e \/ Right(h, L, x) => Right(g, M, x)
  BY <1>10 DEF Right
<1>12. g[a].prev = h[a].prev
  BY <1>3, <1>5, <1>6
<1>13. \A x \in L : /\ g[x].next = IF x = a THEN h[b].next ELSE h[x].next
                    /\ g[x].allocated = h[x].allocated
                    /\ x # a => g[x].length = h[x].length
  BY <1>1, <1>2, <1>5
<1> QED
  BY <1>1, <1>3, <1>5, <1>9, <1>11, <1>12, <1>13 DEF Merged

----------------------------------------------------------------------------
\* While kfree() is at work: the chunk c is free and may have free neighbours.
Nearly(h, L, max, c) ==
    /\ Chained(h, L, max)
    /\ c \in L /\ ~h[c].allocated /\ Right(h, L, c)
    /\ \A x \in L \ {c} : ~h[x].allocated =>
           /\ h[x].next # NULL
           /\ h[x].next = c \/ h[h[x].next].allocated
           /\ Right(h, L, x)

\* The chunks in use are the same.
Alike(h, L, g, M) ==
    /\ Used(g, M) = Used(h, L)
    /\ \A x \in Used(h, L) : g[x].length = h[x].length

\* The chunk p is marked free, and the list is cut behind the chunk q.
Marked(h, p) == [h EXCEPT ![p].allocated = FALSE]
Cut(h, q) == IF q = NULL THEN h ELSE [h EXCEPT ![q].next = NULL]

\* A chunk whose prev is right is marked free.
LEMMA MarkStep ==
    ASSUME NEW D \in SUBSET Nat, NEW h \in [D -> Header],
           NEW L \in SUBSET Nat, NEW max \in Nat, Tiled(h, L, max),
           NEW p \in L, Right(h, L, p)
    PROVE  LET g == Marked(h, p)
           IN  /\ g \in [D -> Header] /\ Nearly(g, L, max, p)
               /\ Used(g, L) = Used(h, L) \ {p}
               /\ \A x \in L : g[x].length = h[x].length
<1>0. PICK g : g = Marked(h, p)
  OBVIOUS
<1>1. /\ L \subseteq D /\ NULL \notin L
      /\ \A x \in L : h[x].next = NULL \/ h[x].next \in L
      /\ L # {} => 0 \in L
  BY ChainFacts DEF Tiled
<1>2. /\ g \in [D -> Header] /\ ~g[p].allocated
      /\ \A x \in D : /\ g[x].prev = h[x].prev /\ g[x].next = h[x].next
                      /\ g[x].length = h[x].length
                      /\ x # p => g[x] = h[x]
  <2>0. p \in D
    BY <1>1
  <2>1. /\ g \in [D -> Header] /\ ~g[p].allocated
        /\ g[p].prev = h[p].prev /\ g[p].next = h[p].next
        /\ g[p].length = h[p].length
        /\ \A x \in D : x # p => g[x] = h[x]
    BY <1>0, <2>0 DEF Header, Marked
  <2> QED
    BY <2>1
<1>3. \A x \in L : /\ g[x].prev = h[x].prev /\ g[x].next = h[x].next
                   /\ g[x].length = h[x].length
                   /\ x # p => g[x].allocated = h[x].allocated
  BY <1>1, <1>2
<1>4. Chained(g, L, max)
  <2>1. Spaced(g, L, max)
    BY <1>3 DEF Tiled, Chained, Spaced
  <2>2. Linked(g, L)
    BY <1>3 DEF Tiled, Chained, Linked
  <2>3. L # {} => 0 \in L /\ g[0].prev = NULL
    BY <1>3 DEF Tiled, Chained
  <2> QED
    BY <1>1, <1>2, <2>1, <2>2, <2>3 DEF Chained
<1>5. \A x \in L : Right(h, L, x) => Right(g, L, x)
  BY <1>3 DEF Right
<1>6. ASSUME NEW x \in L \ {p}, ~g[x].allocated
      PROVE  /\ g[x].next # NULL
             /\ g[x].next = p \/ g[g[x].next].allocated
             /\ Right(g, L, x)
  <2>1. x \in L /\ ~h[x].allocated /\ g[x].next = h[x].next
    BY <1>3, <1>6
  <2>2. /\ h[x].next # NULL /\ h[h[x].next].allocated /\ Right(h, L, x)
    BY <2>1 DEF Tiled
  <2>3. PICK y : y = h[x].next
    OBVIOUS
  <2>4. y \in L /\ h[y].allocated
    BY <1>1, <2>1, <2>2, <2>3
  <2>5. y = p \/ g[y].allocated
    BY <1>3, <2>4
  <2> QED
    BY <1>5, <2>1, <2>2, <2>3, <2>5
<1>7. Nearly(g, L, max, p)
  BY <1>2, <1>4, <1>5, <1>6 DEF Nearly
<1>8. Used(g, L) = Used(h, L) \ {p}
  BY <1>2, <1>3 DEF Used
<1> QED
  BY <1>0, <1>2, <1>3, <1>7, <1>8

\* It takes in a free chunk behind it.
LEMMA ForwardStep ==
    ASSUME NEW D \in SUBSET Nat, NEW h \in [D -> Header],
           NEW L \in SUBSET Nat, NEW max \in Nat, NEW c,
           Nearly(h, L, max, c), NextFree(h, c)
    PROVE  LET g == Absorb(h, c, h[c].next)
           IN  /\ g \in [D -> Header] /\ Nearly(g, L \ {h[c].next}, max, c)
               /\ ~NextFree(g, c)
               /\ Alike(h, L, g, L \ {h[c].next})
<1>1. PICK d, e, g : d = h[c].next /\ e = h[d].next /\ g = Absorb(h, c, d)
  OBVIOUS
<1> DEFINE M == L \ {d}
<1>2. /\ L \subseteq D /\ NULL \notin L
      /\ \A x \in L : \/ h[x].next = NULL
                      \/ h[x].next \in L /\ x < h[x].next
      /\ \A x, y \in L : h[x].next = h[y].next /\ h[x].next # NULL => x = y
  <2>1. Chained(h, L, max)
    BY DEF Nearly
  <2> QED
    BY <2>1, ChainFacts
<1>3. /\ c \in L /\ d \in L /\ d # NULL /\ ~h[d].allocated
      /\ ~h[c].allocated /\ c < d /\ c # d
  BY <1>1, <1>2 DEF Nearly, NextFree
<1>4. e # NULL /\ e \in L /\ h[e].allocated /\ d < e /\ e # c /\ e # d
  <2>1. e # NULL /\ (e = c \/ h[e].allocated)
    BY <1>1, <1>3 DEF Nearly
  <2>2. e \in L /\ d < e
    BY <1>1, <1>2, <1>3, <2>1
  <2>3. e \in Nat /\ d \in Nat /\ c \in Nat
    BY <1>3, <2>2
  <2> QED
    BY <1>3, <2>1, <2>2, <2>3
<1>5. /\ g \in [D -> Header] /\ Chained(g, M, max)
      /\ \A x \in L :
             /\ g[x].next = IF x = c THEN e ELSE h[x].next
             /\ g[x].allocated = h[x].allocated
             /\ x # c => g[x].length = h[x].length
      /\ g[c].prev = h[c].prev
      /\ \A x \in M : x = e \/ Right(h, L, x) => Right(g, M, x)
  <2>1. Chained(h, L, max) /\ c \in L /\ d \in L /\ h[c].next = d
    BY <1>1, <1>3 DEF Nearly
  <2>2. g \in [D -> Header] /\ Merged(g, h, L, max, c, d)
    BY <1>1, <2>1, AbsorbChained
  <2> QED
    BY <1>1, <2>2 DEF Merged
<1>6. c \in M /\ ~g[c].allocated /\ Right(g, M, c)
  BY <1>3, <1>5 DEF Nearly
<1>7. ASSUME NEW x \in M \ {c}, ~g[x].allocated
      PROVE  /\ g[x].next # NULL
             /\ g[x].next = c \/ g[g[x].next].allocated
             /\ Right(g, M, x)
  <2>1. x \in L \ {c} /\ ~h[x].allocated /\ g[x].next = h[x].next
    BY <1>5, <1>7
  <2>2. /\ h[x].next # NULL
        /\ h[x].next = c \/ h[h[x].next].allocated
        /\ Right(h, L, x)
    BY <2>1 DEF Nearly
  <2>3. h[x].next \in L
    BY <1>2, <2>1, <2>2
  <2> QED
    BY <1>5, <1>7, <2>1, <2>2, <2>3
<1>8. Nearly(g, M, max, c)
  BY <1>5, <1>6, <1>7 DEF Nearly
<1>9. ~NextFree(g, c)
  BY <1>3, <1>4, <1>5 DEF NextFree
<1>10. Used(g, M) = Used(h, L)
  BY <1>3, <1>5 DEF Used
<1>11. \A x \in Used(h, L) : g[x].length = h[x].length
  BY <1>3, <1>5 DEF Used
<1> QED
  BY <1>1, <1>5, <1>8, <1>9, <1>10, <1>11 DEF Alike

\* It is taken in by a free chunk before it.
LEMMA BackwardStep ==
    ASSUME NEW D \in SUBSET Nat, NEW h \in [D -> Header],
           NEW L \in SUBSET Nat, NEW max \in Nat, NEW c,
           Nearly(h, L, max, c), ~NextFree(h, c), PrevFree(h, c)
    PROVE  LET g == Absorb(h, h[c].prev, c)
           IN  /\ g \in [D -> Header] /\ Nearly(g, L \ {c}, max, h[c].prev)
               /\ ~NextFree(g, h[c].prev) /\ ~PrevFree(g, h[c].prev)
               /\ Alike(h, L, g, L \ {c})
<1>1. PICK q, e, g : /\ q = h[c].prev /\ e = h[c].next
                     /\ g = Absorb(h, q, c)
  OBVIOUS
<1> DEFINE M == L \ {c}
<1>2. /\ L \subseteq D /\ NULL \notin L
      /\ \A x \in L : \/ h[x].next = NULL
                      \/ h[x].next \in L /\ x < h[x].next
      /\ \A x, y \in L : h[x].next = h[y].next /\ h[x].next # NULL => x = y
      /\ L # {} => h[0].prev = NULL
  <2>1. Chained(h, L, max)
    BY DEF Nearly
  <2> QED
    BY <2>1, ChainFacts
<1>3. c \in L /\ ~h[c].allocated /\ q # NULL /\ ~h[q].allocated
  BY <1>1 DEF Nearly, PrevFree
<1>4. q \in L /\ h[q].next = c /\ c # NULL /\ q < c /\ q # c
  <2>1. c # 0
    BY <1>1, <1>2, <1>3
  <2>2. q \in L /\ h[q].next = c
    BY <1>1, <2>1 DEF Nearly, Right
  <2>3. c # NULL /\ q < c
    BY <1>2, <1>3, <2>2
  <2> QED
    BY <1>3, <2>2, <2>3
<1>5. e = NULL \/ (e \in L /\ c < e /\ e # c /\ e # q /\ h[e].allocated)
  <2>1. e = NULL \/ (e \in L /\ c < e)
    BY <1>1, <1>2, <1>3
  <2>2. e = NULL \/ h[e].allocated
    BY <1>1 DEF NextFree
  <2>3. ASSUME e \in L, c < e PROVE e # c /\ e # q
    <3>1. e \in Nat /\ c \in Nat /\ q \in Nat
      BY <1>3, <1>4, <2>3
    <3> QED
      BY <1>4, <2>3, <3>1
  <2> QED
    BY <2>1, <2>2, <2>3
<1>6. /\ g \in [D -> Header] /\ Chained(g, M, max)
      /\ \A x \in L :
             /\ g[x].next = IF x = q THEN e ELSE h[x].next
             /\ g[x].allocated = h[x].allocated
             /\ x # q => g[x].length = h[x].length
      /\ g[q].prev = h[q].prev
      /\ \A x \in M : x = e \/ Right(h, L, x) => Right(g, M, x)
  <2>1. Chained(h, L, max) /\ q \in L /\ c \in L /\ h[q].next = c
    BY <1>1, <1>3, <1>4 DEF Nearly
  <2>2. g \in [D -> Header] /\ Merged(g, h, L, max, q, c)
    BY <1>1, <2>1, AbsorbChained
  <2> QED
    BY <1>1, <2>2 DEF Merged
<1>7. Right(h, L, q)
  BY <1>3, <1>4 DEF Nearly
<1>8. q \in M /\ ~g[q].allocated /\ Right(g, M, q)
  BY <1>3, <1>4, <1>6, <1>7
<1>9. ASSUME NEW x \in M \ {q}, ~g[x].allocated
      PROVE  /\ g[x].next # NULL
             /\ g[x].next = q \/ g[g[x].next].allocated
             /\ Right(g, M, x)
  <2>1. x \in L \ {c} /\ ~h[x].allocated /\ g[x].next = h[x].next
    BY <1>6, <1>9
  <2>2. /\ h[x].next # NULL
        /\ h[x].next = c \/ h[h[x].next].allocated
        /\ Right(h, L, x)
    BY <2>1 DEF Nearly
  <2>3. h[x].next \in L /\ h[x].next # c
    BY <1>2, <1>4, <1>9, <2>1, <2>2
  <2> QED
    BY <1>6, <1>9, <2>1, <2>2, <2>3
<1>10. Nearly(g, M, max, q)
  BY <1>6, <1>8, <1>9 DEF Nearly
<1>11. ~NextFree(g, q)
  BY <1>4, <1>5, <1>6 DEF NextFree
<1>12. ~PrevFree(g, q)
  <2>1. CASE q = 0
    <3>1. g[q].prev = NULL
      BY <1>2, <1>3, <1>6, <2>1
    <3> QED
      BY <3>1 DEF PrevFree
  <2>2. CASE q # 0
    <3>1. PICK r : r = h[q].prev
      OBVIOUS
    <3>2. r \in L /\ h[r].next = q /\ q # c
      BY <1>4, <1>7, <2>2, <3>1 DEF Right
    <3>3. r # c
      <4>1. q \in Nat /\ c \in Nat /\ ~(c < q)
        BY <1>3, <1>4
      <4> QED
        BY <1>2, <1>3, <1>4, <3>2, <4>1
    <3>4. h[r].allocated
      BY <1>3, <1>4, <3>2, <3>3 DEF Nearly
    <3>5. g[q].prev = r /\ g[r].allocated
      BY <1>6, <3>1, <3>2, <3>4
    <3> QED
      BY <3>5 DEF PrevFree
  <2> QED
    BY <2>1, <2>2
<1>13. Used(g, M) = Used(h, L)
  BY <1>3, <1>6 DEF Used
<1>14. \A x \in Used(h, L) : g[x].length = h[x].length
  BY <1>3, <1>6 DEF Used
<1> QED
  BY <1>1, <1>6, <1>10, <1>11, <1>12, <1>13, <1>14 DEF Alike

\* When no neighbour is free the list is in order again, unless it ends with
\* the free chunk.
LEMMA GluedStep ==
    ASSUME NEW D \in SUBSET Nat, NEW h \in [D -> Header],
           NEW L \in SUBSET Nat, NEW max \in Nat, NEW c,
           Nearly(h, L, max, c), ~NextFree(h, c), ~PrevFree(h, c)
    PROVE  /\ \A x \in L \ {c} : ~h[x].allocated =>
                  h[x].next # c /\ h[h[x].next].allocated
           /\ h[c].next # NULL => Tiled(h, L, max)
<1>1. /\ L \subseteq D /\ NULL \notin L
      /\ \A x, y \in L : h[x].next = h[y].next /\ h[x].next # NULL => x = y
      /\ \A x \in L : \/ h[x].next = NULL
                      \/ h[x].next \in L /\ x < h[x].next
  <2>1. Chained(h, L, max)
    BY DEF Nearly
  <2> QED
    BY <2>1, ChainFacts
<1>2. ASSUME NEW x \in L \ {c}, ~h[x].allocated
      PROVE  h[x].next # c /\ h[h[x].next].allocated
  <2>1. h[x].next = c \/ h[h[x].next].allocated
    BY <1>2 DEF Nearly
  <2>2. h[x].next # c
    <3>1. SUFFICES ASSUME h[x].next = c PROVE FALSE
      OBVIOUS
    <3>2. c \in L /\ c # 0 /\ c # NULL
      <4>1. c \in L /\ c \in Nat /\ x \in Nat /\ x < c
        BY <1>1, <3>1 DEF Nearly
      <4> QED
        BY <1>1, <4>1
    <3>3. h[c].prev \in L /\ h[h[c].prev].next = c
      BY <3>2 DEF Nearly, Right
    <3>4. h[c].prev = x
      BY <1>1, <3>1, <3>2, <3>3
    <3>5. PrevFree(h, c)
      BY <1>1, <1>2, <3>4 DEF PrevFree
    <3> QED
      BY <3>5
  <2> QED
    BY <2>1, <2>2
<1>3. ASSUME h[c].next # NULL
      PROVE  Tiled(h, L, max)
  <2>1. h[h[c].next].allocated
    BY <1>3 DEF NextFree
  <2> QED
    BY <1>2, <1>3, <2>1 DEF Nearly, Tiled
<1> QED
  BY <1>2, <1>3

\* The headers when the list has been cut behind q.
LEMMA CutWrites ==
    ASSUME NEW D \in SUBSET Nat, NEW h \in [D -> Header], NEW q
    PROVE  LET g == Cut(h, q)
           IN  /\ g \in [D -> Header]
               /\ \A x \in D :
                      /\ g[x].next = IF x = q THEN NULL ELSE h[x].next
                      /\ g[x].prev = h[x].prev
                      /\ g[x].allocated = h[x].allocated
                      /\ g[x].length = h[x].length
<1>0. PICK g : g = Cut(h, q)
  OBVIOUS
<1>1. CASE q = NULL
  BY <1>1 DEF NULL, Cut
<1>2. CASE q # NULL
  <2>1. g = [h EXCEPT ![q].next = NULL]
    BY <1>0, <1>2 DEF Cut
  <2>2. \A x \in D : x # q => g[x] = h[x]
    BY <2>1
  <2>3. ASSUME q \in D
        PROVE  /\ g[q].prev = h[q].prev /\ g[q].next = NULL
               /\ g[q].allocated = h[q].allocated
               /\ g[q].length = h[q].length
    BY <2>1, <2>3 DEF Header
  <2>4. g \in [D -> Header]
    BY <2>1 DEF Header
  <2> QED
    BY <1>0, <2>2, <2>3, <2>4
<1> QED
  BY <1>1, <1>2

\* f are the headers below a new end of memory.
Below(f, g, new) ==
    \A x \in DOMAIN g : x < new => x \in DOMAIN f /\ f[x] = g[x]

\* What is left when the list loses its last chunk.
LEMMA CutTiled ==
    ASSUME NEW D \in SUBSET Nat, NEW h \in [D -> Header],
           NEW L \in SUBSET Nat, NEW max \in Nat, NEW c,
           Nearly(h, L, max, c), ~NextFree(h, c), ~PrevFree(h, c),
           h[c].next = NULL,
           NEW new \in Nat, c <= new, NEW f, Below(f, Cut(h, h[c].prev), new)
    PROVE  /\ h[c].prev = NULL <=> L \ {c} = {}
           /\ Tiled(f, L \ {c}, new)
           /\ Alike(h, L, f, L \ {c})
<1> DEFINE M == L \ {c}
<1>1. PICK q, g : q = h[c].prev /\ g = Cut(h, q)
  OBVIOUS
<1>2. /\ L \subseteq D /\ NULL \notin D /\ NULL \notin L
      /\ \A x \in L : /\ h[x].length \in Nat /\ h[x].length >= 1
                      /\ x + h[x].length <= max /\ x < max
      /\ \A x \in L : \/ h[x].next = NULL
                      \/ /\ h[x].next \in L /\ h[x].next = x + h[x].length
                         /\ x < h[x].next /\ h[x].next # NULL
      /\ \A x, y \in L : x < y => x + h[x].length <= y
      /\ \A x, y \in L : h[x].next = h[y].next /\ h[x].next # NULL => x = y
      /\ \A x \in L \ {0} : \E y \in L : h[y].next = x
      /\ L # {} => 0 \in L /\ h[0].prev = NULL
  <2>1. Chained(h, L, max)
    BY DEF Nearly
  <2> QED
    BY <2>1, ChainFacts
<1>3. c \in L /\ ~h[c].allocated /\ c \in Nat /\ 0 \in L /\ h[0].prev = NULL
  BY <1>2 DEF Nearly
<1>4. \A x \in L : x <= c
  BY <1>2, <1>3, LastIsMax DEF Nearly
<1>5. \A x \in M : x \in L /\ x \in D /\ x < c /\ x + h[x].length <= c
  <2> TAKE x \in M
  <2>1. x \in L /\ x \in D /\ x <= c /\ x # c /\ x \in Nat
    BY <1>2, <1>4
  <2>2. x < c
    BY <1>3, <2>1
  <2> QED
    BY <1>2, <1>3, <2>1, <2>2
<1>6. c # 0 => /\ q \in M /\ h[q].next = c /\ h[q].allocated
               /\ q \in D /\ q # NULL
  <2>1. SUFFICES ASSUME c # 0
                 PROVE  /\ q \in M /\ h[q].next = c /\ h[q].allocated
                        /\ q \in D /\ q # NULL
    OBVIOUS
  <2>2. q \in L /\ h[q].next = c
    BY <1>1, <2>1 DEF Nearly, Right
  <2>3. q # NULL /\ q # c
    BY <1>2, <1>3, <2>2
  <2>4. h[q].allocated
    BY <1>1, <2>3 DEF PrevFree
  <2> QED
    BY <1>2, <2>2, <2>3, <2>4
<1>7. c = 0 => q = NULL
  BY <1>1, <1>3
<1>8. \A x \in D : /\ g[x].next = IF x = q THEN NULL ELSE h[x].next
                   /\ g[x].prev = h[x].prev
                   /\ g[x].allocated = h[x].allocated
                   /\ g[x].length = h[x].length
  BY <1>1, CutWrites
<1>81. \A x \in D : x < new => x \in DOMAIN f /\ f[x] = g[x]
  <2>1. DOMAIN g = D
    BY <1>1, CutWrites
  <2> QED
    BY <1>1, <2>1 DEF Below
<1>9. \A x \in M : /\ x \in DOMAIN f
                   /\ f[x].next = IF x = q THEN NULL ELSE h[x].next
                   /\ f[x].prev = h[x].prev
                   /\ f[x].allocated = h[x].allocated
                   /\ f[x].length = h[x].length
  <2> TAKE x \in M
  <2>1. x \in D /\ x < new /\ x # NULL /\ x \in Nat
    <3>1. x \in D /\ x \in L /\ x < c /\ x \in Nat
      BY <1>5
    <3> QED
      BY <1>2, <1>3, <3>1
  <2> QED
    BY <1>8, <1>81, <2>1
<1>10. M = {} <=> q = NULL
  <2>1. c = 0 => M = {}
    <3>1. SUFFICES ASSUME c = 0, NEW x \in M PROVE FALSE
      OBVIOUS
    <3>2. x < 0 /\ x \in Nat
      BY <1>5, <3>1
    <3> QED
      BY <3>2
  <2> QED
    BY <1>6, <1>7, <2>1
<1>11. Spaced(f, M, new)
  <2>1. \A x \in M : f[x].length >= 1 /\ x + f[x].length <= new
    <3> TAKE x \in M
    <3>1. PICK l : l = h[x].length
      OBVIOUS
    <3>2. /\ l \in Nat /\ l >= 1 /\ x + l <= c /\ x \in Nat
          /\ f[x].length = l
      BY <1>2, <1>5, <1>9, <3>1
    <3> QED
      BY <1>3, <3>2
  <2>2. \A x, y \in M : x < y => x + f[x].length <= y
    BY <1>2, <1>5, <1>9
  <2> QED
    BY <2>1, <2>2 DEF Spaced
<1>12. Linked(f, M)
  <2>1. ASSUME NEW x \in M
        PROVE  \/ f[x].next = NULL
               \/ f[x].next \in M /\ f[x].next = x + f[x].length
    <3>1. CASE x = q
      BY <1>9, <3>1
    <3>2. CASE x # q
      <4>1. f[x].next = h[x].next /\ f[x].length = h[x].length
        BY <1>9, <3>2
      <4>2. x \in L
        OBVIOUS
      <4>3. h[x].next # c
        <5>1. SUFFICES ASSUME h[x].next = c PROVE FALSE
          OBVIOUS
        <5>2. c # 0 /\ c # NULL
          <6>1. x \in Nat /\ x < c
            BY <1>5
          <6> QED
            BY <1>2, <1>3, <6>1
        <5> QED
          BY <1>2, <1>6, <3>2, <4>2, <5>1, <5>2
      <4> QED
        BY <1>2, <4>1, <4>2, <4>3
    <3> QED
      BY <3>1, <3>2
  <2>2. ASSUME NEW x \in M \ {0}
        PROVE  \E y \in M : f[y].next = x
    <3>1. PICK y \in L : h[y].next = x
      BY <1>2
    <3>2. y # c /\ y # q
      <4>1. x # NULL /\ x # c
        BY <1>2
      <4>2. y = q => c # 0
        BY <1>2, <1>7, <3>1
      <4> QED
        BY <1>6, <3>1, <4>1, <4>2
    <3> QED
      BY <1>9, <3>1, <3>2
  <2> QED
    BY <2>1, <2>2 DEF Linked
<1>13. Chained(f, M, new)
  <2>1. M \subseteq DOMAIN f
    BY <1>9
  <2>2. M # {} => 0 \in M /\ f[0].prev = NULL
    <3>1. SUFFICES ASSUME M # {} PROVE 0 \in M /\ f[0].prev = NULL
      OBVIOUS
    <3>2. c # 0
      BY <1>7, <1>10, <3>1
    <3> QED
      BY <1>3, <1>9, <3>2
  <2> QED
    BY <1>11, <1>12, <2>1, <2>2 DEF Chained
<1>14. ASSUME NEW x \in M, ~f[x].allocated
       PROVE  /\ f[x].next # NULL /\ f[f[x].next].allocated
              /\ Right(f, M, x)
  <2>1. x \in L \ {c} /\ ~h[x].allocated
    BY <1>9, <1>14
  <2>2. /\ h[x].next # NULL /\ h[x].next # c
        /\ h[h[x].next].allocated /\ Right(h, L, x)
    BY <2>1, GluedStep DEF Nearly
  <2>3. x # q
    <3>1. q = NULL \/ h[q].allocated
      BY <1>6, <1>7
    <3> QED
      BY <1>2, <2>1, <3>1
  <2>4. f[x].next = h[x].next /\ h[x].next \in M
    BY <1>2, <1>9, <2>1, <2>2, <2>3
  <2>5. f[f[x].next].allocated
    BY <1>9, <2>2, <2>4
  <2>6. Right(f, M, x)
    <3>1. SUFFICES ASSUME x # 0
                   PROVE  f[x].prev \in M /\ f[f[x].prev].next = x
      BY DEF Right
    <3>2. PICK y : y = h[x].prev
      OBVIOUS
    <3>3. y \in L /\ h[y].next = x
      BY <2>2, <3>1, <3>2 DEF Right
    <3>4. y # c /\ y # q
      <4>1. x # NULL /\ x # c
        BY <1>2
      <4>2. y = q => c # 0
        BY <1>2, <1>7, <3>3
      <4> QED
        BY <1>6, <3>3, <4>1, <4>2
    <3> QED
      BY <1>9, <3>2, <3>3, <3>4
  <2> QED
    BY <2>2, <2>4, <2>5, <2>6
<1>15. Tiled(f, M, new)
  BY <1>13, <1>14 DEF Tiled
<1>16. Alike(h, L, f, M)
  <2>1. Used(f, M) = Used(h, L)
    BY <1>3, <1>9 DEF Used
  <2>2. \A x \in Used(h, L) : f[x].length = h[x].length
    BY <1>3, <1>9 DEF Used
  <2> QED
    BY <2>1, <2>2 DEF Alike
<1> QED
  BY <1>1, <1>8, <1>10, <1>15, <1>16

----------------------------------------------------------------------------
\* A block is handed out, in a chunk of its own.
LEMMA HeldMore ==
    ASSUME NEW h, NEW g, NEW blocks, NEW C, NEW a \in Nat, NEW size,
           blocks \subseteq [at : Nat, len : Sizes], C \subseteq Nat,
           HeldIn(h, blocks, C), a \notin C,
           \A c \in C : g[c].length = h[c].length,
           size + HEADER <= g[a].length
    PROVE  HeldIn(g, blocks \cup {[at |-> a + HEADER, len |-> size]},
                  C \cup {a})
<1> DEFINE x == [at |-> a + HEADER, len |-> size]
           D == C \cup {a}
           all == blocks \cup {x}
<1>0. HEADER = 1
  BY DEF HEADER
<1>1. /\ x.at = a + HEADER /\ x.len = size /\ a \in Nat
      /\ x.at - HEADER = a
  BY <1>0
<1>2. \A b \in blocks : b.at \in Nat /\ b.at - HEADER \in C
                        /\ b.len + HEADER <= h[b.at - HEADER].length
  BY DEF HeldIn
<1>3. \A b \in blocks : b.at # x.at
  <2>1. \A b \in blocks : b.at - HEADER # a
    BY <1>2
  <2> HIDE DEF x
  <2> QED
    BY <1>1, <2>1
<1> HIDE DEF x
<1>4. \A b \in all : /\ b.at - HEADER \in D
                     /\ b.len + HEADER <= g[b.at - HEADER].length
  BY <1>1, <1>2
<1>5. \A c \in D : \E b \in all : b.at = c + HEADER
  <2>1. \A c \in C : \E b \in blocks : b.at = c + HEADER
    BY DEF HeldIn
  <2> QED
    BY <1>1, <2>1
<1>6. \A b, d \in all : b.at = d.at => b = d
  <2>1. \A b, d \in blocks : b.at = d.at => b = d
    BY DEF HeldIn
  <2> QED
    BY <1>3, <2>1
<1>7. HeldIn(g, all, D)
  BY <1>4, <1>5, <1>6 DEF HeldIn
<1> QED
  BY <1>7 DEF x

\* A block is freed, and the others keep their chunks.
LEMMA HeldLess ==
    ASSUME NEW h, NEW g, NEW blocks, NEW C, NEW b \in blocks,
           blocks \subseteq [at : Nat, len : Sizes], C \subseteq Nat,
           HeldIn(h, blocks, C),
           \A c \in C \ {b.at - HEADER} : g[c].length >= h[c].length,
           \A c \in C \ {b.at - HEADER} :
               h[c].length \in Nat /\ g[c].length \in Nat
    PROVE  HeldIn(g, blocks \ {b}, C \ {b.at - HEADER})
<1>0. HEADER = 1
  BY DEF HEADER
<1>1. \A d \in blocks : d.at \in Nat /\ d.at - HEADER \in C
                        /\ d.len \in Nat
                        /\ d.len + HEADER <= h[d.at - HEADER].length
  <2>1. \A d \in blocks : d.at \in Nat /\ d.len \in Sizes
    OBVIOUS
  <2>2. Sizes \subseteq Nat
    BY Constants
  <2>3. \A d \in blocks : /\ d.at - HEADER \in C
                         /\ d.len + HEADER <= h[d.at - HEADER].length
    BY DEF HeldIn
  <2> QED
    BY <2>1, <2>2, <2>3
<1>2. \A d \in blocks \ {b} : d.at # b.at
  BY DEF HeldIn
<1>3. \A d \in blocks \ {b} : d.at - HEADER # b.at - HEADER
  BY <1>0, <1>1, <1>2
<1>4. ASSUME NEW d \in blocks \ {b}
      PROVE  d.len + HEADER <= g[d.at - HEADER].length
  <2>1. d.at - HEADER \in C \ {b.at - HEADER}
    BY <1>1, <1>3
  <2>2. PICK e \in C \ {b.at - HEADER} : e = d.at - HEADER
    BY <2>1
  <2>3. /\ d.len + HEADER <= h[e].length /\ d.len \in Nat
        /\ g[e].length >= h[e].length
        /\ g[e].length \in Nat /\ h[e].length \in Nat
    BY <1>1, <2>2
  <2> QED
    BY <1>0, <2>2, <2>3
<1>5. \A c \in C \ {b.at - HEADER} : \E d \in blocks \ {b} :
          d.at = c + HEADER
  <2> TAKE c \in C \ {b.at - HEADER}
  <2>1. PICK d \in blocks : d.at = c + HEADER
    BY DEF HeldIn
  <2>2. d # b
    BY <1>0, <2>1
  <2> QED
    BY <2>1, <2>2
<1>6. \A d, e \in blocks \ {b} : d.at = e.at => d = e
  BY DEF HeldIn
<1> QED
  BY <1>1, <1>3, <1>4, <1>5, <1>6 DEF HeldIn

\* A block is added.
LEMMA MoreBlocks ==
    ASSUME HeapTypes, Cardinality(live) < MaxLive, NEW size \in Sizes,
           NEW a \in Nat, live' = live \cup {[at |-> a + HEADER, len |-> size]}
    PROVE  /\ live' \subseteq [at : Nat, len : Sizes]
           /\ IsFiniteSet(live') /\ Cardinality(live') <= MaxLive
<1>1. [at |-> a + HEADER, len |-> size] \in [at : Nat, len : Sizes]
  BY DEF HEADER
<1>2. /\ live \subseteq [at : Nat, len : Sizes] /\ IsFiniteSet(live)
      /\ Cardinality(live) \in Nat /\ MaxLive \in Nat
  BY FS_CardinalityType, Constants DEF HeapTypes
<1>3. PICK x : x = [at |-> a + HEADER, len |-> size]
  OBVIOUS
<1>4. /\ IsFiniteSet(live \cup {x})
      /\ Cardinality(live \cup {x})
             = IF x \in live THEN Cardinality(live) ELSE Cardinality(live) + 1
  BY <1>2, FS_AddElement
<1> QED
  BY <1>1, <1>2, <1>3, <1>4

\* A block is taken away.
LEMMA FewerBlocks ==
    ASSUME HeapTypes, NEW b \in live, live' = live \ {b}
    PROVE  /\ live' \subseteq [at : Nat, len : Sizes]
           /\ IsFiniteSet(live') /\ Cardinality(live') <= MaxLive
<1>1. /\ live \subseteq [at : Nat, len : Sizes] /\ IsFiniteSet(live)
      /\ Cardinality(live) \in Nat /\ MaxLive \in Nat
      /\ Cardinality(live) <= MaxLive
  BY FS_CardinalityType, Constants DEF HeapTypes
<1>2. /\ IsFiniteSet(live \ {b})
      /\ Cardinality(live \ {b}) = Cardinality(live) - 1
  BY <1>1, FS_RemoveElement
<1> QED
  BY <1>1, <1>2

\* The heap's pages reach as far as the new chunk.
LEMMA Reaches ==
    ASSUME PageTypes, NEW len \in Nat \ {0}, chunk_start \in Nat
    PROVE  LET k == alloc_chunk(chunk_start + len)
           IN  /\ k \in Nat
               /\ chunk_start + len <= PGSIZE * (Len(heap_map) + k)
<1>1. PICK P, n, e : P = PGSIZE /\ n = Len(heap_map) /\ e = chunk_start + len
  OBVIOUS
<1>2. P \in Nat /\ P >= 1 /\ n \in Nat /\ e \in Nat /\ heap_max = P * n
  BY <1>1, HeapFacts
<1>3. CASE e <= P * n
  <2>1. alloc_chunk(e) = 0
    BY <1>2, <1>3 DEF alloc_chunk
  <2> QED
    BY <1>1, <1>2, <1>3, <2>1
<1>4. CASE ~(e <= P * n)
  <2>1. PICK x : x = e - P * n
    OBVIOUS
  <2>2. P * n \in Nat /\ x \in Nat
    BY <1>2, <1>4, <2>1
  <2>3. PICK k : k = (x + P - 1) \div P
    OBVIOUS
  <2>4. k \in Nat /\ x <= P * k
    BY <1>2, <2>2, <2>3
  <2>5. P * (n + k) = P * n + P * k
    BY <1>2, <2>4
  <2>6. e <= P * (n + k)
    BY <1>2, <2>1, <2>2, <2>4, <2>5
  <2>7. alloc_chunk(e) = k
    BY <1>1, <1>2, <1>4, <2>1, <2>3 DEF alloc_chunk
  <2> QED
    BY <1>1, <2>4, <2>6, <2>7
<1> QED
  BY <1>3, <1>4

\* A growing heap takes pages until it reaches the new chunk's end.
LEMMA GrowStep ==
    ASSUME PageInv, PopAtomic, Interruptible, NEW len \in Nat \ {0},
           kmalloc_grow(len), chunk_start \in Nat,
           UNCHANGED <<shellVars, stack_map>>
    PROVE  /\ PageInv'
           /\ heap_max' \in Nat /\ heap_max <= heap_max'
           /\ chunk_start + len <= heap_max'
<1>1. PICK k : k = alloc_chunk(chunk_start + len)
  OBVIOUS
<1>2. /\ k \in Nat /\ chunk_start + len <= PGSIZE * (Len(heap_map) + k)
  BY <1>1, Reaches DEF PageInv
<1>3. /\ k <= Left /\ Zeroed_refs(k) /\ pmm_stack' = pmm_stack
      /\ pmm_stack_top' = pmm_stack_top - k
      /\ heap_map' = heap_map \o Popped(k)
  BY <1>1 DEF kmalloc_grow, Available, pmm_alloc_pages
<1>4. pc \notin {"store", "read"}
  BY DEF Interruptible
<1>5. PageInv' /\ Len(heap_map') = Len(heap_map) + k
  BY <1>2, <1>3, <1>4, GrowPages
<1>6. PGSIZE \in Nat /\ Len(heap_map) \in Nat
      /\ heap_max = PGSIZE * Len(heap_map)
      /\ heap_max' = PGSIZE * (Len(heap_map) + k)
  BY <1>5, HeapFacts DEF PageInv, heap_max
<1>7. /\ PGSIZE * (Len(heap_map) + k) = PGSIZE * Len(heap_map) + PGSIZE * k
      /\ PGSIZE * k \in Nat /\ PGSIZE * Len(heap_map) \in Nat
  BY <1>2, <1>6
<1> QED
  BY <1>2, <1>5, <1>6, <1>7

\* free(), step by step: what the headers are when the chunk is marked free,
\* merged with the next one, merged with the one before, and cut.
Steps(p, freed, forward, glued, c) ==
    /\ freed = Marked(header, p)
    /\ forward = IF NextFree(freed, p) THEN Absorb(freed, p, freed[p].next)
                 ELSE freed
    /\ c = IF PrevFree(forward, p) THEN forward[p].prev ELSE p
    /\ glued = IF PrevFree(forward, p) THEN Absorb(forward, c, p) ELSE forward
    /\ glued[c].next # NULL =>
           header' = glued /\ UNCHANGED <<heap_first, heap_map, pageVars>>

LastStep(glued, c, cut, keep) ==
    /\ cut = Cut(glued, glued[c].prev)
    /\ keep = IF (c + PGSIZE - 1) \div PGSIZE < Len(heap_map)
              THEN (c + PGSIZE - 1) \div PGSIZE ELSE Len(heap_map)
    /\ heap_first' = IF glued[c].prev = NULL THEN NULL ELSE heap_first
    /\ heap_map' = SubSeq(heap_map, 1, keep)
    /\ page_remove(Reverse(SubSeq(heap_map, keep + 1, Len(heap_map))))
    /\ header' = Restrict(cut, {a \in DOMAIN cut : a < PGSIZE * keep})

\* kfree() goes through these states of the headers.
LEMMA FreeSteps ==
    ASSUME NEW p, kfree(p)
    PROVE  \E freed, forward, glued, c :
               /\ Steps(p, freed, forward, glued, c)
               /\ glued[c].next = NULL =>
                      \E cut, keep : LastStep(glued, c, cut, keep)
<1> DEFINE f == [header EXCEPT ![p].allocated = FALSE]
           w == IF NextFree(f, p) THEN Absorb(f, p, f[p].next) ELSE f
           b == PrevFree(w, p)
           d == IF b THEN w[p].prev ELSE p
           g == IF b THEN Absorb(w, d, p) ELSE w
           prev == g[d].prev
           h == IF prev = NULL THEN g ELSE [g EXCEPT ![prev].next = NULL]
           pages == (d + PGSIZE - 1) \div PGSIZE
           k == IF pages < Len(heap_map) THEN pages ELSE Len(heap_map)
<1>1. IF g[d].next # NULL
      THEN header' = g /\ UNCHANGED <<heap_first, heap_map, pageVars>>
      ELSE /\ heap_first' = IF prev = NULL THEN NULL ELSE heap_first
           /\ heap_map' = SubSeq(heap_map, 1, k)
           /\ page_remove(Reverse(SubSeq(heap_map, k + 1, Len(heap_map))))
           /\ header' = Restrict(h, {a \in DOMAIN h : a < PGSIZE * k})
  BY Zenon DEF kfree
<1> HIDE DEF f, w, b, d, g, prev, h, pages, k
<1>2. f = Marked(header, p)
  BY DEF f, Marked
<1>3. w = IF NextFree(f, p) THEN Absorb(f, p, f[p].next) ELSE f
  BY Zenon DEF w
<1>4. d = IF PrevFree(w, p) THEN w[p].prev ELSE p
  BY Zenon DEF d, b
<1>5. g = IF PrevFree(w, p) THEN Absorb(w, d, p) ELSE w
  BY Zenon DEF g, b
<1>6. prev = g[d].prev
  BY DEF prev
<1>7. h = Cut(g, g[d].prev)
  BY Zenon DEF h, prev, Cut
<1>8. k = IF (d + PGSIZE - 1) \div PGSIZE < Len(heap_map)
          THEN (d + PGSIZE - 1) \div PGSIZE ELSE Len(heap_map)
  BY DEF k, pages
<1>9. g[d].next # NULL =>
          /\ header' = g
          /\ UNCHANGED <<heap_first, heap_map, pageVars>>
  BY <1>1
<1>10. ASSUME g[d].next = NULL
       PROVE  /\ heap_first' = IF g[d].prev = NULL THEN NULL ELSE heap_first
              /\ heap_map' = SubSeq(heap_map, 1, k)
              /\ page_remove(Reverse(SubSeq(heap_map, k + 1,
                                            Len(heap_map))))
              /\ header' = Restrict(h, {a \in DOMAIN h : a < PGSIZE * k})
  BY <1>1, <1>6, <1>10
<1>11. g[d].next = NULL => LastStep(g, d, h, k)
  BY <1>7, <1>8, <1>10 DEF LastStep
<1>12. Steps(p, f, w, g, d)
  BY <1>2, <1>3, <1>4, <1>5, <1>9, Zenon DEF Steps
<1> QED
  BY <1>11, <1>12

\* What stays mapped when the list ends before address c.
LEMMA KeptPages ==
    ASSUME PageTypes, NEW c \in Nat, c <= heap_max, NEW keep,
           keep = IF (c + PGSIZE - 1) \div PGSIZE < Len(heap_map)
                  THEN (c + PGSIZE - 1) \div PGSIZE ELSE Len(heap_map)
    PROVE  /\ keep \in 0 .. Len(heap_map)
           /\ PGSIZE * keep \in Nat /\ c <= PGSIZE * keep
           /\ PGSIZE * keep <= heap_max
<1>1. PICK P, n : P = PGSIZE /\ n = Len(heap_map)
  OBVIOUS
<1>2. P \in Nat /\ P >= 1 /\ n \in Nat /\ heap_max = P * n
  BY <1>1, HeapFacts
<1>3. PICK k : k = (c + P - 1) \div P
  OBVIOUS
<1>4. k \in Nat /\ c <= P * k
  BY <1>2, <1>3
<1>5. keep = IF k < n THEN k ELSE n
  BY <1>1, <1>3
<1>6. keep \in 0 .. n
  BY <1>2, <1>4, <1>5
<1>7. c <= P * keep
  BY <1>2, <1>4, <1>5
<1>8. P * keep \in Nat /\ P * keep <= P * n
  BY <1>2, <1>6
<1> QED
  BY <1>1, <1>2, <1>6, <1>7, <1>8

\* The list ends before address c.
LEMMA CutStep ==
    ASSUME PageInv, PopAtomic, Interruptible,
           UNCHANGED <<shellVars, stack_map>>,
           NEW c \in Nat, c <= heap_max,
           NEW D, NEW cut \in [D -> Header], D \subseteq 0 .. heap_max - 1,
           NEW glued, NEW keep, LastStep(glued, c, cut, keep)
    PROVE  /\ PageInv'
           /\ heap_max' \in Nat /\ c <= heap_max'
           /\ header' \in [DOMAIN header' -> Header]
           /\ DOMAIN header' \subseteq 0 .. heap_max' - 1
           /\ \A x \in D : x < heap_max' =>
                  x \in DOMAIN header' /\ header'[x] = cut[x]
<1>0. /\ keep = IF (c + PGSIZE - 1) \div PGSIZE < Len(heap_map)
                THEN (c + PGSIZE - 1) \div PGSIZE ELSE Len(heap_map)
      /\ heap_map' = SubSeq(heap_map, 1, keep)
      /\ page_remove(Reverse(SubSeq(heap_map, keep + 1, Len(heap_map))))
      /\ header' = Restrict(cut, {a \in DOMAIN cut : a < PGSIZE * keep})
  BY DEF LastStep
<1>1. /\ keep \in 0 .. Len(heap_map)
      /\ PGSIZE * keep \in Nat /\ c <= PGSIZE * keep
  BY <1>0, KeptPages DEF PageInv
<1>2. PageInv'
  <2>1. pc \notin {"store", "read"}
    BY DEF Interruptible
  <2> QED
    BY <1>0, <1>1, <2>1, ShrinkPages
<1>3. PICK M : M = PGSIZE * keep
  OBVIOUS
<1>4. heap_max' = M
  <2>1. heap_map \in Seq(Page) /\ Len(heap_map) \in Nat
    BY TypeFacts DEF PageInv, PageTypes
  <2>2. Len(SubSeq(heap_map, 1, keep)) = keep
    BY <1>1, <2>1
  <2> QED
    BY <1>0, <1>3, <2>2 DEF heap_max
<1>5. PICK E : E = {a \in D : a < M}
  OBVIOUS
<1>6. header' \in [E -> Header] /\ \A x \in E : header'[x] = cut[x]
  BY <1>0, <1>3, <1>5 DEF Restrict
<1>7. DOMAIN header' = E
  BY <1>6
<1>8. E \subseteq 0 .. M - 1
  <2>1. \A a \in E : a \in Nat /\ a < M
    BY <1>5
  <2> QED
    BY <1>1, <1>3, <2>1
<1>9. \A x \in D : x < M => x \in E
  BY <1>5
<1> QED
  BY <1>1, <1>2, <1>3, <1>4, <1>6, <1>7, <1>8, <1>9

----------------------------------------------------------------------------
\* The headers stay headers in every step of kfree().
LEMMA FreeTypes ==
    ASSUME NEW D \in SUBSET Nat, D = DOMAIN header,
           header \in [D -> Header], NEW p, Followed(p),
           NEW freed, NEW forward, NEW glued, NEW c,
           Steps(p, freed, forward, glued, c)
    PROVE  /\ p \in D /\ c \in D
           /\ freed \in [D -> Header] /\ forward \in [D -> Header]
           /\ glued \in [D -> Header]
<1>1. /\ p \in D /\ NULL \notin D
      /\ header[p].next \in D \cup {NULL}
      /\ header[p].prev \in D \cup {NULL}
  BY DEF Followed, NULL
<1>2. /\ freed \in [D -> Header]
      /\ freed[p].next = header[p].next /\ freed[p].prev = header[p].prev
  <2>1. freed = [header EXCEPT ![p].allocated = FALSE]
    BY DEF Steps, Marked
  <2> QED
    BY <1>1, <2>1 DEF Header
<1>3. /\ forward \in [D -> Header]
      /\ forward[p].prev \in D \cup {NULL}
  <2>1. CASE ~NextFree(freed, p)
    <3>1. forward = freed
      BY <2>1 DEF Steps
    <3> QED
      BY <1>1, <1>2, <3>1
  <2>2. CASE NextFree(freed, p)
    <3>1. PICK d : d = freed[p].next
      OBVIOUS
    <3>2. d \in D
      BY <1>1, <1>2, <2>2, <3>1 DEF NextFree
    <3>3. forward = Absorb(freed, p, d)
      BY <2>2, <3>1 DEF Steps
    <3>4. /\ forward \in [D -> Header]
          /\ forward[p].prev \in {freed[p].prev, p}
      BY <1>1, <1>2, <3>2, <3>3, AbsorbTypes
    <3> QED
      BY <1>1, <1>2, <3>4
  <2> QED
    BY <2>1, <2>2
<1>4. glued \in [D -> Header] /\ c \in D
  <2>1. CASE ~PrevFree(forward, p)
    <3>1. glued = forward /\ c = p
      BY <2>1 DEF Steps
    <3> QED
      BY <1>1, <1>3, <3>1
  <2>2. CASE PrevFree(forward, p)
    <3>1. c \in D
      BY <1>3, <2>2 DEF Steps, PrevFree
    <3>2. glued = Absorb(forward, c, p)
      BY <2>2 DEF Steps
    <3>3. glued \in [D -> Header]
      BY <1>1, <1>3, <3>1, <3>2, AbsorbTypes
    <3> QED
      BY <3>1, <3>3
  <2> QED
    BY <2>1, <2>2
<1> QED
  BY <1>1, <1>2, <1>3, <1>4

\* The freed chunk and its free neighbours become one chunk, which has no free
\* neighbour.
LEMMA GlueSteps ==
    ASSUME NEW D \in SUBSET Nat, NEW freed \in [D -> Header],
           NEW L \in SUBSET Nat, NEW max \in Nat, NEW p,
           Nearly(freed, L, max, p),
           NEW forward, NEW glued, NEW c, Steps(p, freed, forward, glued, c)
    PROVE  \E M \in SUBSET Nat :
               /\ Nearly(glued, M, max, c)
               /\ ~NextFree(glued, c) /\ ~PrevFree(glued, c)
               /\ Alike(freed, L, glued, M)
<1>1. PICK K \in SUBSET Nat : /\ forward \in [D -> Header]
                              /\ Nearly(forward, K, max, p)
                              /\ ~NextFree(forward, p)
                              /\ Alike(freed, L, forward, K)
  <2>1. CASE ~NextFree(freed, p)
    <3>1. forward = freed
      BY <2>1 DEF Steps
    <3> QED
      BY <2>1, <3>1 DEF Alike
  <2>2. CASE NextFree(freed, p)
    <3>1. forward = Absorb(freed, p, freed[p].next)
      BY <2>2 DEF Steps
    <3>2. /\ forward \in [D -> Header]
          /\ Nearly(forward, L \ {freed[p].next}, max, p)
          /\ ~NextFree(forward, p)
          /\ Alike(freed, L, forward, L \ {freed[p].next})
      BY <2>2, <3>1, ForwardStep
    <3>3. L \ {freed[p].next} \in SUBSET Nat
      OBVIOUS
    <3> QED
      BY <3>2, <3>3
  <2> QED
    BY <2>1, <2>2
<1>2. CASE ~PrevFree(forward, p)
  <2>1. glued = forward /\ c = p
    BY <1>2 DEF Steps
  <2> QED
    BY <1>1, <1>2, <2>1
<1>3. CASE PrevFree(forward, p)
  <2>1. c = forward[p].prev /\ glued = Absorb(forward, forward[p].prev, p)
    BY <1>3 DEF Steps
  <2>2. /\ glued \in [D -> Header]
        /\ Nearly(glued, K \ {p}, max, forward[p].prev)
        /\ ~NextFree(glued, forward[p].prev)
        /\ ~PrevFree(glued, forward[p].prev)
        /\ Alike(forward, K, glued, K \ {p})
    BY <1>1, <1>3, <2>1, BackwardStep
  <2>3. K \ {p} \in SUBSET Nat
    OBVIOUS
  <2>4. Alike(freed, L, glued, K \ {p})
    BY <1>1, <2>2 DEF Alike
  <2> QED
    BY <2>1, <2>2, <2>3, <2>4
<1> QED
  BY <1>2, <1>3

\* The list after kfree(), when prev of the freed chunk is right.
LEMMA FreeList ==
    ASSUME NEW D \in SUBSET Nat, D = DOMAIN header,
           header \in [D -> Header], PageTypes, HeapTypes,
           NEW L \in SUBSET Nat, ListIs(L), NEW p, ~Stale(p), p \in L,
           header[p].allocated,
           NEW freed, NEW forward, NEW glued, NEW c, Followed(p),
           Steps(p, freed, forward, glued, c)
    PROVE  /\ L # {} /\ heap_first = 0
           /\ \E M \in SUBSET Nat :
                  /\ Nearly(glued, M, heap_max, c)
                  /\ ~NextFree(glued, c) /\ ~PrevFree(glued, c)
                  /\ Used(glued, M) = Used(header, L) \ {p}
                  /\ \A x \in Used(header, L) \ {p} :
                         glued[x].length = header[x].length
<1>1. Tiled(header, L, heap_max) /\ heap_max \in Nat
  BY HeapFacts DEF ListIs
<1>2. Right(header, L, p)
  <2>1. SUFFICES ASSUME p # 0
                 PROVE  header[p].prev \in L /\ header[header[p].prev].next = p
    BY DEF Right
  <2>2. Chunks = L
    BY ListMet
  <2>3. heap_first = 0
    BY DEF ListIs
  <2> QED
    BY <2>1, <2>2, <2>3 DEF Stale
<1>3. freed = Marked(header, p)
  BY DEF Steps
<1>4. PICK h, max : h = header /\ max = heap_max
  OBVIOUS
<1>5. /\ freed \in [D -> Header] /\ Nearly(freed, L, max, p)
      /\ Used(freed, L) = Used(h, L) \ {p}
      /\ \A x \in L : freed[x].length = h[x].length
  <2>1. /\ h \in [D -> Header] /\ Tiled(h, L, max) /\ Right(h, L, p)
        /\ freed = Marked(h, p) /\ max \in Nat
    BY <1>1, <1>2, <1>3, <1>4
  <2> QED
    BY <2>1, MarkStep
<1>6. max \in Nat
  BY <1>1, <1>4
<1>7. PICK M \in SUBSET Nat :
          /\ Nearly(glued, M, max, c)
          /\ ~NextFree(glued, c) /\ ~PrevFree(glued, c)
          /\ Alike(freed, L, glued, M)
  BY <1>5, <1>6, GlueSteps
<1>8. \A x \in Used(h, L) \ {p} : glued[x].length = h[x].length
  <2> TAKE x \in Used(h, L) \ {p}
  <2>1. x \in L /\ x \in Used(freed, L)
    BY <1>5 DEF Used
  <2> QED
    BY <1>5, <1>7, <2>1 DEF Alike
<1>9. Used(glued, M) = Used(h, L) \ {p}
  BY <1>5, <1>7 DEF Alike
<1>10. L # {} /\ heap_first = 0
  BY DEF ListIs
<1> QED
  BY <1>4, <1>7, <1>8, <1>9, <1>10

\* free() keeps the invariant.
LEMMA FreeKeeps ==
    ASSUME MemoryInv, PopAtomic, NEW b \in live, Free(b)
    PROVE  MemoryInv'
<1>1. PICK p : p = b.at - HEADER
  OBVIOUS
<1>2. /\ PageInv /\ PageTypes /\ HeapTypes /\ ListInv /\ Interruptible
      /\ Followed(p) /\ kfree(p) /\ live' = live \ {b}
      /\ misled' = (misled \/ Stale(p))
      /\ UNCHANGED <<shellVars, stack_map>>
  BY <1>1 DEF MemoryInv, PageInv, Free
<1>3. PICK D, max : D = DOMAIN header /\ max = heap_max
  OBVIOUS
<1>4. /\ header \in [D -> Header] /\ D \subseteq 0 .. max - 1
      /\ max \in Nat /\ D \in SUBSET Nat
  BY <1>2, <1>3, HeapFacts DEF HeapTypes
<1>5. PICK freed, forward, glued, c :
          /\ Steps(p, freed, forward, glued, c)
          /\ glued[c].next = NULL =>
                 \E cut, keep : LastStep(glued, c, cut, keep)
  BY <1>2, FreeSteps
<1>6. /\ p \in D /\ c \in D
      /\ freed \in [D -> Header] /\ forward \in [D -> Header]
      /\ glued \in [D -> Header]
  BY <1>2, <1>3, <1>4, <1>5, FreeTypes
<1>7. /\ live' \subseteq [at : Nat, len : Sizes]
      /\ IsFiniteSet(live') /\ Cardinality(live') <= MaxLive
  BY <1>2, FewerBlocks
<1>8. misled' \in BOOLEAN /\ Header' = Header
  BY <1>2 DEF HeapTypes, Header, NULL
\* What the list looks like before the end is cut off.
<1>9. ASSUME ~misled'
      PROVE  \E L \in SUBSET Nat : \E M \in SUBSET Nat :
                 /\ heap_first = 0 /\ ListIs(L) /\ p \in Used(header, L)
                 /\ Nearly(glued, M, max, c)
                 /\ ~NextFree(glued, c) /\ ~PrevFree(glued, c)
                 /\ Used(glued, M) = Used(header, L) \ {p}
                 /\ \A x \in Used(header, L) \ {p} :
                        glued[x].length = header[x].length
  <2>1. ~misled /\ ~Stale(p)
    BY <1>2, <1>9
  <2>2. PICK L \in SUBSET Nat : ListIs(L)
    BY <1>2, <2>1 DEF ListInv
  <2>3. p \in Used(header, L)
    BY <1>1, <2>2 DEF ListIs, HeldIn
  <2>4. p \in L /\ header[p].allocated
    BY <2>3 DEF Used
  <2>5. /\ L # {} /\ heap_first = 0
        /\ \E M \in SUBSET Nat :
               /\ Nearly(glued, M, heap_max, c)
               /\ ~NextFree(glued, c) /\ ~PrevFree(glued, c)
               /\ Used(glued, M) = Used(header, L) \ {p}
               /\ \A x \in Used(header, L) \ {p} :
                      glued[x].length = header[x].length
    BY <1>2, <1>3, <1>4, <1>5, <2>1, <2>2, <2>4, FreeList
  <2> QED
    BY <1>3, <2>2, <2>3, <2>5
\* The blocks that are left are held in its chunks in use.
<1>10. ASSUME NEW L \in SUBSET Nat, ListIs(L), NEW g,
              \A x \in Used(header, L) \ {p} : g[x].length = header[x].length
       PROVE  HeldIn(g, live', Used(header, L) \ {p})
  <2>1. PICK C : C = Used(header, L)
    OBVIOUS
  <2>2. C \subseteq L /\ C \subseteq Nat /\ HeldIn(header, live, C)
    BY <1>10, <2>1 DEF Used, ListIs
  <2>3. \A x \in C : header[x].length \in Nat
    <3>1. L \subseteq D
      BY <1>3, <1>10 DEF ListIs, Tiled, Chained
    <3> QED
      BY <1>4, <2>2, <3>1 DEF Header
  <2>4. \A x \in C \ {b.at - HEADER} :
            /\ g[x].length >= header[x].length
            /\ header[x].length \in Nat /\ g[x].length \in Nat
    <3> TAKE x \in C \ {b.at - HEADER}
    <3>1. PICK l : l = header[x].length
      OBVIOUS
    <3>2. l \in Nat /\ g[x].length = l
      BY <1>1, <1>10, <2>1, <2>3, <3>1
    <3> QED
      BY <3>1, <3>2
  <2>5. live \subseteq [at : Nat, len : Sizes]
    BY <1>2 DEF HeapTypes
  <2>6. PICK h, blocks : h = header /\ blocks = live
    OBVIOUS
  <2>7. HeldIn(g, blocks \ {b}, C \ {b.at - HEADER})
    <3>1. /\ b \in blocks /\ blocks \subseteq [at : Nat, len : Sizes]
          /\ C \subseteq Nat /\ HeldIn(h, blocks, C)
          /\ \A x \in C \ {b.at - HEADER} : g[x].length >= h[x].length
          /\ \A x \in C \ {b.at - HEADER} :
                 h[x].length \in Nat /\ g[x].length \in Nat
      BY <2>2, <2>4, <2>5, <2>6
    <3> QED
      BY <3>1, HeldLess
  <2> QED
    BY <1>1, <1>2, <2>1, <2>6, <2>7
\* Something follows the chunk.
<1>11. CASE glued[c].next # NULL
  <2>1. header' = glued /\ UNCHANGED <<heap_first, heap_map, pageVars>>
    BY <1>5, <1>11 DEF Steps
  <2>2. PageInv'
    BY <1>2, <2>1, StillPages
  <2>3. heap_max' = max
    BY <1>3, <2>1 DEF heap_max
  <2>4. HeapTypes'
    <3>1. heap_first' \in {NULL', 0}
      BY <1>2, <2>1 DEF HeapTypes, NULL
    <3>2. header' \in [D -> Header] /\ DOMAIN header' = D
      BY <1>6, <2>1
    <3>3. DOMAIN header' \subseteq 0 .. heap_max' - 1
      BY <1>4, <2>3, <3>2
    <3> QED
      BY <1>7, <1>8, <3>1, <3>2, <3>3 DEF HeapTypes
  <2>5. ASSUME ~misled' PROVE \E M \in SUBSET Nat : ListIs(M)'
    <3>1. PICK L \in SUBSET Nat, M \in SUBSET Nat :
                 /\ heap_first = 0 /\ ListIs(L) /\ p \in Used(header, L)
                 /\ Nearly(glued, M, max, c)
                 /\ ~NextFree(glued, c) /\ ~PrevFree(glued, c)
                 /\ Used(glued, M) = Used(header, L) \ {p}
                 /\ \A x \in Used(header, L) \ {p} :
                        glued[x].length = header[x].length
      BY <1>9, <2>5
    <3>2. Tiled(glued, M, max)
      BY <1>4, <1>6, <1>11, <3>1, GluedStep
    <3>3. M # {}
      BY <3>1 DEF Nearly
    <3>4. HeldIn(glued, live', Used(glued, M))
      BY <1>10, <3>1
    <3> QED
      BY <2>1, <2>3, <3>1, <3>2, <3>3, <3>4 DEF ListIs
  <2> QED
    BY <2>2, <2>4, <2>5 DEF MemoryInv, ListInv
\* The chunk is the last one.
<1>12. CASE glued[c].next = NULL
  <2>1. PICK cut, keep : LastStep(glued, c, cut, keep)
    BY <1>5, <1>12
  <2>2. PICK q : q = glued[c].prev
    OBVIOUS
  <2>3. /\ cut = Cut(glued, q)
        /\ heap_first' = IF q = NULL THEN NULL ELSE heap_first
    BY <2>1, <2>2 DEF LastStep
  <2>4. cut \in [D -> Header]
    BY <1>4, <1>6, <2>3, CutWrites
  <2>5. c \in Nat /\ c <= heap_max /\ D \subseteq 0 .. heap_max - 1
    BY <1>3, <1>4, <1>6
  <2>6. /\ PageInv'
        /\ heap_max' \in Nat /\ c <= heap_max'
        /\ header' \in [DOMAIN header' -> Header]
        /\ DOMAIN header' \subseteq 0 .. heap_max' - 1
        /\ \A x \in D : x < heap_max' =>
               x \in DOMAIN header' /\ header'[x] = cut[x]
    BY <1>2, <2>1, <2>4, <2>5, CutStep
  <2>7. HeapTypes'
    <3>1. heap_first' \in {NULL', 0}
      BY <1>2, <2>3 DEF HeapTypes, NULL
    <3> QED
      BY <1>7, <1>8, <2>6, <3>1 DEF HeapTypes
  <2>8. ASSUME ~misled' PROVE \E M \in SUBSET Nat : ListIs(M)'
    <3>1. PICK L \in SUBSET Nat, M \in SUBSET Nat :
                 /\ heap_first = 0 /\ ListIs(L) /\ p \in Used(header, L)
                 /\ Nearly(glued, M, max, c)
                 /\ ~NextFree(glued, c) /\ ~PrevFree(glued, c)
                 /\ Used(glued, M) = Used(header, L) \ {p}
                 /\ \A x \in Used(header, L) \ {p} :
                        glued[x].length = header[x].length
      BY <1>9, <2>8
    <3>2. PICK f, new : f = header' /\ new = heap_max'
      OBVIOUS
    <3>3. /\ q = NULL <=> M \ {c} = {}
          /\ Tiled(f, M \ {c}, new)
          /\ Alike(glued, M, f, M \ {c})
      <4>1. new \in Nat /\ c <= new /\ Below(f, Cut(glued, glued[c].prev), new)
        <5>1. DOMAIN cut = D /\ cut = Cut(glued, glued[c].prev)
          BY <2>2, <2>3, <2>4
        <5> QED
          BY <2>6, <3>2, <5>1 DEF Below
      <4>2. /\ glued[c].prev = NULL <=> M \ {c} = {}
            /\ Tiled(f, M \ {c}, new)
            /\ Alike(glued, M, f, M \ {c})
        BY <1>4, <1>6, <1>12, <3>1, <4>1, CutTiled
      <4> QED
        BY <2>2, <4>2
    <3>4. Used(f, M \ {c}) = Used(header, L) \ {p}
      BY <3>1, <3>3 DEF Alike
    <3>5. \A x \in Used(header, L) \ {p} : f[x].length = header[x].length
      BY <3>1, <3>3 DEF Alike
    <3>6. HeldIn(f, live', Used(f, M \ {c}))
      BY <1>10, <3>1, <3>4, <3>5
    <3>7. heap_first' = IF M \ {c} = {} THEN NULL ELSE 0
      BY <2>3, <3>1, <3>3
    <3>8. M \ {c} \in SUBSET Nat
      OBVIOUS
    <3> QED
      BY <3>2, <3>3, <3>6, <3>7, <3>8, Static DEF ListIs
  <2> QED
    BY <2>6, <2>7, <2>8 DEF MemoryInv, ListInv
<1> QED
  BY <1>11, <1>12

----------------------------------------------------------------------------
\* Headers g, when chunk c of the headers h is handed out whole, or parted in
\* a chunk of length len and a free one: the headers beside it are as before.
Beside(g, h, c) ==
    \A x \in DOMAIN h : x < c \/ x >= c + h[c].length =>
        x \in DOMAIN g /\ g[x] = h[x]
Taken(g, h, c) ==
    /\ Beside(g, h, c) /\ c \in DOMAIN g /\ g[c].allocated
    /\ g[c].prev = h[c].prev /\ g[c].next = h[c].next
    /\ g[c].length = h[c].length
Parted(g, h, c, len) ==
    /\ Beside(g, h, c) /\ c \in DOMAIN g /\ g[c].allocated
    /\ g[c].prev = h[c].prev /\ g[c].next = c + len /\ g[c].length = len
    /\ h[c].length - len > HEADER
    /\ c + len \in DOMAIN g /\ ~g[c + len].allocated
    /\ g[c + len].prev = c /\ g[c + len].next = h[c].next
    /\ g[c + len].length = h[c].length - len

\* A list after a chunk of it has been handed out.
More(g, h, L, max, c, len) ==
    \E M \in SUBSET Nat :
        /\ M # {} /\ Tiled(g, M, max)
        /\ Used(g, M) = Used(h, L) \cup {c}
        /\ \A x \in Used(h, L) : g[x].length = h[x].length
        /\ g[c].length >= len

LEMMA TakenTiled ==
    ASSUME NEW D \in SUBSET Nat, NEW h \in [D -> Header],
           NEW L \in SUBSET Nat, NEW max \in Nat, Tiled(h, L, max),
           NEW c \in L, ~h[c].allocated, NEW len, h[c].length >= len,
           NEW g, Taken(g, h, c)
    PROVE  More(g, h, L, max, c, len)
<1>1. /\ L \subseteq D /\ NULL \notin L
      /\ \A x \in L : h[x].length \in Nat
      /\ \A x \in L : h[x].next = NULL \/ h[x].next \in L
      /\ \A x, y \in L : x < y => x + h[x].length <= y
      /\ L # {} => 0 \in L /\ h[0].prev = NULL
  <2>1. Chained(h, L, max)
    BY DEF Tiled
  <2> QED
    BY <2>1, ChainFacts
<1>2. \A x \in L \ {c} : x \in DOMAIN g /\ g[x] = h[x]
  <2> TAKE x \in L \ {c}
  <2>1. x \in D /\ (x < c \/ x >= c + h[c].length)
    <3>1. x < c \/ c < x
      OBVIOUS
    <3>2. c < x => c + h[c].length <= x
      BY <1>1
    <3>3. h[c].length \in Nat
      BY <1>1
    <3> QED
      BY <1>1, <3>1, <3>2, <3>3
  <2> QED
    BY <2>1 DEF Taken, Beside
<1>3. \A x \in L : /\ x \in DOMAIN g
                   /\ g[x].prev = h[x].prev /\ g[x].next = h[x].next
                   /\ g[x].length = h[x].length
                   /\ g[x].allocated <=> x = c \/ h[x].allocated
  BY <1>2 DEF Taken
<1>4. Chained(g, L, max)
  <2>1. Spaced(g, L, max)
    BY <1>3 DEF Tiled, Chained, Spaced
  <2>2. Linked(g, L)
    BY <1>3 DEF Tiled, Chained, Linked
  <2>3. L # {} => 0 \in L /\ g[0].prev = NULL
    BY <1>1, <1>3
  <2>4. L \subseteq DOMAIN g
    BY <1>3
  <2> QED
    BY <2>1, <2>2, <2>3, <2>4 DEF Chained
<1>5. ASSUME NEW x \in L, ~g[x].allocated
      PROVE  /\ g[x].next # NULL /\ g[g[x].next].allocated
             /\ Right(g, L, x)
  <2>1. /\ h[x].next # NULL /\ h[h[x].next].allocated /\ Right(h, L, x)
    BY <1>3, <1>5 DEF Tiled
  <2>2. h[x].next \in L
    BY <1>1, <2>1
  <2> QED
    BY <1>3, <2>1, <2>2 DEF Right
<1>6. Tiled(g, L, max)
  BY <1>4, <1>5 DEF Tiled
<1>7. Used(g, L) = Used(h, L) \cup {c}
  BY <1>3 DEF Used
<1>8. \A x \in Used(h, L) : g[x].length = h[x].length
  BY <1>3 DEF Used
<1>9. g[c].length >= len
  BY <1>3
<1> QED
  BY <1>6, <1>7, <1>8, <1>9 DEF More

LEMMA PartedTiled ==
    ASSUME NEW D \in SUBSET Nat, NEW h \in [D -> Header],
           NEW L \in SUBSET Nat, NEW max \in Nat, Tiled(h, L, max),
           NEW c \in L, ~h[c].allocated, NEW len \in Nat \ {0},
           NEW g, Parted(g, h, c, len)
    PROVE  More(g, h, L, max, c, len)
<1>1. /\ L \subseteq D /\ NULL \notin L
      /\ \A x \in L : h[x].length \in Nat /\ h[x].length >= 1
      /\ \A x \in L : x + h[x].length <= max
      /\ \A x \in L : \/ h[x].next = NULL
                      \/ h[x].next \in L /\ h[x].next = x + h[x].length
      /\ \A x, y \in L : x < y => x + h[x].length <= y
      /\ \A x, y \in L : h[x].next = h[y].next /\ h[x].next # NULL => x = y
      /\ \A x \in L \ {0} : \E y \in L : h[y].next = x
      /\ 0 \in L /\ h[0].prev = NULL
  <2>1. Chained(h, L, max)
    BY DEF Tiled
  <2> QED
    BY <2>1, ChainFacts
<1>2. PICK l, n, e : l = h[c].length /\ n = c + len /\ e = h[c].next
  OBVIOUS
<1> DEFINE M == L \cup {n}
<1>3. /\ l \in Nat /\ l - len > 1 /\ c \in Nat /\ n \in Nat
      /\ c < n /\ n < c + l /\ c + l <= max /\ n # NULL /\ n # 0
  <2>1. l - len > 1
    BY <1>2 DEF Parted, HEADER
  <2>2. l \in Nat /\ c \in Nat /\ c + l <= max
    BY <1>1, <1>2
  <2> QED
    BY <1>2, <2>1, <2>2 DEF NULL
<1>4. \A x \in L \ {c} : x < c \/ c + l <= x
  BY <1>1, <1>2
<1>5. \A x \in L : x # n /\ (x < n <=> x <= c) /\ (n < x => c + l <= x)
  <2> TAKE x \in L
  <2>1. x \in Nat /\ (x = c \/ x < c \/ c + l <= x)
    BY <1>4
  <2> QED
    BY <1>3, <2>1
<1>6. \A x \in L \ {c} : x \in DOMAIN g /\ g[x] = h[x]
  <2> TAKE x \in L \ {c}
  <2>1. x \in D /\ x \in Nat /\ (x < c \/ x >= c + h[c].length)
    <3>1. x < c \/ c + l <= x
      BY <1>4
    <3>2. c + l \in Nat
      BY <1>3
    <3> QED
      BY <1>1, <1>2, <3>1, <3>2
  <2> QED
    BY <2>1 DEF Parted, Beside
<1>7. /\ c \in DOMAIN g /\ n \in DOMAIN g
      /\ g[c].allocated /\ ~g[n].allocated
      /\ g[c].prev = h[c].prev /\ g[c].next = n /\ g[c].length = len
      /\ g[n].prev = c /\ g[n].next = e /\ g[n].length = l - len
  BY <1>2 DEF Parted
<1>8. Spaced(g, M, max)
  <2>1. ASSUME NEW x \in M
        PROVE  g[x].length >= 1 /\ x + g[x].length <= max
    <3>1. CASE x = c
      BY <1>3, <1>7, <1>2, <3>1
    <3>2. CASE x = n
      <4>1. l - len >= 1 /\ n + (l - len) <= max
        BY <1>2, <1>3
      <4> QED
        BY <1>7, <3>2, <4>1
    <3>3. CASE x # c /\ x # n
      BY <1>1, <1>6, <3>3
    <3> QED
      BY <3>1, <3>2, <3>3
  <2>2. ASSUME NEW x \in M, NEW y \in M, x < y
        PROVE  x + g[x].length <= y
    <3>1. CASE x = c
      <4>1. n <= y
        <5>1. y = n \/ (y \in L /\ ~(y <= c))
          BY <1>3, <2>2, <3>1
        <5>2. y \in L => y \in Nat /\ y # n /\ (y < n <=> y <= c)
          BY <1>5
        <5> QED
          BY <1>3, <5>1, <5>2
      <4>2. x + g[x].length = n
        BY <1>2, <1>7, <3>1
      <4> QED
        BY <4>1, <4>2
    <3>2. CASE x = n
      <4>1. y \in L
        BY <1>3, <2>2, <3>2
      <4>2. c + l <= y
        BY <1>5, <2>2, <3>2, <4>1
      <4>3. n + (l - len) = c + l
        BY <1>2, <1>3
      <4>4. g[x].length = l - len
        BY <1>7, <3>2
      <4> QED
        BY <3>2, <4>2, <4>3, <4>4
    <3>3. CASE x # c /\ x # n
      <4>1. x \in L /\ g[x].length = h[x].length /\ h[x].length \in Nat
        BY <1>1, <1>6, <3>3
      <4>2. CASE y \in L
        BY <1>1, <2>2, <4>1, <4>2
      <4>3. CASE y = n
        <5>1. x < c
          <6>1. x \in Nat /\ x <= c
            BY <1>5, <2>2, <4>1, <4>3
          <6> QED
            BY <1>3, <3>3, <6>1
        <5>2. x + h[x].length <= c
          BY <1>1, <4>1, <5>1
        <5>3. PICK k : k = h[x].length
          OBVIOUS
        <5>4. x \in Nat /\ k \in Nat /\ x + k <= c
          BY <4>1, <5>2, <5>3
        <5>5. x + k <= n
          BY <1>3, <5>4
        <5> QED
          BY <4>1, <4>3, <5>3, <5>5
      <4> QED
        BY <4>2, <4>3
    <3> QED
      BY <3>1, <3>2, <3>3
  <2> QED
    BY <2>1, <2>2 DEF Spaced
<1>9. Linked(g, M)
  <2>1. ASSUME NEW x \in M
        PROVE  \/ g[x].next = NULL
               \/ g[x].next \in M /\ g[x].next = x + g[x].length
    <3>1. CASE x = c
      BY <1>2, <1>7, <3>1
    <3>2. CASE x = n
      <4>1. e = NULL \/ (e \in L /\ e = c + l)
        BY <1>1, <1>2
      <4>2. n + (l - len) = c + l
        BY <1>2, <1>3
      <4> QED
        BY <1>7, <3>2, <4>1, <4>2
    <3>3. CASE x # c /\ x # n
      <4>1. x \in L /\ g[x] = h[x]
        BY <1>6, <3>3
      <4> QED
        BY <1>1, <4>1
    <3> QED
      BY <3>1, <3>2, <3>3
  <2>2. ASSUME NEW x \in M \ {0}
        PROVE  \E y \in M : g[y].next = x
    <3>1. CASE x = n
      BY <1>7, <3>1
    <3>2. CASE x # n
      <4>1. PICK y \in L : h[y].next = x
        BY <1>1, <3>2
      <4>2. CASE y = c
        BY <1>2, <1>7, <4>1, <4>2
      <4>3. CASE y # c
        BY <1>6, <4>1, <4>3
      <4> QED
        BY <4>2, <4>3
    <3> QED
      BY <3>1, <3>2
  <2> QED
    BY <2>1, <2>2 DEF Linked
<1>10. Chained(g, M, max)
  <2>1. M \subseteq DOMAIN g
    BY <1>6, <1>7
  <2>2. 0 \in M /\ g[0].prev = NULL
    BY <1>1, <1>6, <1>7
  <2> QED
    BY <1>8, <1>9, <2>1, <2>2 DEF Chained
<1>11. e # NULL /\ e \in L /\ e # c /\ h[e].allocated
  <2>1. e # NULL /\ h[e].allocated
    BY <1>2 DEF Tiled
  <2> QED
    BY <1>1, <1>2, <2>1
<1>12. ASSUME NEW x \in M, ~g[x].allocated
       PROVE  /\ g[x].next # NULL /\ g[g[x].next].allocated
              /\ Right(g, M, x)
  <2>1. CASE x = n
    <3>1. Right(g, M, n)
      BY <1>7 DEF Right
    <3> QED
      BY <1>6, <1>7, <1>11, <2>1, <3>1
  <2>2. CASE x # n
    <3>1. x \in L /\ x # c /\ g[x] = h[x] /\ ~h[x].allocated
      BY <1>6, <1>7, <1>12, <2>2
    <3>2. /\ h[x].next # NULL /\ h[h[x].next].allocated /\ Right(h, L, x)
      BY <3>1 DEF Tiled
    <3>3. h[x].next \in L /\ h[x].next # c
      BY <1>1, <3>1, <3>2
    <3>4. Right(g, M, x)
      <4>1. SUFFICES ASSUME x # 0
                     PROVE  g[x].prev \in M /\ g[g[x].prev].next = x
        BY DEF Right
      <4>2. PICK y : y = h[x].prev
        OBVIOUS
      <4>3. y \in L /\ h[y].next = x
        BY <3>2, <4>1, <4>2 DEF Right
      <4>4. y # c
        BY <1>2, <1>11, <3>1, <4>3
      <4> QED
        BY <1>6, <3>1, <4>2, <4>3, <4>4
    <3> QED
      BY <1>6, <3>1, <3>2, <3>3, <3>4
  <2> QED
    BY <2>1, <2>2
<1>13. Tiled(g, M, max) /\ M # {} /\ M \in SUBSET Nat
  BY <1>3, <1>10, <1>12 DEF Tiled
<1>14. Used(g, M) = Used(h, L) \cup {c}
  BY <1>6, <1>7 DEF Used
<1>15. \A x \in Used(h, L) : g[x].length = h[x].length
  BY <1>6 DEF Used
<1>16. g[c].length >= len
  BY <1>7
<1> QED
  BY <1>13, <1>14, <1>15, <1>16 DEF More

----------------------------------------------------------------------------
\* A header is marked as that of a chunk in use.
InUse(h, c) == [h EXCEPT ![c].allocated = TRUE]

LEMMA WriteUsed ==
    ASSUME NEW D, NEW h \in [D -> Header], NEW c \in D
    PROVE  /\ InUse(h, c) \in [D -> Header] /\ InUse(h, c)[c].allocated
           /\ InUse(h, c)[c].prev = h[c].prev
           /\ InUse(h, c)[c].next = h[c].next
           /\ InUse(h, c)[c].length = h[c].length
           /\ \A x \in D : x # c => InUse(h, c)[x] = h[x]
  BY DEF Header, InUse

\* A block that is written takes the headers in it away.
LEMMA WriteBlock ==
    ASSUME NEW D, NEW h \in [D -> Header], NEW a, NEW len
    PROVE  /\ Within(h, a, len) \in [DOMAIN Within(h, a, len) -> Header]
           /\ DOMAIN Within(h, a, len) \subseteq D
           /\ \A x \in D : x <= a \/ x >= a + len =>
                  /\ x \in DOMAIN Within(h, a, len)
                  /\ Within(h, a, len)[x] = h[x]
<1>1. PICK E, g : E = {c \in D : c <= a \/ c >= a + len}
                  /\ g = Within(h, a, len)
  OBVIOUS
<1>2. g \in [E -> Header] /\ \A x \in E : g[x] = h[x]
  BY <1>1 DEF Within, Restrict
<1>3. DOMAIN g = E /\ E \subseteq D
  BY <1>1, <1>2
<1> QED
  BY <1>1, <1>2, <1>3

\* The headers when the chunk c is handed out for a block of length len.
Handed(h, c, len) ==
    Within(InUse(split_chunk(h, c, len), c), c,
           split_chunk(h, c, len)[c].length)

LEMMA HandOut ==
    ASSUME NEW D \in SUBSET Nat, NEW h \in [D -> Header], NEW c \in D,
           NEW len \in Nat \ {0}, h[c].length >= len
    PROVE  LET g == Handed(h, c, len)
           IN  /\ g \in [DOMAIN g -> Header]
               /\ \/ DOMAIN g \subseteq D /\ Taken(g, h, c)
                  \/ /\ DOMAIN g \subseteq D \cup {c + len}
                     /\ h[c].length - len > HEADER
                     /\ Parted(g, h, c, len)
<1>1. PICK l, k, f, g : /\ l = h[c].length /\ k = split_chunk(h, c, len)
                        /\ f = InUse(k, c) /\ g = Within(f, c, k[c].length)
  OBVIOUS
<1>2. g = Handed(h, c, len)
  BY <1>1 DEF Handed
<1>3. l \in Nat /\ l >= len /\ l >= 1 /\ c \in Nat /\ len \in Nat /\ len >= 1
  <2>1. l \in Nat /\ l >= len
    BY <1>1 DEF Header
  <2> QED
    BY <2>1
<1>4. CASE ~(l - len > HEADER)
  <2>1. k = h
    BY <1>1, <1>4 DEF split_chunk
  <2>2. /\ f \in [D -> Header] /\ f[c].allocated
        /\ f[c].prev = h[c].prev /\ f[c].next = h[c].next
        /\ f[c].length = h[c].length
        /\ \A x \in D : x # c => f[x] = h[x]
    BY <1>1, <2>1, WriteUsed
  <2>3. g = Within(f, c, l)
    BY <1>1, <2>1
  <2>4. /\ g \in [DOMAIN g -> Header] /\ DOMAIN g \subseteq D
        /\ \A x \in D : x <= c \/ x >= c + l =>
               x \in DOMAIN g /\ g[x] = f[x]
    BY <2>2, <2>3, WriteBlock
  <2>5. c \in DOMAIN g /\ g[c] = f[c]
    BY <1>3, <2>4
  <2>6. Beside(g, h, c)
    <3>1. ASSUME NEW x \in D, x < c \/ x >= c + l
          PROVE  x \in DOMAIN g /\ g[x] = h[x]
      <4>1. x # c /\ (x <= c \/ x >= c + l)
        BY <1>3, <3>1
      <4> QED
        BY <2>2, <2>4, <4>1
    <3> QED
      BY <1>1, <3>1 DEF Beside
  <2>7. Taken(g, h, c)
    BY <2>2, <2>5, <2>6 DEF Taken
  <2> QED
    BY <1>2, <2>4, <2>7
<1>5. CASE l - len > HEADER
  <2>1. PICK n, r, i, h1 :
            /\ n = c + len
            /\ r = [prev |-> c, next |-> h[c].next, allocated |-> FALSE,
                    length |-> l - len]
            /\ i = [h EXCEPT ![c].next = n]
            /\ h1 = [h EXCEPT ![c].next = n, ![c].length = len]
    OBVIOUS
  <2>2. k = Written(h1, n, r)
    BY <1>1, <1>5, <2>1 DEF split_chunk
  <2>3. l - len \in Nat /\ l - len > 1 /\ n \in Nat /\ c < n /\ n < c + l
    BY <1>3, <1>5, <2>1 DEF HEADER
  <2>4. r \in Header
    BY <1>3, <2>1, <2>3 DEF Header
  <2>5. /\ i \in [D -> Header] /\ i[c].prev = h[c].prev /\ i[c].next = n
        /\ \A x \in D : x # c => i[x] = h[x]
    BY <2>1, <2>3 DEF Header
  <2>6. h1 = [i EXCEPT ![c].length = len]
    BY <2>1
  <2>7. /\ h1 \in [D -> Header] /\ h1[c].prev = h[c].prev /\ h1[c].next = n
        /\ h1[c].length = len
        /\ \A x \in D : x # c => h1[x] = h[x]
    BY <1>3, <2>5, <2>6 DEF Header
  <2>8. PICK D2 : D2 = D \cup {n}
    OBVIOUS
  <2>9. /\ k \in [D2 -> Header] /\ k[n] = r
        /\ \A x \in D : x # n => k[x] = h1[x]
    <3>1. h1 \in [D -> Header]
      BY <2>7
    <3>2. /\ Written(h1, n, r) \in [D \cup {n} -> Header]
          /\ Written(h1, n, r)[n] = r
          /\ \A x \in D : x # n => Written(h1, n, r)[x] = h1[x]
      BY <2>4, <3>1 DEF Written
    <3> QED
      BY <2>2, <2>8, <3>2
  <2>10. c # n /\ c \in D2 /\ n \in D2
    BY <1>3, <2>3, <2>8
  <2>11. /\ f \in [D2 -> Header] /\ f[c].allocated
         /\ f[c].prev = k[c].prev /\ f[c].next = k[c].next
         /\ f[c].length = k[c].length
         /\ \A x \in D2 : x # c => f[x] = k[x]
    <3>1. k \in [D2 -> Header] /\ c \in D2
      BY <2>9, <2>10
    <3>2. /\ InUse(k, c) \in [D2 -> Header] /\ InUse(k, c)[c].allocated
          /\ InUse(k, c)[c].prev = k[c].prev
          /\ InUse(k, c)[c].next = k[c].next
          /\ InUse(k, c)[c].length = k[c].length
          /\ \A x \in D2 : x # c => InUse(k, c)[x] = k[x]
      BY <3>1 DEF InUse, Header
    <3>3. f = InUse(k, c)
      BY <1>1
    <3> QED
      BY <3>2, <3>3
  <2>12. g = Within(f, c, len)
    BY <1>1, <2>7, <2>9, <2>10
  <2>13. /\ g \in [DOMAIN g -> Header] /\ DOMAIN g \subseteq D2
         /\ \A x \in D2 : x <= c \/ x >= c + len =>
                x \in DOMAIN g /\ g[x] = f[x]
    BY <2>11, <2>12, WriteBlock
  <2>14. /\ c \in DOMAIN g /\ g[c] = f[c]
         /\ n \in DOMAIN g /\ g[n] = r
    <3>1. c <= c /\ n >= c + len
      BY <1>3, <2>1
    <3> QED
      BY <2>9, <2>10, <2>11, <2>13, <3>1
  <2>15. Beside(g, h, c)
    <3>1. ASSUME NEW x \in D, x < c \/ x >= c + l
          PROVE  x \in DOMAIN g /\ g[x] = h[x]
      <4>1. x # c /\ x # n /\ x \in D2 /\ (x <= c \/ x >= c + len)
        BY <1>3, <2>3, <2>8, <3>1
      <4> QED
        BY <2>7, <2>9, <2>11, <2>13, <4>1
    <3> QED
      BY <1>1, <3>1 DEF Beside
  <2>16. /\ g[c].allocated /\ g[c].prev = h[c].prev /\ g[c].next = n
         /\ g[c].length = len
    BY <2>7, <2>9, <2>10, <2>11, <2>14
  <2>17. /\ ~g[n].allocated /\ g[n].prev = c /\ g[n].next = h[c].next
         /\ g[n].length = l - len
    BY <2>1, <2>14
  <2>18. Parted(g, h, c, len)
    BY <1>1, <1>5, <2>1, <2>14, <2>15, <2>16, <2>17 DEF Parted
  <2> QED
    BY <1>1, <1>2, <1>5, <2>1, <2>8, <2>13, <2>18
<1> QED
  BY <1>4, <1>5

\* malloc() finds a chunk.
LEMMA FitStep ==
    ASSUME PageTypes, HeapTypes, Legible, NEW len \in Nat \ {0},
           kmalloc_fit(len)
    PROVE  /\ UNCHANGED <<heap_first, heap_map, pageVars>>
           /\ FirstFit(len) \in Nat
           /\ header' \in [DOMAIN header' -> Header]
           /\ DOMAIN header' \subseteq 0 .. heap_max - 1
           /\ \A L \in SUBSET Nat : ListIs(L) =>
                  /\ FirstFit(len) \notin Used(header, L)
                  /\ More(header', header, L, heap_max, FirstFit(len), len)
<1>1. PICK c, D, max : c = FirstFit(len) /\ D = DOMAIN header /\ max = heap_max
  OBVIOUS
<1>2. /\ UNCHANGED <<heap_first, heap_map, pageVars>>
      /\ header[c].length - len > HEADER => c + len < max
      /\ header' = Handed(header, c, len)
      /\ Fitting(len) # {}
  BY <1>1 DEF kmalloc_fit, Handed, InUse
<1>3. /\ D \in SUBSET Nat /\ header \in [D -> Header] /\ c \in D /\ c \in Nat
      /\ max \in Nat /\ D \subseteq 0 .. max - 1 /\ c \in Chunks
  <2>1. c \in Chunks /\ Chunks \subseteq D /\ D \subseteq Nat
    BY <1>1, <1>2, FitThere, LastThere
  <2> QED
    BY <1>1, <2>1, HeapFacts DEF HeapTypes
<1>4. ~header[c].allocated /\ header[c].length >= len
  BY <1>1, <1>2, FitThere DEF Fits
<1>5. PICK g : g = header'
  OBVIOUS
<1>6. /\ g \in [DOMAIN g -> Header]
      /\ \/ DOMAIN g \subseteq D /\ Taken(g, header, c)
         \/ /\ DOMAIN g \subseteq D \cup {c + len}
            /\ header[c].length - len > HEADER
            /\ Parted(g, header, c, len)
  BY <1>2, <1>3, <1>4, <1>5, HandOut
<1>7. DOMAIN g \subseteq 0 .. max - 1
  <2>1. CASE DOMAIN g \subseteq D
    BY <1>3, <2>1
  <2>2. CASE DOMAIN g \subseteq D \cup {c + len}
             /\ header[c].length - len > HEADER
    <3>1. c + len \in 0 .. max - 1
      BY <1>2, <1>3, <2>2
    <3> QED
      BY <1>3, <2>2, <3>1
  <2> QED
    BY <1>6, <2>1, <2>2
<1>8. ASSUME NEW L \in SUBSET Nat, ListIs(L)
      PROVE  c \notin Used(header, L) /\ More(g, header, L, max, c, len)
  <2>1. Tiled(header, L, max) /\ c \in L
    BY <1>1, <1>3, <1>8, ListMet DEF ListIs
  <2>2. c \notin Used(header, L)
    BY <1>4 DEF Used
  <2>3. More(g, header, L, max, c, len)
    BY <1>3, <1>4, <1>6, <2>1, TakenTiled, PartedTiled
  <2> QED
    BY <2>2, <2>3
<1> QED
  BY <1>1, <1>2, <1>3, <1>5, <1>6, <1>7, <1>8

----------------------------------------------------------------------------
\* The headers when a chunk of length len is made at s, behind the chunk p.
NewChunk(p, len) == [prev |-> p, next |-> NULL, allocated |-> TRUE,
                     length |-> len]
Joined(h, p, s, len) ==
    Within(IF p = NULL THEN Written(h, s, NewChunk(p, len))
           ELSE [Written(h, s, NewChunk(p, len)) EXCEPT ![p].next = s],
           s, len)

Grown(g, h, p, s, len) ==
    /\ s \in DOMAIN g
    /\ p # s => /\ g[s].prev = p /\ g[s].next = NULL /\ g[s].allocated
                /\ g[s].length = len
    /\ \A x \in DOMAIN h : x < s =>
           /\ x \in DOMAIN g
           /\ g[x].prev = h[x].prev
           /\ g[x].next = IF x = p THEN s ELSE h[x].next
           /\ g[x].allocated = h[x].allocated /\ g[x].length = h[x].length

LEMMA Join ==
    ASSUME NEW D \in SUBSET Nat, NEW h \in [D -> Header], NEW s \in Nat,
           NEW p \in D \cup {NULL}, NEW len \in Nat \ {0}
    PROVE  LET g == Joined(h, p, s, len)
           IN  /\ g \in [DOMAIN g -> Header]
               /\ DOMAIN g \subseteq D \cup {s}
               /\ Grown(g, h, p, s, len)
<1>1. PICK E, r, made, linked, g :
          /\ E = D \cup {s} /\ r = NewChunk(p, len)
          /\ made = Written(h, s, r)
          /\ linked = IF p = NULL THEN made ELSE [made EXCEPT ![p].next = s]
          /\ g = Joined(h, p, s, len)
  OBVIOUS
<1>2. g = Within(linked, s, len)
  BY <1>1 DEF Joined
<1>3. p \in Nat \cup {NULL} /\ NULL \notin D /\ len \in Nat
  BY DEF NULL
<1>4. /\ r \in Header /\ r.prev = p /\ r.next = NULL /\ r.allocated
      /\ r.length = len
  BY <1>1, <1>3 DEF NewChunk, Header
<1>5. /\ made \in [E -> Header] /\ made[s] = r
      /\ \A x \in D : x # s => made[x] = h[x]
  BY <1>1, <1>4 DEF Written
<1>6. /\ linked \in [E -> Header]
      /\ \A x \in E : x # p => linked[x] = made[x]
      /\ p # NULL => /\ linked[p].prev = made[p].prev /\ linked[p].next = s
                     /\ linked[p].allocated = made[p].allocated
                     /\ linked[p].length = made[p].length
  <2>1. CASE p = NULL
    BY <1>1, <1>5, <2>1
  <2>2. CASE p # NULL
    <3>1. p \in E /\ linked = [made EXCEPT ![p].next = s]
      BY <1>1, <2>2
    <3>2. linked \in [E -> Header]
      BY <1>5, <3>1 DEF Header
    <3>3. \A x \in E : x # p => linked[x] = made[x]
      BY <1>5, <3>1
    <3>4. /\ linked[p].prev = made[p].prev /\ linked[p].next = s
          /\ linked[p].allocated = made[p].allocated
          /\ linked[p].length = made[p].length
      BY <1>5, <3>1 DEF Header
    <3> QED
      BY <3>2, <3>3, <3>4
  <2> QED
    BY <2>1, <2>2
<1>7. /\ g \in [DOMAIN g -> Header] /\ DOMAIN g \subseteq E
      /\ \A x \in E : x <= s \/ x >= s + len =>
             x \in DOMAIN g /\ g[x] = linked[x]
  <2>1. linked \in [E -> Header]
    BY <1>6
  <2>2. /\ Within(linked, s, len) \in [DOMAIN Within(linked, s, len) -> Header]
        /\ DOMAIN Within(linked, s, len) \subseteq E
        /\ \A x \in E : x <= s \/ x >= s + len =>
               /\ x \in DOMAIN Within(linked, s, len)
               /\ Within(linked, s, len)[x] = linked[x]
    BY <2>1, WriteBlock
  <2> QED
    BY <1>2, <2>2
<1>8. s \in DOMAIN g /\ g[s] = linked[s]
  BY <1>1, <1>7
<1>9. p # s => g[s] = r
  BY <1>1, <1>5, <1>6, <1>8
<1>10. ASSUME NEW x \in D, x < s
       PROVE  /\ x \in DOMAIN g
              /\ g[x].prev = h[x].prev
              /\ g[x].next = IF x = p THEN s ELSE h[x].next
              /\ g[x].allocated = h[x].allocated /\ g[x].length = h[x].length
  <2>1. x \in E /\ x # s /\ x <= s /\ x # NULL
    BY <1>1, <1>3, <1>10
  <2>2. x \in DOMAIN g /\ g[x] = linked[x] /\ made[x] = h[x]
    BY <1>5, <1>7, <2>1
  <2> QED
    BY <1>6, <2>1, <2>2
<1>11. Grown(g, h, p, s, len)
  <2>1. DOMAIN h = D
    OBVIOUS
  <2> QED
    BY <1>4, <1>8, <1>9, <1>10, <2>1 DEF Grown
<1> QED
  BY <1>1, <1>7, <1>11

\* A chunk behind the last one.
Behind(h, L, p, s) ==
    IF L = {} THEN p = NULL /\ s = 0
    ELSE p \in L /\ h[p].next = NULL /\ s = p + h[p].length

LEMMA GrownTiled ==
    ASSUME NEW D \in SUBSET Nat, NEW h \in [D -> Header],
           NEW L \in SUBSET Nat, NEW max \in Nat, Tiled(h, L, max),
           NEW new \in Nat, max <= new, NEW p, NEW s \in Nat,
           Behind(h, L, p, s), NEW len \in Nat \ {0}, s + len <= new,
           NEW g, Grown(g, h, p, s, len)
    PROVE  s \notin L /\ More(g, h, L, new, s, len)
<1>1. Chained(h, L, max)
  BY DEF Tiled
<1>2. /\ L \subseteq D /\ NULL \notin L
      /\ \A x \in L : /\ h[x].length \in Nat /\ h[x].length >= 1
                      /\ x + h[x].length <= max
      /\ \A x \in L : \/ h[x].next = NULL
                      \/ h[x].next \in L /\ h[x].next = x + h[x].length
      /\ \A x, y \in L : x < y => x + h[x].length <= y
      /\ \A x \in L \ {0} : \E y \in L : h[y].next = x
      /\ L # {} => 0 \in L /\ h[0].prev = NULL
  BY <1>1, ChainFacts
<1>3. p # s /\ s # NULL
  <2>1. CASE L = {}
    BY <2>1 DEF Behind, NULL
  <2>2. CASE L # {}
    <3>1. p \in L /\ s = p + h[p].length /\ h[p].length >= 1
          /\ h[p].length \in Nat /\ p \in Nat
      BY <1>2, <2>2 DEF Behind
    <3> QED
      BY <3>1 DEF NULL
  <2> QED
    BY <2>1, <2>2
<1>4. \A x \in L : x + h[x].length <= s
  <2> TAKE x \in L
  <2>1. p \in L /\ h[p].next = NULL /\ s = p + h[p].length
    BY DEF Behind
  <2>2. x <= p
    BY <1>1, <1>2, <2>1, LastIsMax
  <2>3. x < p => x + h[x].length <= p
    BY <1>2, <2>1
  <2>4. PICK l, k : l = h[x].length /\ k = h[p].length
    OBVIOUS
  <2>5. l \in Nat /\ k \in Nat /\ x \in Nat /\ p \in Nat
        /\ (x = p => l = k)
    BY <1>2, <2>1, <2>4
  <2>6. x <= p /\ (x < p => x + l <= p) /\ s = p + k
    BY <2>1, <2>2, <2>3, <2>4
  <2>7. x + l <= s
    BY <2>5, <2>6
  <2> QED
    BY <2>4, <2>7
<1>5. \A x \in L : x < s
  <2> TAKE x \in L
  <2>1. PICK l : l = h[x].length
    OBVIOUS
  <2>2. l \in Nat /\ l >= 1 /\ x \in Nat /\ x + l <= s
    BY <1>2, <1>4, <2>1
  <2> QED
    BY <2>2
<1> DEFINE M == L \cup {s}
<1>6. /\ s \notin L /\ s \in DOMAIN g
      /\ g[s].prev = p /\ g[s].next = NULL /\ g[s].allocated
      /\ g[s].length = len
      /\ \A x \in L :
             /\ x # s /\ x \in DOMAIN g /\ g[x].prev = h[x].prev
             /\ g[x].next = IF x = p THEN s ELSE h[x].next
             /\ g[x].allocated = h[x].allocated /\ g[x].length = h[x].length
  BY <1>2, <1>3, <1>5 DEF Grown
<1>7. Spaced(g, M, new)
  <2>1. \A x \in L : g[x].length >= 1 /\ x + g[x].length <= new
    <3> TAKE x \in L
    <3>1. PICK l : l = h[x].length
      OBVIOUS
    <3>2. l \in Nat /\ l >= 1 /\ x \in Nat /\ x + l <= max /\ g[x].length = l
      BY <1>2, <1>6, <3>1
    <3> QED
      BY <3>2
  <2>2. g[s].length >= 1 /\ s + g[s].length <= new
    BY <1>6
  <2>3. ASSUME NEW x \in M, NEW y \in M, x < y
        PROVE  x + g[x].length <= y
    <3>1. x # s
      BY <1>5, <2>3
    <3>2. x \in L /\ g[x].length = h[x].length
      BY <1>6, <3>1
    <3> QED
      BY <1>2, <1>4, <2>3, <3>2
  <2> QED
    BY <2>1, <2>2, <2>3 DEF Spaced
<1>8. Linked(g, M)
  <2>1. ASSUME NEW x \in L
        PROVE  \/ g[x].next = NULL
               \/ g[x].next \in M /\ g[x].next = x + g[x].length
    <3>1. CASE x = p
      <4>1. s = p + h[p].length
        BY <3>1 DEF Behind
      <4> QED
        BY <1>6, <3>1, <4>1
    <3>2. CASE x # p
      BY <1>2, <1>6, <3>2
    <3> QED
      BY <3>1, <3>2
  <2>2. ASSUME NEW x \in M \ {0}
        PROVE  \E y \in M : g[y].next = x
    <3>1. CASE x = s
      <4>1. p \in L
        BY <2>2, <3>1 DEF Behind
      <4> QED
        BY <1>6, <3>1, <4>1
    <3>2. CASE x # s
      <4>1. PICK y \in L : h[y].next = x
        BY <1>2, <3>2
      <4>2. y # p
        <5>1. L # {} /\ x \in L
          BY <3>2
        <5>2. h[p].next = NULL /\ x # NULL
          BY <1>2, <5>1 DEF Behind
        <5> QED
          BY <4>1, <5>2
      <4> QED
        BY <1>6, <4>1, <4>2
    <3> QED
      BY <3>1, <3>2
  <2> QED
    BY <1>6, <2>1, <2>2 DEF Linked
<1>9. Chained(g, M, new)
  <2>1. M \subseteq DOMAIN g
    BY <1>6
  <2>2. 0 \in M /\ g[0].prev = NULL
    <3>1. CASE L = {}
      BY <1>6, <3>1 DEF Behind
    <3>2. CASE L # {}
      BY <1>2, <1>6, <3>2
    <3> QED
      BY <3>1, <3>2
  <2> QED
    BY <1>7, <1>8, <2>1, <2>2 DEF Chained
<1>10. ASSUME NEW x \in M, ~g[x].allocated
       PROVE  /\ g[x].next # NULL /\ g[g[x].next].allocated
              /\ Right(g, M, x)
  <2>1. x \in L /\ ~h[x].allocated
    BY <1>6, <1>10
  <2>2. h[x].next # NULL /\ h[h[x].next].allocated /\ Right(h, L, x)
    BY <2>1 DEF Tiled
  <2>3. h[p].next = NULL
    BY <2>1 DEF Behind
  <2>4. x # p /\ h[x].next \in L
    BY <1>2, <2>1, <2>2, <2>3
  <2>5. g[x].next = h[x].next /\ g[h[x].next].allocated
    BY <1>6, <2>1, <2>2, <2>4
  <2>6. Right(g, M, x)
    <3>1. SUFFICES ASSUME x # 0
                   PROVE  g[x].prev \in M /\ g[g[x].prev].next = x
      BY DEF Right
    <3>2. PICK y : y = h[x].prev
      OBVIOUS
    <3>3. y \in L /\ h[y].next = x
      BY <2>2, <3>1, <3>2 DEF Right
    <3>4. y # p
      BY <1>2, <2>1, <2>3, <3>3
    <3>5. g[x].prev = y /\ g[y].next = h[y].next
      BY <1>6, <2>1, <3>2, <3>3, <3>4
    <3> QED
      BY <3>3, <3>5
  <2> QED
    BY <2>2, <2>5, <2>6
<1>11. Tiled(g, M, new) /\ M # {} /\ M \in SUBSET Nat
  BY <1>9, <1>10 DEF Tiled
<1>12. Used(g, M) = Used(h, L) \cup {s}
  BY <1>6 DEF Used
<1>13. \A x \in Used(h, L) : g[x].length = h[x].length
  BY <1>6 DEF Used
<1>14. g[s].length >= len
  BY <1>6
<1> QED
  BY <1>6, <1>11, <1>12, <1>13, <1>14 DEF More

----------------------------------------------------------------------------
\* The heap grows.
LEMMA GrowHeap ==
    ASSUME PageTypes, HeapTypes, Legible, NEW len \in Nat \ {0},
           kmalloc_grow(len), heap_max' \in Nat, heap_max <= heap_max',
           chunk_start + len <= heap_max'
    PROVE  /\ heap_first' = 0
           /\ header' \in [DOMAIN header' -> Header]
           /\ DOMAIN header' \subseteq 0 .. heap_max' - 1
           /\ \A L \in SUBSET Nat : ListIs(L) =>
                  /\ chunk_start \notin Used(header, L)
                  /\ More(header', header, L, heap_max', chunk_start, len)
<1>1. PICK s, p, D, max, new :
          /\ s = chunk_start /\ D = DOMAIN header
          /\ p = IF heap_first = NULL THEN NULL ELSE prev_header
          /\ max = heap_max /\ new = heap_max'
  OBVIOUS
<1>2. /\ D \in SUBSET Nat /\ header \in [D -> Header] /\ s \in Nat
      /\ max \in Nat /\ new \in Nat /\ max <= new /\ s + len <= new
      /\ D \subseteq 0 .. max - 1
      /\ heap_first # NULL => /\ p \in Chunks /\ p \in D
                              /\ header[p].next = NULL
      /\ heap_first = NULL => p = NULL
  BY <1>1, LastThere, HeapFacts DEF HeapTypes
<1>3. p \in D \cup {NULL} /\ (p = NULL <=> heap_first = NULL)
  BY <1>2 DEF NULL
<1>4. PICK g : g = Joined(header, p, s, len)
  OBVIOUS
<1>5. header' = g
  <2>1. NewChunk(p, len) =
            [prev |-> IF heap_first = NULL THEN NULL ELSE prev_header,
             next |-> NULL, allocated |-> TRUE, length |-> len]
    BY <1>1 DEF NewChunk
  <2>2. CASE heap_first = NULL
    <3>1. header' = Within(Written(header, s, NewChunk(p, len)), s, len)
      BY <1>1, <2>1, <2>2 DEF kmalloc_grow
    <3> QED
      BY <1>3, <1>4, <2>2, <3>1 DEF Joined
  <2>3. CASE heap_first # NULL
    <3>1. header' =
              Within([Written(header, s, NewChunk(p, len))
                          EXCEPT ![p].next = s], s, len)
      BY <1>1, <2>1, <2>3 DEF kmalloc_grow
    <3> QED
      BY <1>3, <1>4, <2>3, <3>1 DEF Joined
  <2> QED
    BY <2>2, <2>3
<1>6. heap_first' = 0
  BY DEF kmalloc_grow, HeapTypes
<1>7. /\ g \in [DOMAIN g -> Header] /\ DOMAIN g \subseteq D \cup {s}
      /\ Grown(g, header, p, s, len)
  BY <1>2, <1>3, <1>4, Join
<1>8. DOMAIN g \subseteq 0 .. new - 1
  <2>1. s \in 0 .. new - 1
    BY <1>2
  <2> QED
    BY <1>2, <1>7, <2>1
<1>9. ASSUME NEW L \in SUBSET Nat, ListIs(L)
      PROVE  s \notin Used(header, L) /\ More(g, header, L, new, s, len)
  <2>1. /\ Chunks = L /\ Tiled(header, L, max)
        /\ L = {} <=> heap_first = NULL
    BY <1>1, <1>9, ListMet DEF ListIs, NULL
  <2>2. Behind(header, L, p, s)
    <3>1. CASE heap_first = NULL
      BY <1>1, <2>1, <3>1 DEF Behind, chunk_start
    <3>2. CASE heap_first # NULL
      <4>1. s = p + header[p].length
        BY <1>1, <3>2 DEF chunk_start, End
      <4> QED
        BY <1>2, <2>1, <3>2, <4>1 DEF Behind
    <3> QED
      BY <3>1, <3>2
  <2>3. s \notin L /\ More(g, header, L, new, s, len)
    BY <1>2, <1>7, <2>1, <2>2, GrownTiled
  <2> QED
    BY <2>3 DEF Used
<1> QED
  BY <1>1, <1>5, <1>6, <1>7, <1>8, <1>9

\* A list after malloc().
LEMMA MoreListed ==
    ASSUME HeapTypes, NEW L \in SUBSET Nat, ListIs(L), NEW a \in Nat,
           NEW size \in Sizes, NEW len, len = size + HEADER,
           a \notin Used(header, L),
           More(header', header, L, heap_max', a, len), heap_first' = 0,
           live' = live \cup {[at |-> a + HEADER, len |-> size]}
    PROVE  \E M \in SUBSET Nat : ListIs(M)'
<1>1. PICK M \in SUBSET Nat :
          /\ M # {} /\ Tiled(header', M, heap_max')
          /\ Used(header', M) = Used(header, L) \cup {a}
          /\ \A x \in Used(header, L) : header'[x].length = header[x].length
          /\ header'[a].length >= len
  BY DEF More
<1>2. PICK h, g, C, blocks : /\ h = header /\ g = header' /\ blocks = live
                             /\ C = Used(header, L)
  OBVIOUS
<1>3. /\ blocks \subseteq [at : Nat, len : Sizes] /\ C \subseteq Nat
      /\ HeldIn(h, blocks, C) /\ a \notin C
      /\ \A c \in C : g[c].length = h[c].length
  BY <1>1, <1>2 DEF HeapTypes, ListIs, Used
<1>4. PICK n : n = g[a].length
  OBVIOUS
<1>5. size + HEADER <= g[a].length
  BY <1>1, <1>2
<1>6. HeldIn(g, blocks \cup {[at |-> a + HEADER, len |-> size]}, C \cup {a})
  BY <1>3, <1>5, HeldMore
<1>7. HeldIn(header', live', Used(header', M))
  BY <1>1, <1>2, <1>6
<1> QED
  BY <1>1, <1>7, Static DEF ListIs

\* malloc() keeps the invariant.
LEMMA MallocKeeps ==
    ASSUME MemoryInv, PopAtomic, NEW size \in Sizes, Malloc(size)
    PROVE  MemoryInv'
<1>1. PICK len : len = size + HEADER
  OBVIOUS
<1>2. /\ PageInv /\ PageTypes /\ HeapTypes /\ ListInv
      /\ Interruptible /\ Legible /\ Cardinality(live) < MaxLive
      /\ kmalloc_fit(len) \/ kmalloc_grow(len)
      /\ live' = live \cup
             {[at |-> (IF Fitting(len) # {} THEN FirstFit(len)
                       ELSE chunk_start) + HEADER, len |-> size]}
      /\ UNCHANGED <<misled, shellVars, stack_map>>
  BY <1>1 DEF MemoryInv, PageInv, Malloc
<1>3. len \in Nat \ {0}
  <2>1. size \in Nat
    BY Constants
  <2> QED
    BY <1>1, <2>1 DEF HEADER
<1>4. /\ chunk_start \in Nat
      /\ misled' \in BOOLEAN /\ misled' = misled
      /\ Header' = Header /\ NULL' = NULL
  BY <1>2, LastThere DEF HeapTypes, Header, NULL
<1>5. CASE kmalloc_fit(len)
  <2>0. PICK c : c = FirstFit(len)
    OBVIOUS
  <2>1. /\ UNCHANGED <<heap_first, heap_map, pageVars>>
        /\ c \in Nat
        /\ header' \in [DOMAIN header' -> Header]
        /\ DOMAIN header' \subseteq 0 .. heap_max - 1
        /\ \A L \in SUBSET Nat : ListIs(L) =>
               /\ c \notin Used(header, L)
               /\ More(header', header, L, heap_max, c, len)
    BY <1>2, <1>3, <1>5, <2>0, FitStep
  <2>2. Fitting(len) # {} /\ c \in Chunks
    BY <1>2, <1>5, <2>0, FitThere DEF kmalloc_fit
  <2>3. PageInv' /\ heap_max' = heap_max
    BY <1>2, <2>1, StillPages DEF heap_max
  <2>4. live' = live \cup {[at |-> c + HEADER, len |-> size]}
    BY <1>2, <2>0, <2>2
  <2>5. HeapTypes'
    <3>1. /\ live' \subseteq [at : Nat, len : Sizes]
          /\ IsFiniteSet(live') /\ Cardinality(live') <= MaxLive
      BY <1>2, <2>1, <2>4, MoreBlocks
    <3>2. heap_first' \in {NULL', 0}
      BY <1>2, <1>4, <2>1 DEF HeapTypes
    <3> QED
      BY <1>4, <2>1, <2>3, <3>1, <3>2 DEF HeapTypes
  <2>6. ASSUME ~misled' PROVE \E M \in SUBSET Nat : ListIs(M)'
    <3>1. PICK L \in SUBSET Nat : ListIs(L)
      BY <1>2, <1>4, <2>6 DEF ListInv
    <3>2. c \in L
      BY <1>2, <2>2, <3>1, ListMet
    <3>3. heap_first' = 0
      BY <2>1, <3>1, <3>2 DEF ListIs
    <3>4. /\ c \notin Used(header, L)
          /\ More(header', header, L, heap_max', c, len)
      BY <2>1, <2>3, <3>1
    <3> QED
      BY <1>1, <1>2, <2>1, <2>4, <3>1, <3>3, <3>4, MoreListed
  <2> QED
    BY <2>3, <2>5, <2>6 DEF MemoryInv, ListInv
<1>6. CASE kmalloc_grow(len)
  <2>0. PICK s : s = chunk_start
    OBVIOUS
  <2>1. Fitting(len) = {}
    BY <1>6 DEF kmalloc_grow
  <2>2. /\ PageInv'
        /\ heap_max' \in Nat /\ heap_max <= heap_max'
        /\ chunk_start + len <= heap_max'
    BY <1>2, <1>3, <1>4, <1>6, GrowStep
  <2>3. /\ heap_first' = 0
        /\ header' \in [DOMAIN header' -> Header]
        /\ DOMAIN header' \subseteq 0 .. heap_max' - 1
        /\ \A L \in SUBSET Nat : ListIs(L) =>
               /\ chunk_start \notin Used(header, L)
               /\ More(header', header, L, heap_max', chunk_start, len)
    BY <1>2, <1>3, <1>6, <2>2, GrowHeap
  <2>4. s \in Nat /\ live' = live \cup {[at |-> s + HEADER, len |-> size]}
    BY <1>2, <1>4, <2>0, <2>1
  <2>5. HeapTypes'
    <3>1. /\ live' \subseteq [at : Nat, len : Sizes]
          /\ IsFiniteSet(live') /\ Cardinality(live') <= MaxLive
      BY <1>2, <2>4, MoreBlocks
    <3> QED
      BY <1>4, <2>3, <3>1 DEF HeapTypes
  <2>6. ASSUME ~misled' PROVE \E M \in SUBSET Nat : ListIs(M)'
    <3>1. PICK L \in SUBSET Nat : ListIs(L)
      BY <1>2, <1>4, <2>6 DEF ListInv
    <3>2. /\ s \notin Used(header, L)
          /\ More(header', header, L, heap_max', s, len)
      BY <2>0, <2>3, <3>1
    <3> QED
      BY <1>1, <1>2, <2>3, <2>4, <3>1, <3>2, MoreListed
  <2> QED
    BY <2>2, <2>5, <2>6 DEF MemoryInv, ListInv
<1> QED
  BY <1>2, <1>5, <1>6

\* A list lies in more memory, too.
LEMMA TiledHigher ==
    ASSUME NEW D \in SUBSET Nat, NEW h \in [D -> Header],
           NEW L \in SUBSET Nat, NEW max \in Nat, Tiled(h, L, max),
           NEW new \in Nat, max <= new
    PROVE  Tiled(h, L, new)
<1>1. Chained(h, L, max)
  BY DEF Tiled
<1>2. \A x \in L : /\ h[x].length \in Nat /\ h[x].length >= 1
                   /\ x + h[x].length <= max
  BY <1>1, ChainFacts
<1>3. \A x \in L : x + h[x].length <= new
  <2> TAKE x \in L
  <2>1. PICK l : l = h[x].length
    OBVIOUS
  <2>2. l \in Nat /\ x \in Nat /\ x + l <= max
    BY <1>2, <2>1
  <2>3. x + l <= new
    BY <2>2
  <2> QED
    BY <2>1, <2>3
<1>4. Spaced(h, L, new)
  BY <1>1, <1>2, <1>3 DEF Chained, Spaced
<1>5. Chained(h, L, new)
  BY <1>1, <1>4 DEF Chained
<1> QED
  BY <1>5 DEF Tiled

\* So does a malloc() that finds no memory.
LEMMA FailsKeeps ==
    ASSUME MemoryInv, PopAtomic, NEW size, MallocFails(size)
    PROVE  MemoryInv'
<1>1. PICK n, l, max, D : /\ n = Len(heap_map) /\ l = Left
                          /\ max = heap_max /\ D = DOMAIN header
  OBVIOUS
<1>2. /\ PageInv /\ PageTypes /\ HeapTypes /\ ListInv
      /\ misled' = (misled \/ heap_first = NULL) /\ live' = live
      /\ heap_first' = 0
      /\ header' = IF heap_map = <<>> /\ Left > 0
                   THEN Written(header, 0, Cleared) ELSE header
  BY DEF MemoryInv, PageInv, MallocFails, kmalloc_fails
<1>3. PageInv' /\ Len(heap_map') = n + l
  BY <1>1, <1>2, MallocFailsPages
<1>4. PGSIZE \in Nat /\ PGSIZE >= 1 /\ n \in Nat /\ l \in Nat
      /\ heap_map \in Seq(Page)
  BY <1>1, <1>2, HeapFacts, TypeFacts DEF Left, PageTypes
<1>5. /\ max = PGSIZE * n /\ heap_max' = PGSIZE * (n + l)
      /\ max \in Nat /\ heap_max' \in Nat /\ max <= heap_max'
  <2>1. max = PGSIZE * n /\ heap_max' = PGSIZE * (n + l)
    BY <1>1, <1>3 DEF heap_max
  <2>2. /\ PGSIZE * (n + l) = PGSIZE * n + PGSIZE * l
        /\ PGSIZE * n \in Nat /\ PGSIZE * l \in Nat
    BY <1>4
  <2> QED
    BY <2>1, <2>2
<1>6. /\ header \in [D -> Header] /\ D \subseteq 0 .. max - 1
      /\ D \in SUBSET Nat
  BY <1>1, <1>2, <1>5 DEF HeapTypes
<1>7. /\ header' \in [DOMAIN header' -> Header]
      /\ DOMAIN header' \subseteq 0 .. heap_max' - 1
  <2>1. CASE heap_map = <<>> /\ Left > 0
    <3>1. n = 0 /\ l >= 1
      BY <1>1, <1>4, <2>1
    <3>2. max = 0 /\ heap_max' >= 1
      <4>1. heap_max' = PGSIZE * l
        BY <1>4, <1>5, <3>1
      <4>2. PGSIZE * l >= PGSIZE
        BY <1>4, <3>1
      <4> QED
        BY <1>4, <1>5, <3>1, <4>1, <4>2
    <3>3. D = {}
      BY <1>6, <3>2
    <3>4. Cleared \in Header
      BY DEF Cleared, Header
    <3>5. header' = Written(header, 0, Cleared)
      BY <1>2, <2>1
    <3>6. /\ Written(header, 0, Cleared) \in [D \cup {0} -> Header]
      BY <1>6, <3>4 DEF Written
    <3>7. DOMAIN header' = {0} /\ header' \in [{0} -> Header]
      BY <3>3, <3>5, <3>6
    <3>8. 0 \in 0 .. heap_max' - 1
      BY <1>5, <3>2
    <3> QED
      BY <3>7, <3>8
  <2>2. CASE ~(heap_map = <<>> /\ Left > 0)
    <3>1. header' = header
      BY <1>2, <2>2
    <3>2. D \subseteq 0 .. heap_max' - 1
      BY <1>5, <1>6
    <3> QED
      BY <1>1, <1>6, <3>1, <3>2
  <2> QED
    BY <2>1, <2>2
<1>8. HeapTypes'
  <2>1. Header' = Header /\ misled' \in BOOLEAN
    BY <1>2 DEF Header, NULL, HeapTypes
  <2> QED
    BY <1>2, <1>7, <2>1 DEF HeapTypes
<1>9. ASSUME ~misled' PROVE \E M \in SUBSET Nat : ListIs(M)'
  <2>1. ~misled /\ heap_first # NULL
    BY <1>2, <1>9
  <2>2. PICK L \in SUBSET Nat : ListIs(L)
    BY <1>2, <2>1 DEF ListInv
  <2>3. L # {} /\ Tiled(header, L, max)
    BY <1>1, <2>1, <2>2 DEF ListIs
  <2>4. 0 \in D
    BY <1>1, <2>3 DEF Tiled, Chained
  <2>5. heap_map # <<>>
    <3>1. max # 0
      BY <1>5, <1>6, <2>4
    <3>2. n # 0
      BY <1>4, <1>5, <3>1
    <3> QED
      BY <1>1, <3>2
  <2>6. header' = header
    BY <1>2, <2>5
  <2>7. Tiled(header, L, heap_max')
    BY <1>5, <1>6, <2>3, TiledHigher
  <2>8. ListIs(L)'
    BY <1>2, <2>2, <2>3, <2>6, <2>7 DEF ListIs
  <2> QED
    BY <2>8
<1> QED
  BY <1>3, <1>8, <1>9 DEF MemoryInv, ListInv

\* The other steps leave the heap alone.
LEMMA SameHeap ==
    ASSUME HeapTypes, ListInv, UNCHANGED <<heapVars, live, misled>>
    PROVE  HeapTypes' /\ ListInv'
<1>1. UNCHANGED <<heap_first, heap_map, header, live, misled>>
  BY DEF heapVars
<1>2. heap_max' = heap_max
  BY <1>1 DEF heap_max
<1>3. HeapTypes'
  <2>1. Header' = Header /\ NULL' = NULL
    BY DEF Header, NULL
  <2> QED
    BY <1>1, <1>2, <2>1 DEF HeapTypes
<1>4. ASSUME NEW L \in SUBSET Nat, ListIs(L) PROVE ListIs(L)'
  BY <1>1, <1>2, <1>4, Static DEF ListIs
<1> QED
  BY <1>1, <1>3, <1>4 DEF ListInv

\* The invariant holds at first.
LEMMA InitKeeps ==
    ASSUME Init
    PROVE  MemoryInv
<1>1. /\ header = <<>> /\ live = {} /\ DOMAIN header = {} /\ misled = FALSE
      /\ heap_first = NULL
  BY DEF Init, init_heap
<1>2. HeapTypes
  <2>1. header \in [DOMAIN header -> Header]
    BY <1>1
  <2>2. IsFiniteSet(live) /\ Cardinality(live) = 0
    BY <1>1, FS_EmptySet
  <2>3. Cardinality(live) <= MaxLive
    BY <2>2, Constants
  <2>4. live \subseteq [at : Nat, len : Sizes] /\ misled \in BOOLEAN
        /\ DOMAIN header \subseteq 0 .. heap_max - 1
    BY <1>1
  <2> QED
    BY <1>1, <2>1, <2>2, <2>3, <2>4 DEF HeapTypes
<1>3. ListIs({})
  <2>1. Used(header, {}) = {}
    BY DEF Used
  <2>2. Tiled(header, {}, heap_max)
    BY DEF Tiled, Chained, Spaced, Linked
  <2>3. HeldIn(header, live, {})
    BY <1>1 DEF HeldIn
  <2> QED
    BY <1>1, <2>1, <2>2, <2>3 DEF ListIs
<1> QED
  BY <1>2, <1>3, InitPages DEF MemoryInv, ListInv

\* Each step keeps it.
LEMMA StepKeeps ==
    ASSUME MemoryInv, PopAtomic, [Next]_vars
    PROVE  MemoryInv'
<1>0. PageInv /\ HeapTypes /\ ListInv
  BY DEF MemoryInv
<1>1. CASE \E size \in Sizes : Malloc(size)
  BY <1>1, MallocKeeps
<1>2. CASE \E b \in live : Free(b)
  BY <1>2, FreeKeeps
<1>3. ASSUME PageInv', UNCHANGED <<heapVars, live, misled>>
      PROVE  MemoryInv'
  BY <1>0, <1>3, SameHeap DEF MemoryInv
<1>4. CASE \E size \in Sizes : MallocFails(size)
  BY <1>4, FailsKeeps
<1>5. CASE Launch
  <2>1. PageInv' /\ UNCHANGED <<heapVars, live, misled>>
    BY <1>0, <1>5, LaunchPages DEF Launch, heapUsers
  <2> QED
    BY <1>3, <2>1
<1>6. CASE PopLoad
  <2>1. PageInv' /\ UNCHANGED <<heapVars, live, misled>>
    BY <1>0, <1>6, PopLoadPages DEF PopLoad, heapUsers
  <2> QED
    BY <1>3, <2>1
<1>7. CASE PopStore
  <2>1. PageInv' /\ UNCHANGED <<heapVars, live, misled>>
    BY <1>0, <1>7, PopStorePages DEF PopStore, heapUsers
  <2> QED
    BY <1>3, <2>1
<1>8. CASE PopRead
  <2>1. PageInv' /\ UNCHANGED <<heapVars, live, misled>>
    BY <1>0, <1>8, PopReadPages DEF PopRead, heapUsers
  <2> QED
    BY <1>3, <2>1
<1>9. CASE PopFails \/ PopPanics
  <2>1. PageInv' /\ UNCHANGED <<heapVars, live, misled>>
    BY <1>0, <1>9, PopFailsPages DEF PopFails, PopPanics, heapUsers
  <2> QED
    BY <1>3, <2>1
<1>10. CASE Insert
  <2>1. PageInv' /\ UNCHANGED <<heapVars, live, misled>>
    BY <1>0, <1>10, InsertPages DEF Insert, heapUsers
  <2> QED
    BY <1>3, <2>1
<1>11. CASE \E p \in Pids : Exit(p)
  <2>1. PageInv' /\ UNCHANGED <<heapVars, live, misled>>
    BY <1>0, <1>11, ExitPages DEF Exit, heapUsers
  <2> QED
    BY <1>3, <2>1
<1>12. CASE UNCHANGED vars
  <2>1. /\ UNCHANGED <<pageVars, heap_map, shellVars, stack_map>>
        /\ UNCHANGED <<heapVars, live, misled>>
    BY <1>12 DEF vars, heapVars
  <2>2. PageInv'
    BY <1>0, <2>1, StillPages
  <2> QED
    BY <1>3, <2>1, <2>2
<1> QED
  BY <1>1, <1>2, <1>4, <1>5, <1>6, <1>7, <1>8, <1>9, <1>10, <1>11, <1>12
  DEF Next

\* The inductive invariant.
LEMMA Keeps ==
    ASSUME PopAtomic
    PROVE  Spec => []MemoryInv
<1>1. Init => MemoryInv
  BY InitKeeps
<1>2. MemoryInv /\ [Next]_vars => MemoryInv'
  BY StepKeeps
<1> QED
  BY <1>1, <1>2, PTL DEF Spec

----------------------------------------------------------------------------
\* The chunks of the list, whichever it is.
LEMMA ListFacts ==
    ASSUME MemoryInv, ~misled
    PROVE  /\ Legible /\ Chunks \subseteq Nat
           /\ HeldIn(header, live, {c \in Chunks : header[c].allocated})
           /\ \A c \in Chunks : header[c].length \in Nat
           /\ \A c, d \in Chunks : c < d => c + header[c].length <= d
           /\ \A c \in Chunks : End(c) <= heap_max
           /\ ChunksTile
<1>1. PageTypes /\ HeapTypes /\ ListInv
  BY DEF MemoryInv, PageInv
<1>2. PICK L \in SUBSET Nat : ListIs(L)
  BY <1>1 DEF ListInv
<1>3. Chunks = L /\ Legible
  BY <1>1, <1>2, ListMet
<1>4. PICK D, max : D = DOMAIN header /\ max = heap_max
  OBVIOUS
<1>5. /\ D \in SUBSET Nat /\ header \in [D -> Header] /\ max \in Nat
      /\ Tiled(header, L, max) /\ Chained(header, L, max)
  BY <1>1, <1>2, <1>4, HeapFacts DEF HeapTypes, ListIs, Tiled
<1>6. /\ \A x \in L : header[x].length \in Nat /\ x + header[x].length <= max
      /\ \A x \in L : \/ header[x].next = NULL
                      \/ header[x].next = x + header[x].length
      /\ \A x, y \in L : x < y => x + header[x].length <= y
  BY <1>5, ChainFacts
<1>7. \A c \in L : ~header[c].allocated =>
          header[c].next # NULL /\ header[header[c].next].allocated
  BY <1>5 DEF Tiled
<1>8. HeldIn(header, live, {c \in L : header[c].allocated})
  BY <1>2 DEF ListIs, Used
<1>9. ChunksTile
  BY <1>3, <1>4, <1>6, <1>7 DEF ChunksTile, End
<1> QED
  BY <1>3, <1>4, <1>6, <1>8, <1>9 DEF End

\* Blocks in different chunks lie apart.
LEMMA KeptApart ==
    ASSUME MemoryInv
    PROVE  BlocksDisjoint
<1>0. SUFFICES ASSUME ~misled
               PROVE  \A b \in live :
                          /\ \A c \in live \ {b} : Bytes(b) \cap Bytes(c) = {}
                          /\ \A c \in Chunks : c \notin Bytes(b)
  BY DEF BlocksDisjoint
<1>1. /\ Chunks \subseteq Nat
      /\ HeldIn(header, live, {c \in Chunks : header[c].allocated})
      /\ \A c \in Chunks : header[c].length \in Nat
      /\ \A c, d \in Chunks : c < d => c + header[c].length <= d
  BY <1>0, ListFacts
<1>2. \A b \in live : b.at \in Nat /\ b.len \in Nat
  <2>1. live \subseteq [at : Nat, len : Sizes] /\ Sizes \subseteq Nat
    BY Constants DEF MemoryInv, HeapTypes
  <2> QED
    BY <2>1
<1>3. \A b \in live : /\ b.at - HEADER \in Chunks
                      /\ b.len + HEADER <= header[b.at - HEADER].length
  BY <1>1 DEF HeldIn
<1>4. \A b, c \in live : b.at = c.at => b = c
  BY <1>1 DEF HeldIn
<1>5. HEADER = 1
  BY DEF HEADER
\* A block and a chunk that starts elsewhere.
<1>6. ASSUME NEW b \in live, NEW c \in Chunks, c # b.at - HEADER
      PROVE  c + header[c].length < b.at \/ b.at + b.len <= c
  <2>1. PICK a : a = b.at - HEADER
    OBVIOUS
  <2>2. /\ a \in Chunks /\ a \in Nat /\ c \in Nat /\ a # c
        /\ header[a].length \in Nat /\ b.len + 1 <= header[a].length
        /\ a + 1 = b.at /\ b.len \in Nat
    BY <1>1, <1>2, <1>3, <1>5, <1>6, <2>1
  <2>3. a < c => a + header[a].length <= c
    BY <1>1, <2>2
  <2>4. c < a => c + header[c].length <= a
    BY <1>1, <2>2
  <2>5. header[c].length \in Nat
    BY <1>1
  <2> QED
    BY <2>2, <2>3, <2>4, <2>5
<1>7. ASSUME NEW b \in live, NEW c \in live \ {b}
      PROVE  (b.at .. b.at + b.len - 1) \cap (c.at .. c.at + c.len - 1) = {}
  <2>1. PICK a : a = c.at - HEADER
    OBVIOUS
  <2>2. /\ a \in Chunks /\ a \in Nat /\ header[a].length \in Nat
        /\ c.len + 1 <= header[a].length /\ a + 1 = c.at
        /\ c.len \in Nat /\ b.at \in Nat /\ b.len \in Nat
    BY <1>1, <1>2, <1>3, <1>5, <2>1
  <2>3. a # b.at - HEADER
    BY <1>2, <1>4, <1>5, <2>2
  <2>4. a + header[a].length < b.at \/ b.at + b.len <= a
    BY <1>6, <2>2, <2>3
  <2>5. c.at + c.len <= b.at \/ b.at + b.len <= c.at
    BY <2>2, <2>4
  <2> QED
    BY <2>2, <2>5
<1>8. ASSUME NEW b \in live, NEW c \in Chunks
      PROVE  c \notin b.at .. b.at + b.len - 1
  <2>1. /\ c \in Nat /\ b.at \in Nat /\ b.len \in Nat
        /\ header[c].length \in Nat
    BY <1>1, <1>2
  <2>2. CASE c = b.at - HEADER
    BY <1>5, <2>1, <2>2
  <2>3. CASE c # b.at - HEADER
    <3>1. c + header[c].length < b.at \/ b.at + b.len <= c
      BY <1>6, <2>3
    <3> QED
      BY <2>1, <3>1
  <2> QED
    BY <2>2, <2>3
<1> QED
  BY <1>7, <1>8 DEF Bytes

\* Each block in use has its allocated chunk, and each such chunk its block.
LEMMA Tracked ==
    ASSUME MemoryInv
    PROVE  BlocksTracked
<1>0. SUFFICES ASSUME ~misled
               PROVE  {b.at - HEADER : b \in live} =
                          {c \in Chunks : header[c].allocated}
  BY DEF BlocksTracked
<1>1. PICK C : C = {c \in Chunks : header[c].allocated}
  OBVIOUS
<1>2. HeldIn(header, live, C) /\ C \subseteq Nat
  BY <1>0, <1>1, ListFacts
<1>3. \A c \in C : (c + HEADER) - HEADER = c
  BY <1>2 DEF HEADER
<1>4. {b.at - HEADER : b \in live} \subseteq C
  BY <1>2 DEF HeldIn
<1>5. C \subseteq {b.at - HEADER : b \in live}
  BY <1>2, <1>3 DEF HeldIn
<1> QED
  BY <1>1, <1>4, <1>5

\* The pages of the heap are different pages.
LEMMA HeapBounded ==
    ASSUME PageInv
    PROVE  heap_max <= MAX_PAGE_NUM * PGSIZE
<1> DEFINE S == 1 .. Len(heap_map)
           f == [i \in S |-> heap_map[i]]
<1>1. /\ UseInv /\ Len(heap_map) \in Nat /\ DOMAIN heap_map = S
  BY TypeFacts DEF PageInv
<1>2. PICK Old : Old = Places(Top)
  OBVIOUS
<1>3. /\ \A u \in Old : PageAt(u) \in Page
      /\ \A u, v \in Old : PageAt(u) = PageAt(v) => u = v
  BY <1>1, <1>2 DEF UseInv
<1>4. ASSUME NEW i \in S
      PROVE  \E u \in Old : u = <<"heap", 0, i>> /\ PageAt(u) = heap_map[i]
  BY <1>1, <1>2, PlaceKinds, PagesThere
<1>5. ASSUME NEW i \in S PROVE heap_map[i] \in Page
  BY <1>3, <1>4
<1>6. ASSUME NEW i \in S, NEW j \in S, heap_map[i] = heap_map[j]
      PROVE  i = j
  <2>1. PICK u \in Old : u = <<"heap", 0, i>> /\ PageAt(u) = heap_map[i]
    BY <1>4
  <2>2. PICK v \in Old : v = <<"heap", 0, j>> /\ PageAt(v) = heap_map[j]
    BY <1>4
  <2>3. u = v
    BY <1>3, <1>6, <2>1, <2>2
  <2> QED
    BY <2>1, <2>2, <2>3
<1>7. f \in Injection(S, Page)
  BY <1>5, <1>6 DEF Injection, IsInjective
<1>8. /\ IsFiniteSet(Page) /\ Cardinality(Page) = MAX_PAGE_NUM
      /\ IsFiniteSet(S) /\ Cardinality(S) = Len(heap_map)
  <2>1. \A b \in Nat : IsFiniteSet(1 .. b) /\ Cardinality(1 .. b) = b
    <3> TAKE b \in Nat
    <3>1. /\ IsFiniteSet(1 .. b)
          /\ Cardinality(1 .. b) = IF 1 > b THEN 0 ELSE b - 1 + 1
      BY FS_Interval
    <3> QED
      BY <3>1
  <2>2. /\ IsFiniteSet(0 .. MAX_PAGE_NUM - 1)
        /\ Cardinality(0 .. MAX_PAGE_NUM - 1)
               = IF 0 > MAX_PAGE_NUM - 1 THEN 0
                 ELSE MAX_PAGE_NUM - 1 - 0 + 1
    BY Constants, FS_Interval
  <2> QED
    BY <1>1, <2>1, <2>2, Constants DEF Page
<1>9. Len(heap_map) <= MAX_PAGE_NUM
  <2> HIDE DEF f, S
  <2>1. Cardinality(S) <= Cardinality(Page)
    BY <1>7, <1>8, FS_Injection
  <2> QED
    BY <1>8, <2>1
<1>10. PICK n, P, N : n = Len(heap_map) /\ P = PGSIZE /\ N = MAX_PAGE_NUM
  OBVIOUS
<1>11. /\ n \in Nat /\ P \in Nat /\ N \in Nat /\ n <= N
      /\ heap_max = P * n
  BY <1>1, <1>9, <1>10, Constants DEF heap_max
<1>12. P * n <= N * P
  BY <1>11
<1> QED
  BY <1>10, <1>11, <1>12

----------------------------------------------------------------------------
\* Every variable keeps to its type: among others, the top of the free stack
\* stays within pmm_stack, and every header within mapped memory.
THEOREM MemoryTypes ==
    ASSUME PopAtomic
    PROVE  Spec => []TypeOK
<1>1. ASSUME MemoryInv PROVE TypeOK
  <2>1. PageTypes /\ HeapTypes
    BY <1>1 DEF MemoryInv, PageInv
  <2>2. \A a \in DOMAIN header :
            /\ a \in 0 .. heap_max - 1
            /\ header[a].prev \in Nat \cup {NULL}
            /\ header[a].next \in Nat \cup {NULL}
            /\ header[a].allocated \in BOOLEAN
            /\ header[a].length \in Nat
    <3> TAKE a \in DOMAIN header
    <3>1. a \in 0 .. heap_max - 1 /\ header[a] \in Header
      BY <2>1 DEF HeapTypes
    <3> QED
      BY <3>1 DEF Header
  <2> QED
    BY <2>1, <2>2 DEF TypeOK, PageTypes, Loading, HeapTypes
<1> QED
  BY <1>1, Keeps, PTL

\* No physical page has two uses, whatever malloc(), free(), launches and
\* exits there have been (pmm_alloc_page, page_insert, page_remove).
THEOREM PagesStayExclusive ==
    ASSUME PopAtomic
    PROVE  Spec => []PagesExclusive
<1>1. ASSUME MemoryInv, pc \notin {"store", "read"}
      PROVE  \A u, v \in Places(pmm_stack_top) : PageAt(u) = PageAt(v) => u = v
  <2>1. UseInv /\ Top = pmm_stack_top
    BY <1>1 DEF MemoryInv, PageInv, Top
  <2> QED
    BY <2>1 DEF UseInv
<1>2. MemoryInv => PagesExclusive
  BY <1>1 DEF PagesExclusive
<1> QED
  BY <1>2, Keeps, PTL

\* When no stack is being mapped, a page that is nowhere once was the heap's:
\* exits give back every page of their stacks (env_free).
THEOREM NoStackPageLost ==
    ASSUME PopAtomic
    PROVE  Spec => []StacksReclaimed
<1>1. ASSUME MemoryInv, pc = "ready", NEW p \in Page \ {0}
      PROVE  \/ \E u \in Places(pmm_stack_top) : PageAt(u) = p
             \/ pp_ref[p] = Refs - 1
  <2>1. UseInv /\ Top = pmm_stack_top
    BY <1>1 DEF MemoryInv, PageInv, Top
  <2> QED
    BY <2>1 DEF UseInv
<1>2. MemoryInv => StacksReclaimed
  BY <1>1 DEF StacksReclaimed
<1> QED
  BY <1>2, Keeps, PTL

\* Until a kfree() follows a stale prev or memory runs out at the first
\* kmalloc(), both read only headers, however many blocks are in use: the
\* guards Legible and Followed then leave nothing of the code out.
Readable ==
    ~misled =>
        /\ Legible
        /\ \A b \in live : ~Stale(b.at - HEADER) => Followed(b.at - HEADER)

LEMMA Reads ==
    ASSUME MemoryInv
    PROVE  Readable
<1>0. SUFFICES ASSUME ~misled, NEW b \in live, ~Stale(b.at - HEADER)
               PROVE  Followed(b.at - HEADER)
  <2>1. ~misled => Legible
    BY ListFacts
  <2> QED
    BY <2>1 DEF Readable
<1>1. PageTypes /\ HeapTypes /\ ListInv
  BY DEF MemoryInv, PageInv
<1>2. PICK L \in SUBSET Nat : ListIs(L)
  BY <1>0, <1>1 DEF ListInv
<1>3. Chunks = L
  BY <1>1, <1>2, ListMet
<1>4. PICK D, max, p : /\ D = DOMAIN header /\ max = heap_max
                       /\ p = b.at - HEADER
  OBVIOUS
<1>5. /\ D \in SUBSET Nat /\ header \in [D -> Header] /\ max \in Nat
      /\ Tiled(header, L, max) /\ Chained(header, L, max)
  BY <1>1, <1>2, <1>4, HeapFacts DEF HeapTypes, ListIs, Tiled
<1>6. /\ L \subseteq D /\ NULL \notin L
      /\ \A x \in L : header[x].next \in L \cup {NULL}
      /\ L # {} => 0 \in L /\ header[0].prev = NULL
  BY <1>5, ChainFacts
<1>7. p \in L /\ L # {} /\ heap_first = 0
  BY <1>2, <1>4 DEF ListIs, HeldIn, Used
<1>8. header[p].prev \in L \cup {NULL}
  <2>1. CASE p = 0
    BY <1>6, <1>7, <2>1
  <2>2. CASE p # 0
    BY <1>0, <1>3, <1>4, <1>7, <2>2 DEF Stale
  <2> QED
    BY <2>1, <2>2
<1>9. ASSUME header[p].prev # NULL, ~header[header[p].prev].allocated
      PROVE  header[header[p].prev].prev \in L \cup {NULL}
  <2>1. PICK q : q = header[p].prev
    OBVIOUS
  <2>2. q \in L /\ ~header[q].allocated
    BY <1>8, <1>9, <2>1
  <2>3. Right(header, L, q)
    BY <1>5, <2>2 DEF Tiled
  <2>4. header[q].prev \in L \cup {NULL}
    BY <1>6, <1>7, <2>3 DEF Right
  <2> QED
    BY <2>1, <2>4
<1>10. Followed(p)
  BY <1>4, <1>6, <1>7, <1>8, <1>9 DEF Followed, NextFree, PrevFree
<1> QED
  BY <1>4, <1>10

THEOREM ListStaysReadable ==
    ASSUME PopAtomic
    PROVE  Spec => []Readable
<1>1. MemoryInv => Readable
  BY Reads
<1> QED
  BY <1>1, Keeps, PTL

\* The list's allocated chunks are the blocks in use, however many there are:
\* kmalloc() and kfree() neither lose a block nor keep a freed one.
THEOREM BlocksStayTracked ==
    ASSUME PopAtomic
    PROVE  Spec => []BlocksTracked
<1>1. MemoryInv => BlocksTracked
  BY Tracked
<1> QED
  BY <1>1, Keeps, PTL

\* The list's chunks follow each other without a gap in mapped memory, the
\* last in use, and glue_chunk() leaves no two free neighbours.
THEOREM ChunksStayTiled ==
    ASSUME PopAtomic
    PROVE  Spec => []ChunksTile
<1>1. MemoryInv => ChunksTile
  BY ListFacts DEF ChunksTile
<1> QED
  BY <1>1, Keeps, PTL

\* No two blocks in use overlap, nor a block and a chunk's header.
THEOREM BlocksStayDisjoint ==
    ASSUME PopAtomic
    PROVE  Spec => []BlocksDisjoint
<1>1. MemoryInv => BlocksDisjoint
  BY KeptApart
<1> QED
  BY <1>1, Keeps, PTL

\* What a block handed out keeps to, as the steps below need it.
AllocInv ==
    /\ BlocksDisjoint
    /\ ~misled => \A b \in live : b.at \in 0 .. MAX_PAGE_NUM * PGSIZE

\* Blocks lie in the memory that all pages together can make.
LEMMA BlocksInRange ==
    ASSUME MemoryInv
    PROVE  AllocInv
<1>0. SUFFICES ASSUME ~misled
               PROVE  \A b \in live : b.at \in 0 .. MAX_PAGE_NUM * PGSIZE
  BY KeptApart DEF AllocInv
<1>1. /\ Chunks \subseteq Nat
      /\ HeldIn(header, live, {c \in Chunks : header[c].allocated})
      /\ \A c \in Chunks : header[c].length \in Nat
      /\ \A c \in Chunks : End(c) <= heap_max
  BY <1>0, ListFacts
<1>2. PICK M, N : M = heap_max /\ N = MAX_PAGE_NUM * PGSIZE
  OBVIOUS
<1>3. M \in Nat /\ N \in Nat /\ M <= N
  BY <1>2, HeapFacts, HeapBounded, Constants DEF MemoryInv, PageInv
<1>4. live \subseteq [at : Nat, len : Sizes] /\ Sizes \subseteq Nat
  BY Constants DEF MemoryInv, HeapTypes
<1>5. ASSUME NEW b \in live PROVE b.at \in 0 .. N
  <2>1. b.at \in Nat /\ b.len \in Nat
    BY <1>4
  <2>2. PICK c : c = b.at - HEADER
    OBVIOUS
  <2>3. c \in Chunks /\ b.len + HEADER <= header[c].length
    BY <1>1, <2>2 DEF HeldIn
  <2>4. c + header[c].length <= M
    BY <1>1, <1>2, <2>3 DEF End
  <2>5. c \in Nat /\ header[c].length \in Nat
    BY <1>1, <2>3
  <2> QED
    BY <1>3, <2>1, <2>2, <2>3, <2>4, <2>5 DEF HEADER
<1> QED
  BY <1>2, <1>5

\* Each step is a step of Allocator or leaves its variables alone.
Allocation == Abstract!Malloc \/ Abstract!Free \/ Abstract!OutOfMemory
                  \/ Abstract!Misled
LEMMA StepAllocates ==
    ASSUME AllocInv', misled \in BOOLEAN, [Next]_vars
    PROVE  [Allocation]_<<live, misled>>
<1>1. CASE \E size \in Sizes : Malloc(size)
  <2>1. PICK size \in Sizes : Malloc(size)
    BY <1>1
  <2>2. PICK a : a = (IF Fitting(size + HEADER) # {}
                      THEN FirstFit(size + HEADER) ELSE chunk_start) + HEADER
    OBVIOUS
  <2>3. PICK x : x = [at |-> a, len |-> size]
    OBVIOUS
  <2>4. live' = live \cup {x} /\ misled' = misled
    BY <2>1, <2>2, <2>3 DEF Malloc
  <2>5. CASE x \in live
    BY <2>4, <2>5
  <2>6. CASE misled
    BY <2>4, <2>6 DEF Allocation, Abstract!Misled
  <2>7. CASE x \notin live /\ ~misled
    <3>1. \A c \in live : (x.at .. x.at + x.len - 1)
                              \cap (c.at .. c.at + c.len - 1) = {}
      <4>1. \A b \in live' : \A c \in live' \ {b} :
                (b.at .. b.at + b.len - 1)
                    \cap (c.at .. c.at + c.len - 1) = {}
        BY <2>4, <2>7 DEF AllocInv, BlocksDisjoint, Bytes
      <4> QED
        BY <2>4, <2>7, <4>1
    <3>2. a \in 0 .. MAX_PAGE_NUM * PGSIZE
      <4>1. \A b \in live' : b.at \in 0 .. MAX_PAGE_NUM * PGSIZE
        BY <2>4, <2>7 DEF AllocInv
      <4>2. x.at \in 0 .. MAX_PAGE_NUM * PGSIZE
        BY <2>4, <4>1
      <4> QED
        BY <2>3, <4>2
    <3>3. Abstract!Malloc
      BY <2>3, <2>4, <3>1, <3>2
      DEF Abstract!Malloc, Abstract!Disjoint, Abstract!Bytes
    <3> QED
      BY <3>3 DEF Allocation
  <2> QED
    BY <2>5, <2>6, <2>7
<1>2. CASE \E b \in live : Free(b)
  <2>1. PICK b \in live : Free(b)
    BY <1>2
  <2>2. live' = live \ {b} /\ misled' = (misled \/ Stale(b.at - HEADER))
    BY <2>1 DEF Free
  <2>3. misled' \in {misled, TRUE}
    BY <2>2
  <2>4. Abstract!Free
    BY <2>2, <2>3 DEF Abstract!Free
  <2> QED
    BY <2>4 DEF Allocation
<1>3. CASE \E size \in Sizes : MallocFails(size)
  <2>1. live' = live /\ misled' = (misled \/ heap_first = NULL)
    BY <1>3 DEF MallocFails
  <2>2. CASE misled'
    BY <2>1, <2>2 DEF Allocation, Abstract!OutOfMemory
  <2>3. CASE ~misled'
    BY <2>1, <2>3
  <2> QED
    BY <2>2, <2>3
<1>4. CASE UNCHANGED <<live, misled>>
  BY <1>4
<1> QED
  BY <1>1, <1>2, <1>3, <1>4
  DEF Next, vars, heapUsers, Launch, PopLoad, PopPanics, PopStore, PopRead,
      PopFails, Insert, Exit

\* As long as no kfree() has followed a stale prev and memory has not run out
\* at the first kmalloc(), each malloc() hands out a block of the heap's range
\* that overlaps no block in use, and only free() takes one away, for any
\* number of blocks: kmalloc() and kfree() implement Allocator.
THEOREM HeapAllocates ==
    ASSUME PopAtomic
    PROVE  Spec => Allocates
<1>1. Init => Abstract!Init
  BY DEF Init, Abstract!Init
<1>2. MemoryInv => AllocInv /\ misled \in BOOLEAN
  BY BlocksInRange DEF MemoryInv, HeapTypes
<1>3. AllocInv' /\ misled \in BOOLEAN /\ [Next]_vars
          => [Abstract!Malloc \/ Abstract!Free \/ Abstract!OutOfMemory
                  \/ Abstract!Misled]_<<live, misled>>
  BY StepAllocates DEF Allocation
<1> QED
  BY <1>1, <1>2, <1>3, Keeps, PTL DEF Spec, Allocates, Abstract!Spec
===============================================================================
