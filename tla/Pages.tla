-------------------------------- MODULE Pages --------------------------------
(***************************************************************************)
(* Physical pages: mm/pmm.c, and the page operations of mm/vmm.c.          *)
(*                                                                         *)
(* Free pages are kept on the stack pmm_stack[0 .. pmm_stack_top].  A page *)
(* is named by its index in pages[].                                       *)
(***************************************************************************)
EXTENDS Integers, Sequences, FiniteSets, SequencesExt

CONSTANT MAX_PAGE_NUM    \* how many pages init_pmm() finds

ASSUME PagesAssumption == MAX_PAGE_NUM \in Nat /\ MAX_PAGE_NUM >= 3

NoPage == -1
Page == 0 .. MAX_PAGE_NUM - 1
Refs == 65536            \* 2^16: pp_ref is a uint16_t

VARIABLES
    pmm_stack,        \* the array of free pages
    pmm_stack_top,
    pp_ref            \* how many times each page is mapped

pageVars == <<pmm_stack, pmm_stack_top, pp_ref>>

\* init_pmm() fills positions 0 .. n-1, sets the top to n and then reverses
\* positions 1 .. n: page 0 stays below the stack and the empty position n
\* comes down to position 1.  For an even n the middle pair is not swapped.
Filled(i) == IF i < MAX_PAGE_NUM THEN i ELSE NoPage
Swapped(i) ==
    LET other == MAX_PAGE_NUM + 1 - i
        mid   == (1 + MAX_PAGE_NUM) \div 2
    IN  i # 0 /\ (i < mid \/ other < mid)

init_pmm ==
    /\ pmm_stack = [i \in 0 .. MAX_PAGE_NUM |->
                        Filled(IF Swapped(i) THEN MAX_PAGE_NUM + 1 - i ELSE i)]
    /\ pmm_stack_top = MAX_PAGE_NUM
    /\ pp_ref = [p \in Page |-> 1]

\* k calls of pmm_alloc_page() in a row hand out these pages.  Position 1 holds
\* no page at first: a call that reaches it has popped it and reads through a
\* null pointer.  A call at the top 0 panics.
Left == IF pmm_stack_top # 0 /\ pmm_stack[1] = NoPage
        THEN pmm_stack_top - 1 ELSE pmm_stack_top
Available(k) == k <= Left
Popped(k) == [i \in 1 .. k |-> pmm_stack[pmm_stack_top + 1 - i]]
Zeroed_refs(k) ==
    pp_ref' = [p \in Page |-> IF p \in ToSet(Popped(k)) THEN 0 ELSE pp_ref[p]]

pmm_alloc_pages_keeps(k) ==   \* mutant: the top is not lowered
    Zeroed_refs(k) /\ UNCHANGED <<pmm_stack, pmm_stack_top>>
pmm_alloc_pages(k) ==
    /\ pmm_stack_top' = pmm_stack_top - k
    /\ Zeroed_refs(k)
    /\ UNCHANGED pmm_stack

\* As many calls as there are pages, and one more, which does not return.
pmm_alloc_fails ==
    /\ pmm_stack_top' = 0
    /\ Zeroed_refs(Left)
    /\ UNCHANGED pmm_stack

\* page_remove() on a sequence of mapped pages: drop a reference, and give
\* back the pages that have none left.
Dec_unbounded(n) == n - 1   \* mutant: no 16-bit wrap
Dec(n) == (n - 1) % Refs

Freed(mapped) ==
    LET freed[n \in 0 .. Len(mapped)] ==
            IF n = 0 THEN <<>>
            ELSE IF Dec(pp_ref[mapped[n]]) = 0
                 THEN Append(freed[n - 1], mapped[n])
            ELSE freed[n - 1]
    IN  freed[Len(mapped)]

page_remove(mapped) ==
    /\ pp_ref' = [p \in Page |-> IF p \in ToSet(mapped) THEN Dec(pp_ref[p])
                                 ELSE pp_ref[p]]
    /\ pmm_stack_top' = pmm_stack_top + Len(Freed(mapped))
    /\ pmm_stack' = [i \in DOMAIN pmm_stack |->
                        IF i \in pmm_stack_top + 1 .. pmm_stack_top'
                        THEN Freed(mapped)[i - pmm_stack_top]
                        ELSE pmm_stack[i]]
=============================================================================
