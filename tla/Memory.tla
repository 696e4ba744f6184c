------------------------------- MODULE Memory -------------------------------
(***************************************************************************)
(* Who uses physical pages: the heap, through the malloc and free system   *)
(* calls of processes, and the stacks of processes, which load_icode()     *)
(* maps with interrupts on (region_alloc, pgdir_walk, page_insert) and     *)
(* env_free() unmaps inside the scheduler.  System calls and env_free()    *)
(* run with interrupts off and are one step each; they may come between    *)
(* two instructions of the shell's pop of a page.                          *)
(***************************************************************************)
EXTENDS Heap

CONSTANTS
    Sizes,             \* the lengths processes ask for
    MaxLive,           \* bound: how many blocks are in use at a time
    Pids,              \* the processes that are launched
    StackPages,        \* pages of a stack: 16 in the code
    StacksPerTable,    \* stacks that one page table covers: 64 in the code
    PopAtomic          \* TRUE: no interrupt falls into pmm_alloc_page()'s pop

ASSUME MemoryAssumption ==
    /\ Sizes \subseteq Nat \ {0}
    /\ MaxLive \in Nat
    /\ Pids \subseteq Nat
    /\ StackPages \in Nat \ {0} /\ StacksPerTable \in Nat \ {0}
    /\ PopAtomic \in BOOLEAN

VARIABLES
    live,         \* the blocks processes hold: what malloc returned, not freed
    misled,       \* history: kfree() has followed a stale prev, or memory has
                  \* run out after heap_first was set and before it had a page
    pc,           \* where the shell is in region_alloc()
    pid,          \* whose stack it is mapping
    reg,          \* the register that holds the top it has read
    want,         \* what the page is for: the stack, or a page table
    page,         \* the page it has for the stack
    started,      \* the pids launched so far; they are never reused
    stack_map,    \* pid -> the pages of its stack
    tables        \* page table -> its page

heapUsers == <<live, misled>>
shellVars == <<pc, pid, reg, want, page, started, tables>>
vars == <<pageVars, heapVars, live, misled, shellVars, stack_map>>

Table(p) == p \div StacksPerTable

Init ==
    /\ init_pmm
    /\ init_heap
    /\ live = {}
    /\ misled = FALSE
    /\ pc = "ready"
    /\ pid = NULL
    /\ reg = 0
    /\ want = "stack"
    /\ page = NoPage
    /\ started = {}
    /\ stack_map = [p \in Pids |-> <<>>]
    /\ tables = <<>>

\* A thread that panics or faults prints and loops with interrupts on: the
\* others go on.
Interruptible == PopAtomic => pc \notin {"store", "read"}
----------------------------------------------------------------------------
\* System calls of processes.
Malloc(size) ==
    LET len == size + HEADER
        at  == IF Fitting(len) # {} THEN FirstFit(len) ELSE chunk_start
    IN  /\ Interruptible /\ Legible
        /\ Cardinality(live) < MaxLive
        /\ kmalloc_fit(len) \/ kmalloc_grow(len)
        /\ live' = live \cup {[at |-> at + HEADER, len |-> size]}
        /\ UNCHANGED <<misled, shellVars, stack_map>>

\* The process gets no block and does not come back.
MallocFails(size) ==
    /\ Interruptible /\ Legible
    /\ kmalloc_fails(size + HEADER)
    /\ misled' = (misled \/ heap_first = NULL)
    /\ UNCHANGED <<live, shellVars, stack_map>>

Free(b) ==
    /\ Interruptible /\ Followed(b.at - HEADER)
    /\ kfree(b.at - HEADER)
    /\ misled' = (misled \/ Stale(b.at - HEADER))
    /\ live' = live \ {b}
    /\ UNCHANGED <<shellVars, stack_map>>

----------------------------------------------------------------------------
\* The shell launches a process: for each page of its stack, take a page and
\* then, when the page table is missing, another one for the table.
Launch ==
    /\ pc = "ready"
    /\ \E p \in Pids \ started :
           /\ \A q \in Pids \ started : p <= q
           /\ pid' = p
           /\ started' = started \cup {p}
    /\ pc' = "load"
    /\ want' = "stack"
    /\ UNCHANGED <<pageVars, heapVars, heapUsers, reg, page, tables, stack_map>>

\* page = pmm_stack[pmm_stack_top--], as the compiler splits it.
PopLoad ==
    /\ pc = "load" /\ pmm_stack_top # 0
    /\ reg' = pmm_stack_top
    /\ pc' = "store"
    /\ UNCHANGED <<pageVars, heapVars, heapUsers, pid, want, page, started,
                   tables, stack_map>>

PopPanics ==
    /\ pc = "load" /\ pmm_stack_top = 0
    /\ pc' = "fault"
    /\ UNCHANGED <<pageVars, heapVars, heapUsers, pid, reg, want, page,
                   started, tables, stack_map>>

PopStore ==
    /\ pc = "store"
    /\ pmm_stack_top' = reg - 1
    /\ pc' = "read"
    /\ UNCHANGED <<pmm_stack, pp_ref, heapVars, heapUsers, pid, reg, want,
                   page, started, tables, stack_map>>

Zeroed_forgotten(p) == UNCHANGED pp_ref   \* mutant: pp_ref keeps its 1
Zeroed(p) == pp_ref' = [pp_ref EXCEPT ![p] = 0]

PopRead ==
    LET p == pmm_stack[reg]
    IN  /\ pc = "read" /\ p # NoPage
        /\ Zeroed(p)
        /\ IF want = "stack"
           THEN page' = p /\ UNCHANGED tables
           ELSE tables' = Written(tables, Table(pid), p) /\ UNCHANGED page
        /\ IF want = "stack" /\ Table(pid) \notin DOMAIN tables
           THEN want' = "table" /\ pc' = "load"
           ELSE want' = "stack" /\ pc' = "insert"
        /\ UNCHANGED <<pmm_stack, pmm_stack_top, heapVars, heapUsers, pid,
                       reg, started, stack_map>>

PopFails ==
    /\ pc = "read" /\ pmm_stack[reg] = NoPage
    /\ pc' = "fault"
    /\ UNCHANGED <<pageVars, heapVars, heapUsers, pid, reg, want, page,
                   started, tables, stack_map>>

Insert ==
    /\ pc = "insert"
    /\ pp_ref' = [pp_ref EXCEPT ![page] = (@ + 1) % Refs]
    /\ stack_map' = [stack_map EXCEPT ![pid] = Append(@, page)]
    /\ page' = NoPage
    /\ pc' = IF Len(stack_map'[pid]) = StackPages THEN "ready" ELSE "load"
    /\ UNCHANGED <<pmm_stack, pmm_stack_top, heapVars, heapUsers, pid, reg,
                   want, started, tables>>

\* env_free(): the scheduler reaps a process, its page tables stay.
Exit(p) ==
    /\ Interruptible
    /\ Len(stack_map[p]) = StackPages
    /\ page_remove(stack_map[p])
    /\ stack_map' = [stack_map EXCEPT ![p] = <<>>]
    /\ UNCHANGED <<heapVars, heapUsers, shellVars>>

Next ==
    \/ \E size \in Sizes : Malloc(size) \/ MallocFails(size)
    \/ \E b \in live : Free(b)
    \/ Launch \/ PopLoad \/ PopPanics \/ PopStore \/ PopRead \/ PopFails
    \/ Insert
    \/ \E p \in Pids : Exit(p)

Spec == Init /\ [][Next]_vars

----------------------------------------------------------------------------
(***************************************************************************)
(* Properties                                                              *)
(***************************************************************************)

\* Every variable keeps to its type.
TypeOK ==
    /\ pmm_stack \in [0 .. MAX_PAGE_NUM -> Page \cup {NoPage}]
    /\ pmm_stack_top \in 0 .. MAX_PAGE_NUM
    /\ pp_ref \in [Page -> 0 .. Refs - 1]
    /\ heap_first \in {NULL, 0}
    /\ heap_map \in Seq(Page)
    /\ \A a \in DOMAIN header :
           /\ a \in 0 .. heap_max - 1
           /\ header[a].prev \in Nat \cup {NULL}
           /\ header[a].next \in Nat \cup {NULL}
           /\ header[a].allocated \in BOOLEAN
           /\ header[a].length \in Nat
    /\ Cardinality(live) <= MaxLive
    /\ misled \in BOOLEAN
    /\ pc \in {"ready", "load", "store", "read", "insert", "fault"}
    /\ pid \in Pids \cup {NULL}
    /\ reg \in 0 .. MAX_PAGE_NUM
    /\ want \in {"stack", "table"}
    /\ page \in Page \cup {NoPage}
    /\ started \subseteq Pids
    /\ stack_map \in [Pids -> Seq(Page)]

\* Where a page can be: on the free stack up to top, mapped by the heap, a
\* stack or the page directory, or in the shell's hands.
Places(top) ==
    {<<"free", 0, i>> : i \in {j \in 1 .. top : pmm_stack[j] # NoPage}}
        \cup {<<"heap", 0, i>> : i \in DOMAIN heap_map}
        \cup (UNION {{<<"stack", p, i>> : i \in DOMAIN stack_map[p]} :
                         p \in Pids})
        \cup {<<"table", 0, t>> : t \in DOMAIN tables}
        \cup {<<"shell", 0, 0>> : x \in {page} \ {NoPage}}

PageAt(u) ==
    CASE u[1] = "free"  -> pmm_stack[u[3]]
      [] u[1] = "heap"  -> heap_map[u[3]]
      [] u[1] = "stack" -> stack_map[u[2]][u[3]]
      [] u[1] = "table" -> tables[u[3]]
      [] u[1] = "shell" -> page

\* No physical page has two uses: it is mapped once, in the heap or in one
\* stack, or is one page table, or is free; and it is once on the free stack.
\* (While the shell is between the loads and stores of a pop the stack's top
\* says nothing.)
PagesExclusive ==
    pc \notin {"store", "read"} =>
        \A u, v \in Places(pmm_stack_top) : PageAt(u) = PageAt(v) => u = v

\* A process that exits gives back every page of its stack, whatever the heap
\* did in between: a page that is not in use and not free once was the heap's.
StacksReclaimed ==
    pc = "ready" =>
        \A p \in Page \ {0} :
            \/ \E u \in Places(pmm_stack_top) : PageAt(u) = p
            \/ pp_ref[p] = Refs - 1

\* The blocks in use are the allocated chunks of the list: the heap loses none
\* of them and keeps none that was freed, whatever was split, merged, cut off
\* or refused, as long as nothing has misled it.
BlocksTracked ==
    ~misled =>
        {b.at - HEADER : b \in live} = {c \in Chunks : header[c].allocated}

\* The chunks follow each other without a gap, the last one is in use, no two
\* neighbours are free, and all of them lie in mapped memory.
ChunksTile ==
    ~misled => \A c \in Chunks :
        /\ End(c) <= heap_max
        /\ header[c].next # NULL => header[c].next = End(c)
        /\ ~header[c].allocated =>
               /\ header[c].next # NULL
               /\ header[header[c].next].allocated

\* No two blocks in use overlap, nor a block and a chunk's header.
Bytes(b) == b.at .. b.at + b.len - 1
BlocksDisjoint ==
    ~misled => \A b \in live :
        /\ \A c \in live \ {b} : Bytes(b) \cap Bytes(c) = {}
        /\ \A c \in Chunks : c \notin Bytes(b)

\* What the comments of heap.h promise without that condition: the heap knows
\* the chunks before and behind each chunk and their lengths, so that no two
\* blocks in use overlap.
BlocksApart ==
    \A b, c \in live : b # c => Bytes(b) \cap Bytes(c) = {}

\* malloc() and free() keep the promise of Allocator.
Abstract == INSTANCE Allocator WITH
                Addr <- 0 .. MAX_PAGE_NUM * PGSIZE
Allocates == Abstract!Spec
=============================================================================
