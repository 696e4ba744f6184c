# Tulk, a small x86 kernel: TLA+ models, checks and proofs

Tulk (`src/`) is a teaching kernel for one 32-bit CPU: a shell that runs inside
the kernel as process 0, up to 1024 processes in the shell's address space, a
round-robin scheduler driven by the timer, job control (`&`, `jobs`, `fg`,
`stop`, `bring`, `kill`, ctrl-B), a page allocator, a kernel heap and a
text-mode console. This directory holds TLA+ models of its core, the TLC
configurations that check them on small instances, and TLAPS proofs of the
properties that matter most for instances of every size.

## 1. The system

### Parts, their state and their operations

| Part | Source | State | Operations | What makes it correct |
|---|---|---|---|---|
| process table | `kernel/env/env.c` | `envs[]`, `free_env_stack`, `env_map`, `env_counter`, stacks | `init_env`, `env_alloc`, `load_icode`, `env_free` | a slot is free once or in use once; a pid names its own process |
| scheduler | `kernel/env/sched.c`, `switch_to.s` | the ring of `next_env`, `cur_env`, saved contexts | `init_sched`, `schedule`, `switch_to` | one ring, no freed Env in it; every runnable process runs again; zombies are freed |
| timer | `drivers/timer.c` | none | an interrupt that calls `schedule()` | comes between any two statements |
| system calls | `idt/idt.c`, `libs/syscall.c` | `usr_buff` | `cputc`, `cgetc`, `getenvid`, `destroy`, `malloc`, `free`, `getstring` | a background process is blocked when it uses the console |
| interrupts | `idt/idt.c`, `idt_s.s` | the PICs, the gates, `interrupt_handlers[]`, the CPU's interrupt flag | `init_idt`, the stubs, `irq_handler`, `isr_handler`, `iret` | every request is served; handlers run with interrupts off, threads with them on |
| keyboard | `drivers/keyboard.c` | `buffer`, `shiftdown`, `ctrldown` | an interrupt that echoes and fills `buffer`; ctrl-B | the line the shell gets is the one on the screen |
| shell | `init/entry.c`, `kernel/env/shell.c` | `runinfo`, `has_front_env` | `getstring`, `parse_cmd`, one branch per command | a command reaches the process it names, or none |
| pages | `mm/pmm.c`, `mm/vmm.c` | `pmm_stack`, `pages[].pp_ref`, page tables | `init_pmm`, `pmm_alloc_page`, `pmm_free_page`, `page_insert`, `page_remove`, `map_region` | a page has one use, and is free again after it |
| heap | `mm/heap.c` | `heap_first`, `heap_max`, the chunk headers | `kmalloc`, `kfree`, `split_chunk`, `glue_chunk`, `alloc_chunk`, `free_chunk` | blocks in use do not overlap (until a stale `prev` is followed) |
| console | `drivers/console.c` | the cursor, `video_memory` | `console_putc_color`, `scroll` | the cursor is on the screen; text moves only by scrolling |
| formatted output | `kernel/debug/printk.c` | a static buffer | `printk`, `printk_color`, `vsprintf`, `number` | the text reads back as what was asked for, and is not mixed with an earlier one |
| strings | `libs/string.c`, `libs/common.c` | none | `strcmp`, `memcpy`, port I/O, ... | |
| file system prototype | `fs/fs.cc` | the inode bitmap, pages of Files and data, `where`, a path buffer | `mkdir`, `creat`, `cd`, `writefile`, `cat`, `ls`, `pwd`; not linked into the kernel | a page has one owner; what was written is read |
| boot, gdt, symbol tables | `boot/`, `gdt/`, `kernel/debug/elf.c`, `debug.c` | constant tables | run once, before interrupts are on | |

### How they interact, and what is hard

There is one CPU and no lock. Interrupt handlers and system calls run with
interrupts off (`idt_s.s` executes `cli`, and there is no nesting:
`docs/TULK开发简单笔记.md:76`; the module `Interrupts` shows how far this goes). **The shell is not a handler**: `kern_init()`'s
loop runs with interrupts on, and everything it calls, `load_icode()`,
`env_alloc()`, `pmm_alloc_page()`, `printk()` and, in the `fg` command,
`schedule()` itself, shares its data with the handlers that may interrupt it
between any two instructions. All the hard behaviour comes from there:

 - the timer's `schedule()` takes zombies out of the ring while `load_icode()`
   walks it, and pushes a slot or pages while the shell pops one;
 - `fg` calls `schedule()` on the shell's stack, and a timer interrupt runs
   `schedule()` inside it; the outer call goes on with stale locals;
 - `env_map[pid]` is checked by a command and used later;
 - the keyboard's echo falls into the shell's own output, its buffer holds
   one character, and shift and ctrl are what the last scancodes made of them;
 - `printk()` leaves interrupts on whatever they were, ends and writes its text
   with interrupts on, and has one buffer for all threads;
 - the timer's handler switches threads before it returns, so the end of its
   service, its `iret` and the interrupt flag belong to different threads;
 - a process that exits stands on the stack that another activation of the
   scheduler unmaps;
 - counters at their limits: 16-bit `pp_ref`, pid 1024, the full free stack,
   the last row and column of the screen, the tenth page of a file.

`PROJECT.json` lists each of these hazards at its line.

## 2. The modules

| Module | Models | Composes |
|---|---|---|
| `Env` | `env.c`: slots, free stack, pid map, the pieces of `load_icode()`, `env_free()` | |
| `Sched` | `sched.c`, `switch_to.s`: `schedule()` statement by statement, in two activations | `Env` |
| `Kernel` | `kern_init()`'s loop, `load_icode()`, the system calls, timer and keyboard | `Sched` |
| `KernelProofs` | theorems about `Kernel`: types, free stack, pid map | `Kernel` |
| `RingProofs` | theorems about `Kernel`: the ring, the contexts, and that it implements `JobControl` | `KernelProofs`, `KernelJobs` |
| `JobControl` | abstract: the life of every pid and who may change it | |
| `KernelJobs` | `Kernel` (without `fg`) implements `JobControl` | `Kernel`, `JobControl` |
| `Interrupts` | the PICs, the stubs, `irq_handler()`, `isr_handler()`, the interrupt flag | |
| `InterruptsProofs` | theorems about `Interrupts` | `Interrupts` |
| `Pages` | `pmm.c` and the page operations of `vmm.c` | |
| `Heap` | `heap.c` | `Pages` |
| `Memory` | the heap's users and the processes' stacks on the same pages | `Heap` |
| `Allocator` | abstract: what `malloc`/`free` promise; `Memory` implements it | |
| `MemoryProofs` | theorems about `Memory`: types, pages, blocks, and that it implements `Allocator` | `Memory` |
| `Console` | `console.c` as operators on a screen | |
| `Keyboard` | `keyboard.c`: layouts, shift and ctrl | |
| `Terminal` | the keyboard's interrupt, `getstring()`, the shell's printing, processes' output | `Console`, `Keyboard` |
| `TerminalProofs` | theorems about `Terminal` | `Terminal` |
| `Parse` | `parse_cmd()`, `parse_args()`, `parse_num()` and `strcmp()` on the memory `usr_buff` lies in | |
| `ParseProofs` | theorems about `Parse` | `Parse` |
| `Printk` | `printk.c`: `number()`, `vsprintf()`, `printk()` in two threads | |
| `PrintkProofs` | theorems about `Printk` | `Printk` |
| `Fs` | `fs.cc`: bitmap, pages, directories | |
| `FileTree` | abstract: a store of files and directories | |
| `FsTree` | `Fs` implements `FileTree` | `Fs`, `FileTree` |
| `FsTreeProofs` | theorems about `Fs`: types, pages, and that it implements `FileTree` | `FsTree` |
| `MCKernel`, `MCMemory`, `MCTerminal`, `MCParse`, `MCPrintk`, `MCFs`, `MCInterrupts` | the constants of the TLC runs | |

### Env, Sched, Kernel: processes and job control

A slot is named by its index, the shell's Env (which lives on the kernel stack)
by `ShellEnv`; every field of `struct Env` that the kernel reads is a function
on Envs with its C name. Pids are never reused, so a pid also stands for the
thread of a process and for its stack: `running` is the thread on the CPU,
`context[e]` the thread whose registers Env `e` holds, and a context that has
been used, or one of a thread whose stack moved on, is `NULL`. Resuming it sends
the CPU wild (`running = NULL`).

A step is one C statement, or a few in a row that touch nothing another thread
sees. `pc[p]` is where thread `p` stands; `frame["irq"]` and `frame["shell"]`
are the two activations of `schedule()` with its locals `tail`, `pre`, `tmp`.
`Tick` may happen wherever `IntrOn` holds: not in a handler or system call, but
between any two steps of the shell, those of its own `schedule()` included.
The pop of `env_alloc()` is its three instructions at the Makefile's `-O0`
(`Alloc`, `PopStore`, `PopRead`); the constant `PopAtomic` says whether an
interrupt may fall into it. `env_free()` always runs inside `schedule()`; it is
one step, which an interrupt cannot split in the `irq` activation. In the
`shell` activation it could; that finer interleaving is left out.

A panic or a page fault prints, which turns interrupts on (`printk.c`'s
`vsprintf`), and loops: the thread is `"hung"`, the rest goes on (`Hang`). A
command line is a token with its command, pid and `&`; whole lines go through
the one-place buffer. What a line's characters are is `Terminal`'s subject.
`getenvid` reads only and is left out, `malloc` and `free` are in `Memory`.

Properties (`Kernel.tla`, each with the sentence it stands for): `TypeOK`,
`RingSound`, `LaunchOrder`, `NoDoubleFree`, `FreeUnreachable`, `MapSound`,
`ContextSound`, the liveness properties `RoundRobin` and `ZombiesReaped`, and
the documented promises the code does not keep (section 3).

`JobControl` is what a user who does without `fg` may rely on: each pid goes
from unborn through its statuses to gone; launches come in order; only the shell
commands, only the running process blocks or exits, only a runnable one is run,
and only a zombie that is not running disappears. The refinement mapping reads a
pid's life off the pid map (`KernelJobs!Life`): unborn from `env_counter` on,
gone when `env_map` is NULL, else the status of the Env; `cur` is the pid of
`cur_env`. A launch takes place for the user at the statement that enters the
pid into the map, everything else of `load_icode()` and `schedule()` stutters.
With `fg` it is not claimed: `fg` sets a status after the CPU was away, whatever
has become of the process by then (hazard `entry.c:115`).

### Interrupts: from the request to the return

`irr` and `isr` are the 8259A's registers for both chips (which lines request,
which are in service), `intr` the CPU's flag. `stack[t]` lists thread `t`'s
unfinished interrupts with the saved flag, `eflags[t]` the flag in its context.
The 8259A and the CPU are not in `src/`; they are modelled from what
`init_idt()` programs: a cascade on line 2, all lines open, priorities fixed, an
EOI that ends the most urgent service. Each interrupt goes through `Push` (stub),
for a device `Eoi`, then one of `Return`, `Schedule` (the thread is switched away
in the middle, its activation waits on its stack), `Unhandled` (prints) or `Hang`
(prints and loops), and `Iret`. `Block` and `RetrySchedule` are the loop of
`SYS_cputc` (`make_a_try`): a background process calls `schedule()` until it comes
back in the foreground, and when `schedule()` finds nobody it goes round with
interrupts off, perhaps for ever. `Fault` is an exception in a thread's own code,
or a page fault in the kernel's, in a system call or in the timer's `schedule()`
(`Kernel`'s `ScanNull`). What handlers do to processes is `Kernel`'s
subject; here these actions stand for all of it. Device
handlers that read their device and the device itself are left out: a line may
be raised again any time. `Spurious` is a request that is withdrawn.

`ServiceEnds`, `Interruptible` and `NotNested` together say why `Kernel` may treat
handlers and system calls as uninterrupted unless they hang, and threads as
interruptible: this is `Kernel`'s and `Terminal`'s `IntrOn`. `NotNested` allows a
handler that has not printed only a fault of its own on top, which comes after the
EOI and ends in a loop that has printed. `Served` is why the
timer's request in `Kernel` may be assumed to be taken (`SF(Tick)`); it holds as long
as the CPU does not stay in `SYS_cputc`'s loop (`[]<>~InHandler("retry")`), where
`Kernel` too has interrupts off (`CputcBlocks`).

### Pages, Heap, Memory: physical pages and the heap

Pages are indices; the free stack is the array with the position that
`init_pmm()`'s reversal leaves empty, reference counts are modulo 2^16. The
heap's memory is `header`, a function from addresses to headers, defined where
the heap has written one: a header a user's block overwrites leaves the domain.
Lengths count headers (`sizeof(header_t)` is the unit), `PGSIZE` is in the same
unit. `Malloc`, `Free` and `Exit` (the `env_free()` of a reaped process) run
with interrupts off and are one step; the shell's mapping of a new stack goes
instruction by instruction through `pmm_alloc_page()` and page by page through
`region_alloc()`, page tables included, and the others may come in between
except inside the pop (`PopAtomic`, as above).

**Running out of memory** (`MallocFails`). `kmalloc()` sets `heap_first` before it has
a page (`heap.c:57`) and maps page after page until `pmm_alloc_page()` panics: the
pages that were left (`Left`) stay mapped, the top of the free stack is 0, the
header is not written. `panic()` prints, which sets the interrupt flag, and loops:
the process is not heard of again, and everybody else goes on with the pages and the
heap as they are. `PopPanics` and `PopFails` are the same for the shell. With chunks
in the list it stays as it was. On an empty heap `heap_first` now leads to a page of
zeros (`Cleared`), or to no page at all.

**A heap that is misled.** Two things make the list lead elsewhere: that failure on an
empty heap, and a `kfree()` of a chunk whose `prev` is stale (`Stale`: `split_chunk()`
does not set the `prev` of the chunk behind the new one). The history variable
`misled` records that one of them has happened. Nothing stops: processes go on to call
`malloc()` and `free()`, but the properties of the chunk list are promises until then,
and what comes after it in the worst case is the run `overlap`. What is
said of pages (`PagesExclusive`, `StacksReclaimed`, `TypeOK`) has no such condition.
Two guards leave steps out: `Legible`, that `kmalloc()`'s walk leads over headers to
the list's end, and `Followed`, that `kfree()` reads headers. Where they are false the
code goes round for ever, faults, or takes for a header what users or nobody have
written. They are false only in a misled heap or where the free is itself the one that
misleads it, which is the theorem `ListStaysReadable`.

`Memory` implements `Allocator`: a block handed out overlaps no other block in use and
stays in use until it is freed, until the heap is misled (`Allocates`, refinement
mapping: the blocks `live`, `misled`, every address of the heap). `Places` names where a page can be: on the free
stack, in the heap, in a stack, as a page table, or in the shell's hands between
`pmm_alloc_page()` and `page_insert()`; `PageAt` is the page at a place.

### Console, Keyboard, Terminal: the screen and the line

`Console` is `console_putc_color()` in two pieces, `PutChar` (write and move)
and `Settle` (the final test for row 25 with `scroll()`), since the shell can be
interrupted between the two. `Keyboard` is the state of shift and ctrl and the
two layouts; a layout is given by its four rows. `Terminal` adds the interrupt
that takes a scancode (a release, a modifier, a key with ctrl, or a key that is
echoed and put into `buffer`), `getstring()`'s loop, the shell's replies and
prompt, and characters printed by processes. Handlers and system calls print a
character in one step. The history variable `disturbed` records that something
came between the line and its echo (a key pressed too early or lost, a backspace
past the line's start or into a tab, a process's output): what the user sees is
then no promise. `held` is what the fingers are on, `rightused` that the right
shift has been used: its release is not seen by the handler, so `ModifiersFollow`
promises shift exactly only to a user of the left one. The constant `PutAtomic`
excludes interrupts inside the shell's `console_putc_color()`. It is needed: with
`PutAtomic = FALSE`, `Codes = {30, 28}` and no output, TLC finds a newline typed
between the shell's move of the cursor and its test for the row below the screen;
the cursor is then off the screen for good. Colours and the hardware cursor are
left out.

### Parse: what a line means

`parse_cmd()` and `parse_args()` look for the next blank without stopping at the
end of the line, and turn it into a NUL. So the model's state is memory itself:
`usr_buff` with what earlier lines left in it, and what lies behind it (one of
the constant `Behind`; farther on, the next blank is taken to be followed by a
NUL, and a NUL written there is not followed). The helpers name the code's loops
(`SkipBlanks`, `ToBlank`, `Str`, `Cut`), `Same` is `strcmp()`, which does not
compare last letters: `fz` is `fg`, and any one-letter argument is `&`.

The reference (`Words`, `Meant`) splits the typed line at blanks and compares every
letter. A line is `Closed` when it ends in a blank, or is a command with its target.
`ParsesOwnLine` and `WritesOwnLine` say that a closed line is parsed from its own
characters, means what it says, and writes nothing behind them; `StaleOnlyAdds` bounds
what happens to other lines. `ParsesOwnLine` has to leave out lines with a
`Misspelt` word, one that differs from a command, or from `&` as the last word of
a launch, in the last letter only: for these it is false, against
`shell.c:12-15` and `142`, and TLC finds `fz x ` parsed as `fg -1` as soon as the
condition is dropped. `StaleOnlyAdds` speaks of them too: its reference (`Taken`) takes
words as `strcmp()` does.
The usual way to type `pr` or `pr &` is not closed: what becomes of it depends on
the memory behind it, which can make `pr` a background process although
`shell.c:142` says "foreground by default", or give `fg` an old line's number.
A character that is rubbed out also stays in `usr_buff` behind the line; `getstring`
here types each line without a mistake, and leftovers come from earlier lines only.
`Kernel` takes lines as already parsed, with any command, number and `&`.

### Printk: formatted output

A format is a sequence of characters, and `vsprintf()` a recursive function: the
state after `k` turns of its loop (`Turn`), with `Directive` for flags, width, precision and qualifier, and
`number()` by positional notation on words of `W` bits, whose negation wraps. A
call is three actions because interrupts come on at `vsprintf()`'s end: `printk`
(fill the buffer), `Terminate` (`buff[i] = '\0'`), `Write`/`Return`
(`console_write()` character by character). `ReadsBack` is the reference: it
parses the text again, at the commas between directives, and compares values,
signs, prefixes, padding and width with what the format asked for (`want`).
`StaysInText` is about two calls in the same buffer: what a thread writes out may
be another's text, but never runs on into what an earlier call has left. A `*`
width is not skipped in the format (`printk.c:192`): such formats, a lone `%`,
`%n` and unknown conversions are in the run without a promise.

### Fs, FileTree, FsTree: the file system prototype

One thread, a call a step. The disk is a function from units (the 256 bytes of a
`File`) to a File, data, or nothing; `map` is the set of inodes whose bit is set,
and `alloc_for_file` takes ten (`NINODES`) one after the other from where the last
search ended. A directory's entries are the Files in its pages. The code's bugs
are part of the model: `alloc_for_indirect()` never returns (`dead`), `pwd()`'s
buffer is never emptied. `FileTree` has objects, names and a path, no pages. The
mapping (`FsTree!Object`) reads an object off its File pointer; `Stores` says that
lookups, contents, listings and failures are a store's, that `pwd()` returns
something that ends with the path, and that only a call that needs more than ten
pages hangs. `InodesExclusive` is the invariant behind it.

## 3. The runs

### Runs that pass

| Run | Instance | What it shows |
|---|---|---|
| `jobs` | 4 slots, 3 stacks, 4 lines out of run (`&` or not), jobs, stop, bring, kill, unknown program; all system calls | Without `fg`, with timer interrupts anywhere: the scheduler's Envs form one ring that holds no freed slot, pids grow around it, free slots are out of reach, pids are sound, every context is the right thread on a mapped stack, and `JobControl` is implemented. |
| `live` | 3 slots, 2 stacks, 3 lines, fair | A process that stays runnable in the ring is scheduled again and again; zombies are freed. |
| `console` | 3 slots, 2 stacks, 4 lines with `fg`, ctrl-B | With `schedule()` interrupted by itself a slot still is never freed twice and a pid never names another process. |
| `heap` | 6 pages of 3 units, blocks of 1 and 4, up to three in use, two processes with 2-page stacks | Until it is misled the heap implements `Allocator`, and its chunks tile the memory and list the blocks in use; always no page has two uses, and stacks are given back. |
| `terminal` | a 4 by 2 screen; b, backspace, tab, newline, F1, ctrl and both shifts, down and up; 5 scancodes; one character of process output | The cursor stays on the screen, text stays where it is but for scrolling, what stands left of the cursor is the line the shell will get, and shift and ctrl follow the fingers. |
| `parse` | a 9-byte buffer, sixteen lines in any order, three memories behind it | Closed lines without a misspelt word mean what they say, whatever is left of earlier ones; in other lines stale text only adds arguments or a missing number. |
| `printk` | words of 8 bits, buffers of 16; the shell prints each of about 1170 formats and then a long one, a process something short at any time | Numbers, strings and characters read back as what was asked for; no text runs on into an older one. |
| `fs` | 8 inodes, files of 2 pages of 2 units, 3 entries a directory, 4 names, depth 3 | Pages have one owner, and `FileTree` is implemented. |
| `interrupts` | the shell and a process; the timer, the keyboard, and a line of the slave without handler; a fault with and one without handler; fair | No line stays in service, threads are interruptible, nothing but its own fault comes on top of a handler that has not printed, and requests are served in the order of their urgency unless the CPU is stuck in `SYS_cputc`'s loop. |

**Bounds.** Three processes beside the shell are the least for a zombie between
two others and for a freed slot that is used again while a third process holds
on to it; four lines are enough to launch two, stop or kill one and launch
again. Any launch may find no memory for its stack, since the heap takes pages
too; four lines in the three slots of `console`, unknown programs among them
(each loses its slot), also exhaust the slots. In `heap` five of the six pages
can be handed out, which two stacks and their page table take up completely, and
the blocks take up to five: growing, shrinking, running out and reuse of a page
by the other user all occur. With the header, blocks of 1 and 4 take 2 and 5:
exact fits, splits, remainders too small to split off, and, with three blocks,
merges with either neighbour and with both, and stale `prev`s, followed and not.
`MaxLive` bounds the runs only, the theorems hold for any number of blocks. A heap
that is misled is followed while at most one block is in use and its chunks end in
mapped memory (`MisledBound`, a `CONSTRAINT`): merged over and over, lengths grow
without end. A 4-by-2 screen lets one tab cross a margin, one
line wrap and scroll, and a backspace go back over both. The sixteen lines of
`parse` have one blank or two before, between and behind their words, so stale
blanks, words, numbers and `&` come to stand behind every kind of line. The bound on launches
stops short of pid `MAX_ENV_NUM`, where the code writes behind `env_map`; keys
stop short of filling `usr_buff`. Five scancodes are a shift, a key, its release
and two more keys: enough for a line that wraps, is edited and entered, and for
every order of two modifiers. With 8 bits every base has numbers of one digit and
of several, and 127, 128 and 255 are the borders of signed and unsigned; 16
characters hold every format's text and NUL. In `fs` three directories or files
take all pages; directories of three entries whose File structures lie in two
pages fill up; contents are part of a page, more than a page, too much for the
pages (hangs) and too much altogether (refused). `interrupts` has no bound on
steps: stacks stay finite since a looping thread does not panic or fault again on top
of its loop (`Loops`), which is where a bound is named. `CHECK_DEADLOCK FALSE` stands where a bound on
input really ends the run: `terminal` (the user has stopped typing and the shell
polls), `printk` (no calls are left), `fs` (a call that never returns), `console` (every thread waits for a key or hangs), and the violation
runs made of few inputs.

**Fairness** (`Kernel!Fairness`). `WF(KernelStep)`: a handler or system call
that is running with interrupts off goes on. `SF(Tick)`: the timer's request
stays pending in the interrupt controller while interrupts are off and is taken
when they are on again. `SF(ShellStep)`: the shell gets a little done in the
time slices it is given. Nothing is assumed of the user or of processes.
`Interrupts!Fairness`: `WF(Handling)`, the CPU goes on with a handler it is in,
and `WF` of accepting a pending line, which the CPU does before its next
instruction. Leaving `SYS_cputc`'s loop is not among it: the code does not promise
that `schedule()` finds anybody there. No device and no thread has to do anything.

### Runs that show a disagreement

Each checks one statement of the code's comments or documentation; the finding
in `PROJECT.json` quotes it.

| Run | What happens |
|---|---|
| `lostwake` (`FgWakes`) | Two background processes, the first blocked, the second able to run; `fg` on the first sets `has_front_env`, and `schedule()`, in the command or in a tick just before it, skips the target and hands the CPU to the second. From then on `has_front_env` keeps the shell out of every `schedule()`, so nobody unblocks the target, and the second blocks in its turn. (With the target alone `schedule()` comes back to the shell, which wakes it.) |
| `race` (`NewSlotUnused`) | A tick inside `env_alloc()`'s pop: the slot a launch takes stays on the free stack. |
| `overlap` (`BlocksApart`) | `split_chunk()` leaves the next chunk's `prev` stale; with three blocks in use a later `kfree()` merges chunks that are not neighbours. |

## 4. What is proved

Eight modules are checked by TLAPS; their theorems hold for every value of the
constants that satisfies the named assumptions (`EnvAssumption`,
`KernelAssumption`, `ConsoleAssumption`, `InterruptsAssumption`,
`PrintkAssumption`, `FsAssumption`, `PagesAssumption`, `HeapAssumption`,
`MemoryAssumption`, `ParseAssumption`). Some need a hypothesis more, which stands in
the theorem's ASSUME:

| Hypothesis | It says | Needed, because |
|---|---|---|
| `PopAtomic` | no interrupt inside `env_alloc()`'s pop, or in `Memory` inside `pmm_alloc_page()`'s | run `race`; the two pops are the same code on two stacks |
| `Orderly` | no line is `fg`, or `kill 0` | an interrupted `schedule()` inside `fg` unlinks with stale locals; a killed shell is taken out of the ring, and its stack is not one that can be unmapped |
| `ShellLeftAlone` | no line is `fg`, or has a pid and pid 0 | with `stop 0` TLC finds a blocked process that gets the CPU back from `schedule()`, which found nobody else |
| `PutAtomic` | no interrupt inside the shell's `console_putc_color()` | section 2, `Terminal` |
| `CallsAreTexts` | calls are of `printk()` or `printk_color()`, and `vsprintf()`'s result has a length | a directive whose argument is missing, or of the wrong kind, has no text |
| `CallsAreSpelled` | a call that is to be read back has a format in which its directives stand between commas, each with its flags, width, precision and conversion, and the arguments are of the kind each wants, without blanks, commas and NULs in strings | other formats have no text from which a reader could tell the directives apart |

The inductive invariants were checked by TLC on the instances of the runs before
they were proved.

**KernelProofs.** `TypeCorrect`, `FreeStackSound` (`NoDoubleFree`) and
`PidsNameTheirProcess` (`MapSound`), all under `PopAtomic`, which the run `race`
shows is needed for the slots to stay distinct. They hold for the whole system
with `fg` and `schedule()` nested in itself. None of the three is
inductive: that a slot is pushed only once does not follow from the stack's
contents. The inductive invariant is `SlotInv /\ PopOK`. Its main idea is that
`env_free()` panics on a process without a mapped stack, and that free slots
and the shell carry pid 0, which never has one (`FreeOK`): so whatever stale
pointer an interrupted `schedule()` holds in `tmp`, freeing a free slot again
stops in the panic before the push. `RoomOnStack` derives from it that the
stack has room when a slot is pushed; `FrameOK` says which locals of
`schedule()` are dereferenced; `ShellOK` that a launch's new slot is its own
until it has a stack; `PopOK` that nothing moves during a pop. Under
`StepSlotInv` there is one lemma for each group of actions: those that change
neither slots nor map (`QuietStep`), those of a launch (`LoadSlots`, `PopStep`),
and those of `schedule()` (`ScheduleSlots`).

**RingProofs.** `RingStaysSound`, `RingKeepsOrder`, `FreeSlotsUnreachable` and
`ContextsStaySound` under `PopAtomic` and `Orderly`, all from `KernelInvariant`:
`SlotInv`, `PopOK` and `RingInv`. What makes the ring hard is that at no moment it
is the only chain of Envs. `RInv(R, L)` therefore names the sets: `R` the ring, in
the order of pids (`Closed`, `Ordered`); `Loaded` the process that `load_icode()`
has made and not yet appended; `Dying` the zombie that `schedule()` has unlinked and
not yet freed; and `L` the processes that are lost. All are apart (`Strays`), known
by their pids, on mapped stacks (`Known`), and hold their own threads (`Threads`);
`Locals` and `Launching` place the locals of `schedule()` and `load_icode()` in `R`.
Then there is one lemma for each statement of the two, and one for all other steps
(`StillRing`). That the runs' `Path(cur_env)` really goes round all of `R` and comes
back in `MAX_ENV_NUM + 1` steps is proved from the order of pids (`Least`, `PathInside`,
`RingCloses`).

`L` is what the proof found out about the code, after an invariant without it failed.
`load_icode()` looks for the last Env of the ring with interrupts on. If that is a
zombie, and a tick between the last test of its loop and `tail->next_env = new_env`
(`env.c:152`) reaps it, the new process is appended to a freed Env. It is in the pid
map and has its memory, but is not in the ring and will never run, although
`docs/TULK开发简单笔记.md:153` says it is inserted at the end of the circular list. All
four properties hold nevertheless: they speak of the ring, not of who is missing.
`JobControl` promises no process that it will run.

`JobsAreControlled`: `Spec => JobsControlled`, under `PopAtomic`
and `ShellLeftAlone`. `Runs` is added to `KernelInv`: the shell is runnable, so is
`cur_env` whenever `schedule()` is not about to leave it, and while `schedule()` goes
round it is still behind `cur_env` in the order of pids, so that it meets the shell
before it could come back to a process that cannot run. Each group of steps is then
shown to be a step of `JobControl` or a stutter (`ControlStep`).

**MemoryProofs.** `HeapAllocates` (`Spec => Allocates`), `PagesStayExclusive`,
`NoStackPageLost`, `BlocksStayTracked`, `ChunksStayTiled`, `BlocksStayDisjoint`,
`ListStaysReadable` and `MemoryTypes`, for any number and size of pages, any number
and lengths of blocks, any processes and stacks, under `PopAtomic`. All follow from
one invariant, `MemoryInv == PageInv /\ HeapTypes /\ ListInv`; what the runs check is
not inductive. `ListInv` has the condition `~misled`, the others have none.

`PageInv` is about the pages. `UseInv` says that two places never have the same page,
and ties the reference counts to the places: 0 in the heap and in the shell's hands, 1
in a stack, and 65535 for a page that is nowhere. So a page of a stack is given back
when its process exits, and a page of the heap never is: `map_region()` does not count
it, `page_decref()` takes the count from 0 to 65535, and the page is lost. That no other
page is, is the last conjunct, and `StacksReclaimed`. `PopInv` says
why the position `init_pmm()` leaves empty is never passed; it is also why
`PagesAssumption` asks for three pages: with two, the reversal leaves the empty position on
top. `LoadInv` follows the shell through `region_alloc()`. The lemma `Moves` is the
argument every step has in common: if each place of the next state has its page from a place
of this one, no two from the same, and a place that is lost leaves a page that is free
or wrapped, then `UseInv` goes on to hold. `GrowPages` and `ShrinkPages` apply it to
the heap's pages, `ExitPages` to a stack's.

`ListInv` is about the chunks, of which there may be any number: a set `L` of
addresses is the list (`ListIs`). Its chunks follow each other without a gap from
address 0 (`Chained`); a free one is not the last, the one behind it is in use, and
its `prev` is right (`Tiled`); those in use hold one block each (`HeldIn`). That only
*free* chunks have the right `prev` is the point: `split_chunk()` makes the `prev` of
the chunk behind the new one stale, and that chunk is in use, or it would have been
merged before. As long as such a chunk is not freed nobody reads its `prev`; a
`kfree()` that does so is what `misled` is about, whether it goes wrong or not. From
`Chained` it follows that the walk is the list (`ListMet`, with `WalkIs`, by
well-founded induction in first-order form: `Least`). `GrownTiled`, `TakenTiled` and
`PartedTiled` say what `kmalloc()` makes of the list, `MarkStep`, `ForwardStep`,
`BackwardStep` and `CutTiled` what each part of `kfree()` does, with `Merged` for two
chunks that become one; `FailsKeeps` what running out of memory does.

**InterruptsProofs.** All four invariants of `Interrupts`, for any set of threads,
lines and faults, so for all sixteen lines and stacks of any depth:
`InterruptsTypeCorrect`, `ServiceAlwaysEnds`, `AlwaysInterruptible`,
`NeverNested`, wherever a handler faults, is switched away and back or goes round
`SYS_cputc`'s loop. None is inductive. `IInv` adds where the flag comes from:
`FlagInv`, the CPU's flag is on in a thread's own code and otherwise only in a
handler that has printed, and a waiting thread's context has it off exactly when
an interrupt is unfinished on its stack; `StackInv`, the flag saved by an
activation tells what may lie below it (`MayLieBelow`), so `iret` restores the
truth; `ServiceInv`, a line in service is the one on top, before its EOI, with
interrupts off. Lemmas say what pushing, popping and moving on do to a stack;
`EoiEnds` that one EOI for a master's and two for a slave's line end all services.

**TerminalProofs.** `CursorStays`: under `PutAtomic`, `Spec => []CursorOnScreen`
for every width of at least 4 (a tab's four cells cross at most one margin) and
every height a byte can count. The invariant `CursorInv` allows the first column
of the row below the screen between `PutNext` and `Scroll`; the lemmas follow
a character through `PutChar` and `Settle`. Without `PutAtomic` it is false
(section 2). `ModifiersAlwaysFollow`: `Spec => []ModifiersFollow` for any keys and
any interleaving with the shell and the processes. It is inductive once the two
flags are known to be Booleans (`ModifierInv`). `TypesStay`: `Terminal`'s `TypeOK`,
with or without `PutAtomic`: the cursor may leave the screen for good, but only
downwards (`Wide`: it is in one of the columns, and in a row that a byte can count). `TextAlwaysStays`: `Spec => TextStays` under `PutAtomic`. A character is
written, the cursor moved over blanks, and the screen perhaps scrolled; lemmas say
what each does to the cells outside the cursor's way (`...Kept`), and what a scroll of
one row does to them (`...Shifted`). `LineAlwaysSeen`: `Spec => []WhatYouSee` under
`PutAtomic`. WhatYouSee is not inductive: a line that was too long for the screen is
seen again after a few backspaces, so `SeenInv` says of every line how much of its end
stands left of the cursor (`Agrees`), and that nothing is typed undisturbed while the
shell prints. A place below the screen counts as blank (`Look`): the part of a tab that
is written there is lost, and made good by the blank row of the scroll. How a line is
drawn is a recursive function; lemmas show that it exists for every line
(`SolvesSome`), that lines which begin alike are drawn alike (`SolvesAlike`), and so
what one more character adds (`RenderedAppend`), each by looking at the least place where
it would fail. `KeysVisible`: no key sends a carriage return, which would break it.

**ParseProofs.** All four properties of `Parse`, for every line without a NUL that fits
into `usr_buff`, any buffer length and any memory behind it: `ParserTypeCorrect` (the
type invariant, a support for the others: accesses farther behind `usr_buff` than the
model's memory reaches are not modelled),
`ClosedLineParsed`, `LeftoversOnlyAdd` and the action property `ClosedLineKeepsRest`. The
invariant `ParseInv` adds only that a line to be parsed lies in the buffer; what is hard is
`parse_cmd()`. Its searches are described by the place they find (`SkipBlanksIs`,
`ToBlankFinds`, `StrIs`), the reference's words by the rank of their starts (`RankNext`,
`WordsAre`), and `Shows` connects the two: from some place on, memory is the rest of the
line and its NUL. `WordEnd` is the heart: behind a word that is not the line's last, the
search ends at the blank that closes it; behind the last one it runs past the NUL, so what
is true of the rest of the line (`CutShows`, `TurnWord`) is lost, and all that remains is
that turns add arguments (`TurnSound`, `LoopSound`). The loop is a recursive function:
lemmas show that it exists (`TurnsSome`) and look at the first turn that would differ.
`NamedIs` and `MeantIs` say that `strcmp()` takes a line's words for what they are unless
one is misspelt. That taking away an "&" cannot take away the line's own arguments is `LaunchLonger`, that
leftovers do not lengthen a number `NumberFront`.

**PrintkProofs.** `TextsEnd` (`StaysInText`) and `IndicesStayInside` (`TypeOK`), for any
number of threads, any buffer sizes and whatever is printed. A thread that writes must
have a NUL between it and the longest text put there since its call. A call that puts a
shorter text before it leaves that NUL alone, one that puts a longer text over it
brings its own (`FilledFacts`). So the NUL that `vsprintf()` itself puts behind its text
is needed: the one `printk()` adds comes with interrupts on, perhaps too late and to
another text's end. `AloneReadsBack` (`ReadsBack`): a thread whose buffer no other call
changes prints its own text, all of it and nothing else (`AloneInv`: what it has printed
is the beginning of the text, the rest is still in the buffer, and nobody's NUL is still
to come). That text is what its format asks for, in two steps.

`ConvertReadsBack`: every conversion of every word, string or character, with any set of
flags, width and precision, reads back. The divisions of `number()` are undone by the
reader's multiplications (`FiguresAre`, `FiguresRead`); added zeros change no value
(`ReadsZeros`); the digits, `0x` and sign have one character each that no other has
(`Alphabets`); and what stands around the number is blanks, which the reader takes away,
so that the field has the width asked for and is filled on the right side (`NumberLaid`,
`NumberShown`). `-2^(W-1)` is no exception, as `NegatedIs` says.

`FormatReadsBack`: so do whole formats, of any number of directives between commas
(`Spelled`). `vsprintf()` takes each directive apart as it was put together (`DirectiveIs`),
puts no comma or NUL into its text (`CleanConverted`), and gives it the argument that is
its own (`LeftNext`). `Cut` says of the text so far which directives its parts are;
`CutPart` and `CutComma` that a turn of the loop adds one part or the comma behind it; and
`AtWork`, that the loop is at a directive or behind it and never falls back, that the
turns suffice for the whole format. TLC finds every call of the run `printk` that is to
be read back spelled so.

**FsTreeProofs.** `PagesOwned` (`InodesExclusive`) and `FsTypeCorrect`, for any sizes of
pages, files, directories and disk. `InodesExclusive` does not say where in a
directory its Files lie, so a File that is made could overwrite another, and what
is written into a file could overwrite a File. `FInv` adds `EntryInv`: the Files of
the disk are exactly the entries `0 .. filesize - 1` of the directories. From it
follow `NextEntryFree` (the next entry's place holds no File) and `NoFileInPlain`
(no File lies in a plain file's pages), and with the arithmetic of
`PositionApart` (two positions are two places) one lemma for each call:
`MakeStep`, `WriteStep`, `HangStep`, `PathStep`, `PwdStep`.

`DiskIsAStore`: `Spec => Stores`, that is, `Fs` implements `FileTree`.
`FInv` is not enough to read the disk as a store. `TreeInv` adds `NamesInv` (a directory
has no two entries of one name, so `getfilefromfolderbyname()` finds each of them),
`PathInv` (every directory on the path is an entry of the one before it, so the path has
names) and `SizeInv` (a plain file is no longer than its pages, so its data is there).
`StoreIs` says what the store is, object by object; `Created` and `WriteFiles` what a call
makes of the disk. `CreatedTree` and `WrittenTree` show that one object changes and no
other: a directory with the same entries is the same folder (`SameFolder`), and no unit
of another plain file is touched (`CreatedShown`, `WrittenShown`), which is where
`OwnInv` is needed. `EntryCount` relates the size `ls` prints to the number of names. The
step that refuses a text as too large is `FileTree`'s only because the limit is not
below the capacity, as in the code (`NINODES * PAGE <= TOO_LARGE`, `fs.cc:222`).

**Only model-checked.** The liveness properties `RoundRobin`, `ZombiesReaped` and
`Served`: fairness and ENABLED are outside what TLAPS proves here. What `vsprintf()`
does with `*`, `%n`, qualifiers and unknown conversions runs in the model, but no property
says what its text should be. Of the heap, everything is proved that holds; what becomes
of it once it is misled is the run `overlap`, and is bounded in `heap`. The runs that expect a violation show what the code does not keep.

## 5. Not modelled, and why

 - Boot, gdt and the timer chip: straight-line I/O before interrupts are on.
 - Symbol tables and stack traces: read-only debug output.
 - Permission bits and the boot-time mappings of `vmm.c`.
 - `env_map[1024]`, pid 1024 (which `check_pid()` lets through) and
   `usr_buff[80]`: what lies behind an array is the linker's choice.
 - A text longer than `printk()`'s buffer, and of `fs.cc` a path longer than its
   buffer, a directory deeper than `where` and a full bitmap: what lies behind.
 - Sizes near 2^32 in `kmalloc()`, numbers of ten digits in `parse_num()`, and more
   arguments or longer words than `runinfo.args` holds.
 - Interrupts inside `env_free()` when `fg`'s own `schedule()` calls it, and
   inside `PutChar`.

## 6. Plan

Done in this order: processes and the scheduler, memory, the console, the parser,
formatted output, the file system prototype, the keyboard, job control as an
abstract specification, interrupts; last the proofs about memory. What is left:

1. Two readers of `usr_buff`, the shell and a foreground process
   (`libs/syscall.c:12`).
