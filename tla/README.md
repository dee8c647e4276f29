# Formal models of the CSAPP lab programs

This directory holds TLA+ models of the programs in this repository, the TLC
configurations that check them, and TLAPS proofs about them. The repository is a
set of solutions to the CSAPP labs; the programs that have state worth reasoning
about are a job-control shell, a caching web proxy, a small web server, a memory
allocator with its driver, a cache simulator, two sets of pure algorithms (matrix
transposes and bit puzzles), and the harnesses that grade the last three.

## 1. Inventory

| Component | State | Operations | What is hard |
|---|---|---|---|
| Shell job list (`tsh.c` 518-682) | `jobs[MAXJOBS]`, `nextjid` | `addjob`, `deletejob`, `fgpid`, `getjobpid`, `getjobjid`, `maxjid` | full table, reuse of pids and slots, `nextjid` wrapping around |
| Shell evaluation and signals (`tsh.c` 88-515) | program counter, signal mask, saved masks, handler frames, pending signals | `eval`, `builtin_cmd`, `do_bgfg`, `waitfg`, `sigchld_handler`, `sigint_handler`, `sigtstp_handler`, `sigquit_handler` | handlers that interrupt the main program and each other, signals that merge, children that end or stop at any moment, failing `fork` and `kill` |
| Proxy cache (`cache.c`) | doubly linked list with a dummy head, `tail`, `totalSize`, a reader-writer lock | `initCache`, `findCacheItem`, `addCacheItem`, `removeOldestCacheItem`, `moveToFront`, `freeCache`, `printCache` | writes under a read lock, locks kept on early returns, use of an item after the lock is released, eviction at the limits |
| Proxy requests (`proxy.c`) | one thread per connection; descriptors, buffers | `main` loop, `handleRequest`, `parse_uri`, `build_header` | threads interleaving in the cache, connections that fail, early returns, wrappers that end the process |
| Robust I/O (`csapp.c`) | `rio_t`: buffer, count, position | `rio_readinitb`, `rio_read`, `rio_readlineb`, `rio_writen` | short counts, `EINTR`, end of file inside a line, a line as long as the caller's buffer |
| Tiny server (`tiny.c`, `adder.c`) | locals of `doit` that outlive a request, files, the buffer of stdout, a child | `main`, `doit`, `read_requesthdrs`, `parse_uri`, `serve_static`, `serve_dynamic`, `clienterror` | short or cut-off requests, files that change between `stat` and the last write, a `fork` that copies buffered output, errors that end the server |
| Allocator (`mm.c`, `memlib.c`) | heap words, free list threaded through the free blocks, `mem_brk` | `mm_init`, `mm_malloc`, `mm_free`, `mm_realloc`, `extend_heap`, `place`, `coalesce` | boundary tags, coalescing in every neighbourhood, sizes at the end of the range, `mem_sbrk` failing |
| Malloc driver (`mdriver.c`) | trace, `blocks`, range list, running totals | `eval_mm_valid`, `eval_mm_util`, `eval_mm_speed`, `ftimer_gettod`, `main`'s loop | several passes over memory full of the remains of the one before |
| Cache simulator (`csim.c`) | per set a circular list of lines, three counters | `accessCache`, `checkAndUpdateSet`, `addOrReplaceLine`, `parseLine` | list surgery under replacement, counters against the replacement policy |
| Transposes (`trans.c`) | two matrices and local temporaries | `trans_32x32`, `trans_64x64`, `trans_61x67` and the dispatcher | in-place shuffling of blocks through the result, sizes the dispatcher mixes up |
| Cache harness (`test-trans.c`, `tracegen.c`, `cachelab.c`) | function list, results, files of trace and counters | `eval_perf`, `validate`, `registerFunctions`, `initMatrix`, `correctTrans` | conflicts in a direct-mapped cache, matrices that are no multiple of a block |
| Bit puzzles (`bits.c`, `tests.c`) | none | 13 functions and their references | overflow and boundary values |
| Data harness (`btest.c`, `decl.c`) | options, test values, alarm and jump buffer, points | `parse_args`, `gen_vals`, `test_function`, `run_tests`, `timeout_handler` | an alarm that outlives the call it was set for |
| Grading scripts, test programs, binary labs | files, child processes | | input/output, or no source; not modelled |

How they interact: the shell's main program and its handlers share the job list
and the signal mask, and talk to the children through `fork`, `kill`, `waitpid`
and signals. The proxy's threads share nothing but the cache and the process
itself. The tiny server serves one connection at a time and shares with its child
what `fork` copies and the connection. The allocator calls `mem_sbrk` and is called
by the driver. `test-trans` has `tracegen` run the transposes and feeds their memory
accesses to the simulator. `btest` calls each puzzle beside its reference.

What makes each component correct:

* Job list: a process occupies at most one slot, a job id names one job, a
  process that is not listed finds a slot while there is one.
* Shell: every dead child is reaped and leaves the list; no wake-up is lost
  between the test and the sleep of `waitfg`; a handler never acts on a job that
  is gone; the list agrees with the kernel; keyboard signals do not hurt the
  shell.
* Cache: list and counters agree, eviction is least recently used, no thread
  uses an item another thread has freed, every lock is released, an answer
  belongs to the key it was asked for.
* Proxy: every accepted request is answered or closed, one failing request does
  not disturb the others.
* Robust I/O: the concatenation of what the reader returns is the stream.
* Allocator: payloads are aligned, inside the heap and disjoint; the heap is
  tiled by blocks; the free list holds exactly the free blocks; no two free
  blocks touch; `mm_realloc` keeps the contents.
* Malloc driver: every pass of a trace is given the same blocks, and the
  utilization is that of the live payloads.
* Tiny server: a client gets a whole answer to its own request, and no client and
  no file stop it but for the reasons named.
* Simulator: hits, misses and evictions are those of LRU.
* Transposes: the transpose, in place, with few misses.
* Bit puzzles: equal to their reference definitions. `btest`: a puzzle that passes
  agrees with its reference on all its test values, and pays for nobody else's
  time.

## 2. Plan

Order of work, most important behaviour first:

1. `JobList`, `Tsh` with the abstract `JobLife`, and the proofs (done).
2. `CacheList` (pointer level), `Proxy` (threads over the cache with its lock)
   refining `Lru`, and the proofs (done).
3. `MmHeap`, `Mm`, `Mdriver`: the word-addressed heap under the passes of its
   driver, refining `Allocator` (done).
4. `Csim` refining `SetLru`, `Trans`, and `TestTrans` that composes them (done).
5. `Bits`, and `Btest` that runs them, with the proofs (done).
6. `Rio` refining `Lines`, `Tiny` on top of it, with the proofs (done).
7. Proofs about the allocator (`MmHeapProofs`, `MmProofs`), the rings of `Csim` and the
   refinement of `SetLru` (`CachelabProofs`), the proxy's list under one mover and its
   refinement of `Lru`, the answers of the tiny server, and the submitted transpose for
   every matrix size (done).
8. The later passes of the driver answer like the first, for every trace (`RunsRepeat`);
   every puzzle for every word, and the score of the data lab (`ErrorsExplained`,
   `FullScore`; done). Open: the proxy's own reads and writes composed with `Rio`.

Abstract specifications: `JobLife` (the life of a job), `Lru` (bounded
least-recently-used store), `Allocator` (blocks that stay apart and keep their
data), `SetLru` (the counts of an LRU cache), `Lines` (a byte stream cut into lines).

Theorems: type correctness and the inductive invariant of each state machine, the
refinement of the abstract specifications, and lemmas about the operators (lists,
scans, lookups, words). Liveness stays with TLC.

Induction: the library's theorems about it take an operator as a parameter, which the
provers cannot instantiate. `NatProofs` states induction about sets instead
(`NatInduct`, `BoundedInduct`, from a least number principle), and derives from it that
functions defined by iteration exist and that the sum over a finite set is what its
parts add up to. With those, recursive functions on `0 .. n`, walks along lists, and
sums are in reach of the proofs; recursion over other data is not.

## 3. The shell

### Modules

| Module | Contents |
|---|---|
| `JobList` | The table and its helper routines as operators on a function from slots to records. Constants `MAXJOBS`, `Pids`. |
| `Tsh` | The shell: main program, handlers, masks, children. |
| `JobLife` | What the bookkeeping promises: start, list, end, collect, unlist. |
| `MCTsh` | Command lines for TLC. |
| `TshProofs` | Lemmas about the operators; the inductive invariant, its consequences, the refinement. |

### State and code

`main` is the program counter of the main program, named after the statement it
is about to run; `line`, `slot`, `pid` and `prev` are the locals that live across
steps (`cmdline`, `job`, `pid`, `prev_mask`). `ctx` is the context that runs:
the main program or a handler. `frame[s]` is the stack frame of the handler of
signal `s`: its program counter, the pid and status it holds, the context below
it, and the mask that is restored on return. `mask` is the process's signal mask,
`chld` says whether SIGCHLD is pending (one bit: signals merge), `proc[p]` is the
kernel's state of a child, and `stopreq` holds children with an undelivered stop
signal.

A step runs from one point where a signal handler could intervene to the next.
A region under a full mask (`addjob` in `eval`, the table update in
`sigchld_handler`, the `fgpid` of the keyboard handlers) is one step. `do_bgfg`
blocks nothing, so its lookup, the load of `job->pid`, the `kill` and the store
of `job->state` are four steps. The test of `waitfg` and its `sigsuspend` are two
steps under a full mask; `sigsuspend` installs the old mask and sleeps in one.

The kernel is modelled as the shell sees it: `waitpid(-1, WNOHANG|WUNTRACED)`
reports any dead or newly stopped child, a death is reported once and frees the
pid, a stop is reported once; a child's end, its stop and its continuation raise
SIGCHLD; SIGCONT discards pending stop signals; a process group exists until its
leader is reaped; `Signal()` installs handlers with an empty `sa_mask`, so
handlers nest.

`ProcStates` has "forked" for a child that has not yet reached `setpgid`:
`kill(-pid)` fails for it.

### What is checked

| Run | Result | What it shows |
|---|---|---|
| `tsh_safety` | holds | `Inv` (inductive, type correctness included), `NoLostSigchld`, `TableMatchesChildren`, `PidsUnique`, `NoIdleWait` with every command line and signal, failing forks and stops from outside; and that the shell implements `JobLife` |
| `tsh_live` | holds | three processes for two slots: `addjob` refuses a child only when it must (`RefusedOnlyWhenFull`); `waitfg` returns and zombies are reaped, those it refused included, if `fork` succeeds and no job is stopped |
| `tsh_two_foreground` | violated | `fg` of a job that dies leaves a free slot in state FG |
| `tsh_lost_stop` | violated | `fg` overwrites a stop and `waitfg` sleeps for ever |

Each violated run checks one sentence of a comment or of `shlab.md`, quoted in
`PROJECT.json`. More deviations are in the model and have no run of their own: with
four slots or more `addjob` comes to hand out a job id that is in use, because it
tests `nextjid` against `MAXJOBS` and not against the list; ctrl-c for a job that
has just been reaped ends the shell, in the `unix_error` after `kill`; `eval` returns without running a program typed without a trailing `&`
(`Eval`), a failed `fork` leaves SIGCHLD blocked for good (`ForkFails`), and a
blank line reaches `strcmp` with a null pointer (`builtin_cmd`).

### Bounds

Two process ids and two slots: enough for two jobs that compete for the
foreground, for a handler that is interrupted while it holds one job and the
other ends, and for reuse of a pid and of a slot. `tsh_live` has a third process,
so that `addjob` refuses one that already runs, and only two lines, a program and `fg %1`:
temporal properties are checked without symmetry. `JidBound` caps the job ids handed out, so that
runs are finite: `deletejob` sets `nextjid` to the largest id in use plus one, so
that ids grow for as long as some job is always alive, and no program is started
in the model once an id reaches the bound. Only the ids differ in the behaviours this cuts off, and
nothing but the lookup by id depends on them; 2 leaves an id for each of the two slots, and 3
(`tsh_live`) lets a program start when both are taken. Three handlers can nest to depth
three, which the runs reach.

### Fairness

`FairSpec` assumes what a kernel provides: the shell and each handler that can
step infinitely often steps (strong fairness, since a keyboard signal may
interrupt at any time), a pending unblocked SIGCHLD is delivered, a stop signal
sent to a running child takes effect, and a running job ends. Stopped jobs need
not be continued and no key need ever be pressed. `tsh_live` excludes stops
(`StopsSelf = FALSE`, no ctrl-z) and failing forks because the shell really does
hang with them: a stop can be lost (`tsh_lost_stop`), and after a failed fork no
zombie is reaped (`ForkFails` keeps the mask).

### What is proved

For every `MAXJOBS`, every finite set of pids, all command lines and signals:

* `Invariance`, `TypeCorrect`, `NoSigchldIsLost`, `ListIsChildren`,
  `ListIsInjective`, `WaitfgHasJob`: the safety properties of `tsh_safety`;
* `Refinement`: `JobLife` is implemented when there is a slot for every pid
  (otherwise `addjob` refuses a process that already runs, and the process is
  collected unlisted);
* `RefusalRight`: `Spec => RefusedOnlyWhenFull`, for more processes than slots too:
  `addjob` refuses a child only when every slot holds another one that the shell has
  yet to reap. It needs `SigchldBlocked` (no handler is between `waitpid` and `deletejob`)
  and `PidsUnique` (no child fills two slots).

The invariant `Inv` has six parts. The properties are not inductive alone:
that a listed pid is a child (`TableOK`) needs to know that SIGCHLD is blocked
between `fork` and `addjob` (`SigchldBlocked`), which survives nested handlers
only because each frame restores the mask it found (`StackOK`); that a sleeping
shell has a foreground job needs the mask to be full during the test
(`WaitBlocked`). `NoLostSigchld` is proved from `Inv`, as a second invariant.
The assumptions are those named in `JobList` and `Tsh`; TLC evaluates them in
every run.

Only model-checked: the two liveness properties (fairness and ENABLED are out of
the prover's reach).

## 4. The proxy

### Modules

| Module | Contents |
|---|---|
| `CacheList` | The linked list: a record of `next`, `prev`, `url`, `size`, `tail`, `totalSize`, with one operator for each operation, and for each kind of store that `moveToFront` makes. |
| `Proxy` | The connection threads, the reader-writer lock, the resources a thread holds, the life of the process. |
| `Lru` | What the cache promises: objects in the order of their last use. |
| `MCProxy` | Clients for TLC. |
| `ProxyProofs` | What the list operations preserve; the inductive invariants and their consequences. |

### State and code

`pc[t]` says where thread `t` is in `handleRequest` and the cache functions it
calls. `reg[t]` is what a statement of `moveToFront` has loaded and not yet stored.
`readers` and `writer` are the state of the `pthread_rwlock_t`: a reader
enters when there is no writer (the default lock of the C library lets readers
pass waiting writers), a writer when there is nobody. `readers` may hold threads
that have ended, because `findCacheItem` returns a hit without unlocking.
`at[t]` is the pointer `current`, later `item`. `held[t]` is what the thread must
give back, its own stack ("thread") included: `main` creates threads and neither joins
nor detaches them, so that ended ones keep their stacks, and `AcceptFails` ends the process
when there is no room for another (`StackBound`). `status` is that of the process: the wrappers of `csapp.c` and SIGPIPE
end it, a null pointer crashes it, and so may a host, path or header longer than the
buffers of `parse_uri` and `build_header` (`Overlong`).

Under the write lock, and where a thread touches only its own data, a whole
operation is a step (`Evict` is one round of the loop). Under the read lock several
threads run, so a walk advances one item at a time and `moveToFront` is cut at
every access to the list: each test, each load and each store is a step, in the order of
the statements, because the Makefile asks for no optimisation. (The test of `item->prev` and the load of
it after that are one step: an item always has a predecessor.)
`free` leaves the cell's fields as they were, which is what a dangling pointer
would find.

A response is a size. The copy made by `strdup` is not modelled: it ends at the
first zero byte, and what it takes beyond the end of the unterminated buffer is
not sent. With `MallocFails`, `malloc` and `strdup`
may return null wherever the code calls them, with the effect the missing tests
have.
The text of keys is not modelled either: for a URI without `//` the host is left
uninitialised (`proxy.c:88`) and becomes part of the key.

### What is checked

| Run | Result | What it shows |
|---|---|---|
| `proxy_safety` | holds | `Inv` (inductive, type correctness included), `ItemStillThere`, `SoundUnlessHitsRace`, `KnownLeaks` with bad requests, failing connections and failing `malloc` |
| `proxy_lru` | holds | served one at a time, the threads implement `Lru` |
| `proxy_live` | holds | every request is served, if no request hits and no response is oversized |
| `proxy_hit_blocks` | violated | a hit keeps the read lock: the next response to be cached waits for ever |

More deviations from `proxy_pdf.md` are in the model: two hits that race in
`moveToFront` can follow a null pointer (`NullAccess`); an oversized response
keeps the write lock (`RefuseItem`), so that later requests wait for ever; one failing connection ends
the process (`NetworkError`; the test of `serverfd` in `handleRequest` is never
true), a refused request leaks its descriptor, a hit the parsed URI and every thread its stack
(stated by `KnownLeaks`), although `proxy_pdf.md:100` asks for detached threads "to avoid
memory leaks"; when the stacks leave no room for another thread the process ends, whether
or not anybody is being served (`AcceptFails`, which the sixth connection of `proxy_lru` reaches).

`ItemStillThere` holds for a reason that is itself a defect: a thread that has hit stays in `readers` for good, so that no writer ever runs
after a hit and nothing is freed or counted in a list that hits have damaged.
A repair that only adds the missing unlock to `findCacheItem` would break it;
the mutant `UnlockThenWrite` is that repair.

### Bounds

`StackBound` is the number of threads there is room for, ended ones included: as many as
connections, but for `proxy_lru`, where it is five for six connections. `ActiveBound` caps the connections served at the same time, the set `Threads`
the connections over a run. Three at a time are enough for two hits that race and
a third thread that walks or waits to write. Three items, objects of one or two
units and a limit of three units give evictions of one and of two items, and a
list with a first, a middle and a last item, the cases of `moveToFront`. Two keys
make hits and overlapping misses of one key. `proxy_lru` serves five connections
in turn, so that a list is filled, evicted from and then hit: after a hit nothing is
added, because the read lock stays held. Threads, keys and
items are interchangeable in the runs that use `Symmetry` (no liveness).

### Fairness

`FairSpec`: every thread that can take a step takes one (weak fairness). The
scheduler runs every thread; clients that have connected send, and servers
answer. Weak fairness lets readers overtake a waiting writer, but a finite set of
connections cannot do so for ever. `proxy_live` gives each client a key of its
own and no oversized response, because with either the code really does block
(`proxy_hit_blocks` shows the first).

### What is proved

For any number of connections, items, keys and sizes:

* `Invariance`, `TypeCorrect`, `NoUseAfterFree`: the inductive invariant and the
  two properties it implies;
* `LeaksKnown`: what an ended thread keeps (`KnownLeaks`: its stack always, and what the
  early return and the hit path forget), from a second invariant
  that says what a thread holds at each place (`Holding`);
* `RemoveOldestEffect`, `InsertEffect`: eviction and insertion keep a sound list
  sound (`DoublyLinked`); `StoresKeep`: no store of
  `moveToFront` makes a pointer leave the list, in whatever order threads
  interleave.

`ItemStillThere` alone is not inductive. `Inv` adds who holds the lock at each
place (`LockOK`) and what the list guarantees (`ListOK`): it is always closed
(nothing in it points to a free cell), as is what threads have loaded from it (`LoadsOK`), and its neighbours agree as long as every
reader is still walking. A writer has no readers beside it, so eviction starts
from neighbours that agree, which it needs: with a damaged list it could leave a
pointer to the freed item.

`ListWhole` proves `SoundUnlessHitsRace`. A list is sound (`Sound`) if its items form a
row (`Row`): a sequence of all items, each once, along which `next` and `prev` agree,
with `totalSize` their sum and within the limit. `RemoveSound` and `InsertSound` show
that eviction and insertion keep it, by what they do to the row. `moveToFront` breaks
the row and mends it: `SoundInv` says that with one thread among the hits the list is
that thread's loads and stores so far, applied to some sound list (`Midway`), and `MovedSound`
that all of them together rotate the row. It holds because hits never leave `readers`,
so that no writer comes in between, and says nothing with two hits.

`ServesAsLru` proves `ImplementsLru` for connections that are served one at a time
(`ActiveBound <= 1`, what the property is about) with memory for every copy (without it
an item has no key). The objects of a row are `Lru`'s order (`OrderOf`); `SerialInv`
says that the thread being served is the only one under way, that the list is sound or
is that thread's move so far, and that a walk has passed only items of other keys
(`Passed`), so that what it finds is the most recent object of its key. The chain is
followed at every stage of a move (`CourseRest`): the item is either still in it, or
bypassed, or first, and put in front of the rest it gives the row that the move ends
with. So the match in `findCacheItem` is `Hit`, eviction is `Drop`, insertion is `Add`
(`WalkHits`, `SerialEvict`, `SerialInsert`), and every other step stutters.

Only model-checked: liveness.

## 5. The allocator

### Modules

| Module | Contents |
|---|---|
| `MmHeap` | The functions of `mm.c` and `memlib.c` as operators from a heap to the heap they leave (and the pointer they return). |
| `Mm` | The allocator under a client: any request, answered by `MmHeap` and judged by `add_range` of the driver. |
| `Mdriver` | The driver's passes over each trace: `eval_mm_valid` (with `Mm`), `eval_mm_util`, and `eval_mm_speed` as `ftimer_gettod` repeats it. |
| `Allocator` | What malloc, free and realloc promise to a client. |
| `MCMm` | Symmetry and the view for TLC. |

### State and code

`heap` is the memory, word by word, with `mem_brk` and `heap_listp`. Addresses
are bytes from the start of the memory. A word holds a number (a tag or a
pointer), the index of the request that filled it (`memset` in the driver), or
`Junk` (what `malloc` left in the memory before the first use). Arithmetic on
data or junk is an error of the evaluation, so a run also shows that no function
of the allocator takes either for a tag or a pointer. `blocks` is `blocks` and
`block_sizes` of the trace, and stands for the range list too. `verdict` is what
the driver has to say: "failed" when a request gets NULL, "bad" when a block is
misplaced, "lost" when it misses data in a new block. `LowByte` is the low byte of an index,
which is what `memset` writes. The driver reads it back through a `char *` (`SignedChar`)
and compares it with the byte as a number, so that a byte of 128 or more never passes
(`Preserved`): `char` is signed on the x86 for which the handout is built (`gcc -m32`). After
a correct `realloc` of a block whose index has such a low byte the driver reports lost
data, although the check is to "make sure that the new block contains the data from the
old block" (`mdriver.c:649-650`). `NeverBad` states both directions of it.

The program is sequential: a call is a step. Every pass begins with
`mem_reset_brk` and `mm_init` on memory that still holds the tags and pointers of
the last one (`Restart` for `eval_mm_valid`, `Begin` for the others). `pass` is the
function that runs, or "app_error" when a later pass gets NULL, which ends the
driver; `trace` and `answers` are what the first pass was asked and what it had
answered after each request; `i` and `round` count the requests of a later pass and
the runs of `eval_mm_speed`. A first request may come before `mm_init`, as `mm_malloc`
provides for.

### What is checked

| Run | Result | What it shows |
|---|---|---|
| `mm_safety` | holds | the driver never objects to where a block is, and to its data only when the data is there and its byte is 128 or more, which it never lets pass (`NeverBad`); blocks tile the heap with headers like their footers (`TagsTile`); the free list holds exactly the free blocks, linked both ways, no two of them neighbours (`FreeListExact`); the allocated blocks are the client's live ones and large enough, also after a failure (`AllocatedAreLive`); the later passes are given the blocks of the first and never fail (`RunsRepeat`); the totals of `eval_mm_util` are those of the live blocks and below the heap's size (`UtilizationSound`); and `Allocator` is implemented, through all passes |

`TagsTile` and `FreeListExact` are what the checker in `mm.c` (434-539, compiled out)
looks for. `ImplementsAllocator` is stronger than the driver: `add_range` tests
whether an end of the new range lies in an old one, so it lets pass a range that
encloses another, and it looks at data only in `realloc`. `RunsRepeat` says what the
driver takes for granted: that a trace that is valid once can be timed and measured
later, although no pass starts on clean memory.

### Bounds

Memory of 128 bytes in chunks of 32 (20 MB and 4096 in the code): room for the
heap's overhead and three chunks, or for a chunk and a larger block. Three
indices give a block between two others, hence all four cases of `coalesce`. The
sizes 8, 12, 24 and 40 give blocks of 16, 24, 32 and 48 bytes: blocks that fit
exactly, that leave a remainder too small to split (8), and that need more than
a chunk. One of the indices has a low byte of 128 or more (`HighIds`); 248 is more than an `int` of the model's width can pass to `mem_sbrk`.
`SizeValues` is the number of values of a `size_t`. Traces of up to `TraceBound` = 4
requests are followed into the later passes (longer ones end with the first pass),
and `n` = 2 runs of `eval_mm_speed` stand for ten: the second begins on the memory of
a run like itself, as all others do.

The memory keeps the remains of everything that ever happened, which would make
the states too many. `View` leaves out words that nothing reads before writing
them: those above `brk`, inside free blocks behind the two pointers, and behind
the data of live blocks (`mm_realloc` may copy the latter, but into the part of
the new block that the driver fills next); and after `eval_mm_valid`, when no pass
looks at data, all data.

### What is proved

For every size of the memory and of the chunk, every set of indices and request sizes,
traces of any length and any number of passes: `TypeCorrect`, `DriverContent`
(`NeverBad`), `Tiled` (`TagsTile`), `FreeListHeld` (`FreeListExact`), `NothingLeaked`
(`AllocatedAreLive`), and `Implements`, that every pass implements `Allocator`. The
assumptions are `HeapAssumption` (the chunk is a multiple of `DSIZE` and the first one
fits; `SizeValues` is more than twice the memory, as for `int` and 20 MB), that low bytes are
below 256 (`LowByteAssumption`), and
`SizesAssumption` (requests are whole words, so that a word belongs to one block, and
less than half the values of a `size_t`).

`MmHeapProofs` describes a heap by ghosts: `sz`, a function from the start of each block
to its size, `F`, the blocks tagged free, and `L`, those in the free list. `Tiling` says
that the blocks of `sz` lie one behind the other up to `brk`, `Tagged` that headers and
footers say what `sz` and `F` do, `Ring` that the pointers in the free blocks form one
closed walk through `L` and the dummy block, in both directions. A heap is `Good` if these
hold with `L` = `F` and no two free blocks touch; in between, a block may be tagged free and not
yet listed, which is what `coalesce` finds. Each function has one lemma: `CoalesceShape`
(all four cases, by merging blocks of `sz`), `PlaceShape`, `ExtendShape`, `InitShape`, `FindFit`
(the walk visits exactly `L`), and from these what a call promises: `MallocAnswers`,
`FreeFrees`, `ReallocMoves` (a block of its own that was not allocated, all other
payloads `Untouched`, or NULL and a heap as good as before).

The invariant `Inv` of `MmProofs` says that such `sz` and `F` exist and that the allocated
blocks serve the live ones (`Serves`), hold their data in the first pass (`Filled`), and
that the trace is one a later pass can follow (`TraceInv`): requests that were legal the first
time are legal again, although the heap starts anew. None of the four properties is
inductive alone: that `free` writes within the heap needs the tags, that the tags are read
right needs the tiling, that `coalesce` unlinks the right neighbour needs the ring.

`UtilizationRight` proves `UtilizationSound`. The invariant `UtilInv` says that the driver's total is
the sum of the sizes of the live blocks (`SumOf`, of `NatProofs`, over whatever order). Blocks
that lie apart behind the heap's first word have sizes that add up to at most the room from there
to `brk` (`InsideFits`, `LiveFits`), and no request moves `brk` back (`Reaches`, shown for
each routine in the last section of `MmHeapProofs`), so the highest total stays within the
heap too.

`RunsRepeatRight` proves `RunsRepeat`. The memory of a later pass is not that of the first: each
pass begins on the remains of others, and only the first writes data. So equality of heaps
is no invariant; being a `Twin` is: `g` is a twin of `h` if it has the same `brk` and
`heap_listp` and the same words wherever a tag of a block or a pointer of the free list is,
whatever the rest (`Alike`, for all `sz` and `F` that describe `h`). Each function of the allocator takes
twins to twins and gives both the same answer (`CoalesceTwin`, `PlaceTwin`, `FitTwin`, `ExtendTwin`,
`MallocTwin`, `FreeTwin`, `ReallocTwin`: it reads nothing else, and what it writes it
writes in both); `mm_init` makes twins of any two memories (`InitTwin`); and filling a
block leaves a heap's twins its twins (`MemsetTwin`). The invariant `History` says that there is a sequence of
heaps, those of `eval_mm_valid` after each request, such that every twin of one goes to a twin of
the next with the recorded answer (`Chain`), that any memory can be made a twin of the first (`Fresh`),
and that the heap of a later pass is a twin of the `i`-th. The sequence is bound inside the
invariant; the specification has no variable for it.

With this every property of `mm_safety` has its theorem. `DriverContent` is about every trace and every
index: a realloc keeps the data (`Carried`), the driver has nothing to say for a low byte up to
127, and from 128 on it says "lost" of data that is there.

`mem_sbrk` compares pointers. The model adds numbers: that `mem_brk + incr` wraps around,
which on 32 bits a request far beyond the memory could bring about, is left out.

## 6. The cache lab

### Modules

| Module | Contents |
|---|---|
| `Csim` | The simulator: command line, rings of lines, counters, the file of results. |
| `SetLru` | What a simulator promises: hits, misses and evictions of least-recently-used replacement. |
| `Trans` | The transpose functions as sequences of loads and stores, the dispatcher and the list of registered functions. |
| `TestTrans` | `test-trans`: for each registered function `tracegen`, the simulator on the trace it leaves, validation, the summary. |
| `MCTestTrans` | Command lines, a trace and matrix sizes for TLC. |
| `CachelabProofs` | The rings of a set; the inductive invariant, its consequences, the refinement; the submission for every matrix size. |

### State and code

A set of the simulator is a function from its nodes to `next`, `prev`, `valid` and
`tag`, with the dummy head as node 0; one trace line is a step. `lines` counts them.
`Trans` gives for every iteration of the innermost loop its bursts, loads into
locals and then stores of those locals, with the index arithmetic of C, whatever the
bounds of the arrays. `TestTrans` executes an iteration on `B` and hands its accesses,
as `trace`, to the simulator in the same step, at the addresses of the arrays that
`trace.f0` of the repository shows; accesses to locals are on the stack and filtered
out by the harness. Every element of A has a value of its own, so that equal values
never hide a wrong index.

### What is checked

One run, `cachelab`. Part A: every sequence of six lines out of ten, on simulators of
two and three ways, and the command lines that end in help, usage or a missing file.
Part B: all registered functions at the three graded sizes, at sizes between which
the dispatcher falls through, a small one and two that are refused.

* `RingsIntact` and `ImplementsLru`: whichever way a ring is walked it holds every
  line once, and the counts are those of `SetLru`.
* `SubmissionCorrect`, `NothingUndone`: the submission produces the transpose for
  every one of the sizes, and what `trans_64x64` parks in B and exchanges later never
  displaces an element in place.
* `FullMarks`: the misses at the graded sizes are within the limits of `driver.py`.
  The model arrives at the counts recorded in the repository: 288 misses at 32x32,
  1228 at 64x64, 1993 at 61x67 and 4424 for the simple scan at 61x67.
* `InBounds`: at the graded sizes the submission stays inside the matrices.

Observed, and without a property: the missing `break`s of the dispatcher do no harm,
because a later function overwrites what an earlier one did; `parseArgs` refuses zero
for `-s`, `-E` and `-b` but not negative values, whose effect is undefined and not
modelled, nor that of `-s` and `-b` too large for the shifts of `getSetIndexAndTag` (addresses and sets are
natural numbers in `SetIndex`); a trace line that `sscanf` cannot read acts
like some other line; `test-trans` ignores the status of the simulator
(`test-trans.c:144`), and would read the results of an earlier run if it failed.

### Bounds

Six lines on sets of two and three ways fill a set, hit in the first, a middle and
the last place, and replace more than once. `Chunk` = 8 elements of the simple scan
make a step, and `Reach` is how far into `B` any function writes at these sizes; both
only shorten the runs. Nothing here is concurrent and no fairness is assumed.

### What is proved

For every shape of the cache, every trace and every list of matrix sizes: `TypeCorrect`
(`TypeOK`), `RingsSound` (`RingsIntact`), and `Implements` (`ImplementsLru`), for the simulator alone and
for the one that `test-trans` feeds. The assumptions are those of `Csim` and `TestTrans`: options and
addresses are natural numbers, `Chunk` is positive.

A ring is described by the sequence of its lines from the dummy on (`Ring`); taking a line
out and putting it behind the dummy (`UnlinkRing`, `InsertRing`, `MoveRing`) rotate a prefix of that
sequence. A set is `Sound` if it is a ring of all its lines in which valid lines come first
and no tag occurs twice. `UseTouches` shows that the simulator's two routines, whether they find the
tag, use a free line or replace the last, make one such rotation, and `TouchedRecent`
that the tags in that order are then those of `SetLru`. That valid lines come first is needed
twice: the replaced line is the last one, and `SetLru` knows no empty lines. What a
transposition is worth to the simulator is only that its accesses are accesses
(`IterationType`, `TracedType`).

The submission is proved for every list of sizes: `SubmissionRight` (`SubmissionCorrect`),
`SubmissionInBounds` (`InBounds`) and `NothingLost` (`NothingUndone`). The first and the
last assume `Roomy`, that `Reach` is not chosen smaller than a matrix that is to be
transposed; `Reach` = 65535 makes it the whole `B` of `test-trans.c`, for which `Roomy` is
true of all sizes, and the run's `Reach` satisfies it for the run's sizes.
`Dispatched` shows what the missing `break`s leave: a function that copies the matrix, or
`trans_64x64` for 64 rows and 32, 61 or 64 columns. The invariant, `SubmitInv`, says how far
the function is after `it` iterations (`Progress`).

* The functions that copy: each element has an iteration of its own (`Turn`), every store of an
  iteration puts `A[i][j]` at `B[j][i]` or, where a block of `trans_61x67` sticks out, at a
  place outside the matrix (`Copies`, `AllCopies`), and an element whose turn is over is in place.
* `trans_64x64`: an element of `B` is as it was, holds the element of `A` that is parked there,
  or is in place, and `Age`, the iterations made of its 8x8 block, says which (`Staged`). The three
  kinds of bursts (`UpperHalf`, `Exchange`, `LowerRight`) change no element of another block,
  and of their own exactly those whose state changes with the age. That an exchange finds what
  it needs, the parked row still there and its final place not yet taken, is what
  makes the function right, and it is `Parked` and `Final` that say so.

Only model-checked: `FullMarks`, the only invariant of the project of which this is true. It
counts the misses of three runs; there is nothing to generalise.

## 7. The data lab

### Modules

| Module | Contents |
|---|---|
| `Bits` | The puzzles of `bits.c` and the references of `tests.c`, on words that are the sets of their one-bits. |
| `Btest` | `btest`: options, test values, calls, the alarm and the score. |
| `MCBtest` | Command lines and ranges for TLC. |
| `NatProofs`, `BtestProofs` | Induction about sets; every puzzle right for all words, and the inductive invariants of `btest`. |

### State and code

`argv` holds the options still to be read, `opt` the globals they set, `i` the function
under test and `a1` the value of its first argument. `env` is the call that
`sigsetjmp` was last made in, `alarm` whether SIGALRM is due: `test_function` sets an
alarm and never cancels it, so it may go off while the next function's values are
generated, or in `run_tests`, and jump into a frame that has returned. That is
undefined; the model allows what compiled code was seen to do (charge the next
function, score the first again) and a crash, and nothing else that could follow. `sigsetjmp` and
the setting of the alarm, seven lines later, are one step (`Arm`): an alarm set earlier that goes
off between them does what it does just after. `rand` is never seeded, so the random
values are constants.

### What is checked

One run, `btest`: all puzzles on the values `btest` chooses, single puzzles on some
hundred values fixed with `-1`, `-2`, `-3`, options that are refused, and up to two late
alarms.

* `PassedMeansAgrees`: no function passes that differs from its reference on a
  combination of its test values, whatever alarms went off.
* `ErrorsExplained`: the puzzles are right on everything they are tested with, but
  for `floatScale2` of finite numbers whose double is too large: it raises the exponent
  to that of infinity and keeps the fraction, which makes a NaN (0x7f000001 gives
  0x7f800001). `FullScore`: the values that `btest` chooses do not show it.
* `ChargedOnce`: an alarm that outlives its function charges at most one other.

Observed, and without a property: `get_num_val` refuses a second value for the same
argument, and takes "5zz" for 5 as an integer; the branch of `gen_vals` for ranges that
can be tested exhaustively is not reached by this table.

### Bounds

`arg_test_range` is 9 values (500,000 in the code) for one argument and 3 and 2 for
several: the values around zero, the ends of the range and the floats that `gen_vals`
adds, and a few random ones. Alarms are late for three of the functions, among them
the first and neighbours in the table. No fairness is assumed: the properties are
about what is reported.

### What is proved

Every puzzle of `bits.c` returns what its reference in `tests.c` returns, for all words.
`floatScale2` does but for the numbers of `DoubleTooLarge`; on those it differs, as
the hazard says. The arguments are of two kinds.

* By bits: `bitXor`, `tmin`, `isTmax`, `allOddBits`, `conditional`, `logicalNeg`, and that
  `negate` returns the word that adds up to zero. The argument is by the lowest bit of a
  word, where the carry of adding one stops.
* By numbers: `negate` as a number, `isAsciiDigit`, `isLessOrEqual`, `howManyBits` and the
  three float puzzles. `Low(x)[n]` is what the lowest `n` bits of a word are worth, and
  its lemmas say that it decides those bits (`LowDecides`), that `Add` is addition but for
  a multiple of 2^32 (`Congruent`), that a shift multiplies or divides by a power of two
  and that `WordOf` undoes `Signed`. `isLessOrEqual` then looks at its difference only where
  it cannot overflow, and `isAsciiDigit` overflows on the side of "no". `howManyBits` is a
  binary search: each of its five steps halves the places where the top bit may be
  (`Top`). For the floats, `ExponentOf` and `FractionOf` are the numbers in the two
  fields; `floatPower2` is compared with repeated squaring by an invariant of the
  reference's loop (`Squares`).

For all command lines, ranges, random words and alarms: `TypeCorrect`, `PassedRight`,
`ChargedRight`, `ErrorsExplainedRight` and `FullScoreRight`. The invariant `Inv` of
`BtestProofs` adds to the properties to whom an alarm that is due belongs (`AlarmOwner`),
the order of the report (`InOrder`), that all values before `a1` have agreed
(`Progress`), and what an error came from (`Failure`). Without `AlarmOwner`, `ChargedOnce`
would not be kept by a stale alarm. `ErrorsExplained` follows from `Failure` and the
theorems about the puzzles.

`FullScore` needs a second invariant, `Quiet`: as long as no alarm has gone off, the
report holds the selected functions passed so far and, with no argument fixed, no
points have been lost. A point could only be lost by a float that `DoubleTooLarge` names.
`FloatValIs` shows that `gen_vals` makes none, and it is the cap on the range that sees
to it: with offsets below 2^23 those around the smallest normal number and 1.0 stay far
below 2^127, and the rest count down from it. So the grade misses the error of `floatScale2` however many
values are asked for; only a value given with `-1` finds it.

All invariants of the run are proved; no property of this part is only model-checked.

## 8. The tiny server and robust I/O

### Modules

| Module | Contents |
|---|---|
| `Rio` | The robust I/O package on a connection: its buffer, `rio_readlineb` byte by byte, `rio_writen` piece by piece. |
| `Lines` | What `rio_readlineb` promises: the bytes of a connection in order, each once, in lines. |
| `Tiny` | The server on top of `Rio`, its child, and the files it serves. |
| `MCTiny` | Clients and files for TLC. |
| `TinyProofs` | The refinement, the reasons for which the server stops, and whose answer a client gets. |

### State and code

`unread` is what the client has sent and `read` has not returned, `rio_buf` the internal
buffer, `taken` what the present call has put into the caller's. `read` returns any
part of what is there, `write` takes any part of what it is given. A peer waits, closes
its side, or is gone (then `read` and `write` fail, or SIGPIPE ends the server). A byte
stands for a word of the request or for CR or LF, so that all line ends and cuts can
happen and no word is put together from letters; an answer is a sequence of its parts.
While a file is written to the client it is mapped, so `Change` can also rewrite what
`pending` still holds of it, and a write past the end of a file that became shorter may fail
(`PastEnd`). `Long` are the words nearly as long as a line: `clienterror` formats its cause into a buffer of
`MAXLINE` bytes with a text before it, and with such a method or URI may not return (`Overflown`).
(`filename` of `doit` overflows for the longest of these URIs; no file has such a name, so that
`clienterror` is called with it. All other buffers are as long as a line.)
`pc` says where `main` and `doit` are. `method` and `uri` are variables of `doit` that
keep their values, or any garbage, from one request to the next. `log` says which
requests' lines are in the buffer of stdout, which `fork` copies. `Change` is someone
else who removes, replaces or rewrites a file at any moment, between `stat`, `open`, `mmap`
and the write.

### What is checked

One run, `tiny`: two connections, one after the other, from any of some thirty clients.

* `ImplementsLines`: lines come out whole and in order, wherever `read` cuts them.
* `OwnAnswer`: a client that names a method and a URI gets an answer to its own
  request, whole, with as many bytes as were promised, and no log of other requests
  but when the file it names cannot be executed.
* `StopsOnlyFor`: the server ends for no other reason than a failed system call, a
  client that is gone, an empty file, a file that changes while it is served, or a
  method or URI that overflows the buffer of `clienterror`.
* `Served`: after any client that sends an empty line or leaves, the server accepts
  the next one or has stopped.

The exceptions in these properties are what the code does: a request line with fewer
than two words is answered from the last request's method and URI; when `execve` fails,
`exit` in the child sends its copy of the server's buffered log to the client; an empty
file cannot be mapped, and `Mmap` ends the server; a file name or method of nearly `MAXLINE` bytes
overflows a buffer; a client that closes its side
before the empty line leaves `read_requesthdrs` in a loop for ever; a header line of
`MAXLINE` - 1 bytes is cut, and its CR LF is taken for the end of the headers. `adder`
without an ampersand crashes, but only the child. A method other than GET is answered
without its headers being read.

### Bounds

`MAXLINE` = 5 and `RIO_BUFSIZE` = 3 (8192 each): lines that are shorter than either buffer, that fill
one or both, that are cut before and between CR and LF. A word of `Long` is one byte
as every word is; only that it overflows distinguishes it. Two connections are enough for
what one leaves to the next. One change of a file is enough to fall between any two
looks at it.

### Fairness

Weak fairness of the server and of its child: the kernel runs both. Clients need not
send or leave; those that do not are excepted in `Served`. Clients read what they are
sent, or are gone, and a CGI program ends: without either, `write` or `wait` could block.
A new connection, a failure or a change need never come.

### What is proved

For every size of the two buffers, every set of clients and files and any number of
connections and changes:

* `Refinement`: `Spec => ImplementsLines`. The invariant `ReaderOK` says that `taken` is
  shorter than a line may be and holds no line feed; `DeliverLine` then shows that what
  a call returns is a line of `Lines` and the beginning of what was left, for each of the
  three ways in which a call ends.
* `StopsRight`: `Spec => []StopsOnlyFor`, with `StopInv`: `clienterror` overflows for the method or URI
  of the request only; `serve_static` is called for static
  URIs only, and as long as no file has changed, what it opens and maps is what `stat`
  saw (`ServingOK`). Without it nothing is known when `open` or the write fails.
* `OwnAnswers`: `Spec => []OwnAnswer`, with `AnswerInv`. What a client has received and what is
  still to be written to it are together (`Sent`) a prefix of an answer at every place of
  `doit`. `RequestOK` says that `method` and `uri` are those of the line read last, from the
  moment it is split on; `ServedOK` what `serve_static` and `serve_dynamic` have put in front of
  what comes next, and to which file that belongs; `CallsOK` what the child may still add;
  `ShownOK` that a whole answer is what `OwnAnswer` asks for.
* `TypeCorrect`: `Spec => []TypeOK`, whose last part, that no buffer holds the log of a later
  connection, needs to know whose lines are in the child's copy (`LogInv`).

"empty" in `Tiny` stands for the empty string. The assumptions are `RioAssumption` and
`TinyAssumption`, which TLC evaluates. Only model-checked: `Served`.

## 9. Not modelled

The text of command lines, URIs, HTTP headers, traces and reports; `freeCache`
(unreachable), `printCache` and the checker of `mm.c` (compiled out); `rio_readn` and
`rio_readnb` (called by nobody) and those wrappers of `csapp.c` that no modelled program
uses; failures of `close`, `munmap`, `wait` and `dup2` in the tiny server; timers that `config.h` does not select, clocks and scores; the passes of the
driver over libc's `malloc`; the reference simulator (a binary, replaced by `Csim`);
`fshow` and `ishow`; the shell's test programs and the grading scripts, whose only state
is the processes they start; the binary labs (bomb, attack, architecture, performance),
whose programs are not in the repository as source. `PROJECT.json` lists every part
with its reason.
