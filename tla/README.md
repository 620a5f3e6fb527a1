# SSS: a verification project

SSS (Blang) is a compiled language. `sss.c` drives a compiler written in C:
`parse.c` builds a syntax tree, `typecheck.c` gives it types, `compile/*.c`
emits code with libgccjit. Compiled programs run on `libsss` (tables, arrays,
strings) with the Boehm collector, and on a standard library written in SSS
(`stdlib/*.sss`) that wraps pthreads.

The language promises *value semantics*: an array or a table in a variable
changes only by a statement that names it (docs/mutability.md:14-15). It keeps
the promise with copy-on-write flags that the compiled statements and the
run-time library set, read and clear together, and this is where the system is
hardest to get right: a missing mark in one statement shows up as a change in
an unrelated variable, many statements later. The project therefore starts
with shared storage, with the hash map that tables are, and with the queue and
thread pool, the only concurrent code of the repository. From there it goes
through the compiler: what it makes of control flow, types, matches, arithmetic,
units, files, and of the text itself.

Contents: 1 inventory, 2 modules, 3 runs and bounds, 4 fairness, 5 proofs,
6 disagreements between code and docs, 7 what is not modelled, 8 plan.
How to run: `tlc -config Tables.cfg MCTableCow`, `tlapm TableCowProof.tla`.

## 1. Inventory

Components with state come first. "Correct" says what the properties are about.

| Component | State | Operations | Hard part | Correct means |
|---|---|---|---|---|
| Hash map, libsss/hashmap.c | entries in insertion order, buckets with chains, `lastfree_index1`, capacity, fallback, default | get, set, remove (also of a random entry), resize, set_bucket | loops that follow links without an end test, a cursor that only goes down, removal that moves two entries | chains are sound, disjoint and complete, loops end and stay inside, the map is the abstract table |
| Table statements, compile/tables.c, expr.c, helpers.c | the struct in every variable and heap cell, shared blocks, the copy-on-write flag | literal, `p[k] = v`, `p[k] op= e`, remove, `x = y`, `p[]`, `@x`, `&x` | who marks, who copies, who clears the flag | cells are independent; iteration and lookup agree |
| Array statements, compile/arrays.c, math.c, libsss/utils.c | pointer, length, stride, free space (negative: copy on write) | literal, index, slice, insert, remove, sort, shuffle, `+=`, copies, references | free space behind items, strides, slices that share | cells are independent; accesses stay in the block; each statement does what its name says |
| Loops over arrays, compile/loops.c | saved pointer and length, current item | begin, next | the body changes the array | the loop sees a snapshot |
| Queue, stdlib/mutex_queue.sss, mutex.sss, threads.sss | two arrays, two mutexes | enqueue, try_dequeue, dequeue, cancel | interleavings, cancellation while sleeping | nothing lost or duplicated, locks released, calls return |
| Thread pool, stdlib/threadpool.sss | two queues, table of kept results, next id, workers | give, run, take, close | results out of order, cancel while running | each request in one place, run and close return |
| Memoized functions, compile/functions.c | a table of results for each function and thread | lookup, call, evict, store | recursion between the size test and the store | a cached answer is the function's; the size is bounded |
| Control flow, compile/loops.c, blocks.c, expr.c, helpers.c | list of defers, labels for skip and stop, the current block | for, while, repeat, do, if, defer, with, skip, stop, return, fail | order of deferred code on all ways out | the compiled jumps do what the program means |
| Range slices and loops, utils.c, loops.c, ranges.c | first, last, step | clamp, slice, step | overflow, open ends, strides cut to 16 bits | slice and loop visit exactly the items of the range |
| Scopes, modules, program, environment.c, blocks.c, program.c, files.c | bindings, modules loaded so far | use, predeclare, populate, compile | modules that use each other | each module once, names mean one variable, values before uses |
| Comparison and hashing, compile/comparison.c, hashing.c, hashmap.c | none | compare, hash | tables with fallbacks, arrays in structs | equal values hash alike; comparison is an order and goes by contents |
| Types and type checker, types.c, typecheck.c, compile/match.c | names in scope | promotion, common types, types of blocks and conditionals, missing patterns | partial orders, branches that leave, null | a value has the type it was given; matches leave nothing out |
| Arithmetic, compile/math.c | none | binary operations and updates | arrays of different lengths, structs, widths | one operation at each place, in place or not |
| Units, units.c | none | read, write, multiply, divide, convert | negative powers, truncated quotients | canonical strings, conversions keep the quantity |
| Parser, parse.c | a position | expressions, blocks, statements with bodies and suffixes | which line a part belongs to | what is written is what is read |
| Strings, base64, lists, printing, driver | buffers, processes | | text and I/O | section 7 |

How they interact: compiled statements call libsss on *pointers to structs*;
the struct's flag, set by the compiled code, tells libsss whether to copy. The
collector reuses what no struct points to. The queue and the pool are SSS
programs: their arrays are the arrays above, each protected by its mutex, and
their tables the tables above. The cache of a memoized function is a table of
libsss. Within the compiler the parser's tree goes to the type checker, whose
answers (this pointer is never null, this match leaves nothing out) the code
generation relies on without checking them again. The hazards of each part,
with the lines where they bite and the properties that watch them, are listed
under `hazards` in PROJECT.json.

## 2. Modules

    Table          what a table promises             <- HashMap     refines it
    TableValues    cells that hold tables by value   <- TableCow    refines it
    ArrayValues    cells that hold arrays by value   <- ArrayCow    refines it
    Channel        what a queue of threads promises  <- MutexQueue, ThreadPool
    Meaning        what control flow means           <- Control runs next to it
    Ranges         range literals, loops and slices over them
    MemoCache      a recursive function with a cache
    Types          <- Typecheck, Arithmetic, ValueSemantics
    Question       <- Match, Units                   pattern matches, units of measure
    Modules        files
    Parser         <- Layout, how a program is written for it
    HashMapProof, TableCowProof, ArrayCowProof, MutexQueueProof,
    ThreadPoolProof, RangesProof, MemoProof, AlgorithmsProof       theorems
    MC*            instances for TLC: constants, symmetry, inputs

### Machines

**HashMap** is `libsss/hashmap.c` for one map, one action for each iteration of
each loop. `pc` says which loop runs next, `op` what was asked; `capacity`,
`lastfree`, `buckets`, `entries` are the fields of `struct sss_hashmap_s`, and
`cur`, `prev`, `scan`, `index` the locals of `sss_hashmap_get_raw`,
`_set_bucket` and `_remove`. Bucket numbers start at 1 and 0 is "none", as in
the code. `hashmap_resize` is the re-placing of entries 1..count with
`pc = "place"`. `fallback[k]` stands for what the chain of fallback tables
answers, which other statements change at any time between calls. Remove
without a key takes any entry; with none it takes a key read from zeroed
memory, which may equal any key. Where an unchecked walk would read
`buckets[-1]` the action is not enabled, and the map then neither answers nor
goes on: `CallsReturn` says that this never comes up. Hashes are arbitrary
naturals: SipHash is not modelled.

**Table** is the abstract table: `call` is the call that has begun and not yet
taken effect, so a refinement also shows *which* call an effect belongs to, and
that it takes place once.

**TableCow** abstracts buckets to the map from key to entry number and looks at
many tables. A cell (variable `x`, heap cell `p`) holds a struct `[block, count,
cow]`; entries and buckets are always replaced together, so they are one block.
One action per statement: `New`, `Put`, `Modify`, `Remove`, `Fetch` (`c = p[]`),
`Assign` (`x = y`, `p[] = y`), `Box` (`@x`), `Refer` (`&x`). `Set` and `Delete`
are what `sss_hashmap_set` and `_remove` do to the storage, growth and
copy_on_write included. Only heap cells, and variables of which a reference was
taken, can be written to.

**ArrayCow** does the same for arrays: struct `[block, off, len, stride, free]`
with offsets in items, and memory blocks that keep stale items and `Junk`
where nothing was written, so that reading outside of an array is visible.
Insertion, removal, slices, sorting, updates and the running loop are actions.

In both, `did` is a history variable: the statement executed last. The value
modules have it too, so that refinement compares each step with the effect of
*that* statement (a removal cannot pass as some other change).

**MutexQueue** is `stdlib/mutex_queue.sss`, one action for each access to
shared memory; `with` becomes lock and unlock actions on every way out of the
block, the early `return Empty` included. `sent` and `received` are history.
A cancelled thread ends at `usleep`, the only cancellation point here.
Its order is *not* first in, first out: see `BatchOrder` for what holds.

**ThreadPool** is `stdlib/threadpool.sss` over two channels (a dequeue takes any
queued item, as Channel.tla promises and MutexQueue keeps), with workers, one
owner thread, and a `close` that cancels and joins.

**MemoCache** is the wrapper that `add_cache` of `compile/functions.c` puts
around a function, and the recursion through it: `Call` and `Recur` reach the
wrapper, `Hit` answers from the table, `MissWithRoom` and `MissFull` run the
function, the latter after `sss_hashmap_remove` without a key took any entry,
and `Return` stores the result and returns it. A result is a block of memory
that the cache and the caller both refer to, and `Change` a statement of the
caller that writes to it in place. `ran` is history.

**Ranges** takes a range literal through `compile_range` and the loop of
`compile_for_loop`: actions `Make`, `Enter`, `NextItem`, and `Stop` for a body
that leaves the loop. The literal is any choice of first, step and last, each
of which may be left out. `range_len`, `range_contains`, `range_slice` and the
slice by a literal without step are operators (`RangeLen`, `RangeContains`,
`RangeSlice`, `LiteralSlice`) on the range that was made. Sums and differences
keep their low bits (`Wrap`), division truncates (`Quotient`, `Remainder`), a
stride keeps 16 bits (`ShortStride`), the bounds of a slice literal and what is
computed from them 32 (`Cast32`). `visited` is history. Where the generated
code has a signed overflow, in `last - first` of a length, libgccjit promises
nothing; the operator takes the low bits and `MembersAgree` says nothing of
those ranges. Nor does it of INT64_MIN with a step of -1, whose remainder C
leaves undefined. What a range means is `Members`, defined without any of this.

**Control** is a compiler and a machine. `Emit` and its parts (`For`, `While`,
`Do`, `If`, `OrElse`, `Exit`, `Return`, `Fail`, `Block`) build basic blocks as
`compile_for_loop`, `compile_while_loop`, `compile_block_expr` and the cases of
`compile_expr` do, one operator for each; `InsertDefers` is
`insert_defers`, and the list of defers is passed on, shared or copied as
`env->deferred` is. The state is a block and a place in it, and beside it
`run`, the same function executed as **Meaning** defines it, statement by
statement on a stack of frames, with nothing compiled. Both stop before each
effect and each condition; `Agree` compares what they would do, and the
condition then goes the same way in both. Conditions, effects and loop ends
are names and choices, so one run of TLC is every run of the program.

### Algorithms

These compute a result from their input alone. The state of `MCAlgorithms` is
one input and whether it has been answered; the one step answers it, and each
property says of that step, `[][...]_vars`, what an operator of the module that
the input is given to must come to. Every input is given in some initial state,
so that each is answered once. They use recursive operators, as the code is
recursive, except Units and Match, where recursive functions take their place,
so that AlgorithmsProof can reason about them; Question is the input and the
step that answers it.

**Types** is `types.c`: when a value promotes (`CanPromote`), what two types
have in common (`OrType`), numeric precision, what is orderable, has memory on
the stack or heap, or may contain itself. The checks compare them with
`Includes`, which says what values a type has.

**Typecheck** is `get_type` and the checks of code generation, for expressions
over truth values and pointers: blocks, `if`, `matches`, `do` with `else`,
`and`, `or`, `not`, `@`, dereference, declaration, assignment, `fail`, `skip`.
A truth value with a pointer to one is typed by `get_math_type`, as in the code,
and refused by code generation.
`TypeOf` infers, `Accepts` is what compiles, and `Run` the values that the
generated code comes to from every store that fits the variables' types.
`ValuesFit`: a value is one of its type, above all never null in an `@T`, and
so is what is left in the variables.

**Match** is `compile/match.c` (which clause runs) and `get_missing_pattern`
(whether one always does). **Arithmetic** is `compile/math.c` with
`get_math_type`; the same operation is looked at place by place, and as an
update. **Units** is `units.c`. **ValueSemantics** is comparison and hashing
as the compiler generates them for each type, and as hashmap.c has them for
tables. **Modules** is how `blocks.c` and `program.c` compile files that use
each other (`Prepare`, `Use`, `Import`, `Compile`) and how the result is loaded
(`Load`).

**Parser** is `parse.c` on words: `ParseExpr` with its operator table,
`ParseBlock`, `ParsePart`, every statement with a body, the exits `skip`, `stop`,
`return`, `fail`, and the suffixes `if`, `unless`, `for`, `while`; parentheses
hold an expression or such a statement. A position is a word and a line, as the parser
decides by indentation and by where it passed white space. **Layout** goes the
other way: it writes a tree down so that the text shows its structure, in
several layouts, and does not call the parser. `ReadsBack` compares the two.

## 3. Runs and bounds

Passing runs:

| Run | Shows | Instance |
|---|---|---|
| HashMap | every sequence of calls keeps the chains sound (`ChainsSound`) and complete (`ChainsComplete`), finds a free bucket (`CursorSound`) and ends (`CallsReturn`); the map implements Table, fallback, default and "create with NULL" included | 4 keys of which 3 collide, first capacity 2, a default, one key in the fallback; only one key has more than one value (`OneKeyVaries`) |
| Tables | `OwnedOrMarked`, `LookupMatchesIteration`, `OneAtATime`, TableCow implements TableValues | a variable, a heap cell, 3 keys, 4 blocks, first capacity 1 |
| Arrays | `OwnedOrMarked`, `InBounds`, `OneAtATime`, ArrayCow implements ArrayValues | a variable with a reference, a heap cell, 2 items, arrays of up to 2 items |
| ArrayLoops | `Snapshot` | a heap cell that is looped over, arrays of up to 3 items |
| Ranges | the loop visits the values of the range (`LoopVisits`), length and membership agree with it (`MembersAgree`), slices have the items that the range selects (`SlicesAgree`) | integers -13..12, lengths and bounds of slice literals -11..10, strides -8..7, items of 2 bytes, arrays of up to 7 items |
| Queue | locks, conservation, order, return of enqueue, delivery, Channel | 3 threads, one cancellable, one that keeps dequeuing, 2 values |
| ThreadPool | one place for each request (`RequestsKept`), run gets its own result, close ends all workers, Channel | 2 workers, 4 requests |
| Memo | `Bounded`, `Right`, `RunsOnce` | recursion of depth 4 over 5 arguments, caches of 0, 1, 2 entries and without limit |
| Control | the compiled jumps do what the program means (`Agree`) and come to an end (`JumpsEnd`) | every kind of loop with every kind of statement in each of its parts, and every exit from there |
| Algorithms | `PatternsExhaustive`, `TypesAgree`, `ValuesFit`, `MathAgrees`, `UnitsAgree`, `PromisesKept`, `FilesLoad`, `ReadsBack` | about 300,000 inputs, see below |

Why the bounds are enough. *HashMap*: with three keys of one home, a chain of
three arises, whose middle is removed, and whose members lie in the home of the
fourth key, which displaces them (also in the middle of the chain); the table
grows at the third key; removal of heads, middles, tails and of the last
entry all occur, with `lastfree_index1` rising and falling. Values are only
copied, so one key with several shows what becomes of each. *Tables*: the first
capacity of 1 makes growth happen at the first, second and third key, before
and after copies; with the real one of 4 nothing grows over three keys, and the
run TableSlots uses it for that reason. Statements relate two cells at most, so
two cells show every pair; a third could only hold a copy of one of them.
*Arrays*: blocks are one more than the structs and the new block of a statement
need; `Slack` is 1 where the code has 6, so that free space runs out within the
bound. *Ranges*: every literal over these integers, so the limits are met from
both sides, with steps of 0, 1, the limits themselves and those that pass
`last`; strides are narrower than lengths and these than integers, as in the
code, so clamping and cutting both happen, and literals have bounds that fit
into a length and bounds that do not; arrays of up to 7 items hold slices that begin in front
of, inside, at and behind their ends. *Queue*: two threads hold different
mutexes while a third waits; two values give head and tail arrays of different
content. *ThreadPool*: four requests give a result that is kept, one running,
one queued and one delivered at a time. *Memo*: the recursion calls one
argument twice, one directly and through another, and one not at all; a limit
is met empty, below, at and beyond. *Control*: one exit out of at most three
nested blocks, each with something deferred before it and in some after it,
meets each pair of a place and an exit; deeper nesting repeats the same list
and labels. An exit behind `or` is compiled with an environment of its own or
with that of the code after it (`OrExits`); for `skip` and `stop` only the former,
the others being `LosingPrograms` (section 6).

*Algorithms*: types are numbers of all widths and units, pointers of all four
kinds, recursive names, and structs, arrays and unions of these; matches have
up to three clauses (four for unions) over patterns that nest to depth two;
expressions are one operation on one operation on a leaf; numbers have 8 bits
where wrapping is to happen; units have up to three names with powers and up to
two conversions; tables have up to two entries, with a default and a fallback;
programs have three files, of up to three, two and two statements, that use
each other in all ways; statements of the parser have one part that is any
statement again, before another statement, in every layout, and operands are
numbers, expressions, exits, with and without a condition, and loops. Each algorithm
recurs on one part at a time and returns to its caller what this shows; a
second level repeats the first.

`SYMMETRY` is used where no liveness is checked, over keys, values, items and
cells that the specifications do not tell apart. `VIEW View` leaves out the
history variable `did` of TableCow and ArrayCow, which no action and no
invariant reads: states that differ in it have the same successors, and the
step properties are checked on steps, whose next value of `did` is at hand.
`CONSTRAINT OneKeyVaries` of HashMap leaves out states in which another key
than one has a second value. Deadlock is checked in every run but Control and Cleanup,
where a function that has ended is at its end. In ThreadPool a closed pool
steps to itself (`Closed`), and in Ranges a program that has ended (`Ended`),
as nothing is left to do. The initial state and all inputs are those a program
can produce. Runs that show disagreements are in section 6.

What the configurations leave out is in the modules' guards, by name:
`MaxLen`, `Looped`, `Referred` (ArrayCow), `MaxRequests` (ThreadPool),
`MaxLength` (Ranges), `Writes` (MemoCache), and the statements that the code
gets wrong (section 6), which would hide every other result if the passing runs
contained them: `Next` of TableCow and ArrayCow says which, and `CutsWell`,
`FitsLength` and the exceptions in `MembersAgree` (Ranges), `OrExits` (MCControl),
`Odd` (Typecheck), `Ambiguous` (Types), `TakesDefault` (Match), `Hashed` and
`Ordinary` (ValueSemantics), `Limit` (Units), `Acyclic` and `UsesFirst` (Modules), `TakesNext`
(Layout) name the forms that the properties of the algorithms except. The
modules also hold specifications with such a statement in them, for whoever
repairs it: `SpecRemove` (TableCow), `SpecSlice` and `SpecInsert` (ArrayCow),
which no run uses; each then has a violation in a few steps.

## 4. Fairness

*HashMap*: `WF(Step)`. The code is sequential; a call that has begun is run to
its end. *Control*: weak fairness of the whole machine, for the same reason.
*MutexQueue*: weak fairness for the steps of a thread, since the operating
system runs every thread; strong fairness for taking a mutex, since a thread
competes for it with others and POSIX mutexes may in principle pass one by: the
liveness results hold for starvation-free mutexes, and with weak fairness only
they would not. `Delivered` also needs one consumer that calls `dequeue` again
and again; nothing is assumed about the others, who may be cancelled while they
sleep or never call. *ThreadPool*: weak fairness for the workers, including
that the function of a request returns, and for the owner while it is inside of
`run` or `close`; the owner need not call anything. *TableCow*, *ArrayCow*,
*MemoCache* and *Ranges* need none: no liveness is stated. That a loop over a
range ends follows from `LoopVisits`, since each value is nearer to `last` than
the one before.

## 5. Proofs

All proofs are for every value of the constants under the ASSUME of the module
(which says no more than that the "no such thing" values are not things, that
capacities and sizes are positive, that a stride is no wider than a length and
a length no wider than an integer,
for MemoCache that the recursion descends, and for Match that types are nested
finitely deep and that parts of types, patterns and values are such again). `CacheIsRight` has one hypothesis more, `~Writes`,
which is section 6's exception for a result that a program changes in place.
Each safety invariant, step property and refinement of the passing runs of the
machines has a theorem, except those of Control. Of the liveness properties of
the hash map, the queue and the pool, everything but the fairness is proved:
that somebody can always go on, and that each step leaves less to do. Of the
algorithms, the units of measure and the check of pattern matches are proved.

| Module | Theorem | States |
|---|---|---|
| HashMapProof | `TypeCorrect`, `FreeBucketFound`, `DisjointChains` | `TypeOK`, `CursorSound`, `ChainsSound` |
| | `EntriesAreFound`, `MapIsTable` | `ChainsComplete`, HashMap implements Table |
| | `NoCallRunsForEver` | each step of a call ends it or brings it closer to its end |
| TableCowProof | `TableTypes`, `WritersOwn`, `ValueSemantics`, `TablesAgree`, `TablesAreValues` | `TypeOK`, `OwnedOrMarked`, `OneAtATime`, `LookupMatchesIteration`, TableCow implements TableValues |
| ArrayCowProof | `SharedIsMarked`, `ItemsInBounds`, `OneChanges`, `LoopsReadSnapshot`, `ArraysAreValues` | `OwnedOrMarked`, `InBounds`, `OneAtATime`, `Snapshot`, ArrayCow implements ArrayValues |
| MutexQueueProof | `LocksAlwaysMatch`, `NothingLost`, `QueueKeepsOrder`, `QueueIsChannel` | `LocksMatch`, `Conserved`, `BatchOrder`, MutexQueue implements Channel |
| | `NeverDeadlocked`, `NoCallLoops` | who waits, waits for a thread that can go on; a call takes at most 12 steps of its own |
| ThreadPoolProof | `PoolKeepsRequests`, `CloseEndsAll`, `PoolIsChannel` | `RequestsKept`, `AllEnded`, ThreadPool implements Channel |
| | `RunWaitsForItsOwn`, `RunEnds`, `CloseEnds` | the result of a waiting `run` is on its way; what is left of `run` and of `close` gets less |
| MemoProof | `CacheBounded`, `CacheRunsOnce`, `CacheIsRight` | `Bounded`, `RunsOnce`, `Right` |
| RangesProof | `NoOverflow`, `VisitsRange`, `LengthAgrees`, `SlicesAreRanges` | `TypeOK`, `LoopVisits`, `MembersAgree`, `SlicesAgree` |
| AlgorithmsProof | `UnitsAlwaysAgree`, `MatchesAreComplete` | `UnitsAgree`, `PatternsExhaustive` |

*HashMapProof*. That a free bucket is found is not inductive by itself. The
invariant `IInv` adds: different buckets have different entries; a link joins
two full buckets of one home, a bucket has one predecessor and none if it is at
home; all buckets above `lastfree_index1` are full; and where a call is, it
knows what the lines before have found (`Running`): while an entry is being
placed only the entries before it have buckets, so the buckets are not full,
and one of them, at or below `lastfree_index1`, is free. The counting argument
is the theorem on injections between finite sets; each action has a lemma, and
`MoveMidChain` and `Unlink`, which move an entry and redirect links at once,
are the long ones.

Lookups are the second part. That every key is found in the chain of its home
needs, beyond `IInv`, that every full bucket can be reached from its home (`Reachable`), that
no key has two entries, that every entry filed so far has a bucket, and for
each loop that what it looks for is still ahead of it (`Searching`): the
bucket of the key during a lookup, of the predecessor and of the last entry
during a removal. Paths are stated without recursion: `Leads(a, b)` says that
every set of buckets that a is in and no link leads out of has b in it, so a
change of the links is a change of such sets. `Unlink` is the long one again: the
bucket that is emptied is bypassed or filled with its successor, and the last
entry moves into the place of the removed one, all in one step. Then
`EntriesAreFound`: the recursive function of `ChainsComplete` that follows the
links comes, within as many steps as there are buckets, to a set that no link
leads out of, by induction along the walk; the library's induction theorems take
an operator as a parameter, which the provers cannot instantiate, so the lemma
`Induction` draws it from the least counterexample. And
`MapIsTable`: since keys are distinct and lookups complete, answering from a
bucket, or `NotFound`, is the abstract table's answer, and each loop in between
stutters. The last part is that calls end. `Closer` compares three numbers, the
first that changes becoming less: the entries that still wait for a bucket, the
loops still to come for this one, and how far the running loop can go. For the
loops that follow links this is the number of buckets ahead (`Ahead`), which
shrinks because no link leads back (`NoWayBack`): a ring of links would have to
be entered from the home of its entries, and where it is entered a bucket would
have two predecessors.

*TableCowProof*. `OwnedOrMarked` with the types of the structs is inductive:
every way to make a second struct point to a block either marks both or finds
the source marked already, and every write to a marked struct moves it to a
fresh block. `ValueSemantics` follows since a step then changes
a block only if no other cell points to it. So the guards in `Next` are enough
for value semantics with any number of cells, keys, and blocks; section 6
shows that they are needed. For what the tables hold, `Sound` says that the
slots up to the count and the buckets of each cell are inverse to each other.
With it each statement is, on the cell that it names, the operation of
TableValues, insertion order included.

*ArrayCowProof*. In the same way, with more to carry: an array that is not
marked is flat and its free space lies in its block (`FitsIn`), otherwise
insertion in place would write somewhere else; every item it shows was written
(`InBounds` follows); and a running loop has its remaining items where it will
look for them (`LoopInv`), which holds since the loop marks the array, so that
its body must copy before it writes. The lemma `Stored` is what every statement
uses: storing a struct and a block in one cell, under the conditions that the
flags grant, keeps all of it and shows the new sequence there and nowhere else.

*MutexQueueProof*. First the locks: `LocksMatch` with what each label says of
the call a thread is in. From it, mutual exclusion (`Alone`), hence what a thread
has seen stays true while it holds the mutex: `TailKnown` (the tail is still
empty at refill, still begins with the item that was read, is the reverse of the
head before the head is cleared), `ItemsNew` (what is about to be inserted is
nowhere else), `NoRepeats`. `QueueIsChannel`: insertion is a send, pop is a
receive, the rest stutters. `QueueKeepsOrder` is inductive on top of that
(`Ordered`, a fact about three sequences): insertion puts what was sent last
behind everything, and the refill turns the head round when the tail is empty,
so that no step can put a later value before an earlier one of the same batch.
`NeverDeadlocked` reads the order of the two mutexes off `LocksMatch`: who holds
the head mutex waits for nothing, who holds the tail mutex at most for the head
mutex, and who sleeps, has left or was cancelled holds none. `NoCallLoops` is
about the one loop of `try_dequeue`, which looks at the tail again after the
refill: that it finds an item then is `HeadKnown`, since the head was not empty
when the thread looked at it and the thread has held both mutexes since.

*ThreadPoolProof*. That a request is in one place is kept only if ids are new
when they are given out (`PlacesIssued`), a worker has a request exactly at the
labels between taking and delivering it (`RequestsMatch`), and `close` has seen
to all workers before the one that it is at (`ClosingMatches`). `CloseEndsAll`
then reads off the last: it has joined every one of them. A cancelled worker
may take its request with it, and only such a worker can: that is the
exception that `RequestsKept` makes. Before `close` there is none
(`CancelledMatches`), so the request that `run` waits for is queued, with a
worker, or answered (`RunWaitsForItsOwn`), and `Work`, which counts a request
the more steps it still needs, gets less with each step but a nap
(`RunEnds`). Counting workers at a label takes the library's theorems on finite
sets (`WorkerCounts`). `CloseEnds` gives `close` a number of steps of its own,
and the worker that it joins another one.

*RangesProof*. The invariant is the types, `LoopVisits`, and that the loop's
variable is the value visited last. The lemma `NextMember` is the argument that
the comment in loops.c:253 asks to be careful about: if `x` is in the range,
the guard holds exactly when `x + step` is in it too, and then the sum is an
integer of the width. Length, membership and slices need division: after
lemmas about quotients and rests, `LineMembers` says that what a range means is
a line of values, as many as the truncated quotient and one, and `LineSize`
counts them. `ContainsMembers` compares remainders of one sign. For slices,
`AlignedSelects` shows that the value at which the code enters the array
selects the items that `first` selects, forwards and backwards, and
`SliceIsLine` that neither the cap on the length nor the wrapped difference
takes anything away where `CutsWell` holds. A literal without step takes
another way, through integers of 32 bits: `CastFits` says that nothing is cut off
numbers that fit, and `LiteralIsSlice` that it is then the same slice. All
widths of integers, lengths and strides, sizes of items and lengths of arrays
are covered.

*MemoProof*. The size test comes before the call and the store after it, so the
cache alone is not bounded by what the code tests. What is inductive is the sum
of the entries and the calls that run: a call that returns becomes at most one
entry, one that makes room trades an entry for itself, and one that finds room
finds fewer entries than the limit, while, by `Descending`, no more calls run
than the recursion is deep. `CacheRunsOnce`: an argument that the function has
run for is in the cache or still runs, and none that still runs is called
again, since each call has a smaller depth than all below it. `CacheIsRight`: no
block that the cache has was changed, and so no answer was.

*AlgorithmsProof*, units. There is no machine here: `UnitsSpec` asks one question, about any
names, any strings of units and any conversions, and answers it, as the run
Algorithms does for a few. What a recursive function computes is known once it
is known that there is one (`Recursion`), and both this and what it adds up to
are shown by `Induction` on a bounded number, drawn from the least
counterexample. The power of a name is a sum (`Total`), sums of sequences put
together add up (`TotalConcat`), and inverted ones are negative. Sorting: a
finite set of components has an order, the place of each being the number of
those before it (`SortedExists`), so that `make_unit` returns what it was given,
each name once, none with the power zero, in the order of `Before`
(`MakeUnitMakes`), and there is only one such unit for given powers
(`MakeUnitByPowers`). Strings: in a unit all positive powers come before all
negative ones, so the one slash of `unit_to_string` is where the sign changes,
and `unit_from_string` reads the two parts as they were (`StringPowers`,
`ReadsAsWritten`). Conversions: a round adds, as often as the ratio is
multiplied, what the conversion says (`ConvertIs`), and by induction over the
rounds the quantity is the same at the end (`QuantityIsKept`). A name that was
converted has no power left after its round (`ContainedOnce`), and no later
round brings it back where the bases were defined before (`NoNameIsLeft`);
`Limit` is the 999 from which unit_derive starts, and a power beyond it is left
over, which `NoneLeft` excepts.

*AlgorithmsProof*, matches. `Fits`, `Matches`, `Missing`, `IsA` and
`TakesDefault` recur over types, and so does what they are in the proof: a rule
whose answer for a type needs only the answers for types that are nested less
has a solution (`Grounded`: answers that are right up to some depth are made
right one level deeper by applying the rule, and agree as far as they are
right), so that each of the five obeys its own definition. Then, from types to
types nested deeper: if `get_missing_pattern` finds nothing missing, every
value of the type has a clause (`AllAreCovered`). A pointer is null, and one
pattern says so, or what it points to is matched by what the pointer patterns
point to (`PointersCovered`); one pattern of a struct matches all values of each
field it names, and has no default for any other (`StructsCovered`); each
member of a union has a pattern of its own, or its handlers match all that it
holds (`UnionsCovered`). `~TakesDefault` is needed for structs only and excepts
what section 6 describes; `Fits`, that every pattern compiles, is needed because
`get_missing_pattern` counts a pattern for what a member holds even if the
member holds nothing.

Only model-checked:

- the liveness properties, `CallsReturn` of HashMap and ThreadPool,
  `EnqueueReturns`, `Delivered` and `JumpsEnd`: fairness and ENABLED are out of
  the prover's reach. For all but `JumpsEnd` the theorems named above prove what
  fairness is applied to;
- `Agree` of Control, and the other algorithms, `TypesAgree`, `ValuesFit`,
  `MathAgrees`, `PromisesKept`, `FilesLoad` and `ReadsBack`: their operators are
  recursive as the code is, over trees of types, expressions and statements, and
  the prover does not reason about recursive operators. (A recursive *function*,
  as in Units and, on a set of types that is given, in Match, it does, once there
  is a proof that the function exists.)

## 6. Where the code and its documentation disagree

Two runs expect a violation, each of a promise of the repository's docs:

| Run | Promise | What happens |
|---|---|---|
| TableSlots | README.md:46-47 (memory safety) | after a copy the entries have `count + 1` slots and the old capacity, hashmap.c:70: the second insertion writes behind them |
| Cleanup | README.md:70 (`defer` is "safe, automatic cleanup") | `v := p or skip`, or `stop`, behind a `defer`: the exit takes what was deferred off `env->deferred` (expr.c:2010), with the environment of the code after it (expr.c:1722); where `p` is not null the block ends without the deferred code |

Cleanup checks `CleansUp`, that a block runs what is deferred in it before the
program goes on, for the programs `LosingPrograms` of MCControl. `return` and
`fail` in that place lose nothing: a return works on a scope of its own (expr.c:644),
a failure runs no defers; the run Control has both.

Further deviations were met on the way; the passing runs exclude them by a
guard or an exception that has a name (section 3).

*Shared storage.* `sss_hashmap_remove` clears the copy-on-write flag and copies
nothing, so that a copy of the table loses the key, too (hashmap.c:253,
`SpecRemove`). A slice marks a local copy of the struct, so that the next write
to the array shows in the slice (arrays.c:213, `SpecSlice`). Insertion before
the end, in place, loses the last item (utils.c:328, `SpecInsert`).
`x := p[]` does not mark the table or array (expr.c:1394 with 322); `p[] = x`
stores an unmarked literal (expr.c:366); a loop over `p[]` does not mark it
(loops.c:109); a loop reads the stride again at each step (loops.c:168);
removal of more than one item moves too much, and behind the block
(utils.c:382); copying for insertion and removal flattens the items and keeps
the stride (utils.c:326). A result that a memoized function returns is shared
with its cache and not marked (functions.c:139, `Writes = TRUE`); its cache
outgrows its limit when the function is recursive.

*Ranges.* A slice with a step of an array that has a stride starts at the wrong
item (utils.c:275), and a stride of more than 16 bits is cut; a stepped slice
whose last item lies behind the array reads behind it, as `[2..10 by 2]` of
five items (utils.c:269); a slice without step that begins behind its end has a
negative length (arrays.c:269), and its bounds keep their low 32 bits, so that
`a[-4294967290..3]` begins at the sixth item (arrays.c:231, 260; `FitsLength`
names the others); an empty range with a step has length 1, as
`5..4 by 2` (ranges.c:62); membership compares remainders that truncate, so
that `-1..5 by 2` does not contain 1 (ranges.c:104).

*Control flow.* `stop` in the `else` of a `do` leads to that `else` again;
`skip` in a `while` or `repeat` passes over `between`, which Meaning follows
(loops.c:453); what is deferred inside a conditional may stay in the list of
the code after it (`env->deferred`), and where `v := p or skip` stands in a nested
block, what the enclosing ones deferred runs at the end of that block
(blocks.c:384).

*Types and values.* `if c then fail else q` is typed as never null though `q`
may be (types.c:257-258), and so are matches and `do` with `else` of that form;
a `do` with a value and without `else` may be left without one, as may one with
`else` whose body has no value; `and` and `or` of references to the stack may be
typed as memory of the heap; a pattern may hide a name with another type (all of
these are `Odd`); a read-only pointer is forgotten by the common type
and by promotion (types.c:223-241); units of equal precision are dropped; Int8
and UInt32 have Int16 in common; names for types with heap memory have none
(types.c:418). A pattern that leaves out a field with a default is taken to
match all of its values. Bitwise updates ignore units (math.c:332-335). Tables
with a common fallback, or a default on one side, can be equal one way round
only (hashmap.c:351-377); NaN inside of structs and arrays is equal to itself
(features.md:56-60 says it is not); arrays in nested structs or behind names,
and padding, are hashed as memory (hashing.c:59), and so are numbers and their
arrays (hashing.c:160, 187-194): `0.0` and `-0.0`, or `[0.0]` and `[-0.0]`, are equal
and different keys of a table, against features.md:14-15 and tables.md:142.
`Hashed` and `Ordinary` except these.

*Files and text.* In a function a global name hides the one that the file
declares (environment.c:533-541); a second bare `use` of names that a third
file gave to both is refused; a name of a module may be read above its `use`,
before it has a value; `use` in a nested block loses definitions of units
(blocks.c:42-50). `n+1..` is read as `n + (1..)`, `..n+1` as `(..n) + 1`,
`a..b by 2 by 3` drops the 2; a loop in the line after a `repeat` becomes its
suffix (parse.c:1145); `unless` finds its `else` on the same line only (944);
`while c do` reads a `do` block (1160); `do x()` takes `x` for a label (1022);
`for` with `first` and without `then` takes the next line for its body; two
statements on one line need no `;`.

*Threads.* Two threads that share a pool race on `next_request_id` and
`completed`, which nothing protects (threadpool.sss:24).

## 7. Not modelled

libgccjit, the Boehm collector, pthreads and liblfds are external; the models
use that unreachable blocks are reused, that a mutex has one holder, and that
deferred cancellation acts at `usleep`. The driver, printing, strings, base64
and the compiler's own lists are text, I/O and growing buffers, without state
that outlives a call: tests reach them better than a model that would have to
put strings together letter by letter. The thread pool is modelled for one
owner. Memory that is scanned by the collector or not (arrays.c:185), the
widths of array fields, and slices with a step of arrays that have a stride
(beyond ArrayCow's whole items) are abstracted.

Within modelled components: assignments to a field of a value in a table,
`p[k].f = v` (helpers.c:660-667), and the arrays `.keys` and `.values` that share
the slots of a table (expr.c:1281-1330) in TableCow; comprehensions, loops over
tables, and the copies of the local variables that a `defer` makes
(expr.c:554-570) in Control;
function types, type expressions and the inference of literals in Types and
Typecheck; bitwise operations, powers and shifts in Arithmetic (gcc's and
libm's), and what evaluating an operand with side effects once for each item
does; the scopes of blocks, closures and type definitions in Modules; literals,
calls, type and function definitions in Parser, where a number stands for any
term that has a syntax of its own.

## 8. Plan

In this order; the first twelve are done.

1. Hash map: HashMap, Table, HashMapProof.
2. Tables and arrays as shared storage: TableCow, ArrayCow, TableCowProof.
3. Queue and pool: MutexQueue, Channel, ThreadPool, MutexQueueProof.
4. Runs of these, with a mutant for each property.
5. Ranges: literals, loops, length, membership, slices; RangesProof.
6. Control flow: Meaning, Control.
7. Memoized functions: MemoCache, MemoProof.
8. Types: Types, Typecheck, Match, Arithmetic, Units.
9. Comparison and hashing: ValueSemantics.
10. Files: Modules.
11. Text: Parser, Layout.
12. Proofs of all machines but Control: ArrayCowProof, ThreadPoolProof, and the
    second parts of HashMapProof, TableCowProof, MutexQueueProof, MemoProof and
    RangesProof; that calls end; AlgorithmsProof.
13. Candidates for models: printing of recursive values, type definitions and
    closures in Modules, calls and literals in Parser.
