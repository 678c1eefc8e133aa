# Verification of sysprg

TLA+ models, TLC runs and TLAPS proofs about *sysprg*, a collection of systems
programming exercises and experiments in C. The repository is not one system but
many small programs. This project models the ones in which threads or processes
share state, because that is where the code is hard to test, and the sequential
ones that keep enough state to get it wrong. Section 7 lists the rest with the
reasons why it is left out.

All paths below are relative to the repository.

## 1. Inventory

| Component | State | Operations | What is hard | What makes it correct | Modules |
|---|---|---|---|---|---|
| `concurrency/threads-cv` | ring `buffer`, `use_ptr`, `fill_ptr`, `num_full`; mutex `m`; one or two condition variables | `producer`, `consumer`, `main`, `do_fill`, `do_get` | lost, stolen and spurious wake-ups; end of stream; races in one version | the ring is consistent, nobody overwrites or takes an empty slot, nobody waits for ever, every item reaches a consumer | ProducerConsumer, StreamQueue, TwoCvsExtraUnlock, StreamQueueProofs, ProducerConsumerProofs |
| `concurrency/threads-bugs` | a mutex and 100 elements per vector; one global mutex | `worker` and five versions of `vector_add` | lock order, hold and wait, back-off, additions without locks | no deadlock but the invited one, no addition lost, additions atomic | VectorArgs, VectorAdd, AtomicVectorAdd, VectorAddProofs |
| `concurrency/threads-sema`, reader-writer | two semaphores, `readers`, `value` | acquire and release for reading and for writing | one semaphore waited for while the other is held | a writer is alone, nobody waits for ever | RwLock, RwLockProofs |
| `concurrency/threads-sema`, barrier | two semaphores, `players` | `barrier` | who opens the barrier | nobody leaves before all have arrived | Barrier |
| `concurrency/threads-locks`, counter | global and per-CPU counts, a lock for each | `update`, `get` | a count moves from one place to another under two locks | nothing is lost or counted twice, the lag is bounded | ApproxCounter, ThreadsLocksProofs |
| `concurrency/threads-locks`, queue | linked list, a lock for the head and one for the tail | `Queue_Enqueue`, `Queue_Dequeue` | the two locks do not exclude each other; `free` after the unlock | a FIFO queue, no use of freed memory, no leak | ConcQueue, ThreadsLocksProofs |
| `concurrency/threads-locks`, list and hash table | a list and a lock per bucket | `Hash_Insert`, `Hash_Lookup`, `List_*` | `malloc` may fail, insertions race | a lookup finds what was inserted before it | ConcHash, ThreadsLocksProofs |
| `concurrency/threads-api` | two or three mutexes; a flag; a condition variable; a balance | `worker`, `signal_wait`, `signal_done` | lock order, polling, a signal before the wait | a program stops only when its work is done | ThreadsApi, ThreadsLocksProofs |
| `ostep-projects/simpleTCP` | a connection, a buffer at each end | `chatfun` and the end of server and client | messages cut by the stream, a closed peer, results of `read` ignored | the two never both wait | TcpChat, ProgramsProofs |
| `directexec/cntxtsw` | two pipes with their ends, two processes | the calls on pipes of `main` | each waits for the other; one is killed | nobody waits for a message nobody will send | CntxtSw, CntxtSwProofs |
| `process_api`, fork, exec, wait, redirection | processes, descriptors, offsets, buffered output | `fork`, `exec`, `wait`, `open` | order of parent and child, output copied by `fork` and dropped by `exec` | the output is what the order of the calls says, nothing is overwritten | ForkExec, ProgramsProofs |
| `process_api/callexec2` | a file, an array of numbers | the child `numgen.py`; `readints`, `qsort`, `binsearch` | stale or incomplete file, end of file, a comparison that never says less; a set larger than the array | the report is true of the numbers read; whether the whole set is searched | NumSearch, ProgramsProofs |
| `ostep-projects/process-shell` | argument array | `indexpath`, `main` | children whose exec fails go on in the parent's code | nothing is overwritten | ForkExec (`indexpath` only) |
| `ostep-projects/initial-utilities/wzip` | the run in hand, the last character | `procfiles`, `readlines` | a run that crosses lines or files | decoding gives the input back | Wzip, ProgramsProofs |
| `datastructures/vector` | size, number of items, memory | `push_vector`, `pop_vector`, `free_vector` | growth of the memory | every write in bounds | Vector |
| `threads-cv` tracing, `threads-sema` skeletons, wcat, wgrep, wunzip, measurement, process, prstrexec, cdecl, memory, stat, tester | | | | | not modelled, section 7 |

How they interact: the programs do not call one another, except that
`callexec2.c` runs `numgen.py` in a child and reads its file. Inside one program
the threads interact through the shared variables in the second column; `main()`
creates and joins them. Processes interact through pipes, sockets, files and `wait`. `conchsh.h` calls the functions of `concllist.h`. In
threads-cv and threads-bugs all programs of the directory include the same
`main-common.c`, and all use the wrappers of `common_threads.h`, which assert
that the call of the library succeeds.

The hazards, with the line where each one bites and the properties that watch
over it, are in `PROJECT.json` under `hazards`.

## 2. How the code is modelled

**Threads.** `pc[t]` says where thread `t` is, under the name of the statement
that comes next. A step of a model is one access to shared state, or one call of
a mutex, semaphore or condition variable. Where all accesses of a stretch of code
happen under one mutex, the stretch may be one step: `do_fill` and `do_get` are
single steps in ProducerConsumer, where the mutex is held, and are split into
eight steps in TwoCvsExtraUnlock, where it is not.

**Mutexes and semaphores.** A lock is the set of the threads that hold it, none
or one; a semaphore is a number. Who gets a contended lock is open.

**Condition variables.** `waiting[cv]` is the set of the threads asleep on `cv`.
`Cond_wait` gives the mutex up and falls asleep in one step; `Cond_signal` wakes
any one of the sleepers, or nobody; waking up takes another step, which needs the
mutex, so that other threads can come in between. `SpuriousWakeup` is the wake-up
without a signal that POSIX allows, at most `MaxSpurious` times.

**Memory.** Accesses are atomic and happen in one order that all threads agree
on. Every stretch that other threads could notice is under a lock in the correct
programs, which makes this exact. There are three exceptions. The two pointers of
`concqueue.h` that one side reads and the other writes (`next` of the dummy), and
the source elements of `vector-nolock.c`, are aligned words, which the machine the
programs are written for (`lock; xaddl`) reads and writes whole. In
`main-two-cvs-while-extra-unlock.c` the ring is accessed without the lock, and the
model interleaves single loads and stores; the build uses no optimisation, and a
weaker memory could only add more behaviours to the one that is shown to be wrong.

**Printing** and the pauses of threads-cv change no shared state and are left
out: every interleaving that a pause could provoke is explored without it. What is
printed is modelled where its order is the point, in ThreadsApi and ForkExec: a
line is a value, and its wording is left out.

**Processes.** A step is one system call of one process, with what the kernel does
in it: the end of a process closes what it has open, a child shares the offsets of
the files it inherits, a read from a pipe returns when nobody has its other end open.
A process may be killed at any time where somebody waits for it (CntxtSw, TcpChat,
NumSearch), and `fork`, `exec`, `accept` and `open` may fail where the code goes on
after it. An `open` in place of stdout that fails leaves no descriptor, and what is printed then is
lost (`closed` in ForkExec).

**Text that does not compile.** The files of threads-locks have typing errors
(`pthreads.h`, `note_t`, `hast_t`, `L->lock` for `&L->lock`) and are included by no
program. The models take the evident reading of those lines. Their callers are
any number of threads that make any of the calls.

## 3. Modules

### threads-cv

* **ProducerConsumer** is the ring of `pc-header.h`, `main()` of `main-common.c`,
  and `producer()` and `consumer()` of three of the four programs, which differ in
  two constants: `fill_cv = empty_cv` is `main-one-cv-while.c`, and
  `after_wait = "op"`, where a thread that wakes up goes on without another test,
  is `main-two-cvs-if.c`. `Lock`, `Sleep`, `Wake`, `Pass`, `Fill` or `Get`,
  `Signal` and `ProducerUnlock` or `ConsumerUnlock` are the statements of a loop
  in their order. `main()` is a thread, too: it creates and joins the others and
  follows the same protocol to store the end-of-stream markers. A failed
  `ensure()` stops the program (`status = "failed"`).
* **StreamQueue** is what the program promises: a bounded FIFO queue, and one
  end-of-stream marker per consumer behind the last item. ProducerConsumer
  implements it under a refinement mapping: the queue is the `num_full` slots from
  `use_ptr` on, and an item counts as sent from its `do_fill` on.
* **TwoCvsExtraUnlock** extends ProducerConsumer with the fourth program, in which
  `do_fill` and `do_get` run without the mutex. Each thread has a register `reg`
  for the value it read last.
* **MCProducerConsumer** adds a property that sums over the consumers.
* **StreamQueueProofs** and **ProducerConsumerProofs** hold the proofs, and
  **RecursionTheorems** the facts they and the proofs below use about functions
  defined by recursion, induction, and sums over finite sets.

### threads-bugs

* **VectorArgs** is what the command line decides: `opt` holds the program and its
  flags `-d` and `-p`, chosen in the initial state and never changed, and
  `v_dst(t)` and `v_src(t)` are the vectors that `main()` gives to thread `t`.
* **VectorAdd** is `worker()` with the five versions of `vector_add()`. An element
  is added in two steps, a read of both vectors and a write of the sum;
  `vector-nolock.c` reads the source in one step and does its fetch-and-add in
  another. The spinning on `pthread_mutex_trylock` for the destination is a wait.
* **AtomicVectorAdd** is the promise: a call adds whole vectors in one step.
* **VectorAddProofs** holds the proofs.

Left out: the counter of retries in `vector-try-wait.c`, which has a data race of
its own and is only printed, the overflow of elements, and the branch of
`vector-global-order.c` for a vector that is added to itself, which `main()` never asks for.

### threads-sema

* **RwLock** is `reader-writer.c`, and `reader-writer-nostarve.c`, which differs by
  one `printf`. `value++` is a read and a write. It is run by **MCThreadsLocks**, and
  **RwLockProofs** holds its proofs.
* **Barrier** is `barrier.c`. Its `sleep(1)` may take any time.

### threads-locks

* **ApproxCounter**, **ConcQueue** and **ConcHash**, with **MCThreadsLocks**, which
  runs one of the three, RwLock or ThreadsApi per behaviour. In ConcQueue nodes are memory: `malloc` hands out
  any free node, `free` gives it back, a freed node is handed out again, and every
  use of a pointer checks that its node is allocated. With none left the code aborts in
  `assert(tmp != NULL)`; the model has an enqueuer that goes no further, with no lock held. `Behind` follows the `next`
  pointers from the dummy, and `contents`, the values on the way, is the queue that
  a FIFO queue would have. In ConcHash no node changes
  after it has been linked, so that a pointer is the sequence of keys that can be
  reached from it. **ThreadsLocksProofs** holds the proofs of all three
  and of ThreadsApi.

### threads-api

* **ThreadsApi** holds the five programs as tables (`deadlock`, `deadlock_global`,
  `race`, `signal`, `signal_cv`): the calls that each of their two threads has still to
  do. One action per kind of call executes them: `Mutex_lock`, `Cond_signal`,
  `TestDone` and `Relock` for the loop around `pthread_cond_wait`, `Poll` for the
  loop without one. `balance++` is a read and a write. When `main()` of a signal
  program returns the process ends (`Exited`).

### Programs made of processes

* **CntxtSw** is `cntxtsw.c`: `Round` lists the calls of both processes, `ip` says
  which one each is at, `open` the ends of the pipes that are open. All messages
  are alike, and `pipe` counts them. `Kill` ends either process anywhere.
* **TcpChat** is the chat of `TCPserver.c` and `TCPclient.c`. A message of the code is
  a whole buffer and `read` may return a part of it; a message of the model is two
  halves, of which a `read` takes one or two. That is the least that can be cut,
  and what the properties tell apart: the code does not look at the number of bytes. A line
  is "exit" or anything else, and fits the buffer. `ServerEnd` and `ClientEnd` are both
  the end after "exit" and an interrupt at any time.
* **ForkExec** is a machine for lists of calls, with the exercises of `process_api` and
  `indexpath()` of the shell as the lists. It keeps what makes their output surprising:
  what stdio has not written yet is copied by `fork` (`buffer`), the offset of a file is
  shared by those that inherit it (`fd`, `offset`), and `exec` drops the buffer. `tty`
  says whether stdout is a terminal, in which case each line is written at once.
* **NumSearch** is `callexec2.c` with `numgen.py`. `readints` stores the last number
  again at the end of the file, as the `fscanf` loop does. `cmpfunc` never says less, so that the
  result is up to the C library, `asks`: one that asks whether the left of two elements is
  "greater", as the merge sort of the GNU library does (`qsort`), orders the numbers, and one that
  asks whether the right one is "less", as an insertion sort may, moves none.
  `binsearch` is the loop of the code.
  `merge`, `qsort` and the loop of `binsearch` are recursive functions.
* **MCPrograms** runs one of these four, or Wzip, per behaviour. **MCTexts** runs ThreadsApi,
  ForkExec and NumSearch side by side. **CntxtSwProofs** and
  **ProgramsProofs** hold the proofs about them.

### wzip and vector

* **Wzip** reads one character per step. `Scan` is the body of the loops of
  `readlines`, made of the code's own functions (`isNewChar`, `isRepeatChar`,
  `updateTokenCount`, ...) on the record of the state they change. `token` and `out` outlive
  a file, `lstch` does not: that is the point of the module.
* **Vector** has the sizes of `vector.c`, without the elements, under the calls of its `main()`.

## 4. Runs

| Run | Bounds | Question and answer |
|---|---|---|
| `two_cvs_while` | 2 producers, 2 consumers, 2 items each, ring of 2, 1 spurious wake-up | Is the program that is meant to be correct correct? The ring is consistent, `ensure()` holds, nobody is stuck, all items are taken, the counts `main()` prints add up, and every step is a step of StreamQueue. Does it terminate? Yes, and it keeps the queue moving. |
| `one_cv_while` | 1 producer, 2 consumers, ring of 1 | Does one condition variable do? No: a consumer's signal may reach the other consumer. |
| `two_cvs_if` | 1 producer, 2 consumers, ring of 1 | Does one test do? No: another consumer may be faster than the one that was woken. |
| `two_cvs_extra_unlock` | 1 producer, 1 consumer, 3 items, ring of 2 | May the operation run without the mutex? No: `num_full++` and `num_full--` lose an update. |
| `vector_add` | 5 programs, all flags, 3 threads, 2 calls, 2 elements | Which programs can deadlock, lose an addition, mix vectors, or run for ever? See below. |
| `rwlock_stuck` | 2 readers, 1 writer, 1 round | Does everybody finish? No: the last reader waits where its comment says it releases. |
| `barrier` | 2 children | Does the barrier hold everybody until all have arrived? No. |
| `threads_locks` | counter: 3 threads on 2 CPUs, threshold 3, amounts 1 and 2, 1 reader; queue: 2 enqueuers, 2 dequeuers, 3 values, 3 nodes; table: 3 callers, 3 keys in 2 buckets, 2 insertions; reader-writer lock: 3 readers, 2 writers, 2 rounds; all 5 programs of threads-api | Do the three structures keep what they promise? Yes. Does the lock keep writers apart from everybody? Yes, up to where it gets stuck. Do the programs of threads-api stop before their work is done? Only `main-deadlock.c`, with each thread holding the mutex that the other one waits for. |
| `programs` | pipes: 3 rounds; chat: 4 lines at each side; all programs of ForkExec, the 4 directories of `indexpath()`, 16 processes; file: 5 numbers out of 3, 4 are read; wzip: one file of up to 6 characters, 2 letters and the end of line | Can two processes wait for each other? No. Does `wait` make the output deterministic? Yes, but it depends on whether stdout is a terminal. Is output to a shared file lost? No. Is what the search reports true? Of the numbers read, yes; that a number is not there, if the library puts them in order. Of the whole set, see `texts`. Does one file unzip to what it was? Yes. |
| `texts` | `main-race.c`, `callexec.c` and `callexec2.c` side by side, the last with 3 numbers, 2 of which are read, and a library that asks for "greater" | Are they what their own comments say? None of them: one state refutes all three. |
| `wzip_files` | 2 files of up to 2 characters | And two files? No: the first character of the second is counted as one more of the last of the first. |
| `vector_overrun` | the calls of `main()` | Does the memory of the vector grow with it? Once: the last push is written past it. |

**Why the bounds are enough.** Every hazard named for a component occurs within
them. Two producers and two consumers let a wake-up go to the wrong one or be
overtaken, two items each fill the ring and leave producers waiting, and two slots
make the pointers wrap. A third thread in `vector_add` waits for a lock
while two others are in conflict, and two threads share a parity; two elements are
enough for half an addition, two calls for a second conflict after a first. Three
threads on two CPUs let two threads share a CPU while one does not; the amount 2
passes the threshold without meeting it. With three nodes for a dummy and three
values, memory that was freed is used again while another thread is inside a call.
Three keys in two buckets put two in one. The reader-writer lock also reaches the
state in which everybody is stuck, and its behaviours end there; safety is
checked on the way to it, with writers before readers and against them; no writer can
run after a group of readers, which is what the run `rwlock_stuck` shows.
The programs of threads-api have no bounds but their own text. In `cntxtsw.c` the
second and the third round differ from the first, where the ends are still open. Four lines at each
side let a message be answered twice, a side end, and the other one go on. The programs
of ForkExec run whole: 4 directories are those of `indexpath()`, and with every `exec` failing
they make 16 processes. Five
numbers are one more than are read (in the code 100 and 64), and any file with fewer is found when the child
is killed. Six characters hold a run in front of, across and after the end of a line,
empty lines, and a run that ends inside a line.

**Deadlock checking** is off in all runs: every program ends, and the structures
run out of their bounded calls. That no thread is left waiting is stated instead:
`NeverStuck`, `DeadlockFree`, `StopsOnlyWhenDone`, `NobodyWaitsInVain` and
`NeverBothReading` say who waits for what, and `Termination` says the
programs end.

**What `vector_add` shows.** `DeadlockFree` excepts one case, `InvitesDeadlock`:
`vector-deadlock.c` with `-d` and without `-p`, which the directory's README calls
an invitation to deadlock. `Termination` excepts it as well, and
`vector-try-wait.c` with the same flags, in which two threads can back off from each
other for ever. `ImplementsAtomicAdd` excepts `vector-nolock.c` with these flags:
an addition then reads a source that is half updated, the "slightly different"
semantics of the README. Without `-d` it loses nothing either (`NoLostAdd`).
The exceptions are as small as can be: without any one of them the run fails.
The mapping of `ImplementsAtomicAdd` shows one element, the first; that the others are added
with it is what `WholeVectors` and `NoLostAdd` say.

**Violations.** `one_cv_while`, `two_cvs_if`, `two_cvs_extra_unlock`,
`rwlock_stuck`, `barrier`, `wzip_files`, `vector_overrun` and `texts` each end in a counterexample; `PROJECT.json` says
under `findings` which line of the repository each contradicts. The README of
threads-cv announces that most of its programs are incorrect; the runs show how.
The two of threads-sema are mistakes in solutions to exercises: a `sem_wait` in
place of a `sem_post`, and a counter that starts at 0 and is counted down.
In `wzip.c` the token that is carried over to the next file is not compared with its first character; in
`vector.c` the vector's size is not updated when its memory grows.

**What `texts` shows.** Three programs whose own texts say what the code does not do, next to
properties of the passing runs that say what it does:

* `main-race.c:22` and `:36` call the increments "unprotected access", and the README of threads-api
  the program "a simple race condition". The code has the mutex that these miss: no increment is
  lost (`StopsOnlyWhenDone`), and `UnprotectedAccess` is false.
* `callexec.c:2` says, as `callingfork.c:2` does, that "a call to fork produces indeterminate behavior".
  Of `callingfork.c` this is true. The parent of `callexec.c` waits for its child before it prints, which
  makes the output the same in every interleaving (`WaitMakesDeterministic`); `EitherNext` is false.
* `callexec2.c:5` says that the parent "checks that the set contains a specific number", and its README
  agrees. The child writes 100 numbers and the parent reads 64: what it reports is true of these
  (`ReportTrue`), and `WholeSetSearched` is false. `SetThatFitsIsSearched` (section 6) says that
  with as many numbers as are read it would be true.

The programs share nothing and run side by side, so that `SomeTextIsRight`, the disjunction of the three,
is violated by a state in which each is false.

**Mutants.** For every property of a passing run, `PROJECT.json` names a
variant of one definition (`Mutex_lock_unguarded`, `FirstLock_dst`,
`Free_none`, ...) that stands for a plausible mistake in the code, and with which
TLC finds that property violated.

## 5. Fairness

Liveness is checked under weak fairness of each thread: a thread that stays able
to take a step takes one. This is what a scheduler that runs every runnable thread
gives. Nothing is assumed about contention: a thread that waits for a mutex is not
able to run while another one has it, so it may be overtaken any number of times,
and strong fairness, which would exclude that, is not used. The programs terminate
nevertheless, because every thread makes a bounded number of calls. Spurious
wake-ups are never assumed to happen.

## 6. Proofs

TLC covers the instances above. TLAPS proves the following for every value of the
constants that the assumptions admit. All invariants of the passing runs are
among it, and all action properties; the last paragraph says what is not.

**Assumptions.** Three kinds, none of which relates numbers that the code does not relate.

* Named assumptions of the models. `ArgsAssumption` (ProducerConsumer) is what `main()`
  asserts, `loops > 0` and `max > 0`, and that the numbers of threads are natural numbers;
  it does not relate `fill_cv` to `empty_cv`. `VectorArgsAssumption` and
  `SizeAssumption` say that thread numbers, calls and elements are natural numbers,
  with at least one element, and that the programs are among the five.
  `RwAssumption` says that readers and writers are finitely many, nobody is both,
  and `loops` is a natural number.
* Which program a theorem is about: `after_wait = "test"` are the two programs with a
  `while` loop around `Cond_wait`, `fill_cv # empty_cv` the one with two condition
  variables. `EnsureArgs` says that threads test again, or that there are at most one producer
  and one consumer and no spurious wake-ups: the case that the README of threads-cv
  begins with. TLC has a counterexample for each of the three when
  it is dropped (for a second consumer it is the run `two_cvs_if`).
  `OneOfEachNeverDeadlocks` asks besides for `consumers = 1`.
  `consumers > 0` excludes `-c 0`, for which `ExitComplete` and
  `CountsAddUp` are false: `main()` asserts nothing about it, producers that do not
  fill the ring end, and nobody takes their items (a hazard in `PROJECT.json`).
* Hypotheses of single theorems, for models that share one MC module. `HashArgs`: there is
  a bucket and keys are natural numbers. `QueueArgs`: `NULL` is no node and no thread of
  the model is both an enqueuer and a dequeuer. `FifoArgs`: besides, memory is finite
  and calls are counted. `CounterArgs`: there is a CPU, threads are numbered, amounts are not
  negative, and no thread of the model calls both `update` and `get`. `LagsBounded` asks
  for a threshold of 1 at least: with 0 a count is transferred at once, and the
  lag is not below the threshold. `ApiArgs`: the programs are among the five.
  `ZipArgs`: NUL is no letter. `ForkArgs`: the
  programs are the seven lists of calls; `WaitArgs`: besides, the bound on processes leaves
  room for a child. `SearchArgs`: the child draws natural numbers, as
  `numgen.py` does from 0 up, and the lucky number, 47 in the code, is not 0, which an empty
  file is read as. StreamQueue has the assumptions of ProducerConsumer (`SArgs`). CntxtSw
  and TcpChat need none.

**ProducerConsumerProofs.** The invariant `IInv` has these parts. `MutexHeld`: a
thread between its `Mutex_lock` and its `Mutex_unlock`, and not in `Cond_wait`, is
the only one that has the mutex. `Tested`: a thread that tests again after
`Cond_wait` and stands before its operation would not have to wait; this is
inductive because only the holder of the mutex changes `num_full`. `ItemsLeft` and
`NotYetCreated` bound the loop counters, which keeps the values stored in the type
of items. `RingConsistent` ties `num_full` and the pointers to the slots. None is
inductive alone: `ensure()` holds because of `Tested` and `RingConsistent`, the
ring stays consistent because each step changes it under the mutex, and `num_full` stays in
`0 .. max` because `ensure()` found the slot it needs. The arithmetic of the ring
is in lemmas of its own (`OffsetInjective`, `OffsetFromNext`, ...).

* `TypeCorrect`: the types, for all three programs.
* `RingSafe`: `RingConsistent`, for all three programs, `main-two-cvs-if.c` included,
  where `ensure()` stops the program before the ring is damaged.
* `EnsureHolds`: `ensure()` never fails in the programs that test again, by `Tested`; and
  with one producer and one consumer it does not in `main-two-cvs-if.c`, by `Finds`: a
  thread that has been woken, or has tested, finds the room or the entry it is for. Three
  facts (`PairInv`) make that inductive. `main()` fills only after the producer has ended, so
  that at most one thread of a kind is past its lock. The one a signal wakes therefore is of
  the other kind, and the signal follows the operation that made its room. And nobody else of
  its kind can take the room before it wakes.

The theorems below down to `CountsComplete` hold wherever `EnsureHolds` does (`EnsureArgs`).
`CtlInv` adds where the threads are: `ThreadLabels`, `Returned`, `EndsOnMarker` and
`MainProgress`, that is what `main()` has created, joined and stored.

* `RefinesQueue`: the programs implement StreamQueue. `do_fill` is
  `Put` or `PutEos`, `do_get` is `Take`, and
  all other steps leave the queue as it is (`MainProgress` shows that `main()` stores markers
  only after the producers have ended).
* `EosStaysLast`, `OneMarkerEach`: `EosLast` and `OneMarkerPerConsumer`. They are proved of
  StreamQueue and carried over. **StreamQueueProofs** has the invariant `SInv` for it: the last
  `e` entries are markers and no others (`LastAreMarkers`), every marker is one of
  them or has ended a consumer, and when one has ended a consumer nothing else is
  left (`MarkersBehindItems`, `MarkersCounted`).
* `ExitsComplete`: `ExitComplete`. `Conserved`: an item has been stored iff it has been
  taken or is in the queue.
* `CountsComplete`: `CountsAddUp`. `Balance` is the same as an equation of sums over producers
  and consumers.
* `NeverDeadlocks`: `NeverStuck`, for the program with two condition variables. The
  invariant is `NoLostWakeup`: while a thread sleeps on a condition variable, the free slots
  (or entries) it waits for are at most as many as the threads that are awake and will use
  them, or are about to signal. A signal to one thread is as good as a broadcast because
  every thread that is woken either uses a slot and signals the other side, or finds
  its slot taken by one that does. With one condition variable this fails
  where the sleeper that is woken is of the wrong kind (`one_cv_while`).
* `OneOfEachNeverDeadlocks`: `NeverStuck` for one consumer and at most one producer, also with
  one condition variable. By `PairInv` a thread asleep has to wait still, or the other one is
  about to signal; if all wait, the ring is full and empty at once.
* `WorkGoesDown`: `Work`, a natural number, is lower after every step of the three
  programs, for all arguments. A thread has left so many entries to store (`FillsLeft`), so
  many threads to join (`JoinsLeft`), and the rest of its iteration (`Stage`). Falling asleep
  lowers its stage, and a signal may raise it again, but by less than the signal itself costs;
  an entry costs more than the iteration that takes it. So none of the programs can
  run for ever, not even by waking up in vain. With `NeverDeadlocks` and
  `EnsureHolds` this is all of termination that can be said without `ENABLED`: while
  `main-two-cvs-while.c` runs some thread is not blocked, and whichever thread goes on, the
  work gets less.

**VectorAddProofs.** `LockHeld` says of every vector that its lock is held by
exactly the threads that hold it according to their label (`Holds`), `Exclusive`
that this is at most one, and `GlobalHeld` the same of the global lock. With
`Labels`, which labels belong to which program, and `CallsLeft` they are inductive.

* `TypeCorrect`: the types, which no run repeats.
* `NeverDeadlocks`: `DeadlockFree`. If everybody waits, the only threads with a
  lock wait for their second one, which is the first lock of a thread in the same
  place. `NoCycle` excludes this for the lock orders, by the vectors that `main()`
  hands out, and the global lock excludes it where it is used; nobody
  waits for a second lock in `vector-try-wait.c`. So nobody has a lock, and
  nobody waits for one.
* `AddsWholeVectors`: `WholeVectors`, from a second invariant, `Whole`: a vector is
  uniform unless it is the destination of a thread in its addition, and in that
  one the elements below `k[t]` are those above plus the source (`Partial`).
* `AddsAtomically`: `ImplementsAtomicAdd`, all programs but the exceptions of section 4
  add whole vectors at once. The addition takes effect with its last element;
  `SourcesKept` says that without `-d` the source of `vector-nolock.c` has not changed between
  its read and its fetch-and-add.
* `LosesNoAdd`: `NoLostAdd`. Every element is the sum of the calls that have passed it,
  thread by thread (`Done`), in whatever order the threads come.
* `WorkGoesDown`: `Work`, the steps that the calls of all threads may still take, is lower after
  every step but `BackOff`, which only `vector-try-wait.c` does. With `NeverDeadlocks`,
  the other programs end however their threads are scheduled, the invitation to
  deadlock excepted.

**RwLockProofs.** `LockHeld`: one reader at most is inside the two sections under `lock`.
`ReadersCounted`: `readers` is the number of those between its increment and its
decrement. `WriteHeld`: `writelock` is down while a writer writes, or a reader is in the
group that the first one took it for. A reader who finds `readers # 0` joins
that group because the others counted are past the first one's wait, which
happens under `lock`: this is where the three parts need each other.

* `AWriterIsAlone`: `OneWriterOrManyReaders`. That the last reader waits where
  it should post costs progress, never safety.
* `NoWriteLost`: `WritesCounted`. `CountInv` adds that `value` is the number of increments
  that have been stored, and that what a writer has read is `value` until it stores.

**ThreadsLocksProofs.** Each structure has an invariant of its own, which the steps of the
others leave alone.

* `LookupsCorrect`: `LookupCorrect`. `HashInv` says that between the lock and the unlock of a
  bucket its list does not change under a thread (`BucketHeld`, `NextIsHead`), that what has been
  inserted stays in its list, and that a key that has to be found is still ahead of
  the lookup (`StillAhead`).
* `UsesNoFreedNode`: `NoUseAfterFree`. `QueueInv` divides the allocated nodes into those that
  a thread has for itself (`Owned`) and the list, in which every node but the last has
  one successor, and no two the same one (`Linked`). `tail` may point to a freed node for
  a moment, but only while the enqueuer that has linked the last node is about to move it,
  and has the lock of the tail.
* `QueueIsFifo`: `ImplementsFifo`, every enqueue appends its own value when it links its node, every
  dequeue takes the oldest value when it moves the head, or finds the queue empty when it reads `next`, and
  no other step changes the contents. `Listed`: the nodes from the dummy on are a list of some length that leads to
  each of them once. The value of a node is linked in with the node, and a dequeuer that moves
  the head takes the value of the first.
* `QueueLeaksNothing`: `NoLeak`, the list is a bijection between its positions and the
  nodes that are allocated.
* `LosesNoAmount`: `NothingLost` is inductive together with `CpuHeld`, that a thread in
  `update` alone has the lock of its CPU, so that a local count that has been transferred is
  not added to until it is reset.
* `LagsBounded`: `BoundedLag`, at any time. A CPU whose count has reached the threshold is
  about to be reset by the thread that saw it (`BelowThreshold`), and that thread, before its transfer,
  found the count below the threshold without its own amount (`FoundBelow`). `SumOfLess`
  takes these amounts from the sum over the CPUs, since no two of the threads have the same CPU.
* `GetsMonotonically`: `GetMonotonic`, from `global <= added`.
* `StopsWithWorkDone`: `StopsOnlyWhenDone` of ThreadsApi. `ApiInv` has a part for each of the five
  programs, which relates the calls that its threads have left to the locks, the flag, and
  what has been counted and printed. In `main-signal-cv.c` a thread that sleeps still has the signal
  to come, because `done` is set and signalled under the lock it tests it under.

**CntxtSwProofs.** `OpenByLiving` and `UsedOpen` tie the open ends to the processes
that live, `UnusedClosed` to how far each has come in its first round, and `Balance`
the messages in the pipes to the rounds of both.

* `NobodyWaits`: `NobodyWaitsInVain`. A process that waits alone has closed its own
  writing end of that pipe, so the other one has it and lives; if both wait, both pipes are
  empty, which `Balance` excludes.

**ProgramsProofs.**

* `NeverBothRead`: `NeverBothReading` of TcpChat. `OneSpeaks`: while the client reads, and the
  server reads or has yet to accept, a part of a message is on its way.
* `OneFileUnzips`: `FirstFileExact` of Wzip, for any alphabet and files of any length. In
  the first file the run in hand is of the character before (`RunInHand`), so that what is
  printed and in hand decodes to what has been read, and two runs in a row differ
  (`RunsDiffer`). `ScanFirst` goes through the branches of `readlines` for this;
  `FlattenAppend` and `DecodeAppend` are the lemmas on decoding. In a second file
  `RunInHand` fails, which is what `wzip_files` shows.
* `LinesSurvive`: `NothingOverwritten` of ForkExec, for any number of directories in
  `indexpath()`. `OneOpens`: one process at most has an `open` to come, which may fail, and until then
  the file is nobody's. `SharedEnd`: all descriptors of a file come from one opening, whose
  offset is the end of the file. The lists of calls enter only by where their `open` is
  (`Plain`, `Opening`).
* `WaitDeterminesOutput`: `WaitMakesDeterministic` of ForkExec. `WaitInv` follows the programs with
  a `wait` from before the `fork` (`Alone`) over the time both processes live (`WithChild`),
  in which the parent writes nothing before it has waited, to the time after (`AfterChild`), and
  says for each what is in the file and in the buffers. The text that `fork` copies is
  in both buffers, unless stdout is a terminal or `exec` has dropped it.
* `ReportsTruly`: `ReportTrue` of NumSearch, for files of any length, any numbers, any
  `MAXLINES` and either library. `SearchInv`: the parent reads when the child has ended, so that what it has in
  memory stays the numbers of the file. `BinsearchSound`: what the loop finds is the number it looks for,
  in an array in any order. For a number that is not found: `MergeCorrect` and `QsortCorrect`, the merge sort
  of the GNU library, under a comparison that never says less, gives the same numbers in order, and
  `BinsearchCorrect`, in an ordered array the loop finds the number iff it is there,
  because what is outside the window from `low` to `high` is not it.
* `SetThatFitsIsSearched`: `WholeSetSearched`, if the child is told to write at most `MAXLINES` numbers
  and the library asks for "greater". The file is then never longer than what is read
  (`FileBounded`).
  Without the first hypothesis it is false (`texts`), and without the second, too: an array in another order
  hides a number that is there.

**RecursionTheorems.** A recursive function of TLA+ is whatever function satisfies its
equation, if there is one. `RecursionExists` shows that there is one when the equation looks
only at arguments of lower rank (length of the lists, width of the window), and
`NatSetInduction` and `SubsetInduction` are induction in the form the provers can use, over a
set in place of a predicate. On them rest the sums over finite sets (`SumOfDiffer`: a sum changes
by what one of its terms changes; `SumOfLess`: what is taken from some terms is taken from the
sum) and all that is proved of `merge`, `qsort`,
`binsearch`, `Behind` and the decoding of `wzip`. The lemmas on sequences that are written out
(`OneMore`, `TwoJoined`, ...) say what appending does to the short outputs of ForkExec and ThreadsApi.

**Only model-checked.** Liveness under fairness and `ENABLED` are out of reach of
the prover: `Termination` and the progress of the queue stay with TLC. What `Termination` needs
besides fairness is proved, that somebody can go on (`NeverDeadlocks`) and that nobody can do so for
ever (`WorkGoesDown`). Barrier, Vector, TwoCvsExtraUnlock and the runs
that expect a violation are about counterexamples, which need no proof.

## 7. Not modelled

* **Tracing and pauses of threads-cv** (`main-header.h`, `common.h`): they print and
  sleep, and change no shared state.
* **Skeletons of threads-sema** (`fork-join.c`, `rendezvous.c`, `mutex-nostarve.c`): the
  functions to write are empty.
* **`main()` of the shell**: it reads one line, splits it and prints the words. Its
  array is one element too short for every line (a hazard in `PROJECT.json`).
* **wcat, wgrep, wunzip**: the first two read and print; the third is empty.
* **cdecl**: `main.c` does not compile, and the parsing of a declarator is
  pseudo-code in comments.
* **memory**: arithmetic on the numbers of homework questions, and plots of it;
  `smalltables.py` does not parse.
* **measurement, process, prstrexec, stat**: each makes one call and prints the result;
  `system.h` of stat is a vendored header.
* **tester**: shell scripts that compare outputs.

Hazards that no property covers, with the reason in `PROJECT.json`: consumers that
are not asked for (`-c 0`), where the outcome depends on numbers that nothing checks;
what a compiler or a stack frame decides (`main-signal.c` optimised, the pointer that
`Pthread_join` stores into an `int`); a caller of `List_Insert` that takes a failed
insertion for a good one; a line longer than the chat's buffer, and the shell's array; an empty
file in front of `wzip.c`, which opens it for ever, as `Close` in Wzip models, although
nothing says what it should do.

## 8. Plan

Done, in this order, the most intricate program first: ProducerConsumer,
StreamQueue, TwoCvsExtraUnlock, ProducerConsumerProofs; VectorArgs, VectorAdd,
AtomicVectorAdd, VectorAddProofs; RwLock, Barrier; ApproxCounter, ConcQueue,
ConcHash, MCThreadsLocks; ThreadsApi; CntxtSw, TcpChat, ForkExec, NumSearch, Wzip, Vector,
MCPrograms, MCTexts; RwLockProofs, CntxtSwProofs; RecursionTheorems, StreamQueueProofs, the
refinements, ThreadsLocksProofs, ProgramsProofs; one producer and one consumer, the work that is
left, the lag of the counter while calls are under way, the programs of threads-api, `wait`,
and the texts of the repository that its programs contradict.

Next:

1. The safety of TwoCvsExtraUnlock as far as it goes: the types, and that `main()` still stores
   its markers last.
2. Barrier: that `players`, which starts at 0 and is counted down first, never exceeds 0, for any
   number of threads.
3. `-c 0`: that `main()` returns if and only if all items fit the ring.
