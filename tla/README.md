# Verification of LinuxCourseCodePub

The repository is the code of a Linux programming course: small programs that
each show one mechanism (threads and mutexes, condition variables, message
queues, processes, pipes, signals) and two little libraries.  This directory
holds TLA+ models of them, the TLC configurations that check the models and
TLAPS proofs of the main results.  `PROJECT.json` maps every definition to the
source lines it stands for, and lists runs, mutants, findings, hazards and
theorems.

## 1. Inventory

There is no program that uses all parts; parts interact by being variants of
one another (the five producer/consumer programs, the five message queue
programs) or by being linked together (the crypt and random libraries and
their benchmark).

| part (under `src/`) | state | operations | hard behaviour | what makes it correct | status |
|---|---|---|---|---|---|
| `threads/producer_consumer/producer_withbroadcast.c`, `producer_withsignal.c` | `g_counter`, `g_lock`, `g_cv_not_empty` | produce a batch, consume one, wait, wake | wait under `if`, wakeup after unlock, spurious wakeups, starvation at the mutex | mutual exclusion, atomic counter, no lost wakeup, consumption goes on | modelled, safety proved |
| `producer_withbroadcast_andtimeout.c` | the same, deadlines, `exit` | the same, time out | deadline racing a broadcast | behaves as the program without deadlines; one batch, then exit | modelled, safety proved |
| `producer_bug.c` | `g_counter` without lock | `++`, `--` | data races | range of the counter, direction of stores | modelled, proved |
| `producer_bug_busywait.c` | `g_counter`, `g_lock` | produce, poll | polling under the lock | atomic counter; both work for ever unless the mutex is kept from one | modelled, safety proved |
| `threads/reader_writer/mq_withoverflow.c` | POSIX queue, counters | look, send, receive, print | stale look, several readers, queue outlives process | writer never blocks, delivery in order | modelled, proved |
| `mq_withoverflow_nonblock.c` | the same, `errno` | send or be refused | sticky `errno`, gaps | ascending delivery, flow goes on | modelled, safety proved, one finding |
| `mq.c` | POSIX queue, never unlinked | send, receive | leftovers of killed runs | order within a run | modelled, proved |
| `ipc/mq_ipc.c` | queue, processes | fork, then as `mq_withoverflow.c` | failing fork, killed while launching | order, messages arrive unless a launch failed | modelled, safety proved |
| `ipc/execv/*` | queue, processes, messages of two types | vfork, execv, send, receive | failing execv that falls through, float counter | messages arrive, types match values | modelled, safety proved, one finding |
| `threads/reader_writer/rwlock.c` | `g_counter`, rwlock, each reader's index | write a batch, catch up | readers that never all leave | readers see whole batches, print everything | modelled, safety proved |
| `threads/deadlock/threads_deadlock.c` | two mutexes | lock both | circular wait, no unlock | (it must not end) | modelled, proved |
| `threads/threads_basic.c` | argument array, threads | create, double, join, free | argument is result, creation fails | every result doubled once before the free | modelled, safety proved |
| `processes/pipe.cpp` | three pipes, buffers, child | run, wait, drain, copy | full pipe against waitpid, short reads, failing fork | what is captured, when it hangs | modelled, safety proved |
| `processes/piperw.cpp`, `piperwp.cpp` | pipe, TLV | write, read | framing over a byte stream, end of file, killed writer | messages are read whole, reader ends | modelled, safety proved |
| `processes/signals.cpp` | pending and blocked signals, handlers | install, block, unblock, handle | signals between any two calls, nested handlers | none lost, none early | modelled, safety proved |
| `processes/waitpid.cpp` | child state, pending report | stop, continue, terminate, wait | overwritten reports, signal before pause | the end is never missed | modelled, safety proved, one finding |
| `mta_crypt_lib/mta_crypt.*` | provider, cipher, contexts | init, encrypt, decrypt | partial initialisation, a failure of any call | no leak, lengths reported exactly on success | modelled, proved; one finding |
| `mta_crypt_lib/test_encrypt.c` | counters, lengths | encrypt, guess, decrypt, count | assertions on every call | assertions fail only if OpenSSL does | modelled, proved |
| `docker/app/*` | archive, sources, names | scan, add, close, run again | ownership on error paths, reruns over an archive | no source freed that the archive took, order of names, nothing added behind a name that is archived already | partly, `UTIL_ZIP_create` proved |
| `processes/fork.cpp`, `execv.cpp`, `dup2.cpp`, `readnonblock.cpp`, `mta_crypt_lib/mta_rand.*`, `threads/threads_with_attr.c`, `syslog/`, `bash/`, `compilation/`, build files | - | - | - | - | not modelled, see section 8 |

`PROJECT.json` lists under "hazards" the places where this code is hard to
test, with the properties that watch them or the reason why none does.

## 2. The modules

Primitives, each an operator library over one variable that a program conjoins
to its steps; a call that would block is a step that is not enabled:

* `Mutex`: a `pthread_mutex_t`, the thread that holds it.
* `CondVar`: a `pthread_cond_t`, the set of threads blocked on it, with
  spurious wakeups.
* `MessageQueue`: a POSIX queue, a bounded sequence that outlives processes.
* `ProducerAndConsumer`: the two threads of the programs without a condition
  variable.

Abstract specifications and what implements them:

* `SharedCounter`: a counter that changes by whole productions and
  consumptions.  `CondProducerConsumer` and `BusyWaitProducerConsumer`
  implement it (property `CounterIsAtomic`).
* `CondProducerConsumer` is itself the abstract specification of
  `TimedProducerConsumer` (`ImplementsUntimed`): a timeout maps to a spurious
  wakeup, the moment between computing a deadline and waiting to the test
  before it.  So everything shown of the program without deadlines holds of
  the one with deadlines too.
* `OrderedDelivery`: numbered messages delivered once, in order, by whoever
  asks.  `OverflowQueue` implements it (`DeliversInOrder`), `PlainQueue` does
  for the messages of one run (`OursInOrder`), and so does `LaunchedQueue` with
  the processes of `mq_ipc.c`.

Programs of threads.  Threads are model values, `pc` names what a thread does
next, and a step is one library call or one access to a shared variable.
`g_counter += 100` and `g_counter--` are a load into `reg` and a store from
it; only the lock can make them atomic.

* `CondProducerConsumer`: `Acquire`, `PTest`, `PAdd`, `PUnlock`, `PWake`
  follow `producer()` line by line and `Acquire`, `CTest`, `CReturn`, `CTake`,
  `CStore`, `CUnlock` follow `consumer()`.  `CTest` enters
  `pthread_cond_wait` in the step that gives up the mutex, `CReturn` leaves it
  with the mutex taken.  `WakeAll` and `Batch` choose between the broadcast
  and the signal program.
* `TimedProducerConsumer` extends it with a clock in seconds: `TTest` fixes
  the deadline before `TWait` waits, `TTimeout` ends the wait at the deadline,
  `TExit` is `exit(-1)`.  In behaviours with `prompt` threads run at once, as
  on an idle machine.
* `RacyProducerConsumer`: test, load and store of both threads, no lock.
  `BusyWaitProducerConsumer`: the same under a lock, with polling.
* `RwCounter`: the lock is the set of its readers and whether the writer has
  it; every round of the two inner loops is a step.
* `LockOrder`: two threads, two mutexes that are never given back, and the
  joins of `main`.
* `ForkJoin`: `main` creates, joins, prints and frees; a creation may fail and
  the assertion then ends the process.

Programs with a message queue.

* `OverflowQueue`: `WGetAttr`, `WTest`, `WSend` are the writer's loop and
  `RReceive`, `RPrint` a reader's; `Restart` kills the process in any state and
  runs the program again, with the `mq_unlink` of `main`.
* `NonblockQueue` extends it with the writer that lets `mq_send` refuse
  (`NCount`, `NSend`, `NReport`), `ret`, `errno`, and the history variable
  `wrapped`.
* `PlainQueue`: the queue of `mq.c`, whose `Restart` keeps what is in it; a
  message remembers whether this run sent it.
* `TypedQueue`: writer and readers that agree on the type of each message
  only through the message; a float is the number of its halves, and `FloatInc`
  stops where adding 0.5 changes nothing.
* `LaunchedQueue`: the processes of the two programs above (`OverflowQueue`
  for `mq_ipc.c`, `TypedQueue` for `mq_ipc_vfork_*.c`) as they are forked or
  vforked and executed.  While a vforked child has not executed, `main` is
  suspended; a child whose execv fails becomes the process that runs `main`'s
  code.

Processes.

* `TlvPipe`: the pipe is a stream of units that knows nothing of messages.
  `tlvSplit` chooses between the two programs.  The child may be killed
  anywhere (`TlvKill`), and a read may find part of what it asks for.
* `PipeCapture`: `execute()` with a failure at every `pipe`, `fork` and
  `execl`; bytes are numbers (`CapByte`), those of the output above 0, those of
  the errors below -1, so that the copy of a buffer up to its first
  zero shows which old bytes come along.  `CapIs` says which bytes of a stream
  a text has, by the places they are at.
* `WaitStates`: the child, the sender of signals and the parent meet in one
  variable, the change of state that the kernel holds for `waitpid`.
* `SignalMask`: one signal mask, one pending bit per signal, a stack of
  handlers.

Libraries.

* `CryptLibrary`: the validations in their order, then one step per OpenSSL
  call, each of which may fail.  `CryptBenchmark` extends it with `main` of
  `test_encrypt.c` as a caller, beside a caller that does as it likes.
* `ZipArchive`: `UTIL_ZIP_create` with a failure at every libzip call, and
  the archive on disk, which outlives the run.  Between two runs
  `ZpFilesChange` gives the directory any other contents and may take the
  archive away.

Compositions for TLC.  `PollingPrograms`, `QueuePrograms`, `ThreadPrograms` and
`ProcessPrograms` put independent programs side by side; a behaviour is one of
one of them, chosen at the start, and the other programs' variables stay as
they are.  They exist to check several programs in one run; nothing in one
program can disturb another.

Definitions commented "As X, ..." are variants of X with a plausible bug, used
as mutants only; every property is violated by at least one.

## 3. Runs

| run | question | instance | distinct states |
|---|---|---|---|
| `broadcast` | lock, wakeups, bound and atomicity of `producer_withbroadcast.c`; is a sleeper always woken, does consumption go on? | 3 consumers, `MAX_SIZE` 2, batches of 2 | 37 178 |
| `signal` | is one signal enough for one consumer? | 1 consumer, `MAX_SIZE` 6, batches of 1 | 585 |
| `timed` | is the program with deadlines the program without, when deadlines race broadcasts and threads are delayed? what does it do on an idle machine? | 2 consumers, `MAX_SIZE` 2, batch 2, wait 2 s, sleep 3 s, clock up to 5 s | 328 698 |
| `polling` | what do the races leave intact, is polling atomic, and does anything but the mutex stop a thread? | `MAX_SIZE` 8 | 1 364 |
| `queues` | the five queue programs: does the writer block, are messages lost, repeated, stale or taken for the wrong type, does the flow go on after refusals, kills and failed launches? | 2 readers, queue of 2, unsigned wraps after 3, float stops at 2.0, `int` bound 4 | 10 906 |
| `nonblock_report` | is a message reported as refused only if it was? (no) | the same | violation |
| `launch_exec` | does only the parent come to its `pause()`? (no) | the same | violation |
| `threads` | what do readers see under the rwlock, how does the deadlock program get stuck, what do joins return? | 3 readers, batches of 2, counter to 6; up to 3 threads | 11 698 |
| `processes` | messages over a pipe, capture, wait states, signals, archives, with kills and failures anywhere | texts of 2, reads of 2, pipe of 4, output up to 5, garbage up to 3, 5 signals, 3 names | 21 212 |
| `waitpid_term` | does SIGTERM kill the child, as the header says? (no) | - | violation |
| `crypt` | contexts, lengths and initialisation under any caller and under the benchmark | key lengths 0, 3, 64, 65; data lengths 0, 8, 12, 512, 520; 2 rounds of 2 | 760 |
| `crypt_blocks` | is data of a length that is no multiple of 8 refused, as the header says? (no) | data of 8 and 12 | violation |

Why the bounds are enough.  The producer/consumer programs only compare the
counter with 0 and `MAX_SIZE`, and the queue programs the length of the queue
with its limit: the instances reach both ends, overshoot the limit by part of a
batch, empty and refill, and let all threads queue up at the mutex, on the
condition variable and at the queue.  In `broadcast` two consumers may sleep
while a third overtakes.  Unsigned counters wrap and the float stops inside the
instances.  In `processes` a pipe may be filled exactly and overfilled by one,
reads may be whole or short, and a directory may get a name before, between
or behind those of an earlier archive, and lose those in it.  The lengths in
`crypt` lie on both sides of every limit the code tests.  Artificial bounds,
each a constant: `MaxTime` (the clock of `timed`; with prompt threads the process exits before
the clock gets there, otherwise only safety is checked), `PlainMax` (stands
for the overflow of `mq.c`'s signed index), `RwMaxCounter`, `FjMaxThreads`,
`CapMaxTotal`, `CapMaxGarbage`, `SgMaxSends`, `ZpMaxName` and the rounds of
the benchmark.

Deadlock is checked where the programs cannot stop.  The configurations that
switch it off say which program stops: processes that exit or are killed, a
capture that hangs, the deadlock program.

## 4. Fairness

* Weak fairness of every thread's or process's steps (`Fairness`, `NFairness`,
  `LnFairness`, `RwFairness`, `TlvFairness`, `CapFairness`, `WpFairness`, `SgFairness`,
  `DlFairness`, `FjFairness`, `TFairSpec`).  The programs run under the default
  scheduler of Linux, which runs whatever is runnable.  Spurious wakeups,
  kills, restarts and senders of signals have no fairness, and the properties
  say what holds unless they never end.
* `WpFairness` has the child's own steps apart from the delivery of signals:
  signals that keep coming do not keep the child in its handler for ever.  A
  child that is stopped again and again has no such promise.
* No specification has strong fairness.  `LockFairness` (strong fairness of
  taking the mutex) is what a default `pthread_mutex_t` does not promise, and
  it stands as a premise in the properties that need it.
  `ConsumptionNeverStops` fails without it because a producer at its limit
  that locks and unlocks for ever (`sleep(0.1)` is `sleep(0)`) may always be
  the one that gets the mutex; `BothThreadsWork` because a consumer that polls
  may.  So these properties show that nothing else stops the threads, and
  starvation at the mutex is a hazard that no property covers.
  `WaitersAreWoken` does without the premise.
* `RwLockFairness`, a premise of `EverythingIsRead`: the rwlock, if it is to
  be had again and again, is not kept from a thread for ever.  Even so the
  readers may keep the writer out by turns, because the lock is then never
  free: the property names that as the one way in which not everything is
  read, and does not exclude it.

## 5. Proofs

TLAPS proves every safety property that a passing run checks, for all values
of the constants, with the `ASSUME`s on them only.  Each proof has the same
form: an inductive invariant (`IInv`, with the program's prefix where a module
has several) that holds initially, that every action keeps, one lemma or one
step per action, and that implies the property.

`CondProducerConsumer_proofs` (any number of consumers, limit and batch; with
`WakeAll = FALSE` at most one consumer): `TypeOK`, `LockHeld`, `NoLostWakeup`,
`CounterBound` and the refinement `CounterIsAtomic`.  The invariant adds to
these what a thread's register says: between load and store it equals
`g_counter`, and the test made before still holds.  Both follow from the lock,
which is why `LockHeld` is part of it; `NoLostWakeup` needs that a consumer
decides to wait in the step that gives up the mutex.

`TimedProducerConsumer_proofs` (also any patience):

* `TimedTypeOK` and the refinement `ImplementsUntimed`.  The invariant adds to
  the lock and the registers that a consumer between its test and its wait has
  the lock and sees an empty counter: its wait is then the one that the other
  program's test decides on.  With the theorems above, the program with
  deadlines implements the atomic counter as well.
* `OneBatchThenExit`.  On an idle machine the clock moves only when no thread
  can.  `OneBatch`: everybody waits since the start of the process
  (`WaitsFromStart`), the producer has not slept yet or sleeps until after the
  deadline (`SleepsOnce`), and once time has passed nothing is left to consume
  (`NothingLeft`), which needs that a broadcast leaves nobody asleep beside an
  item.  `AtOnce` restricts this to behaviours in which threads run at once.

`OverflowQueue_proofs` (any readers, queue length, integer width): `TypeOK`,
`WriterNeverBlocks` and the refinement `DeliversInOrder`.  (`TypeOK` is part of
the invariant; no run checks it.)  `Linked` says that
the queue is a chain of successors from the number delivered last to the
number sent last; `Room` that the writer's old look errs on the safe side.

`QueuePrograms_proofs` (any readers, queue length, widths and bounds):

* `NonblockAscends`.  `Ascending`: as long as the counter has not wrapped, what
  was delivered last, what is in the queue and what the writer is about to send
  ascend, with gaps where a send was refused.
* `TqChain`.  `TqLinked`: what readers make of the queued messages is a chain of
  halves from what they made of the last one to what the writer sent; `Encoding`
  is the lemma that reading a message by the type it carries gives back the
  number.
* `PlainInOrder`, a refinement.  The queue splits in two (`PqSplit`): what
  earlier runs have left, then this run's numbers one after the other; the
  length of the second part is what is under way.
* `Launched`: the processes of `mq_ipc.c` do to the queue what the threads of
  `mq_withoverflow.c` do.  So `LaunchedIsFree` and `LaunchedInOrder` state of
  them what `OverflowQueue_proofs` states of the threads.

`ThreadPrograms_proofs`:

* `RwWholeBatches` (any readers and batch).  Counter and rest of the batch
  together are a multiple of the batch, so that the counter is one whenever the
  writer is out; a reader that leaves has printed up to the counter.
* `NeverReturns`: `main` of the deadlock program does not come past its joins.
  A thread that has come to its n-th mutex has it from then on, so both cannot
  have come to their second.
* `FjResults` (any number of threads).  An argument is doubled exactly when its
  thread has come past the doubling (`FjArguments`), and a thread that `main`
  has joined is at its end (`FjJoined`).
* `producer_bug.c` (any `MAX_SIZE`): types, `RangeDespiteRaces`,
  `StoresKeepDirection`.  The invariant says what a thread still knows after
  its test or load: the consumer has only moved the counter down, the producer
  only up.
* `producer_bug_busywait.c` (any `MAX_SIZE`): types, `LockHeld` and the
  refinement `CounterIsAtomic`, as for the condition variable programs.

`ProcessPrograms_proofs`:

* `WpLastWord`.  A report that the kernel holds is of the child's latest change
  (`WpReported`), and an end is reported or already read; after it is read
  nothing else is reported (`WpRead`).
* `SgProtected`.  `SgBlocked`: between the two calls of `sigprocmask` SIGINT is
  in the mask and its handler is not on the stack; how the process ended tells
  how far `main` had come.  `SgNested` is the lemma on what the start and the
  return of a handler do to the stack.
* `ZpRunOK` (any set of names).  The names added so far come before all that are
  still to do (`ZpFront`); a source belongs to a name still to do until the
  archive takes it, and what was added is not on disk yet (`ZpSources`).  Of
  the directory and the archive that a run finds the proof uses nothing but
  that they are sets of names.
* `TlvIntact` (texts of any length), of what is read, not of what is printed.  The pipe holds the stream between the
  place read and the place written (`TlvHolds`); the first is the place that
  the parent's label and fields say (`TlvHasRead`), the second the child's
  (`TlvHasWritten`).  A kill or a short read cuts the stream, but it never
  moves one of the places apart from the other side's bytes.

`PipeCapture_proofs` (any size of reads, pipes, output and garbage):
`CapResult`.  `CapOrder`: nothing is read before the command has
ended, and all of StdOut before any of StdErr; because `waitpid` comes first
the pipe no longer fills while it is drained, so only the last read of a stream
is short.  `CapBufferOK`: something ends the text in the buffer, and when a
round of the loop comes, the buffer holds exactly the chunk read before it.
`CapSoFar`: what has been read is captured, and if the last read was short
also the rest of the chunk before (`CapExpected`).  The lemmas under it are
about division (`Remainder`), `strlen` (`Strlen`) and about which bytes a text
has after a piece was added to it (`Added`).

`CryptBenchmark_proofs` (any lengths and rounds): `CcEndsClean`,
`CcInitPrecedes` under any caller, the same two under the benchmark, and
`TcBenchmarkOK`.  The library's invariant ties the stage of a call to the
context and the reported length, and the two globals to the outcome of the
latest initialisation.  The benchmark's says when the library is usable
(`Usable`) and where its count lies: at least the right guess of each round
that is over, at most all guesses (`Guesses`).

Assumptions worth a word.  `ConsumersAssumption` of the program with deadlines
says that there is a consumer, as its `main` starts some; without one the
producer's sleep would just pass.  The other `ASSUME`s say that lengths and limits are numbers of the right
sign and that thread names differ.

Model-checked only:

* Every liveness property: `WaitersAreWoken`, `ConsumptionNeverStops`,
  `ProcessExits`, `BothThreadsWork`, `ThreadsKeepReceiving`,
  `ProcessesKeepReceiving`, `EverythingIsRead`, `EndsStuck`,
  `ThreadsAreJoined`, `MessagesEnd`, `CaptureReturns`, `BothEnd` and
  `AllHandled`.  They rest on fairness, whose definition has ENABLED, which
  TLAPS does not expand.  (`NeverReturns` is the safety part of `EndsStuck`.)
* The properties of the runs that expect a violation: TLC's counterexample is
  all there is to show.

## 6. Findings

* `mq_withoverflow_nonblock.c:77` tests `errno` without the return value and
  nothing clears it: after the first refusal every message sent is reported as
  "reached max number of messages" (run `nonblock_report`).
* `mq_ipc_vfork_parent.c:27`: no exit follows the execv, so a child whose execv
  fails launches the rest itself and comes to the `pause()` of which the
  comment says "only parent process should get here" (run `launch_exec`).
* `waitpid.cpp:56`: the header promises "killed by signal 15" after
  `kill -TERM`, but the child handles SIGTERM and exits (run `waitpid_term`).
* `mta_crypt.c:117`: the header promises an error for data that is no multiple
  of 8 bytes, but decryption does not validate its data (run `crypt_blocks`).

What the properties say of other weak points, without a promise in the
repository that they would break: `CaptureReturns` names the capture that hangs
(`pipe.cpp` waits for a child that waits for room in a pipe), `CapResult` the
old bytes that are copied after a short read, `MessagesEnd` the reader that
reads ends of file for ever after its writer was killed, `ZpRunOK` the run that
ends at the first name of the directory that the archive has already, so that
nothing behind it is added.  One weak point is in no model: `piperwp.cpp:53-54`
allocates exactly `length` bytes for a value and leaves no zero byte behind
them, and line 97 prints the buffer with `%s`, which may read beyond it
(`piperw.cpp` has room for 1024 bytes, all zero before the read).

## 7. Abstractions

Printing is a step only where it separates two others; its text is left out.
Calls of the pthread and mqueue libraries do not fail where the code does not
look at their results.  `producer_bug.c` has data races, undefined in C; it is
built without optimisation (`threads/Makefile`) and every access is to one
aligned int, so the model takes the interleavings of loads and stores.  In
`MessageQueue` all messages have priority 0, as in the code.  Other programs
that use the queue "/my_mq" at the same time are not modelled; nor is a rerun of
the execv version, whose children of two runs may meet on one queue.  The clock
of `timed` only goes forward; a CLOCK_REALTIME that somebody sets is left out.
`errno` of the nonblocking writer is changed by `mq_send` only.

`StdOut` and `StdErr` of `pipe.cpp` (4096 bytes each) have room for all that is
captured: the overflow of these arrays is outside the model, and so is a
`buffer` without a zero byte, beyond which `strlen` would read.  `TlvPipe`
carries the value that was read, not the string that `printf` makes of it (see
section 6).  `mq_ipc_vfork_writer.c:42` sends `MQ_MAX_MSG_SIZE`, 100 bytes, from
an allocation of 8: what it sends behind the message, and whether it may read
there, is left out.  In `WaitStates` a pending SIGTERM may survive calls of the
child that a kernel would deliver it at; the model allows more behaviours than
there are.  Writes to a pipe in
`TlvPipe` are atomic, being smaller than PIPE_BUF, and the pipe is never full.
A library that is not in the repository is modelled from its use: OpenSSL by
which call may fail and by whole blocks of 8 bytes, libzip by a name that can
be added only once and an archive that changes on close.  In
`ZipArchive` names are numbers, and a name is that of a file or of a directory
in all runs; the directory and the archive change between runs only, and a
file that goes away during a run is one whose `fopen` fails.  Contents of data and
keys are left out; a wrong key may or may not decrypt to the password.

## 8. Not modelled

* `main` of `docker/app`: a `scandir` that fails gives a negative array size,
  and the loop at `main.c:34` frees 100 entries however many there are; both
  are undefined behaviour whose outcomes a model cannot enumerate.
  `UTIL_ZIP_create` is modelled.
* `fork.cpp`, `execv.cpp`, `dup2.cpp`, `readnonblock.cpp`: a handful of calls
  in one order, with no state but stdio buffers and descriptors.
* `mta_rand.c`: a straight loop over a buffer; its seed is the clock and what
  the buffer held.  For the benchmark random data is external.
* `threads_with_attr.c`: sets priorities and affinities, whose meaning is the
  kernel's.
* `syslog/`, `bash/`, `compilation/`, build and packaging files: no state.

## 9. What is left

No safety property of a passing run is without a theorem.  What could be added
are further abstract specifications: the TLV programs as a queue of whole
messages, and the rwlock program as an atomic counter of batches.  A rerun of the execv
programs, where writers and readers of two runs share a queue, is not modelled.
